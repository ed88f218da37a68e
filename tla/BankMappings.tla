---------------------------- MODULE BankMappings ----------------------------
(***************************************************************************)
(* Column mappings a person confirmed for a bank's statements: the tables  *)
(* of ledger/bank_mappings.py, edited by concurrent requests, and the      *)
(* upload that is read under the mapping it names only when detection, on  *)
(* its own, selects that mapping's active version.                         *)
(*                                                                         *)
(* A header row is what a read of a file, by a delimiter and an encoding,  *)
(* finds in its first line; Form is its safe normalization.  A declaration *)
(* is the column mapping of one version, with the read it declares.        *)
(* Requests that are refused before they write change nothing and are left *)
(* out.                                                                    *)
(***************************************************************************)
EXTENDS Naturals, FiniteSets

CONSTANTS
    Mapping,          \* ids of saved mappings
    Name,             \* labels a person gives them
    Header,           \* header rows as written
    Form,             \* [Header -> ...], the normalized row
    File,             \* statements a person may upload
    Dialect,          \* reads: a delimiter and an encoding
    Seen,             \* [File \X Dialect -> Header, or Unreadable]
    Declaration,      \* column mappings
    DialectOf,        \* [Declaration and BuiltIn -> Dialect], the read it declares
    Confirmable,      \* the <<declaration, header row>> that validate together
    BuiltIn,          \* profiles shipped with the program
    BuiltInHeader,    \* [BuiltIn -> Header]
    Editor, Upload,   \* requests
    NoName, Idle, NoEntry, Refused,
    Unreadable,       \* a read that does not decode the file
    MaxVersions       \* bound on the version rows of all mappings

ASSUME BankMappingsAssumption ==
    /\ Confirmable \subseteq Declaration \X Header
    /\ Header \subseteq DOMAIN Form
    /\ Seen \in [File \X Dialect -> Header \cup {Unreadable}]
    /\ DialectOf \in [Declaration \cup BuiltIn -> Dialect]
    /\ Unreadable \notin Header
    /\ BuiltInHeader \in [BuiltIn -> Header]
    /\ Mapping \cap BuiltIn = {}
    /\ NoName \notin Name
    /\ MaxVersions \in Nat

VARIABLES
    name,             \* bank_mappings: the label of each id, or NoName
    versions,         \* bank_mapping_versions
    request,          \* the edit each editor has in flight
    corpus,           \* what detection compares each upload with
    claim,            \* what each upload asks to be read under
    reading           \* the entry an upload was read under

tableVars == <<name, versions>>
uploadVars == <<corpus, claim, reading>>
vars == <<name, versions, request, corpus, claim, reading>>

Row(m, v, x) ==
    [mapping |-> m, version |-> v, declaration |-> x[1], headers |-> x[2], active |-> TRUE]

Shipped(b) == [profile |-> b, headers |-> BuiltInHeader[b]]

Init ==
    /\ name = [m \in Mapping |-> NoName] /\ versions = {}
    /\ request = [e \in Editor |-> Idle]
    /\ corpus = [u \in Upload |-> {}]
    /\ claim = [u \in Upload |-> Idle]
    /\ reading = [u \in Upload |-> NoEntry]

----------------------------------------------------------------------------
(* create_mapping *)

\* SELECT ... WHERE name = ?: a name in use is refused.
AskCreate(e) ==
    /\ request[e] = Idle
    /\ \E n \in Name :
         /\ \A m \in Mapping : name[m] # n
         /\ request' = [request EXCEPT ![e] = [step |-> "create", label |-> n]]
    /\ UNCHANGED <<tableVars, uploadVars>>

\* Fault: versions are counted from zero.
FirstVersionZero == 0

FirstVersion == 1

\* One transaction: the mapping and its first version.  The unique index on the
\* name fails it if another request took the name since.
Create(e) ==
    /\ request[e] # Idle /\ request[e].step = "create"
    /\ Cardinality(versions) < MaxVersions
    /\ \A m \in Mapping : name[m] # request[e].label
    /\ \E m \in Mapping, x \in Confirmable :
         /\ name[m] = NoName
         /\ name' = [name EXCEPT ![m] = request[e].label]
         /\ versions' = versions \cup {Row(m, FirstVersion, x)}
    /\ request' = [request EXCEPT ![e] = Idle]
    /\ UNCHANGED uploadVars

----------------------------------------------------------------------------
(* add_version: four reads, then one transaction *)

VersionsOf(m) == {r \in versions : r.mapping = m}

ActiveVersion(m) == {r.version : r \in {s \in VersionsOf(m) : s.active}}

\* The mapping must exist; a label is optional.
AskEdit(e) ==
    /\ request[e] = Idle
    /\ \E m \in Mapping, n \in Name \cup {NoName} :
         /\ name[m] # NoName
         /\ request' = [request EXCEPT ![e] =
                [step |-> "active", mapping |-> m, label |-> n, was |-> name[m]]]
    /\ UNCHANGED <<tableVars, uploadVars>>

\* active_version: the version this edit will retire, none or one.
ReadActive(e) ==
    /\ request[e] # Idle /\ request[e].step = "active"
    /\ request' = [request EXCEPT ![e] =
            [step |-> "top", mapping |-> @.mapping, label |-> @.label, was |-> @.was,
             old |-> ActiveVersion(@.mapping)]]
    /\ UNCHANGED <<tableVars, uploadVars>>

\* SELECT MAX(version): the next version follows the greatest one.
NextVersion(m) ==
    (CHOOSE v \in {0} \cup {r.version : r \in VersionsOf(m)} :
        \A r \in VersionsOf(m) : r.version <= v) + 1

ReadTop(e) ==
    /\ request[e] # Idle /\ request[e].step = "top"
    /\ request' = [request EXCEPT ![e] =
            [step |-> IF @.label \in {NoName, @.was} THEN "write" ELSE "name",
             mapping |-> @.mapping, label |-> @.label, old |-> @.old,
             next |-> NextVersion(@.mapping)]]
    /\ UNCHANGED <<tableVars, uploadVars>>

NameTaken(m, n) == \E o \in Mapping \ {m} : name[o] = n

\* A new label must not be another mapping's.
CheckName(e) ==
    /\ request[e] # Idle /\ request[e].step = "name"
    /\ request' = [request EXCEPT ![e] =
            IF NameTaken(@.mapping, @.label) THEN Idle ELSE [@ EXCEPT !.step = "write"]]
    /\ UNCHANGED <<tableVars, uploadVars>>

\* Fault: the retired version is deleted, the new one stands for it.
RetireByDelete(m, old) == {r \in versions : ~(r.mapping = m /\ r.version \in old)}

\* UPDATE ... SET status = 'superseded' of the version that was read as active.
Retire(m, old) ==
    {IF r.mapping = m /\ r.version \in old THEN [r EXCEPT !.active = FALSE] ELSE r :
        r \in versions}

\* Fault: no index keeps a second active version out.
ConstraintsKeyOnly(q) ==
    /\ \A r \in versions : ~(r.mapping = q.mapping /\ r.version = q.next)
    /\ q.label # NoName => ~NameTaken(q.mapping, q.label)

\* The primary key, the partial unique index on the active version and the
\* unique index on the name; if one fails the transaction is rolled back.
Constraints(q) ==
    /\ \A r \in versions : ~(r.mapping = q.mapping /\ r.version = q.next)
    /\ \A r \in Retire(q.mapping, q.old) : r.mapping = q.mapping => ~r.active
    /\ q.label # NoName => ~NameTaken(q.mapping, q.label)

\* One transaction: retire, relabel, insert the next version.
AddVersion(e) ==
    LET q == request[e] IN
    /\ q # Idle /\ q.step = "write" /\ Constraints(q)
    /\ Cardinality(versions) < MaxVersions
    /\ name' = IF q.label = NoName THEN name ELSE [name EXCEPT ![q.mapping] = q.label]
    /\ \E x \in Confirmable :
         versions' = Retire(q.mapping, q.old) \cup {Row(q.mapping, q.next, x)}
    /\ request' = [request EXCEPT ![e] = Idle]
    /\ UNCHANGED uploadVars

\* A request ends without writing: a constraint failed its transaction, or the
\* process stopped at any of its steps.
Fail(e) ==
    /\ request[e] # Idle
    /\ request' = [request EXCEPT ![e] = Idle]
    /\ UNCHANGED <<tableVars, uploadVars>>

----------------------------------------------------------------------------
(* An upload *)

\* combined_registry: the shipped profiles and the active versions.
Corpus == {Shipped(b) : b \in BuiltIn} \cup {r \in versions : r.active}

\* The corpus is read before the uploaded files are.  The upload is of a
\* file, and claims a saved mapping's id or a built-in's.
ReadCorpus(u) ==
    /\ claim[u] = Idle /\ reading[u] = NoEntry
    /\ corpus' = [corpus EXCEPT ![u] = Corpus]
    /\ \E f \in File, m \in Mapping \cup BuiltIn :
         claim' = [claim EXCEPT ![u] = [file |-> f, id |-> m]]
    /\ UNCHANGED <<tableVars, request, reading>>

\* read_signature: each entry has the file read as it declares.
SeenBy(x, f) == Seen[f, DialectOf[IF "profile" \in DOMAIN x THEN x.profile ELSE x.declaration]]

FitsExactly(x, f) == x.headers = SeenBy(x, f)
FitsNormalized(x, f) == SeenBy(x, f) # Unreadable /\ Form[x.headers] = Form[SeenBy(x, f)]

\* inspect_bank_csv: the normalized tier is asked only when nothing matches
\* exactly; within a tier one entry is selected, several are ambiguous.
Matches(u) ==
    LET exact == {x \in corpus[u] : FitsExactly(x, claim[u].file)} IN
    IF exact # {} THEN exact
    ELSE {x \in corpus[u] : FitsNormalized(x, claim[u].file)}

\* Fault: the selected entry is compared by mapping only.
IsActiveOfAnyVersion(x, m) == x.mapping = m /\ ActiveVersion(m) # {}

IsActiveOf(x, m) == x.mapping = m /\ x.version \in ActiveVersion(m)

\* resolve_verified_saved_mapping and resolve_verified_built_in: detection must
\* have selected exactly what the client names.
Verified(u, x) ==
    /\ Matches(u) = {x}
    /\ IF claim[u].id \in BuiltIn THEN x = Shipped(claim[u].id)
       ELSE "mapping" \in DOMAIN x /\ IsActiveOf(x, claim[u].id)

Resolve(u) ==
    /\ claim[u] # Idle
    /\ reading' = [reading EXCEPT ![u] =
            IF \E x \in corpus[u] : Verified(u, x)
            THEN CHOOSE x \in corpus[u] : Verified(u, x) ELSE Refused]
    /\ corpus' = [corpus EXCEPT ![u] = {}] /\ claim' = [claim EXCEPT ![u] = Idle]
    /\ UNCHANGED <<tableVars, request>>

----------------------------------------------------------------------------
Next ==
    \/ \E e \in Editor :
         \/ AskCreate(e) \/ Create(e)
         \/ AskEdit(e) \/ ReadActive(e) \/ ReadTop(e) \/ CheckName(e) \/ AddVersion(e)
         \/ Fail(e)
    \/ \E u \in Upload : ReadCorpus(u) \/ Resolve(u)

Spec == Init /\ [][Next]_vars

----------------------------------------------------------------------------
(* Properties *)

Version ==
    [mapping : Mapping, version : Nat \ {0}, declaration : Declaration,
     headers : Header, active : BOOLEAN]
Entry == Version \cup {Shipped(b) : b \in BuiltIn}
Edit ==
    [step : {"create"}, label : Name]
    \cup [step : {"active"}, mapping : Mapping, label : Name \cup {NoName}, was : Name]
    \cup [step : {"top"}, mapping : Mapping, label : Name \cup {NoName}, was : Name,
          old : SUBSET Nat]
    \cup [step : {"name", "write"}, mapping : Mapping, label : Name \cup {NoName},
          old : SUBSET Nat, next : Nat \ {0}]

TypeOK ==
    /\ name \in [Mapping -> Name \cup {NoName}]
    /\ versions \subseteq Version
    /\ request \in [Editor -> Edit \cup {Idle}]
    /\ corpus \in [Upload -> SUBSET Entry]
    /\ claim \in [Upload -> [file : File, id : Mapping \cup BuiltIn] \cup {Idle}]
    /\ reading \in [Upload -> Entry \cup {NoEntry, Refused}]

\* However edits race, the versions of a mapping are one line 1, 2, ..., n of
\* which exactly the last is active, and no two mappings bear one name: reuse
\* never has to choose between versions, nor a person between labels.
OneLineOfVersions ==
    /\ \A m \in Mapping : name[m] # NoName => VersionsOf(m) # {}
    /\ \A r, s \in versions :
         r.mapping = s.mapping /\ r.version = s.version => r = s
    /\ \A r \in versions :
         /\ name[r.mapping] # NoName
         /\ \A v \in 1 .. r.version : \E s \in VersionsOf(r.mapping) : s.version = v
         /\ r.active <=> \A s \in VersionsOf(r.mapping) : s.version <= r.version
    /\ \A m, o \in Mapping : name[m] # NoName /\ name[m] = name[o] => m = o

\* What a person confirmed stands: a version keeps its columns and header row
\* for ever, so a batch that recorded (mapping, version) still names what it was
\* read under; it stops being active only as its successor is written.
ConfirmedVersionStands ==
    [][\A r \in versions :
         \/ r \in versions'
         \/ /\ r.active /\ [r EXCEPT !.active = FALSE] \in versions'
            /\ \E s \in versions' : /\ s.mapping = r.mapping /\ s.active
                                    /\ s.version = r.version + 1]_vars

\* No statement is read under a mapping that was superseded between the reads of
\* the upload, nor under one of two that fit it equally well, each by the read it
\* declares, nor under one that fits its header row less well than another.
ReadUnderItsMapping ==
    [][\A u \in Upload : reading'[u] # reading[u] /\ reading'[u] # Refused =>
         /\ FitsExactly(reading'[u], claim[u].file) \/ FitsNormalized(reading'[u], claim[u].file)
         /\ \A x \in corpus[u] \ {reading'[u]} :
              /\ ~FitsExactly(x, claim[u].file)
              /\ FitsNormalized(x, claim[u].file) => FitsExactly(reading'[u], claim[u].file)
         /\ reading'[u] \in versions \/ claim[u].id \in BuiltIn]_vars
=============================================================================

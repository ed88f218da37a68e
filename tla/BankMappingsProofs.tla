------------------------- MODULE BankMappingsProofs -------------------------
(***************************************************************************)
(* Saved bank mappings, for any number of mappings, editors and uploads.   *)
(* The inductive invariant is BankInv.  Besides the types and the shape of *)
(* the tables it says what an edit in flight remembers (every version      *)
(* before the one it will write exists) and what an upload remembers       *)
(* (every entry of its corpus is a row of the table, perhaps retired).     *)
(***************************************************************************)
EXTENDS BankMappings, TLAPS

\* A mapping that has a name has an active version.
SomeActive ==
    \A m \in Mapping : name[m] # NoName => \E r \in versions : r.mapping = m /\ r.active

\* Every version before v is on record.
PrecedingExist(m, v) ==
    \A n \in 1 .. (v - 1) : \E s \in versions : s.mapping = m /\ s.version = n

RequestSound ==
    \A e \in Editor : request[e] # Idle =>
        /\ request[e].step # "create" => name[request[e].mapping] # NoName
        /\ request[e].step \in {"name", "write"} =>
               PrecedingExist(request[e].mapping, request[e].next)

\* x was read as an active row; the table still holds it.
CorpusSound ==
    \A u \in Upload : \A x \in corpus[u] : x \in Version =>
        /\ x.active
        /\ x \in versions \/ [x EXCEPT !.active = FALSE] \in versions

BankInv == TypeOK /\ OneLineOfVersions /\ SomeActive /\ RequestSound /\ CorpusSound

----------------------------------------------------------------------------
(* What the operators return *)

\* The version read as the next one follows versions that all exist.
LEMMA NextVersionFollows ==
    ASSUME BankInv, NEW m \in Mapping, name[m] # NoName
    PROVE  NextVersion(m) \in Nat \ {0} /\ PrecedingExist(m, NextVersion(m))
  <1> DEFINE S == {0} \cup {r.version : r \in VersionsOf(m)}
             Top(v) == \A r \in VersionsOf(m) : r.version <= v
             t == CHOOSE v \in S : Top(v)
  <1>1. PICK a \in versions : a.mapping = m /\ a.active
    BY DEF BankInv, SomeActive
  <1>2. a.version \in S /\ Top(a.version)
    <2>1. a \in VersionsOf(m)
      BY <1>1 DEF VersionsOf
    <2>2. \A s \in VersionsOf(a.mapping) : s.version <= a.version
      BY <1>1 DEF BankInv, OneLineOfVersions
    <2> QED
      BY <1>1, <2>1, <2>2
  <1>3. t \in S
    BY <1>2
  <1>4. NextVersion(m) = t + 1
    BY DEF NextVersion
  <1> HIDE DEF t
  <1>5. CASE t = 0
    BY <1>4, <1>5 DEF PrecedingExist
  <1>6. CASE t # 0
    <2>1. PICK r \in VersionsOf(m) : t = r.version
      BY <1>3, <1>6
    <2>2. r \in versions /\ r.mapping = m /\ t \in Nat \ {0}
      BY <2>1 DEF VersionsOf, BankInv, TypeOK, Version
    <2>3. \A v \in 1 .. t : \E s \in VersionsOf(m) : s.version = v
      BY <2>1, <2>2 DEF BankInv, OneLineOfVersions
    <2>4. (t + 1) - 1 = t
      BY <2>2
    <2> QED
      BY <1>4, <2>2, <2>3, <2>4 DEF PrecedingExist, VersionsOf
  <1> QED
    BY <1>5, <1>6

\* Retiring keeps every row, up to the active flag of the retired ones.
LEMMA RetireKeeps ==
    ASSUME TypeOK, NEW m, NEW old
    PROVE  /\ Retire(m, old) \subseteq Version
           /\ \A d \in versions : \E r \in Retire(m, old) :
                 r.mapping = d.mapping /\ r.version = d.version
           /\ \A r \in Retire(m, old) : \E d \in versions :
                 /\ r.mapping = d.mapping /\ r.version = d.version
                 /\ r = IF d.mapping = m /\ d.version \in old
                        THEN [d EXCEPT !.active = FALSE] ELSE d
           /\ \A d \in versions : ~(d.mapping = m /\ d.version \in old) => d \in Retire(m, old)
           /\ \A d \in versions : d.mapping = m /\ d.version \in old =>
                 [d EXCEPT !.active = FALSE] \in Retire(m, old)
  <1> DEFINE Kept(d) == IF d.mapping = m /\ d.version \in old
                        THEN [d EXCEPT !.active = FALSE] ELSE d
  <1>1. \A d \in versions : /\ Kept(d) \in Version
                            /\ Kept(d).mapping = d.mapping
                            /\ Kept(d).version = d.version
    BY DEF TypeOK, Version
  <1>2. Retire(m, old) = {Kept(d) : d \in versions}
    BY DEF Retire
  <1>3. \A d \in versions : Kept(d) \in Retire(m, old)
    BY <1>2
  <1>4. \A r \in Retire(m, old) : \E d \in versions : r = Kept(d)
    BY <1>2
  <1>5. \A d \in versions : ~(d.mapping = m /\ d.version \in old) => Kept(d) = d
    OBVIOUS
  <1>6. \A d \in versions : d.mapping = m /\ d.version \in old =>
            Kept(d) = [d EXCEPT !.active = FALSE]
    OBVIOUS
  <1>7. Retire(m, old) \subseteq Version
    BY <1>1, <1>4
  <1>8. \A r \in Retire(m, old) : \E d \in versions :
            r.mapping = d.mapping /\ r.version = d.version /\ r = Kept(d)
    BY <1>1, <1>4
  <1>9. \A d \in versions : \E r \in Retire(m, old) :
            r.mapping = d.mapping /\ r.version = d.version
    BY <1>1, <1>3
  <1>10. \A d \in versions : ~(d.mapping = m /\ d.version \in old) => d \in Retire(m, old)
    BY <1>3, <1>5
  <1>11. \A d \in versions : d.mapping = m /\ d.version \in old =>
            [d EXCEPT !.active = FALSE] \in Retire(m, old)
    BY <1>3, <1>6
  <1> QED
    BY <1>7, <1>8, <1>9, <1>10, <1>11

\* The transaction of an edit whose constraints hold follows every version of
\* its mapping: a version that took its place since would break the key.
LEMMA WriteFollows ==
    ASSUME BankInv, NEW e \in Editor, request[e] # Idle,
           request[e].step = "write", Constraints(request[e])
    PROVE  \A d \in versions : d.mapping = request[e].mapping => d.version < request[e].next
  <1> DEFINE q == request[e]
  <1>1. q \in [step : {"name", "write"}, mapping : Mapping, label : Name \cup {NoName},
               old : SUBSET Nat, next : Nat \ {0}]
    BY DEF BankInv, TypeOK, Edit
  <1> SUFFICES ASSUME NEW d \in versions, d.mapping = q.mapping, ~(d.version < q.next)
               PROVE  FALSE
    OBVIOUS
  <1>2. d.version \in Nat \ {0} /\ q.next \in Nat \ {0}
    BY <1>1 DEF BankInv, TypeOK, Version
  <1>3. q.next \in 1 .. d.version
    BY <1>2
  <1>4. \E s \in VersionsOf(d.mapping) : s.version = q.next
    BY <1>3 DEF BankInv, OneLineOfVersions
  <1> QED
    BY <1>4 DEF Constraints, VersionsOf

----------------------------------------------------------------------------
(* Every step keeps the invariant *)

LEMMA InitInv == Init => BankInv
  BY DEF Init, BankInv, TypeOK, OneLineOfVersions, SomeActive, RequestSound, CorpusSound,
         VersionsOf

\* A step that only moves one edit forward.
LEMMA RequestStepInv ==
    ASSUME BankInv, NEW e \in Editor, NEW q \in Edit \cup {Idle},
           request' = [request EXCEPT ![e] = q],
           q # Idle =>
               /\ q.step # "create" => name[q.mapping] # NoName
               /\ q.step \in {"name", "write"} => PrecedingExist(q.mapping, q.next),
           UNCHANGED <<tableVars, uploadVars>>
    PROVE  BankInv'
  <1> USE DEF tableVars, uploadVars
  <1>1. TypeOK'
    BY DEF BankInv, TypeOK
  <1>2. OneLineOfVersions'
    BY DEF BankInv, OneLineOfVersions, VersionsOf
  <1>3. SomeActive'
    BY DEF BankInv, SomeActive
  <1>4. RequestSound'
    BY DEF BankInv, TypeOK, RequestSound, PrecedingExist
  <1>5. CorpusSound'
    BY DEF BankInv, CorpusSound
  <1> QED
    BY <1>1, <1>2, <1>3, <1>4, <1>5 DEF BankInv

\* What an edit in flight is, by the step it has reached.
LEMMA EditType ==
    ASSUME TypeOK, NEW e \in Editor, request[e] # Idle
    PROVE  /\ request[e] \in Edit
           /\ request[e].step = "create" => request[e].label \in Name
           /\ request[e].step # "create" =>
                  request[e].mapping \in Mapping /\ request[e].label \in Name \cup {NoName}
           /\ request[e].step = "active" => request[e].was \in Name
           /\ request[e].step = "top" => request[e].was \in Name /\ request[e].old \in SUBSET Nat
           /\ request[e].step \in {"name", "write"} =>
                  /\ request[e].old \in SUBSET Nat
                  /\ request[e].next \in Nat \ {0}
                  /\ request[e] \in [step : {"name", "write"}, mapping : Mapping,
                                     label : Name \cup {NoName}, old : SUBSET Nat, next : Nat \ {0}]
  <1>1. request[e] \in Edit
    BY DEF TypeOK
  <1> QED
    BY <1>1 DEF Edit

LEMMA AskInv ==
    ASSUME BankInv, NEW e \in Editor, AskCreate(e) \/ AskEdit(e)
    PROVE  BankInv'
  <1>1. CASE AskCreate(e)
    <2>1. PICK n \in Name : request' = [request EXCEPT ![e] = [step |-> "create", label |-> n]]
      BY <1>1 DEF AskCreate
    <2>2. [step |-> "create", label |-> n] \in Edit
      BY DEF Edit
    <2> QED
      BY <1>1, <2>1, <2>2, RequestStepInv DEF AskCreate
  <1>2. CASE AskEdit(e)
    <2>1. PICK m \in Mapping, n \in Name \cup {NoName} :
            /\ name[m] # NoName
            /\ request' = [request EXCEPT ![e] =
                   [step |-> "active", mapping |-> m, label |-> n, was |-> name[m]]]
      BY <1>2 DEF AskEdit
    <2>2. [step |-> "active", mapping |-> m, label |-> n, was |-> name[m]] \in Edit
      BY <2>1 DEF Edit, BankInv, TypeOK
    <2> QED
      BY <1>2, <2>1, <2>2, RequestStepInv DEF AskEdit
  <1> QED
    BY <1>1, <1>2

LEMMA ReadInv ==
    ASSUME BankInv, NEW e \in Editor, ReadActive(e) \/ ReadTop(e) \/ CheckName(e) \/ Fail(e)
    PROVE  BankInv'
  <1> DEFINE q == request[e]
  <1>0. request[e] # Idle /\ TypeOK
    BY DEF ReadActive, ReadTop, CheckName, Fail, BankInv
  <1>1. CASE ReadActive(e)
    <2> DEFINE p == [step |-> "top", mapping |-> q.mapping, label |-> q.label, was |-> q.was,
                     old |-> ActiveVersion(q.mapping)]
    <2>1. ActiveVersion(q.mapping) \in SUBSET Nat
      BY DEF ActiveVersion, VersionsOf, BankInv, TypeOK, Version
    <2>2. q.step = "active"
      BY <1>1 DEF ReadActive
    <2>3. p \in Edit
      BY <1>0, <2>1, <2>2, EditType DEF Edit
    <2>4. name[q.mapping] # NoName
      BY <1>0, <2>2 DEF BankInv, RequestSound
    <2>5. request' = [request EXCEPT ![e] = p]
      BY <1>1 DEF ReadActive, BankInv, TypeOK
    <2> QED
      BY <1>1, <2>3, <2>4, <2>5, RequestStepInv DEF ReadActive
  <1>2. CASE ReadTop(e)
    <2> DEFINE p == [step |-> IF q.label \in {NoName, q.was} THEN "write" ELSE "name",
                     mapping |-> q.mapping, label |-> q.label, old |-> q.old,
                     next |-> NextVersion(q.mapping)]
    <2>1. q.step = "top"
      BY <1>2 DEF ReadTop
    <2>2. name[q.mapping] # NoName
      BY <1>0, <2>1 DEF BankInv, RequestSound
    <2>3. q.mapping \in Mapping
      BY <1>0, <2>1, EditType
    <2>4. NextVersion(q.mapping) \in Nat \ {0} /\ PrecedingExist(q.mapping, NextVersion(q.mapping))
      BY <2>2, <2>3, NextVersionFollows
    <2>5. p \in Edit
      BY <1>0, <2>1, <2>4, EditType DEF Edit
    <2>6. request' = [request EXCEPT ![e] = p]
      BY <1>2 DEF ReadTop, BankInv, TypeOK
    <2> QED
      BY <1>2, <2>2, <2>4, <2>5, <2>6, RequestStepInv DEF ReadTop
  <1>3. CASE CheckName(e)
    <2> DEFINE p == [q EXCEPT !.step = "write"]
    <2>1. q.step = "name"
      BY <1>3 DEF CheckName
    <2>2. p \in Edit /\ p.step = "write" /\ p.mapping = q.mapping /\ p.next = q.next
      BY <1>0, <2>1, EditType DEF Edit
    <2>3. name[q.mapping] # NoName /\ PrecedingExist(q.mapping, q.next)
      BY <1>0, <2>1 DEF BankInv, RequestSound
    <2>4. request' = [request EXCEPT ![e] = Idle] \/ request' = [request EXCEPT ![e] = p]
      BY <1>3 DEF CheckName, BankInv, TypeOK
    <2> HIDE DEF p
    <2> QED
      BY <1>3, <2>2, <2>3, <2>4, RequestStepInv DEF CheckName
  <1>4. CASE Fail(e)
    BY <1>4, RequestStepInv DEF Fail
  <1> QED
    BY <1>1, <1>2, <1>3, <1>4

\* The row a transaction inserts.
LEMMA RowType ==
    ASSUME NEW m \in Mapping, NEW v \in Nat \ {0}, NEW x \in Confirmable
    PROVE  Row(m, v, x) \in Version
  <1>1. x[1] \in Declaration /\ x[2] \in Header
    BY BankMappingsAssumption
  <1> QED
    BY <1>1 DEF Row, Version

\* Rows may be added and retired, and names given, under what an edit or an
\* upload in flight remembers.
LEMMA MemoryKept ==
    ASSUME BankInv, TypeOK', NEW e \in Editor,
           request' = [request EXCEPT ![e] = Idle], UNCHANGED uploadVars,
           \A m \in Mapping : name[m] # NoName => name'[m] # NoName,
           \A d \in versions : \E r \in versions' : r.mapping = d.mapping /\ r.version = d.version,
           \A d \in versions : d \in versions' \/ [d EXCEPT !.active = FALSE] \in versions'
    PROVE  RequestSound' /\ CorpusSound'
  <1>1. RequestSound'
    <2>1. ASSUME NEW f \in Editor, request'[f] # Idle
          PROVE  /\ request'[f].step # "create" => name'[request'[f].mapping] # NoName
                 /\ request'[f].step \in {"name", "write"} =>
                      \A n \in 1 .. (request'[f].next - 1) : \E s \in versions' :
                         s.mapping = request'[f].mapping /\ s.version = n
      <3>1. f # e /\ request'[f] = request[f] /\ request[f] # Idle
        BY <2>1 DEF BankInv, TypeOK
      <3>2. ASSUME request[f].step # "create" PROVE name'[request[f].mapping] # NoName
        <4>1. request[f].mapping \in Mapping /\ name[request[f].mapping] # NoName
          BY <3>1, <3>2, EditType DEF BankInv, RequestSound
        <4> QED
          BY <4>1
      <3>3. ASSUME request[f].step \in {"name", "write"}, NEW n \in 1 .. (request[f].next - 1)
            PROVE  \E s \in versions' : s.mapping = request[f].mapping /\ s.version = n
        <4>1. PrecedingExist(request[f].mapping, request[f].next)
          BY <3>1, <3>3 DEF BankInv, RequestSound
        <4>2. PICK d \in versions : d.mapping = request[f].mapping /\ d.version = n
          BY <4>1 DEF PrecedingExist
        <4> QED
          BY <4>2
      <3> QED
        BY <3>1, <3>2, <3>3
    <2> QED
      BY <2>1 DEF RequestSound, PrecedingExist
  <1>2. CorpusSound'
    <2> SUFFICES ASSUME NEW u \in Upload, NEW x \in corpus[u], x \in Version
                 PROVE  x.active /\ (x \in versions' \/ [x EXCEPT !.active = FALSE] \in versions')
      BY DEF CorpusSound, uploadVars
    <2>1. x.active /\ (x \in versions \/ [x EXCEPT !.active = FALSE] \in versions)
      BY DEF BankInv, CorpusSound
    <2>2. CASE x \in versions
      BY <2>1, <2>2
    <2>3. CASE [x EXCEPT !.active = FALSE] \in versions
      <3> DEFINE d == [x EXCEPT !.active = FALSE]
      <3>1. [d EXCEPT !.active = FALSE] = d
        BY DEF Version
      <3>2. d \in versions'
        BY <2>3, <3>1
      <3> QED
        BY <2>1, <3>2
    <2> QED
      BY <2>1, <2>2, <2>3
  <1> QED
    BY <1>1, <1>2

LEMMA CreateInv ==
    ASSUME BankInv, NEW e \in Editor, Create(e)
    PROVE  BankInv'
  <1> DEFINE label == request[e].label
  <1>1. PICK m \in Mapping, x \in Confirmable :
          /\ name[m] = NoName
          /\ name' = [name EXCEPT ![m] = label]
          /\ versions' = versions \cup {Row(m, 1, x)}
    BY DEF Create, FirstVersion
  <1> DEFINE new == Row(m, 1, x)
  <1>2. label \in Name /\ label # NoName
    BY EditType, BankMappingsAssumption DEF Create, BankInv
  <1>3. /\ new \in Version
        /\ new.mapping = m /\ new.version = 1 /\ new.active
    BY RowType DEF Row
  <1>4. \A r \in versions : r.mapping \in Mapping /\ r.mapping # m
    BY <1>1 DEF BankInv, TypeOK, OneLineOfVersions, Version
  <1>5. \A o \in Mapping : name'[o] = IF o = m THEN label ELSE name[o]
    BY <1>1 DEF BankInv, TypeOK
  <1>6. /\ request' = [request EXCEPT ![e] = Idle]
        /\ UNCHANGED uploadVars
        /\ \A o \in Mapping : name[o] # label
    BY DEF Create
  <1> HIDE DEF new, label
  <1>7. TypeOK'
    BY <1>1, <1>2, <1>3, <1>6 DEF BankInv, TypeOK, uploadVars, new, label
  <1>8. versions' = versions \cup {new}
    BY <1>1 DEF new
  <1>9. OneLineOfVersions'
    <2>1. \A o \in Mapping : name'[o] # NoName => \E r \in versions' : r.mapping = o
      BY <1>3, <1>5, <1>8 DEF BankInv, OneLineOfVersions, VersionsOf
    <2>2. \A r, s \in versions' : r.mapping = s.mapping /\ r.version = s.version => r = s
      BY <1>3, <1>4, <1>8 DEF BankInv, OneLineOfVersions
    <2>3. \A r \in versions' : name'[r.mapping] # NoName
      BY <1>2, <1>3, <1>4, <1>5, <1>8 DEF BankInv, OneLineOfVersions
    <2>4. ASSUME NEW r \in versions', NEW v \in 1 .. r.version
          PROVE  \E s \in versions' : s.mapping = r.mapping /\ s.version = v
      <3>1. CASE r = new
        <4>1. v = 1
          BY <1>3, <2>4, <3>1
        <4> QED
          BY <1>3, <1>8, <3>1, <4>1
      <3>2. CASE r \in versions
        BY <1>8, <2>4, <3>2 DEF BankInv, OneLineOfVersions, VersionsOf
      <3> QED
        BY <1>8, <3>1, <3>2
    <2>5. ASSUME NEW r \in versions'
          PROVE  r.active <=> \A s \in versions' : s.mapping = r.mapping => s.version <= r.version
      <3>1. CASE r = new
        BY <1>3, <1>4, <1>8, <3>1
      <3>2. CASE r \in versions
        <4>1. r.active <=> \A s \in versions : s.mapping = r.mapping => s.version <= r.version
          BY <3>2 DEF BankInv, OneLineOfVersions, VersionsOf
        <4>2. r.mapping # m
          BY <1>4, <3>2
        <4> QED
          BY <1>3, <1>8, <4>1, <4>2
      <3> QED
        BY <1>8, <3>1, <3>2
    <2>6. \A n, o \in Mapping : name'[n] # NoName /\ name'[n] = name'[o] => n = o
      BY <1>2, <1>5, <1>6 DEF BankInv, OneLineOfVersions
    <2> QED
      BY <2>1, <2>2, <2>3, <2>4, <2>5, <2>6 DEF OneLineOfVersions, VersionsOf
  <1>10. SomeActive'
    BY <1>3, <1>5, <1>8 DEF BankInv, SomeActive
  <1>11. \A o \in Mapping : name[o] # NoName => name'[o] # NoName
    BY <1>2, <1>5
  <1>12. RequestSound' /\ CorpusSound'
    BY <1>6, <1>7, <1>8, <1>11, MemoryKept
  <1> QED
    BY <1>7, <1>9, <1>10, <1>12 DEF BankInv

LEMMA AddVersionInv ==
    ASSUME BankInv, NEW e \in Editor, AddVersion(e)
    PROVE  BankInv'
  <1> DEFINE q == request[e]
             m == q.mapping
             kept == Retire(m, q.old)
  <1>0. \A c, d \in versions : c.mapping = d.mapping /\ c.version = d.version => c = d
    BY DEF BankInv, OneLineOfVersions
  <1>1. /\ q # Idle /\ q.step = "write" /\ Constraints(q)
        /\ name' = IF q.label = NoName THEN name ELSE [name EXCEPT ![m] = q.label]
        /\ request' = [request EXCEPT ![e] = Idle]
        /\ UNCHANGED uploadVars
    BY DEF AddVersion
  <1>2. PICK x \in Confirmable : versions' = kept \cup {Row(m, q.next, x)}
    BY DEF AddVersion
  <1> DEFINE new == Row(m, q.next, x)
  <1>3. m \in Mapping /\ q.label \in Name \cup {NoName} /\ q.next \in Nat \ {0}
    BY <1>1, EditType DEF BankInv
  <1>4. new \in Version /\ new.mapping = m /\ new.version = q.next /\ new.active
    BY <1>3, RowType DEF Row
  <1>5. name[m] # NoName /\ PrecedingExist(m, q.next)
    BY <1>1 DEF BankInv, RequestSound
  <1>6. \A d \in versions : d.mapping = m => d.version < q.next
    BY <1>1, WriteFollows
  <1>7. /\ kept \subseteq Version
        /\ \A d \in versions : \E r \in kept : r.mapping = d.mapping /\ r.version = d.version
        /\ \A r \in kept : \E d \in versions :
              /\ r.mapping = d.mapping /\ r.version = d.version
              /\ r = IF d.mapping = m /\ d.version \in q.old
                     THEN [d EXCEPT !.active = FALSE] ELSE d
        /\ \A d \in versions : d \in kept \/ [d EXCEPT !.active = FALSE] \in kept
    BY RetireKeeps DEF BankInv
  <1>8. \A r \in kept : r.mapping = m => ~r.active
    BY <1>1 DEF Constraints
  <1>9. q.label # NoName => \A o \in Mapping \ {m} : name[o] # q.label
    BY <1>1 DEF Constraints, NameTaken
  <1>10. \A o \in Mapping :
           name'[o] = IF o = m /\ q.label # NoName THEN q.label ELSE name[o]
    BY <1>1, <1>3 DEF BankInv, TypeOK
  <1>11. \A r \in kept : r.mapping \in Mapping /\ r.version \in Nat \ {0}
    BY <1>7 DEF Version
  <1>12. \A r \in kept : r.mapping = m => r.version < q.next
    BY <1>6, <1>7
  <1>13. TypeOK'
    BY <1>1, <1>2, <1>3, <1>4, <1>7 DEF BankInv, TypeOK, uploadVars
  <1> HIDE DEF new, kept
  <1>14. versions' = kept \cup {new}
    BY <1>2 DEF new
  <1>15. OneLineOfVersions'
    <2>1. \A o \in Mapping : name'[o] # NoName => \E r \in versions' : r.mapping = o
      <3>1. \A o \in Mapping : o # m /\ name[o] # NoName => \E r \in kept : r.mapping = o
        BY <1>7 DEF BankInv, OneLineOfVersions, VersionsOf
      <3> QED
        BY <1>4, <1>10, <1>14, <3>1
    <2>2. ASSUME NEW r \in versions', NEW s \in versions',
                 r.mapping = s.mapping, r.version = s.version
          PROVE  r = s
      <3>1. CASE r \in kept /\ s \in kept
        <4>1. PICK c \in versions :
                /\ r.mapping = c.mapping /\ r.version = c.version
                /\ r = IF c.mapping = m /\ c.version \in q.old
                       THEN [c EXCEPT !.active = FALSE] ELSE c
          BY <1>7, <3>1
        <4>2. PICK d \in versions :
                /\ s.mapping = d.mapping /\ s.version = d.version
                /\ s = IF d.mapping = m /\ d.version \in q.old
                       THEN [d EXCEPT !.active = FALSE] ELSE d
          BY <1>7, <3>1
        <4>3. c = d
          BY <1>0, <2>2, <4>1, <4>2
        <4> QED
          BY <4>1, <4>2, <4>3
      <3>2. CASE r = new \/ s = new
        <4>1. \A k \in kept : ~(k.mapping = m /\ k.version = q.next)
          BY <1>3, <1>11, <1>12
        <4> QED
          BY <1>4, <1>14, <2>2, <3>2, <4>1
      <3> QED
        BY <1>14, <3>1, <3>2
    <2>3. \A r \in versions' : name'[r.mapping] # NoName
      <3>1. \A d \in versions : name[d.mapping] # NoName
        BY DEF BankInv, OneLineOfVersions
      <3>2. \A r \in kept : name[r.mapping] # NoName
        BY <1>7, <3>1
      <3> QED
        BY <1>3, <1>4, <1>5, <1>10, <1>11, <1>14, <3>2
    <2>4. ASSUME NEW r \in versions', NEW v \in 1 .. r.version
          PROVE  \E s \in versions' : s.mapping = r.mapping /\ s.version = v
      <3>1. CASE r = new
        <4>1. CASE v = q.next
          BY <1>4, <1>14, <3>1, <4>1
        <4>2. CASE v # q.next
          <5>1. v \in 1 .. (q.next - 1)
            BY <1>3, <1>4, <2>4, <3>1, <4>2
          <5>2. PICK d \in versions : d.mapping = m /\ d.version = v
            BY <1>5, <5>1 DEF PrecedingExist
          <5> QED
            BY <1>4, <1>7, <1>14, <3>1, <5>2
        <4> QED
          BY <4>1, <4>2
      <3>2. CASE r \in kept
        <4>1. PICK c \in versions : r.mapping = c.mapping /\ r.version = c.version
          BY <1>7, <3>2
        <4>2. PICK d \in versions : d.mapping = c.mapping /\ d.version = v
          BY <2>4, <4>1 DEF BankInv, OneLineOfVersions, VersionsOf
        <4> QED
          BY <1>7, <1>14, <4>1, <4>2
      <3> QED
        BY <1>14, <3>1, <3>2
    <2>5. ASSUME NEW r \in versions'
          PROVE  r.active <=> \A s \in versions' : s.mapping = r.mapping => s.version <= r.version
      <3>1. CASE r = new
        BY <1>3, <1>4, <1>11, <1>12, <1>14, <3>1
      <3>2. CASE r \in kept /\ r.mapping = m
        <4>1. ~r.active /\ ~(new.version <= r.version)
          BY <1>3, <1>4, <1>8, <1>11, <1>12, <3>2
        <4> QED
          BY <1>4, <1>14, <3>2, <4>1
      <3>3. CASE r \in kept /\ r.mapping # m
        <4>1. r \in versions
          BY <1>7, <3>3
        <4>2. r.active <=> \A s \in versions : s.mapping = r.mapping => s.version <= r.version
          BY <4>1 DEF BankInv, OneLineOfVersions, VersionsOf
        <4>3. (\A s \in versions : s.mapping = r.mapping => s.version <= r.version)
                <=> (\A s \in versions' : s.mapping = r.mapping => s.version <= r.version)
          BY <1>4, <1>7, <1>14, <3>3
        <4> QED
          BY <4>2, <4>3
      <3> QED
        BY <1>14, <3>1, <3>2, <3>3
    <2>6. \A n, o \in Mapping : name'[n] # NoName /\ name'[n] = name'[o] => n = o
      BY <1>9, <1>10 DEF BankInv, OneLineOfVersions
    <2> QED
      BY <2>1, <2>2, <2>3, <2>4, <2>5, <2>6 DEF OneLineOfVersions, VersionsOf
  <1>16. SomeActive'
    <2> SUFFICES ASSUME NEW o \in Mapping, name'[o] # NoName
                 PROVE  \E r \in versions' : r.mapping = o /\ r.active
      BY DEF SomeActive
    <2>1. CASE o = m
      BY <1>4, <1>14, <2>1
    <2>2. CASE o # m
      <3>1. PICK d \in versions : d.mapping = o /\ d.active
        BY <1>10, <2>2 DEF BankInv, SomeActive
      <3>2. PICK r \in kept : r.mapping = d.mapping /\ r.version = d.version
        BY <1>7, <3>1
      <3>3. PICK c \in versions :
              /\ r.mapping = c.mapping /\ r.version = c.version
              /\ r = IF c.mapping = m /\ c.version \in q.old
                     THEN [c EXCEPT !.active = FALSE] ELSE c
        BY <1>7, <3>2
      <3>4. c = d
        BY <1>0, <3>2, <3>3
      <3> QED
        BY <1>14, <2>2, <3>1, <3>2, <3>3, <3>4
    <2> QED
      BY <2>1, <2>2
  <1>17. \A o \in Mapping : name[o] # NoName => name'[o] # NoName
    BY <1>10
  <1>18. RequestSound' /\ CorpusSound'
    BY <1>1, <1>7, <1>13, <1>14, <1>17, MemoryKept
  <1> QED
    BY <1>13, <1>15, <1>16, <1>18 DEF BankInv

\* A shipped profile is no version of a saved mapping.
LEMMA ShippedIsNoVersion ==
    ASSUME NEW b \in BuiltIn
    PROVE  "mapping" \notin DOMAIN Shipped(b) /\ Shipped(b) \notin Version
  <1>1. DOMAIN Shipped(b) = {"profile", "headers"}
    BY DEF Shipped
  <1>2. \A r \in Version : "mapping" \in DOMAIN r
    BY DEF Version
  <1> QED
    BY <1>1, <1>2

LEMMA UploadStepInv ==
    ASSUME BankInv, NEW u \in Upload, ReadCorpus(u) \/ Resolve(u)
    PROVE  BankInv'
  <1>1. UNCHANGED <<tableVars, request>>
    BY DEF ReadCorpus, Resolve
  <1>2. OneLineOfVersions' /\ SomeActive' /\ RequestSound'
    BY <1>1 DEF BankInv, OneLineOfVersions, VersionsOf, SomeActive, RequestSound,
                PrecedingExist, tableVars
  <1>3. Corpus \subseteq Entry
    BY DEF Corpus, Entry, BankInv, TypeOK
  <1>4. \A x \in Corpus : x \in Version => x.active /\ x \in versions
    BY ShippedIsNoVersion DEF Corpus
  <1>5. CASE ReadCorpus(u)
    <2>1. PICK f \in File, m \in Mapping \cup BuiltIn :
            claim' = [claim EXCEPT ![u] = [file |-> f, id |-> m]]
      BY <1>5 DEF ReadCorpus
    <2>2. TypeOK'
      BY <1>1, <1>3, <1>5, <2>1 DEF ReadCorpus, BankInv, TypeOK, tableVars
    <2>3. CorpusSound'
      BY <1>1, <1>4, <1>5 DEF ReadCorpus, BankInv, TypeOK, CorpusSound, tableVars
    <2> QED
      BY <1>2, <2>2, <2>3 DEF BankInv
  <1>6. CASE Resolve(u)
    <2> DEFINE x == IF \E y \in corpus[u] : Verified(u, y)
                    THEN CHOOSE y \in corpus[u] : Verified(u, y) ELSE Refused
    <2>1. x \in corpus[u] \cup {Refused}
      OBVIOUS
    <2>2. x \in Entry \cup {NoEntry, Refused}
      BY <2>1 DEF BankInv, TypeOK
    <2>3. /\ reading' = [reading EXCEPT ![u] = x]
          /\ corpus' = [corpus EXCEPT ![u] = {}]
          /\ claim' = [claim EXCEPT ![u] = Idle]
      BY <1>6 DEF Resolve
    <2> HIDE DEF x
    <2>4. TypeOK'
      BY <1>1, <2>2, <2>3 DEF BankInv, TypeOK, tableVars
    <2>5. CorpusSound'
      BY <1>1, <2>3 DEF BankInv, TypeOK, CorpusSound, tableVars
    <2> QED
      BY <1>2, <2>4, <2>5 DEF BankInv
  <1> QED
    BY <1>5, <1>6

LEMMA StepInv == BankInv /\ [Next]_vars => BankInv'
  <1> SUFFICES ASSUME BankInv, [Next]_vars
               PROVE  BankInv'
    OBVIOUS
  <1>1. ASSUME NEW e \in Editor, AskCreate(e) \/ AskEdit(e) PROVE BankInv'
    BY <1>1, AskInv
  <1>2. ASSUME NEW e \in Editor, ReadActive(e) \/ ReadTop(e) \/ CheckName(e) \/ Fail(e)
        PROVE  BankInv'
    BY <1>2, ReadInv
  <1>3. ASSUME NEW e \in Editor, Create(e) PROVE BankInv'
    BY <1>3, CreateInv
  <1>4. ASSUME NEW e \in Editor, AddVersion(e) PROVE BankInv'
    BY <1>4, AddVersionInv
  <1>5. ASSUME NEW u \in Upload, ReadCorpus(u) \/ Resolve(u) PROVE BankInv'
    BY <1>5, UploadStepInv
  <1>6. ASSUME UNCHANGED vars PROVE BankInv'
    BY <1>6 DEF BankInv, TypeOK, OneLineOfVersions, VersionsOf, SomeActive, RequestSound,
                PrecedingExist, CorpusSound, vars, tableVars, uploadVars
  <1> QED
    BY <1>1, <1>2, <1>3, <1>4, <1>5, <1>6 DEF Next

----------------------------------------------------------------------------
(* The theorems *)

\* The inductive invariant holds in every reachable state.
THEOREM BankInvariant == Spec => []BankInv
  BY InitInv, StepInv, PTL DEF Spec

\* Whatever edits and uploads race, the tables and requests keep their types.
THEOREM BankTypeCorrect == Spec => []TypeOK
  <1>1. BankInv => TypeOK
    BY DEF BankInv
  <1> QED
    BY <1>1, BankInvariant, PTL

\* Whatever edits race, the versions of a mapping are 1, 2, ..., n, exactly the
\* last is active, and labels are unique: the three unique indexes are enough.
THEOREM VersionsAreOneLine == Spec => []OneLineOfVersions
  <1>1. BankInv => OneLineOfVersions
    BY DEF BankInv
  <1> QED
    BY <1>1, BankInvariant, PTL

\* Only the transaction of an edit changes the rows that are there.
LEMMA TableStep ==
    ASSUME [Next]_vars, NEW r \in versions, r \notin versions'
    PROVE  \E e \in Editor : AddVersion(e)
  <1>1. ASSUME NEW e \in Editor,
               AskCreate(e) \/ AskEdit(e) \/ ReadActive(e) \/ ReadTop(e) \/ CheckName(e) \/ Fail(e)
        PROVE  FALSE
    BY <1>1 DEF AskCreate, AskEdit, ReadActive, ReadTop, CheckName, Fail, tableVars
  <1>2. ASSUME NEW e \in Editor, Create(e) PROVE FALSE
    BY <1>2 DEF Create
  <1>3. ASSUME NEW u \in Upload, ReadCorpus(u) \/ Resolve(u) PROVE FALSE
    BY <1>3 DEF ReadCorpus, Resolve, tableVars
  <1>4. versions' # versions
    OBVIOUS
  <1> QED
    BY <1>1, <1>2, <1>3, <1>4 DEF Next, vars, tableVars

\* A row that changes was the active end of its line; it only loses the flag,
\* in the step that writes the version after it.
LEMMA RetiredForSuccessor ==
    ASSUME BankInv, NEW e \in Editor, AddVersion(e), NEW r \in versions, r \notin versions'
    PROVE  /\ r.active /\ [r EXCEPT !.active = FALSE] \in versions'
           /\ \E s \in versions' : /\ s.mapping = r.mapping /\ s.active
                                   /\ s.version = r.version + 1
  <1> DEFINE q == request[e]
             m == q.mapping
             kept == Retire(m, q.old)
  <1>1. q # Idle /\ q.step = "write" /\ Constraints(q)
    BY DEF AddVersion
  <1>2. PICK x \in Confirmable : versions' = kept \cup {Row(m, q.next, x)}
    BY DEF AddVersion
  <1>3. m \in Mapping /\ q.next \in Nat \ {0}
    BY <1>1, EditType DEF BankInv
  <1>4. r.mapping = m /\ r.version \in q.old
    BY <1>2, RetireKeeps DEF BankInv
  <1>5. [r EXCEPT !.active = FALSE] \in versions'
    BY <1>2, <1>4, RetireKeeps DEF BankInv
  <1>6. r \in Version
    BY DEF BankInv, TypeOK
  <1>7. r.active
    <2>1. ~r.active => [r EXCEPT !.active = FALSE] = r
      BY <1>6 DEF Version
    <2> QED
      BY <1>5, <2>1
  <1>8. \A s \in versions : s.mapping = m => s.version <= r.version
    BY <1>4, <1>7 DEF BankInv, OneLineOfVersions, VersionsOf
  <1>9. PrecedingExist(m, q.next)
    BY <1>1 DEF BankInv, RequestSound
  <1>10. r.version < q.next
    BY <1>1, <1>4, WriteFollows
  <1>11. q.next = r.version + 1
    <2>1. CASE q.next = 1
      BY <1>3, <1>6, <1>10, <2>1 DEF Version
    <2>2. CASE q.next # 1
      <3>1. q.next - 1 \in 1 .. (q.next - 1)
        BY <1>3, <2>2
      <3>2. PICK s \in versions : s.mapping = m /\ s.version = q.next - 1
        BY <1>9, <3>1 DEF PrecedingExist
      <3>3. q.next - 1 <= r.version /\ r.version \in Nat
        BY <1>6, <1>8, <3>2 DEF Version
      <3> QED
        BY <1>3, <1>10, <3>3
    <2> QED
      BY <2>1, <2>2
  <1>12. /\ Row(m, q.next, x) \in versions'
         /\ Row(m, q.next, x).mapping = m /\ Row(m, q.next, x).active
         /\ Row(m, q.next, x).version = q.next
    BY <1>2 DEF Row
  <1> QED
    BY <1>4, <1>5, <1>7, <1>11, <1>12

\* What a person confirmed stands: no version changes its columns or header row,
\* and the active one is retired only as its successor is written.
THEOREM VersionsStand == Spec => ConfirmedVersionStands
  <1>1. ASSUME BankInv, [Next]_vars, NEW r \in versions, r \notin versions'
        PROVE  /\ r.active /\ [r EXCEPT !.active = FALSE] \in versions'
               /\ \E s \in versions' : /\ s.mapping = r.mapping /\ s.active
                                       /\ s.version = r.version + 1
    BY <1>1, TableStep, RetiredForSuccessor
  <1>2. BankInv /\ [Next]_vars =>
          [\A r \in versions :
             \/ r \in versions'
             \/ /\ r.active /\ [r EXCEPT !.active = FALSE] \in versions'
                /\ \E s \in versions' : /\ s.mapping = r.mapping /\ s.active
                                        /\ s.version = r.version + 1]_vars
    BY <1>1
  <1> QED
    BY <1>2, BankInvariant, PTL DEF Spec, ConfirmedVersionStands

\* The entry of a corpus that verification compares with the table is the row
\* the table holds now: the version cannot have changed, nor been retired.
LEMMA VerifiedIsCurrent ==
    ASSUME BankInv, NEW u \in Upload, NEW x \in corpus[u], NEW m,
           "mapping" \in DOMAIN x, IsActiveOf(x, m)
    PROVE  x \in versions
  <1>1. x \in Version
    BY ShippedIsNoVersion DEF BankInv, TypeOK, Entry
  <1>2. x.active /\ (x \in versions \/ [x EXCEPT !.active = FALSE] \in versions)
    BY <1>1 DEF BankInv, CorpusSound
  <1>3. PICK s \in versions : s.mapping = x.mapping /\ s.version = x.version /\ s.active
    BY DEF IsActiveOf, ActiveVersion, VersionsOf
  <1>4. CASE [x EXCEPT !.active = FALSE] \in versions
    <2> DEFINE d == [x EXCEPT !.active = FALSE]
    <2>1. d.mapping = x.mapping /\ d.version = x.version /\ ~d.active
      BY <1>1 DEF Version
    <2>2. d = s
      BY <1>3, <1>4, <2>1 DEF BankInv, OneLineOfVersions
    <2> QED
      BY <1>3, <2>1, <2>2
  <1> QED
    BY <1>2, <1>4

\* A statement is read only under an entry that alone fits its header row best,
\* and, when it is a saved mapping's, is the active version at that moment.
THEOREM StatementsReadUnderTheirMapping == Spec => ReadUnderItsMapping
  <1> DEFINE Good(u) ==
        /\ FitsExactly(reading'[u], claim[u].file) \/ FitsNormalized(reading'[u], claim[u].file)
        /\ \A x \in corpus[u] \ {reading'[u]} :
             /\ ~FitsExactly(x, claim[u].file)
             /\ FitsNormalized(x, claim[u].file) => FitsExactly(reading'[u], claim[u].file)
        /\ reading'[u] \in versions \/ claim[u].id \in BuiltIn
  <1>1. ASSUME BankInv, NEW u \in Upload, NEW x \in corpus[u], Verified(u, x), reading'[u] = x
        PROVE  Good(u)
    <2>1. Matches(u) = {x}
      BY <1>1 DEF Verified
    <2>2. /\ FitsExactly(x, claim[u].file) \/ FitsNormalized(x, claim[u].file)
          /\ \A y \in corpus[u] \ {x} :
               /\ ~FitsExactly(y, claim[u].file)
               /\ FitsNormalized(y, claim[u].file) => FitsExactly(x, claim[u].file)
      <3> DEFINE exact == {y \in corpus[u] : FitsExactly(y, claim[u].file)}
                 fitting == {y \in corpus[u] : FitsNormalized(y, claim[u].file)}
      <3>1. CASE exact # {}
        <4>1. exact = {x}
          BY <2>1, <3>1 DEF Matches
        <4> QED
          BY <4>1
      <3>2. CASE exact = {}
        <4>1. fitting = {x}
          BY <2>1, <3>2 DEF Matches
        <4> QED
          BY <3>2, <4>1
      <3> QED
        BY <3>1, <3>2
    <2>3. x \in versions \/ claim[u].id \in BuiltIn
      BY <1>1, VerifiedIsCurrent DEF Verified
    <2> QED
      BY <1>1, <2>2, <2>3
  <1>2. ASSUME BankInv, [Next]_vars, NEW u \in Upload,
               reading'[u] # reading[u], reading'[u] # Refused
        PROVE  Good(u)
    <2>1. reading' # reading
      BY <1>2
    <2>2. PICK w \in Upload : Resolve(w)
      BY <1>2, <2>1 DEF Next, AskCreate, AskEdit, ReadActive, ReadTop, CheckName, Fail, Create,
                        AddVersion, ReadCorpus, uploadVars, vars
    <2>3. w = u
      BY <1>2, <2>2 DEF Resolve, BankInv, TypeOK
    <2> DEFINE x == IF \E y \in corpus[u] : Verified(u, y)
                    THEN CHOOSE y \in corpus[u] : Verified(u, y) ELSE Refused
    <2>4. reading' = [reading EXCEPT ![u] = x]
      BY <2>2, <2>3 DEF Resolve
    <2>5. x # Refused => x \in corpus[u] /\ Verified(u, x)
      OBVIOUS
    <2> HIDE DEF x
    <2>6. reading'[u] = x
      BY <1>2, <2>4 DEF BankInv, TypeOK
    <2> QED
      BY <1>1, <1>2, <2>5, <2>6
  <1>3. BankInv /\ [Next]_vars =>
          [\A u \in Upload : reading'[u] # reading[u] /\ reading'[u] # Refused => Good(u)]_vars
    BY <1>2
  <1> QED
    BY <1>3, BankInvariant, PTL DEF Spec, ReadUnderItsMapping
=============================================================================

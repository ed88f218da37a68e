---------------------------- MODULE Stage2Ledger ----------------------------
(***************************************************************************)
(* register_batch, persist_batch and _persist_ingestion_audit: how a run   *)
(* writes what reconcile_batch returned, on a ledger that other runs, and  *)
(* earlier runs that were killed, write as well.                           *)
(*                                                                         *)
(* The batch id is chosen by the caller, so runs over DIFFERENT content    *)
(* may name the same batch.  register_batch compares fingerprints, but it  *)
(* reads the batch row outside the transaction that inserts it.  Every     *)
(* other row is written by a transaction of its own, INSERT ... ON         *)
(* CONFLICT DO NOTHING, case after case; no transaction spans a case.      *)
(*                                                                         *)
(* What reconcile_batch decided for a case (decision, evidence, candidates *)
(* and snapshot) is one value of Decision: two contents may agree on it.   *)
(***************************************************************************)
EXTENDS Integers, FiniteSets

CONSTANTS
    Case,                \* case identifiers, ordered
    Settlement,
    Candidate,
    Decision,            \* what reconcile_batch may decide for a case
    DecisionLinks,       \* [Decision -> SUBSET Settlement]; {} when unresolved
    DecisionCandidates,  \* [Decision -> SUBSET Candidate]
    Content,             \* content fingerprints
    DecisionOf,          \* [Content -> [its cases -> Decision]]
    EventsOf,            \* [Content -> ingestion audit events, ordered]
    NoContent,
    NoDecision,
    Run,                 \* runs that name this batch, each run once
    MaxConcurrent        \* bound: runs in flight at once

ASSUME CaseAssumption == Case \subseteq Nat
ASSUME DecisionLinksAssumption == DecisionLinks \in [Decision -> SUBSET Settlement]
ASSUME DecisionCandidatesAssumption == DecisionCandidates \in [Decision -> SUBSET Candidate]
ASSUME DecisionOfAssumption ==
    DecisionOf \in [Content -> UNION {[C -> Decision] : C \in SUBSET Case}]
ASSUME EventsOfAssumption == EventsOf \in [Content -> SUBSET Nat]
ASSUME NoContentAssumption == NoContent \notin Content
ASSUME NoDecisionAssumption == NoDecision \notin Decision

VARIABLES
    batch,       \* batches: the fingerprint registered
    cases,       \* cases, by case
    caseLinks,   \* case_links: <<settlement, case>>
    contexts,    \* case_contexts, by case
    audit,       \* audit_log rows
    caseCandidates, \* case_candidates: <<candidate, case>>
    snapshots,   \* case_snapshots, by case
    events,      \* ingestion_audit_events
    content,     \* what each run computed
    pc,          \* what each run does next
    todo,        \* cases (then events) a run still has to write
    mixed        \* history: runs over different contents were in flight at once

tableVars == <<batch, cases, caseLinks, contexts, audit, caseCandidates, snapshots, events>>
vars == <<tableVars, content, pc, todo, mixed>>

CaseStep == {"decision", "context", "audit", "candidates", "snapshot"}
Running == {"read", "insert", "ingest"} \cup CaseStep
Ended == {"done", "refused", "failed", "crashed"}

CasesOf(f) == DOMAIN DecisionOf[f]

AuditRow == [case: Case, sequence: Nat, decision: Decision]
Event == UNION {EventsOf[f] : f \in Content}

TypeOK ==
    /\ batch \in Content \cup {NoContent}
    /\ cases \in [Case -> Decision \cup {NoDecision}]
    /\ caseLinks \subseteq Settlement \X Case
    /\ contexts \in [Case -> Decision \cup {NoDecision}]
    /\ audit \subseteq AuditRow
    /\ caseCandidates \subseteq Candidate \X Case
    /\ snapshots \in [Case -> Decision \cup {NoDecision}]
    /\ events \subseteq Event
    /\ content \in [Run -> Content]
    /\ mixed \in BOOLEAN
    /\ pc \in [Run -> Running \cup Ended \cup {"idle"}]
    /\ todo \in [Run -> SUBSET (Case \cup Event)]

Empty == [c \in Case |-> NoDecision]

Init ==
    /\ batch = NoContent
    /\ cases = Empty /\ contexts = Empty /\ snapshots = Empty
    /\ caseLinks = {} /\ audit = {} /\ caseCandidates = {} /\ events = {}
    /\ content \in [Run -> Content]
    /\ pc = [r \in Run |-> "idle"]
    /\ todo = [r \in Run |-> {}]
    /\ mixed = FALSE

----------------------------------------------------------------------------
(* Registering the batch *)

Start(r) ==
    /\ pc[r] = "idle"
    /\ Cardinality({q \in Run : pc[q] \in Running}) < MaxConcurrent
    /\ pc' = [pc EXCEPT ![r] = "read"]
    /\ mixed' = (mixed \/ \E q \in Run : pc[q] \in Running /\ content[q] # content[r])
    /\ UNCHANGED <<tableVars, content, todo>>

\* The batch is known, or is now: the run goes on to its cases.
Registered(r) ==
    /\ pc' = [pc EXCEPT ![r] = "decision"]
    /\ todo' = [todo EXCEPT ![r] = CasesOf(content[r])]

\* Fault: the fingerprint of a known batch is not compared.
ReadBatchUnchecked(r) ==
    /\ pc[r] = "read" /\ batch # NoContent
    /\ Registered(r)
    /\ UNCHANGED <<tableVars, content>>

\* The batch id is known with this very content.
ReadBatch(r) ==
    /\ pc[r] = "read" /\ batch = content[r]
    /\ Registered(r)
    /\ UNCHANGED <<tableVars, content>>

\* BatchIdentityError.
RefuseBatch(r) ==
    /\ pc[r] = "read" /\ batch \notin {NoContent, content[r]}
    /\ pc' = [pc EXCEPT ![r] = "refused"]
    /\ UNCHANGED <<tableVars, content, todo>>

\* The batch id was not known WHEN READ.
MissBatch(r) ==
    /\ pc[r] = "read" /\ batch = NoContent
    /\ pc' = [pc EXCEPT ![r] = "insert"]
    /\ UNCHANGED <<tableVars, content, todo>>

\* INSERT ... ON CONFLICT (batch_id) DO NOTHING.
InsertBatch(r) ==
    /\ pc[r] = "insert"
    /\ batch' = IF batch = NoContent THEN content[r] ELSE batch
    /\ Registered(r)
    /\ UNCHANGED <<cases, caseLinks, contexts, audit, caseCandidates, snapshots, events, content>>

----------------------------------------------------------------------------
(* Writing the cases, in case-id order *)

NextItem(r, x) == x \in todo[r] /\ \A y \in todo[r] : x <= y

Decided(r, c) == DecisionOf[content[r]][c]

InsertOnce(table, c, d) ==
    IF table[c] = NoDecision THEN [table EXCEPT ![c] = d] ELSE table

Advance(r, step) == pc' = [pc EXCEPT ![r] = step] /\ UNCHANGED <<todo, content>>

\* Fault: a case that has a row is taken to be complete.
RecordDecisionUnlessSeen(r, c) ==
    /\ pc[r] = "decision" /\ NextItem(r, c)
    /\ cases' = InsertOnce(cases, c, Decided(r, c))
    /\ caseLinks' = caseLinks \cup (DecisionLinks[Decided(r, c)] \X {c})
    /\ IF cases[c] = NoDecision
       THEN Advance(r, "context")
       ELSE todo' = [todo EXCEPT ![r] = @ \ {c}] /\ UNCHANGED <<pc, content>>
    /\ UNCHANGED <<batch, contexts, audit, caseCandidates, snapshots, events>>

\* record_decision: the case row if there is none, and the links of the
\* decision in hand.
RecordDecision(r, c) ==
    /\ pc[r] = "decision" /\ NextItem(r, c)
    /\ cases' = InsertOnce(cases, c, Decided(r, c))
    /\ caseLinks' = caseLinks \cup (DecisionLinks[Decided(r, c)] \X {c})
    /\ Advance(r, "context")
    /\ UNCHANGED <<batch, contexts, audit, caseCandidates, snapshots, events>>

\* Fault: the snapshot is written with the context, before the rest of the case.
RecordContextAndSnapshot(r, c) ==
    /\ pc[r] = "context" /\ NextItem(r, c)
    /\ contexts' = InsertOnce(contexts, c, Decided(r, c))
    /\ snapshots' = IF DecisionLinks[Decided(r, c)] = {}
                    THEN InsertOnce(snapshots, c, Decided(r, c)) ELSE snapshots
    /\ Advance(r, "audit")
    /\ UNCHANGED <<batch, cases, caseLinks, audit, caseCandidates, events>>

RecordContext(r, c) ==
    /\ pc[r] = "context" /\ NextItem(r, c)
    /\ contexts' = InsertOnce(contexts, c, Decided(r, c))
    /\ Advance(r, "audit")
    /\ UNCHANGED <<batch, cases, caseLinks, audit, caseCandidates, snapshots, events>>

\* Fault: the trail is numbered by arrival.
SequenceByArrival(f, c) == Cardinality(audit)

\* The index of the decision in case-id order: the same on every rerun.
Sequence(f, c) == Cardinality({d \in CasesOf(f) : d < c})

NewAuditRow(r, c) ==
    [case |-> c, sequence |-> Sequence(content[r], c), decision |-> Decided(r, c)]

\* UNIQUE (batch_id, case_id, sequence): the same place in the trail is held by
\* a row with another audit_id.
AuditRefused(row) ==
    \E a \in audit : a.case = row.case /\ a.sequence = row.sequence /\ a # row

\* record_audit: ON CONFLICT (audit_id) DO NOTHING, an identical row is kept.
RecordAudit(r, c) ==
    /\ pc[r] = "audit" /\ NextItem(r, c)
    /\ ~AuditRefused(NewAuditRow(r, c))
    /\ audit' = IF \E a \in audit : a.case = c /\ a.sequence = NewAuditRow(r, c).sequence
                THEN audit ELSE audit \cup {NewAuditRow(r, c)}
    /\ Advance(r, "candidates")
    /\ UNCHANGED <<batch, cases, caseLinks, contexts, caseCandidates, snapshots, events>>

\* IntegrityError: the run ends between two of its transactions.
AuditFails(r, c) ==
    /\ pc[r] = "audit" /\ NextItem(r, c)
    /\ AuditRefused(NewAuditRow(r, c))
    /\ Advance(r, "failed")
    /\ UNCHANGED tableVars

RecordCandidates(r, c) ==
    /\ pc[r] = "candidates" /\ NextItem(r, c)
    /\ caseCandidates' = caseCandidates \cup (DecisionCandidates[Decided(r, c)] \X {c})
    /\ Advance(r, "snapshot")
    /\ UNCHANGED <<batch, cases, caseLinks, contexts, audit, snapshots, events>>

\* record_snapshot of an unresolved case; then the next case.
RecordSnapshot(r, c) ==
    /\ pc[r] = "snapshot" /\ NextItem(r, c)
    /\ snapshots' = IF DecisionLinks[Decided(r, c)] = {}
                    THEN InsertOnce(snapshots, c, Decided(r, c)) ELSE snapshots
    /\ todo' = [todo EXCEPT ![r] = @ \ {c}]
    /\ pc' = [pc EXCEPT ![r] = "decision"]
    /\ UNCHANGED <<batch, cases, caseLinks, contexts, audit, caseCandidates, events, content>>

----------------------------------------------------------------------------
(* The ingestion audit, one transaction per event *)

BeginIngestion(r) ==
    /\ pc[r] = "decision" /\ todo[r] = {}
    /\ pc' = [pc EXCEPT ![r] = "ingest"]
    /\ todo' = [todo EXCEPT ![r] = EventsOf[content[r]]]
    /\ UNCHANGED <<tableVars, content>>

RecordEvent(r, e) ==
    /\ pc[r] = "ingest" /\ NextItem(r, e)
    /\ events' = events \cup {e}
    /\ todo' = [todo EXCEPT ![r] = @ \ {e}]
    /\ UNCHANGED <<batch, cases, caseLinks, contexts, audit, caseCandidates, snapshots,
                   content, pc>>

\* Stage 2 is persisted; the run goes on to Stage 3 (Stage3Ledger).
Finish(r) ==
    /\ pc[r] = "ingest" /\ todo[r] = {}
    /\ Advance(r, "done")
    /\ UNCHANGED tableVars

\* The process stops, or the database refuses a connection, between two steps.
Crash(r) ==
    /\ pc[r] \in Running
    /\ Advance(r, "crashed")
    /\ UNCHANGED <<tableVars, mixed>>

RecordCase(r, c) ==
    \/ RecordDecision(r, c) \/ RecordContext(r, c)
    \/ RecordAudit(r, c) \/ AuditFails(r, c)
    \/ RecordCandidates(r, c) \/ RecordSnapshot(r, c)

RunStep(r) ==
    /\ UNCHANGED mixed
    /\ \/ ReadBatch(r) \/ RefuseBatch(r) \/ MissBatch(r) \/ InsertBatch(r)
       \/ BeginIngestion(r) \/ Finish(r)
       \/ \E c \in Case : RecordCase(r, c)
       \/ \E e \in Event : RecordEvent(r, e)

Terminated == (\A r \in Run : pc[r] \in Ended) /\ UNCHANGED vars

Next == (\E r \in Run : Start(r) \/ RunStep(r) \/ Crash(r)) \/ Terminated

Spec == Init /\ [][Next]_vars

----------------------------------------------------------------------------
(* Properties.  Those that start from ~mixed assume that runs in flight at  *)
(* once are over the same content; persist_mixed shows what happens if not. *)

\* The rows a content leaves behind when it is written whole.
LinksIn(f)      == UNION {DecisionLinks[DecisionOf[f][c]] \X {c} : c \in CasesOf(f)}
CandidatesIn(f) == UNION {DecisionCandidates[DecisionOf[f][c]] \X {c} : c \in CasesOf(f)}
OpenIn(f)       == {c \in CasesOf(f) : DecisionLinks[DecisionOf[f][c]] = {}}
AuditIn(f)      == {[case |-> c, sequence |-> Cardinality({d \in CasesOf(f) : d < c}),
                     decision |-> DecisionOf[f][c]] : c \in CasesOf(f)}

\* The ledger holds the whole of a content.
Whole(f) ==
    /\ batch = f
    /\ \A c \in CasesOf(f) : cases[c] = DecisionOf[f][c] /\ contexts[c] = DecisionOf[f][c]
    /\ \A c \in OpenIn(f) : snapshots[c] = DecisionOf[f][c]
    /\ LinksIn(f) \subseteq caseLinks
    /\ CandidatesIn(f) \subseteq caseCandidates
    /\ AuditIn(f) \subseteq audit
    /\ EventsOf[f] \subseteq events

\* The ledger holds nothing that is not of a content.
Only(f) ==
    /\ \A c \in Case : {cases[c], contexts[c], snapshots[c]} \subseteq
          IF c \in CasesOf(f) THEN {NoDecision, DecisionOf[f][c]} ELSE {NoDecision}
    /\ \A c \in Case : snapshots[c] # NoDecision => c \in OpenIn(f)
    /\ caseLinks \subseteq LinksIn(f)
    /\ caseCandidates \subseteq CandidatesIn(f)
    /\ audit \subseteq AuditIn(f)
    /\ events \subseteq EventsOf[f]

\* A batch is one content: whatever runs named the batch id, and wherever they
\* were killed, every row is of the content that was registered, and each case
\* has one row in the audit trail.
BatchIsOneContent ==
    ~mixed => IF batch = NoContent THEN \A f \in Content : Only(f) ELSE Only(batch)

\* A run that returns leaves its whole content on the ledger, whatever an
\* earlier run left half-written, and none meets an integrity error: a rerun, or
\* a concurrent run over the same content, has its duplicates absorbed.
DoneIsWhole ==
    ~mixed => \A r \in Run : /\ pc[r] # "failed"
                             /\ pc[r] = "done" => Whole(content[r])

\* Rerunning a complete batch changes no row.
RerunIsNoop ==
    [][~mixed => \A f \in Content : Whole(f) => UNCHANGED tableVars]_vars

\* Two runs over different content never both return under one batch id: a
\* collision is loud ("Loud failure is the correct behaviour", BatchIdentityError).
CollisionIsLoud ==
    \A q, r \in Run : pc[q] = "done" /\ pc[r] = "done" => content[q] = content[r]

\* A case that can be reviewed or investigated (its snapshot is there) has its
\* complete candidate set, its decision, its context and its audit row: the
\* snapshot is the last row written, whichever run writes it.
SnapshotComesLast ==
    \A c \in Case : snapshots[c] # NoDecision =>
        /\ cases[c] # NoDecision /\ contexts[c] # NoDecision
        /\ DecisionCandidates[snapshots[c]] \X {c} \subseteq caseCandidates
        /\ \E a \in audit : a.case = c /\ a.decision = snapshots[c]

\* The ledger is sound at every moment, under any runs, kills and overlaps: its
\* rows are what they should be and a frozen snapshot implies those it stands on.
LedgerIsSound == TypeOK /\ SnapshotComesLast
=============================================================================

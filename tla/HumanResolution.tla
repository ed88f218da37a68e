-------------------------- MODULE HumanResolution --------------------------
(***************************************************************************)
(* The journal of human resolutions of one batch: the tables               *)
(* human_resolution_events and human_resolution_links, and the requests    *)
(* that write them (POST /api/cases/{case}/resolution).                    *)
(*                                                                         *)
(* Every request runs on a ledger connection of its own.  It reads the     *)
(* active decision of the case OUTSIDE the transaction that supersedes it, *)
(* so two requests may decide on the same predecessor; only the unique     *)
(* (batch, case, snapshot, revision) key and the partial unique index on   *)
(* active rows stand between that race and a lost decision.                *)
(*                                                                         *)
(* The batch and the snapshot hash are left out of the keys: a case has    *)
(* one snapshot row per batch, written once (Stage2Ledger), and a request  *)
(* that names another hash is refused before it reads anything.            *)
(***************************************************************************)
EXTENDS Naturals, FiniteSets

CONSTANTS
    Case,         \* the cases that have a persisted snapshot, in case-id order
    Candidate,    \* candidate identifiers
    CandidateOf,  \* [Case -> SUBSET Candidate]: the frozen set of each snapshot
    Keep,         \* the choice of a keep_escalated resolution
    Reason,       \* the (reason, actor) pairs a reviewer may give
    Reviewer,     \* requests that may be in flight at once
    MaxRevision   \* bound: revisions of one case that are explored

ASSUME CaseAssumption == Case \subseteq Nat
ASSUME CandidateOfAssumption == CandidateOf \in [Case -> SUBSET Candidate]
ASSUME KeepAssumption == Keep \notin Candidate
ASSUME MaxRevisionAssumption == MaxRevision \in Nat

VARIABLES
    journal,  \* rows of human_resolution_events
    review    \* what each request is doing

humanVars == <<journal, review>>

Choice == Candidate \cup {Keep}

Event == [case: Case, revision: Nat \ {0}, choice: Choice, reason: Reason,
          active: BOOLEAN]

NoEvent == [revision |-> 0]

Idle == [pc |-> "idle"]

Pending == [pc: {"commit"}, case: Case, choice: Choice, reason: Reason,
            existing: Event \cup {NoEvent}]

HumanTypeOK ==
    /\ journal \subseteq Event
    /\ review \in [Reviewer -> Pending \cup {Idle}]

HumanInit ==
    /\ journal = {}
    /\ review = [r \in Reviewer |-> Idle]

----------------------------------------------------------------------------
(* Reads *)

EventsOf(c) == {e \in journal : e.case = c}

\* get_active_human_resolution, and the SELECT of record_human_resolution.
ActiveEvents(c) == {e \in EventsOf(c) : e.active}

HasActive(c) == ActiveEvents(c) # {}

\* fetchone(): the first active row, or nothing.
ExistingEvent(c) ==
    IF HasActive(c) THEN CHOOSE e \in ActiveEvents(c) : TRUE ELSE NoEvent

\* A select_candidate resolution must name a member of the frozen snapshot.
AllowedChoice(c) == CandidateOf[c] \cup {Keep}

\* The early return: the active decision already says exactly this.
SameDecision(e, choice, reason) ==
    e # NoEvent /\ e.choice = choice /\ e.reason = reason

----------------------------------------------------------------------------
(* The write transaction *)

\* Fault: the superseding event reuses the revision it supersedes.
NewEventSameRevision(v) ==
    [case |-> v.case, revision |-> v.existing.revision,
     choice |-> v.choice, reason |-> v.reason, active |-> TRUE]

NewEvent(v) ==
    [case |-> v.case, revision |-> v.existing.revision + 1,
     choice |-> v.choice, reason |-> v.reason, active |-> TRUE]

\* UPDATE ... SET active = 0 WHERE resolution_id = existing.  The row may have
\* been retired by another request since it was read; the update still applies.
SameRow(e, old) == old # NoEvent /\ e.case = old.case /\ e.revision = old.revision

Retire(rows, old) ==
    {IF SameRow(e, old) THEN [e EXCEPT !.active = FALSE] ELSE e : e \in rows}

\* Fault: neither the unique key nor the partial index exists.
NeverRefused(rows, new) == FALSE

\* IntegrityError: UNIQUE (batch, case, snapshot, revision) or the partial
\* unique index on active rows.
Refused(rows, new) ==
    \E e \in rows : e.case = new.case /\ (e.revision = new.revision \/ e.active)

----------------------------------------------------------------------------
(* Actions *)

\* The early return: repeating the active decision writes nothing.
RepeatDecision ==
    /\ \E c \in Case, reason \in Reason :
         \E choice \in AllowedChoice(c) : SameDecision(ExistingEvent(c), choice, reason)
    /\ UNCHANGED humanVars

\* The request is validated and reads the active decision of its case.
ReadExisting(r) ==
    /\ review[r] = Idle
    /\ \E c \in Case, reason \in Reason :
         \E choice \in AllowedChoice(c) :
           LET existing == ExistingEvent(c) IN
           /\ ~SameDecision(existing, choice, reason)
           /\ existing.revision < MaxRevision
           /\ review' = [review EXCEPT ![r] =
                [pc |-> "commit", case |-> c, choice |-> choice,
                 reason |-> reason, existing |-> existing]]
    /\ UNCHANGED journal

\* Fault: the predecessor is read again inside the transaction, so the request
\* supersedes a decision its author never saw.
SupersedeBlindly(r) ==
    /\ review[r] # Idle
    /\ LET seen    == [review[r] EXCEPT !.existing = ExistingEvent(review[r].case)]
           retired == Retire(journal, seen.existing)
       IN journal' = retired \cup {NewEvent(seen)}
    /\ review' = [review EXCEPT ![r] = Idle]

\* Retire the predecessor that was read and append the next revision.
Supersede(r) ==
    /\ review[r] # Idle
    /\ LET retired == Retire(journal, review[r].existing)
           new     == NewEvent(review[r])
       IN /\ ~Refused(retired, new)
          /\ journal' = retired \cup {new}
    /\ review' = [review EXCEPT ![r] = Idle]

\* The transaction is rolled back by a constraint and the request fails.
LoseRace(r) ==
    /\ review[r] # Idle
    /\ Refused(Retire(journal, review[r].existing), NewEvent(review[r]))
    /\ review' = [review EXCEPT ![r] = Idle]
    /\ UNCHANGED journal

\* The process stops between the read and the transaction.
AbandonReview(r) ==
    /\ review[r] # Idle
    /\ review' = [review EXCEPT ![r] = Idle]
    /\ UNCHANGED journal

HumanNext ==
    \/ RepeatDecision
    \/ \E r \in Reviewer :
         ReadExisting(r) \/ Supersede(r) \/ LoseRace(r) \/ AbandonReview(r)

HumanSpec == HumanInit /\ [][HumanNext]_humanVars

----------------------------------------------------------------------------
(* Properties *)

\* The revisions of a case are 1, 2, ..., n without a gap or a repetition,
\* and exactly the last one is active: whatever requests race, the journal of
\* a case is one line of history with one current decision.
LatestIsActive ==
    \A e \in journal :
        /\ \A n \in 1 .. e.revision :
             \E f \in journal : f.case = e.case /\ f.revision = n
        /\ \A f \in journal : SameRow(f, e) => f = e
        /\ e.active <=> \A f \in journal : f.case = e.case => f.revision <= e.revision

\* No decision is lost: a step that retires an active decision writes, in the
\* same step, the revision that follows it, decided by a request that had read
\* the decision it retires.
NoLostDecision ==
    [][\A e \in journal : e.active /\ e \notin journal' =>
         \E r \in Reviewer :
            /\ review[r] # Idle
            /\ review[r].existing = e
            /\ NewEvent(review[r]) \in journal']_humanVars

\* The journal is append-only but for the active flag, which is never set again:
\* no row disappears, changes its content or comes back to life.
AppendOnly ==
    [][\A e \in journal :
         e \in journal' \/ (e.active /\ [e EXCEPT !.active = FALSE] \in journal')]_humanVars
=============================================================================

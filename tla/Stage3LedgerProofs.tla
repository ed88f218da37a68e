------------------------- MODULE Stage3LedgerProofs -------------------------
(***************************************************************************)
(* What holds of Stage 3 for any set of cases, runs, options and people.   *)
(*                                                                         *)
(* The journal of human resolutions.  Its shape is not inductive: without  *)
(* ReviewSound the revision a request is about to write need not follow a  *)
(* revision that the journal still holds.                                  *)
(*                                                                         *)
(* Any number of runs in flight, and a crash anywhere: a person's decision *)
(* shuts the machine out, a contest has no winner, what is recorded is     *)
(* whole, and recorded history is final.  What a run knows is its own and  *)
(* what it relies on in the tables only grows; so a step of one run        *)
(* disturbs nothing another run relies on (OtherPasses).                   *)
(*                                                                         *)
(* Runs that follow one another (Serial), each stopped anywhere: then what *)
(* a run decides is a function of the files alone (Final), what is         *)
(* recorded is what the files say (RecordSound), and the ledger is a       *)
(* registry of claims.                                                     *)
(***************************************************************************)
EXTENDS Stage3Ledger, FiniteSetTheorems, TLAPS

----------------------------------------------------------------------------
(* The journal of human resolutions *)

\* x was read as an active row, and rows still holds that row, perhaps retired.
Remembered(x, rows) ==
    /\ x.active
    /\ \E f \in rows : SameRow(f, x) /\ f.choice = x.choice /\ f.reason = x.reason

\* The decision a request read is a row of its own case, and that row is still
\* in the journal with the content it had: rows are never deleted or rewritten.
ReviewSound ==
    \A r \in Reviewer : review[r] # Idle =>
        \/ review[r].existing = NoEvent
        \/ /\ review[r].existing.case = review[r].case
           /\ Remembered(review[r].existing, journal)

JournalInv == HumanTypeOK /\ LatestIsActive /\ ReviewSound

\* A request in flight is a well-formed record.
LEMMA PendingType ==
    ASSUME HumanTypeOK, NEW r \in Reviewer, review[r] # Idle
    PROVE  /\ review[r] \in Pending
           /\ review[r].case \in Case
           /\ review[r].choice \in Choice
           /\ review[r].reason \in Reason
           /\ review[r].existing \in Event \cup {NoEvent}
           /\ review[r].existing.revision \in Nat
  <1>1. review[r] \in Pending
    BY DEF HumanTypeOK
  <1>2. review[r].existing \in Event \cup {NoEvent}
    BY <1>1 DEF Pending
  <1>3. review[r].existing.revision \in Nat
    BY <1>2 DEF Event, NoEvent
  <1> QED
    BY <1>1, <1>2, <1>3 DEF Pending

\* What ExistingEvent returns: the absence of an active row, or one such row.
LEMMA ExistingEventIs ==
    ASSUME HumanTypeOK, NEW c \in Case
    PROVE  \/ ExistingEvent(c) = NoEvent
           \/ /\ ExistingEvent(c) \in journal
              /\ ExistingEvent(c) \in Event
              /\ ExistingEvent(c).case = c
              /\ ExistingEvent(c).active
  <1>1. CASE HasActive(c)
    <2>1. \E e : e \in ActiveEvents(c)
      BY <1>1 DEF HasActive
    <2>2. ExistingEvent(c) \in ActiveEvents(c)
      BY <1>1, <2>1 DEF ExistingEvent
    <2> QED
      BY <2>2 DEF ActiveEvents, EventsOf, HumanTypeOK
  <1>2. CASE ~HasActive(c)
    BY <1>2 DEF ExistingEvent
  <1> QED
    BY <1>1, <1>2

\* Retiring keeps every row, up to the active flag of the retired one.
LEMMA RetireKeeps ==
    ASSUME NEW rows \in SUBSET Event, NEW old \in Event \cup {NoEvent}
    PROVE  /\ Retire(rows, old) \subseteq Event
           /\ \A e \in rows : \E f \in Retire(rows, old) :
                 /\ f.case = e.case /\ f.revision = e.revision
                 /\ f.choice = e.choice /\ f.reason = e.reason
           /\ \A f \in Retire(rows, old) : \E e \in rows :
                 /\ f.case = e.case /\ f.revision = e.revision
                 /\ f.choice = e.choice /\ f.reason = e.reason
                 /\ f = IF SameRow(e, old) THEN [e EXCEPT !.active = FALSE] ELSE e
  <1>1. ASSUME NEW e \in rows
        PROVE  (IF SameRow(e, old) THEN [e EXCEPT !.active = FALSE] ELSE e) \in Event
    BY DEF Event
  <1>2. Retire(rows, old) \subseteq Event
    BY <1>1 DEF Retire
  <1>3. ASSUME NEW e \in rows
        PROVE  \E f \in Retire(rows, old) :
                 /\ f.case = e.case /\ f.revision = e.revision
                 /\ f.choice = e.choice /\ f.reason = e.reason
    <2> DEFINE f == IF SameRow(e, old) THEN [e EXCEPT !.active = FALSE] ELSE e
    <2>1. f \in Retire(rows, old)
      BY DEF Retire
    <2>2. /\ f.case = e.case /\ f.revision = e.revision
          /\ f.choice = e.choice /\ f.reason = e.reason
      BY DEF Event
    <2> QED
      BY <2>1, <2>2
  <1>4. ASSUME NEW f \in Retire(rows, old)
        PROVE  \E e \in rows :
                 /\ f.case = e.case /\ f.revision = e.revision
                 /\ f.choice = e.choice /\ f.reason = e.reason
                 /\ f = IF SameRow(e, old) THEN [e EXCEPT !.active = FALSE] ELSE e
    <2>1. PICK e \in rows :
            f = IF SameRow(e, old) THEN [e EXCEPT !.active = FALSE] ELSE e
      BY <1>4 DEF Retire
    <2>2. e \in Event
      OBVIOUS
    <2>3. /\ f.case = e.case /\ f.revision = e.revision
          /\ f.choice = e.choice /\ f.reason = e.reason
      BY <2>1, <2>2 DEF Event
    <2> QED
      BY <2>1, <2>3
  <1> QED
    BY <1>2, <1>3, <1>4

----------------------------------------------------------------------------
(* The steps of a request *)

LEMMA InitInv == HumanInit => JournalInv
  BY DEF HumanInit, JournalInv, HumanTypeOK, LatestIsActive, ReviewSound

\* A request that reads records a row of the journal, or nothing.
LEMMA ReadExistingInv ==
    ASSUME JournalInv, NEW r \in Reviewer, ReadExisting(r)
    PROVE  JournalInv'
  <1>0. PICK c \in Case, reason \in Reason :
          \E choice \in AllowedChoice(c) :
             review' = [review EXCEPT ![r] =
                [pc |-> "commit", case |-> c, choice |-> choice,
                 reason |-> reason, existing |-> ExistingEvent(c)]]
    BY DEF ReadExisting
  <1>1. PICK choice \in AllowedChoice(c) :
          review' = [review EXCEPT ![r] =
             [pc |-> "commit", case |-> c, choice |-> choice,
              reason |-> reason, existing |-> ExistingEvent(c)]]
    BY <1>0
  <1>2. journal' = journal
    BY DEF ReadExisting
  <1>3. \/ ExistingEvent(c) = NoEvent
        \/ /\ ExistingEvent(c) \in journal
           /\ ExistingEvent(c) \in Event
           /\ ExistingEvent(c).case = c
           /\ ExistingEvent(c).active
    BY ExistingEventIs DEF JournalInv
  <1>4. choice \in Choice
    BY CandidateOfAssumption DEF AllowedChoice, Choice
  <1>5. HumanTypeOK'
    <2>1. [pc |-> "commit", case |-> c, choice |-> choice, reason |-> reason,
           existing |-> ExistingEvent(c)] \in Pending
      BY <1>3, <1>4 DEF Pending
    <2> QED
      BY <1>1, <1>2, <2>1 DEF JournalInv, HumanTypeOK
  <1>6. LatestIsActive'
    BY <1>2 DEF JournalInv, LatestIsActive, SameRow
  <1>7. ReviewSound'
    <2> SUFFICES ASSUME NEW q \in Reviewer, review'[q] # Idle
                 PROVE  \/ review'[q].existing = NoEvent
                        \/ /\ review'[q].existing.case = review'[q].case
                           /\ Remembered(review'[q].existing, journal)
      BY <1>2 DEF ReviewSound, Remembered, SameRow
    <2>1. CASE q = r
      <3>1. review'[q].existing = ExistingEvent(c) /\ review'[q].case = c
        BY <1>1, <2>1 DEF JournalInv, HumanTypeOK
      <3>2. CASE ExistingEvent(c) = NoEvent
        BY <3>1, <3>2
      <3>3. CASE ExistingEvent(c) # NoEvent
        <4>1. Remembered(ExistingEvent(c), journal)
          BY <1>3, <3>3 DEF SameRow, Remembered
        <4> QED
          BY <1>3, <3>1, <3>3, <4>1
      <3> QED
        BY <3>2, <3>3
    <2>2. CASE q # r
      <3>1. review'[q] = review[q]
        BY <1>1, <2>2 DEF JournalInv, HumanTypeOK
      <3> QED
        BY <3>1 DEF JournalInv, ReviewSound
    <2> QED
      BY <2>1, <2>2
  <1> QED
    BY <1>5, <1>6, <1>7 DEF JournalInv

\* A request that ends without writing leaves the journal and the others alone.
LEMMA EndInv ==
    ASSUME JournalInv, NEW r \in Reviewer, UNCHANGED journal,
           review' = [review EXCEPT ![r] = Idle]
    PROVE  JournalInv'
  <1>1. HumanTypeOK'
    BY DEF JournalInv, HumanTypeOK
  <1>2. LatestIsActive'
    BY DEF JournalInv, LatestIsActive, SameRow
  <1>3. ReviewSound'
    BY DEF JournalInv, HumanTypeOK, ReviewSound, Remembered, SameRow
  <1> QED
    BY <1>1, <1>2, <1>3 DEF JournalInv

\* The transaction extends the history of the case by exactly one revision.
LEMMA SupersedeInv ==
    ASSUME JournalInv, NEW r \in Reviewer, Supersede(r)
    PROVE  JournalInv'
  <1> DEFINE v   == review[r]
             old == review[r].existing
             new == NewEvent(review[r])
             retired == Retire(journal, old)
  <1>1. /\ review[r] # Idle
        /\ ~Refused(retired, new)
        /\ journal' = retired \cup {new}
        /\ review' = [review EXCEPT ![r] = Idle]
    BY DEF Supersede
  <1>2. /\ v.case \in Case /\ v.choice \in Choice /\ v.reason \in Reason
        /\ old \in Event \cup {NoEvent} /\ old.revision \in Nat
    BY <1>1, PendingType DEF JournalInv
  <1>3. /\ new \in Event
        /\ new.case = v.case /\ new.revision = old.revision + 1 /\ new.active
    BY <1>2 DEF NewEvent, Event
  <1>4. journal \in SUBSET Event
    BY DEF JournalInv, HumanTypeOK
  <1>5. retired \subseteq Event
    BY <1>2, <1>4, RetireKeeps
  <1>6. \A e \in journal : \E f \in retired :
           /\ f.case = e.case /\ f.revision = e.revision
           /\ f.choice = e.choice /\ f.reason = e.reason
    BY <1>2, <1>4, RetireKeeps
  <1>7. \A f \in retired : \E e \in journal :
           /\ f.case = e.case /\ f.revision = e.revision
           /\ f.choice = e.choice /\ f.reason = e.reason
           /\ f = IF SameRow(e, old) THEN [e EXCEPT !.active = FALSE] ELSE e
    BY <1>2, <1>4, RetireKeeps
  <1>8. HumanTypeOK'
    BY <1>1, <1>3, <1>5 DEF JournalInv, HumanTypeOK
  <1>9. \A f \in retired : f.case = new.case => f.revision # new.revision /\ ~f.active
    BY <1>1 DEF Refused
  \* What the request read: the predecessor revision is in the journal.
  <1>10. \/ old = NoEvent
         \/ old.case = v.case /\ \E f \in journal : SameRow(f, old)
    BY <1>1 DEF JournalInv, ReviewSound, Remembered
  <1>11. \A n \in 1 .. old.revision :
            \E f \in journal : f.case = v.case /\ f.revision = n
    <2>1. CASE old = NoEvent
      BY <2>1 DEF NoEvent
    <2>2. CASE old.case = v.case /\ \E f \in journal : SameRow(f, old)
      <3>1. PICK f \in journal : SameRow(f, old)
        BY <2>2
      <3>2. f.case = v.case /\ f.revision = old.revision
        BY <2>2, <3>1 DEF SameRow
      <3> QED
        BY <3>2 DEF JournalInv, LatestIsActive
    <2> QED
      BY <1>10, <2>1, <2>2
  \* No revision of the case lies beyond the one that is written.
  <1>12. \A f \in retired : f.case = new.case => f.revision < new.revision
    <2> SUFFICES ASSUME NEW f \in retired, f.case = new.case,
                        ~(f.revision < new.revision)
                 PROVE  FALSE
      OBVIOUS
    <2>1. f.revision \in Nat \ {0} /\ new.revision \in Nat \ {0}
      BY <1>3, <1>5 DEF Event
    <2>2. PICK e \in journal : f.case = e.case /\ f.revision = e.revision
      BY <1>7
    <2>3. new.revision \in 1 .. e.revision
      BY <2>1, <2>2
    <2>4. PICK g \in journal : g.case = e.case /\ g.revision = new.revision
      BY <2>3 DEF JournalInv, LatestIsActive
    <2>5. PICK h \in retired : h.case = g.case /\ h.revision = g.revision
      BY <1>6
    <2> QED
      BY <1>9, <2>2, <2>4, <2>5
  \* Every row of the new journal satisfies the three parts of LatestIsActive.
  <1>13. ASSUME NEW f \in retired \cup {new}, NEW n \in 1 .. f.revision
         PROVE  \E g \in retired \cup {new} : g.case = f.case /\ g.revision = n
    <2>1. CASE f \in retired
      <3>1. PICK e \in journal : f.case = e.case /\ f.revision = e.revision
        BY <2>1, <1>7
      <3>2. PICK g \in journal : g.case = e.case /\ g.revision = n
        BY <3>1 DEF JournalInv, LatestIsActive
      <3> QED
        BY <1>6, <3>1, <3>2
    <2>2. CASE f = new /\ n = new.revision
      BY <2>2
    <2>3. CASE f = new /\ n # new.revision
      <3>1. n \in 1 .. old.revision
        BY <1>2, <1>3, <2>3
      <3>2. PICK g \in journal : g.case = v.case /\ g.revision = n
        BY <1>11, <3>1
      <3> QED
        BY <1>3, <1>6, <2>3, <3>2
    <2> QED
      BY <2>1, <2>2, <2>3
  <1>14. ASSUME NEW f \in retired \cup {new}, NEW g \in retired \cup {new},
                SameRow(g, f)
         PROVE  g = f
    <2>0. g.case = f.case /\ g.revision = f.revision
      BY <1>14 DEF SameRow
    <2>1. CASE f \in retired /\ g \in retired
      <3>1. PICK e \in journal :
              /\ f.case = e.case /\ f.revision = e.revision
              /\ f = IF SameRow(e, old) THEN [e EXCEPT !.active = FALSE] ELSE e
        BY <1>7, <2>1
      <3>2. PICK d \in journal :
              /\ g.case = d.case /\ g.revision = d.revision
              /\ g = IF SameRow(d, old) THEN [d EXCEPT !.active = FALSE] ELSE d
        BY <1>7, <2>1
      <3>3. e # NoEvent
        BY <1>4 DEF Event, NoEvent
      <3>4. d = e
        BY <2>0, <3>1, <3>2, <3>3 DEF JournalInv, LatestIsActive, SameRow
      <3> QED
        BY <3>1, <3>2, <3>4
    <2>2. CASE f = new /\ g \in retired
      BY <1>9, <2>0, <2>2
    <2>3. CASE f \in retired /\ g = new
      BY <1>9, <2>0, <2>3
    <2>4. CASE f = new /\ g = new
      BY <2>4
    <2> QED
      BY <2>1, <2>2, <2>3, <2>4
  <1>15. ASSUME NEW f \in retired \cup {new}
         PROVE  f.active <=> \A g \in retired \cup {new} :
                                g.case = f.case => g.revision <= f.revision
    <2>1. CASE f = new
      <3>1. \A g \in retired \cup {new} : g.case = f.case => g.revision <= f.revision
        BY <1>3, <1>5, <1>12, <2>1 DEF Event
      <3> QED
        BY <1>3, <2>1, <3>1
    <2>2. CASE f \in retired /\ f.case = new.case
      <3>1. ~f.active
        BY <1>9, <2>2
      <3>2. ~(new.revision <= f.revision)
        BY <1>3, <1>5, <1>12, <2>2 DEF Event
      <3> QED
        BY <2>2, <3>1, <3>2
    <2>3. CASE f \in retired /\ f.case # new.case
      <3>1. PICK e \in journal :
              /\ f.case = e.case /\ f.revision = e.revision
              /\ f = IF SameRow(e, old) THEN [e EXCEPT !.active = FALSE] ELSE e
        BY <1>7, <2>3
      <3>2. ~SameRow(e, old)
        BY <1>3, <1>10, <2>3, <3>1 DEF SameRow
      <3>3. f = e
        BY <3>1, <3>2
      <3>4. e.active <=> \A g \in journal : g.case = e.case => g.revision <= e.revision
        BY DEF JournalInv, LatestIsActive
      <3>5. (\A g \in journal : g.case = e.case => g.revision <= e.revision)
            <=> (\A g \in retired \cup {new} : g.case = f.case => g.revision <= f.revision)
        BY <1>6, <1>7, <2>3, <3>3
      <3> QED
        BY <3>3, <3>4, <3>5
    <2> QED
      BY <2>1, <2>2, <2>3
  <1>16. LatestIsActive'
    <2>1. journal' = retired \cup {new}
      BY <1>1
    <2> HIDE DEF retired, new
    <2> QED
      BY <2>1, <1>13, <1>14, <1>15 DEF LatestIsActive, SameRow
  <1>17. ReviewSound'
    <2> SUFFICES ASSUME NEW q \in Reviewer, review'[q] # Idle,
                        review'[q].existing # NoEvent
                 PROVE  /\ review'[q].existing.case = review'[q].case
                        /\ Remembered(review'[q].existing, journal')
      BY DEF ReviewSound, Remembered, SameRow
    <2>1. q # r /\ review'[q] = review[q]
      BY <1>1 DEF JournalInv, HumanTypeOK
    <2>2. /\ review[q].existing.case = review[q].case
          /\ Remembered(review[q].existing, journal)
      BY <2>1 DEF JournalInv, ReviewSound
    <2>3. PICK e \in journal :
            /\ SameRow(e, review[q].existing)
            /\ e.choice = review[q].existing.choice
            /\ e.reason = review[q].existing.reason
      BY <2>2 DEF Remembered
    <2>4. PICK f \in retired :
            /\ f.case = e.case /\ f.revision = e.revision
            /\ f.choice = e.choice /\ f.reason = e.reason
      BY <1>6
    <2>5. SameRow(f, review[q].existing)
      BY <2>3, <2>4 DEF SameRow
    <2>6. Remembered(review[q].existing, journal')
      BY <1>1, <2>2, <2>3, <2>4, <2>5 DEF Remembered
    <2> QED
      BY <2>1, <2>2, <2>6
  <1> QED
    BY <1>8, <1>16, <1>17 DEF JournalInv

LEMMA StepInv == JournalInv /\ [HumanNext]_humanVars => JournalInv'
  <1> SUFFICES ASSUME JournalInv, [HumanNext]_humanVars
               PROVE  JournalInv'
    OBVIOUS
  <1>1. ASSUME NEW r \in Reviewer, ReadExisting(r) PROVE JournalInv'
    BY <1>1, ReadExistingInv
  <1>2. ASSUME NEW r \in Reviewer, Supersede(r) PROVE JournalInv'
    BY <1>2, SupersedeInv
  <1>3. ASSUME NEW r \in Reviewer, LoseRace(r) PROVE JournalInv'
    BY <1>3, EndInv DEF LoseRace
  <1>4. ASSUME NEW r \in Reviewer, AbandonReview(r) PROVE JournalInv'
    BY <1>4, EndInv DEF AbandonReview
  <1>5. ASSUME UNCHANGED humanVars PROVE JournalInv'
    BY <1>5 DEF JournalInv, HumanTypeOK, LatestIsActive, ReviewSound, Remembered,
               SameRow, humanVars
  <1> QED
    BY <1>1, <1>2, <1>3, <1>4, <1>5 DEF HumanNext, RepeatDecision

----------------------------------------------------------------------------
(* Theorems about the journal *)

\* The inductive invariant holds in every reachable state.
THEOREM JournalInvariant == HumanSpec => []JournalInv
  BY InitInv, StepInv, PTL DEF HumanSpec

\* Whatever requests race, the tables keep their types.
THEOREM HumanTypeCorrect == HumanSpec => []HumanTypeOK
  <1>1. JournalInv => HumanTypeOK
    BY DEF JournalInv
  <1> QED
    BY <1>1, JournalInvariant, PTL

\* Whatever requests race, the journal of a case is one gapless line of
\* revisions whose last, and only whose last, is active.
THEOREM OneLineOfHistory == HumanSpec => []LatestIsActive
  <1>1. JournalInv => LatestIsActive
    BY DEF JournalInv
  <1> QED
    BY <1>1, JournalInvariant, PTL
\* Only a transaction retires a row, and only the row its request had read.
LEMMA RetiredWasRead ==
    ASSUME JournalInv, NEW r \in Reviewer, Supersede(r),
           NEW e \in journal, e \notin journal'
    PROVE  /\ [e EXCEPT !.active = FALSE] \in journal'
           /\ e.active => review[r].existing = e
  <1> DEFINE old == review[r].existing
  <1>1. /\ review[r] # Idle
        /\ journal' = Retire(journal, old) \cup {NewEvent(review[r])}
    BY DEF Supersede
  <1>2. SameRow(e, old)
    <2>1. e = (IF SameRow(e, old) THEN [e EXCEPT !.active = FALSE] ELSE e) => e \in Retire(journal, old)
      BY DEF Retire
    <2> QED
      BY <1>1, <2>1
  <1>3. [e EXCEPT !.active = FALSE] \in journal'
    <2>1. [e EXCEPT !.active = FALSE] \in Retire(journal, old)
      BY <1>2 DEF Retire
    <2> QED
      BY <1>1, <2>1
  <1>4. ASSUME e.active PROVE old = e
    <2>1. old # NoEvent /\ old \in Event
      BY <1>1, <1>2, PendingType DEF SameRow, JournalInv
    <2>2. PICK f \in journal : SameRow(f, old) /\ f.choice = old.choice /\ f.reason = old.reason
      BY <1>1, <2>1 DEF JournalInv, ReviewSound, Remembered
    <2>3. e # NoEvent /\ e \in Event
      BY DEF JournalInv, HumanTypeOK, Event, NoEvent
    <2>4. SameRow(f, e)
      BY <1>2, <2>2, <2>3 DEF SameRow
    <2>5. f = e
      BY <2>4 DEF JournalInv, LatestIsActive
    <2>6. old.active
      BY <1>1, <2>1 DEF JournalInv, ReviewSound, Remembered
    <2> QED
      BY <1>2, <1>4, <2>1, <2>2, <2>3, <2>5, <2>6 DEF Event, SameRow
  <1> QED
    BY <1>3, <1>4

\* An active decision is retired only by a request that had read it, in the
\* step that writes the revision following it.
THEOREM NoDecisionIsLost == HumanSpec => NoLostDecision
  <1>1. ASSUME JournalInv, [HumanNext]_humanVars, NEW e \in journal,
               e.active, e \notin journal'
        PROVE  \E r \in Reviewer :
                 /\ review[r] # Idle
                 /\ review[r].existing = e
                 /\ NewEvent(review[r]) \in journal'
    <2>1. PICK r \in Reviewer : Supersede(r)
      BY <1>1 DEF HumanNext, RepeatDecision, ReadExisting, LoseRace, AbandonReview, humanVars
    <2>2. review[r].existing = e
      BY <1>1, <2>1, RetiredWasRead
    <2> QED
      BY <2>1, <2>2 DEF Supersede
  <1>2. JournalInv /\ [HumanNext]_humanVars =>
          [\A e \in journal : e.active /\ e \notin journal' =>
             \E r \in Reviewer :
                /\ review[r] # Idle
                /\ review[r].existing = e
                /\ NewEvent(review[r]) \in journal']_humanVars
    BY <1>1
  <1> QED
    BY <1>2, JournalInvariant, PTL DEF HumanSpec, NoLostDecision

\* No row ever disappears, changes its content or becomes active again.
THEOREM JournalAppendOnly == HumanSpec => AppendOnly
  <1>1. ASSUME JournalInv, [HumanNext]_humanVars, NEW e \in journal, e \notin journal'
        PROVE  e.active /\ [e EXCEPT !.active = FALSE] \in journal'
    <2>1. PICK r \in Reviewer : Supersede(r)
      BY <1>1 DEF HumanNext, RepeatDecision, ReadExisting, LoseRace, AbandonReview, humanVars
    <2>2. [e EXCEPT !.active = FALSE] \in journal'
      BY <1>1, <2>1, RetiredWasRead
    <2>3. e \in Event
      BY <1>1 DEF JournalInv, HumanTypeOK
    <2>4. e.active
      BY <1>1, <2>2, <2>3 DEF Event
    <2> QED
      BY <2>2, <2>4
  <1>2. JournalInv /\ [HumanNext]_humanVars =>
          [\A e \in journal :
             e \in journal' \/ (e.active /\ [e EXCEPT !.active = FALSE] \in journal')]_humanVars
    BY <1>1
  <1> QED
    BY <1>2, JournalInvariant, PTL DEF HumanSpec, AppendOnly

----------------------------------------------------------------------------
(* Runs that may overlap *)

\* Where a run stands: with a scope it is working through, with its verdicts made.
Scoped  == {"investigate", "calling", "storing", "writing",
            "investigation", "decision", "done"}
Settled == {"investigation", "decision", "done"}

----------------------------------------------------------------------------
(* The inductive invariant *)

\* A run has reported every case that was decided when it began, once it has gone
\* through them; the filter has passed over no case but those a person had decided,
\* and takes up none that was decided when the run began or that it has reported.
FilterSound(p) ==
    /\ pc[p] \in {"idle", "report"} => scope[p] = {}
    /\ pc[p] \in Running \cup {"done"} =>
          \A c \in option[p].only :
             \/ c \in scope[p] \/ HasActive(c)
             \/ pc[p] = "report" \/ (pc[p] = "filter" /\ c \in todo[p])
    /\ \A c \in sealed[p] \cup reported[p] : c \notin scope[p] /\ HasActive(c)
    /\ pc[p] = "report" => sealed[p] \subseteq reported[p] \cup todo[p]
    /\ pc[p] \in (Running \ {"report"}) \cup {"done"} => sealed[p] \subseteq reported[p]

\* A run holds a trajectory for each case it has investigated.
FoundSound(p) ==
    /\ pc[p] \in Scoped => todo[p] \subseteq scope[p]
    /\ pc[p] \in Scoped => \A c \in scope[p] \ todo[p] : found[p][c] \in Trajectory
    /\ pc[p] \in {"storing", "writing"} =>
          \A c \in Case : NextCase(p, c) => found[p][c] \in Trajectory
    /\ pc[p] \in Settled => \A c \in scope[p] : found[p][c] \in Trajectory

\* The verdicts of a run are those of the whole pass, contests withdrawn, and the
\* cases it has been through are decided in the tables.
OutcomeSound(p) ==
    /\ outcome[p] = IF pc[p] \in Settled THEN WithdrawContended(p, FirstPass(p))
                    ELSE [c \in Case |-> NoChoice]
    /\ pc[p] \in Settled => \A c \in scope[p] \ todo[p] : decisions[c] # NoRow
    /\ pc[p] = "decision" =>
          \A c \in Case : NextCase(p, c) => investigations[c] # NoTrajectory
    /\ pc[p] = "done" => todo[p] = {}

PassSound(p) == FilterSound(p) /\ FoundSound(p) /\ OutcomeSound(p)

StageInv ==
    /\ JournalInv
    /\ TypeOK
    /\ ResolutionHasLinks
    /\ \A p \in Pass : PassSound(p)

\* What a run relies on in the tables is never taken away.
Grows ==
    /\ \A c \in Case : HasActive(c) => HasActive(c)'
    /\ \A c \in Case : decisions[c] # NoRow => decisions'[c] = decisions[c]
    /\ \A c \in Case : investigations[c] # NoTrajectory =>
                          investigations'[c] = investigations[c]
    /\ links \subseteq links' /\ toolCalls \subseteq toolCalls'

\* All a run holds of its own.
Held(p) == <<pc[p], option[p], todo[p], scope[p], prior[p], found[p], outcome[p],
             sealed[p], reported[p]>>

\* A run is untouched by a step that is not its own.
LEMMA OtherPasses ==
    ASSUME NEW q \in Pass, PassSound(q), TypeOK, Grows, UNCHANGED Held(q)
    PROVE  PassSound(q)'
  <1>1. option[q].only \subseteq Case /\ sealed[q] \cup reported[q] \subseteq Case /\ scope[q] \subseteq Case
    BY OptionAssumption DEF TypeOK
  <1>2. FilterSound(q)'
    BY <1>1 DEF PassSound, FilterSound, Grows, Held
  <1>3. FoundSound(q)'
    BY DEF PassSound, FoundSound, Held, NextCase
  <1>4. OutcomeSound(q)'
    <2>1. FirstPass(q)' = FirstPass(q)
      BY DEF FirstPass, Held
    <2>2. WithdrawContended(q, FirstPass(q))' = WithdrawContended(q, FirstPass(q))
      BY <2>1 DEF WithdrawContended, Held
    <2>3. (outcome[q] = IF pc[q] \in Settled THEN WithdrawContended(q, FirstPass(q))
                        ELSE [c \in Case |-> NoChoice])'
      BY <2>2 DEF PassSound, OutcomeSound, Held, Settled
    <2> QED BY <1>1, <2>3 DEF PassSound, OutcomeSound, Held, Grows, Settled, NextCase
  <1> QED BY <1>2, <1>3, <1>4 DEF PassSound

\* The next case is one case.
LEMMA NextCaseIsOne ==
    ASSUME TypeOK, NEW p \in Pass, NEW c \in Case, NEW d \in Case,
           NextCase(p, c), NextCase(p, d)
    PROVE  c = d
  BY CaseAssumption DEF NextCase

\* A decision row is a row.
LEMMA RowIsRow == \A row \in DecisionRow : row # NoRow
  BY DEF DecisionRow, NoRow

\* The verdicts a run computes are candidates, or none.
LEMMA VerdictTypes ==
    ASSUME TypeOK, NEW p \in Pass
    PROVE  /\ FirstPass(p) \in [Case -> Verdict]
           /\ WithdrawContended(p, FirstPass(p)) \in [Case -> Verdict]
           /\ \A v \in Verdict : Links(v) \subseteq Settlement
  <1>1. FirstPass(p) \in [Case -> Verdict]
    BY ProofOfAssumption DEF FirstPass, Adjudicate, Verdict
  <1>2. WithdrawContended(p, FirstPass(p)) \in [Case -> Verdict]
    <2> HIDE DEF FirstPass
    <2> QED BY <1>1 DEF WithdrawContended, Verdict
  <1>3. \A v \in Verdict : Links(v) \subseteq Settlement
    BY LinksOfAssumption DEF Links, Verdict
  <1> QED BY <1>1, <1>2, <1>3

\* A person's decision of a case may be superseded and is never undone.
LEMMA ActiveStays ==
    ASSUME JournalInv, [HumanNext]_humanVars, NEW c \in Case, HasActive(c)
    PROVE  HasActive(c)'
  <1>1. PICK e \in journal : e.case = c /\ e.active
    BY DEF HasActive, ActiveEvents, EventsOf
  <1>2. CASE e \in journal'
    BY <1>1, <1>2 DEF HasActive, ActiveEvents, EventsOf
  <1>3. CASE e \notin journal'
    <2>1. PICK r \in Reviewer : Supersede(r)
      BY <1>1, <1>3 DEF HumanNext, RepeatDecision, ReadExisting, LoseRace, AbandonReview, humanVars
    <2>2. review[r].existing = e
      BY <1>1, <1>3, <2>1, RetiredWasRead
    <2>3. NewEvent(review[r]) \in journal' /\ review[r] # Idle
      BY <2>1 DEF Supersede
    <2>4. e \in Event /\ e # NoEvent
      BY <1>1 DEF JournalInv, HumanTypeOK, Event, NoEvent
    <2>5. review[r].case = c
      BY <1>1, <2>2, <2>3, <2>4 DEF JournalInv, ReviewSound
    <2>6. NewEvent(review[r]).case = c /\ NewEvent(review[r]).active
      BY <2>5 DEF NewEvent
    <2> QED BY <2>3, <2>6 DEF HasActive, ActiveEvents, EventsOf
  <1> QED BY <1>2, <1>3

----------------------------------------------------------------------------
(* The steps of a run *)

\* A step that writes none of the rows keeps what is said of them.
LEMMA QuietTables ==
    ASSUME StageInv, UNCHANGED <<humanVars, investigations, toolCalls, decisions, links>>
    PROVE  JournalInv' /\ HumanTypeOK' /\ Grows /\ ResolutionHasLinks'
  <1>1. JournalInv' /\ HumanTypeOK'
    BY DEF StageInv, humanVars, JournalInv, HumanTypeOK, LatestIsActive, ReviewSound
  <1>2. Grows
    BY DEF Grows, humanVars, HasActive, ActiveEvents, EventsOf
  <1>3. ResolutionHasLinks'
    BY DEF StageInv, ResolutionHasLinks, LinksOfCase
  <1> QED BY <1>1, <1>2, <1>3

\* A step of one run: it is enough to look at the tables and at that run.
LEMMA OneRun ==
    ASSUME StageInv, NEW p \in Pass, JournalInv', TypeOK', ResolutionHasLinks', Grows,
           \A q \in Pass \ {p} : UNCHANGED Held(q), PassSound(p)'
    PROVE  StageInv'
  <1>1. ASSUME NEW q \in Pass PROVE PassSound(q)'
    <2>1. CASE q = p
      BY <2>1
    <2>2. CASE q # p
      <3>1. PassSound(q) /\ TypeOK /\ UNCHANGED Held(q)
        BY <2>2 DEF StageInv
      <3> QED BY <3>1, OtherPasses
    <2> QED BY <2>1, <2>2
  <1> QED BY <1>1 DEF StageInv

LEMMA InitStage == Init => StageInv
  <1> SUFFICES ASSUME Init PROVE StageInv
    OBVIOUS
  <1>1. JournalInv /\ HumanTypeOK
    BY InitInv DEF Init, JournalInv
  <1>2. TypeOK
    BY <1>1 DEF Init, TypeOK, Verdict
  <1>3. ResolutionHasLinks
    BY DEF Init, ResolutionHasLinks
  <1>4. ASSUME NEW p \in Pass PROVE PassSound(p)
    BY DEF Init, PassSound, FilterSound, FoundSound, OutcomeSound, Running, Scoped, Settled
  <1> QED BY <1>1, <1>2, <1>3, <1>4 DEF StageInv

LEMMA BeginInv ==
    ASSUME StageInv, NEW p \in Pass, Begin(p)
    PROVE  StageInv' /\ Grows
  <1>1. JournalInv' /\ HumanTypeOK' /\ Grows /\ ResolutionHasLinks'
    BY QuietTables DEF Begin, tableVars
  <1>2. TypeOK'
    BY <1>1 DEF StageInv, Begin, TypeOK, tableVars, Running
  <1>3. \A q \in Pass \ {p} : UNCHANGED Held(q)
    BY DEF StageInv, TypeOK, Begin, Held
  <1>4. /\ pc[p] = "idle" /\ pc'[p] = "report" /\ todo'[p] = Case
        /\ sealed'[p] = {c \in Case : HasActive(c)} /\ reported'[p] = reported[p]
    BY DEF StageInv, TypeOK, Begin
  <1>5. scope'[p] = {} /\ option'[p].only \subseteq Case /\ outcome'[p] = outcome[p]
    BY OptionAssumption DEF StageInv, TypeOK, Begin, PassSound, FilterSound
  <1>6. FilterSound(p)'
    <2>1. FilterSound(p) /\ reported[p] \subseteq Case
      BY DEF StageInv, PassSound, TypeOK
    <2>2. \A c \in Case : HasActive(c) => HasActive(c)'
      BY <1>1 DEF Grows
    <2> QED BY <1>4, <1>5, <2>1, <2>2 DEF FilterSound
  <1>7. FoundSound(p)'
    BY <1>4 DEF FoundSound, Scoped, Settled
  <1>8. outcome[p] = [c \in Case |-> NoChoice]
    BY DEF StageInv, PassSound, OutcomeSound, Begin, Settled
  <1>9. OutcomeSound(p)'
    BY <1>4, <1>5, <1>8 DEF OutcomeSound, Settled
  <1> QED BY <1>1, <1>2, <1>3, <1>6, <1>7, <1>9, OneRun DEF PassSound

LEMMA ReportHumanInv ==
    ASSUME StageInv, NEW p \in Pass, NEW c \in Case, ReportHuman(p, c)
    PROVE  StageInv' /\ Grows
  <1>1. JournalInv' /\ HumanTypeOK' /\ Grows /\ ResolutionHasLinks'
    BY QuietTables DEF ReportHuman, tableVars
  <1>2. TypeOK'
    BY <1>1 DEF StageInv, ReportHuman, TypeOK, tableVars
  <1>3. \A q \in Pass \ {p} : UNCHANGED Held(q)
    BY DEF StageInv, TypeOK, ReportHuman, Held
  <1>4. /\ pc[p] = "report" /\ pc'[p] = "report" /\ todo'[p] = todo[p] \ {c}
        /\ reported'[p] = IF HasActive(c) THEN reported[p] \cup {c} ELSE reported[p]
        /\ scope'[p] = scope[p] /\ sealed'[p] = sealed[p] /\ option'[p] = option[p]
        /\ outcome'[p] = outcome[p] /\ sealed[p] \cup reported[p] \subseteq Case
    BY DEF StageInv, TypeOK, ReportHuman
  <1>5. FilterSound(p) /\ OutcomeSound(p)
    BY DEF StageInv, PassSound
  <1>6. \A d \in Case : HasActive(d) => HasActive(d)'
    BY <1>1 DEF Grows
  <1>7. FilterSound(p)'
    BY <1>4, <1>5, <1>6 DEF FilterSound
  <1>8. FoundSound(p)'
    BY <1>4 DEF FoundSound, Scoped, Settled
  <1>9. OutcomeSound(p)'
    BY <1>4, <1>5 DEF OutcomeSound, Settled
  <1> QED BY <1>1, <1>2, <1>3, <1>7, <1>8, <1>9, OneRun DEF PassSound

LEMMA StartFilterInv ==
    ASSUME StageInv, NEW p \in Pass, StartFilter(p)
    PROVE  StageInv' /\ Grows
  <1>1. JournalInv' /\ HumanTypeOK' /\ Grows /\ ResolutionHasLinks'
    BY QuietTables DEF StartFilter, tableVars
  <1>2. TypeOK'
    BY <1>1 DEF StageInv, StartFilter, TypeOK, tableVars, Running
  <1>3. \A q \in Pass \ {p} : UNCHANGED Held(q)
    BY DEF StageInv, TypeOK, StartFilter, Held
  <1>4. /\ pc[p] = "report" /\ pc'[p] = "filter" /\ todo[p] = {} /\ todo'[p] = Case
        /\ UNCHANGED <<option, scope, prior, found, outcome, sealed, reported>>
    BY DEF StageInv, TypeOK, StartFilter
  <1>5. option[p].only \subseteq Case /\ sealed[p] \cup reported[p] \subseteq Case
    BY OptionAssumption DEF StageInv, TypeOK
  <1>6. FilterSound(p) /\ OutcomeSound(p)
    BY DEF StageInv, PassSound
  <1>7. FilterSound(p)'
    BY <1>1, <1>4, <1>5, <1>6 DEF FilterSound, Grows, Running
  <1>8. FoundSound(p)'
    BY <1>4 DEF FoundSound, Scoped, Settled
  <1>9. OutcomeSound(p)'
    BY <1>4, <1>6 DEF OutcomeSound, Settled
  <1> QED BY <1>1, <1>2, <1>3, <1>7, <1>8, <1>9, OneRun DEF PassSound

LEMMA FilterHumanInv ==
    ASSUME StageInv, NEW p \in Pass, NEW c \in Case, FilterHuman(p, c)
    PROVE  StageInv' /\ Grows
  <1>1. JournalInv' /\ HumanTypeOK' /\ Grows /\ ResolutionHasLinks'
    BY QuietTables DEF FilterHuman, tableVars
  <1>2. TypeOK'
    BY <1>1 DEF StageInv, FilterHuman, TypeOK, tableVars
  <1>3. \A q \in Pass \ {p} : UNCHANGED Held(q)
    BY DEF StageInv, TypeOK, FilterHuman, Held
  <1>4. /\ pc[p] = "filter" /\ pc'[p] = "filter" /\ todo'[p] = todo[p] \ {c}
        /\ scope'[p] = IF HasActive(c) \/ c \notin option[p].only
                       THEN scope[p] ELSE scope[p] \cup {c}
        /\ sealed'[p] = sealed[p] /\ reported'[p] = reported[p]
        /\ option'[p] = option[p] /\ outcome'[p] = outcome[p]
    BY DEF StageInv, TypeOK, FilterHuman
  <1>5. option[p].only \subseteq Case /\ sealed[p] \cup reported[p] \subseteq Case
    BY OptionAssumption DEF StageInv, TypeOK
  <1>6. FilterSound(p) /\ OutcomeSound(p)
    BY DEF StageInv, PassSound
  <1>7. FilterSound(p)'
    <2>1. \A d \in Case : HasActive(d) => HasActive(d)'
      BY <1>1 DEF Grows
    <2>2. (pc[p] \in {"idle", "report"} => scope[p] = {})'
      BY <1>4
    <2>3. ASSUME NEW d \in option[p].only
          PROVE  \/ d \in scope'[p] \/ HasActive(d)'
                 \/ pc'[p] = "report" \/ (pc'[p] = "filter" /\ d \in todo'[p])
      BY <1>4, <1>5, <1>6, <2>1, <2>3 DEF FilterSound, Running
    <2>4. ASSUME NEW d \in sealed[p] \cup reported[p] PROVE d \notin scope'[p] /\ HasActive(d)'
      BY <1>4, <1>5, <1>6, <2>1, <2>4 DEF FilterSound
    <2>5. sealed[p] \subseteq reported[p]
      BY <1>4, <1>6 DEF FilterSound, Running
    <2> QED BY <1>4, <2>2, <2>3, <2>4, <2>5 DEF FilterSound
  <1>8. FoundSound(p)'
    BY <1>4 DEF FoundSound, Scoped, Settled
  <1>9. OutcomeSound(p)'
    BY <1>4, <1>6 DEF OutcomeSound, Settled
  <1> QED BY <1>1, <1>2, <1>3, <1>7, <1>8, <1>9, OneRun DEF PassSound

\* The claims read are rows of the tables.
LEMMA ClaimsType ==
    ASSUME StageInv
    PROVE  SettlementClaims \subseteq Settlement \X Nat
  <1>1. Stage2Links \subseteq Settlement \X Nat /\ links \subseteq Settlement \X Nat
    BY Stage2LinksAssumption, CaseAssumption DEF StageInv, TypeOK
  <1>2. HumanLinks \subseteq Settlement \X Nat
    <2> SUFFICES ASSUME NEW y \in HumanLinks PROVE y \in Settlement \X Nat
      OBVIOUS
    <2>1. PICK e \in journal : e.choice # Keep /\ y \in Links(e.choice) \X {e.case}
      BY DEF HumanLinks
    <2>2. e.choice \in Candidate /\ e.case \in Nat
      BY <2>1, CaseAssumption DEF StageInv, JournalInv, HumanTypeOK, Event, Choice
    <2>3. Links(e.choice) \subseteq Settlement
      BY <2>2, LinksOfAssumption DEF Links
    <2> QED BY <2>1, <2>2, <2>3
  <1> QED BY <1>1, <1>2 DEF SettlementClaims

LEMMA ReadClaimsInv ==
    ASSUME StageInv, NEW p \in Pass, ReadClaims(p)
    PROVE  StageInv' /\ Grows
  <1>1. JournalInv' /\ HumanTypeOK' /\ Grows /\ ResolutionHasLinks'
    BY QuietTables DEF ReadClaims, tableVars
  <1>2. TypeOK'
    <2>1. prior' \in [Pass -> SUBSET (Settlement \X Nat)]
      BY ClaimsType DEF StageInv, ReadClaims, TypeOK
    <2> QED BY <1>1, <2>1 DEF StageInv, ReadClaims, TypeOK, tableVars, Running
  <1>3. \A q \in Pass \ {p} : UNCHANGED Held(q)
    BY DEF StageInv, TypeOK, ReadClaims, Held
  <1>4. /\ pc[p] = "filter" /\ pc'[p] = "investigate" /\ todo[p] = {} /\ todo'[p] = scope[p]
        /\ scope'[p] = scope[p]
        /\ sealed'[p] = sealed[p] /\ reported'[p] = reported[p]
        /\ option'[p] = option[p] /\ outcome'[p] = outcome[p]
    BY DEF StageInv, TypeOK, ReadClaims
  <1>5. option[p].only \subseteq Case /\ sealed[p] \cup reported[p] \subseteq Case
    BY OptionAssumption DEF StageInv, TypeOK
  <1>6. FilterSound(p) /\ OutcomeSound(p)
    BY DEF StageInv, PassSound
  <1>7. FilterSound(p)'
    BY <1>1, <1>4, <1>5, <1>6 DEF FilterSound, Grows, Running
  <1>8. FoundSound(p)'
    BY <1>4 DEF FoundSound, Scoped, Settled
  <1>9. OutcomeSound(p)'
    BY <1>4, <1>6 DEF OutcomeSound, Settled
  <1> QED BY <1>1, <1>2, <1>3, <1>7, <1>8, <1>9, OneRun DEF PassSound

\* A run that stops without a result holds nothing.
LEMMA ForgetInv ==
    ASSUME StageInv, NEW p \in Pass, NEW end \in {"failed", "crashed"}, Forget(p),
           pc' = [pc EXCEPT ![p] = end], UNCHANGED <<humanVars, tableVars, option>>
    PROVE  StageInv' /\ Grows
  <1>1. JournalInv' /\ HumanTypeOK' /\ Grows /\ ResolutionHasLinks'
    BY QuietTables DEF tableVars
  <1>2. TypeOK'
    BY <1>1 DEF StageInv, Forget, TypeOK, tableVars, Verdict
  <1>3. \A q \in Pass \ {p} : UNCHANGED Held(q)
    BY DEF StageInv, TypeOK, Forget, Held
  <1>4. /\ pc'[p] = end /\ scope'[p] = {} /\ sealed'[p] = {} /\ reported'[p] = {}
        /\ outcome'[p] = [c \in Case |-> NoChoice]
    BY DEF StageInv, TypeOK, Forget
  <1>5. PassSound(p)'
    BY <1>4 DEF PassSound, FilterSound, FoundSound, OutcomeSound, Running, Scoped, Settled
  <1> QED BY <1>1, <1>2, <1>3, <1>5, OneRun

LEMMA ReplayTrajectoryInv ==
    ASSUME StageInv, NEW p \in Pass, NEW c \in Case, ReplayTrajectory(p, c)
    PROVE  StageInv' /\ Grows
  <1>1. JournalInv' /\ HumanTypeOK' /\ Grows /\ ResolutionHasLinks'
    BY QuietTables DEF ReplayTrajectory, tableVars
  <1>2. TypeOK'
    BY <1>1 DEF StageInv, ReplayTrajectory, TypeOK, tableVars
  <1>3. \A q \in Pass \ {p} : UNCHANGED Held(q)
    BY DEF StageInv, TypeOK, ReplayTrajectory, Held
  <1>4. /\ pc[p] = "investigate" /\ pc'[p] = pc[p] /\ todo'[p] = todo[p] \ {c}
        /\ found'[p] = [found[p] EXCEPT ![c] = cache[Key(p, c)]]
        /\ found[p] \in [Case -> Trajectory \cup {NoTrajectory}]
        /\ sealed'[p] = sealed[p] /\ reported'[p] = reported[p]
        /\ scope'[p] = scope[p] /\ option'[p] = option[p]
        /\ outcome'[p] = outcome[p] /\ scope[p] \subseteq Case
    BY DEF StageInv, TypeOK, ReplayTrajectory
  <1>5. option[p].only \subseteq Case /\ sealed[p] \cup reported[p] \subseteq Case
    BY OptionAssumption DEF StageInv, TypeOK
  <1>6. FilterSound(p) /\ FoundSound(p) /\ OutcomeSound(p)
    BY DEF StageInv, PassSound
  <1>7. FilterSound(p)'
    BY <1>1, <1>4, <1>5, <1>6 DEF FilterSound, Grows, Running
  <1>8. FoundSound(p)'
    BY <1>4, <1>6 DEF FoundSound, Scoped, Settled, ReplayTrajectory
  <1>9. OutcomeSound(p)'
    BY <1>4, <1>6 DEF OutcomeSound, Settled
  <1> QED BY <1>1, <1>2, <1>3, <1>7, <1>8, <1>9, OneRun DEF PassSound

LEMMA CallModelInv ==
    ASSUME StageInv, NEW p \in Pass, NEW c \in Case, CallModel(p, c)
    PROVE  StageInv' /\ Grows
  <1>1. JournalInv' /\ HumanTypeOK' /\ Grows /\ ResolutionHasLinks'
    BY QuietTables DEF CallModel, tableVars
  <1>2. TypeOK'
    BY <1>1 DEF StageInv, CallModel, TypeOK, tableVars, Running
  <1>3. \A q \in Pass \ {p} : UNCHANGED Held(q)
    BY DEF StageInv, TypeOK, CallModel, Held
  <1>4. /\ pc[p] = "investigate" /\ pc'[p] = "calling"
        /\ UNCHANGED <<option, todo, scope, prior, found, outcome, sealed, reported>>
    BY DEF StageInv, TypeOK, CallModel
  <1>5. option[p].only \subseteq Case /\ sealed[p] \cup reported[p] \subseteq Case
    BY OptionAssumption DEF StageInv, TypeOK
  <1>6. FilterSound(p) /\ FoundSound(p) /\ OutcomeSound(p)
    BY DEF StageInv, PassSound
  <1>7. FilterSound(p)'
    BY <1>1, <1>4, <1>5, <1>6 DEF FilterSound, Grows, Running
  <1>8. FoundSound(p)'
    BY <1>4, <1>6 DEF FoundSound, Scoped, Settled
  <1>9. OutcomeSound(p)'
    BY <1>4, <1>6 DEF OutcomeSound, Settled
  <1> QED BY <1>1, <1>2, <1>3, <1>7, <1>8, <1>9, OneRun DEF PassSound

LEMMA FinishCallInv ==
    ASSUME StageInv, NEW p \in Pass, NEW c \in Case, FinishCall(p, c)
    PROVE  StageInv' /\ Grows
  <1>1. JournalInv' /\ HumanTypeOK' /\ Grows /\ ResolutionHasLinks'
    BY QuietTables DEF FinishCall, tableVars
  <1>2. PICK t \in Trajectory :
          /\ found' = [found EXCEPT ![p][c] = t]
          /\ \/ pc' = [pc EXCEPT ![p] = "storing"] /\ todo' = todo
             \/ /\ pc' = [pc EXCEPT ![p] = "investigate"]
                /\ todo' = [todo EXCEPT ![p] = @ \ {c}]
    BY DEF FinishCall
  <1>3. TypeOK'
    <2>1. found' \in [Pass -> [Case -> Trajectory \cup {NoTrajectory}]]
      BY <1>2 DEF StageInv, TypeOK
    <2>2. /\ pc' \in [Pass -> Running \cup {"idle", "done", "failed", "crashed"}]
          /\ todo' \in [Pass -> SUBSET Case]
      <3>1. /\ pc \in [Pass -> Running \cup {"idle", "done", "failed", "crashed"}]
            /\ todo \in [Pass -> SUBSET Case] /\ {"storing", "investigate"} \subseteq Running
        BY DEF StageInv, TypeOK, Running
      <3>2. [pc EXCEPT ![p] = "storing"] \in [Pass -> Running \cup {"idle", "done", "failed", "crashed"}]
            /\ [pc EXCEPT ![p] = "investigate"]
                  \in [Pass -> Running \cup {"idle", "done", "failed", "crashed"}]
        BY <3>1
      <3>3. [todo EXCEPT ![p] = @ \ {c}] \in [Pass -> SUBSET Case]
        BY <3>1
      <3> QED BY <1>2, <3>1, <3>2, <3>3
    <2> QED BY <1>1, <2>1, <2>2 DEF StageInv, FinishCall, TypeOK, tableVars
  <1>4. \A q \in Pass \ {p} : UNCHANGED Held(q)
    BY <1>2 DEF StageInv, TypeOK, FinishCall, Held
  <1>5. /\ pc[p] = "calling" /\ NextCase(p, c)
        /\ \/ pc'[p] = "storing" /\ todo'[p] = todo[p]
           \/ pc'[p] = "investigate" /\ todo'[p] = todo[p] \ {c}
        /\ found'[p] = [found[p] EXCEPT ![c] = t]
        /\ found[p] \in [Case -> Trajectory \cup {NoTrajectory}]
        /\ sealed'[p] = sealed[p] /\ reported'[p] = reported[p]
        /\ scope'[p] = scope[p] /\ option'[p] = option[p]
        /\ outcome'[p] = outcome[p] /\ scope[p] \subseteq Case /\ todo[p] \subseteq Case
    BY <1>2 DEF StageInv, TypeOK, FinishCall
  <1>6. option[p].only \subseteq Case /\ sealed[p] \cup reported[p] \subseteq Case
    BY OptionAssumption DEF StageInv, TypeOK
  <1>7. FilterSound(p) /\ FoundSound(p) /\ OutcomeSound(p)
    BY DEF StageInv, PassSound
  <1>8. FilterSound(p)'
    BY <1>1, <1>5, <1>6, <1>7 DEF FilterSound, Grows, Running
  <1>9. FoundSound(p)'
    <2>1. \A d \in scope[p] \ todo[p] : found'[p][d] \in Trajectory
      BY <1>5, <1>7 DEF FoundSound, Scoped
    <2>2. found'[p][c] \in Trajectory
      BY <1>5
    <2>3. CASE pc'[p] = "storing" /\ todo'[p] = todo[p]
      <3>1. ASSUME NEW d \in Case, NextCase(p, d)' PROVE d = c
        BY <1>5, <2>3, <3>1, CaseAssumption DEF NextCase
      <3> QED BY <1>5, <1>7, <2>1, <2>2, <2>3, <3>1 DEF FoundSound, Scoped, Settled
    <2>4. CASE pc'[p] = "investigate" /\ todo'[p] = todo[p] \ {c}
      BY <1>5, <1>7, <2>1, <2>2, <2>4 DEF FoundSound, Scoped, Settled
    <2> QED BY <1>5, <2>3, <2>4
  <1>10. OutcomeSound(p)'
    BY <1>5, <1>7 DEF OutcomeSound, Settled
  <1> QED BY <1>1, <1>3, <1>4, <1>8, <1>9, <1>10, OneRun DEF PassSound

LEMMA OpenFileInv ==
    ASSUME StageInv, NEW p \in Pass, NEW c \in Case, OpenFile(p, c)
    PROVE  StageInv' /\ Grows
  <1>1. JournalInv' /\ HumanTypeOK' /\ Grows /\ ResolutionHasLinks'
    BY QuietTables DEF OpenFile
  <1>2. TypeOK'
    BY <1>1 DEF StageInv, OpenFile, TypeOK, Running
  <1>3. \A q \in Pass \ {p} : UNCHANGED Held(q)
    BY DEF StageInv, TypeOK, OpenFile, Held
  <1>4. /\ pc[p] = "storing" /\ pc'[p] = "writing"
        /\ UNCHANGED <<option, todo, scope, prior, found, outcome, sealed, reported>>
    BY DEF StageInv, TypeOK, OpenFile
  <1>5. option[p].only \subseteq Case /\ sealed[p] \cup reported[p] \subseteq Case
    BY OptionAssumption DEF StageInv, TypeOK
  <1>6. FilterSound(p) /\ FoundSound(p) /\ OutcomeSound(p)
    BY DEF StageInv, PassSound
  <1>7. FilterSound(p)'
    BY <1>1, <1>4, <1>5, <1>6 DEF FilterSound, Grows, Running
  <1>8. FoundSound(p)'
    BY <1>4, <1>6 DEF FoundSound, Scoped, Settled, NextCase
  <1>9. OutcomeSound(p)'
    BY <1>4, <1>6 DEF OutcomeSound, Settled
  <1> QED BY <1>1, <1>2, <1>3, <1>7, <1>8, <1>9, OneRun DEF PassSound

LEMMA WriteFileInv ==
    ASSUME StageInv, NEW p \in Pass, NEW c \in Case, WriteFile(p, c)
    PROVE  StageInv' /\ Grows
  <1>1. JournalInv' /\ HumanTypeOK' /\ Grows /\ ResolutionHasLinks'
    BY QuietTables DEF WriteFile
  <1>2. TypeOK'
    <2>1. PICK t \in {found[p][c], Torn} : cache' = [cache EXCEPT ![Key(p, c)] = t]
      BY DEF WriteFile
    <2>2. found[p][c] \in Trajectory \cup {NoTrajectory}
      BY DEF StageInv, TypeOK
    <2>3. cache' \in [Model \X Case -> Trajectory \cup {NoTrajectory, Torn}]
      BY <2>1, <2>2 DEF StageInv, TypeOK
    <2> QED BY <1>1, <2>3 DEF StageInv, WriteFile, TypeOK, Running
  <1>3. \A q \in Pass \ {p} : UNCHANGED Held(q)
    BY DEF StageInv, TypeOK, WriteFile, Held
  <1>4. /\ pc[p] = "writing" /\ pc'[p] = "investigate" /\ NextCase(p, c)
        /\ todo'[p] = todo[p] \ {c}
        /\ UNCHANGED <<option, scope, prior, found, outcome, sealed, reported>>
    BY DEF StageInv, TypeOK, WriteFile
  <1>5. option[p].only \subseteq Case /\ sealed[p] \cup reported[p] \subseteq Case
    BY OptionAssumption DEF StageInv, TypeOK
  <1>6. FilterSound(p) /\ FoundSound(p) /\ OutcomeSound(p)
    BY DEF StageInv, PassSound
  <1>7. FilterSound(p)'
    BY <1>1, <1>4, <1>5, <1>6 DEF FilterSound, Grows, Running
  <1>8. FoundSound(p)'
    BY <1>4, <1>6 DEF FoundSound, Scoped, Settled
  <1>9. OutcomeSound(p)'
    BY <1>4, <1>6 DEF OutcomeSound, Settled
  <1> QED BY <1>1, <1>2, <1>3, <1>7, <1>8, <1>9, OneRun DEF PassSound

LEMMA SettleInv ==
    ASSUME StageInv, NEW p \in Pass, Settle(p)
    PROVE  StageInv' /\ Grows
  <1>1. JournalInv' /\ HumanTypeOK' /\ Grows /\ ResolutionHasLinks'
    BY QuietTables DEF Settle, tableVars
  <1>2. WithdrawContended(p, FirstPass(p)) \in [Case -> Verdict]
    BY VerdictTypes DEF StageInv
  <1>3. TypeOK'
    BY <1>1, <1>2 DEF StageInv, Settle, TypeOK, tableVars, Running
  <1>4. \A q \in Pass \ {p} : UNCHANGED Held(q)
    BY DEF StageInv, TypeOK, Settle, Held
  <1>5. /\ pc[p] = "investigate" /\ pc'[p] = "investigation"
        /\ todo[p] = {} /\ todo'[p] = scope[p]
        /\ outcome'[p] = WithdrawContended(p, FirstPass(p))
        /\ UNCHANGED <<option, scope, prior, found, sealed, reported>>
    BY DEF StageInv, TypeOK, Settle
  <1>6. option[p].only \subseteq Case /\ sealed[p] \cup reported[p] \subseteq Case
    BY OptionAssumption DEF StageInv, TypeOK
  <1>7. FilterSound(p) /\ FoundSound(p)
    BY DEF StageInv, PassSound
  <1>8. FilterSound(p)'
    BY <1>1, <1>5, <1>6, <1>7 DEF FilterSound, Grows, Running
  <1>9. FoundSound(p)'
    BY <1>5, <1>7 DEF FoundSound, Scoped, Settled
  <1>10. FirstPass(p)' = FirstPass(p)
    BY <1>5 DEF FirstPass
  <1>11. WithdrawContended(p, FirstPass(p))' = WithdrawContended(p, FirstPass(p))
    BY <1>5, <1>10 DEF WithdrawContended
  <1>12. OutcomeSound(p)'
    BY <1>5, <1>11 DEF OutcomeSound, Settled
  <1> QED BY <1>1, <1>3, <1>4, <1>8, <1>9, <1>12, OneRun DEF PassSound

LEMMA RecordInvestigationInv ==
    ASSUME StageInv, NEW p \in Pass, NEW c \in Case, RecordInvestigation(p, c)
    PROVE  StageInv' /\ Grows
  <1>1. /\ pc[p] = "investigation" /\ pc'[p] = "decision" /\ NextCase(p, c)
        /\ UNCHANGED <<humanVars, decisions, links, cache,
                       option, todo, scope, prior, found, outcome, sealed, reported>>
    BY DEF StageInv, TypeOK, RecordInvestigation
  <1>2. PassSound(p) /\ found[p][c] \in Trajectory
    BY <1>1 DEF StageInv, PassSound, FoundSound, Scoped, Settled, NextCase
  <1>3. /\ investigations' \in [Case -> Trajectory \cup {NoTrajectory}]
        /\ investigations'[c] # NoTrajectory
        /\ \A d \in Case : investigations[d] # NoTrajectory =>
                              investigations'[d] = investigations[d]
    BY <1>2, NoTrajectoryAssumption DEF StageInv, TypeOK, RecordInvestigation
  <1>4. FreshCalls(c, found[p][c]) \subseteq Case \X (Nat \ {0}) \X Trajectory
    BY <1>2 DEF FreshCalls
  <1>5. JournalInv' /\ HumanTypeOK'
    BY <1>1 DEF StageInv, humanVars, JournalInv, HumanTypeOK, LatestIsActive, ReviewSound
  <1>6. Grows
    BY <1>1, <1>3 DEF Grows, humanVars, HasActive, ActiveEvents, EventsOf, RecordInvestigation
  <1>7. TypeOK'
    BY <1>1, <1>3, <1>4, <1>5 DEF StageInv, TypeOK, RecordInvestigation, Running
  <1>8. ResolutionHasLinks'
    BY <1>1, <1>3 DEF StageInv, ResolutionHasLinks, LinksOfCase
  <1>9. \A q \in Pass \ {p} : UNCHANGED Held(q)
    BY DEF StageInv, TypeOK, RecordInvestigation, Held
  <1>10. option[p].only \subseteq Case /\ sealed[p] \cup reported[p] \subseteq Case
    BY OptionAssumption DEF StageInv, TypeOK
  <1>11. FilterSound(p)'
    BY <1>1, <1>2, <1>6, <1>10 DEF PassSound, FilterSound, Grows, Running
  <1>12. FoundSound(p)'
    BY <1>1, <1>2 DEF PassSound, FoundSound, Scoped, Settled
  <1>13. FirstPass(p)' = FirstPass(p)
    BY <1>1 DEF FirstPass
  <1>14. WithdrawContended(p, FirstPass(p))' = WithdrawContended(p, FirstPass(p))
    BY <1>1, <1>13 DEF WithdrawContended
  <1>15. ASSUME NEW d \in Case, NextCase(p, d)' PROVE investigations'[d] # NoTrajectory
    <2>1. d = c
      BY <1>1, <1>15, CaseAssumption DEF NextCase
    <2> QED BY <1>3, <2>1
  <1>16. OutcomeSound(p)'
    BY <1>1, <1>2, <1>14, <1>15 DEF PassSound, OutcomeSound, Settled
  <1> QED BY <1>5, <1>6, <1>7, <1>8, <1>9, <1>11, <1>12, <1>16, OneRun DEF PassSound

LEMMA RecordDecisionInv ==
    ASSUME StageInv, NEW p \in Pass, NEW c \in Case, RecordDecision(p, c)
    PROVE  StageInv' /\ Grows
  <1> DEFINE row == [model |-> option[p].model, choice |-> outcome[p][c]]
  <1>1. /\ pc[p] = "decision" /\ pc'[p] = "investigation" /\ NextCase(p, c)
        /\ todo'[p] = todo[p] \ {c}
        /\ links' = links \cup (Links(outcome[p][c]) \X {c})
        /\ decisions' = InsertDecision(c, row)
        /\ UNCHANGED <<humanVars, investigations, toolCalls, cache,
                       option, scope, prior, found, outcome, sealed, reported>>
    BY DEF StageInv, TypeOK, RecordDecision
  <1>2. PassSound(p) /\ investigations[c] # NoTrajectory
    BY <1>1 DEF StageInv, PassSound, OutcomeSound
  <1>3. row \in DecisionRow /\ row # NoRow /\ Links(outcome[p][c]) \subseteq Settlement
    <2>1. option[p].model \in Model /\ outcome[p][c] \in Verdict
      BY OptionAssumption DEF StageInv, TypeOK
    <2>2. row \in DecisionRow
      BY <2>1 DEF DecisionRow
    <2> QED BY <2>1, <2>2, RowIsRow, VerdictTypes DEF StageInv
  <1>4. /\ decisions' \in [Case -> DecisionRow \cup {NoRow}]
        /\ decisions'[c] = IF decisions[c] = NoRow THEN row ELSE decisions[c]
        /\ \A d \in Case \ {c} : decisions'[d] = decisions[d]
    <2> HIDE DEF row
    <2> QED BY <1>1, <1>3 DEF StageInv, TypeOK, InsertDecision
  <1>5. links' \subseteq Settlement \X Case /\ links \subseteq links'
    BY <1>1, <1>3 DEF StageInv, TypeOK
  <1>6. JournalInv' /\ HumanTypeOK'
    BY <1>1 DEF StageInv, humanVars, JournalInv, HumanTypeOK, LatestIsActive, ReviewSound
  <1>7. Grows
    BY <1>1, <1>4, <1>5 DEF Grows, humanVars, HasActive, ActiveEvents, EventsOf
  <1>8. TypeOK'
    BY <1>1, <1>4, <1>5, <1>6 DEF StageInv, TypeOK, RecordDecision, Running
  <1>9. ResolutionHasLinks'
    <2>1. \A d \in Case : LinksOfCase(d) \subseteq LinksOfCase(d)'
      BY <1>5 DEF LinksOfCase
    <2>2. ASSUME NEW s \in Links(outcome[p][c]) PROVE s \in LinksOfCase(c)'
      <3>1. <<s, c>> \in links' /\ <<s, c>>[1] = s /\ <<s, c>>[2] = c
        BY <1>1
      <3> QED BY <3>1 DEF LinksOfCase
    <2>3. ASSUME NEW d \in Case, decisions'[d] # NoRow
          PROVE  Links(decisions'[d].choice) \subseteq LinksOfCase(d)'
                 /\ investigations'[d] # NoTrajectory
      <3>1. CASE d = c /\ decisions[c] = NoRow
        <4>1. decisions'[d].choice = outcome[p][c]
          BY <1>4, <3>1
        <4> QED BY <1>1, <1>2, <2>2, <3>1, <4>1
      <3>2. CASE d # c \/ decisions[c] # NoRow
        <4>1. decisions'[d] = decisions[d]
          BY <1>4, <3>2
        <4> QED BY <1>1, <2>1, <2>3, <4>1 DEF StageInv, ResolutionHasLinks
      <3> QED BY <3>1, <3>2
    <2> QED BY <2>3 DEF ResolutionHasLinks, Links
  <1>10. \A q \in Pass \ {p} : UNCHANGED Held(q)
    BY DEF StageInv, TypeOK, RecordDecision, Held
  <1>11. option[p].only \subseteq Case /\ sealed[p] \cup reported[p] \subseteq Case /\ scope[p] \subseteq Case
    BY OptionAssumption DEF StageInv, TypeOK
  <1>12. FilterSound(p)'
    BY <1>1, <1>2, <1>7, <1>11 DEF PassSound, FilterSound, Grows, Running
  <1>13. FoundSound(p)'
    BY <1>1, <1>2 DEF PassSound, FoundSound, Scoped, Settled
  <1>14. FirstPass(p)' = FirstPass(p)
    BY <1>1 DEF FirstPass
  <1>15. WithdrawContended(p, FirstPass(p))' = WithdrawContended(p, FirstPass(p))
    BY <1>1, <1>14 DEF WithdrawContended
  <1>16. \A d \in scope[p] \ todo'[p] : decisions'[d] # NoRow
    <2> HIDE DEF row
    <2> QED BY <1>1, <1>2, <1>3, <1>4, <1>11 DEF PassSound, OutcomeSound, Settled
  <1>17. OutcomeSound(p)'
    BY <1>1, <1>2, <1>15, <1>16 DEF PassSound, OutcomeSound, Settled
  <1> QED BY <1>6, <1>7, <1>8, <1>9, <1>10, <1>12, <1>13, <1>17, OneRun DEF PassSound

LEMMA FinishInv ==
    ASSUME StageInv, NEW p \in Pass, Finish(p)
    PROVE  StageInv' /\ Grows
  <1>1. JournalInv' /\ HumanTypeOK' /\ Grows /\ ResolutionHasLinks'
    BY QuietTables DEF Finish, tableVars
  <1>2. TypeOK'
    BY <1>1 DEF StageInv, Finish, TypeOK, tableVars
  <1>3. \A q \in Pass \ {p} : UNCHANGED Held(q)
    BY DEF StageInv, TypeOK, Finish, Held
  <1>4. /\ pc[p] = "investigation" /\ pc'[p] = "done" /\ todo[p] = {}
        /\ UNCHANGED <<tableVars, option, todo, scope, prior, found, outcome, sealed, reported>>
    BY DEF StageInv, TypeOK, Finish
  <1>5. option[p].only \subseteq Case /\ sealed[p] \cup reported[p] \subseteq Case
    BY OptionAssumption DEF StageInv, TypeOK
  <1>6. PassSound(p)
    BY DEF StageInv
  <1>7. FilterSound(p)'
    BY <1>1, <1>4, <1>5, <1>6 DEF PassSound, FilterSound, Grows, Running
  <1>8. FoundSound(p)'
    BY <1>4, <1>6 DEF PassSound, FoundSound, Scoped, Settled
  <1>9. FirstPass(p)' = FirstPass(p)
    BY <1>4 DEF FirstPass
  <1>10. WithdrawContended(p, FirstPass(p))' = WithdrawContended(p, FirstPass(p))
    BY <1>4, <1>9 DEF WithdrawContended
  <1>11. OutcomeSound(p)'
    BY <1>4, <1>6, <1>10 DEF PassSound, OutcomeSound, Settled, tableVars
  <1> QED BY <1>1, <1>2, <1>3, <1>7, <1>8, <1>11, OneRun DEF PassSound

\* A person's step: the runs hold what they held.
LEMMA HumanStepInv ==
    ASSUME StageInv, HumanStep
    PROVE  StageInv' /\ Grows
  <1>1. JournalInv'
    BY StepInv DEF StageInv, HumanStep
  <1>2. UNCHANGED stage3Vars
    BY DEF HumanStep
  <1>3. Grows
    <2>1. \A c \in Case : HasActive(c) => HasActive(c)'
      BY ActiveStays DEF StageInv, HumanStep
    <2> QED BY <1>2, <2>1 DEF Grows, stage3Vars, tableVars
  <1>4. TypeOK'
    BY <1>1, <1>2 DEF StageInv, JournalInv, TypeOK, stage3Vars, tableVars, passVars
  <1>5. ResolutionHasLinks'
    BY <1>2 DEF StageInv, ResolutionHasLinks, LinksOfCase, stage3Vars, tableVars
  <1>6. ASSUME NEW q \in Pass PROVE PassSound(q)'
    <2>1. UNCHANGED Held(q)
      BY <1>2 DEF Held, stage3Vars, passVars
    <2> QED BY <1>3, <2>1, OtherPasses DEF StageInv
  <1> QED BY <1>1, <1>3, <1>4, <1>5, <1>6 DEF StageInv

LEMMA StutterInv ==
    ASSUME StageInv, UNCHANGED vars
    PROVE  StageInv' /\ Grows
  <1>1. JournalInv' /\ HumanTypeOK' /\ Grows /\ ResolutionHasLinks'
    BY QuietTables DEF vars, stage3Vars, tableVars
  <1>2. TypeOK'
    BY <1>1 DEF StageInv, TypeOK, vars, stage3Vars, tableVars, passVars
  <1>3. ASSUME NEW q \in Pass PROVE PassSound(q)'
    <2>1. UNCHANGED Held(q)
      BY DEF Held, vars, stage3Vars, passVars
    <2> QED BY <1>1, <2>1, OtherPasses DEF StageInv
  <1> QED BY <1>1, <1>2, <1>3 DEF StageInv

\* Every step keeps the invariant and takes nothing away.
LEMMA StageStep ==
    ASSUME StageInv, [Next]_vars
    PROVE  StageInv' /\ Grows
  <1>1. CASE UNCHANGED vars
    BY <1>1, StutterInv
  <1>2. CASE HumanStep
    BY <1>2, HumanStepInv
  <1>3. ASSUME NEW p \in Pass, Begin(p) \/ PassStep(p) \/ Crash(p)
        PROVE  StageInv' /\ Grows
    <2>1. CASE Begin(p)
      BY <2>1, BeginInv
    <2>2. CASE Crash(p)
      BY <2>2, ForgetInv DEF Crash
    <2>3. CASE StartFilter(p) \/ ReadClaims(p)
      BY <2>3, StartFilterInv, ReadClaimsInv
    <2>4. CASE Settle(p)
      BY <2>4, SettleInv
    <2>5. CASE Finish(p)
      BY <2>5, FinishInv
    <2>6. ASSUME NEW c \in Case, ReportHuman(p, c) \/ FilterHuman(p, c)
          PROVE  StageInv' /\ Grows
      BY <2>6, ReportHumanInv, FilterHumanInv
    <2>7. ASSUME NEW c \in Case, ReplayTrajectory(p, c) PROVE StageInv' /\ Grows
      BY <2>7, ReplayTrajectoryInv
    <2>8. ASSUME NEW c \in Case, LoadTorn(p, c) \/ ReplayMiss(p, c) PROVE StageInv' /\ Grows
      BY <2>8, ForgetInv DEF LoadTorn, ReplayMiss
    <2>9. ASSUME NEW c \in Case, CallModel(p, c) PROVE StageInv' /\ Grows
      BY <2>9, CallModelInv
    <2>10. ASSUME NEW c \in Case, FinishCall(p, c) PROVE StageInv' /\ Grows
      BY <2>10, FinishCallInv
    <2>11. ASSUME NEW c \in Case, OpenFile(p, c) PROVE StageInv' /\ Grows
      BY <2>11, OpenFileInv
    <2>12. ASSUME NEW c \in Case, WriteFile(p, c) PROVE StageInv' /\ Grows
      BY <2>12, WriteFileInv
    <2>13. ASSUME NEW c \in Case, RecordInvestigation(p, c) PROVE StageInv' /\ Grows
      BY <2>13, RecordInvestigationInv
    <2>14. ASSUME NEW c \in Case, RecordDecision(p, c) PROVE StageInv' /\ Grows
      BY <2>14, RecordDecisionInv
    <2> QED BY <1>3, <2>1, <2>2, <2>3, <2>4, <2>5, <2>6, <2>7, <2>8, <2>9, <2>10, <2>11,
               <2>12, <2>13, <2>14 DEF PassStep
  <1> QED BY <1>1, <1>2, <1>3 DEF Next, Terminated

\* A whole file is overwritten only by a run that has an answer of its own for it.
LEMMA WholeFileIsLost ==
    ASSUME StageInv, [Next]_vars, NEW k \in Model \X Case,
           cache[k] \in Trajectory, cache'[k] # cache[k]
    PROVE  \E p \in Pass : /\ Key(p, k[2]) = k /\ pc[p] \in {"storing", "writing"}
                          /\ found[p][k[2]] # NoTrajectory
  <1>1. PICK p \in Pass, c \in Case : OpenFile(p, c) \/ WriteFile(p, c)
    <2>1. cache' # cache
      OBVIOUS
    <2>2. PICK p \in Pass : Begin(p) \/ PassStep(p) \/ Crash(p)
      BY <2>1 DEF Next, HumanStep, Terminated, vars, stage3Vars, tableVars
    <2>3. PassStep(p)
      BY <2>1, <2>2 DEF Begin, Crash, tableVars
    <2>4. ~StartFilter(p) /\ ~ReadClaims(p) /\ ~Settle(p) /\ ~Finish(p)
      BY <2>1 DEF StartFilter, ReadClaims, Settle, Finish, tableVars
    <2>5. ASSUME NEW c \in Case
          PROVE  /\ ~ReportHuman(p, c) /\ ~FilterHuman(p, c) /\ ~ReplayTrajectory(p, c)
                 /\ ~LoadTorn(p, c) /\ ~ReplayMiss(p, c) /\ ~CallModel(p, c) /\ ~FinishCall(p, c)
                 /\ ~RecordInvestigation(p, c) /\ ~RecordDecision(p, c)
      BY <2>1 DEF ReportHuman, FilterHuman, ReplayTrajectory, LoadTorn, ReplayMiss,
                  CallModel, FinishCall, RecordInvestigation, RecordDecision, tableVars
    <2> QED BY <2>3, <2>4, <2>5 DEF PassStep
  <1>2. k = Key(p, c)
    BY <1>1 DEF StageInv, TypeOK, OpenFile, WriteFile
  <1>3. k[2] = c
    BY <1>2 DEF Key
  <1>4. pc[p] \in {"storing", "writing"} /\ found[p][c] \in Trajectory
    BY <1>1 DEF StageInv, PassSound, FoundSound, OpenFile, WriteFile
  <1> QED BY <1>2, <1>3, <1>4, NoTrajectoryAssumption

----------------------------------------------------------------------------
(* Theorems about runs that may overlap *)

\* The inductive invariant holds.
THEOREM StageInvariant == Spec => []StageInv
  <1>1. StageInv /\ [Next]_vars => StageInv'
    BY StageStep
  <1> QED BY <1>1, InitStage, PTL DEF Spec

\* Whatever runs, people and crashes do, the tables and the runs keep their types.
THEOREM StageTypeCorrect == Spec => []TypeOK
  <1>1. StageInv => TypeOK
    BY DEF StageInv
  <1> QED BY <1>1, StageInvariant, PTL

\* A case that a person had decided when a run began is reported as theirs and not
\* taken up by that run, and no run takes up a case that it reports so.
THEOREM PeopleHaveAuthority == Spec => []HumanAuthority
  <1>1. StageInv => HumanAuthority
    BY DEF StageInv, PassSound, FilterSound, HumanAuthority
  <1> QED BY <1>1, StageInvariant, PTL

\* A decision always has its links and its investigation, and a run that completes
\* leaves no case of its own undecided.
THEOREM RecordsStayWhole == Spec => []RecordsAreWhole
  <1>1. StageInv => DoneIsComplete
    <2> SUFFICES ASSUME StageInv, NEW p \in Pass, pc[p] = "done"
                 PROVE  /\ \A c \in scope[p] : decisions[c] # NoRow
                        /\ \A c \in option[p].only : decisions[c] # NoRow \/ HasActive(c)
      BY DEF DoneIsComplete
    <2>1. \A c \in scope[p] : decisions[c] # NoRow
      BY DEF StageInv, PassSound, OutcomeSound, Settled
    <2> QED BY <2>1 DEF StageInv, PassSound, FilterSound
  <1>2. StageInv => RecordsAreWhole
    BY <1>1 DEF StageInv, RecordsAreWhole
  <1> QED BY <1>2, StageInvariant, PTL

\* A run resolves a case only once it has settled its verdicts, only to what its own
\* investigation proved, and only where no settlement of that is contested or claimed.
LEMMA OutcomeIsUncontested ==
    ASSUME StageInv, NEW p \in Pass, NEW c \in Case
    PROVE  /\ outcome[p][c] # NoChoice =>
                 /\ pc[p] \in Settled
                 /\ outcome[p][c] = FirstPass(p)[c]
                 /\ Links(FirstPass(p)[c]) \cap
                      (ContestedNow(FirstPass(p)) \cup ExternalClaims(prior[p], c)) = {}
           /\ outcome[p][c] \in Verdict /\ FirstPass(p)[c] \in Verdict
  <1> DEFINE first == FirstPass(p)
  <1>1. outcome[p] = IF pc[p] \in Settled THEN WithdrawContended(p, first)
                     ELSE [d \in Case |-> NoChoice]
    BY DEF StageInv, PassSound, OutcomeSound
  <1>2. first[c] \in Verdict /\ outcome[p][c] \in Verdict
    BY VerdictTypes DEF StageInv, TypeOK
  <1> HIDE DEF first
  <1>3. WithdrawContended(p, first)[c] =
          IF Links(first[c]) \cap (ContestedNow(first) \cup ExternalClaims(prior[p], c)) = {}
          THEN first[c] ELSE NoChoice
    BY DEF WithdrawContended
  <1>4. outcome[p][c] # NoChoice =>
          /\ pc[p] \in Settled
          /\ outcome[p][c] = first[c]
          /\ Links(first[c]) \cap (ContestedNow(first) \cup ExternalClaims(prior[p], c)) = {}
    BY <1>1, <1>3
  <1> QED BY <1>2, <1>4 DEF first

\* Of two cases of one run that prove candidates with a settlement in common, neither
\* is resolved.
LEMMA ContestedAreOpen ==
    ASSUME StageInv, NEW p \in Pass, NEW c \in Case, NEW d \in Case, c # d,
           NEW s \in Links(FirstPass(p)[c]) \cap Links(FirstPass(p)[d])
    PROVE  outcome[p][c] = NoChoice /\ outcome[p][d] = NoChoice
  <1>1. s \in Settlement
    BY OutcomeIsUncontested, VerdictTypes DEF StageInv
  <1>2. s \in ContestedNow(FirstPass(p))
    BY <1>1 DEF ContestedNow
  <1> QED BY <1>2, OutcomeIsUncontested

\* Two cases of one run never resolve to one settlement, nor to one that another case
\* held when the run read the claims.
LEMMA OneClaimantHolds == StageInv => OneClaimant
  <1> SUFFICES ASSUME StageInv, NEW p \in Pass, NEW c \in Case, NEW d \in Case
               PROVE  /\ c # d => Links(outcome[p][c]) \cap Links(outcome[p][d]) = {}
                      /\ Links(outcome[p][c]) \cap ExternalClaims(prior[p], c) = {}
    BY DEF OneClaimant
  <1>1. Links(NoChoice) = {}
    BY DEF Links
  <1>2. c # d => Links(outcome[p][c]) \cap Links(outcome[p][d]) = {}
    BY <1>1, OutcomeIsUncontested, ContestedAreOpen
  <1>3. Links(outcome[p][c]) \cap ExternalClaims(prior[p], c) = {}
    BY <1>1, OutcomeIsUncontested
  <1> QED BY <1>2, <1>3

\* Two cases of one run never resolve to one settlement, nor to one that another
\* case held, and of two that contest a settlement neither is resolved.
THEOREM ContestsHaveNoWinner == Spec => []PassIsExclusive
  <1>1. StageInv => NeitherWins
    <2>1. \A p \in Pass : StageInv => scope[p] \subseteq Case
      BY DEF StageInv, TypeOK
    <2> QED BY <2>1, ContestedAreOpen DEF NeitherWins
  <1>2. StageInv => PassIsExclusive
    BY <1>1, OneClaimantHolds DEF PassIsExclusive
  <1> QED BY <1>2, StageInvariant, PTL

\* A link that is new is written by a run for a case it resolves, and a claim of
\* another case on the settlement is one that this run had not read.
LEMMA NewLinkIsLate ==
    ASSUME StageInv, [Next]_vars, NEW x \in links' \ links
    PROVE  LateClaim(x[1], x[2])
  <1>1. PICK p \in Pass : Begin(p) \/ PassStep(p) \/ Crash(p)
    BY DEF Next, HumanStep, Terminated, vars, stage3Vars, tableVars
  <1>2. PICK c \in Case : RecordDecision(p, c)
    <2>1. PassStep(p)
      BY <1>1 DEF Begin, Crash, tableVars
    <2>2. ~StartFilter(p) /\ ~ReadClaims(p) /\ ~Settle(p) /\ ~Finish(p)
      BY DEF StartFilter, ReadClaims, Settle, Finish, tableVars
    <2>3. ASSUME NEW c \in Case
          PROVE  /\ ~ReportHuman(p, c) /\ ~FilterHuman(p, c) /\ ~ReplayTrajectory(p, c)
                 /\ ~LoadTorn(p, c) /\ ~ReplayMiss(p, c) /\ ~CallModel(p, c) /\ ~FinishCall(p, c)
                 /\ ~OpenFile(p, c) /\ ~WriteFile(p, c) /\ ~RecordInvestigation(p, c)
      BY DEF ReportHuman, FilterHuman, ReplayTrajectory, LoadTorn, ReplayMiss, CallModel,
             FinishCall, OpenFile, WriteFile, RecordInvestigation, tableVars
    <2> QED BY <2>1, <2>2, <2>3 DEF PassStep
  <1>3. pc[p] = "decision" /\ NextCase(p, c) /\ x[1] \in Links(outcome[p][c]) /\ x[2] = c
    BY <1>2 DEF RecordDecision
  <1>4. ASSUME NEW claim \in SettlementClaims, claim[1] = x[1], claim[2] # x[2]
        PROVE  claim \notin prior[p]
    BY <1>3, <1>4, OneClaimantHolds DEF OneClaimant, ExternalClaims
  <1> QED BY <1>3, <1>4 DEF LateClaim

\* Nothing that is recorded is rewritten, however many runs write at once, and no run
\* takes a settlement that it has read to be another case's.
THEOREM RecordedHistoryIsFinal == Spec => HistoryIsFinal
  <1>1. ASSUME StageInv, [Next]_vars
        PROVE  [/\ \A c \in Case : decisions[c] # NoRow => decisions'[c] = decisions[c]
                /\ \A c \in Case : investigations[c] # NoTrajectory =>
                                      investigations'[c] = investigations[c]
                /\ \A k \in Model \X Case : cache[k] \in Trajectory /\ cache'[k] # cache[k] =>
                      \E p \in Pass : /\ Key(p, k[2]) = k /\ pc[p] \in {"storing", "writing"}
                                      /\ found[p][k[2]] # NoTrajectory
                /\ links \subseteq links' /\ toolCalls \subseteq toolCalls'
                /\ \A x \in links' \ links : LateClaim(x[1], x[2])]_vars
    <2>1. Grows
      BY <1>1, StageStep
    <2>2. \A x \in links' \ links : LateClaim(x[1], x[2])
      BY <1>1, NewLinkIsLate
    <2> QED BY <1>1, <2>1, <2>2, WholeFileIsLost DEF Grows
  <1> QED BY <1>1, StageInvariant, PTL DEF Spec, HistoryIsFinal

----------------------------------------------------------------------------
(* One run at a time over the whole batch, with one model and no people *)

\* What the orchestrator's defaults amount to: no two runs overlap, each takes the
\* whole batch, all ask one model and file what it answers, and nobody resolves a
\* case by hand meanwhile.
Serial ==
    /\ MaxConcurrent = 1
    /\ Reviewer = {}
    /\ \A m, n \in Model : m = n
    /\ \A o \in Option : o.only = Case /\ o.writeCache

SoleModel == CHOOSE m \in Model : TRUE

\* The trajectory on file for a case, and whether every case has one.
Filed(c) == cache[<<SoleModel, c>>]
Whole == \A c \in Case : Filed(c) \in Trajectory

\* The verdicts the files give when nothing of Stage 3 is recorded yet.
Proposed == [c \in Case |-> Adjudicate(Filed(c), c, ExternalClaims(Stage2Links, c))]
Final == [c \in Case |-> IF Links(Proposed[c]) \cap ContestedNow(Proposed) = {}
                         THEN Proposed[c] ELSE NoChoice]

\* A run goes by the files and by claims that nobody adds to; its verdicts are the
\* final ones.
RunSound(p) ==
    /\ pc[p] \in {"investigate", "calling", "storing", "writing"} =>
          /\ prior[p] = Stage2Links \cup links
          /\ \A c \in scope[p] \ todo[p] : found[p][c] = Filed(c)
    /\ \A c \in Case : NextCase(p, c) =>
          /\ pc[p] \in {"calling", "storing"} => Filed(c) = NoTrajectory
          /\ pc[p] = "writing" => Filed(c) = Torn
    /\ pc[p] \in Settled =>
          /\ \A c \in Case : found[p][c] = Filed(c)
          /\ outcome[p] = Final

CallsOf(c) == {<<x[2], x[3]>> : x \in {y \in toolCalls : y[1] = c}}
AllCalls(t) == {<<i, t>> : i \in 1 .. t.calls}

\* What is recorded of a case is what the files say of it.
RecordSound(c) ==
    /\ decisions[c] # NoRow => Whole /\ decisions[c].choice = Final[c]
    /\ LinksOfCase(c) = IF decisions[c] = NoRow THEN {} ELSE Links(decisions[c].choice)
    /\ investigations[c] # NoTrajectory => investigations[c] = Filed(c)
    /\ CallsOf(c) = IF investigations[c] = NoTrajectory THEN {}
                    ELSE AllCalls(investigations[c])

SerialInv ==
    /\ journal = {}
    /\ \A p, q \in Pass : pc[p] \in Running /\ pc[q] \in Running => p = q
    /\ \A p \in Pass : RunSound(p)
    /\ \A c \in Case : RecordSound(c)

\* Nothing on file is lost or rewritten.
FiledStays == \A c \in Case : Filed(c) \in Trajectory => Filed(c)' = Filed(c)

----------------------------------------------------------------------------
(* The verdicts *)

\* Every run is asked for the same model.
LEMMA KeyOfRun ==
    ASSUME Serial, TypeOK, NEW p \in Pass
    PROVE  /\ SoleModel \in Model /\ option[p].model = SoleModel
           /\ option[p].only = Case /\ option[p].writeCache
           /\ \A c \in Case : Key(p, c) = <<SoleModel, c>>
  <1>1. option[p] \in Option
    BY DEF TypeOK
  <1>2. option[p].model \in Model
    BY <1>1, OptionAssumption
  <1>3. SoleModel \in Model
    BY <1>2 DEF SoleModel
  <1>4. option[p].model = SoleModel
    BY <1>2, <1>3 DEF Serial
  <1> QED BY <1>1, <1>3, <1>4 DEF Serial, Key

\* The verdicts proposed and the final ones are candidates, or none, and two final
\* ones never share a settlement with one another, nor one with what is proposed.
LEMMA FinalIsExclusive ==
    /\ Proposed \in [Case -> Verdict] /\ Final \in [Case -> Verdict]
    /\ \A c \in Case : Final[c] = Proposed[c] \/ Final[c] = NoChoice
    /\ \A c, d \in Case : c # d => Links(Final[c]) \cap Links(Proposed[d]) = {}
  <1>1. Proposed \in [Case -> Verdict]
    BY ProofOfAssumption DEF Proposed, Adjudicate, Verdict
  <1>2. \A c \in Case : Final[c] = IF Links(Proposed[c]) \cap ContestedNow(Proposed) = {}
                                   THEN Proposed[c] ELSE NoChoice
    BY DEF Final
  <1>3. Final \in [Case -> Verdict]
    <2> HIDE DEF Proposed
    <2> QED BY <1>1 DEF Final, Verdict
  <1>4. ASSUME NEW c \in Case, NEW d \in Case, c # d,
               NEW s \in Links(Final[c]), s \in Links(Proposed[d])
        PROVE  FALSE
    <2>1. Links(NoChoice) = {}
      BY DEF Links
    <2>2. Final[c] = Proposed[c] /\ Links(Proposed[c]) \cap ContestedNow(Proposed) = {}
      BY <1>2, <1>4, <2>1
    <2>3. s \in Settlement
      BY <1>1, <1>4, <2>2, LinksOfAssumption DEF Links, Verdict
    <2>4. s \in ContestedNow(Proposed)
      BY <1>4, <2>2, <2>3 DEF ContestedNow
    <2> QED BY <1>4, <2>2, <2>4
  <1> QED BY <1>1, <1>2, <1>3, <1>4

\* A final verdict takes nothing that Stage 2 gave to another case.
LEMMA FinalIsUnclaimed ==
    ASSUME NEW c \in Case
    PROVE  Links(Final[c]) \cap ExternalClaims(Stage2Links, c) = {}
  <1>1. CASE Final[c] = NoChoice
    BY <1>1 DEF Links
  <1>2. CASE Final[c] # NoChoice
    <2>1. Final[c] = Proposed[c]
      BY <1>2, FinalIsExclusive
    <2>2. LinksOf[Final[c]] \cap ExternalClaims(Stage2Links, c) = {}
      BY <1>2, <2>1 DEF Proposed, Adjudicate
    <2> QED BY <1>2, <2>2 DEF Links
  <1> QED BY <1>1, <1>2

\* A run that goes by the files comes to the final verdicts, whatever part of them
\* the runs before it have already recorded.
LEMMA VerdictsAreFinal ==
    ASSUME TypeOK, NEW p \in Pass, scope[p] = Case,
           \A c \in Case : found[p][c] = Filed(c),
           prior[p] = Stage2Links \cup links,
           \A c \in Case : LinksOfCase(c) \subseteq Links(Final[c])
    PROVE  WithdrawContended(p, FirstPass(p)) = Final
  <1>1. FirstPass(p) \in [Case -> Verdict] /\ Proposed \in [Case -> Verdict]
    BY VerdictTypes, FinalIsExclusive
  <1>2. ASSUME NEW c \in Case, NEW s \in ExternalClaims(links, c)
        PROVE  \E d \in Case : d # c /\ s \in Links(Final[d])
    <2>1. PICK y \in links : y[1] = s /\ y[2] # c
      BY <1>2 DEF ExternalClaims
    <2>2. y[2] \in Case /\ s \in LinksOfCase(y[2])
      BY <2>1 DEF TypeOK, LinksOfCase
    <2> QED BY <2>1, <2>2
  <1>3. ASSUME NEW c \in Case
        PROVE  ExternalClaims(prior[p], c) = ExternalClaims(Stage2Links, c)
                                               \cup ExternalClaims(links, c)
    BY DEF ExternalClaims
  <1>4. ASSUME NEW c \in Case
        PROVE  /\ FirstPass(p)[c] = Proposed[c]
               /\ Links(Proposed[c]) \cap ExternalClaims(prior[p], c) = {}
    <2>1. FirstPass(p)[c] = Adjudicate(Filed(c), c, ExternalClaims(prior[p], c))
      BY DEF FirstPass
    <2>2. Proposed[c] = Adjudicate(Filed(c), c, ExternalClaims(Stage2Links, c))
      BY DEF Proposed
    <2>3. Links(Proposed[c]) \cap ExternalClaims(links, c) = {}
      BY <1>2, FinalIsExclusive
    <2>4. CASE Proposed[c] = NoChoice
      <3>1. ProofOf[c] # NoChoice
        BY ProofOfAssumption, NoChoiceAssumption
      <3>2. FirstPass(p)[c] = NoChoice
        BY <1>3, <2>1, <2>2, <2>4, <3>1 DEF Adjudicate
      <3> QED BY <2>4, <3>2 DEF Links
    <2>5. CASE Proposed[c] # NoChoice
      <3>1. /\ Proposed[c] = ProofOf[c] /\ Filed(c).proves
            /\ LinksOf[ProofOf[c]] \cap ExternalClaims(Stage2Links, c) = {}
        BY <2>2, <2>5 DEF Adjudicate
      <3>2. Links(Proposed[c]) = LinksOf[ProofOf[c]]
        BY <2>5, <3>1 DEF Links
      <3> QED BY <1>3, <2>1, <2>3, <3>1, <3>2 DEF Adjudicate
    <2> QED BY <2>4, <2>5
  <1>5. FirstPass(p) = Proposed
    BY <1>1, <1>4
  <1> QED BY <1>4, <1>5 DEF WithdrawContended, Final

\* The final verdicts stay what they are once every case is on file.
LEMMA FinalStays ==
    ASSUME Whole, FiledStays
    PROVE  Whole' /\ Final' = Final
  <1>1. \A c \in Case : Filed(c)' = Filed(c)
    BY DEF Whole, FiledStays
  <1>2. Whole'
    BY <1>1 DEF Whole
  <1>3. Proposed' = Proposed
    <2> HIDE DEF Filed
    <2> QED BY <1>1 DEF Proposed
  <1>4. ContestedNow(Proposed)' = ContestedNow(Proposed)
    BY <1>3 DEF ContestedNow
  <1> HIDE DEF Proposed, ContestedNow
  <1> QED BY <1>2, <1>3, <1>4 DEF Final

----------------------------------------------------------------------------
(* The steps of a run that is alone *)

\* A run takes up the whole batch.
LEMMA WholeScope ==
    ASSUME Serial, StageInv, SerialInv, NEW p \in Pass,
           pc[p] \in Scoped \/ (pc[p] = "filter" /\ todo[p] = {})
    PROVE  scope[p] = Case
  <1>1. option[p].only = Case /\ scope[p] \subseteq Case
    BY KeyOfRun DEF StageInv, TypeOK
  <1>2. \A c \in Case : ~HasActive(c)
    BY DEF SerialInv, HasActive, ActiveEvents, EventsOf
  <1>3. FilterSound(p)
    BY DEF StageInv, PassSound
  <1> QED BY <1>1, <1>2, <1>3 DEF FilterSound, Scoped, Running

\* While one run is between its first step and its last, no other is.
LEMMA Alone ==
    ASSUME SerialInv, NEW p \in Pass, pc[p] \in Running, NEW q \in Pass \ {p}
    PROVE  pc[q] \notin Running
  BY DEF SerialInv

\* A run that has ended, or has not begun, is untouched by the step of another.
LEMMA OtherRuns ==
    ASSUME Serial, StageInv, SerialInv, NEW q \in Pass, pc[q] \notin Running,
           FiledStays, UNCHANGED Held(q)
    PROVE  RunSound(q)'
  <1>1. CASE pc[q] \in Settled
    <2>1. /\ pc'[q] = pc[q] /\ found'[q] = found[q] /\ outcome'[q] = outcome[q]
          /\ pc[q] = "done"
      BY <1>1 DEF Held, Settled, Running
    <2>2. \A c \in Case : found[q][c] = Filed(c) /\ found[q][c] \in Trajectory
      <3>1. scope[q] = Case /\ PassSound(q) /\ RunSound(q)
        BY <1>1, WholeScope DEF StageInv, SerialInv, Scoped, Settled
      <3> QED BY <1>1, <3>1 DEF RunSound, PassSound, FoundSound
    <2>3. Final' = Final /\ \A c \in Case : Filed(c)' = Filed(c)
      BY <2>2, FinalStays DEF Whole, FiledStays
    <2>4. outcome[q] = Final
      BY <1>1 DEF SerialInv, RunSound
    <2> HIDE DEF Final, Filed
    <2> QED BY <2>1, <2>2, <2>3, <2>4 DEF RunSound
  <1>2. CASE pc[q] \notin Settled
    BY <1>2 DEF RunSound, Running, Held, Settled
  <1> QED BY <1>1, <1>2

\* A step that writes no row keeps what is said of the rows.
LEMMA QuietRecords ==
    ASSUME SerialInv, FiledStays, UNCHANGED <<investigations, toolCalls, decisions, links>>,
           StageInv
    PROVE  \A c \in Case : RecordSound(c)'
  <1> SUFFICES ASSUME NEW c \in Case PROVE RecordSound(c)'
    OBVIOUS
  <1>1. RecordSound(c)
    BY DEF SerialInv
  <1>2. LinksOfCase(c)' = LinksOfCase(c) /\ CallsOf(c)' = CallsOf(c)
    BY DEF LinksOfCase, CallsOf
  <1>3. decisions[c] # NoRow => Whole' /\ decisions[c].choice = Final'[c]
    BY <1>1, FinalStays DEF RecordSound
  <1>4. investigations[c] # NoTrajectory => investigations[c] = Filed(c)'
    BY <1>1 DEF RecordSound, FiledStays, StageInv, TypeOK
  <1> QED BY <1>1, <1>2, <1>3, <1>4 DEF RecordSound

\* A step of one run, the only one in flight after it: it is enough to look at that
\* run and at the rows.
LEMMA OneSerialRun ==
    ASSUME Serial, StageInv, SerialInv, NEW p \in Pass,
           \A q \in Pass \ {p} : pc[q] \notin Running,
           \A q \in Pass \ {p} : UNCHANGED Held(q), journal' = journal, FiledStays,
           RunSound(p)', \A c \in Case : RecordSound(c)'
    PROVE  SerialInv'
  <1>1. ASSUME NEW q \in Pass PROVE RunSound(q)'
    <2>1. CASE q # p
      BY <2>1, OtherRuns
    <2> QED BY <2>1
  <1>2. \A q \in Pass : pc'[q] \in Running => q = p
    BY DEF Held
  <1> QED BY <1>1, <1>2 DEF SerialInv

\* A step of a run that writes no table: it is enough to look at that run.
LEMMA QuietSerialRun ==
    ASSUME Serial, StageInv, SerialInv, NEW p \in Pass,
           \A q \in Pass \ {p} : pc[q] \notin Running,
           \A q \in Pass \ {p} : UNCHANGED Held(q), UNCHANGED <<humanVars, tableVars>>,
           RunSound(p)'
    PROVE  SerialInv'
  <1>1. UNCHANGED <<journal, investigations, toolCalls, decisions, links, cache>>
    BY DEF humanVars, tableVars
  <1>2. FiledStays
    BY <1>1 DEF FiledStays, Filed
  <1>3. \A c \in Case : RecordSound(c)'
    BY <1>1, <1>2, QuietRecords
  <1> QED BY <1>1, <1>2, <1>3, OneSerialRun

\* A run begins only when no other is in flight.
LEMMA SerialBegin ==
    ASSUME Serial, StageInv, SerialInv, NEW p \in Pass, Begin(p)
    PROVE  SerialInv'
  <1>1. \A q \in Pass : pc[q] \notin Running
    <2> SUFFICES ASSUME NEW q \in Pass, pc[q] \in Running PROVE FALSE
      OBVIOUS
    <2>1. {r \in Pass : pc[r] \in Running} = {q}
      BY Alone
    <2>2. Cardinality({q}) = 1
      BY FS_Singleton
    <2>3. Cardinality({r \in Pass : pc[r] \in Running}) < MaxConcurrent
      BY DEF Begin
    <2> QED BY <2>1, <2>2, <2>3 DEF Serial
  <1>2. \A q \in Pass \ {p} : UNCHANGED Held(q)
    BY DEF StageInv, TypeOK, Begin, Held
  <1>3. pc'[p] = "report"
    BY DEF StageInv, TypeOK, Begin
  <1>4. RunSound(p)'
    BY <1>3 DEF RunSound, Settled
  <1> QED BY <1>1, <1>2, <1>4, QuietSerialRun DEF Begin

LEMMA SerialReportHuman ==
    ASSUME Serial, StageInv, SerialInv, NEW p \in Pass, NEW c \in Case, ReportHuman(p, c)
    PROVE  SerialInv'
  <1>1. \A q \in Pass \ {p} : pc[q] \notin Running
    BY Alone DEF ReportHuman, Running
  <1>2. \A q \in Pass \ {p} : UNCHANGED Held(q)
    BY DEF StageInv, TypeOK, ReportHuman, Held
  <1>3. RunSound(p)'
    BY DEF ReportHuman, RunSound, Settled
  <1> QED BY <1>1, <1>2, <1>3, QuietSerialRun DEF ReportHuman

LEMMA SerialStartFilter ==
    ASSUME Serial, StageInv, SerialInv, NEW p \in Pass, StartFilter(p)
    PROVE  SerialInv'
  <1>1. \A q \in Pass \ {p} : pc[q] \notin Running
    BY Alone DEF StartFilter, Running
  <1>2. \A q \in Pass \ {p} : UNCHANGED Held(q)
    BY DEF StageInv, TypeOK, StartFilter, Held
  <1>3. pc'[p] = "filter"
    BY DEF StageInv, TypeOK, StartFilter
  <1>4. RunSound(p)'
    BY <1>3 DEF RunSound, Settled
  <1> QED BY <1>1, <1>2, <1>4, QuietSerialRun DEF StartFilter

LEMMA SerialFilterHuman ==
    ASSUME Serial, StageInv, SerialInv, NEW p \in Pass, NEW c \in Case, FilterHuman(p, c)
    PROVE  SerialInv'
  <1>1. \A q \in Pass \ {p} : pc[q] \notin Running
    BY Alone DEF FilterHuman, Running
  <1>2. \A q \in Pass \ {p} : UNCHANGED Held(q)
    BY DEF StageInv, TypeOK, FilterHuman, Held
  <1>3. RunSound(p)'
    BY DEF FilterHuman, RunSound, Settled
  <1> QED BY <1>1, <1>2, <1>3, QuietSerialRun DEF FilterHuman

\* Without people the claims are those of the two stages.
LEMMA ClaimsOfStages ==
    ASSUME SerialInv
    PROVE  SettlementClaims = Stage2Links \cup links
  BY DEF SerialInv, SettlementClaims, HumanLinks

LEMMA SerialReadClaims ==
    ASSUME Serial, StageInv, SerialInv, NEW p \in Pass, ReadClaims(p)
    PROVE  SerialInv'
  <1>1. \A q \in Pass \ {p} : pc[q] \notin Running
    BY Alone DEF ReadClaims, Running
  <1>2. \A q \in Pass \ {p} : UNCHANGED Held(q)
    BY DEF StageInv, TypeOK, ReadClaims, Held
  <1>3. /\ pc'[p] = "investigate" /\ todo'[p] = scope[p] /\ scope'[p] = scope[p]
        /\ prior'[p] = Stage2Links \cup links /\ links' = links
    BY ClaimsOfStages DEF StageInv, TypeOK, ReadClaims, tableVars
  <1>4. RunSound(p)'
    BY <1>3 DEF RunSound, Settled
  <1> QED BY <1>1, <1>2, <1>4, QuietSerialRun DEF ReadClaims

LEMMA SerialReplayTrajectory ==
    ASSUME Serial, StageInv, SerialInv, NEW p \in Pass, NEW c \in Case,
           ReplayTrajectory(p, c)
    PROVE  SerialInv'
  <1>1. \A q \in Pass \ {p} : pc[q] \notin Running
    BY Alone DEF ReplayTrajectory, Running
  <1>2. \A q \in Pass \ {p} : UNCHANGED Held(q)
    BY DEF StageInv, TypeOK, ReplayTrajectory, Held
  <1>3. /\ pc[p] = "investigate" /\ pc'[p] = pc[p] /\ todo'[p] = todo[p] \ {c}
        /\ found'[p] = [found[p] EXCEPT ![c] = Filed(c)]
        /\ found[p] \in [Case -> Trajectory \cup {NoTrajectory}]
        /\ scope'[p] = scope[p] /\ scope[p] \subseteq Case /\ prior'[p] = prior[p]
        /\ cache' = cache /\ links' = links
    BY KeyOfRun DEF StageInv, TypeOK, ReplayTrajectory, tableVars, Filed
  <1>4. \A d \in Case : Filed(d)' = Filed(d)
    BY <1>3 DEF Filed
  <1>5. RunSound(p)'
    <2> HIDE DEF Filed
    <2> QED BY <1>3, <1>4 DEF RunSound, Settled, SerialInv
  <1> QED BY <1>1, <1>2, <1>5, QuietSerialRun DEF ReplayTrajectory

\* A run that ends without a result leaves nothing to look at.
LEMMA SerialForget ==
    ASSUME Serial, StageInv, SerialInv, NEW p \in Pass, pc[p] \in Running,
           NEW end \in {"failed", "crashed"}, Forget(p),
           pc' = [pc EXCEPT ![p] = end], UNCHANGED <<humanVars, tableVars, option>>
    PROVE  SerialInv'
  <1>1. \A q \in Pass \ {p} : pc[q] \notin Running
    BY Alone
  <1>2. \A q \in Pass \ {p} : UNCHANGED Held(q)
    BY DEF StageInv, TypeOK, Forget, Held
  <1>3. pc'[p] = end
    BY DEF StageInv, TypeOK
  <1>4. RunSound(p)'
    BY <1>3 DEF RunSound, Settled
  <1> QED BY <1>1, <1>2, <1>4, QuietSerialRun

LEMMA SerialCallModel ==
    ASSUME Serial, StageInv, SerialInv, NEW p \in Pass, NEW c \in Case, CallModel(p, c)
    PROVE  SerialInv'
  <1>1. \A q \in Pass \ {p} : pc[q] \notin Running
    BY Alone DEF CallModel, Running
  <1>2. \A q \in Pass \ {p} : UNCHANGED Held(q)
    BY DEF StageInv, TypeOK, CallModel, Held
  <1>3. /\ pc[p] = "investigate" /\ pc'[p] = "calling" /\ todo'[p] = todo[p]
        /\ found'[p] = found[p] /\ scope'[p] = scope[p] /\ scope[p] \subseteq Case
        /\ prior'[p] = prior[p] /\ cache' = cache /\ links' = links
        /\ NextCase(p, c) /\ Filed(c) = NoTrajectory
    BY KeyOfRun DEF StageInv, TypeOK, CallModel, tableVars, Filed
  <1>4. \A d \in Case : Filed(d)' = Filed(d) /\ (NextCase(p, d)' => d = c)
    BY <1>3, NextCaseIsOne DEF Filed, NextCase, StageInv
  <1>5. RunSound(p)'
    <2> HIDE DEF Filed, NextCase
    <2> QED BY <1>3, <1>4 DEF RunSound, Settled, SerialInv
  <1> QED BY <1>1, <1>2, <1>5, QuietSerialRun DEF CallModel

LEMMA SerialFinishCall ==
    ASSUME Serial, StageInv, SerialInv, NEW p \in Pass, NEW c \in Case, FinishCall(p, c)
    PROVE  SerialInv'
  <1>1. \A q \in Pass \ {p} : pc[q] \notin Running
    BY Alone DEF FinishCall, Running
  <1>2. \A q \in Pass \ {p} : UNCHANGED Held(q)
    BY DEF StageInv, TypeOK, FinishCall, Held
  <1>3. /\ pc[p] = "calling" /\ NextCase(p, c) /\ Filed(c) = NoTrajectory
        /\ cache[Key(p, c)] = NoTrajectory
    BY KeyOfRun DEF FinishCall, SerialInv, RunSound, StageInv, Filed
  <1>4. PICK t \in Trajectory :
          /\ found' = [found EXCEPT ![p][c] = t] /\ pc' = [pc EXCEPT ![p] = "storing"]
          /\ todo' = todo
    BY <1>3, KeyOfRun DEF FinishCall, Stores, StageInv
  <1>5. /\ pc'[p] = "storing" /\ todo'[p] = todo[p] /\ c \in todo[p]
        /\ found'[p] = [found[p] EXCEPT ![c] = t]
        /\ found[p] \in [Case -> Trajectory \cup {NoTrajectory}]
        /\ scope'[p] = scope[p] /\ scope[p] \subseteq Case
        /\ prior'[p] = prior[p] /\ cache' = cache /\ links' = links
    BY <1>4 DEF StageInv, TypeOK, FinishCall, NextCase, tableVars
  <1>6. \A d \in Case : Filed(d)' = Filed(d) /\ (NextCase(p, d)' => d = c)
    BY <1>3, <1>5, NextCaseIsOne DEF Filed, NextCase, StageInv
  <1>7. RunSound(p)'
    <2> HIDE DEF Filed, NextCase
    <2> QED BY <1>3, <1>5, <1>6 DEF RunSound, Settled, SerialInv
  <1> QED BY <1>1, <1>2, <1>7, QuietSerialRun DEF FinishCall

\* The verdicts of a run are the final ones.
LEMMA SerialSettle ==
    ASSUME Serial, StageInv, SerialInv, NEW p \in Pass, Settle(p)
    PROVE  SerialInv'
  <1>1. \A q \in Pass \ {p} : pc[q] \notin Running
    BY Alone DEF Settle, Running
  <1>2. \A q \in Pass \ {p} : UNCHANGED Held(q)
    BY DEF StageInv, TypeOK, Settle, Held
  <1>3. /\ pc[p] = "investigate" /\ pc'[p] = "investigation" /\ todo[p] = {}
        /\ found'[p] = found[p] /\ cache' = cache
        /\ outcome'[p] = WithdrawContended(p, FirstPass(p))
    BY DEF StageInv, TypeOK, Settle, tableVars
  <1>4. scope[p] = Case
    BY <1>3, WholeScope DEF Scoped
  <1>5. /\ \A c \in Case : found[p][c] = Filed(c)
        /\ prior[p] = Stage2Links \cup links
    BY <1>3, <1>4 DEF SerialInv, RunSound
  <1>6. \A c \in Case : LinksOfCase(c) \subseteq Links(Final[c])
    BY DEF SerialInv, RecordSound
  <1>7. outcome'[p] = Final
    BY <1>3, <1>4, <1>5, <1>6, VerdictsAreFinal DEF StageInv
  <1>8. Final' = Final
    BY <1>3 DEF Final, Proposed, Filed, ContestedNow
  <1>9. \A c \in Case : Filed(c)' = Filed(c)
    BY <1>3 DEF Filed
  <1>10. RunSound(p)'
    <2> HIDE DEF Filed, Final
    <2> QED BY <1>3, <1>5, <1>7, <1>8, <1>9 DEF RunSound, Settled
  <1> QED BY <1>1, <1>2, <1>10, QuietSerialRun DEF Settle

LEMMA SerialFinish ==
    ASSUME Serial, StageInv, SerialInv, NEW p \in Pass, Finish(p)
    PROVE  SerialInv'
  <1>1. \A q \in Pass \ {p} : pc[q] \notin Running
    BY Alone DEF Finish, Running
  <1>2. \A q \in Pass \ {p} : UNCHANGED Held(q)
    BY DEF StageInv, TypeOK, Finish, Held
  <1>3. /\ pc[p] = "investigation" /\ pc'[p] = "done" /\ found'[p] = found[p]
        /\ outcome'[p] = outcome[p] /\ cache' = cache
    BY DEF StageInv, TypeOK, Finish, tableVars
  <1>4. Final' = Final /\ \A c \in Case : Filed(c)' = Filed(c)
    BY <1>3 DEF Final, Proposed, Filed, ContestedNow
  <1>5. RunSound(p)'
    <2> HIDE DEF Filed, Final
    <2> QED BY <1>3, <1>4 DEF RunSound, Settled, SerialInv
  <1> QED BY <1>1, <1>2, <1>5, QuietSerialRun DEF Finish

LEMMA SerialOpenFile ==
    ASSUME Serial, StageInv, SerialInv, NEW p \in Pass, NEW c \in Case, OpenFile(p, c)
    PROVE  SerialInv'
  <1>1. \A q \in Pass \ {p} : pc[q] \notin Running
    BY Alone DEF OpenFile, Running
  <1>2. \A q \in Pass \ {p} : UNCHANGED Held(q)
    BY DEF StageInv, TypeOK, OpenFile, Held
  <1>3. /\ pc[p] = "storing" /\ pc'[p] = "writing" /\ NextCase(p, c) /\ c \in todo[p]
        /\ todo'[p] = todo[p] /\ found'[p] = found[p] /\ scope'[p] = scope[p]
        /\ prior'[p] = prior[p] /\ scope[p] \subseteq Case
        /\ cache' = [cache EXCEPT ![<<SoleModel, c>>] = Torn]
        /\ UNCHANGED <<journal, investigations, toolCalls, decisions, links>>
    BY KeyOfRun DEF StageInv, TypeOK, OpenFile, NextCase, humanVars
  <1>4. Filed(c) = NoTrajectory
    BY <1>3 DEF SerialInv, RunSound
  <1>5. \A d \in Case : Filed(d)' = IF d = c THEN Torn ELSE Filed(d)
    BY <1>3, KeyOfRun DEF Filed, StageInv, TypeOK
  <1>6. FiledStays
    BY <1>4, <1>5, NoTrajectoryAssumption DEF FiledStays
  <1>7. \A d \in Case : NextCase(p, d)' => d = c
    BY <1>3, NextCaseIsOne DEF NextCase, StageInv
  <1>8. RunSound(p)'
    <2> HIDE DEF Filed, NextCase
    <2> QED BY <1>3, <1>5, <1>7 DEF RunSound, Settled, SerialInv
  <1>9. \A d \in Case : RecordSound(d)'
    BY <1>3, <1>6, QuietRecords
  <1> QED BY <1>1, <1>2, <1>3, <1>6, <1>8, <1>9, OneSerialRun

LEMMA SerialWriteFile ==
    ASSUME Serial, StageInv, SerialInv, NEW p \in Pass, NEW c \in Case, WriteFile(p, c)
    PROVE  SerialInv'
  <1>1. \A q \in Pass \ {p} : pc[q] \notin Running
    BY Alone DEF WriteFile, Running
  <1>2. \A q \in Pass \ {p} : UNCHANGED Held(q)
    BY DEF StageInv, TypeOK, WriteFile, Held
  <1>3. NextCase(p, c) /\ Filed(c) = Torn /\ cache[Key(p, c)] = Torn
    BY KeyOfRun DEF WriteFile, SerialInv, RunSound, StageInv, Filed
  <1>4. /\ pc[p] = "writing" /\ pc'[p] = "investigate" /\ todo'[p] = todo[p] \ {c}
        /\ found'[p] = found[p] /\ scope'[p] = scope[p]
        /\ prior'[p] = prior[p] /\ scope[p] \subseteq Case
        /\ cache' = [cache EXCEPT ![<<SoleModel, c>>] = found[p][c]]
        /\ UNCHANGED <<journal, investigations, toolCalls, decisions, links>>
    BY <1>3, KeyOfRun DEF StageInv, TypeOK, WriteFile, humanVars
  <1>5. \A d \in Case : Filed(d)' = IF d = c THEN found[p][c] ELSE Filed(d)
    BY <1>4, KeyOfRun DEF Filed, StageInv, TypeOK
  <1>6. FiledStays
    BY <1>3, <1>5, NoTrajectoryAssumption DEF FiledStays
  <1>7. RunSound(p)'
    <2> HIDE DEF Filed, NextCase
    <2> QED BY <1>4, <1>5 DEF RunSound, Settled, SerialInv
  <1>8. \A d \in Case : RecordSound(d)'
    BY <1>4, <1>6, QuietRecords
  <1> QED BY <1>1, <1>2, <1>4, <1>6, <1>7, <1>8, OneSerialRun

\* What a run holds once its verdicts are made: every case is on file.
LEMMA SettledRun ==
    ASSUME Serial, StageInv, SerialInv, NEW p \in Pass, pc[p] \in Settled
    PROVE  /\ Whole /\ outcome[p] = Final
           /\ \A c \in Case : found[p][c] = Filed(c) /\ Filed(c) \in Trajectory
  <1>1. scope[p] = Case /\ RunSound(p) /\ PassSound(p)
    BY WholeScope DEF StageInv, SerialInv, Scoped, Settled
  <1>2. \A c \in Case : found[p][c] = Filed(c) /\ Filed(c) \in Trajectory
    BY <1>1 DEF RunSound, PassSound, FoundSound
  <1> QED BY <1>1, <1>2 DEF RunSound, Whole

LEMMA SerialRecordInvestigation ==
    ASSUME Serial, StageInv, SerialInv, NEW p \in Pass, NEW c \in Case,
           RecordInvestigation(p, c)
    PROVE  SerialInv'
  <1>1. \A q \in Pass \ {p} : pc[q] \notin Running
    BY Alone DEF RecordInvestigation, Running
  <1>2. \A q \in Pass \ {p} : UNCHANGED Held(q)
    BY DEF StageInv, TypeOK, RecordInvestigation, Held
  <1>3. /\ pc[p] = "investigation" /\ pc'[p] = "decision"
        /\ found'[p] = found[p] /\ outcome'[p] = outcome[p]
        /\ UNCHANGED <<journal, decisions, links, cache>>
    BY DEF StageInv, TypeOK, RecordInvestigation, humanVars
  <1>4. PICK t \in Trajectory : t = found[p][c] /\ t = Filed(c)
    BY <1>3, SettledRun DEF Settled
  <1>5. /\ investigations' = IF investigations[c] = NoTrajectory
                             THEN [investigations EXCEPT ![c] = t] ELSE investigations
        /\ toolCalls' = toolCalls \cup FreshCalls(c, t)
        /\ investigations \in [Case -> Trajectory \cup {NoTrajectory}]
        /\ toolCalls \subseteq Case \X (Nat \ {0}) \X Trajectory
    BY <1>4 DEF StageInv, TypeOK, RecordInvestigation
  <1>6. t.calls \in Nat /\ t # NoTrajectory
    BY TrajectoryAssumption, NoTrajectoryAssumption
  <1>7. \A d \in Case : Filed(d)' = Filed(d)
    BY <1>3 DEF Filed
  <1>8. Final' = Final /\ (Whole => Whole')
    BY <1>3 DEF Final, Proposed, Filed, ContestedNow, Whole
  <1>9. \A x \in FreshCalls(c, t) : x[1] = c /\ \E i \in 1 .. t.calls : x[2] = i /\ x[3] = t
    BY DEF FreshCalls
  <1>10. ASSUME NEW d \in Case, d # c PROVE CallsOf(d)' = CallsOf(d)
    <2>1. {y \in toolCalls' : y[1] = d} = {y \in toolCalls : y[1] = d}
      BY <1>5, <1>9, <1>10
    <2> QED BY <2>1 DEF CallsOf
  <1>11. CallsOf(c)' = AllCalls(t) /\ investigations'[c] = t
    <2>1. CASE investigations[c] = NoTrajectory
      <3>1. \A y \in toolCalls : y[1] # c
        <4>1. CallsOf(c) = {}
          BY <2>1 DEF SerialInv, RecordSound
        <4> QED BY <4>1 DEF CallsOf
      <3>2. FreshCalls(c, t) = {<<c, i, t>> : i \in 1 .. t.calls}
        BY <3>1 DEF FreshCalls
      <3>3. {y \in toolCalls' : y[1] = c} = {<<c, i, t>> : i \in 1 .. t.calls}
        BY <1>5, <3>1, <3>2
      <3>4. CallsOf(c)' = {<<x[2], x[3]>> : x \in {<<c, i, t>> : i \in 1 .. t.calls}}
        BY <3>3 DEF CallsOf
      <3>5. \A i \in 1 .. t.calls : <<c, i, t>>[2] = i /\ <<c, i, t>>[3] = t
        OBVIOUS
      <3>6. CallsOf(c)' \subseteq AllCalls(t)
        BY <3>4, <3>5 DEF AllCalls
      <3>7. AllCalls(t) \subseteq CallsOf(c)'
        BY <3>4, <3>5 DEF AllCalls
      <3> QED BY <1>5, <2>1, <3>6, <3>7
    <2>2. CASE investigations[c] # NoTrajectory
      <3>1. investigations[c] = t /\ CallsOf(c) = AllCalls(t)
        BY <1>4, <2>2 DEF SerialInv, RecordSound
      <3>2. ASSUME NEW j \in 1 .. t.calls PROVE \E x \in toolCalls : x[1] = c /\ x[2] = j
        <4>1. <<j, t>> \in CallsOf(c)
          BY <3>1 DEF AllCalls
        <4>2. PICK x \in toolCalls : x[1] = c /\ <<x[2], x[3]>> = <<j, t>>
          BY <4>1 DEF CallsOf
        <4> QED BY <4>2
      <3>3. FreshCalls(c, t) = {}
        BY <3>2 DEF FreshCalls
      <3>4. toolCalls' = toolCalls
        BY <1>5, <3>3
      <3> QED BY <1>5, <2>2, <3>1, <3>4 DEF CallsOf
    <2> QED BY <2>1, <2>2
  <1>12. ASSUME NEW d \in Case PROVE RecordSound(d)'
    <2>1. RecordSound(d) /\ LinksOfCase(d)' = LinksOfCase(d)
      BY <1>3 DEF SerialInv, LinksOfCase
    <2>2. CASE d = c
      <3> HIDE DEF Final, Whole, Filed
      <3> QED BY <1>3, <1>4, <1>6, <1>7, <1>8, <1>11, <2>1, <2>2 DEF RecordSound
    <2>3. CASE d # c
      <3>1. investigations'[d] = investigations[d]
        BY <1>5, <2>3
      <3> HIDE DEF Final, Whole, Filed
      <3> QED BY <1>3, <1>7, <1>8, <1>10, <2>1, <2>3, <3>1 DEF RecordSound
    <2> QED BY <2>2, <2>3
  <1>13. RunSound(p)'
    <2>1. outcome[p] = Final /\ \A d \in Case : found[p][d] = Filed(d)
      BY <1>3, SettledRun DEF Settled
    <2> HIDE DEF Filed, Final
    <2> QED BY <1>3, <1>7, <1>8, <2>1 DEF RunSound, Settled
  <1>14. FiledStays
    BY <1>7 DEF FiledStays
  <1> QED BY <1>1, <1>2, <1>3, <1>12, <1>13, <1>14, OneSerialRun

LEMMA SerialRecordDecision ==
    ASSUME Serial, StageInv, SerialInv, NEW p \in Pass, NEW c \in Case,
           RecordDecision(p, c)
    PROVE  /\ SerialInv'
           /\ links' = links \cup (Links(Final[c]) \X {c})
  <1>1. \A q \in Pass \ {p} : pc[q] \notin Running
    BY Alone DEF RecordDecision, Running
  <1>2. \A q \in Pass \ {p} : UNCHANGED Held(q)
    BY DEF StageInv, TypeOK, RecordDecision, Held
  <1>3. /\ pc[p] = "decision" /\ pc'[p] = "investigation"
        /\ found'[p] = found[p] /\ outcome'[p] = outcome[p]
        /\ UNCHANGED <<journal, investigations, toolCalls, cache>>
    BY DEF StageInv, TypeOK, RecordDecision, humanVars
  <1>4. Whole /\ outcome[p] = Final /\ \A d \in Case : found[p][d] = Filed(d)
    BY <1>3, SettledRun DEF Settled
  <1>5. PICK row \in DecisionRow :
          /\ row.choice = Final[c]
          /\ decisions' = IF decisions[c] = NoRow THEN [decisions EXCEPT ![c] = row]
                          ELSE decisions
    <2>1. Final[c] \in Verdict /\ option[p].model \in Model
      BY FinalIsExclusive, KeyOfRun DEF StageInv
    <2>2. [model |-> option[p].model, choice |-> Final[c]] \in DecisionRow
      BY <2>1 DEF DecisionRow
    <2> QED BY <1>4, <2>2 DEF RecordDecision, InsertDecision
  <1>6. /\ links' = links \cup (Links(Final[c]) \X {c})
        /\ links \subseteq Settlement \X Case
        /\ decisions \in [Case -> DecisionRow \cup {NoRow}]
    BY <1>4 DEF StageInv, TypeOK, RecordDecision
  <1>7. \A d \in Case : Filed(d)' = Filed(d)
    BY <1>3 DEF Filed
  <1>8. FiledStays
    BY <1>7 DEF FiledStays
  <1>9. Whole' /\ Final' = Final
    BY <1>4, <1>8, FinalStays
  <1>10. ASSUME NEW d \in Case, d # c PROVE LinksOfCase(d)' = LinksOfCase(d)
    <2>1. {y \in links' : y[2] = d} = {y \in links : y[2] = d}
      BY <1>6, <1>10
    <2> QED BY <2>1 DEF LinksOfCase
  <1>11. LinksOfCase(c)' = LinksOfCase(c) \cup Links(Final[c])
    <2>1. \A s \in Links(Final[c]) : <<s, c>> \in links' /\ <<s, c>>[1] = s /\ <<s, c>>[2] = c
      BY <1>6
    <2>2. \A y \in links' : y \in links \/ (y[1] \in Links(Final[c]) /\ y[2] = c)
      BY <1>6
    <2>3. links \subseteq links'
      BY <1>6
    <2>4. LinksOfCase(c)' \subseteq LinksOfCase(c) \cup Links(Final[c])
      BY <2>2 DEF LinksOfCase
    <2>5. Links(Final[c]) \subseteq LinksOfCase(c)'
      BY <2>1 DEF LinksOfCase
    <2>6. LinksOfCase(c) \subseteq LinksOfCase(c)'
      BY <2>3 DEF LinksOfCase
    <2> QED BY <2>4, <2>5, <2>6
  <1>12. ASSUME NEW d \in Case PROVE RecordSound(d)'
    <2>1. RecordSound(d) /\ CallsOf(d)' = CallsOf(d)
      BY <1>3 DEF SerialInv, CallsOf
    <2>2. CASE d = c
      <3>1. decisions'[c] # NoRow /\ decisions'[c].choice = Final[c]
        BY <1>5, <1>6, <2>1, <2>2, RowIsRow DEF RecordSound
      <3>2. LinksOfCase(c)' = Links(Final[c])
        BY <1>11, <2>1, <2>2 DEF RecordSound
      <3> HIDE DEF Final, Whole, Filed
      <3> QED BY <1>3, <1>7, <1>9, <2>1, <2>2, <3>1, <3>2 DEF RecordSound
    <2>3. CASE d # c
      <3>1. decisions'[d] = decisions[d]
        BY <1>5, <1>6, <2>3
      <3> HIDE DEF Final, Whole, Filed
      <3> QED BY <1>3, <1>7, <1>9, <1>10, <2>1, <2>3, <3>1 DEF RecordSound
    <2> QED BY <2>2, <2>3
  <1>13. RunSound(p)'
    <2> HIDE DEF Filed, Final
    <2> QED BY <1>3, <1>4, <1>7, <1>9 DEF RunSound, Settled
  <1> QED BY <1>1, <1>2, <1>3, <1>6, <1>8, <1>12, <1>13, OneSerialRun

\* The step of a run adds its links or none.
LEMMA SerialPassStep ==
    ASSUME Serial, StageInv, SerialInv, NEW p \in Pass, Begin(p) \/ PassStep(p) \/ Crash(p)
    PROVE  /\ SerialInv'
           /\ \/ UNCHANGED links
              \/ \E c \in Case : links' = links \cup (Links(Final[c]) \X {c})
  <1>1. CASE Begin(p)
    BY <1>1, SerialBegin DEF Begin, tableVars
  <1>2. CASE Crash(p)
    BY <1>2, SerialForget DEF Crash, tableVars
  <1>3. CASE StartFilter(p) \/ ReadClaims(p)
    BY <1>3, SerialStartFilter, SerialReadClaims DEF StartFilter, ReadClaims, tableVars
  <1>4. CASE Settle(p)
    BY <1>4, SerialSettle DEF Settle, tableVars
  <1>5. CASE Finish(p)
    BY <1>5, SerialFinish DEF Finish, tableVars
  <1>6. ASSUME NEW c \in Case, ReportHuman(p, c) \/ FilterHuman(p, c)
        PROVE  SerialInv' /\ UNCHANGED links
    BY <1>6, SerialReportHuman, SerialFilterHuman DEF ReportHuman, FilterHuman, tableVars
  <1>7. ASSUME NEW c \in Case, ReplayTrajectory(p, c) PROVE SerialInv' /\ UNCHANGED links
    BY <1>7, SerialReplayTrajectory DEF ReplayTrajectory, tableVars
  <1>8. ASSUME NEW c \in Case, LoadTorn(p, c) \/ ReplayMiss(p, c)
        PROVE  SerialInv' /\ UNCHANGED links
    BY <1>8, SerialForget DEF LoadTorn, ReplayMiss, Running, tableVars
  <1>9. ASSUME NEW c \in Case, CallModel(p, c) PROVE SerialInv' /\ UNCHANGED links
    BY <1>9, SerialCallModel DEF CallModel, tableVars
  <1>10. ASSUME NEW c \in Case, FinishCall(p, c) PROVE SerialInv' /\ UNCHANGED links
    BY <1>10, SerialFinishCall DEF FinishCall, tableVars
  <1>11. ASSUME NEW c \in Case, OpenFile(p, c) PROVE SerialInv' /\ UNCHANGED links
    BY <1>11, SerialOpenFile DEF OpenFile
  <1>12. ASSUME NEW c \in Case, WriteFile(p, c) PROVE SerialInv' /\ UNCHANGED links
    BY <1>12, SerialWriteFile DEF WriteFile
  <1>13. ASSUME NEW c \in Case, RecordInvestigation(p, c) PROVE SerialInv' /\ UNCHANGED links
    BY <1>13, SerialRecordInvestigation DEF RecordInvestigation
  <1> QED BY <1>1, <1>2, <1>3, <1>4, <1>5, <1>6, <1>7, <1>8, <1>9, <1>10, <1>11, <1>12,
             <1>13, SerialRecordDecision DEF PassStep

LEMMA SerialStep ==
    ASSUME Serial, StageInv, SerialInv, [Next]_vars
    PROVE  /\ SerialInv'
           /\ \/ UNCHANGED links
              \/ \E c \in Case : links' = links \cup (Links(Final[c]) \X {c})
  <1>1. CASE UNCHANGED vars \/ HumanStep
    <2>1. UNCHANGED vars
      BY <1>1 DEF HumanStep, HumanNext, RepeatDecision, Serial, vars
    <2>2. UNCHANGED <<journal, investigations, toolCalls, decisions, links, cache>>
      BY <2>1 DEF vars, humanVars, stage3Vars, tableVars
    <2>3. FiledStays
      BY <2>2 DEF FiledStays, Filed
    <2>4. \A c \in Case : RecordSound(c)'
      BY <2>2, <2>3, QuietRecords
    <2>5. \A q \in Pass : UNCHANGED Held(q)
      BY <2>1 DEF vars, stage3Vars, passVars, Held
    <2>6. ASSUME NEW q \in Pass PROVE RunSound(q)'
      <3>1. Final' = Final /\ \A c \in Case : Filed(c)' = Filed(c) /\ (NextCase(q, c)' <=> NextCase(q, c))
        BY <2>1, <2>2 DEF Final, Proposed, Filed, ContestedNow, NextCase, vars, stage3Vars, passVars
      <3>2. RunSound(q)
        BY DEF SerialInv
      <3> HIDE DEF Final, Filed, NextCase
      <3> QED BY <2>2, <2>5, <3>1, <3>2 DEF RunSound, Held, StageInv, TypeOK
    <2> QED BY <2>2, <2>4, <2>5, <2>6 DEF SerialInv, Held
  <1>2. CASE \E p \in Pass : Begin(p) \/ PassStep(p) \/ Crash(p)
    BY <1>2, SerialPassStep
  <1> QED BY <1>1, <1>2 DEF Next, Terminated

LEMMA InitSerial == ASSUME Serial, Init PROVE SerialInv
  <1>1. journal = {} /\ \A p \in Pass : pc[p] = "idle"
    BY DEF Init, HumanInit
  <1>2. ASSUME NEW p \in Pass PROVE RunSound(p) /\ pc[p] \notin Running
    BY <1>1 DEF RunSound, Settled, Running
  <1>3. ASSUME NEW c \in Case PROVE RecordSound(c)
    BY DEF Init, RecordSound, LinksOfCase, CallsOf
  <1> QED BY <1>1, <1>2, <1>3 DEF SerialInv

----------------------------------------------------------------------------
(* Theorems about runs that follow one another *)

\* The inductive invariant holds: what is recorded, and what the run in flight has
\* found and decided, is what the trajectories on file say.
THEOREM SerialInvariant == ASSUME Serial PROVE Spec => []SerialInv
  <1>1. StageInv /\ SerialInv /\ [Next]_vars => SerialInv'
    BY SerialStep
  <1>2. Init => SerialInv
    BY InitSerial
  <1> QED BY <1>1, <1>2, StageInvariant, PTL DEF Spec

\* Runs one after the other, stopped anywhere: the links of a case are those of its
\* recorded decision, whichever run wrote them.
THEOREM SerialLinks == ASSUME Serial PROVE Spec => []LinksMatchDecision
  <1>1. SerialInv => LinksMatchDecision
    BY DEF SerialInv, RecordSound, LinksMatchDecision
  <1> QED BY <1>1, SerialInvariant, PTL

\* A run that ends reports what was decided first, and a decision stands on the
\* investigation and the tool calls stored beside it.
THEOREM SerialRecords == ASSUME Serial PROVE Spec => []RecordIsSound
  <1>1. StageInv /\ SerialInv => ReportIsRecorded
    <2> SUFFICES ASSUME StageInv, SerialInv, NEW p \in Pass, pc[p] = "done", NEW c \in scope[p]
                 PROVE  decisions[c] # NoRow /\ decisions[c].choice = outcome[p][c]
      BY DEF ReportIsRecorded
    <2>1. c \in Case /\ decisions[c] # NoRow
      BY DEF StageInv, TypeOK, PassSound, OutcomeSound, Settled
    <2>2. outcome[p] = Final /\ decisions[c].choice = Final[c]
      BY <2>1 DEF SerialInv, RunSound, RecordSound, Settled
    <2> QED BY <2>1, <2>2
  <1>2. StageInv /\ SerialInv => DecisionHasItsInvestigation
    <2> SUFFICES ASSUME StageInv, SerialInv, NEW c \in Case, decisions[c] # NoRow
                 PROVE  /\ investigations[c] # NoTrajectory
                        /\ decisions[c].model = investigations[c].model
                        /\ decisions[c].choice # NoChoice => investigations[c].proves
                        /\ CallsOf(c) = AllCalls(investigations[c])
      BY DEF DecisionHasItsInvestigation, CallsOf, AllCalls
    <2>1. /\ investigations[c] # NoTrajectory /\ investigations[c] \in Trajectory
          /\ decisions[c] \in DecisionRow
      BY DEF StageInv, TypeOK, ResolutionHasLinks
    <2>2. RecordSound(c)
      BY DEF SerialInv
    <2>3. decisions[c].model = investigations[c].model
      <3>1. decisions[c].model \in Model /\ investigations[c].model \in Model
        BY <2>1, TrajectoryAssumption DEF DecisionRow
      <3> QED BY <3>1 DEF Serial
    <2>4. decisions[c].choice # NoChoice => investigations[c].proves
      <3>1. investigations[c] = Filed(c) /\ decisions[c].choice = Final[c]
        BY <2>1, <2>2 DEF RecordSound
      <3>2. Final[c] # NoChoice => Proposed[c] # NoChoice
        BY FinalIsExclusive
      <3>3. Proposed[c] # NoChoice => Filed(c).proves
        BY DEF Proposed, Adjudicate
      <3> QED BY <3>1, <3>2, <3>3
    <2> QED BY <2>1, <2>2, <2>3, <2>4 DEF RecordSound
  <1>3. StageInv /\ SerialInv => RecordIsSound
    BY <1>1, <1>2 DEF StageInv, RecordIsSound
  <1> QED BY <1>3, StageInvariant, SerialInvariant, PTL

\* Stage 3 is a registry of claims: a recorded decision takes settlements nobody
\* else holds, and no other step of a run changes who holds what.
THEOREM SerialRefinesRegistry == ASSUME Serial PROVE Spec => RefinesRegistry
  <1>1. Init => Registry!Init
    BY DEF Init, HumanInit, Registry!Init, SettlementClaims, HumanLinks
  <1>2. ASSUME StageInv, SerialInv, [Next]_vars
        PROVE  [Registry!Next]_SettlementClaims
    <2>1. /\ SettlementClaims = Stage2Links \cup links
          /\ SettlementClaims' = Stage2Links \cup links'
      BY <1>2, SerialStep DEF SerialInv, SettlementClaims, HumanLinks
    <2>2. CASE UNCHANGED links
      BY <2>1, <2>2
    <2>3. ASSUME NEW c \in Case, links' = links \cup (Links(Final[c]) \X {c})
          PROVE  Registry!Next
      <3>1. Links(Final[c]) \in SUBSET Settlement
        BY FinalIsExclusive, LinksOfAssumption DEF Links, Verdict
      <3>2. ASSUME NEW x \in SettlementClaims, x[1] \in Links(Final[c]) PROVE x[2] = c
        <4>1. CASE x \in Stage2Links
          BY <3>2, <4>1, FinalIsUnclaimed DEF ExternalClaims
        <4>2. CASE x \in links
          <5>1. x[2] \in Case /\ x[1] \in LinksOfCase(x[2])
            BY <1>2, <4>2 DEF StageInv, TypeOK, LinksOfCase
          <5>2. LinksOfCase(x[2]) \subseteq Links(Final[x[2]])
            BY <1>2, <5>1 DEF SerialInv, RecordSound, Links
          <5>3. Links(Final[x[2]]) \subseteq Links(Proposed[x[2]])
            BY <5>1, FinalIsExclusive DEF Links
          <5> QED BY <3>2, <5>1, <5>2, <5>3, FinalIsExclusive
        <4> QED BY <2>1, <3>2, <4>1, <4>2
      <3>3. Registry!Take(c, Links(Final[c]))
        BY <2>1, <2>3, <3>2 DEF Registry!Take
      <3> QED BY <3>1, <3>3 DEF Registry!Next
    <2> QED BY <1>2, <2>2, <2>3, SerialStep
  <1> QED BY <1>1, <1>2, StageInvariant, SerialInvariant, PTL
          DEF Spec, RefinesRegistry, Registry!Spec
=============================================================================

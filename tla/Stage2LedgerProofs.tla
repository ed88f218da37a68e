------------------------- MODULE Stage2LedgerProofs -------------------------
(***************************************************************************)
(* What the ledger holds after any runs over any contents, killed wherever *)
(* they were: a snapshot stands on complete rows whatever runs overlap; and *)
(* as long as runs in flight at once are over the same content, a batch is *)
(* one content, a run that returns leaves it whole, none meets an error of *)
(* integrity, and rerunning a complete batch changes nothing.              *)
(*                                                                         *)
(* The argument has two layers.  Ledger says, of every run, what it has    *)
(* written so far; as rows are only added, no other run can make it false. *)
(* OneContent says, as long as nothing was mixed, whose rows there are.    *)
(***************************************************************************)
EXTENDS Stage2Ledger, FiniteSetTheorems, TLAPS

----------------------------------------------------------------------------
(* The inductive invariant *)

\* Every row that content f has for case c is on the ledger.
CaseWritten(f, c) ==
    /\ cases[c] # NoDecision /\ contexts[c] # NoDecision
    /\ c \in OpenIn(f) => snapshots[c] # NoDecision
    /\ DecisionLinks[DecisionOf[f][c]] \X {c} \subseteq caseLinks
    /\ DecisionCandidates[DecisionOf[f][c]] \X {c} \subseteq caseCandidates
    /\ [case |-> c, sequence |-> Sequence(f, c), decision |-> DecisionOf[f][c]] \in audit

\* The rows a run has written of the case it is at.
HalfWritten(r, c) ==
    /\ pc[r] \in {"context", "audit", "candidates", "snapshot"} =>
          /\ cases[c] # NoDecision
          /\ DecisionLinks[Decided(r, c)] \X {c} \subseteq caseLinks
    /\ pc[r] \in {"audit", "candidates", "snapshot"} => contexts[c] # NoDecision
    /\ pc[r] \in {"candidates", "snapshot"} => NewAuditRow(r, c) \in audit
    /\ pc[r] = "snapshot" => DecisionCandidates[Decided(r, c)] \X {c} \subseteq caseCandidates

\* What a run has behind it is on the ledger.
RunSound(r) ==
    /\ pc[r] \in CaseStep =>
          /\ todo[r] \subseteq CasesOf(content[r])
          /\ \A c \in CasesOf(content[r]) \ todo[r] : CaseWritten(content[r], c)
          /\ \A c \in Case : NextItem(r, c) => HalfWritten(r, c)
    /\ pc[r] \in {"ingest", "done"} =>
          \A c \in CasesOf(content[r]) : CaseWritten(content[r], c)
    /\ pc[r] = "ingest" =>
          todo[r] \subseteq EventsOf[content[r]] /\ EventsOf[content[r]] \ todo[r] \subseteq events
    /\ pc[r] = "done" => EventsOf[content[r]] \subseteq events

Ledger == TypeOK /\ SnapshotComesLast /\ \A r \in Run : RunSound(r)

InFlightAlike ==
    \A q, r \in Run : pc[q] \in Running /\ pc[r] \in Running => content[q] = content[r]

\* A run that writes is over what is registered, and fails at nothing.
WritesWhatIsRegistered(r) ==
    /\ pc[r] \in CaseStep \cup {"ingest", "done"} => batch = content[r]
    /\ pc[r] = "insert" => batch \in {NoContent, content[r]}
    /\ pc[r] # "failed"

RowsOfOne == IF batch = NoContent THEN \A f \in Content : Only(f) ELSE Only(batch)

\* As long as nothing was mixed, what is registered is all there is.
OneContent ==
    ~mixed => InFlightAlike /\ (\A r \in Run : WritesWhatIsRegistered(r)) /\ RowsOfOne

LedgerInv == Ledger /\ OneContent

\* Rows are only added.
Grows ==
    /\ \A c \in Case : /\ cases[c] # NoDecision => cases'[c] = cases[c]
                       /\ contexts[c] # NoDecision => contexts'[c] = contexts[c]
                       /\ snapshots[c] # NoDecision => snapshots'[c] = snapshots[c]
    /\ caseLinks \subseteq caseLinks' /\ caseCandidates \subseteq caseCandidates'
    /\ audit \subseteq audit' /\ events \subseteq events'

Held(r) == <<pc[r], todo[r], content[r]>>

----------------------------------------------------------------------------
(* Lemmas *)

LEMMA ContentFacts ==
    ASSUME NEW f \in Content
    PROVE  /\ CasesOf(f) \subseteq Case /\ CasesOf(f) \subseteq Nat
           /\ \A c \in CasesOf(f) : DecisionOf[f][c] \in Decision
           /\ \A c \in CasesOf(f) : /\ DecisionLinks[DecisionOf[f][c]] \subseteq Settlement
                                    /\ DecisionCandidates[DecisionOf[f][c]] \subseteq Candidate
           /\ EventsOf[f] \subseteq Nat /\ EventsOf[f] \subseteq Event
           /\ OpenIn(f) \subseteq CasesOf(f)
  <1>1. PICK C \in SUBSET Case : DecisionOf[f] \in [C -> Decision]
    BY DecisionOfAssumption
  <1>2. CasesOf(f) \subseteq Case /\ \A c \in CasesOf(f) : DecisionOf[f][c] \in Decision
    BY <1>1 DEF CasesOf
  <1>3. EventsOf[f] \subseteq Nat /\ EventsOf[f] \subseteq Event
    BY EventsOfAssumption DEF Event
  <1> QED
    BY <1>2, <1>3, CaseAssumption, DecisionLinksAssumption, DecisionCandidatesAssumption
    DEF OpenIn

\* The place of a case in the trail is a number.
LEMMA SequenceIsNat ==
    ASSUME NEW f \in Content, NEW c \in CasesOf(f)
    PROVE  Sequence(f, c) \in Nat
  <1>1. c \in Nat /\ CasesOf(f) \subseteq Nat
    BY ContentFacts
  <1>2. {d \in CasesOf(f) : d < c} \subseteq 0 .. c /\ IsFiniteSet(0 .. c)
    BY <1>1, FS_Interval
  <1>3. IsFiniteSet({d \in CasesOf(f) : d < c})
    BY <1>2, FS_Subset
  <1> QED BY <1>3, FS_CardinalityType DEF Sequence

\* What a run works through next is one item.
LEMMA NextItemIsOne ==
    ASSUME Ledger, NEW r \in Run, NEW x, NEW y, NextItem(r, x), NextItem(r, y)
    PROVE  x = y
  <1>1. todo[r] \subseteq Nat
    <2>1. todo[r] \subseteq Case \cup Event
      BY DEF Ledger, TypeOK
    <2>2. Event \subseteq Nat
      BY EventsOfAssumption DEF Event
    <2> QED BY <2>1, <2>2, CaseAssumption
  <1> QED BY <1>1 DEF NextItem

LEMMA CaseWrittenStays ==
    ASSUME NEW f \in Content, NEW c \in CasesOf(f), CaseWritten(f, c), Grows
    PROVE  CaseWritten(f, c)'
  <1>1. c \in Case
    BY ContentFacts
  <1> QED BY <1>1 DEF CaseWritten, Grows, OpenIn, Sequence

\* A run is untouched by a step that is not its own.
LEMMA OtherRuns ==
    ASSUME TypeOK, NEW r \in Run, RunSound(r), Grows, UNCHANGED Held(r)
    PROVE  RunSound(r)'
  <1>1. PICK f \in Content : f = content[r]
    BY DEF TypeOK
  <1>2. \A c \in CasesOf(f) : CaseWritten(f, c) => CaseWritten(f, c)'
    BY CaseWrittenStays
  <1>3. \A c \in Case : HalfWritten(r, c) => HalfWritten(r, c)'
    BY DEF HalfWritten, Held, Grows, Decided, NewAuditRow
  <1>4. content'[r] = f /\ pc'[r] = pc[r] /\ todo'[r] = todo[r] /\ events \subseteq events'
    BY <1>1 DEF Held, Grows
  <1>5. \A c \in Case : NextItem(r, c)' <=> NextItem(r, c)
    BY <1>4 DEF NextItem
  <1> QED BY <1>1, <1>2, <1>3, <1>4, <1>5 DEF RunSound

----------------------------------------------------------------------------
(* Steps keep Ledger and take no row away *)

LEMMA QuietTables ==
    ASSUME Ledger, UNCHANGED tableVars
    PROVE  Grows /\ SnapshotComesLast'
  BY DEF Ledger, tableVars, Grows, SnapshotComesLast

\* A step of one run: it is enough to look at the tables and at that run.
LEMMA OneRun ==
    ASSUME Ledger, NEW r \in Run, TypeOK', SnapshotComesLast', Grows,
           \A q \in Run \ {r} : UNCHANGED Held(q), RunSound(r)'
    PROVE  Ledger' /\ Grows
  <1>1. ASSUME NEW q \in Run PROVE RunSound(q)'
    <2>1. CASE q = r
      BY <2>1
    <2>2. CASE q # r
      <3>1. TypeOK /\ RunSound(q) /\ UNCHANGED Held(q)
        BY <2>2 DEF Ledger
      <3> QED BY <3>1, OtherRuns
    <2> QED BY <2>1, <2>2
  <1> QED BY <1>1 DEF Ledger

\* A run that only moves on, to where nothing is claimed of it.
LEMMA MovesOn ==
    ASSUME Ledger, NEW r \in Run,
           NEW s \in {"read", "insert", "refused", "failed", "crashed"},
           pc' = [pc EXCEPT ![r] = s], UNCHANGED <<tableVars, content, todo>>, mixed' \in BOOLEAN
    PROVE  Ledger' /\ Grows
  <1>1. Grows /\ SnapshotComesLast'
    BY QuietTables
  <1>2. TypeOK'
    BY DEF Ledger, TypeOK, tableVars, Running, Ended
  <1>3. \A q \in Run \ {r} : UNCHANGED Held(q)
    BY DEF Ledger, TypeOK, Held
  <1>4. pc'[r] = s
    BY DEF Ledger, TypeOK
  <1>5. RunSound(r)'
    BY <1>4 DEF RunSound, CaseStep
  <1> QED BY <1>1, <1>2, <1>3, <1>5, OneRun

\* The batch is registered: every case is still to be written.
LEMMA RegisteredLedger ==
    ASSUME Ledger, NEW r \in Run, Registered(r), UNCHANGED <<content, mixed>>,
           batch' \in Content,
           UNCHANGED <<cases, caseLinks, contexts, audit, caseCandidates, snapshots, events>>
    PROVE  Ledger' /\ Grows
  <1>1. Grows /\ SnapshotComesLast'
    BY DEF Ledger, Grows, SnapshotComesLast
  <1>2. CasesOf(content[r]) \subseteq Case
    BY ContentFacts DEF Ledger, TypeOK
  <1>3. TypeOK'
    BY <1>2 DEF Ledger, TypeOK, Registered, Running, CaseStep
  <1>4. \A q \in Run \ {r} : UNCHANGED Held(q)
    BY DEF Ledger, TypeOK, Registered, Held
  <1>5. pc'[r] = "decision" /\ todo'[r] = CasesOf(content[r]) /\ content'[r] = content[r]
    BY DEF Ledger, TypeOK, Registered
  <1>6. RunSound(r)'
    BY <1>5 DEF RunSound, CaseStep, HalfWritten
  <1> QED BY <1>1, <1>3, <1>4, <1>6, OneRun

\* What a run decided for a case of its own.
LEMMA DecidedFacts ==
    ASSUME Ledger, NEW r \in Run, NEW c \in Case, pc[r] \in CaseStep, NextItem(r, c)
    PROVE  /\ c \in CasesOf(content[r]) /\ content[r] \in Content
           /\ Decided(r, c) \in Decision /\ Decided(r, c) # NoDecision
           /\ DecisionLinks[Decided(r, c)] \subseteq Settlement
           /\ DecisionCandidates[Decided(r, c)] \subseteq Candidate
           /\ NewAuditRow(r, c) \in AuditRow
           /\ HalfWritten(r, c)
  <1>1. content[r] \in Content /\ c \in CasesOf(content[r]) /\ HalfWritten(r, c)
    BY DEF Ledger, TypeOK, RunSound, NextItem
  <1>2. Decided(r, c) \in Decision /\ Decided(r, c) # NoDecision
    BY <1>1, ContentFacts, NoDecisionAssumption DEF Decided
  <1>3. Sequence(content[r], c) \in Nat
    BY <1>1, SequenceIsNat
  <1>4. NewAuditRow(r, c) \in AuditRow
    BY <1>2, <1>3 DEF NewAuditRow, AuditRow
  <1> QED BY <1>1, <1>2, <1>4, DecisionLinksAssumption, DecisionCandidatesAssumption

\* A run that wrote the next row of the case it is at.
LEMMA CaseGoesOn ==
    ASSUME Ledger, NEW r \in Run, NEW c \in Case, pc[r] \in CaseStep, NextItem(r, c),
           NEW s \in CaseStep, Advance(r, s), mixed' = mixed,
           TypeOK', SnapshotComesLast', Grows, HalfWritten(r, c)'
    PROVE  Ledger' /\ Grows
  <1>1. \A q \in Run \ {r} : UNCHANGED Held(q)
    BY DEF Ledger, TypeOK, Advance, Held
  <1>2. pc'[r] = s /\ todo'[r] = todo[r]
    BY DEF Ledger, TypeOK, Advance
  <1>3. PICK f \in Content : f = content[r] /\ f = content'[r]
    BY DEF Ledger, TypeOK, Advance
  <1>4. \A d \in CasesOf(f) : CaseWritten(f, d) => CaseWritten(f, d)'
    BY CaseWrittenStays
  <1>5. \A d \in Case : NextItem(r, d)' => d = c
    BY <1>2, NextItemIsOne DEF NextItem
  <1>6. ASSUME NEW d \in Case, NextItem(r, d)' PROVE HalfWritten(r, d)'
    <2>1. d = c
      BY <1>5, <1>6
    <2> QED BY <2>1
  <1>7. /\ todo'[r] \subseteq CasesOf(f)
        /\ \A d \in CasesOf(f) \ todo'[r] : CaseWritten(f, d)'
    <2>1. RunSound(r) /\ pc[r] \in CaseStep /\ f = content[r]
      BY <1>3 DEF Ledger
    <2>2. todo[r] \subseteq CasesOf(f) /\ \A d \in CasesOf(f) \ todo[r] : CaseWritten(f, d)
      BY <2>1 DEF RunSound
    <2> QED BY <1>2, <1>4, <2>2
  <1>8. RunSound(r)'
    BY <1>2, <1>3, <1>6, <1>7 DEF RunSound, CaseStep
  <1> QED BY <1>1, <1>8, OneRun

LEMMA RecordDecisionLedger ==
    ASSUME Ledger, NEW r \in Run, NEW c \in Case, RecordDecision(r, c), mixed' = mixed
    PROVE  Ledger' /\ Grows
  <1> DEFINE d == Decided(r, c)
  <1>1. pc[r] = "decision" /\ pc[r] \in CaseStep /\ NextItem(r, c) /\ "context" \in CaseStep
    BY DEF RecordDecision, CaseStep
  <1>2. d \in Decision /\ d # NoDecision /\ DecisionLinks[d] \subseteq Settlement
    BY <1>1, DecidedFacts
  <1> HIDE DEF d
  <1>3. /\ cases' = InsertOnce(cases, c, d) /\ caseLinks' = caseLinks \cup (DecisionLinks[d] \X {c})
        /\ Advance(r, "context")
        /\ UNCHANGED <<batch, contexts, audit, caseCandidates, snapshots, events, mixed>>
    BY DEF RecordDecision, d
  <1>4. /\ cases' \in [Case -> Decision \cup {NoDecision}] /\ cases'[c] # NoDecision
        /\ \A x \in Case : cases[x] # NoDecision => cases'[x] = cases[x]
    BY <1>2, <1>3 DEF Ledger, TypeOK, InsertOnce
  <1>5. TypeOK'
    BY <1>2, <1>3, <1>4 DEF Ledger, TypeOK, Advance, Running, CaseStep
  <1>6. Grows /\ SnapshotComesLast'
    BY <1>3, <1>4 DEF Ledger, Grows, SnapshotComesLast
  <1>7. pc'[r] = "context" /\ Decided(r, c)' = d
    BY <1>3 DEF Ledger, TypeOK, Advance, Decided, d
  <1>8. HalfWritten(r, c)'
    BY <1>3, <1>4, <1>7 DEF HalfWritten
  <1> QED BY <1>1, <1>3, <1>5, <1>6, <1>8, CaseGoesOn

LEMMA RecordContextLedger ==
    ASSUME Ledger, NEW r \in Run, NEW c \in Case, RecordContext(r, c), mixed' = mixed
    PROVE  Ledger' /\ Grows
  <1> DEFINE d == Decided(r, c)
  <1>1. pc[r] = "context" /\ pc[r] \in CaseStep /\ NextItem(r, c) /\ "audit" \in CaseStep
    BY DEF RecordContext, CaseStep
  <1>2. d \in Decision /\ d # NoDecision /\ HalfWritten(r, c)
    BY <1>1, DecidedFacts
  <1> HIDE DEF d
  <1>3. /\ contexts' = InsertOnce(contexts, c, d) /\ Advance(r, "audit")
        /\ UNCHANGED <<batch, cases, caseLinks, audit, caseCandidates, snapshots, events, mixed>>
    BY DEF RecordContext, d
  <1>4. /\ contexts' \in [Case -> Decision \cup {NoDecision}] /\ contexts'[c] # NoDecision
        /\ \A x \in Case : contexts[x] # NoDecision => contexts'[x] = contexts[x]
    BY <1>2, <1>3 DEF Ledger, TypeOK, InsertOnce
  <1>5. TypeOK'
    BY <1>3, <1>4 DEF Ledger, TypeOK, Advance, Running, CaseStep
  <1>6. Grows /\ SnapshotComesLast'
    BY <1>3, <1>4 DEF Ledger, Grows, SnapshotComesLast
  <1>7. pc'[r] = "audit" /\ Decided(r, c)' = d
    BY <1>3 DEF Ledger, TypeOK, Advance, Decided, d
  <1>8. HalfWritten(r, c)'
    BY <1>1, <1>2, <1>3, <1>4, <1>7 DEF HalfWritten, d
  <1> QED BY <1>1, <1>3, <1>5, <1>6, <1>8, CaseGoesOn

LEMMA RecordAuditLedger ==
    ASSUME Ledger, NEW r \in Run, NEW c \in Case, RecordAudit(r, c), mixed' = mixed
    PROVE  Ledger' /\ Grows
  <1> DEFINE row == NewAuditRow(r, c)
  <1>1. /\ pc[r] = "audit" /\ pc[r] \in CaseStep /\ NextItem(r, c) /\ "candidates" \in CaseStep
        /\ ~AuditRefused(row) /\ row.case = c
    BY DEF RecordAudit, CaseStep, NewAuditRow
  <1>2. row \in AuditRow /\ HalfWritten(r, c)
    BY <1>1, DecidedFacts
  <1>3. Decided(r, c)' = Decided(r, c) /\ NewAuditRow(r, c)' = row
    BY DEF RecordAudit, Advance, Decided, NewAuditRow, Sequence
  <1> HIDE DEF row
  <1>4. /\ audit' = IF \E a \in audit : a.case = c /\ a.sequence = row.sequence
                    THEN audit ELSE audit \cup {row}
        /\ Advance(r, "candidates")
        /\ UNCHANGED <<batch, cases, caseLinks, contexts, caseCandidates, snapshots, events, mixed>>
    BY DEF RecordAudit, row
  <1>5. audit' = audit \cup {row}
    BY <1>1, <1>4 DEF AuditRefused
  <1>6. TypeOK'
    BY <1>2, <1>4, <1>5 DEF Ledger, TypeOK, Advance, Running, CaseStep
  <1>7. Grows /\ SnapshotComesLast'
    BY <1>4, <1>5 DEF Ledger, Grows, SnapshotComesLast
  <1>8. pc'[r] = "candidates"
    BY <1>4 DEF Ledger, TypeOK, Advance
  <1>9. HalfWritten(r, c)'
    BY <1>1, <1>2, <1>3, <1>4, <1>5, <1>8 DEF HalfWritten
  <1> QED BY <1>1, <1>4, <1>6, <1>7, <1>9, CaseGoesOn

LEMMA RecordCandidatesLedger ==
    ASSUME Ledger, NEW r \in Run, NEW c \in Case, RecordCandidates(r, c), mixed' = mixed
    PROVE  Ledger' /\ Grows
  <1>1. pc[r] = "candidates" /\ pc[r] \in CaseStep /\ NextItem(r, c) /\ "snapshot" \in CaseStep
    BY DEF RecordCandidates, CaseStep
  <1>2. DecisionCandidates[Decided(r, c)] \subseteq Candidate /\ HalfWritten(r, c)
    BY <1>1, DecidedFacts
  <1>3. /\ caseCandidates' = caseCandidates \cup (DecisionCandidates[Decided(r, c)] \X {c})
        /\ Advance(r, "snapshot")
        /\ UNCHANGED <<batch, cases, caseLinks, contexts, audit, snapshots, events, mixed>>
    BY DEF RecordCandidates
  <1>4. TypeOK'
    BY <1>2, <1>3 DEF Ledger, TypeOK, Advance, Running, CaseStep
  <1>5. Grows /\ SnapshotComesLast'
    BY <1>3 DEF Ledger, Grows, SnapshotComesLast
  <1>6. pc'[r] = "snapshot" /\ Decided(r, c)' = Decided(r, c) /\ NewAuditRow(r, c)' = NewAuditRow(r, c)
    BY <1>3 DEF Ledger, TypeOK, Advance, Decided, NewAuditRow, Sequence
  <1>7. HalfWritten(r, c)'
    BY <1>1, <1>2, <1>3, <1>6 DEF HalfWritten
  <1> QED BY <1>1, <1>3, <1>4, <1>5, <1>7, CaseGoesOn

LEMMA RecordSnapshotLedger ==
    ASSUME Ledger, NEW r \in Run, NEW c \in Case, RecordSnapshot(r, c), mixed' = mixed
    PROVE  Ledger' /\ Grows
  <1> DEFINE d == Decided(r, c)
  <1>1. pc[r] = "snapshot" /\ pc[r] \in CaseStep /\ NextItem(r, c)
    BY DEF RecordSnapshot, CaseStep
  <1>2. d \in Decision /\ d # NoDecision /\ HalfWritten(r, c) /\ c \in CasesOf(content[r])
    BY <1>1, DecidedFacts
  <1>3. /\ DecisionLinks[d] \X {c} \subseteq caseLinks /\ NewAuditRow(r, c) \in audit
        /\ DecisionCandidates[d] \X {c} \subseteq caseCandidates
        /\ cases[c] # NoDecision /\ contexts[c] # NoDecision
    BY <1>1, <1>2 DEF HalfWritten
  <1>4. NewAuditRow(r, c).case = c /\ NewAuditRow(r, c).decision = d
    BY DEF NewAuditRow
  <1>5. PICK f \in Content : f = content[r] /\ f = content'[r] /\ d = DecisionOf[f][c]
    BY DEF Ledger, TypeOK, RecordSnapshot, Decided
  <1>6. NewAuditRow(r, c) = [case |-> c, sequence |-> Sequence(f, c), decision |-> DecisionOf[f][c]]
    BY <1>5 DEF NewAuditRow, Decided
  <1> HIDE DEF d
  <1>7. /\ snapshots' = IF DecisionLinks[d] = {} THEN InsertOnce(snapshots, c, d) ELSE snapshots
        /\ todo' = [todo EXCEPT ![r] = @ \ {c}] /\ pc' = [pc EXCEPT ![r] = "decision"]
        /\ UNCHANGED <<batch, cases, caseLinks, contexts, audit, caseCandidates, events, content, mixed>>
    BY DEF RecordSnapshot, d
  <1>8. /\ snapshots' \in [Case -> Decision \cup {NoDecision}]
        /\ DecisionLinks[d] = {} => snapshots'[c] # NoDecision
        /\ snapshots'[c] \in {snapshots[c], d}
        /\ \A x \in Case : snapshots[x] # NoDecision => snapshots'[x] = snapshots[x]
        /\ \A x \in Case \ {c} : snapshots'[x] = snapshots[x]
    BY <1>2, <1>7 DEF Ledger, TypeOK, InsertOnce
  <1>9. TypeOK'
    BY <1>7, <1>8 DEF Ledger, TypeOK, Running, CaseStep
  <1>10. Grows
    BY <1>7, <1>8 DEF Grows
  <1>11. SnapshotComesLast'
    <2> SUFFICES ASSUME NEW x \in Case, snapshots'[x] # NoDecision
                 PROVE  /\ cases[x] # NoDecision /\ contexts[x] # NoDecision
                        /\ DecisionCandidates[snapshots'[x]] \X {x} \subseteq caseCandidates
                        /\ \E a \in audit : a.case = x /\ a.decision = snapshots'[x]
      BY <1>7 DEF SnapshotComesLast
    <2>1. CASE snapshots'[x] = snapshots[x]
      BY <2>1 DEF Ledger, SnapshotComesLast
    <2>2. CASE x = c /\ snapshots'[x] = d
      BY <1>3, <1>4, <2>2
    <2> QED BY <1>8, <2>1, <2>2
  <1>12. \A q \in Run \ {r} : UNCHANGED Held(q)
    BY <1>7 DEF Ledger, TypeOK, Held
  <1>13. pc'[r] = "decision" /\ todo'[r] = todo[r] \ {c}
    BY <1>7 DEF Ledger, TypeOK
  <1>14. CaseWritten(f, c)'
    <2>1. c \in OpenIn(f) => DecisionLinks[d] = {}
      BY <1>5 DEF OpenIn
    <2>2. [case |-> c, sequence |-> Sequence(f, c), decision |-> DecisionOf[f][c]] \in audit'
      BY <1>3, <1>6, <1>7
    <2>3. (c \in OpenIn(f))' <=> c \in OpenIn(f)
      BY DEF OpenIn
    <2> QED BY <1>3, <1>5, <1>7, <1>8, <2>1, <2>2, <2>3 DEF CaseWritten, Sequence
  <1>15. /\ todo'[r] \subseteq CasesOf(f)
         /\ \A x \in CasesOf(f) \ todo'[r] : CaseWritten(f, x)'
    <2>1. RunSound(r) /\ pc[r] \in CaseStep /\ f = content[r]
      BY <1>1, <1>5 DEF Ledger
    <2>2. todo[r] \subseteq CasesOf(f) /\ \A x \in CasesOf(f) \ todo[r] : CaseWritten(f, x)
      BY <2>1 DEF RunSound
    <2>3. \A x \in CasesOf(f) : CaseWritten(f, x) => CaseWritten(f, x)'
      BY <1>10, CaseWrittenStays
    <2> QED BY <1>13, <1>14, <2>2, <2>3
  <1>16. RunSound(r)'
    BY <1>5, <1>13, <1>15 DEF RunSound, HalfWritten, CaseStep
  <1> QED BY <1>9, <1>10, <1>11, <1>12, <1>16, OneRun

\* A run that has every case behind it, and keeps them there.
LEMMA CasesBehind ==
    ASSUME Ledger, NEW r \in Run, Grows, content'[r] = content[r],
           (pc[r] \in CaseStep /\ todo[r] = {}) \/ pc[r] = "ingest"
    PROVE  \A c \in CasesOf(content'[r]) : CaseWritten(content[r], c)'
  <1>1. PICK f \in Content : f = content[r] /\ f = content'[r]
    BY DEF Ledger, TypeOK
  <1>2. \A c \in CasesOf(f) : CaseWritten(f, c)
    <2>1. RunSound(r) /\ f = content[r]
      BY <1>1 DEF Ledger
    <2> QED BY <2>1 DEF RunSound
  <1>3. \A c \in CasesOf(f) : CaseWritten(f, c)'
    BY <1>2, CaseWrittenStays
  <1> QED BY <1>1, <1>3

LEMMA BeginIngestionLedger ==
    ASSUME Ledger, NEW r \in Run, BeginIngestion(r), mixed' = mixed
    PROVE  Ledger' /\ Grows
  <1>1. Grows /\ SnapshotComesLast'
    BY QuietTables DEF BeginIngestion
  <1>2. EventsOf[content[r]] \subseteq Event
    BY ContentFacts DEF Ledger, TypeOK
  <1>3. TypeOK'
    BY <1>2 DEF Ledger, TypeOK, BeginIngestion, tableVars, Running
  <1>4. \A q \in Run \ {r} : UNCHANGED Held(q)
    BY DEF Ledger, TypeOK, BeginIngestion, Held
  <1>5. /\ pc[r] \in CaseStep /\ todo[r] = {}
        /\ pc'[r] = "ingest" /\ todo'[r] = EventsOf[content[r]] /\ content'[r] = content[r]
    BY DEF Ledger, TypeOK, BeginIngestion, CaseStep
  <1>6. \A c \in CasesOf(content'[r]) : CaseWritten(content[r], c)'
    BY <1>1, <1>5, CasesBehind
  <1>7. RunSound(r)'
    BY <1>5, <1>6 DEF RunSound, CaseStep
  <1> QED BY <1>1, <1>3, <1>4, <1>7, OneRun

LEMMA RecordEventLedger ==
    ASSUME Ledger, NEW r \in Run, NEW e \in Event, RecordEvent(r, e), mixed' = mixed
    PROVE  Ledger' /\ Grows
  <1>1. Grows /\ SnapshotComesLast'
    BY DEF RecordEvent, Ledger, Grows, SnapshotComesLast
  <1>2. TypeOK'
    BY DEF Ledger, TypeOK, RecordEvent
  <1>3. \A q \in Run \ {r} : UNCHANGED Held(q)
    BY DEF Ledger, TypeOK, RecordEvent, Held
  <1>4. /\ pc[r] = "ingest" /\ pc'[r] = "ingest" /\ content'[r] = content[r]
        /\ todo'[r] = todo[r] \ {e} /\ events' = events \cup {e}
    BY DEF Ledger, TypeOK, RecordEvent
  <1>5. \A c \in CasesOf(content'[r]) : CaseWritten(content[r], c)'
    BY <1>1, <1>4, CasesBehind
  <1>6. todo[r] \subseteq EventsOf[content[r]] /\ EventsOf[content[r]] \ todo[r] \subseteq events
    BY <1>4 DEF Ledger, RunSound
  <1>7. RunSound(r)'
    BY <1>4, <1>5, <1>6 DEF RunSound, CaseStep
  <1> QED BY <1>1, <1>2, <1>3, <1>7, OneRun

LEMMA FinishLedger ==
    ASSUME Ledger, NEW r \in Run, Finish(r), mixed' = mixed
    PROVE  Ledger' /\ Grows
  <1>1. Grows /\ SnapshotComesLast'
    BY QuietTables DEF Finish
  <1>2. TypeOK'
    BY DEF Ledger, TypeOK, Finish, Advance, tableVars, Ended
  <1>3. \A q \in Run \ {r} : UNCHANGED Held(q)
    BY DEF Ledger, TypeOK, Finish, Advance, Held
  <1>4. /\ pc[r] = "ingest" /\ pc'[r] = "done" /\ content'[r] = content[r]
        /\ todo[r] = {} /\ events' = events
    BY DEF Ledger, TypeOK, Finish, Advance, tableVars
  <1>5. \A c \in CasesOf(content'[r]) : CaseWritten(content[r], c)'
    BY <1>1, <1>4, CasesBehind
  <1>6. EventsOf[content[r]] \subseteq events
    BY <1>4 DEF Ledger, RunSound
  <1>7. RunSound(r)'
    BY <1>4, <1>5, <1>6 DEF RunSound, CaseStep
  <1> QED BY <1>1, <1>2, <1>3, <1>7, OneRun

LEMMA LedgerStep ==
    ASSUME Ledger, [Next]_vars
    PROVE  Ledger' /\ Grows
  <1>1. CASE UNCHANGED vars
    <2>1. TypeOK' /\ UNCHANGED tableVars /\ \A q \in Run : UNCHANGED Held(q)
      BY <1>1 DEF Ledger, TypeOK, vars, tableVars, Held
    <2>2. Grows /\ SnapshotComesLast'
      BY <2>1, QuietTables
    <2>3. ASSUME NEW q \in Run PROVE RunSound(q)'
      BY <2>1, <2>2, OtherRuns DEF Ledger
    <2> QED BY <2>1, <2>2, <2>3 DEF Ledger
  <1>2. ASSUME NEW r \in Run, Start(r) PROVE Ledger' /\ Grows
    <2>1. /\ pc' = [pc EXCEPT ![r] = "read"] /\ UNCHANGED <<tableVars, content, todo>>
          /\ mixed' \in BOOLEAN
      BY <1>2 DEF Start, Ledger, TypeOK
    <2> QED BY <2>1, MovesOn
  <1>3. ASSUME NEW r \in Run, Crash(r) PROVE Ledger' /\ Grows
    <2>1. /\ pc' = [pc EXCEPT ![r] = "crashed"] /\ UNCHANGED <<tableVars, content, todo>>
          /\ mixed' \in BOOLEAN
      BY <1>3 DEF Crash, Advance, Ledger, TypeOK
    <2> QED BY <2>1, MovesOn
  <1>4. ASSUME NEW r \in Run, RunStep(r) PROVE Ledger' /\ Grows
    <2>1. mixed' = mixed /\ mixed' \in BOOLEAN /\ content[r] \in Content
      BY <1>4 DEF RunStep, Ledger, TypeOK
    <2>2. CASE ReadBatch(r)
      BY <2>1, <2>2, RegisteredLedger DEF ReadBatch, tableVars
    <2>3. CASE RefuseBatch(r)
      BY <2>1, <2>3, MovesOn DEF RefuseBatch
    <2>4. CASE MissBatch(r)
      BY <2>1, <2>4, MovesOn DEF MissBatch
    <2>5. CASE InsertBatch(r)
      <3>1. batch' \in Content
        BY <2>1, <2>5 DEF InsertBatch, Ledger, TypeOK
      <3> QED BY <2>1, <2>5, <3>1, RegisteredLedger DEF InsertBatch
    <2>6. CASE BeginIngestion(r)
      BY <2>1, <2>6, BeginIngestionLedger
    <2>7. CASE Finish(r)
      BY <2>1, <2>7, FinishLedger
    <2>8. ASSUME NEW e \in Event, RecordEvent(r, e) PROVE Ledger' /\ Grows
      BY <2>1, <2>8, RecordEventLedger
    <2>9. ASSUME NEW c \in Case, AuditFails(r, c) PROVE Ledger' /\ Grows
      BY <2>1, <2>9, MovesOn DEF AuditFails, Advance
    <2>10. ASSUME NEW c \in Case, RecordCase(r, c) PROVE Ledger' /\ Grows
      BY <2>1, <2>9, <2>10, RecordDecisionLedger, RecordContextLedger, RecordAuditLedger,
         RecordCandidatesLedger, RecordSnapshotLedger DEF RecordCase
    <2> QED BY <1>4, <2>2, <2>3, <2>4, <2>5, <2>6, <2>7, <2>8, <2>10 DEF RunStep
  <1> QED BY <1>1, <1>2, <1>3, <1>4 DEF Next, Terminated

----------------------------------------------------------------------------
(* Steps keep OneContent *)

\* What each step that writes rows adds is of the content of its run.
LEMMA WritesItsContent ==
    ASSUME LedgerInv, NEW r \in Run, NEW c \in Case, pc[r] \in CaseStep, NextItem(r, c),
           NEW f \in Content, f = content[r]
    PROVE  /\ c \in CasesOf(f) /\ Decided(r, c) = DecisionOf[f][c]
           /\ DecisionLinks[Decided(r, c)] \X {c} \subseteq LinksIn(f)
           /\ DecisionCandidates[Decided(r, c)] \X {c} \subseteq CandidatesIn(f)
           /\ NewAuditRow(r, c) \in AuditIn(f)
           /\ DecisionLinks[Decided(r, c)] = {} => c \in OpenIn(f)
  <1>1. c \in CasesOf(f) /\ Decided(r, c) = DecisionOf[f][c]
    BY DecidedFacts DEF LedgerInv, Decided
  <1>2. NewAuditRow(r, c) \in AuditIn(f)
    BY <1>1 DEF NewAuditRow, AuditIn, Sequence
  <1> QED BY <1>1, <1>2 DEF LinksIn, CandidatesIn, OpenIn

\* Rows of the content in hand leave the ledger with nothing else.
LEMMA OnlyStays ==
    ASSUME LedgerInv, NEW r \in Run, ~mixed, NEW f \in Content, f = content[r], Only(f),
           \/ \E c \in Case : RecordCase(r, c)
           \/ \E e \in Event : RecordEvent(r, e)
    PROVE  Only(f)'
  <1>1. ASSUME NEW e \in Event, RecordEvent(r, e) PROVE Only(f)'
    <2>1. e \in EventsOf[f]
      BY <1>1 DEF RecordEvent, NextItem, LedgerInv, Ledger, RunSound
    <2> QED BY <1>1, <2>1 DEF RecordEvent, Only, LinksIn, CandidatesIn, AuditIn, OpenIn
  <1>2. ASSUME NEW c \in Case, RecordCase(r, c) PROVE Only(f)'
    <2>1. pc[r] \in CaseStep /\ NextItem(r, c)
      BY <1>2 DEF RecordCase, RecordDecision, RecordContext, RecordAudit, AuditFails,
                  RecordCandidates, RecordSnapshot, CaseStep
    <2> DEFINE d == Decided(r, c)
    <2>2. /\ c \in CasesOf(f) /\ d = DecisionOf[f][c]
          /\ DecisionLinks[d] \X {c} \subseteq LinksIn(f)
          /\ DecisionCandidates[d] \X {c} \subseteq CandidatesIn(f)
          /\ NewAuditRow(r, c) \in AuditIn(f)
          /\ DecisionLinks[d] = {} => c \in OpenIn(f)
      BY <2>1, WritesItsContent
    <2> HIDE DEF d
    <2>3. \A x \in Case : /\ cases'[x] \in {cases[x]} \cup (IF x = c THEN {d} ELSE {})
                          /\ contexts'[x] \in {contexts[x]} \cup (IF x = c THEN {d} ELSE {})
                          /\ snapshots'[x] \in {snapshots[x]} \cup
                                (IF x = c /\ DecisionLinks[d] = {} THEN {d} ELSE {})
      BY <1>2 DEF RecordCase, RecordDecision, RecordContext, RecordAudit, AuditFails,
                  RecordCandidates, RecordSnapshot, InsertOnce, LedgerInv, Ledger, TypeOK, tableVars, d
    <2>4. /\ caseLinks' \subseteq caseLinks \cup (DecisionLinks[d] \X {c})
          /\ caseCandidates' \subseteq caseCandidates \cup (DecisionCandidates[d] \X {c})
          /\ audit' \subseteq audit \cup {NewAuditRow(r, c)} /\ events' = events
      BY <1>2 DEF RecordCase, RecordDecision, RecordContext, RecordAudit, AuditFails,
                  RecordCandidates, RecordSnapshot, tableVars, d
    <2>5. \A x \in Case : {cases'[x], contexts'[x], snapshots'[x]} \subseteq
             IF x \in CasesOf(f) THEN {NoDecision, DecisionOf[f][x]} ELSE {NoDecision}
      BY <2>2, <2>3 DEF Only
    <2>6. \A x \in Case : snapshots'[x] # NoDecision => x \in OpenIn(f)
      BY <2>2, <2>3 DEF Only
    <2>7. /\ caseLinks' \subseteq LinksIn(f) /\ caseCandidates' \subseteq CandidatesIn(f)
          /\ audit' \subseteq AuditIn(f) /\ events' \subseteq EventsOf[f]
      BY <2>2, <2>4 DEF Only
    <2> QED BY <2>5, <2>6, <2>7 DEF Only, LinksIn, CandidatesIn, AuditIn, OpenIn
  <1> QED BY <1>1, <1>2

LEMMA OnlyFrame ==
    ASSUME NEW f, Only(f),
           UNCHANGED <<cases, caseLinks, contexts, audit, caseCandidates, snapshots, events>>
    PROVE  Only(f)'
  BY DEF Only, LinksIn, CandidatesIn, AuditIn, OpenIn

LEMMA RowsStay ==
    ASSUME LedgerInv, ~mixed, UNCHANGED tableVars
    PROVE  RowsOfOne'
  <1>1. \A f : Only(f) => Only(f)'
    BY OnlyFrame DEF tableVars
  <1>2. PICK b : b = batch /\ b = batch'
    BY DEF tableVars
  <1> QED BY <1>1, <1>2 DEF LedgerInv, OneContent, RowsOfOne

\* A step of a run in flight over what it was over: it is enough to look at that
\* run and at the rows.
LEMMA RunOverItsContent ==
    ASSUME LedgerInv, NEW r \in Run, ~mixed, pc[r] \in Running, UNCHANGED <<content, batch>>,
           NEW s, pc' = [pc EXCEPT ![r] = s], WritesWhatIsRegistered(r)', RowsOfOne'
    PROVE  OneContent'
  <1>1. \A q \in Run \ {r} : pc'[q] = pc[q]
    BY DEF LedgerInv, Ledger, TypeOK
  <1>2. InFlightAlike'
    BY <1>1 DEF LedgerInv, OneContent, InFlightAlike
  <1>3. ASSUME NEW q \in Run PROVE WritesWhatIsRegistered(q)'
    <2>1. CASE q = r
      BY <2>1
    <2>2. CASE q # r
      BY <1>1, <2>2 DEF LedgerInv, OneContent, WritesWhatIsRegistered
    <2> QED BY <2>1, <2>2
  <1> QED BY <1>2, <1>3 DEF OneContent

\* No place in the trail is taken by another row.
LEMMA NoAuditFails ==
    ASSUME LedgerInv, ~mixed, NEW r \in Run, NEW c \in Case
    PROVE  ~AuditFails(r, c)
  <1> SUFFICES ASSUME AuditFails(r, c) PROVE FALSE
    OBVIOUS
  <1>1. pc[r] \in CaseStep /\ NextItem(r, c)
    BY DEF AuditFails, CaseStep
  <1>2. batch = content[r] /\ content[r] \in Content
    BY <1>1 DEF LedgerInv, OneContent, WritesWhatIsRegistered, Ledger, TypeOK
  <1>3. audit \subseteq AuditIn(content[r])
    BY <1>2, NoContentAssumption DEF LedgerInv, OneContent, RowsOfOne, Only
  <1>4. NewAuditRow(r, c) \in AuditIn(content[r]) /\ NewAuditRow(r, c).case = c
    BY <1>1, <1>2, WritesItsContent DEF NewAuditRow
  <1>5. ASSUME NEW a \in AuditIn(content[r]), NEW b \in AuditIn(content[r]), a.case = b.case
        PROVE  a = b
    <2> DEFINE rowOf(d) == [case |-> d, sequence |-> Cardinality({x \in CasesOf(content[r]) : x < d}),
                            decision |-> DecisionOf[content[r]][d]]
    <2>1. PICK d \in CasesOf(content[r]) : a = rowOf(d)
      BY DEF AuditIn
    <2>2. PICK e \in CasesOf(content[r]) : b = rowOf(e)
      BY DEF AuditIn
    <2>3. a.case = d /\ b.case = e
      BY <2>1, <2>2
    <2> QED BY <1>5, <2>1, <2>2, <2>3
  <1> QED BY <1>3, <1>4, <1>5 DEF AuditFails, AuditRefused

LEMMA StartKeepsContent ==
    ASSUME LedgerInv, NEW r \in Run, Start(r)
    PROVE  OneContent'
  <1> SUFFICES ASSUME ~mixed' PROVE OneContent'
    BY DEF OneContent
  <1>1. /\ ~mixed /\ \A q \in Run : pc[q] \in Running => content[q] = content[r]
        /\ pc' = [pc EXCEPT ![r] = "read"] /\ UNCHANGED <<tableVars, content>>
    BY DEF Start
  <1>2. pc'[r] = "read" /\ \A q \in Run \ {r} : pc'[q] = pc[q]
    BY <1>1 DEF LedgerInv, Ledger, TypeOK
  <1>3. InFlightAlike'
    BY <1>1, <1>2 DEF LedgerInv, OneContent, InFlightAlike
  <1>4. ASSUME NEW q \in Run PROVE WritesWhatIsRegistered(q)'
    BY <1>1, <1>2 DEF LedgerInv, OneContent, WritesWhatIsRegistered, CaseStep, tableVars
  <1>5. RowsOfOne'
    BY <1>1, RowsStay
  <1> QED BY <1>3, <1>4, <1>5 DEF OneContent

LEMMA InsertKeepsContent ==
    ASSUME LedgerInv, NEW r \in Run, InsertBatch(r), mixed' = mixed
    PROVE  OneContent'
  <1> SUFFICES ASSUME ~mixed PROVE OneContent'
    BY DEF OneContent
  <1>1. /\ pc[r] = "insert" /\ pc[r] \in Running /\ content[r] \in Content
        /\ pc' = [pc EXCEPT ![r] = "decision"] /\ content' = content
        /\ UNCHANGED <<cases, caseLinks, contexts, audit, caseCandidates, snapshots, events>>
    BY DEF InsertBatch, Registered, Running, LedgerInv, Ledger, TypeOK
  <1>2. batch' = content[r] /\ (batch # NoContent => batch = content[r])
    BY <1>1 DEF InsertBatch, LedgerInv, OneContent, WritesWhatIsRegistered
  <1>3. pc'[r] = "decision" /\ \A q \in Run \ {r} : pc'[q] = pc[q]
    BY <1>1 DEF LedgerInv, Ledger, TypeOK
  <1>4. InFlightAlike'
    BY <1>1, <1>3 DEF LedgerInv, OneContent, InFlightAlike
  <1>5. ASSUME NEW q \in Run PROVE WritesWhatIsRegistered(q)'
    <2>1. CASE q = r
      BY <1>1, <1>2, <1>3, <2>1 DEF WritesWhatIsRegistered
    <2>2. CASE q # r
      <3>1. pc[q] = "insert" => content[q] = content[r]
        BY <1>1 DEF LedgerInv, OneContent, InFlightAlike, Running
      <3>2. content[q] # NoContent
        BY NoContentAssumption DEF LedgerInv, Ledger, TypeOK
      <3> QED BY <1>1, <1>2, <1>3, <2>2, <3>1, <3>2
              DEF LedgerInv, OneContent, WritesWhatIsRegistered
    <2> QED BY <2>1, <2>2
  <1>6. PICK f \in Content : f = content[r]
    BY <1>1
  <1>7. Only(f)
    BY <1>2, <1>6 DEF LedgerInv, OneContent, RowsOfOne
  <1>8. Only(f)'
    BY <1>1, <1>7, OnlyFrame
  <1>9. RowsOfOne'
    BY <1>1, <1>2, <1>6, <1>8, NoContentAssumption DEF RowsOfOne
  <1> QED BY <1>4, <1>5, <1>9 DEF OneContent

LEMMA WriteKeepsContent ==
    ASSUME LedgerInv, NEW r \in Run, mixed' = mixed,
           \/ \E c \in Case : RecordCase(r, c)
           \/ \E e \in Event : RecordEvent(r, e)
    PROVE  OneContent'
  <1> SUFFICES ASSUME ~mixed PROVE OneContent'
    BY DEF OneContent
  <1>1. /\ pc[r] \in CaseStep \cup {"ingest"} /\ UNCHANGED <<content, batch>>
        /\ \E s \in CaseStep \cup {"ingest"} : pc' = [pc EXCEPT ![r] = s]
    <2>1. ASSUME NEW e \in Event, RecordEvent(r, e)
          PROVE  pc[r] = "ingest" /\ UNCHANGED <<content, batch>> /\ pc' = [pc EXCEPT ![r] = "ingest"]
      BY <2>1 DEF RecordEvent, LedgerInv, Ledger, TypeOK
    <2>2. ASSUME NEW c \in Case, RecordCase(r, c)
          PROVE  /\ pc[r] \in CaseStep /\ UNCHANGED <<content, batch>>
                 /\ \E s \in CaseStep : pc' = [pc EXCEPT ![r] = s]
      BY <2>2, NoAuditFails DEF RecordCase, RecordDecision, RecordContext, RecordAudit,
         RecordCandidates, RecordSnapshot, Advance, CaseStep
    <2> QED BY <2>1, <2>2
  <1>2. PICK s \in CaseStep \cup {"ingest"} : pc' = [pc EXCEPT ![r] = s]
    BY <1>1
  <1>3. PICK f \in Content : f = content[r]
    BY DEF LedgerInv, Ledger, TypeOK
  <1>4. batch = f /\ f # NoContent /\ Only(f)
    BY <1>1, <1>3, NoContentAssumption
    DEF LedgerInv, OneContent, WritesWhatIsRegistered, RowsOfOne
  <1>5. Only(f)'
    BY <1>3, <1>4, OnlyStays
  <1>6. RowsOfOne'
    BY <1>1, <1>4, <1>5 DEF RowsOfOne
  <1>7. pc'[r] = s /\ s \notin {"insert", "failed"}
    BY <1>2 DEF LedgerInv, Ledger, TypeOK, CaseStep
  <1>8. WritesWhatIsRegistered(r)'
    BY <1>1, <1>3, <1>4, <1>7 DEF WritesWhatIsRegistered
  <1> QED BY <1>1, <1>2, <1>6, <1>8, RunOverItsContent DEF Running

\* Steps of a run that write no row.
LEMMA QuietKeepsContent ==
    ASSUME LedgerInv, NEW r \in Run, mixed' = mixed,
           ReadBatch(r) \/ RefuseBatch(r) \/ MissBatch(r) \/ BeginIngestion(r) \/ Finish(r)
             \/ Crash(r)
    PROVE  OneContent'
  <1> SUFFICES ASSUME ~mixed PROVE OneContent'
    BY DEF OneContent
  <1>1. /\ pc[r] \in Running /\ UNCHANGED <<tableVars, content>>
        /\ \/ pc' = [pc EXCEPT ![r] = "decision"] /\ batch = content[r]
           \/ pc' = [pc EXCEPT ![r] = "insert"] /\ batch = NoContent
           \/ pc' = [pc EXCEPT ![r] = "refused"] \/ pc' = [pc EXCEPT ![r] = "crashed"]
           \/ pc' = [pc EXCEPT ![r] = "ingest"] /\ pc[r] = "decision"
           \/ pc' = [pc EXCEPT ![r] = "done"] /\ pc[r] = "ingest"
    <2>1. CASE ReadBatch(r)
      BY <2>1 DEF ReadBatch, Registered, Running
    <2>2. CASE RefuseBatch(r) \/ MissBatch(r)
      BY <2>2 DEF RefuseBatch, MissBatch, Running
    <2>3. CASE BeginIngestion(r)
      BY <2>3 DEF BeginIngestion, Running, CaseStep
    <2>4. CASE Finish(r) \/ Crash(r)
      BY <2>4 DEF Finish, Crash, Advance, Running
    <2> QED BY <2>1, <2>2, <2>3, <2>4
  <1>2. RowsOfOne' /\ batch' = batch
    BY <1>1, RowsStay DEF tableVars
  <1>3. \A s \in {"decision", "insert", "refused", "crashed", "ingest", "done"} :
          pc' = [pc EXCEPT ![r] = s] => pc'[r] = s
    BY DEF LedgerInv, Ledger, TypeOK
  <1>4. pc[r] \in {"decision", "ingest"} => batch = content[r]
    BY DEF LedgerInv, OneContent, WritesWhatIsRegistered, CaseStep
  <1>5. WritesWhatIsRegistered(r)'
    BY <1>1, <1>2, <1>3, <1>4 DEF WritesWhatIsRegistered, CaseStep
  <1> QED BY <1>1, <1>2, <1>5, RunOverItsContent

LEMMA OneContentStep ==
    ASSUME LedgerInv, [Next]_vars
    PROVE  OneContent'
  <1>1. CASE UNCHANGED vars
    <2>1. ~mixed => RowsOfOne'
      BY <1>1, RowsStay DEF vars
    <2> QED BY <1>1, <2>1 DEF LedgerInv, OneContent, InFlightAlike, WritesWhatIsRegistered,
                              vars, tableVars
  <1>2. ASSUME NEW r \in Run, RunStep(r) PROVE OneContent'
    BY <1>2, QuietKeepsContent, InsertKeepsContent, WriteKeepsContent DEF RunStep
  <1> QED BY <1>1, <1>2, StartKeepsContent, QuietKeepsContent DEF Next, Terminated, Crash

LEMMA InitLedger == Init => LedgerInv
  <1> SUFFICES ASSUME Init PROVE LedgerInv
    OBVIOUS
  <1>1. TypeOK /\ SnapshotComesLast
    BY DEF Init, Empty, TypeOK, SnapshotComesLast
  <1>2. \A r \in Run : RunSound(r) /\ WritesWhatIsRegistered(r)
    BY DEF Init, RunSound, WritesWhatIsRegistered, CaseStep
  <1>3. InFlightAlike /\ \A f \in Content : Only(f)
    BY DEF Init, Empty, InFlightAlike, Only, Running, CaseStep
  <1>4. RowsOfOne
    BY <1>3 DEF Init, RowsOfOne
  <1> QED BY <1>1, <1>2, <1>3, <1>4 DEF LedgerInv, Ledger, OneContent

----------------------------------------------------------------------------
(* Theorems *)

\* The inductive invariant holds.
THEOREM LedgerInvariant == Spec => []LedgerInv
  <1>1. LedgerInv /\ [Next]_vars => LedgerInv'
    BY LedgerStep, OneContentStep DEF LedgerInv
  <1> QED BY <1>1, InitLedger, PTL DEF Spec

\* Whatever runs overlap and wherever they are killed, a frozen snapshot stands on
\* the complete rows of its case, and every row is what it should be.
THEOREM LedgerStaysSound == Spec => []LedgerIsSound
  <1>1. LedgerInv => LedgerIsSound
    BY DEF LedgerInv, Ledger, LedgerIsSound
  <1> QED BY <1>1, LedgerInvariant, PTL

\* While runs in flight at once are over one content, every row of the batch is of
\* the content that was registered.
THEOREM BatchStaysOneContent == Spec => []BatchIsOneContent
  <1>1. LedgerInv => BatchIsOneContent
    BY DEF LedgerInv, OneContent, RowsOfOne, BatchIsOneContent
  <1> QED BY <1>1, LedgerInvariant, PTL

\* What a run has been through and nothing else but its content is all its content.
LEMMA DoneRunIsWhole ==
    ASSUME LedgerInv, ~mixed, NEW r \in Run, pc[r] = "done"
    PROVE  Whole(content[r])
  <1>1. PICK f \in Content : f = content[r]
    BY DEF LedgerInv, Ledger, TypeOK
  <1>2. batch = f /\ f # NoContent
    BY <1>1, NoContentAssumption DEF LedgerInv, OneContent, WritesWhatIsRegistered
  <1>3. Only(f)
    BY <1>2 DEF LedgerInv, OneContent, RowsOfOne
  <1>4. RunSound(r) /\ f = content[r]
    BY <1>1 DEF LedgerInv, Ledger
  <1>5. (\A c \in CasesOf(f) : CaseWritten(f, c)) /\ EventsOf[f] \subseteq events
    BY <1>4 DEF RunSound
  <1>6. CasesOf(f) \subseteq Case /\ OpenIn(f) \subseteq CasesOf(f)
    BY ContentFacts
  <1>7. \A c \in CasesOf(f) : cases[c] = DecisionOf[f][c] /\ contexts[c] = DecisionOf[f][c]
    BY <1>3, <1>5, <1>6 DEF CaseWritten, Only
  <1>8. \A c \in OpenIn(f) : snapshots[c] = DecisionOf[f][c]
    BY <1>3, <1>5, <1>6 DEF CaseWritten, Only
  <1>9. LinksIn(f) \subseteq caseLinks
    BY <1>5 DEF CaseWritten, LinksIn
  <1>10. CandidatesIn(f) \subseteq caseCandidates
    BY <1>5 DEF CaseWritten, CandidatesIn
  <1>11. AuditIn(f) \subseteq audit
    BY <1>5 DEF CaseWritten, AuditIn, Sequence
  <1> QED BY <1>1, <1>2, <1>5, <1>7, <1>8, <1>9, <1>10, <1>11 DEF Whole

\* A run that returns leaves its whole content, whatever was half-written before
\* it, and no run fails on a constraint.
THEOREM ReturnedIsWhole == Spec => []DoneIsWhole
  <1>1. LedgerInv => DoneIsWhole
    <2> SUFFICES ASSUME LedgerInv, ~mixed, NEW r \in Run
                 PROVE  pc[r] # "failed" /\ (pc[r] = "done" => Whole(content[r]))
      BY DEF DoneIsWhole
    <2> QED BY DoneRunIsWhole DEF LedgerInv, OneContent, WritesWhatIsRegistered
  <1> QED BY <1>1, LedgerInvariant, PTL

\* A batch that is complete is not touched by another run over it.
THEOREM CompleteBatchIsLeftAlone == Spec => RerunIsNoop
  <1>1. ASSUME LedgerInv, [Next]_vars, ~mixed, NEW f \in Content, Whole(f)
        PROVE  UNCHANGED tableVars
    <2>1. batch = f /\ f # NoContent
      BY <1>1, NoContentAssumption DEF Whole
    <2>2. ASSUME NEW r \in Run, InsertBatch(r) PROVE UNCHANGED tableVars
      BY <2>1, <2>2 DEF InsertBatch, tableVars
    <2>3. ASSUME NEW r \in Run, NEW e \in Event, RecordEvent(r, e) PROVE UNCHANGED tableVars
      <3>1. pc[r] = "ingest" /\ f = content[r]
        BY <1>1, <2>1, <2>3 DEF RecordEvent, LedgerInv, OneContent, WritesWhatIsRegistered
      <3>2. e \in EventsOf[f]
        BY <1>1, <2>3, <3>1 DEF RecordEvent, NextItem, LedgerInv, Ledger, RunSound
      <3> QED BY <1>1, <2>3, <3>2 DEF RecordEvent, tableVars, Whole
    <2>4. ASSUME NEW r \in Run, NEW c \in Case, RecordCase(r, c) PROVE UNCHANGED tableVars
      <3>1. pc[r] \in CaseStep /\ NextItem(r, c)
        BY <2>4 DEF RecordCase, RecordDecision, RecordContext, RecordAudit, AuditFails,
                    RecordCandidates, RecordSnapshot, CaseStep
      <3>2. f = content[r]
        BY <1>1, <2>1, <3>1 DEF LedgerInv, OneContent, WritesWhatIsRegistered
      <3> DEFINE d == Decided(r, c)
      <3>3. /\ c \in CasesOf(f) /\ d = DecisionOf[f][c]
            /\ DecisionLinks[d] \X {c} \subseteq LinksIn(f)
            /\ DecisionCandidates[d] \X {c} \subseteq CandidatesIn(f)
            /\ NewAuditRow(r, c) \in AuditIn(f)
            /\ DecisionLinks[d] = {} => c \in OpenIn(f)
        BY <1>1, <3>1, <3>2, WritesItsContent
      <3>4. d # NoDecision
        BY <1>1, <3>1, DecidedFacts DEF LedgerInv
      <3> HIDE DEF d
      <3>5. /\ cases[c] = d /\ contexts[c] = d /\ (DecisionLinks[d] = {} => snapshots[c] = d)
            /\ DecisionLinks[d] \X {c} \subseteq caseLinks
            /\ DecisionCandidates[d] \X {c} \subseteq caseCandidates
            /\ NewAuditRow(r, c) \in audit
        BY <1>1, <3>3 DEF Whole
      <3> QED BY <2>4, <3>4, <3>5 DEF RecordCase, RecordDecision, RecordContext, RecordAudit,
                 AuditFails, RecordCandidates, RecordSnapshot, InsertOnce, tableVars, d
    <2>5. ASSUME NEW r \in Run, RunStep(r) PROVE UNCHANGED tableVars
      BY <2>2, <2>3, <2>4, <2>5 DEF RunStep, ReadBatch, RefuseBatch, MissBatch, BeginIngestion,
         Finish
    <2> QED BY <1>1, <2>5 DEF Next, Start, Crash, Terminated, vars
  <1>2. LedgerInv /\ [Next]_vars =>
          [~mixed => \A f \in Content : Whole(f) => UNCHANGED tableVars]_vars
    BY <1>1
  <1> QED BY <1>2, LedgerInvariant, PTL DEF Spec, RerunIsNoop
=============================================================================

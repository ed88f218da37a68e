---------------------- MODULE InvestigationLoopProofs ----------------------
(***************************************************************************)
(* What holds of an investigation for any evidence, any policy that only   *)
(* seeds on evidence, any batches a model may ask for, any budgets and any *)
(* chain of providers: the loop and the policy agree on what is resolved   *)
(* and a resolution stands on a clean record, providers are left only by   *)
(* the rule, a batch of calls is executed whole or not at all, and every   *)
(* step of the loop is a step of an Inquiry or none.                       *)
(*                                                                         *)
(* The argument is what the record looks like while the loop runs: every   *)
(* step was answered, asked for calls and had all of them executed, and    *)
(* what they found does not resolve the case.  Whatever ends the loop adds *)
(* one step to such a record.                                              *)
(***************************************************************************)
EXTENDS InvestigationLoop, FiniteSums, SequenceTheorems

----------------------------------------------------------------------------
(* The inductive invariant *)

\* Where the chain stands when a call is out.
ChainSound ==
    /\ call \in {"trying", "answered", "exhausted", "raised"} =>
          termination = "running" /\ Len(steps) < MaxSteps
    /\ call \in {"answered", "exhausted", "stopped"} => attempts # <<>>

\* Every step was answered, asked for calls and had all its calls executed.
RecordIsClean ==
    /\ \A n \in 1 .. Len(steps) : steps[n].answered /\ steps[n].calls # <<>>
    /\ \A i \in DOMAIN invocations : invocations[i].status = "succeeded"
    /\ Executed = 1 .. Len(steps)

RecordSound ==
    /\ \A i \in DOMAIN invocations : invocations[i].step <= Len(steps)
    /\ termination = "running" =>
          RecordIsClean /\ EvidenceIn(invocations) \notin Resolving /\ Len(steps) < MaxSteps
    /\ termination = "investigation_complete" => EvidenceIn(invocations) \notin Resolving
    /\ termination = "deterministic_policy_resolved" =>
          /\ RecordIsClean /\ EvidenceIn(invocations) \in Resolving
          /\ EvidenceBefore(Len(steps)) \notin Resolving

LoopInv == TypeOK /\ ChainSound /\ RecordSound

----------------------------------------------------------------------------
(* Lemmas *)

LEMMA ConcatIs ==
    ASSUME NEW S, NEW s \in Seq(S), NEW t \in Seq(S)
    PROVE  /\ s \o t \in Seq(S)
           /\ \A i \in DOMAIN s : i \in DOMAIN (s \o t) /\ (s \o t)[i] = s[i]
           /\ \A j \in DOMAIN t : Len(s) + j \in DOMAIN (s \o t) /\ (s \o t)[Len(s) + j] = t[j]
           /\ \A i \in DOMAIN (s \o t) :
                 i \in DOMAIN s \/ \E j \in DOMAIN t : i = Len(s) + j
  <1>1. /\ s \o t \in Seq(S) /\ Len(s \o t) = Len(s) + Len(t)
        /\ \A i \in 1 .. Len(s) + Len(t) :
              (s \o t)[i] = IF i <= Len(s) THEN s[i] ELSE t[i - Len(s)]
    BY ConcatProperties
  <1>2. Len(s) \in Nat /\ Len(t) \in Nat /\ DOMAIN s = 1 .. Len(s) /\ DOMAIN t = 1 .. Len(t)
        /\ DOMAIN (s \o t) = 1 .. Len(s \o t)
    BY <1>1, LenProperties
  <1>3. ASSUME NEW i \in DOMAIN (s \o t), i \notin DOMAIN s
        PROVE  \E j \in DOMAIN t : i = Len(s) + j
    <2>1. i - Len(s) \in DOMAIN t /\ i = Len(s) + (i - Len(s))
      BY <1>1, <1>2, <1>3
    <2> QED BY <2>1
  <1> QED BY <1>1, <1>2, <1>3

\* The records of a batch are records.
LEMMA InvocationsAre ==
    ASSUME TypeOK, NEW turn \in Turn, Len(steps) < MaxSteps,
           NEW status \in [1 .. Len(turn) -> InvocationStatus]
    PROVE  /\ Invocations(turn, status) \in Seq(Invocation)
           /\ DOMAIN Invocations(turn, status) = 1 .. Len(turn)
           /\ turn \in Seq(Evidence \cup {Bad}) /\ Len(turn) \in Nat
           /\ \A i \in 1 .. Len(turn) :
                 Invocations(turn, status)[i] =
                   [step |-> Len(steps) + 1, index |-> i, call |-> turn[i], status |-> status[i]]
  <1>1. turn \in Seq(Evidence \cup {Bad}) /\ Len(turn) \in Nat
        /\ \A i \in 1 .. Len(turn) : turn[i] \in Evidence \cup {Bad}
    BY TurnAssumption, LenProperties, ElementOfSeq
  <1>2. Len(steps) + 1 \in 1 .. MaxSteps
    BY BudgetAssumption, LenProperties DEF TypeOK
  <1>3. \A i \in 1 .. Len(turn) :
           [step |-> Len(steps) + 1, index |-> i, call |-> turn[i], status |-> status[i]]
             \in Invocation
    BY <1>1, <1>2 DEF Invocation
  <1>4. Invocations(turn, status) \in [1 .. Len(turn) -> Invocation]
    BY <1>3 DEF Invocations
  <1>5. Invocations(turn, status) \in Seq(Invocation)
    BY <1>1, <1>4
  <1> QED BY <1>1, <1>4, <1>5 DEF Invocations

\* What is recorded is of a step that was made.
LEMMA RecordIs ==
    ASSUME TypeOK, RecordSound
    PROVE  \A i \in DOMAIN invocations :
              /\ invocations[i] \in Invocation
              /\ invocations[i].step <= Len(steps) /\ invocations[i].step \in Nat
  <1>1. DOMAIN invocations = 1 .. Len(invocations) /\ invocations \in Seq(Invocation)
    BY LenProperties DEF TypeOK
  <1>2. \A i \in DOMAIN invocations : invocations[i] \in Invocation
    BY <1>1, ElementOfSeq
  <1>3. \A x \in Invocation : x.step \in Nat
    BY DEF Invocation
  <1> QED BY <1>2, <1>3 DEF RecordSound

\* What a turn that is taken adds to the record.
LEMMA TurnTaken ==
    ASSUME TypeOK, RecordSound, NEW turn \in Turn, Len(steps) < MaxSteps,
           NEW status \in [1 .. Len(turn) -> InvocationStatus],
           TakeTurn(turn, Invocations(turn, status))
    PROVE  /\ steps' \in Seq(Step) /\ Len(steps') = Len(steps) + 1 /\ Len(steps') <= MaxSteps
           /\ \A n \in 1 .. Len(steps) : steps'[n] = steps[n]
           /\ steps'[Len(steps) + 1] = TurnStep(turn)
           /\ invocations' \in Seq(Invocation)
           /\ \A i \in DOMAIN invocations' : invocations'[i].step <= Len(steps')
           /\ (\A i \in DOMAIN invocations : invocations[i].status = "succeeded")
                 /\ (\A j \in 1 .. Len(turn) : status[j] = "succeeded")
                 => \A i \in DOMAIN invocations' : invocations'[i].status = "succeeded"
           /\ EvidenceIn(invocations') = EvidenceIn(invocations)
                 \cup {turn[j] : j \in {k \in 1 .. Len(turn) : status[k] = "succeeded"}}
           /\ {invocations'[i].call : i \in {j \in DOMAIN invocations' :
                 invocations'[j].step < Len(steps') /\ invocations'[j].status = "succeeded"}}
                 = EvidenceIn(invocations)
           /\ Executed' = Executed \cup
                 (IF \E j \in 1 .. Len(turn) : status[j] = "succeeded" THEN {Len(steps) + 1} ELSE {})
  <1> DEFINE recs == Invocations(turn, status)
  <1>1. /\ recs \in Seq(Invocation) /\ DOMAIN recs = 1 .. Len(turn)
        /\ turn \in Seq(Evidence \cup {Bad}) /\ Len(turn) \in Nat
        /\ \A i \in 1 .. Len(turn) : /\ recs[i].step = Len(steps) + 1
                                    /\ recs[i].call = turn[i] /\ recs[i].status = status[i]
    <2>1. /\ recs \in Seq(Invocation) /\ DOMAIN recs = 1 .. Len(turn)
          /\ turn \in Seq(Evidence \cup {Bad}) /\ Len(turn) \in Nat
          /\ \A i \in 1 .. Len(turn) : recs[i] =
                [step |-> Len(steps) + 1, index |-> i, call |-> turn[i], status |-> status[i]]
      BY InvocationsAre
    <2> HIDE DEF recs
    <2> QED BY <2>1
  <1>2. steps' = Append(steps, TurnStep(turn)) /\ invocations' = invocations \o recs
    BY DEF TakeTurn
  <1> HIDE DEF recs
  <1>3. Len(steps) \in Nat /\ invocations \in Seq(Invocation)
    BY LenProperties DEF TypeOK
  <1>4. TurnStep(turn) \in Step
    BY <1>1 DEF TypeOK, ChainTypeOK, TurnStep, Step
  <1>5. /\ steps' \in Seq(Step) /\ Len(steps') = Len(steps) + 1 /\ Len(steps') <= MaxSteps
        /\ \A n \in 1 .. Len(steps) : steps'[n] = steps[n]
        /\ steps'[Len(steps) + 1] = TurnStep(turn)
    BY <1>2, <1>3, <1>4, AppendProperties, BudgetAssumption DEF TypeOK
  <1>6. /\ invocations' \in Seq(Invocation)
        /\ \A i \in DOMAIN invocations : i \in DOMAIN invocations' /\ invocations'[i] = invocations[i]
        /\ \A j \in 1 .. Len(turn) : /\ Len(invocations) + j \in DOMAIN invocations'
                                    /\ invocations'[Len(invocations) + j] = recs[j]
        /\ \A i \in DOMAIN invocations' :
              i \in DOMAIN invocations \/ \E j \in 1 .. Len(turn) : i = Len(invocations) + j
    BY <1>1, <1>2, <1>3, ConcatIs
  <1>7. \A i \in DOMAIN invocations : invocations[i] \in Invocation /\ invocations[i].step <= Len(steps)
                                     /\ invocations[i].step \in Nat
    BY RecordIs
  <1>8. ASSUME NEW i \in DOMAIN invocations' PROVE invocations'[i].step <= Len(steps')
    <2>1. CASE i \in DOMAIN invocations
      BY <1>3, <1>5, <1>6, <1>7, <2>1
    <2>2. CASE \E j \in 1 .. Len(turn) : i = Len(invocations) + j
      BY <1>1, <1>3, <1>5, <1>6, <2>2
    <2> QED BY <1>6, <2>1, <2>2
  <1>9. (\A i \in DOMAIN invocations : invocations[i].status = "succeeded")
          /\ (\A j \in 1 .. Len(turn) : status[j] = "succeeded")
          => \A i \in DOMAIN invocations' : invocations'[i].status = "succeeded"
    BY <1>1, <1>6
  <1>10. EvidenceIn(invocations') = EvidenceIn(invocations)
           \cup {turn[j] : j \in {k \in 1 .. Len(turn) : status[k] = "succeeded"}}
    <2>1. ASSUME NEW e \in EvidenceIn(invocations') 
          PROVE  e \in EvidenceIn(invocations)
                   \cup {turn[j] : j \in {k \in 1 .. Len(turn) : status[k] = "succeeded"}}
      <3>1. PICK i \in DOMAIN invocations' : invocations'[i].status = "succeeded" /\ e = invocations'[i].call
        BY DEF EvidenceIn
      <3>2. CASE i \in DOMAIN invocations
        BY <1>6, <3>1, <3>2 DEF EvidenceIn
      <3>3. CASE \E j \in 1 .. Len(turn) : i = Len(invocations) + j
        BY <1>1, <1>6, <3>1, <3>3
      <3> QED BY <1>6, <3>2, <3>3
    <2>2. ASSUME NEW e \in EvidenceIn(invocations) PROVE e \in EvidenceIn(invocations')
      BY <1>6 DEF EvidenceIn
    <2>3. ASSUME NEW j \in 1 .. Len(turn), status[j] = "succeeded"
          PROVE  turn[j] \in EvidenceIn(invocations')
      <3>1. /\ Len(invocations) + j \in DOMAIN invocations'
            /\ invocations'[Len(invocations) + j].call = turn[j]
            /\ invocations'[Len(invocations) + j].status = "succeeded"
        BY <1>1, <1>6, <2>3
      <3> QED BY <3>1 DEF EvidenceIn
    <2> QED BY <2>1, <2>2, <2>3
  <1>11. {invocations'[i].call : i \in {j \in DOMAIN invocations' :
            invocations'[j].step < Len(steps') /\ invocations'[j].status = "succeeded"}}
            = EvidenceIn(invocations)
    <2>1. \A i \in DOMAIN invocations : invocations[i].step < Len(steps')
      BY <1>3, <1>5, <1>7
    <2>2. \A j \in 1 .. Len(turn) : ~(recs[j].step < Len(steps'))
      BY <1>1, <1>3, <1>5
    <2>3. \A i \in DOMAIN invocations' :
             /\ invocations'[i].step < Len(steps') => i \in DOMAIN invocations
             /\ i \in DOMAIN invocations => invocations'[i].step < Len(steps')
      BY <1>6, <2>1, <2>2
    <2>4. {j \in DOMAIN invocations' :
             invocations'[j].step < Len(steps') /\ invocations'[j].status = "succeeded"}
           = {j \in DOMAIN invocations : invocations[j].status = "succeeded"}
      BY <1>6, <2>3
    <2>5. \A i \in DOMAIN invocations : invocations'[i].call = invocations[i].call
      BY <1>6
    <2> QED BY <2>4, <2>5 DEF EvidenceIn
  <1>12. Executed' = Executed \cup
           (IF \E j \in 1 .. Len(turn) : status[j] = "succeeded" THEN {Len(steps) + 1} ELSE {})
    <2>1. ASSUME NEW n \in Executed PROVE n \in Executed'
      <3>1. PICK i \in DOMAIN invocations : invocations[i].step = n /\ invocations[i].status = "succeeded"
        BY DEF Executed
      <3>2. n \in 1 .. Len(steps')
        BY <1>3, <1>5 DEF Executed
      <3> QED BY <1>6, <3>1, <3>2 DEF Executed
    <2>2. ASSUME NEW j \in 1 .. Len(turn), status[j] = "succeeded" PROVE Len(steps) + 1 \in Executed'
      <3>1. Len(steps) + 1 \in 1 .. Len(steps')
        BY <1>3, <1>5
      <3> QED BY <1>1, <1>6, <2>2, <3>1 DEF Executed
    <2>3. ASSUME NEW n \in Executed'
          PROVE  n \in Executed \/ (n = Len(steps) + 1 /\ \E j \in 1 .. Len(turn) : status[j] = "succeeded")
      <3>1. PICK i \in DOMAIN invocations' : invocations'[i].step = n /\ invocations'[i].status = "succeeded"
        BY DEF Executed
      <3>2. n \in 1 .. Len(steps')
        BY DEF Executed
      <3>3. CASE i \in DOMAIN invocations
        <4>1. n \in 1 .. Len(steps)
          BY <1>3, <1>6, <1>7, <3>1, <3>2, <3>3
        <4> QED BY <1>6, <3>1, <3>3, <4>1 DEF Executed
      <3>4. CASE \E j \in 1 .. Len(turn) : i = Len(invocations) + j
        BY <1>1, <1>6, <3>1, <3>4
      <3> QED BY <1>6, <3>3, <3>4
    <2> QED BY <2>1, <2>2, <2>3
  <1> QED BY <1>5, <1>6, <1>8, <1>9, <1>10, <1>11, <1>12

\* A step that was not answered adds nothing but itself.
LEMMA NothingTaken ==
    ASSUME TypeOK, RecordSound, invocations' = invocations,
           steps' = steps \/ steps' = Append(steps, FailedStep)
    PROVE  /\ EvidenceIn(invocations') = EvidenceIn(invocations)
           /\ Executed' = Executed
  <1>1. Len(steps) \in Nat /\ Len(steps) <= Len(steps') /\ Len(steps') \in Nat
    <2>1. Len(Append(steps, FailedStep)) = Len(steps) + 1
      BY DEF TypeOK
    <2> QED BY <2>1, LenProperties DEF TypeOK
  <1>2. \A i \in DOMAIN invocations : invocations[i].step <= Len(steps) /\ invocations[i].step \in Nat
    BY RecordIs
  <1> QED BY <1>1, <1>2 DEF EvidenceIn, Executed

----------------------------------------------------------------------------
(* Steps keep the invariant *)

LEMMA ChainTypes ==
    ASSUME ChainTypeOK, Ask \/ ChainStep
    PROVE  ChainTypeOK'
  <1>1. CASE Ask
    <2>1. <<>> \in Seq(Attempt)
      OBVIOUS
    <2>2. 1 \in 1 .. Providers /\ 1 \in 1 .. Retries + 1
      BY ProvidersAssumption, RetriesAssumption
    <2> QED BY <1>1, <2>1, <2>2 DEF Ask, ChainTypeOK
  <1>2. ASSUME NEW r \in Response, call = "trying", Record(r)
        PROVE  attempts' \in Seq(Attempt)
    <2>1. [provider |-> hop, attempt |-> try, met |-> r] \in Attempt
      BY DEF ChainTypeOK, Attempt
    <2> QED BY <1>2, <2>1, AppendProperties DEF Record, ChainTypeOK
  <1>3. ASSUME NEW r \in Response, Answer(r) PROVE ChainTypeOK'
    BY <1>2, <1>3 DEF Answer, ChainTypeOK
  <1>4. ASSUME NEW r \in Response, RetrySameProvider(r) PROVE ChainTypeOK'
    <2>1. try + 1 \in 1 .. Retries + 1
      BY <1>4, RetriesAssumption DEF RetrySameProvider, RetriesAgain, ChainTypeOK
    <2> QED BY <1>2, <1>4, <2>1 DEF RetrySameProvider, ChainTypeOK
  <1>5. ASSUME NEW r \in Response, FallBack(r) PROVE ChainTypeOK'
    <2>1. hop + 1 \in 1 .. Providers /\ 1 \in 1 .. Retries + 1
      BY <1>5, ProvidersAssumption, RetriesAssumption DEF FallBack, ChainTypeOK
    <2> QED BY <1>2, <1>5, <2>1 DEF FallBack, ChainTypeOK
  <1>6. ASSUME NEW r \in Response, AllProvidersFailed(r) PROVE ChainTypeOK'
    BY <1>2, <1>6 DEF AllProvidersFailed, ChainTypeOK
  <1>7. ASSUME NEW r \in Response, StopDead(r) PROVE ChainTypeOK'
    BY <1>2, <1>7 DEF StopDead, ChainTypeOK
  <1>8. ASSUME NEW r \in Response, PassThrough(r) PROVE ChainTypeOK'
    BY <1>8 DEF PassThrough, ChainTypeOK
  <1> QED BY <1>1, <1>3, <1>4, <1>5, <1>6, <1>7, <1>8 DEF ChainStep

LEMMA RecordStays ==
    ASSUME RecordSound, UNCHANGED <<steps, invocations, termination>>
    PROVE  RecordSound'
  BY DEF RecordSound, RecordIsClean, Executed, EvidenceIn, EvidenceBefore

LEMMA InitLoop == Init => LoopInv
  <1> SUFFICES ASSUME Init PROVE LoopInv
    OBVIOUS
  <1>1. 1 \in 1 .. Providers /\ 1 \in 1 .. Retries + 1
    BY ProvidersAssumption, RetriesAssumption
  <1>2. TypeOK
    BY <1>1, BudgetAssumption DEF Init, ChainInit, TypeOK, ChainTypeOK
  <1>3. ChainSound
    BY DEF Init, ChainInit, ChainSound
  <1>4. EvidenceIn(invocations) = {} /\ Executed = 1 .. Len(steps)
    BY DEF Init, EvidenceIn, Executed
  <1>5. RecordSound
    <2>1. /\ DOMAIN invocations = {} /\ Len(steps) = 0 /\ termination = "running"
          /\ {} \notin Resolving /\ 0 < MaxSteps
      BY ResolvingAssumption, BudgetAssumption DEF Init
    <2>2. RecordIsClean
      BY <1>4, <2>1 DEF RecordIsClean
    <2> QED BY <1>4, <2>1, <2>2 DEF RecordSound
  <1> QED BY <1>2, <1>3, <1>5 DEF LoopInv

LEMMA AskInv ==
    ASSUME LoopInv, AskForTurn \/ Attempted
    PROVE  LoopInv'
  <1>1. ChainTypeOK' /\ UNCHANGED <<steps, invocations, termination>> /\ made' \in Nat
    BY ChainTypes DEF LoopInv, TypeOK, AskForTurn, Attempted, loopVars
  <1>2. RecordSound'
    BY <1>1, RecordStays DEF LoopInv
  <1>3. TypeOK'
    BY <1>1 DEF LoopInv, TypeOK
  <1>4. CASE AskForTurn
    BY <1>1, <1>2, <1>3, <1>4 DEF LoopInv, ChainSound, AskForTurn, Ask
  <1>5. CASE Attempted
    <2>1. \A x : Append(attempts, x) # <<>>
      BY DEF LoopInv, TypeOK, ChainTypeOK
    <2>2. call = "trying" /\ (call' \in {"answered", "exhausted", "stopped"} => attempts' # <<>>)
      BY <1>5, <2>1 DEF Attempted, ChainStep, Answer, RetrySameProvider, FallBack,
                        AllProvidersFailed, StopDead, PassThrough, Record
    <2> QED BY <1>1, <1>2, <1>3, <2>2 DEF LoopInv, ChainSound
  <1> QED BY <1>4, <1>5

LEMMA ProvidersFailedInv ==
    ASSUME LoopInv, ProvidersFailed
    PROVE  LoopInv'
  <1>1. /\ Len(steps) < MaxSteps /\ attempts # <<>> /\ Len(steps) \in Nat
        /\ attempts \in Seq(Attempt) /\ steps \in Seq(Step)
    BY LenProperties DEF LoopInv, TypeOK, ChainTypeOK, ChainSound, ProvidersFailed
  <1>2. attempts[1] \in Attempt
    BY <1>1
  <1>3. FailedStep \in Step
    <2>1. <<>> \in Seq(Evidence \cup {Bad})
      OBVIOUS
    <2> QED BY <1>1, <1>2, <2>1 DEF FailedStep, Step, Attempt
  <1>4. steps' \in Seq(Step) /\ Len(steps') = Len(steps) + 1 /\ Len(steps') <= MaxSteps
    BY <1>1, <1>3, AppendProperties, BudgetAssumption DEF ProvidersFailed
  <1>5. TypeOK'
    BY <1>4 DEF ProvidersFailed, LoopInv, TypeOK, ChainTypeOK, Termination
  <1>6. ChainSound'
    BY DEF ProvidersFailed, ChainSound
  <1>7. RecordSound'
    <2>1. \A i \in DOMAIN invocations : invocations[i].step \in Nat /\ invocations[i].step <= Len(steps)
      BY RecordIs DEF LoopInv
    <2> QED BY <1>1, <1>4, <2>1 DEF ProvidersFailed, RecordSound
  <1> QED BY <1>5, <1>6, <1>7 DEF LoopInv

LEMMA ProviderStoppedInv ==
    ASSUME LoopInv, ProviderStopped
    PROVE  LoopInv'
  <1>1. termination' \in {"provider_configuration_failure", "tool_validation_failed"}
    BY DEF ProviderStopped
  <1>2. TypeOK'
    BY <1>1 DEF ProviderStopped, LoopInv, TypeOK, ChainTypeOK, chainVars, Termination
  <1>3. ChainSound' /\ RecordSound'
    BY <1>1 DEF ProviderStopped, LoopInv, ChainSound, RecordSound, chainVars
  <1> QED BY <1>2, <1>3 DEF LoopInv

\* A turn that ends the loop without a resolution, and a turn that does not.
LEMMA TurnInv ==
    ASSUME LoopInv, NEW turn \in Turn, NEW status \in [1 .. Len(turn) -> InvocationStatus],
           TakeTurn(turn, Invocations(turn, status)), termination' \in Termination \cup {"running"}
    PROVE  /\ TypeOK' /\ ChainSound' /\ Len(steps) < MaxSteps /\ TypeOK /\ RecordSound
           /\ \A i \in DOMAIN invocations' : invocations'[i].step <= Len(steps')
           /\ termination' \notin {"running", "investigation_complete",
                                   "deterministic_policy_resolved"} => LoopInv'
  <1>1. Len(steps) < MaxSteps /\ TypeOK /\ RecordSound
    BY DEF LoopInv, ChainSound, TakeTurn
  <1>2. /\ steps' \in Seq(Step) /\ Len(steps') <= MaxSteps /\ invocations' \in Seq(Invocation)
        /\ \A i \in DOMAIN invocations' : invocations'[i].step <= Len(steps')
    BY <1>1, TurnTaken
  <1>3. TypeOK'
    BY <1>1, <1>2 DEF TakeTurn, TypeOK, ChainTypeOK
  <1>4. ChainSound'
    BY DEF TakeTurn, ChainSound
  <1>5. termination' \notin {"running", "investigation_complete",
                             "deterministic_policy_resolved"} => RecordSound'
    BY <1>2 DEF RecordSound
  <1> QED BY <1>1, <1>2, <1>3, <1>4, <1>5 DEF LoopInv

\* What a batch that is refused leaves is records of which none succeeded.
LEMMA RefusedStatus ==
    ASSUME NEW turn
    PROVE  /\ [i \in 1 .. Len(turn) |-> IF i = MaxToolCalls + 1 THEN "validation_failed"
                                        ELSE "skipped_due_to_batch_rejection"]
                 \in [1 .. Len(turn) -> InvocationStatus]
           /\ [i \in 1 .. Len(turn) |-> IF Refused(turn[i]) THEN "validation_failed"
                                        ELSE "skipped_due_to_batch_rejection"]
                 \in [1 .. Len(turn) -> InvocationStatus]
           /\ [i \in 1 .. Len(turn) |-> "succeeded"] \in [1 .. Len(turn) -> InvocationStatus]
  BY DEF InvocationStatus

LEMMA RefusalInv ==
    ASSUME LoopInv, NEW turn \in Turn, RefuseTooMany(turn) \/ RejectBatch(turn)
    PROVE  LoopInv'
  <1>1. termination' = "tool_validation_failed" /\ termination' \in Termination \cup {"running"}
    BY DEF RefuseTooMany, RejectBatch, Termination
  <1>2. PICK status \in [1 .. Len(turn) -> InvocationStatus] :
          TakeTurn(turn, Invocations(turn, status))
    BY RefusedStatus DEF RefuseTooMany, RejectBatch, TooManyRecords, RejectedRecords
  <1> QED BY <1>1, <1>2, TurnInv

LEMMA CompleteInv ==
    ASSUME LoopInv, Complete
    PROVE  LoopInv' /\ EvidenceIn(invocations') = EvidenceIn(invocations) /\ Executed' = Executed
  <1> DEFINE status == [i \in 1 .. 0 |-> "succeeded"]
  <1>1. <<>> \in Turn /\ Len(<<>>) = 0 /\ 1 .. Len(<<>>) = {}
    BY DEF Complete
  <1>2. status \in [1 .. Len(<<>>) -> InvocationStatus] /\ DOMAIN status = {}
    BY <1>1 DEF InvocationStatus
  <1>3. Invocations(<<>>, status) = <<>>
    BY <1>1 DEF Invocations
  <1>4. TakeTurn(<<>>, Invocations(<<>>, status)) /\ termination' = "investigation_complete"
    BY <1>3 DEF Complete
  <1> HIDE DEF status
  <1>5. /\ TypeOK' /\ ChainSound' /\ Len(steps) < MaxSteps /\ TypeOK /\ RecordSound
        /\ \A i \in DOMAIN invocations' : invocations'[i].step <= Len(steps')
    BY <1>1, <1>2, <1>4, TurnInv DEF Termination
  <1>6. /\ EvidenceIn(invocations') = EvidenceIn(invocations)
              \cup {<<>>[j] : j \in {k \in 1 .. Len(<<>>) : status[k] = "succeeded"}}
        /\ Executed' = Executed \cup (IF \E j \in 1 .. Len(<<>>) : status[j] = "succeeded"
                                     THEN {Len(steps) + 1} ELSE {})
    BY <1>1, <1>2, <1>4, <1>5, TurnTaken
  <1>7. EvidenceIn(invocations') = EvidenceIn(invocations) /\ Executed' = Executed
    BY <1>1, <1>6
  <1>8. EvidenceIn(invocations) \notin Resolving
    BY DEF Complete, TakeTurn, LoopInv, RecordSound
  <1>9. RecordSound'
    BY <1>4, <1>5, <1>7, <1>8 DEF RecordSound
  <1> QED BY <1>5, <1>7, <1>9 DEF LoopInv

\* A batch that is executed: what it adds to a clean record.
LEMMA BatchExecuted ==
    ASSUME LoopInv, NEW turn \in Turn, ExecuteBatch(turn)
    PROVE  /\ TypeOK' /\ ChainSound' /\ RecordIsClean'
           /\ Len(steps) \in Nat /\ Len(steps') = Len(steps) + 1 /\ Len(steps') <= MaxSteps
           /\ \A i \in DOMAIN invocations' : invocations'[i].step <= Len(steps')
           /\ EvidenceIn(invocations') = EvidenceIn(invocations) \cup {turn[j] : j \in 1 .. Len(turn)}
           /\ {turn[j] : j \in 1 .. Len(turn)} \in (SUBSET Evidence) \ {{}}
           /\ EvidenceBefore(Len(steps))' = EvidenceIn(invocations)
           /\ EvidenceIn(invocations) \notin Resolving
           /\ termination = "running" /\ call # "raised" /\ call' # "raised" /\ RecordIsClean
           /\ termination' = IF EvidenceIn(invocations') \in Resolving THEN "deterministic_policy_resolved"
                             ELSE IF Len(steps') = MaxSteps THEN "step_budget_exhausted" ELSE "running"
  <1> DEFINE status == [i \in 1 .. Len(turn) |-> "succeeded"]
  <1>1. /\ status \in [1 .. Len(turn) -> InvocationStatus]
        /\ \A j \in 1 .. Len(turn) : status[j] = "succeeded"
        /\ TakeTurn(turn, Invocations(turn, status))
    BY RefusedStatus DEF ExecuteBatch
  <1>2. Len(turn) \in 1 .. MaxToolCalls /\ ~HasBadCall(turn) /\ 1 \in 1 .. Len(turn)
    BY BudgetAssumption DEF ExecuteBatch
  <1> HIDE DEF status
  <1>3. termination = "running" /\ call # "raised" /\ call' # "raised"
    BY DEF ExecuteBatch, TakeTurn
  <1>4. termination' = AfterBatch(invocations', Len(steps'))
    BY DEF ExecuteBatch
  <1>5. termination' \in Termination \cup {"running"}
    BY <1>4 DEF AfterBatch, Termination
  <1>6. /\ TypeOK' /\ ChainSound' /\ Len(steps) < MaxSteps /\ TypeOK /\ RecordSound
        /\ \A i \in DOMAIN invocations' : invocations'[i].step <= Len(steps')
    BY <1>1, <1>5, TurnInv
  <1>7. RecordIsClean /\ EvidenceIn(invocations) \notin Resolving
    BY <1>3, <1>6 DEF RecordSound
  <1>8. /\ Len(steps') = Len(steps) + 1 /\ Len(steps') <= MaxSteps
        /\ \A n \in 1 .. Len(steps) : steps'[n] = steps[n]
        /\ steps'[Len(steps) + 1] = TurnStep(turn)
        /\ (\A i \in DOMAIN invocations : invocations[i].status = "succeeded")
                 /\ (\A j \in 1 .. Len(turn) : status[j] = "succeeded")
                 => \A i \in DOMAIN invocations' : invocations'[i].status = "succeeded"
        /\ EvidenceIn(invocations') = EvidenceIn(invocations)
                 \cup {turn[j] : j \in {k \in 1 .. Len(turn) : status[k] = "succeeded"}}
        /\ {invocations'[i].call : i \in {j \in DOMAIN invocations' :
              invocations'[j].step < Len(steps') /\ invocations'[j].status = "succeeded"}}
              = EvidenceIn(invocations)
        /\ Executed' = Executed \cup
              (IF \E j \in 1 .. Len(turn) : status[j] = "succeeded" THEN {Len(steps) + 1} ELSE {})
    BY <1>1, <1>6, TurnTaken
  <1>9. {k \in 1 .. Len(turn) : status[k] = "succeeded"} = 1 .. Len(turn)
    BY <1>1
  <1>10. EvidenceIn(invocations') = EvidenceIn(invocations) \cup {turn[j] : j \in 1 .. Len(turn)}
    BY <1>8, <1>9
  <1>11. {turn[j] : j \in 1 .. Len(turn)} \in (SUBSET Evidence) \ {{}}
    <2>1. \A j \in 1 .. Len(turn) : turn[j] \in Evidence \cup {Bad}
      BY TurnAssumption, ElementOfSeq
    <2>2. \A j \in 1 .. Len(turn) : turn[j] # Bad
      BY <1>2 DEF HasBadCall, Refused
    <2> QED BY <1>2, <2>1, <2>2
  <1>12. Len(steps) \in Nat
    BY <1>6, LenProperties DEF TypeOK
  <1>13. RecordIsClean'
    <2>1. Executed' = 1 .. Len(steps')
      BY <1>1, <1>2, <1>7, <1>8, <1>12 DEF RecordIsClean
    <2>2. TurnStep(turn).answered /\ TurnStep(turn).calls # <<>>
      BY <1>2 DEF TurnStep
    <2>3. \A n \in 1 .. Len(steps') : steps'[n].answered /\ steps'[n].calls # <<>>
      BY <1>7, <1>8, <1>12, <2>2 DEF RecordIsClean
    <2>4. \A i \in DOMAIN invocations' : invocations'[i].status = "succeeded"
      BY <1>1, <1>7, <1>8 DEF RecordIsClean
    <2> QED BY <2>1, <2>3, <2>4 DEF RecordIsClean
  <1>14. EvidenceBefore(Len(steps))' = EvidenceIn(invocations)
    BY <1>8 DEF EvidenceBefore
  <1>15. ~Blocked(invocations', "deterministic_policy_resolved")
    BY <1>13 DEF RecordIsClean, Blocked
  <1>16. termination' =
           IF EvidenceIn(invocations') \in Resolving THEN "deterministic_policy_resolved"
           ELSE IF Len(steps') = MaxSteps THEN "step_budget_exhausted" ELSE "running"
    BY <1>4, <1>15 DEF AfterBatch, Resolves
  <1> QED BY <1>3, <1>6, <1>7, <1>8, <1>10, <1>11, <1>12, <1>13, <1>14, <1>16

LEMMA ExecuteBatchInv ==
    ASSUME LoopInv, NEW turn \in Turn, ExecuteBatch(turn)
    PROVE  LoopInv'
  <1>1. /\ TypeOK' /\ ChainSound' /\ RecordIsClean'
        /\ Len(steps') <= MaxSteps /\ Len(steps') \in Nat
        /\ \A i \in DOMAIN invocations' : invocations'[i].step <= Len(steps')
        /\ EvidenceBefore(Len(steps))' \notin Resolving
        /\ termination' = IF EvidenceIn(invocations') \in Resolving THEN "deterministic_policy_resolved"
                          ELSE IF Len(steps') = MaxSteps THEN "step_budget_exhausted" ELSE "running"
    BY BatchExecuted
  <1>2. RecordSound'
    BY <1>1, BudgetAssumption DEF RecordSound
  <1> QED BY <1>1, <1>2 DEF LoopInv

LEMMA LoopStepInv ==
    ASSUME LoopInv, [Next]_vars
    PROVE  LoopInv'
  <1>1. CASE UNCHANGED vars
    <2>1. RecordSound'
      BY <1>1, RecordStays DEF LoopInv, vars, loopVars
    <2> QED BY <1>1, <2>1 DEF LoopInv, TypeOK, ChainTypeOK, ChainSound, vars, loopVars, chainVars
  <1>2. CASE LoopStep
    BY <1>2, AskInv, ProvidersFailedInv, ProviderStoppedInv, CompleteInv, RefusalInv, ExecuteBatchInv
    DEF LoopStep
  <1> QED BY <1>1, <1>2 DEF Next, Terminated

----------------------------------------------------------------------------
(* Batches are whole *)

\* The records of a step that was made before are not disturbed by what is added.
LEMMA BatchKept ==
    ASSUME NEW n, BatchIsWhole(n), steps'[n] = steps[n], RecordsOf(n)' = RecordsOf(n),
           \A i \in RecordsOf(n) : invocations'[i] = invocations[i]
    PROVE  BatchIsWhole(n)'
  <1> DEFINE R == RecordsOf(n)
  <1>1. \A i \in R : /\ invocations'[i].index = invocations[i].index
                     /\ invocations'[i].call = invocations[i].call
                     /\ invocations'[i].status = invocations[i].status
    OBVIOUS
  <1>2. {invocations'[i].index : i \in R} = {invocations[i].index : i \in R}
    BY <1>1
  <1>3. RecordsOf(n)' = R
    OBVIOUS
  <1> HIDE DEF R
  <1>4. /\ {invocations[i].index : i \in R} = 1 .. Len(steps[n].calls)
        /\ \A i \in R : invocations[i].call = steps[n].calls[invocations[i].index]
        /\ \A i, j \in R : i < j => invocations[i].index < invocations[j].index
        /\ \/ \A i \in R : invocations[i].status = "succeeded"
           \/ \A i \in R : invocations[i].status # "succeeded"
    BY DEF BatchIsWhole, R
  <1> QED BY <1>1, <1>2, <1>3, <1>4 DEF BatchIsWhole

\* A turn that is taken leaves whole batches, if its calls were treated alike.
LEMMA TurnIsWhole ==
    ASSUME LoopInv, BatchIsAtomic, NEW turn \in Turn,
           NEW status \in [1 .. Len(turn) -> InvocationStatus],
           TakeTurn(turn, Invocations(turn, status)),
           \/ \A j \in 1 .. Len(turn) : status[j] = "succeeded"
           \/ \A j \in 1 .. Len(turn) : status[j] # "succeeded"
    PROVE  BatchIsAtomic'
  <1> DEFINE recs == Invocations(turn, status)
  <1>1. TypeOK /\ RecordSound /\ Len(steps) < MaxSteps
    BY DEF LoopInv, ChainSound, TakeTurn
  <1>2. /\ recs \in Seq(Invocation) /\ DOMAIN recs = 1 .. Len(turn) /\ Len(turn) \in Nat
        /\ \A i \in 1 .. Len(turn) : /\ recs[i].step = Len(steps) + 1 /\ recs[i].index = i
                                    /\ recs[i].call = turn[i] /\ recs[i].status = status[i]
    <2>1. /\ recs \in Seq(Invocation) /\ DOMAIN recs = 1 .. Len(turn) /\ Len(turn) \in Nat
          /\ \A i \in 1 .. Len(turn) : recs[i] =
                [step |-> Len(steps) + 1, index |-> i, call |-> turn[i], status |-> status[i]]
      BY <1>1, InvocationsAre
    <2> HIDE DEF recs
    <2> QED BY <2>1
  <1>3. invocations' = invocations \o recs
    BY DEF TakeTurn
  <1> HIDE DEF recs
  <1>4. Len(steps) \in Nat /\ invocations \in Seq(Invocation) /\ Len(invocations) \in Nat
        /\ DOMAIN invocations = 1 .. Len(invocations)
    BY <1>1, LenProperties DEF TypeOK
  <1>5. /\ Len(steps') = Len(steps) + 1
        /\ \A n \in 1 .. Len(steps) : steps'[n] = steps[n]
        /\ steps'[Len(steps) + 1] = TurnStep(turn)
    BY <1>1, TurnTaken
  <1>6. /\ \A i \in DOMAIN invocations : i \in DOMAIN invocations' /\ invocations'[i] = invocations[i]
        /\ \A j \in 1 .. Len(turn) : /\ Len(invocations) + j \in DOMAIN invocations'
                                    /\ invocations'[Len(invocations) + j] = recs[j]
        /\ \A i \in DOMAIN invocations' :
              i \in DOMAIN invocations \/ \E j \in 1 .. Len(turn) : i = Len(invocations) + j
    <2>1. recs \in Seq(Invocation) /\ DOMAIN recs = 1 .. Len(turn) /\ invocations \in Seq(Invocation)
      BY <1>2, <1>4
    <2> QED BY <1>3, <2>1, ConcatIs
  <1>7. \A i \in DOMAIN invocations : invocations[i].step <= Len(steps) /\ invocations[i].step \in Nat
    BY <1>1, RecordIs
  <1>8. ASSUME NEW n \in 1 .. Len(steps) PROVE BatchIsWhole(n)'
    <2>1. RecordsOf(n)' = RecordsOf(n)
      <3>1. ASSUME NEW i \in DOMAIN invocations', invocations'[i].step = n
            PROVE  i \in DOMAIN invocations
        BY <1>2, <1>4, <1>6, <3>1
      <3> QED BY <1>6, <3>1 DEF RecordsOf
    <2>2. \A i \in RecordsOf(n) : invocations'[i] = invocations[i]
      BY <1>6 DEF RecordsOf
    <2> QED BY <1>5, <2>1, <2>2, BatchKept DEF BatchIsAtomic
  <1>9. PICK k \in Nat : k = Len(steps) + 1
    BY <1>4
  <1>10. BatchIsWhole(k)'
    <2> DEFINE R == {Len(invocations) + j : j \in 1 .. Len(turn)}
    <2>1. {i \in DOMAIN invocations' : invocations'[i].step = k} = R
      <3>1. ASSUME NEW i \in DOMAIN invocations', invocations'[i].step = k
            PROVE  i \in R
        <4>1. i \notin DOMAIN invocations
          BY <1>4, <1>6, <1>7, <1>9, <3>1
        <4> QED BY <1>6, <4>1
      <3>2. ASSUME NEW j \in 1 .. Len(turn)
            PROVE  /\ Len(invocations) + j \in DOMAIN invocations'
                   /\ invocations'[Len(invocations) + j].step = k
        BY <1>2, <1>6, <1>9
      <3> QED BY <3>1, <3>2
    <2>2. \A j \in 1 .. Len(turn) : /\ invocations'[Len(invocations) + j].index = j
                                   /\ invocations'[Len(invocations) + j].call = turn[j]
                                   /\ invocations'[Len(invocations) + j].status = status[j]
      BY <1>2, <1>6
    <2>3. steps'[k].calls = turn
      BY <1>5, <1>9 DEF TurnStep
    <2>4. {invocations'[i].index : i \in R} = 1 .. Len(turn)
      <3>1. \A i \in R : invocations'[i].index \in 1 .. Len(turn)
        BY <2>2
      <3>2. \A j \in 1 .. Len(turn) : \E i \in R : invocations'[i].index = j
        BY <2>2
      <3> QED BY <3>1, <3>2
    <2>5. \A i \in R : invocations'[i].call = turn[invocations'[i].index]
      BY <2>2
    <2>6. \A i, j \in R : i < j => invocations'[i].index < invocations'[j].index
      BY <1>2, <1>4, <2>2
    <2>7. \/ \A i \in R : invocations'[i].status = "succeeded"
          \/ \A i \in R : invocations'[i].status # "succeeded"
      <3>1. CASE \A j \in 1 .. Len(turn) : status[j] = "succeeded"
        BY <2>2, <3>1
      <3>2. CASE \A j \in 1 .. Len(turn) : status[j] # "succeeded"
        <4>1. \A j \in 1 .. Len(turn) : invocations'[Len(invocations) + j].status # "succeeded"
          BY <2>2, <3>2
        <4> QED BY <4>1
      <3> QED BY <3>1, <3>2
    <2> HIDE DEF R
    <2>8. RecordsOf(k)' = R
      BY <2>1 DEF RecordsOf
    <2> QED BY <2>3, <2>4, <2>5, <2>6, <2>7, <2>8 DEF BatchIsWhole
  <1>11. \A n \in 1 .. Len(steps') : n \in 1 .. Len(steps) \/ n = k
    BY <1>4, <1>5, <1>9
  <1> QED BY <1>8, <1>10, <1>11 DEF BatchIsAtomic

\* A batch that is refused is taken with no call executed.
LEMMA RefusalTakesNothing ==
    ASSUME NEW turn \in Turn, RefuseTooMany(turn) \/ RejectBatch(turn)
    PROVE  \E status \in [1 .. Len(turn) -> InvocationStatus] :
              /\ TakeTurn(turn, Invocations(turn, status))
              /\ \A j \in 1 .. Len(turn) : status[j] # "succeeded"
  <1>1. CASE RefuseTooMany(turn)
    <2> DEFINE s == [i \in 1 .. Len(turn) |-> IF i = MaxToolCalls + 1 THEN "validation_failed"
                                              ELSE "skipped_due_to_batch_rejection"]
    <2>1. s \in [1 .. Len(turn) -> InvocationStatus] /\ \A j \in 1 .. Len(turn) : s[j] # "succeeded"
      BY RefusedStatus
    <2>2. TakeTurn(turn, Invocations(turn, s))
      BY <1>1 DEF RefuseTooMany, TooManyRecords
    <2> QED BY <2>1, <2>2
  <1>2. CASE RejectBatch(turn)
    <2> DEFINE s == [i \in 1 .. Len(turn) |-> IF Refused(turn[i]) THEN "validation_failed"
                                              ELSE "skipped_due_to_batch_rejection"]
    <2>1. s \in [1 .. Len(turn) -> InvocationStatus] /\ \A j \in 1 .. Len(turn) : s[j] # "succeeded"
      BY RefusedStatus
    <2>2. TakeTurn(turn, Invocations(turn, s))
      BY <1>2 DEF RejectBatch, RejectedRecords
    <2> QED BY <2>1, <2>2
  <1> QED BY <1>1, <1>2

\* A step that was not answered asked for nothing and has no records.
LEMMA FailureIsWhole ==
    ASSUME LoopInv, BatchIsAtomic, ProvidersFailed
    PROVE  BatchIsAtomic'
  <1>1. /\ Len(steps) \in Nat /\ Len(steps') = Len(steps) + 1
        /\ \A n \in 1 .. Len(steps) : steps'[n] = steps[n]
        /\ steps'[Len(steps) + 1] = FailedStep /\ invocations' = invocations
    BY LenProperties, AppendProperties DEF ProvidersFailed, LoopInv, TypeOK
  <1>2. PICK k \in Nat : k = Len(steps) + 1
    BY <1>1
  <1>3. RecordsOf(k) = {} /\ \A n : RecordsOf(n)' = RecordsOf(n)
    <2>1. \A i \in DOMAIN invocations : invocations[i].step <= Len(steps) /\ invocations[i].step \in Nat
      BY RecordIs DEF LoopInv
    <2> QED BY <1>1, <1>2, <2>1 DEF RecordsOf
  <1>4. BatchIsWhole(k)'
    <2>1. 1 .. Len(steps'[k].calls) = {}
      BY <1>1, <1>2 DEF FailedStep
    <2> QED BY <1>3, <2>1 DEF BatchIsWhole
  <1>5. ASSUME NEW n \in 1 .. Len(steps) PROVE BatchIsWhole(n)'
    BY <1>1, <1>3, BatchKept DEF BatchIsAtomic
  <1> QED BY <1>1, <1>2, <1>4, <1>5 DEF BatchIsAtomic

LEMMA BatchStep ==
    ASSUME LoopInv, BatchIsAtomic, [Next]_vars
    PROVE  BatchIsAtomic'
  <1>1. CASE UNCHANGED <<steps, invocations>>
    BY <1>1 DEF BatchIsAtomic, BatchIsWhole, RecordsOf
  <1>2. CASE Complete
    <2> DEFINE status == [i \in 1 .. 0 |-> "succeeded"]
    <2>1. /\ <<>> \in Turn /\ status \in [1 .. Len(<<>>) -> InvocationStatus]
          /\ \A j \in 1 .. Len(<<>>) : status[j] = "succeeded"
          /\ Invocations(<<>>, status) = <<>>
      BY <1>2 DEF Complete, InvocationStatus, Invocations
    <2> HIDE DEF status
    <2>2. TakeTurn(<<>>, Invocations(<<>>, status))
      BY <1>2, <2>1 DEF Complete
    <2> QED BY <2>1, <2>2, TurnIsWhole
  <1>3. ASSUME NEW turn \in Turn, RefuseTooMany(turn) \/ RejectBatch(turn)
        PROVE  BatchIsAtomic'
    BY <1>3, RefusalTakesNothing, TurnIsWhole
  <1>4. ASSUME NEW turn \in Turn, ExecuteBatch(turn) PROVE BatchIsAtomic'
    <2> DEFINE status == [i \in 1 .. Len(turn) |-> "succeeded"]
    <2>1. /\ status \in [1 .. Len(turn) -> InvocationStatus]
          /\ \A j \in 1 .. Len(turn) : status[j] = "succeeded"
          /\ TakeTurn(turn, Invocations(turn, status))
      BY <1>4, RefusedStatus DEF ExecuteBatch
    <2> HIDE DEF status
    <2> QED BY <2>1, TurnIsWhole
  <1>5. CASE ProviderStopped \/ AskForTurn \/ Attempted
    BY <1>1, <1>5 DEF ProviderStopped, AskForTurn, Attempted, loopVars
  <1>6. CASE LoopStep
    BY <1>2, <1>3, <1>4, <1>5, <1>6, FailureIsWhole DEF LoopStep
  <1> QED BY <1>1, <1>6 DEF Next, Terminated, vars, loopVars

----------------------------------------------------------------------------
(* Steps of the loop as steps of an inquiry *)

\* What a step may do when it adds no evidence.
LEMMA GivingUp ==
    ASSUME EvidenceIn(invocations') = EvidenceIn(invocations), Executed' = Executed,
           Verdict' = Verdict \/ (Verdict = "open" /\ Verdict' \in {"escalated", "lost"})
    PROVE  [InquiryOf!Next]_(InquiryOf!vars)
  BY DEF InquiryOf!Next, InquiryOf!GiveUp, InquiryOf!vars, EvidenceIn

LEMMA AskMaps ==
    ASSUME LoopInv, AskForTurn \/ Attempted
    PROVE  [InquiryOf!Next]_(InquiryOf!vars)
  <1>1. UNCHANGED <<steps, invocations, termination>> /\ call # "raised"
    <2>1. ChainStep => call = "trying"
      BY DEF ChainStep, Answer, RetrySameProvider, FallBack, AllProvidersFailed, StopDead, PassThrough
    <2> QED BY <2>1 DEF AskForTurn, Attempted, Ask, loopVars
  <1>2. EvidenceIn(invocations') = EvidenceIn(invocations) /\ Executed' = Executed
    BY <1>1 DEF EvidenceIn, Executed
  <1>3. Resolves(invocations', termination') <=> Resolves(invocations, termination)
    BY <1>1 DEF Resolves, Blocked, EvidenceIn
  <1>4. Verdict' = Verdict \/ (Verdict = "open" /\ Verdict' = "lost")
    <2>1. CASE AskForTurn
      BY <1>1, <2>1 DEF AskForTurn, Ask, Verdict
    <2>2. CASE Attempted
      <3>1. call = "trying"
        BY <2>2 DEF Attempted, ChainStep, Answer, RetrySameProvider, FallBack,
                    AllProvidersFailed, StopDead, PassThrough
      <3>2. termination = "running" /\ termination' = "running"
        BY <1>1, <3>1 DEF LoopInv, ChainSound
      <3> QED BY <1>1, <3>2 DEF Verdict
    <2> QED BY <2>1, <2>2
  <1> QED BY <1>2, <1>4, GivingUp

\* The loop ends on anything but a resolution, with the evidence it had.
LEMMA EndMaps ==
    ASSUME EvidenceIn(invocations') = EvidenceIn(invocations), Executed' = Executed,
           termination = "running", call # "raised", call' # "raised",
           termination' # "running", EvidenceIn(invocations') \notin Resolving
    PROVE  [InquiryOf!Next]_(InquiryOf!vars)
  <1>1. Verdict = "open"
    BY DEF Verdict
  <1>2. ~Resolves(invocations', termination')
    BY DEF Resolves
  <1>3. Verdict' = "escalated"
    BY <1>2 DEF Verdict
  <1> QED BY <1>1, <1>3, GivingUp

LEMMA RefusalMaps ==
    ASSUME LoopInv, NEW turn \in Turn, RefuseTooMany(turn) \/ RejectBatch(turn)
    PROVE  [InquiryOf!Next]_(InquiryOf!vars)
  <1>1. PICK status \in [1 .. Len(turn) -> InvocationStatus] :
          /\ TakeTurn(turn, Invocations(turn, status))
          /\ \A j \in 1 .. Len(turn) : status[j] # "succeeded"
    BY RefusalTakesNothing
  <1>2. /\ TypeOK /\ RecordSound /\ Len(steps) < MaxSteps
        /\ termination = "running" /\ call = "answered" /\ call' = "idle"
        /\ termination' = "tool_validation_failed"
    BY <1>1 DEF LoopInv, ChainSound, TakeTurn, RefuseTooMany, RejectBatch
  <1>3. /\ EvidenceIn(invocations') = EvidenceIn(invocations)
              \cup {turn[j] : j \in {k \in 1 .. Len(turn) : status[k] = "succeeded"}}
        /\ Executed' = Executed \cup (IF \E j \in 1 .. Len(turn) : status[j] = "succeeded"
                                     THEN {Len(steps) + 1} ELSE {})
    BY <1>1, <1>2, TurnTaken
  <1>4. {k \in 1 .. Len(turn) : status[k] = "succeeded"} = {}
    BY <1>1
  <1>5. EvidenceIn(invocations') = EvidenceIn(invocations) /\ Executed' = Executed
    BY <1>1, <1>3, <1>4
  <1>6. EvidenceIn(invocations') \notin Resolving
    BY <1>2, <1>5 DEF RecordSound
  <1> QED BY <1>2, <1>5, <1>6, EndMaps

LEMMA CompleteMaps ==
    ASSUME LoopInv, Complete
    PROVE  [InquiryOf!Next]_(InquiryOf!vars)
  <1>1. /\ termination = "running" /\ call = "answered" /\ call' = "idle"
        /\ termination' = "investigation_complete"
    BY DEF Complete, TakeTurn
  <1>2. EvidenceIn(invocations') = EvidenceIn(invocations) /\ Executed' = Executed
    BY CompleteInv
  <1>3. EvidenceIn(invocations') \notin Resolving
    BY <1>1, <1>2 DEF LoopInv, RecordSound
  <1> QED BY <1>1, <1>2, <1>3, EndMaps

LEMMA FailureMaps ==
    ASSUME LoopInv, ProvidersFailed \/ ProviderStopped
    PROVE  [InquiryOf!Next]_(InquiryOf!vars)
  <1>1. /\ termination = "running" /\ call # "raised" /\ call' # "raised"
        /\ termination' # "running" /\ invocations' = invocations
        /\ steps' = steps \/ steps' = Append(steps, FailedStep)
    BY DEF ProvidersFailed, ProviderStopped, chainVars
  <1>2. EvidenceIn(invocations') = EvidenceIn(invocations) /\ Executed' = Executed
    BY <1>1, NothingTaken DEF LoopInv
  <1>3. EvidenceIn(invocations') \notin Resolving
    BY <1>1, <1>2 DEF LoopInv, RecordSound
  <1> QED BY <1>1, <1>2, <1>3, EndMaps

LEMMA UpTo == ASSUME NEW n \in Nat PROVE Cardinality(1 .. n) = n
  <1>1. Cardinality(1 .. n) = IF 1 > n THEN 0 ELSE n - 1 + 1
    BY FS_Interval
  <1> QED BY <1>1

\* A batch that is executed is a turn of the inquiry.
LEMMA ExecuteBatchMaps ==
    ASSUME LoopInv, NEW turn \in Turn, ExecuteBatch(turn)
    PROVE  [InquiryOf!Next]_(InquiryOf!vars)
  <1>1. /\ RecordIsClean' /\ RecordIsClean
        /\ Len(steps) \in Nat /\ Len(steps') = Len(steps) + 1 /\ Len(steps') <= MaxSteps
        /\ EvidenceIn(invocations') = EvidenceIn(invocations) \cup {turn[j] : j \in 1 .. Len(turn)}
        /\ {turn[j] : j \in 1 .. Len(turn)} \in (SUBSET Evidence) \ {{}}
        /\ termination = "running" /\ call # "raised" /\ call' # "raised"
        /\ termination' = IF EvidenceIn(invocations') \in Resolving THEN "deterministic_policy_resolved"
                          ELSE IF Len(steps') = MaxSteps THEN "step_budget_exhausted" ELSE "running"
    BY BatchExecuted
  <1>2. Cardinality(Executed) = Len(steps)
    <2>1. Executed = 1 .. Len(steps)
      BY <1>1 DEF RecordIsClean
    <2>2. Cardinality(1 .. Len(steps)) = Len(steps)
      BY <1>1, UpTo
    <2> QED BY <2>1, <2>2
  <1>3. Cardinality(Executed') = Len(steps')
    <2>1. Executed' = 1 .. Len(steps') /\ Len(steps') \in Nat
      BY <1>1 DEF RecordIsClean
    <2>2. Cardinality(1 .. Len(steps')) = Len(steps')
      BY <2>1, UpTo
    <2> QED BY <2>1, <2>2
  <1>4. Verdict = "open"
    BY <1>1 DEF Verdict
  <1>5. ~Blocked(invocations', "deterministic_policy_resolved")
    BY <1>1 DEF RecordIsClean, Blocked
  <1>6. Verdict' = IF EvidenceIn(invocations') \in Resolving THEN "resolved"
                   ELSE IF Cardinality(Executed') = MaxSteps THEN "escalated" ELSE "open"
    <2>1. CASE EvidenceIn(invocations') \in Resolving
      BY <1>1, <1>5, <2>1 DEF Verdict, Resolves
    <2>2. CASE EvidenceIn(invocations') \notin Resolving
      BY <1>1, <1>3, <2>2 DEF Verdict, Resolves
    <2> QED BY <2>1, <2>2
  <1>7. Cardinality(Executed)' = Cardinality(Executed) + 1 /\ Cardinality(Executed) < MaxSteps
    BY <1>1, <1>2, <1>3, BudgetAssumption
  <1>8. \E S \in (SUBSET Evidence) \ {{}} :
           EvidenceIn(invocations)' = EvidenceIn(invocations) \cup S
    BY <1>1 DEF EvidenceIn
  <1>9. Verdict' = IF EvidenceIn(invocations)' \in Resolving THEN "resolved"
                   ELSE IF Cardinality(Executed)' = MaxSteps THEN "escalated" ELSE "open"
    BY <1>6 DEF EvidenceIn
  <1>10. InquiryOf!Gather
    BY <1>4, <1>7, <1>8, <1>9 DEF InquiryOf!Gather
  <1> QED BY <1>10 DEF InquiryOf!Next

LEMMA StepMaps ==
    ASSUME LoopInv, [Next]_vars
    PROVE  [InquiryOf!Next]_(InquiryOf!vars)
  <1>1. CASE UNCHANGED vars
    <2>1. EvidenceIn(invocations') = EvidenceIn(invocations) /\ Executed' = Executed
      BY <1>1 DEF vars, loopVars, EvidenceIn, Executed
    <2>2. Verdict' = Verdict
      BY <1>1 DEF vars, loopVars, chainVars, Verdict, Resolves, Blocked, EvidenceIn
    <2> QED BY <2>1, <2>2, GivingUp
  <1>2. CASE LoopStep
    BY <1>2, AskMaps, FailureMaps, CompleteMaps, RefusalMaps, ExecuteBatchMaps DEF LoopStep
  <1> QED BY <1>1, <1>2 DEF Next, Terminated

----------------------------------------------------------------------------
(* Providers are left by the rule *)

\* What may follow attempt a.
Leads(a, p, t) ==
    /\ a.met \notin {"turn", "unusable", "401", "400"}
    /\ IF a.met \in {"timeout", "network", "500"} /\ a.attempt <= Retries
       THEN p = a.provider /\ t = a.attempt + 1
       ELSE p = a.provider + 1 /\ t = 1

\* The call in progress: its first attempt was the first provider's, its last leads to
\* the attempt about to be made.
CallByTheRule ==
    /\ FollowsTheRule(attempts)
    /\ attempts # <<>> => attempts[1].provider = 1
    /\ call = "trying" => IF attempts = <<>> THEN hop = 1
                          ELSE Leads(attempts[Len(attempts)], hop, try)
    /\ call = "answered" => attempts # <<>> /\ attempts[Len(attempts)].provider = hop

StepByTheRule(s) ==
    /\ FollowsTheRule(s.attempts)
    /\ s.answered =>
          /\ s.attempts[Len(s.attempts)].provider = s.provider
          /\ s.fallback <=> s.attempts[1].provider # s.provider

RuleInv == CallByTheRule /\ \A n \in 1 .. Len(steps) : StepByTheRule(steps[n])

LEMMA KindIs ==
    ASSUME NEW r \in Response
    PROVE  /\ Kind(r) = "transient" <=> r \in {"timeout", "network", "500"}
           /\ Kind(r) \in {"transient", "refused"} => r \notin {"turn", "unusable", "401", "400"}
  <1>1. CASE r \in Status
    <2>1. Kind(r) = StatusKind(r)
      BY <1>1 DEF Kind, Status, Transport, Body
    <2> QED BY <1>1, <2>1 DEF Status, StatusKind
  <1>2. CASE r \in Transport
    <2>1. Kind(r) = TransportKind(r)
      BY <1>2 DEF Kind, Status, Transport, Body
    <2> QED BY <1>2, <2>1 DEF Transport, TransportKind
  <1>3. CASE r \in Body
    <2>1. Kind(r) = BodyKind(r)
      BY <1>3 DEF Kind, Status, Transport, Body
    <2> QED BY <1>3, <2>1 DEF Body, BodyKind
  <1> QED BY <1>1, <1>2, <1>3 DEF Response

LEMMA RuleExtends ==
    ASSUME NEW record \in Seq(Attempt), NEW a \in Attempt, FollowsTheRule(record),
           record # <<>> => Leads(record[Len(record)], a.provider, a.attempt)
    PROVE  /\ FollowsTheRule(Append(record, a))
           /\ Append(record, a) # <<>>
           /\ Append(record, a)[Len(Append(record, a))] = a
           /\ Append(record, a)[1] = IF record = <<>> THEN a ELSE record[1]
  <1>1. /\ Len(record) \in Nat /\ Len(Append(record, a)) = Len(record) + 1
        /\ \A i \in 1 .. Len(record) : Append(record, a)[i] = record[i]
        /\ Append(record, a)[Len(record) + 1] = a
        /\ Append(record, a) # <<>>
        /\ record # <<>> => Len(record) >= 1
        /\ record = <<>> => Len(record) = 0
    BY AppendProperties, LenProperties
  <1>2. ASSUME NEW i \in 1 .. Len(Append(record, a)) - 1
        PROVE  Leads(Append(record, a)[i], Append(record, a)[i + 1].provider,
                     Append(record, a)[i + 1].attempt)
    <2>1. CASE i = Len(record)
      <3>1. /\ Append(record, a)[i] = record[Len(record)] /\ Append(record, a)[i + 1] = a
            /\ record # <<>>
        BY <1>1, <1>2, <2>1
      <3> QED BY <3>1
    <2>2. CASE i # Len(record)
      <3>1. /\ Append(record, a)[i] = record[i] /\ Append(record, a)[i + 1] = record[i + 1]
            /\ i \in 1 .. Len(record) - 1
        BY <1>1, <1>2, <2>2
      <3> QED BY <3>1 DEF FollowsTheRule, Leads
    <2> QED BY <2>1, <2>2
  <1>3. FollowsTheRule(Append(record, a))
    BY <1>2 DEF FollowsTheRule, Leads
  <1> QED BY <1>1, <1>3

\* An attempt keeps the rule.
LEMMA AttemptRule ==
    ASSUME ChainTypeOK, CallByTheRule, ChainStep
    PROVE  CallByTheRule'
  <1> SUFFICES ASSUME NEW r \in Response,
                      \/ Answer(r) \/ RetrySameProvider(r) \/ FallBack(r)
                      \/ AllProvidersFailed(r) \/ StopDead(r) \/ PassThrough(r)
               PROVE  CallByTheRule'
    BY DEF ChainStep
  <1>1. call = "trying"
    BY DEF Answer, RetrySameProvider, FallBack, AllProvidersFailed, StopDead, PassThrough
  <1>2. CASE PassThrough(r)
    BY <1>2 DEF PassThrough, CallByTheRule, FollowsTheRule
  <1>3. CASE ~PassThrough(r)
    <2> DEFINE a == [provider |-> hop, attempt |-> try, met |-> r]
    <2>1. /\ a \in Attempt /\ a.provider = hop /\ a.attempt = try /\ a.met = r
          /\ attempts' = Append(attempts, a)
      BY <1>3 DEF ChainTypeOK, Attempt, Answer, RetrySameProvider, FallBack, AllProvidersFailed,
                  StopDead, Record
    <2> HIDE DEF a
    <2>2. attempts \in Seq(Attempt) /\ FollowsTheRule(attempts)
          /\ (attempts # <<>> => Leads(attempts[Len(attempts)], a.provider, a.attempt))
      BY <1>1, <2>1 DEF CallByTheRule, ChainTypeOK
    <2>3. /\ FollowsTheRule(attempts') /\ attempts' # <<>>
          /\ attempts'[Len(attempts')] = a
          /\ attempts'[1] = IF attempts = <<>> THEN a ELSE attempts[1]
      BY <2>1, <2>2, RuleExtends
    <2>4. attempts'[1].provider = 1
      BY <1>1, <2>1, <2>3 DEF CallByTheRule
    <2>5. call' = "trying" => Leads(a, hop', try')
      <3>1. CASE RetrySameProvider(r)
        <4>1. r \in {"timeout", "network", "500"} /\ try <= Retries /\ hop' = hop /\ try' = try + 1
          BY <3>1, KindIs DEF RetrySameProvider, RetriesAgain
        <4> QED BY <2>1, <4>1 DEF Leads
      <3>2. CASE FallBack(r)
        <4>1. /\ ~(r \in {"timeout", "network", "500"} /\ try <= Retries)
              /\ r \notin {"turn", "unusable", "401", "400"} /\ hop' = hop + 1 /\ try' = 1
          BY <3>2, KindIs DEF FallBack, RetriesAgain, Infrastructure
        <4> QED BY <2>1, <4>1 DEF Leads
      <3> QED BY <1>3, <3>1, <3>2 DEF Answer, AllProvidersFailed, StopDead
    <2>6. call' = "answered" => hop' = hop
      BY <1>1, <1>3 DEF Answer, RetrySameProvider, FallBack, AllProvidersFailed, StopDead
    <2> QED BY <2>1, <2>3, <2>4, <2>5, <2>6 DEF CallByTheRule
  <1> QED BY <1>2, <1>3

\* A call that is over keeps its attempts; a step that is added has them.
LEMMA StepAdded ==
    ASSUME RuleInv, TypeOK, NEW s, StepByTheRule(s), s \in Step,
           steps' = Append(steps, s), call' = "idle", UNCHANGED <<hop, try, attempts>>
    PROVE  RuleInv'
  <1>1. /\ Len(steps) \in Nat /\ Len(steps') = Len(steps) + 1
        /\ \A n \in 1 .. Len(steps) : steps'[n] = steps[n]
        /\ steps'[Len(steps) + 1] = s
    BY LenProperties, AppendProperties DEF TypeOK
  <1>2. \A n \in 1 .. Len(steps') : StepByTheRule(steps'[n])
    BY <1>1 DEF RuleInv
  <1>3. CallByTheRule'
    BY DEF RuleInv, CallByTheRule, FollowsTheRule
  <1> QED BY <1>2, <1>3 DEF RuleInv, StepByTheRule, FollowsTheRule

LEMMA RuleStep ==
    ASSUME RuleInv, LoopInv, [Next]_vars
    PROVE  RuleInv'
  <1> USE DEF LoopInv
  <1>1. CASE UNCHANGED <<chainVars, steps>>
    BY <1>1 DEF RuleInv, CallByTheRule, StepByTheRule, FollowsTheRule, chainVars
  <1>2. CASE AskForTurn
    <2>1. FollowsTheRule(attempts')
      BY <1>2 DEF AskForTurn, Ask, FollowsTheRule
    <2> QED BY <1>2, <2>1 DEF AskForTurn, Ask, RuleInv, CallByTheRule, loopVars
  <1>3. CASE Attempted
    <2>1. CallByTheRule'
      BY <1>3, AttemptRule DEF Attempted, RuleInv, TypeOK
    <2> QED BY <1>3, <2>1 DEF Attempted, RuleInv
  <1>4. CASE ProvidersFailed
    <2>1. attempts \in Seq(Attempt) /\ attempts # <<>>
      BY <1>4 DEF ProvidersFailed, ChainSound, TypeOK, ChainTypeOK
    <2>2. attempts[1] \in Attempt /\ <<>> \in Seq(Evidence \cup {Bad})
      BY <2>1
    <2>3. FailedStep \in Step
      BY <2>1, <2>2 DEF FailedStep, Step, Attempt
    <2>4. StepByTheRule(FailedStep)
      BY DEF FailedStep, StepByTheRule, RuleInv, CallByTheRule
    <2> QED BY <1>4, <2>3, <2>4, StepAdded DEF ProvidersFailed
  <1>5. ASSUME NEW turn \in Turn, NEW records, TakeTurn(turn, records)
        PROVE  RuleInv'
    <2>1. call = "answered" /\ steps' = Append(steps, TurnStep(turn)) /\ call' = "idle"
          /\ UNCHANGED <<hop, try, attempts>>
      BY <1>5 DEF TakeTurn
    <2>2. TurnStep(turn) \in Step
      BY TurnAssumption DEF TypeOK, ChainTypeOK, TurnStep, Step
    <2>3. StepByTheRule(TurnStep(turn))
      BY <2>1 DEF TurnStep, StepByTheRule, RuleInv, CallByTheRule
    <2> QED BY <2>1, <2>2, <2>3, StepAdded
  <1>6. CASE ProviderStopped
    BY <1>1, <1>6 DEF ProviderStopped
  <1>7. CASE Complete
    BY <1>5, <1>7 DEF Complete
  <1>8. ASSUME NEW turn \in Turn, RefuseTooMany(turn) \/ RejectBatch(turn) \/ ExecuteBatch(turn)
        PROVE  RuleInv'
    BY <1>5, <1>8 DEF RefuseTooMany, RejectBatch, ExecuteBatch
  <1>9. CASE LoopStep
    BY <1>2, <1>3, <1>4, <1>6, <1>7, <1>8, <1>9 DEF LoopStep
  <1> QED BY <1>1, <1>9 DEF Next, Terminated, vars, loopVars

----------------------------------------------------------------------------
(* Attempts are counted *)

\* A step that is added adds the attempts it records.
LEMMA StepIsCounted ==
    ASSUME steps \in Seq(Step), NEW s \in Step, steps' = Append(steps, s)
    PROVE  /\ RecordedAttempts \in Int /\ Len(s.attempts) \in Nat
           /\ RecordedAttempts' = RecordedAttempts + Len(s.attempts)
  <1> DEFINE Of(record) == [n \in 1 .. Len(record) |-> Len(record[n].attempts)]
  <1>1. \A x \in Step : Len(x.attempts) \in Nat
    BY LenProperties DEF Step
  <1>2. PICK old : old = steps
    OBVIOUS
  <1>3. PICK new : new = Append(old, s)
    OBVIOUS
  <1>4. PICK N : N = Len(old)
    OBVIOUS
  <1>5. /\ new \in Seq(Step) /\ N \in Nat /\ Len(new) = N + 1
        /\ \A n \in 1 .. N : new[n] = old[n] /\ old[n] \in Step
        /\ new[N + 1] = s
    BY <1>2, <1>3, <1>4, AppendProperties, LenProperties, ElementOfSeq
  <1>6. PICK f : f = Of(old)
    OBVIOUS
  <1>7. PICK g : g = Of(new)
    OBVIOUS
  <1>8. /\ \A n \in 1 .. N : f[n] \in Int /\ g[n] = f[n]
        /\ g[N + 1] = Len(s.attempts)
    <2>1. N + 1 \in 1 .. N + 1 /\ \A n \in 1 .. N : n \in 1 .. N + 1
      BY <1>5
    <2> QED BY <1>1, <1>4, <1>5, <1>6, <1>7, <2>1
  <1>9. /\ IsFiniteSet(1 .. N) /\ IsFiniteSet(1 .. N + 1)
        /\ N + 1 \in 1 .. N + 1 /\ (1 .. N + 1) \ {N + 1} = 1 .. N
    <2>1. N \in Int /\ N + 1 \in Int /\ 1 \in Int
      BY <1>5
    <2>2. IsFiniteSet(1 .. N) /\ IsFiniteSet(1 .. N + 1)
      BY <2>1, FS_Interval
    <2>3. N + 1 \in 1 .. N + 1 /\ (1 .. N + 1) \ {N + 1} = 1 .. N
      BY <1>5
    <2> QED BY <2>2, <2>3
  <1>10. \A n \in 1 .. N + 1 : g[n] \in Int
    <2>1. \A n \in 1 .. N + 1 : n \in 1 .. N \/ n = N + 1
      BY <1>5
    <2> QED BY <1>1, <1>8, <2>1
  <1>11. SumFunctionOnSet(g, 1 .. N + 1) = g[N + 1] + SumFunctionOnSet(g, 1 .. N)
    <2>1. PICK M : M = N + 1
      OBVIOUS
    <2>2. PICK D : D = 1 .. M
      OBVIOUS
    <2>3. IsFiniteSet(D) /\ M \in D /\ \A n \in D : g[n] \in Int
      BY <1>9, <1>10, <2>1, <2>2
    <2>4. SumFunctionOnSet(g, D) = g[M] + SumFunctionOnSet(g, D \ {M})
      BY <2>3, SumRemove
    <2> QED BY <1>9, <2>1, <2>2, <2>4
  <1>12. SumFunctionOnSet(g, 1 .. N) = SumFunctionOnSet(f, 1 .. N)
    BY <1>8, <1>9, SumSame
  <1>13. SumFunctionOnSet(f, 1 .. N) \in Int
    BY <1>8, <1>9, SumIs
  <1>14. RecordedAttempts = SumFunctionOnSet(f, 1 .. N)
    BY <1>2, <1>4, <1>6 DEF RecordedAttempts
  <1>15. RecordedAttempts' = SumFunctionOnSet(g, 1 .. N + 1)
    <2>1. steps' = new
      BY <1>2, <1>3
    <2> QED BY <2>1, <1>5, <1>7 DEF RecordedAttempts
  <1>16. Len(s.attempts) \in Nat
    BY <1>1
  <1> QED BY <1>8, <1>11, <1>12, <1>13, <1>14, <1>15, <1>16

LEMMA NoStepNoAttempts == steps = <<>> => RecordedAttempts = 0
  <1> SUFFICES ASSUME steps = <<>> PROVE RecordedAttempts = 0
    OBVIOUS
  <1>1. 1 .. Len(steps) = {}
    OBVIOUS
  <1> QED BY <1>1, SumEmpty DEF RecordedAttempts

\* Until a step is recorded the attempts of a call are its own to count.
LEMMA CountStep ==
    ASSUME LoopInv, RecordedAttempts \in Int, AttemptsAreCounted, [Next]_vars
    PROVE  RecordedAttempts' \in Int /\ AttemptsAreCounted'
  <1> USE DEF AttemptsAreCounted
  <1>1. attempts \in Seq(Attempt) /\ Len(attempts) \in Nat /\ made \in Nat
    BY LenProperties DEF LoopInv, TypeOK, ChainTypeOK
  <1>2. ASSUME UNCHANGED steps
        PROVE  RecordedAttempts' = RecordedAttempts
    BY <1>2 DEF RecordedAttempts
  <1>3. CASE UNCHANGED vars
    BY <1>2, <1>3 DEF vars, loopVars, chainVars
  <1>4. CASE AskForTurn
    BY <1>1, <1>2, <1>4 DEF AskForTurn, Ask, loopVars
  <1>5. ASSUME Attempted
        PROVE  RecordedAttempts' \in Int /\ AttemptsAreCounted'
    <2>1. made' = made + 1 /\ RecordedAttempts' = RecordedAttempts /\ call = "trying"
      BY <1>2, <1>5 DEF Attempted, ChainStep, Answer, RetrySameProvider, FallBack,
         AllProvidersFailed, StopDead, PassThrough
    <2>2. ASSUME NEW x, attempts' = Append(attempts, x) PROVE Len(attempts') = Len(attempts) + 1
      BY <1>1, <2>2
    <2>3. \/ call' \notin {"idle", "raised"} /\ Len(attempts') = Len(attempts) + 1
          \/ call' = "raised" /\ attempts' = attempts
      BY <1>5, <2>1, <2>2 DEF Attempted, ChainStep, Answer, RetrySameProvider, FallBack,
         AllProvidersFailed, StopDead, PassThrough, Record
    <2>4. made = RecordedAttempts + Len(attempts)
      BY <1>1, <2>1
    <2>5. CASE call' = "raised" /\ attempts' = attempts
      <3>1. Len(attempts') = Len(attempts)
        BY <2>5
      <3> QED BY <1>1, <2>1, <2>4, <2>5, <3>1
    <2>6. CASE call' \notin {"idle", "raised"} /\ Len(attempts') = Len(attempts) + 1
      <3>1. made' = RecordedAttempts' + Len(attempts') /\ Len(attempts') \in Nat
        BY <1>1, <2>1, <2>4, <2>6
      <3>2. call' # "idle" /\ call' # "raised"
        BY <2>6
      <3> QED BY <2>1, <3>1, <3>2
    <2> QED BY <2>3, <2>5, <2>6
  <1>6. ASSUME NEW s \in Step, steps' = Append(steps, s), s.attempts = attempts,
               call \in {"answered", "exhausted"}, call' = "idle", made' = made
        PROVE  RecordedAttempts' \in Int /\ AttemptsAreCounted'
    <2>1. RecordedAttempts' = RecordedAttempts + Len(s.attempts)
      BY <1>6, StepIsCounted DEF LoopInv, TypeOK
    <2>2. RecordedAttempts' = RecordedAttempts + Len(attempts)
      BY <1>6, <2>1
    <2>3. call # "idle" /\ call # "raised"
      BY <1>6
    <2>4. made = RecordedAttempts + Len(attempts)
      BY <1>1, <2>3
    <2>5. RecordedAttempts + Len(attempts) \in Int
      BY <1>1
    <2>6. made' = made /\ call' = "idle"
      BY <1>6
    <2>7. made' = RecordedAttempts' /\ RecordedAttempts' \in Int
      BY <2>2, <2>4, <2>5, <2>6
    <2>8. \A n \in Int : n = n + 0 + 0
      OBVIOUS
    <2>9. made' = RecordedAttempts' + 0 + 0
      BY <2>7, <2>8, Zenon
    <2> QED BY <2>6, <2>7, <2>9
  <1>7. CASE ProvidersFailed
    <2>1. attempts # <<>> /\ call = "exhausted"
      BY <1>7 DEF ProvidersFailed, LoopInv, ChainSound
    <2>2. attempts[1] \in Attempt /\ <<>> \in Seq(Evidence \cup {Bad})
      BY <1>1, <2>1
    <2>3. FailedStep \in Step /\ FailedStep.attempts = attempts
      BY <1>1, <2>2 DEF FailedStep, Step, Attempt
    <2> QED BY <1>6, <1>7, <2>1, <2>3 DEF ProvidersFailed
  <1>8. ASSUME NEW turn \in Turn, NEW records, TakeTurn(turn, records)
        PROVE  RecordedAttempts' \in Int /\ AttemptsAreCounted'
    <2>1. TurnStep(turn) \in Step /\ TurnStep(turn).attempts = attempts
      BY TurnAssumption DEF LoopInv, TypeOK, ChainTypeOK, TurnStep, Step
    <2> QED BY <1>6, <1>8, <2>1 DEF TakeTurn
  <1>9. CASE ProviderStopped
    BY <1>2, <1>9 DEF ProviderStopped, chainVars
  <1>10. CASE Complete
    BY <1>8, <1>10 DEF Complete
  <1>11. ASSUME NEW turn \in Turn, RefuseTooMany(turn) \/ RejectBatch(turn) \/ ExecuteBatch(turn)
         PROVE  RecordedAttempts' \in Int /\ AttemptsAreCounted'
    BY <1>8, <1>11 DEF RefuseTooMany, RejectBatch, ExecuteBatch
  <1>12. CASE LoopStep
    BY <1>4, <1>5, <1>7, <1>9, <1>10, <1>11, <1>12 DEF LoopStep
  <1> QED BY <1>3, <1>12 DEF Next, Terminated

----------------------------------------------------------------------------
(* Theorems *)

\* The inductive invariant holds.
THEOREM LoopInvariant == Spec => []LoopInv
  <1>1. LoopInv /\ [Next]_vars => LoopInv'
    BY LoopStepInv
  <1> QED BY <1>1, InitLoop, PTL DEF Spec

\* The record of an investigation has its types, and no more steps than its budget.
THEOREM LoopTypeCorrect == Spec => []TypeOK
  <1>1. LoopInv => TypeOK
    BY DEF LoopInv
  <1> QED BY <1>1, LoopInvariant, PTL

\* The policy, reading the record afterwards, resolves exactly what the loop stopped
\* for, on a record whose every step was answered and whose every call executed.
THEOREM OneAuthorityResolves == Spec => []OneAuthority
  <1>1. LoopInv => OneAuthority
    <2> SUFFICES ASSUME LoopInv PROVE OneAuthority
      OBVIOUS
    <2>1. termination = "deterministic_policy_resolved" => Resolves(invocations, termination)
      BY DEF LoopInv, RecordSound, RecordIsClean, Resolves, Blocked
    <2>2. Resolves(invocations, termination) => termination = "deterministic_policy_resolved"
      BY DEF LoopInv, RecordSound, Resolves, Blocked
    <2>3. StopsWhenResolved
      BY <2>1, <2>2 DEF LoopInv, RecordSound, StopsWhenResolved
    <2>4. DOMAIN invocations = 1 .. Len(invocations)
      BY LenProperties DEF LoopInv, TypeOK
    <2>5. ResolutionIsClean
      BY <2>2, <2>4 DEF LoopInv, RecordSound, RecordIsClean, ResolutionIsClean
    <2> QED BY <2>3, <2>5 DEF OneAuthority
  <1> QED BY <1>1, LoopInvariant, PTL

\* Each step's records are its calls, one each in order, executed all or none at all,
\* whatever a model asks for in whatever batches.
THEOREM BatchesAreAtomic == Spec => []BatchIsAtomic
  <1>1. Init => BatchIsAtomic
    BY DEF Init, BatchIsAtomic
  <1>2. LoopInv /\ BatchIsAtomic /\ [Next]_vars => BatchIsAtomic'
    BY BatchStep
  <1> QED BY <1>1, <1>2, LoopInvariant, PTL DEF Spec

\* Every step of an investigation is a step of an inquiry or none: it gathers only
\* evidence, for no more turns than the budget, is over the moment that resolves the
\* case and not before, and what it is left with when it is over is never revised.
THEOREM LoopIsAnInquiry == Spec => InquiryOf!SafeSpec
  <1>1. Init => InquiryOf!Init
    <2> SUFFICES ASSUME Init PROVE InquiryOf!Init
      OBVIOUS
    <2>1. EvidenceIn(invocations) = {} /\ Executed = {}
      BY DEF Init, EvidenceIn, Executed
    <2>2. Cardinality(Executed) = 0
      BY <2>1, FS_EmptySet
    <2>3. Verdict = "open"
      BY DEF Init, ChainInit, Verdict
    <2> QED BY <2>1, <2>2, <2>3 DEF InquiryOf!Init
  <1>2. LoopInv /\ [Next]_vars => [InquiryOf!Next]_(InquiryOf!vars)
    BY StepMaps
  <1> QED BY <1>1, <1>2, LoopInvariant, PTL DEF Spec, InquiryOf!SafeSpec

\* On every step's record, and in the call in progress, providers are left only as
\* the rule says, and a step that another provider answered says so.
THEOREM FallbackStaysHonest == Spec => []FallbackIsHonest
  <1>1. Init => RuleInv
    BY DEF Init, ChainInit, RuleInv, CallByTheRule, FollowsTheRule
  <1>2. LoopInv /\ RuleInv /\ [Next]_vars => RuleInv'
    BY RuleStep
  <1>3. RuleInv => FallbackIsHonest
    BY DEF RuleInv, CallByTheRule, StepByTheRule, FallbackIsHonest
  <1> QED BY <1>1, <1>2, <1>3, LoopInvariant, PTL DEF Spec

\* The record of the model calls can be relied on: providers were left only by the
\* rule, and the attempts on the steps are the attempts made, but for the call in
\* progress and the one that stopped dead or was torn down.
THEOREM AttemptsStayHonest == Spec => []AttemptsAreHonest
  <1>1. Init => RecordedAttempts \in Int /\ AttemptsAreCounted
    BY NoStepNoAttempts DEF Init, ChainInit, AttemptsAreCounted
  <1>2. LoopInv /\ (RecordedAttempts \in Int /\ AttemptsAreCounted) /\ [Next]_vars
          => (RecordedAttempts \in Int /\ AttemptsAreCounted)'
    BY CountStep
  <1>3. TypeOK /\ FallbackIsHonest /\ (RecordedAttempts \in Int /\ AttemptsAreCounted)
          => AttemptsAreHonest
    BY DEF AttemptsAreHonest
  <1> QED BY <1>1, <1>2, <1>3, LoopInvariant, LoopTypeCorrect, FallbackStaysHonest, PTL DEF Spec
=============================================================================

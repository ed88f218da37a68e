----------------------------- MODULE IntakeProofs -----------------------------
(***************************************************************************)
(* Proofs about Intake and the MappingReview it extends, for every feed,   *)
(* every statement and every mapping that can be selected.                 *)
(*                                                                         *)
(* ReviewInv says what each step of a proposal has settled, and that a     *)
(* saved mapping is Confirmable and Storable.  BatchSound says that facts  *)
(* of a batch and what is told of it are those of its own sources, but for *)
(* the order in which a quarantine lists its rows: a later run that records*)
(* anything has the same rows, the same profile and the same facts.  The   *)
(* properties are then about one feed, or one statement, read once.        *)
(*                                                                         *)
(* What a feed says of a settlement is a function of two sets, of its rows *)
(* that are kept and of its rows that are excluded (Alike), and both follow*)
(* from the set of all rows (RowsDecide).  The breakup is no exception: its*)
(* lines are the kept rows by entity (BreakupIs).  Its total is the sum of *)
(* the principals less the fees, which is what the rows moved (Balanced).  *)
(***************************************************************************)
EXTENDS Intake, FiniteSums, SequenceTheorems

----------------------------------------------------------------------------
(* Reviews of a mapping *)

Reviews ==
    [step : {"idle", "asking", "offered", "failed"}, calls : Nat,
     proposal : Mapping \cup {NoValue}, failure : ProposalFailure \cup {NoValue}]

\* A step past idle is about a statement nothing recognises, a request in flight has
\* a call left, and an outcome is a valid proposal or a failure.
ProposalSound ==
    /\ review \in Reviews
    /\ review.step = "idle" => review = NoReview
    /\ review.step # "idle" =>
        statement.header \notin Recognised /\ review.calls <= MaxModelCalls
    /\ review.step = "asking" =>
        review.calls < MaxModelCalls /\ review.proposal = NoValue /\ review.failure = NoValue
    /\ review.step = "offered" =>
        /\ review.proposal \in Mapping /\ review.failure = NoValue
        /\ Valid(review.proposal, statement)
    /\ review.step = "failed" => review.proposal = NoValue /\ review.failure \in ProposalFailure

SavedSound ==
    saved # NoValue => /\ saved.profile \in Mapping
                       /\ Confirmable(saved.profile, saved.confirmed)
                       /\ Storable(saved.profile)

ReviewInv == statement \in Statement /\ ProposalSound /\ SavedSound

----------------------------------------------------------------------------
(* ReviewInv is inductive *)

LEMMA ReviewInvInit == ReviewInit => ReviewInv
  BY MappingReviewAssumption
  DEF ReviewInit, ReviewInv, ProposalSound, SavedSound, NoReview, Reviews

\* What is saved stays sound while nothing is saved.
LEMMA SavedStands == SavedSound /\ UNCHANGED <<statement, saved>> => SavedSound'
  BY DEF SavedSound, Confirmable, Storable

LEMMA ProposeKeepsInv == ReviewInv /\ Propose => ReviewInv'
  <1> SUFFICES ASSUME ReviewInv, Propose PROVE ReviewInv'
    OBVIOUS
  <1>1. SavedSound'
    BY SavedStands DEF ReviewInv, Propose
  <1>2. review = NoReview /\ statement.header \notin Recognised /\ statement' = statement
    BY DEF ReviewInv, ProposalSound, Propose
  <1>3. \/ review' = [NoReview EXCEPT !.step = "asking"]
        \/ review' = [NoReview EXCEPT !.step = "failed", !.failure = "provider_not_configured"]
    BY <1>2 DEF Propose
  <1>4. \/ review' = [step |-> "asking", calls |-> 0, proposal |-> NoValue, failure |-> NoValue]
        \/ review' = [step |-> "failed", calls |-> 0, proposal |-> NoValue,
                      failure |-> "provider_not_configured"]
    BY <1>3 DEF NoReview
  <1>5. ProposalSound'
    BY <1>2, <1>4, MappingReviewAssumption DEF ProposalSound, Reviews, ProposalFailure
  <1> QED BY <1>1, <1>2, <1>5 DEF ReviewInv

\* A request in flight that fails.
LEMMA FailureIsSound ==
    ASSUME ReviewInv, review.step = "asking", NEW failure \in ProposalFailure,
           review' = [review EXCEPT !.step = "failed", !.calls = @ + 1, !.failure = failure],
           statement' = statement
    PROVE  ProposalSound'
  <1>1. /\ review \in Reviews /\ review.proposal = NoValue
        /\ review.calls < MaxModelCalls /\ statement.header \notin Recognised
    BY DEF ReviewInv, ProposalSound
  <1>2. review' = [step |-> "failed", calls |-> review.calls + 1, proposal |-> review.proposal,
                   failure |-> failure]
    BY <1>1 DEF Reviews
  <1>3. review.calls + 1 \in Nat /\ review.calls + 1 <= MaxModelCalls
    BY <1>1, MappingReviewAssumption DEF Reviews
  <1> QED
    BY <1>1, <1>2, <1>3 DEF ProposalSound, Reviews

LEMMA ProposalFailsKeepsInv == ReviewInv /\ ProposalFails => ReviewInv'
  <1> SUFFICES ASSUME ReviewInv, ProposalFails PROVE ReviewInv'
    OBVIOUS
  <1>1. SavedSound'
    BY SavedStands DEF ReviewInv, ProposalFails
  <1>2. ProposalSound'
    BY FailureIsSound DEF ProposalFails
  <1> QED BY <1>1, <1>2 DEF ReviewInv, ProposalFails

LEMMA ProposalArrivesKeepsInv == ReviewInv /\ ProposalArrives => ReviewInv'
  <1> SUFFICES ASSUME ReviewInv, ProposalArrives PROVE ReviewInv'
    OBVIOUS
  <1>1. SavedSound'
    BY SavedStands DEF ReviewInv, ProposalArrives
  <1>2. PICK p \in Mapping : review' = Judged(p)
    BY DEF ProposalArrives
  <1>3. /\ review \in Reviews /\ review.step = "asking" /\ statement' = statement
        /\ review.calls < MaxModelCalls /\ review.proposal = NoValue
        /\ review.failure = NoValue /\ statement.header \notin Recognised
    BY DEF ReviewInv, ProposalSound, ProposalArrives
  <1>4. review.calls + 1 \in Nat /\ review.calls + 1 <= MaxModelCalls
    BY <1>3, MappingReviewAssumption DEF Reviews
  <1>5. CASE Valid(p, statement)
    <2>1. review' = [step |-> "offered", calls |-> review.calls + 1, proposal |-> p,
                     failure |-> review.failure]
      BY <1>2, <1>3, <1>5 DEF Judged, Reviews
    <2> QED
      BY <1>1, <1>3, <1>4, <1>5, <2>1 DEF ReviewInv, ProposalSound, Reviews
  <1>6. CASE ~Valid(p, statement) /\ review.calls + 1 < MaxModelCalls
    <2>1. review' = [step |-> review.step, calls |-> review.calls + 1,
                     proposal |-> review.proposal, failure |-> review.failure]
      BY <1>2, <1>3, <1>6 DEF Judged, Reviews
    <2> QED
      BY <1>1, <1>3, <1>4, <1>6, <2>1 DEF ReviewInv, ProposalSound, Reviews
  <1>7. CASE ~Valid(p, statement) /\ ~(review.calls + 1 < MaxModelCalls)
    <2>1. review' = [review EXCEPT !.step = "failed", !.calls = @ + 1,
                     !.failure = "invalid_proposal"]
      BY <1>2, <1>7 DEF Judged
    <2>2. "invalid_proposal" \in ProposalFailure
      BY DEF ProposalFailure
    <2> QED
      BY <1>1, <1>3, <2>1, <2>2, FailureIsSound DEF ReviewInv
  <1> QED BY <1>5, <1>6, <1>7

LEMMA ConfirmKeepsInv == ReviewInv /\ Confirm => ReviewInv'
  <1> SUFFICES ASSUME ReviewInv, Confirm PROVE ReviewInv'
    OBVIOUS
  <1>1. PICK p \in Mapping, confirmed \in BOOLEAN :
            /\ Confirmable(p, confirmed) /\ Storable(p)
            /\ saved' = [profile |-> p, confirmed |-> confirmed]
    BY DEF Confirm
  <1>2. SavedSound'
    BY <1>1 DEF SavedSound, Confirm, Confirmable, Storable
  <1>3. ProposalSound'
    BY MappingReviewAssumption DEF ProposalSound, Confirm, NoReview, Reviews
  <1> QED BY <1>2, <1>3 DEF ReviewInv, Confirm

LEMMA ReviewInvStep == ReviewInv /\ [ReviewNext]_reviewVars => ReviewInv'
  <1>1. ReviewInv /\ UNCHANGED reviewVars => ReviewInv'
    BY SavedStands DEF ReviewInv, ProposalSound, reviewVars
  <1> QED
    BY <1>1, ProposeKeepsInv, ProposalFailsKeepsInv, ProposalArrivesKeepsInv, ConfirmKeepsInv
    DEF ReviewNext

----------------------------------------------------------------------------
(* What it implies *)

LEMMA InvGivesProposalIsChecked == ReviewInv => ProposalIsChecked
  BY MappingReviewAssumption
  DEF ReviewInv, ProposalSound, ProposalIsChecked, Reviews, NoReview, Confirmable, ProposalFailure

\* A format that is not confirmed is told from each of its siblings by a date of the
\* sample, and the sample is of the statement.
LEMMA InvGivesAmbiguityIsAnswered == ReviewInv => AmbiguityIsAnswered
  <1> SUFFICES ASSUME ReviewInv, saved # NoValue, ~saved.confirmed,
                      NEW f \in Siblings(saved.profile.format)
      PROVE \E i \in DOMAIN statement.rows :
                LET date == SampledCell(statement, statement.rows[i], saved.profile.date) IN
                date # Blank /\ Reads(saved.profile.format, date) /\ ~Reads(f, date)
    BY DEF AmbiguityIsAnswered
  <1> DEFINE p == saved.profile
  <1>1. ~Contradicted(p, statement) /\ ~NeedsChoice(p, statement)
    BY DEF ReviewInv, SavedSound, Confirmable, Valid
  <1>2. f \notin AmbiguousWith(p, statement) /\ Evidence(p, statement) # {}
    BY <1>1 DEF NeedsChoice
  <1>3. ReadDates(p, statement) # {}
    BY <1>1, <1>2 DEF Contradicted
  <1>4. PICK d \in ReadDates(p, statement) : ~Reads(f, d)
    BY <1>2, <1>3 DEF AmbiguousWith
  <1>5. PICK i \in Sampled(statement) : d = SampledCell(statement, statement.rows[i], p.date)
    BY DEF ReadDates, Evidence, SampledCells
  <1>6. i \in DOMAIN statement.rows
    BY DEF Sampled
  <1> QED BY <1>4, <1>5, <1>6 DEF ReadDates, Evidence

\* Where no name is on the header row twice, the validator and the parser read the
\* same cell under a name that is written on it as declared.
LEMMA SameCell ==
    ASSUME NEW st \in Statement, NEW row, NEW name \in ColumnNames(st),
           NEW k \in DOMAIN st.header, st.header[k] = name, NamesAreDistinct(st.header)
    PROVE  SampledCell(st, row, name) = Text(Cell(st.header, row, name))
  <1> DEFINE h == st.header
             First(j) == Trimmed[h[j]] = name
                         /\ \A l \in DOMAIN h : Trimmed[h[l]] = name => j <= l
             Final(j) == h[j] = name /\ \A l \in DOMAIN h : h[l] = name => l <= j
  <1>1. Trimmed[h[k]] = name
    <2>1. PICK l \in DOMAIN h : name = Trimmed[h[l]]
      BY DEF ColumnNames
    <2>2. h[l] \in DOMAIN Trimmed
      BY MappingReviewAssumption
    <2> QED BY <2>1, <2>2, MappingReviewAssumption
  <1>2. \A l \in DOMAIN h : Trimmed[h[l]] = name \/ h[l] = name => l = k
    BY <1>1 DEF NamesAreDistinct
  <1>3. k \in Nat
    BY MappingReviewAssumption
  <1>4. First(k) /\ \A j \in DOMAIN h : First(j) => j = k
    BY <1>1, <1>2, <1>3
  <1>5. Final(k) /\ \A j \in DOMAIN h : Final(j) => j = k
    BY <1>1, <1>2, <1>3
  <1>6. (CHOOSE j \in DOMAIN h : First(j)) = k
    <2> HIDE DEF First
    <2> QED BY <1>4
  <1>7. (CHOOSE j \in DOMAIN h : Final(j)) = k
    <2> HIDE DEF Final
    <2> QED BY <1>5
  <1> QED BY <1>6, <1>7 DEF SampledCell, Cell, Place

\* The two sides of a row, as the validator has them.
LEMMA SameSides ==
    ASSUME NEW st \in Statement, NEW p \in Mapping, Valid(p, st), ~Unreadable(p, st.header),
           NamesAreDistinct(st.header), NEW row, p.money.kind = "debit_credit"
    PROVE  /\ SampledCell(st, row, p.money.debit) = Text(Cell(st.header, row, p.money.debit))
           /\ SampledCell(st, row, p.money.credit) = Text(Cell(st.header, row, p.money.credit))
  <1>1. MoneyColumns(p)[1] = p.money.debit /\ MoneyColumns(p)[2] = p.money.credit
    BY DEF MoneyColumns
  <1>2. {p.money.debit, p.money.credit} \subseteq DeclaredColumns(p)
    BY <1>1 DEF DeclaredColumns
  <1>3. p.money.debit \in ColumnNames(st) /\ p.money.credit \in ColumnNames(st)
    BY <1>2 DEF Valid
  <1>4. /\ \E k \in DOMAIN st.header : st.header[k] = p.money.debit
        /\ \E k \in DOMAIN st.header : st.header[k] = p.money.credit
    BY <1>2 DEF Unreadable
  <1> QED BY <1>3, <1>4, SameCell

\* A row the parser refuses for two amounts, the validator counts as one.
LEMMA BothIsCounted ==
    ASSUME NEW p \in Mapping, p.money.kind = "debit_credit", NEW st, NEW i,
           Refused(p, st, i, "both_debit_and_credit_populated")
    PROVE  BothPopulated(p, Text(Cell(st.header, st.rows[i], p.money.debit)),
                            Text(Cell(st.header, st.rows[i], p.money.credit)))
  <1> DEFINE debit == Cell(st.header, st.rows[i], p.money.debit)
             credit == Cell(st.header, st.rows[i], p.money.credit)
             both == "both_debit_and_credit_populated"
  <1>1. MoneyColumns(p)[1] = p.money.debit /\ MoneyColumns(p)[2] = p.money.credit
    BY DEF MoneyColumns
  <1>2. NoValue # both
    BY MappingReviewAssumption DEF RefusalReason
  <1>3. CASE p.money.marker = "empty_only"
    <2>1. EmptyOnly(p, debit, credit).reason = both
      BY <1>1, <1>3 DEF Refused, ReadMoney
    <2>2. Text(debit) # Blank /\ Text(credit) # Blank
      BY <1>2, <2>1 DEF EmptyOnly, Converted, Refusal, Movement
    <2> QED BY <1>3, <2>2 DEF BothPopulated
  <1>4. CASE p.money.marker = "empty_or_zero"
    <2> DEFINE d == IF Text(debit) = Blank THEN 0 ELSE AmountIn(p, debit)
               c == IF Text(credit) = Blank THEN 0 ELSE AmountIn(p, credit)
    <2>1. ZeroFilled(p, debit, credit).reason = both
      BY <1>1, <1>4 DEF Refused, ReadMoney
    <2>2. d \notin {0, Malformed, Infinite} /\ c \notin {0, Malformed, Infinite}
      BY <1>2, <2>1 DEF ZeroFilled, Refusal, Movement
    <2>3. /\ Text(debit) # Blank /\ Paise[Text(debit)] # 0
          /\ Text(credit) # Blank /\ Paise[Text(credit)] # 0
      BY <2>2 DEF AmountIn
    <2> QED BY <2>3 DEF BothPopulated, SampledAmount
  <1> QED BY <1>3, <1>4, MappingReviewAssumption

\* A marked amount has one side only.
LEMMA MarkedIsOneSided ==
    ASSUME NEW p \in Mapping, p.money.kind = "amount_direction", NEW st, NEW i
    PROVE  ~Refused(p, st, i, "both_debit_and_credit_populated")
  <1>1. NoValue # "both_debit_and_credit_populated"
    BY MappingReviewAssumption DEF RefusalReason
  <1>2. \A a, m : Marked(p, a, m).reason # "both_debit_and_credit_populated"
    BY <1>1 DEF Marked, Refusal, Converted, Movement
  <1> QED BY <1>2 DEF Refused, ReadMoney

\* A row the parser refuses for no amount, the validator counts as one unless one
\* side of it is blank.
LEMMA NeitherIsCounted ==
    ASSUME NEW p \in Mapping, p.money.kind = "debit_credit", NEW st, NEW i,
           Refused(p, st, i, "neither_amount_populated"), ~HalfBlank(p, st, i)
    PROVE  NeitherPopulated(p, Text(Cell(st.header, st.rows[i], p.money.debit)),
                               Text(Cell(st.header, st.rows[i], p.money.credit)))
  <1> DEFINE debit == Cell(st.header, st.rows[i], p.money.debit)
             credit == Cell(st.header, st.rows[i], p.money.credit)
             neither == "neither_amount_populated"
  <1>1. MoneyColumns(p)[1] = p.money.debit /\ MoneyColumns(p)[2] = p.money.credit
    BY DEF MoneyColumns
  <1>2. NoValue # neither
    BY MappingReviewAssumption DEF RefusalReason
  <1>3. (Text(debit) = Blank) <=> (Text(credit) = Blank)
    BY DEF HalfBlank
  <1>4. CASE p.money.marker = "empty_only"
    <2>1. EmptyOnly(p, debit, credit).reason = neither
      BY <1>1, <1>4 DEF Refused, ReadMoney
    <2>2. Text(debit) = Blank /\ Text(credit) = Blank
      BY <1>2, <1>3, <2>1 DEF EmptyOnly, Refusal
    <2> QED BY <2>2 DEF NeitherPopulated
  <1>5. CASE p.money.marker = "empty_or_zero" /\ Text(debit) # Blank
    <2>1. ZeroFilled(p, debit, credit).reason = neither
      BY <1>1, <1>5 DEF Refused, ReadMoney
    <2>2. /\ AmountIn(p, debit) \notin {Malformed, Infinite} /\ AmountIn(p, debit) = 0
          /\ AmountIn(p, credit) \notin {Malformed, Infinite} /\ AmountIn(p, credit) = 0
      BY <1>2, <1>3, <1>5, <2>1 DEF ZeroFilled, Refusal, Movement
    <2>3. Paise[Text(debit)] = 0 /\ Paise[Text(credit)] = 0
      BY <2>2 DEF AmountIn
    <2> QED BY <1>3, <1>5, <2>3 DEF NeitherPopulated, SampledAmount
  <1>6. CASE Text(debit) = Blank
    BY <1>3, <1>6 DEF NeitherPopulated
  <1> QED BY <1>4, <1>5, <1>6, MappingReviewAssumption

LEMMA InvGivesConfirmedMappingReads == ReviewInv => ConfirmedMappingReads
  <1> SUFFICES ASSUME ReviewInv, saved # NoValue, NamesAreDistinct(statement.header)
      PROVE  LET p == saved.profile
                 sampled == Sampled(statement)
             IN /\ ~Unreadable(p, statement.header)
                /\ \A i \in sampled : ~Refused(p, statement, i, "both_debit_and_credit_populated")
                /\ sampled # {} /\ p.money.kind = "debit_credit" =>
                     \E i \in sampled : HalfBlank(p, statement, i)
                         \/ ~Refused(p, statement, i, "neither_amount_populated")
                /\ (\E i \in sampled :
                        Text(Cell(statement.header, statement.rows[i], p.date)) # Blank) =>
                     \E i \in sampled : ReadDate(p, statement.header, statement.rows[i]) # NoValue
    BY DEF ConfirmedMappingReads
  <1> DEFINE p == saved.profile
             h == statement.header
             Debit(i) == Text(Cell(h, statement.rows[i], p.money.debit))
             Credit(i) == Text(Cell(h, statement.rows[i], p.money.credit))
  <1>1. p \in Mapping /\ statement \in Statement /\ Valid(p, statement)
    BY DEF ReviewInv, SavedSound, Confirmable
  <1>2. ~Unreadable(p, h)
    BY DEF ReviewInv, SavedSound, Storable, Unreadable
  <1>3. p.money.kind = "debit_credit" =>
            /\ \A i \in Sampled(statement) : ~BothPopulated(p, Debit(i), Credit(i))
            /\ Sampled(statement) # {} =>
                 \E i \in Sampled(statement) : ~NeitherPopulated(p, Debit(i), Credit(i))
    <2> SUFFICES ASSUME p.money.kind = "debit_credit"
        PROVE  /\ \A i \in Sampled(statement) : ~BothPopulated(p, Debit(i), Credit(i))
               /\ Sampled(statement) # {} =>
                    \E i \in Sampled(statement) : ~NeitherPopulated(p, Debit(i), Credit(i))
      OBVIOUS
    <2>1. ~MoneyContradicted(p, statement)
      BY <1>1 DEF Valid, MoneyFits
    <2>2. \A i : /\ SampledCell(statement, statement.rows[i], p.money.debit) = Debit(i)
                 /\ SampledCell(statement, statement.rows[i], p.money.credit) = Credit(i)
      BY <1>1, <1>2, SameSides
    <2> QED BY <2>1, <2>2 DEF MoneyContradicted
  <1>4. ASSUME NEW i \in Sampled(statement)
        PROVE  ~Refused(p, statement, i, "both_debit_and_credit_populated")
    <2>1. CASE p.money.kind = "debit_credit"
      BY <1>1, <1>3, <1>4, <2>1, BothIsCounted
    <2>2. CASE p.money.kind = "amount_direction"
      BY <1>1, <2>2, MarkedIsOneSided
    <2> QED BY <1>1, <2>1, <2>2, MappingReviewAssumption
  <1>5. ASSUME Sampled(statement) # {}, p.money.kind = "debit_credit"
        PROVE  \E i \in Sampled(statement) : HalfBlank(p, statement, i)
                   \/ ~Refused(p, statement, i, "neither_amount_populated")
    BY <1>1, <1>3, <1>5, NeitherIsCounted
  <1>6. ASSUME NEW j \in Sampled(statement), Text(Cell(h, statement.rows[j], p.date)) # Blank
        PROVE  \E i \in Sampled(statement) : ReadDate(p, h, statement.rows[i]) # NoValue
    <2>1. \A i : SampledCell(statement, statement.rows[i], p.date)
                  = Text(Cell(h, statement.rows[i], p.date))
      <3>1. p.date \in DeclaredColumns(p)
        BY <1>1, MappingReviewAssumption DEF DeclaredColumns
      <3>2. p.date \in ColumnNames(statement) /\ \E k \in DOMAIN h : h[k] = p.date
        BY <1>1, <1>2, <3>1 DEF Valid, Unreadable
      <3> QED BY <1>1, <3>2, SameCell
    <2>2. Evidence(p, statement) # {}
      BY <1>6, <2>1 DEF Evidence, SampledCells
    <2>3. PICK d \in ReadDates(p, statement) : TRUE
      BY <1>1, <2>2 DEF Valid, Contradicted
    <2>4. PICK i \in Sampled(statement) : d = SampledCell(statement, statement.rows[i], p.date)
      BY DEF ReadDates, Evidence, SampledCells
    <2> QED BY <2>1, <2>3, <2>4 DEF ReadDates, Reads, ReadDate
  <1> QED BY <1>2, <1>4, <1>5, <1>6

----------------------------------------------------------------------------
(* A feed and the set of its rows *)

\* The rows of a settlement that are kept, and those that are excluded.
GroupRows(feed, s) == {feed[i] : i \in Group(feed, s)}
ExcludedRows(feed, s) == {feed[i] : i \in ExcludedOf(feed, s)}

\* Two feeds say the same of a settlement.
Alike(f, g, s) ==
    GroupRows(f, s) = GroupRows(g, s) /\ ExcludedRows(f, s) = ExcludedRows(g, s)

\* Nothing else is said under the row's entity.
Unopposed(row, rows) == \A r \in rows : r.entity = row.entity => r = row

\* A function that keeps elements apart keeps their number.
LEMMA ImageHasAsMany ==
    ASSUME NEW S, IsFiniteSet(S), NEW f, DOMAIN f = S, f = [x \in S |-> f[x]],
           \A x, y \in S : f[x] = f[y] => x = y
    PROVE  Cardinality({f[x] : x \in S}) = Cardinality(S)
  <1> DEFINE T == {f[x] : x \in S}
  <1>1. f \in [S -> T] /\ \A t \in T : \E x \in S : f[x] = t
    OBVIOUS
  <1>2. f \in Bijection(S, T)
    <2> HIDE DEF T
    <2> QED BY <1>1 DEF Bijection, Injection, Surjection, IsInjective
  <1>3. ExistsBijection(S, T)
    BY <1>2 DEF ExistsBijection
  <1> QED BY <1>3, FS_Bijection

\* Of the copies of an entity that agree, one is kept.
LEMMA AgreedIsKept ==
    ASSUME NEW feed \in Seq(FeedRow), NEW i \in DOMAIN feed, Agreed(feed, i)
    PROVE  \E k \in Kept(feed) : feed[k] = feed[i]
  <1>1. Copies(feed, i) \in SUBSET Nat /\ i \in Copies(feed, i)
    BY DEF Copies
  <1>2. PICK k \in Copies(feed, i) : \A j \in Copies(feed, i) : k <= j
    BY <1>1, LeastElement
  <1>3. k \in DOMAIN feed /\ feed[k] = feed[i] /\ Copies(feed, k) = Copies(feed, i)
    BY <1>2 DEF Agreed, Copies
  <1> QED BY <1>2, <1>3 DEF Kept, Agreed

\* What a feed says of a settlement is a matter of which rows it has.
LEMMA RowsDecide ==
    ASSUME NEW feed \in Seq(FeedRow), NEW s
    PROVE  /\ GroupRows(feed, s) =
                {row \in Range(feed) : row.settlement = s /\ Unopposed(row, Range(feed))}
           /\ ExcludedRows(feed, s) =
                {row \in Range(feed) : row.settlement = s /\ ~Unopposed(row, Range(feed))}
  <1>1. ASSUME NEW i \in DOMAIN feed
        PROVE  Agreed(feed, i) <=> Unopposed(feed[i], Range(feed))
    BY DEF Agreed, Copies, Unopposed, Range
  <1>2. ASSUME NEW row \in Range(feed), row.settlement = s, Unopposed(row, Range(feed))
        PROVE  row \in GroupRows(feed, s)
    <2>1. PICK i \in DOMAIN feed : feed[i] = row
      BY DEF Range
    <2>2. PICK k \in Kept(feed) : feed[k] = row
      BY <1>1, <1>2, <2>1, AgreedIsKept
    <2> QED BY <1>2, <2>2 DEF GroupRows, Group
  <1>3. ASSUME NEW row \in Range(feed), row.settlement = s, ~Unopposed(row, Range(feed))
        PROVE  row \in ExcludedRows(feed, s)
    <2>1. PICK i \in DOMAIN feed : feed[i] = row
      BY DEF Range
    <2> QED BY <1>1, <1>3, <2>1 DEF ExcludedRows, ExcludedOf, Excluded
  <1>4. ASSUME NEW row \in GroupRows(feed, s)
        PROVE  row \in Range(feed) /\ row.settlement = s /\ Unopposed(row, Range(feed))
    <2>1. PICK i \in Group(feed, s) : feed[i] = row
      BY DEF GroupRows
    <2> QED BY <1>1, <2>1 DEF Group, Kept, Range
  <1>5. ASSUME NEW row \in ExcludedRows(feed, s)
        PROVE  row \in Range(feed) /\ row.settlement = s /\ ~Unopposed(row, Range(feed))
    <2>1. PICK i \in ExcludedOf(feed, s) : feed[i] = row
      BY DEF ExcludedRows
    <2> QED BY <1>1, <2>1 DEF ExcludedOf, Excluded, Range
  <1> QED BY <1>2, <1>3, <1>4, <1>5

\* The rows that are kept are of distinct entities.
LEMMA GroupIs ==
    ASSUME NEW feed \in Seq(FeedRow), NEW s
    PROVE  /\ Group(feed, s) \subseteq DOMAIN feed /\ IsFiniteSet(Group(feed, s))
           /\ \A i \in Group(feed, s) : feed[i] \in FeedRow
           /\ \A i, j \in Kept(feed) : feed[i].entity = feed[j].entity => i = j
           /\ \A i, j \in Group(feed, s) : feed[i].entity = feed[j].entity => i = j
           /\ GroupRows(feed, s) \subseteq FeedRow /\ IsFiniteSet(GroupRows(feed, s))
           /\ \A q, r \in GroupRows(feed, s) : q.entity = r.entity => q = r
  <1>1. Group(feed, s) \subseteq DOMAIN feed /\ Kept(feed) \subseteq DOMAIN feed
        /\ Group(feed, s) \subseteq Kept(feed) /\ DOMAIN feed = 1 .. Len(feed)
        /\ Len(feed) \in Nat
    BY LenProperties DEF Group, Kept
  <1>2. IsFiniteSet(DOMAIN feed)
    BY <1>1, FS_Interval
  <1>3. IsFiniteSet(Group(feed, s))
    BY <1>1, <1>2, FS_Subset
  <1>4. \A i \in Group(feed, s) : feed[i] \in FeedRow
    BY <1>1, ElementOfSeq
  <1>5. \A i, j \in Kept(feed) : feed[i].entity = feed[j].entity => i = j
    <2> SUFFICES ASSUME NEW i \in Kept(feed), NEW j \in Kept(feed),
                        feed[i].entity = feed[j].entity
        PROVE  i = j
      OBVIOUS
    <2>1. j \in Copies(feed, i) /\ i \in Copies(feed, j)
      BY <1>1 DEF Copies
    <2>2. i <= j /\ j <= i /\ i \in Nat /\ j \in Nat
      BY <1>1, <2>1 DEF Kept
    <2> QED BY <2>2
  <1>6. GroupRows(feed, s) \subseteq FeedRow
    BY <1>4 DEF GroupRows
  <1>7. \A q, r \in GroupRows(feed, s) : q.entity = r.entity => q = r
    BY <1>1, <1>5 DEF GroupRows
  <1>8. IsFiniteSet(GroupRows(feed, s))
    <2>1. PICK one : one = [i \in Group(feed, s) |-> 0]
      OBVIOUS
    <2>2. PICK zero : zero = [row \in GroupRows(feed, s) |-> 0]
      OBVIOUS
    <2>3. \A i, j \in Group(feed, s) : feed[i] = feed[j] => i = j
      BY <1>1, <1>5
    <2>4. \A row \in GroupRows(feed, s) : zero[row] \in Int
      BY <2>2
    <2>5. \A i \in Group(feed, s) : one[i] = zero[feed[i]]
      BY <2>1, <2>2 DEF GroupRows
    <2> QED BY <1>3, <2>3, <2>4, <2>5, SumReindexed DEF GroupRows
  <1> QED BY <1>1, <1>3, <1>4, <1>5, <1>6, <1>7, <1>8

\* A total over the kept rows of a settlement is one over the set of them.
LEMMA GroupTotal ==
    ASSUME NEW feed \in Seq(FeedRow), NEW s, NEW h, \A row \in FeedRow : h[row] \in Int,
           NEW v, \A i \in DOMAIN feed : v[i] = h[feed[i]]
    PROVE  SumFunctionOnSet(v, Group(feed, s)) = SumFunctionOnSet(h, GroupRows(feed, s))
  <1>1. /\ Group(feed, s) \subseteq DOMAIN feed /\ IsFiniteSet(Group(feed, s))
        /\ \A i, j \in Group(feed, s) : feed[i] = feed[j] => i = j
        /\ GroupRows(feed, s) \subseteq FeedRow
    BY GroupIs
  <1>2. /\ \A row \in GroupRows(feed, s) : h[row] \in Int
        /\ \A i \in Group(feed, s) : v[i] = h[feed[i]]
    BY <1>1
  <1>3. GroupRows(feed, s) = {feed[i] : i \in Group(feed, s)}
    BY DEF GroupRows
  <1> QED BY <1>1, <1>2, <1>3, SumReindexed

LEMMA TotalsAre ==
    ASSUME NEW feed \in Seq(FeedRow), NEW s
    PROVE  /\ FeeTotal(feed, s) =
                SumFunctionOnSet([row \in FeedRow |-> row.fee], GroupRows(feed, s))
           /\ TaxTotal(feed, s) =
                SumFunctionOnSet([row \in FeedRow |-> row.tax], GroupRows(feed, s))
           /\ FeeTotal(feed, s) \in Int /\ TaxTotal(feed, s) \in Int
  <1>1. \A row \in FeedRow : row.fee \in Int /\ row.tax \in Int
    BY IntakeAssumption
  <1>2. \A i \in DOMAIN feed : feed[i] \in FeedRow
    BY ElementOfSeq, LenProperties
  <1>3. PICK fee : fee = [row \in FeedRow |-> row.fee]
    OBVIOUS
  <1>4. PICK tax : tax = [row \in FeedRow |-> row.tax]
    OBVIOUS
  <1>5. PICK fees : fees = [i \in DOMAIN feed |-> feed[i].fee]
    OBVIOUS
  <1>6. PICK taxes : taxes = [i \in DOMAIN feed |-> feed[i].tax]
    OBVIOUS
  <1>7. /\ SumFunctionOnSet(fees, Group(feed, s)) = SumFunctionOnSet(fee, GroupRows(feed, s))
        /\ SumFunctionOnSet(taxes, Group(feed, s)) = SumFunctionOnSet(tax, GroupRows(feed, s))
    <2>1. /\ \A row \in FeedRow : fee[row] \in Int /\ tax[row] \in Int
          /\ \A i \in DOMAIN feed : fees[i] = fee[feed[i]] /\ taxes[i] = tax[feed[i]]
      BY <1>1, <1>2, <1>3, <1>4, <1>5, <1>6
    <2> QED BY <2>1, GroupTotal
  <1>8. /\ SumFunctionOnSet(fee, GroupRows(feed, s)) \in Int
        /\ SumFunctionOnSet(tax, GroupRows(feed, s)) \in Int
    <2>1. /\ IsFiniteSet(GroupRows(feed, s))
          /\ \A row \in GroupRows(feed, s) : fee[row] \in Int /\ tax[row] \in Int
      BY <1>1, <1>3, <1>4, GroupIs
    <2> QED BY <2>1, SumIs
  <1> QED BY <1>3, <1>4, <1>5, <1>6, <1>7, <1>8 DEF FeeTotal, TaxTotal

----------------------------------------------------------------------------
(* The order of the rows of a settlement *)

ByEntity(rows) == {e \in rows \X rows : e[1].entity < e[2].entity}

\* The k-th of a set of rows by entity.
InPlace(rows, k) ==
    CHOOSE r \in rows : Cardinality(Preceding(ByEntity(rows), rows, r)) = k - 1

\* Ordered lists each kept row of the settlement once, and which row is where depends
\* on the set of them alone.
LEMMA OrderedIs ==
    ASSUME NEW feed \in Seq(FeedRow), NEW s, NEW n, n = Cardinality(GroupRows(feed, s))
    PROVE  /\ n \in Nat /\ DOMAIN Ordered(feed, s) = 1 .. n /\ Len(Ordered(feed, s)) = n
           /\ Ordered(feed, s) \in Seq(Group(feed, s))
           /\ \A k \in 1 .. n :
                /\ Ordered(feed, s)[k] \in Group(feed, s)
                /\ feed[Ordered(feed, s)[k]] = InPlace(GroupRows(feed, s), k)
           /\ \A i \in Group(feed, s) : \E k \in 1 .. n : Ordered(feed, s)[k] = i
           /\ \A k, l \in 1 .. n : Ordered(feed, s)[k] = Ordered(feed, s)[l] => k = l
  <1>1. PICK I : I = Group(feed, s)
    OBVIOUS
  <1>2. PICK R : R = GroupRows(feed, s)
    OBVIOUS
  <1>3. /\ IsFiniteSet(I) /\ IsFiniteSet(R) /\ R = {feed[i] : i \in I} /\ n = Cardinality(R)
        /\ \A i \in I : feed[i] \in FeedRow /\ feed[i].entity \in Int
        /\ \A i, j \in I : feed[i].entity = feed[j].entity => i = j
        /\ \A r \in R : r.entity \in Int
        /\ \A q, r \in R : q.entity = r.entity => q = r
    BY <1>1, <1>2, GroupIs, IntakeAssumption DEF GroupRows
  <1>4. PICK less : less = {e \in I \X I : feed[e[1]].entity < feed[e[2]].entity}
    OBVIOUS
  <1>5. PICK lessR : lessR = ByEntity(R)
    OBVIOUS
  <1>6. /\ \A i, j \in I : <<i, j>> \in less <=> feed[i].entity < feed[j].entity
        /\ \A q, r \in R : <<q, r>> \in lessR <=> q.entity < r.entity
    BY <1>4, <1>5 DEF ByEntity
  <1>7. StrictOrder(less, I)
    <2>1. \A i, j, k \in I :
             feed[i].entity < feed[j].entity /\ feed[j].entity < feed[k].entity
             => feed[i].entity < feed[k].entity
      BY <1>3
    <2>2. \A i, j \in I : i = j \/ feed[i].entity < feed[j].entity \/ feed[j].entity < feed[i].entity
      BY <1>3
    <2>3. \A i \in I : ~(feed[i].entity < feed[i].entity)
      BY <1>3
    <2> QED BY <1>6, <2>1, <2>2, <2>3 DEF StrictOrder
  <1>8. StrictOrder(lessR, R)
    <2>1. \A p, q, r \in R : p.entity < q.entity /\ q.entity < r.entity => p.entity < r.entity
      BY <1>3
    <2>2. \A q, r \in R : q = r \/ q.entity < r.entity \/ r.entity < q.entity
      BY <1>3
    <2>3. \A r \in R : ~(r.entity < r.entity)
      BY <1>3
    <2> QED BY <1>6, <2>1, <2>2, <2>3 DEF StrictOrder
  <1>9. PICK f : f = [i \in I |-> feed[i]]
    OBVIOUS
  <1>10. Cardinality(I) = n
    <2>1. Cardinality({f[i] : i \in I}) = Cardinality(I)
      BY <1>3, <1>9, ImageHasAsMany
    <2>2. {f[i] : i \in I} = R
      BY <1>3, <1>9
    <2> QED BY <1>3, <2>1, <2>2
  <1>11. ASSUME NEW i \in I
         PROVE  Cardinality(Preceding(less, I, i)) = Cardinality(Preceding(lessR, R, feed[i]))
    <2>1. PICK J : J = Preceding(less, I, i)
      OBVIOUS
    <2>2. J \subseteq I /\ IsFiniteSet(J)
      BY <1>3, <2>1, FS_Subset DEF Preceding
    <2>3. PICK g : g = [j \in J |-> feed[j]]
      OBVIOUS
    <2>4. Cardinality({g[j] : j \in J}) = Cardinality(J)
      BY <1>3, <2>2, <2>3, ImageHasAsMany
    <2>5. {g[j] : j \in J} = Preceding(lessR, R, feed[i])
      <3>1. \A j \in I : j \in J <=> feed[j].entity < feed[i].entity
        BY <1>6, <2>1 DEF Preceding
      <3>2. \A j \in I : feed[j] \in Preceding(lessR, R, feed[i]) <=> feed[j].entity < feed[i].entity
        BY <1>3, <1>6 DEF Preceding
      <3>3. \A r \in Preceding(lessR, R, feed[i]) : \E j \in I : r = feed[j]
        BY <1>3 DEF Preceding
      <3> QED BY <2>2, <2>3, <3>1, <3>2, <3>3
    <2> QED BY <2>1, <2>4, <2>5
  <1>12. PICK order : order = Ordered(feed, s)
    OBVIOUS
  <1>13. order = [k \in 1 .. n |-> CHOOSE i \in I : Cardinality(Preceding(less, I, i)) = k - 1]
    BY <1>1, <1>4, <1>10, <1>12 DEF Ordered, Sorted, Preceding
  <1>14. ASSUME NEW k \in 1 .. n, \E i \in I : Cardinality(Preceding(less, I, i)) = k - 1
         PROVE  order[k] \in I /\ Cardinality(Preceding(less, I, order[k])) = k - 1
    <2>1. order[k] = CHOOSE i \in I : Cardinality(Preceding(less, I, i)) = k - 1
      BY <1>13
    <2> QED BY <1>14, <2>1
  <1>15. /\ n \in Nat /\ order \in [1 .. n -> I]
         /\ \A k \in 1 .. n : Cardinality(Preceding(less, I, order[k])) = k - 1
         /\ \A i \in I : \E k \in 1 .. n : order[k] = i
         /\ \A k, l \in 1 .. n : order[k] = order[l] => k = l
    <2>1. /\ n \in Nat
          /\ \A k \in 1 .. n :
               order[k] \in I /\ Cardinality(Preceding(less, I, order[k])) = k - 1
          /\ \A i \in I : \E k \in 1 .. n : order[k] = i
          /\ \A k, l \in 1 .. n : order[k] = order[l] => k = l
      <3>1. \A k \in 1 .. Cardinality(I) :
               (\E i \in I : Cardinality(Preceding(less, I, i)) = k - 1) =>
               order[k] \in I /\ Cardinality(Preceding(less, I, order[k])) = k - 1
        BY <1>10, <1>14
      <3>2. /\ \A k \in 1 .. Cardinality(I) :
                 order[k] \in I /\ Cardinality(Preceding(less, I, order[k])) = k - 1
            /\ \A i \in I : \E k \in 1 .. Cardinality(I) : order[k] = i
            /\ \A k, l \in 1 .. Cardinality(I) : order[k] = order[l] => k = l
        <4>1. IsFiniteSet(I)
          BY <1>3
        <4> QED BY <1>7, <3>1, <4>1, PlacesAreListed
      <3>3. n \in Nat
        BY <1>3, FS_CardinalityType
      <3> QED BY <1>10, <3>2, <3>3
    <2>2. order \in [1 .. n -> I]
      BY <1>13, <2>1
    <2> QED BY <2>1, <2>2
  <1>16. \A q, r \in R :
            Cardinality(Preceding(lessR, R, q)) = Cardinality(Preceding(lessR, R, r)) => q = r
    BY <1>3, <1>8, EachPlaceIsTaken
  <1>17. ASSUME NEW k \in 1 .. n PROVE feed[order[k]] = InPlace(R, k)
    <2>1. PICK r : r = feed[order[k]]
      OBVIOUS
    <2>2. r \in R /\ Cardinality(Preceding(lessR, R, r)) = k - 1
      BY <1>3, <1>11, <1>15, <2>1
    <2>3. \A q \in R : Cardinality(Preceding(lessR, R, q)) = k - 1 => q = r
      BY <1>16, <2>2
    <2> QED BY <1>5, <2>1, <2>2, <2>3 DEF InPlace
  <1>18. order \in Seq(I) /\ DOMAIN order = 1 .. n /\ Len(order) = n
    <2>1. order \in Seq(I)
      BY <1>15
    <2> QED BY <1>15, <2>1, LenProperties
  <1> QED BY <1>1, <1>2, <1>12, <1>15, <1>17, <1>18

\* The lines of a breakup that stand for rows, of the set of rows.
RowLine(row) == Line(row.type, Principal(row), LineReference(row))
RowLines(rows) == [k \in 1 .. Cardinality(rows) |-> RowLine(InPlace(rows, k))]

LEMMA BreakupIs ==
    ASSUME NEW feed \in Seq(FeedRow), NEW s
    PROVE  Breakup(feed, s) = RowLines(GroupRows(feed, s)) \o Deductions(feed, s)
  <1>1. PICK n : n = Cardinality(GroupRows(feed, s))
    OBVIOUS
  <1>2. PICK order : order = Ordered(feed, s)
    OBVIOUS
  <1>3. Len(order) = n /\ \A k \in 1 .. n : feed[order[k]] = InPlace(GroupRows(feed, s), k)
    BY <1>1, <1>2, OrderedIs
  <1>4. [k \in 1 .. n |-> RowLine(feed[order[k]])] = RowLines(GroupRows(feed, s))
    BY <1>1, <1>3 DEF RowLines
  <1> QED BY <1>2, <1>3, <1>4 DEF Breakup, RowLine

LEMMA DeductionsSame ==
    ASSUME NEW f \in Seq(FeedRow), NEW g \in Seq(FeedRow), NEW s, Alike(f, g, s)
    PROVE  /\ FeeTotal(f, s) = FeeTotal(g, s) /\ TaxTotal(f, s) = TaxTotal(g, s)
           /\ Deductions(f, s) = Deductions(g, s)
           /\ Breakup(f, s) = Breakup(g, s) /\ BreakupTotal(f, s) = BreakupTotal(g, s)
  <1>1. FeeTotal(f, s) = FeeTotal(g, s) /\ TaxTotal(f, s) = TaxTotal(g, s)
    BY TotalsAre DEF Alike
  <1>2. Deductions(f, s) = Deductions(g, s)
    BY <1>1 DEF Deductions
  <1>3. Breakup(f, s) = Breakup(g, s)
    BY <1>2, BreakupIs DEF Alike
  <1> QED BY <1>1, <1>2, <1>3 DEF BreakupTotal
----------------------------------------------------------------------------
(* The books of a settlement balance *)

\* The sum of a sequence of one number or two, or of none.
LEMMA SumOfFew ==
    ASSUME NEW n \in Nat, NEW v, NEW m \in 0 .. 2, \A k \in n + 1 .. n + m : v[k] \in Int
    PROVE  /\ m = 0 => SumFunctionOnSet(v, n + 1 .. n + m) = 0
           /\ m = 1 => SumFunctionOnSet(v, n + 1 .. n + m) = v[n + 1]
           /\ m = 2 => SumFunctionOnSet(v, n + 1 .. n + m) = v[n + 1] + v[n + 2]
  <1>1. CASE m = 0
    <2>1. n + 1 .. n + m = {}
      BY <1>1
    <2> QED BY <1>1, <2>1, SumEmpty
  <1>2. ASSUME NEW a, v[a] \in Int
        PROVE  SumFunctionOnSet(v, {a}) = v[a]
    <2>1. IsFiniteSet({a}) /\ {a} \ {a} = {} /\ a \in {a} /\ \A y \in {a} : v[y] \in Int
      BY <1>2, FS_Singleton
    <2>2. SumFunctionOnSet(v, {a}) = v[a] + SumFunctionOnSet(v, {a} \ {a})
      BY <2>1, SumRemove
    <2> QED BY <1>2, <2>1, <2>2, SumEmpty
  <1>3. CASE m = 1
    <2>1. n + 1 .. n + m = {n + 1} /\ v[n + 1] \in Int
      BY <1>3
    <2> QED BY <1>2, <1>3, <2>1
  <1>4. CASE m = 2
    <2>1. n + 1 .. n + m = {n + 1, n + 2} /\ v[n + 1] \in Int /\ v[n + 2] \in Int
      BY <1>4
    <2>2. {n + 1, n + 2} \ {n + 1} = {n + 2}
      OBVIOUS
    <2>3. IsFiniteSet(n + 1 .. n + m)
      BY FS_Interval
    <2>4. n + 1 \in n + 1 .. n + m
      BY <1>4
    <2>5. SumFunctionOnSet(v, n + 1 .. n + m)
          = v[n + 1] + SumFunctionOnSet(v, (n + 1 .. n + m) \ {n + 1})
      BY <2>3, <2>4, SumRemove
    <2>6. SumFunctionOnSet(v, (n + 1 .. n + m) \ {n + 1}) = v[n + 2]
      BY <1>2, <2>1, <2>2
    <2> QED BY <1>4, <2>5, <2>6
  <1> QED BY <1>1, <1>3, <1>4

\* A deduction of nothing is no line.
LEMMA DeductionIs ==
    ASSUME NEW type, NEW amount \in Int, NEW D, D = Deduction(type, amount)
    PROVE  /\ D \in Seq(Range(D)) /\ Len(D) \in {0, 1}
           /\ Len(D) = 0 => amount = 0
           /\ Len(D) = 1 => /\ D[1].amount = -amount /\ -amount \in Int
                            /\ D[1].type = type
  <1>1. PICK l : l = Line(type, -amount, NoValue)
    OBVIOUS
  <1>2. l.amount = -amount /\ l.type = type
    BY <1>1 DEF Line
  <1>3. D = IF amount = 0 THEN <<>> ELSE <<l>>
    BY <1>1 DEF Deduction
  <1>4. CASE amount = 0
    <2>1. D = <<>>
      BY <1>3, <1>4
    <2>2. PICK S : S = Range(D)
      OBVIOUS
    <2>3. D \in Seq(S) /\ Len(D) = 0
      BY <2>1
    <2> QED BY <1>4, <2>2, <2>3
  <1>5. CASE amount # 0
    <2>1. D = <<l>>
      BY <1>3, <1>5
    <2>2. DOMAIN D = 1 .. 1 /\ D[1] = l /\ Len(D) = 1 /\ D \in Seq({l})
      BY <2>1
    <2>3. l \in Range(D)
      BY <2>2 DEF Range
    <2>4. Range(D) = {l}
      BY <2>2 DEF Range
    <2> QED BY <1>2, <2>2, <2>4
  <1> QED BY <1>4, <1>5

\* The lines of the deductions are two at most, and come to the fee.
ComesTo(D, fee) ==
    /\ \E S : D \in Seq(S)
    /\ Len(D) \in 0 .. 2
    /\ \A k \in 1 .. Len(D) : D[k].amount \in Int /\ D[k].type \in {"fee", "tax"}
    /\ Len(D) = 0 => fee = 0
    /\ Len(D) = 1 => D[1].amount = -fee
    /\ Len(D) = 2 => D[1].amount + D[2].amount = -fee

LEMMA DeductionsAre ==
    ASSUME NEW feed \in Seq(FeedRow), NEW s
    PROVE  ComesTo(Deductions(feed, s), FeeTotal(feed, s))
  <1>4. PICK D : D = Deductions(feed, s)
    OBVIOUS
  <1>5. PICK fee \in Int : fee = FeeTotal(feed, s)
    BY TotalsAre
  <1>6. PICK tax \in Int : tax = TaxTotal(feed, s)
    BY TotalsAre
  <1>1. D = Deductions(feed, s) /\ fee = FeeTotal(feed, s) /\ tax = TaxTotal(feed, s)
    BY <1>4, <1>5, <1>6
  <1> SUFFICES ComesTo(D, fee)
    BY <1>1
  <1>2. CASE tax > fee
    <2>1. D = Deduction("fee", fee)
      BY <1>1, <1>2 DEF Deductions
    <2>2. /\ D \in Seq(Range(D)) /\ Len(D) \in {0, 1}
          /\ Len(D) = 0 => fee = 0
          /\ Len(D) = 1 => D[1].amount = -fee /\ -fee \in Int /\ D[1].type = "fee"
      BY <2>1, DeductionIs
    <2>3. CASE Len(D) = 0
      <3>1. \A k \in 1 .. Len(D) : FALSE
        BY <2>3
      <3> QED BY <2>2, <2>3, <3>1 DEF ComesTo
    <2>4. CASE Len(D) = 1
      <3>1. \A k \in 1 .. Len(D) : k = 1
        BY <2>4
      <3> QED BY <2>2, <2>4, <3>1 DEF ComesTo
    <2> QED BY <2>2, <2>3, <2>4
  <1>3. CASE ~(tax > fee)
    <2>1. PICK A : A = Deduction("fee", fee - tax)
      OBVIOUS
    <2>2. PICK B : B = Deduction("tax", tax)
      OBVIOUS
    <2>3. D = A \o B
      BY <1>1, <1>3, <2>1, <2>2 DEF Deductions
    <2>4. /\ A \in Seq(Range(A)) /\ Len(A) \in {0, 1}
          /\ Len(A) = 0 => fee - tax = 0
          /\ Len(A) = 1 => A[1].amount = -(fee - tax) /\ A[1].type = "fee"
      BY <2>1, DeductionIs
    <2>5. /\ B \in Seq(Range(B)) /\ Len(B) \in {0, 1}
          /\ Len(B) = 0 => tax = 0
          /\ Len(B) = 1 => B[1].amount = -tax /\ B[1].type = "tax"
      BY <2>2, DeductionIs
    <2>6. PICK S : S = Range(A) \cup Range(B)
      OBVIOUS
    <2>7. A \in Seq(S) /\ B \in Seq(S)
      BY <2>4, <2>5, <2>6
    <2>8. /\ D \in Seq(S) /\ Len(D) = Len(A) + Len(B)
          /\ \A k \in 1 .. Len(A) + Len(B) : D[k] = IF k <= Len(A) THEN A[k] ELSE B[k - Len(A)]
      BY <2>3, <2>7, ConcatProperties
    <2>13. \E T : D \in Seq(T)
      BY <2>8, Zenon
    <2>9. CASE Len(A) = 0 /\ Len(B) = 0
      <3>1. Len(D) = 0
        BY <2>8, <2>9
      <3>2. fee = 0
        BY <2>4, <2>5, <2>9
      <3>3. \A k \in 1 .. Len(D) : FALSE
        BY <3>1
      <3> QED BY <2>13, <3>1, <3>2, <3>3 DEF ComesTo
    <2>10. CASE Len(A) = 1 /\ Len(B) = 0
      <3>1. Len(D) = 1 /\ D[1] = A[1] /\ A[1].amount = -fee /\ A[1].type = "fee"
        BY <2>4, <2>5, <2>8, <2>10
      <3>2. \A k \in 1 .. Len(D) : D[k].amount \in Int /\ D[k].type \in {"fee", "tax"}
        BY <3>1
      <3>3. Len(D) \in 0 .. 2 /\ Len(D) # 0 /\ Len(D) # 2
        BY <3>1
      <3>4. D[1].amount = -fee
        BY <3>1
      <3> QED BY <2>13, <3>2, <3>3, <3>4 DEF ComesTo
    <2>11. CASE Len(A) = 0 /\ Len(B) = 1
      <3>1. Len(D) = 1 /\ D[1] = B[1] /\ B[1].amount = -fee /\ B[1].type = "tax"
        BY <2>4, <2>5, <2>8, <2>11
      <3>2. \A k \in 1 .. Len(D) : D[k].amount \in Int /\ D[k].type \in {"fee", "tax"}
        BY <3>1
      <3>3. Len(D) \in 0 .. 2 /\ Len(D) # 0 /\ Len(D) # 2
        BY <3>1
      <3>4. D[1].amount = -fee
        BY <3>1
      <3> QED BY <2>13, <3>2, <3>3, <3>4 DEF ComesTo
    <2>12. CASE Len(A) = 1 /\ Len(B) = 1
      <3>1. Len(D) = 2 /\ D[1] = A[1] /\ D[2] = B[1]
        BY <2>8, <2>12
      <3>2. /\ D[1].amount = -(fee - tax) /\ D[2].amount = -tax
            /\ D[1].type = "fee" /\ D[2].type = "tax"
        BY <2>4, <2>5, <2>12, <3>1
      <3>3. -(fee - tax) + (-tax) = -fee /\ -(fee - tax) \in Int /\ -tax \in Int
        OBVIOUS
      <3>4. \A k \in 1 .. Len(D) : D[k].amount \in Int /\ D[k].type \in {"fee", "tax"}
        <4>1. \A k \in 1 .. 2 : k = 1 \/ k = 2
          OBVIOUS
        <4> QED BY <3>1, <3>2, <3>3, <4>1
      <3>5. D[1].amount + D[2].amount = -fee
        BY <3>2, <3>3
      <3>6. Len(D) \in 0 .. 2 /\ Len(D) # 0 /\ Len(D) # 1
        BY <3>1
      <3> QED BY <2>13, <3>4, <3>5, <3>6 DEF ComesTo
    <2> QED BY <2>4, <2>5, <2>9, <2>10, <2>11, <2>12
  <1> QED BY <1>2, <1>3

\* A line for each of the n rows, in order, and m deductions, which come to the fee.
Shape(feed, s, n, m) ==
    LET lines == Breakup(feed, s) IN
    /\ DOMAIN lines = 1 .. n + m
    /\ \A k \in 1 .. n : /\ lines[k] = RowLine(feed[Ordered(feed, s)[k]])
                         /\ lines[k] = RowLine(InPlace(GroupRows(feed, s), k))
    /\ \A k \in n + 1 .. n + m : lines[k].amount \in Int /\ lines[k].type \in {"fee", "tax"}
    /\ m = 0 => FeeTotal(feed, s) = 0
    /\ m = 1 => lines[n + 1].amount = -FeeTotal(feed, s)
    /\ m = 2 => lines[n + 1].amount + lines[n + 2].amount = -FeeTotal(feed, s)

LEMMA BreakupShape ==
    ASSUME NEW feed \in Seq(FeedRow), NEW s
    PROVE  /\ Cardinality(GroupRows(feed, s)) \in Nat
           /\ \E m \in 0 .. 2 : Shape(feed, s, Cardinality(GroupRows(feed, s)), m)
  <1>16. PICK lines : lines = Breakup(feed, s)
    OBVIOUS
  <1>17. PICK order : order = Ordered(feed, s)
    OBVIOUS
  <1>18. PICK n \in Nat : n = Cardinality(GroupRows(feed, s))
    BY GroupIs, FS_CardinalityType
  <1>19. PICK fee \in Int : fee = FeeTotal(feed, s)
    BY TotalsAre
  <1>1. PICK D : D = Deductions(feed, s)
    OBVIOUS
  <1>2. /\ \E Ls : D \in Seq(Ls)
        /\ Len(D) \in 0 .. 2
        /\ \A k \in 1 .. Len(D) : D[k].amount \in Int /\ D[k].type \in {"fee", "tax"}
        /\ Len(D) = 0 => fee = 0
        /\ Len(D) = 1 => D[1].amount = -fee
        /\ Len(D) = 2 => D[1].amount + D[2].amount = -fee
    <2>1. ComesTo(D, fee)
      BY <1>1, <1>19, DeductionsAre
    <2> QED BY <2>1 DEF ComesTo
  <1>3. PICK m \in 0 .. 2 : m = Len(D)
    BY <1>2
  <1>4. PICK Ls : D \in Seq(Ls)
    BY <1>2
  <1>5. /\ Len(order) = n
        /\ \A k \in 1 .. n : feed[order[k]] = InPlace(GroupRows(feed, s), k)
    BY <1>17, <1>18, OrderedIs
  <1>6. PICK row : row = [k \in 1 .. n |-> RowLine(feed[order[k]])]
    OBVIOUS
  <1>7. lines = row \o D
    BY <1>1, <1>5, <1>6, <1>16, <1>17 DEF Breakup, RowLine
  <1>8. PICK S : S = {row[k] : k \in 1 .. n} \cup Ls
    OBVIOUS
  <1>9. row \in Seq(S) /\ Len(row) = n
    <2>1. row \in [1 .. n -> S]
      BY <1>6, <1>8
    <2>2. row \in Seq(S)
      BY <2>1
    <2> QED BY <2>1, <2>2, LenProperties
  <1>10. /\ lines \in Seq(S) /\ Len(lines) = n + m
         /\ \A k \in 1 .. n + m : lines[k] = IF k <= n THEN row[k] ELSE D[k - n]
    <2>1. D \in Seq(S) /\ Len(D) = m
      BY <1>3, <1>4, <1>8
    <2>2. PICK both : both = row \o D
      OBVIOUS
    <2>3. /\ both \in Seq(S) /\ Len(both) = n + m
          /\ \A k \in 1 .. n + m : both[k] = IF k <= n THEN row[k] ELSE D[k - n]
      BY <1>9, <2>1, <2>2, ConcatProperties
    <2> QED BY <1>7, <2>2, <2>3
  <1>11. DOMAIN lines = 1 .. n + m
    BY <1>10, LenProperties
  <1>12. \A k \in 1 .. n : lines[k] = row[k]
    <2>1. \A k \in 1 .. n : k \in 1 .. n + m /\ k <= n
      BY <1>3
    <2> QED BY <1>10, <2>1
  <1>13. \A k \in 1 .. m : n + k \in 1 .. n + m /\ lines[n + k] = D[k]
    <2>1. \A k \in 1 .. m : n + k \in 1 .. n + m /\ ~(n + k <= n) /\ (n + k) - n = k
      BY <1>3
    <2> QED BY <1>10, <2>1
  <1>14. \A k \in n + 1 .. n + m : lines[k].amount \in Int /\ lines[k].type \in {"fee", "tax"}
    <2> SUFFICES ASSUME NEW k \in n + 1 .. n + m
        PROVE  lines[k].amount \in Int /\ lines[k].type \in {"fee", "tax"}
      OBVIOUS
    <2>1. PICK j \in 1 .. m : k = n + j
      <3>1. k - n \in 1 .. m /\ k = n + (k - n)
        BY <1>3
      <3> QED BY <3>1
    <2> QED BY <1>2, <1>3, <1>13, <2>1
  <1>15. /\ m = 0 => fee = 0
         /\ m = 1 => lines[n + 1].amount = -fee
         /\ m = 2 => lines[n + 1].amount + lines[n + 2].amount = -fee
    <2>1. m = 1 => lines[n + 1] = D[1]
      BY <1>13
    <2>2. m = 2 => lines[n + 1] = D[1] /\ lines[n + 2] = D[2]
      <3>1. m = 2 => 1 \in 1 .. m /\ 2 \in 1 .. m
        BY <1>3
      <3> QED BY <1>13, <3>1
    <2> QED BY <1>2, <1>3, <2>1, <2>2
  <1>20. Shape(feed, s, n, m)
    <2>1. \A k \in 1 .. n : /\ lines[k] = RowLine(feed[order[k]])
                            /\ lines[k] = RowLine(InPlace(GroupRows(feed, s), k))
      BY <1>5, <1>6, <1>12
    <2> QED BY <1>11, <1>14, <1>15, <1>16, <1>17, <1>19, <2>1 DEF Shape
  <1> QED BY <1>18, <1>20

\* What the lines come to is what the rows moved.
LEMMA Balanced ==
    ASSUME NEW feed \in Seq(FeedRow), NEW s
    PROVE  BreakupTotal(feed, s) = SourceNet(feed, s) /\ SourceNet(feed, s) \in Int
  <1>1. PICK I : I = Group(feed, s)
    OBVIOUS
  <1>2. PICK n : n = Cardinality(GroupRows(feed, s))
    OBVIOUS
  <1>3. PICK order : order = Ordered(feed, s)
    OBVIOUS
  <1>5. PICK lines : lines = Breakup(feed, s)
    OBVIOUS
  <1>6. PICK fee \in Int : fee = FeeTotal(feed, s)
    BY TotalsAre
  <1>7. n \in Nat
    BY <1>2, BreakupShape
  <1>69. PICK m \in 0 .. 2 : Shape(feed, s, n, m)
    BY <1>2, BreakupShape
  <1>70. /\ DOMAIN lines = 1 .. n + m
         /\ \A k \in 1 .. n : lines[k] = RowLine(feed[order[k]])
         /\ \A k \in n + 1 .. n + m : lines[k].amount \in Int
         /\ m = 0 => fee = 0
         /\ m = 1 => lines[n + 1].amount = -fee
         /\ m = 2 => lines[n + 1].amount + lines[n + 2].amount = -fee
    BY <1>3, <1>5, <1>6, <1>69 DEF Shape
  <1>8. /\ n \in Nat /\ Len(order) = n
        /\ \A k \in 1 .. n : order[k] \in I
        /\ \A i \in I : \E k \in 1 .. n : order[k] = i
        /\ \A k, l \in 1 .. n : order[k] = order[l] => k = l
    BY <1>1, <1>2, <1>3, OrderedIs
  <1>9. /\ I \subseteq DOMAIN feed /\ IsFiniteSet(I)
        /\ \A i \in I : /\ feed[i] \in FeedRow /\ feed[i].credit \in Int
                        /\ feed[i].debit \in Int /\ feed[i].fee \in Int
    <2>1. I \subseteq DOMAIN feed /\ IsFiniteSet(I) /\ \A i \in I : feed[i] \in FeedRow
      BY <1>1, GroupIs
    <2> QED BY <2>1, IntakeAssumption
  <1>10. PICK net : net = [i \in DOMAIN feed |-> feed[i].credit - feed[i].debit]
    OBVIOUS
  <1>11. PICK fees : fees = [i \in DOMAIN feed |-> feed[i].fee]
    OBVIOUS
  <1>12. PICK principal : principal = [i \in DOMAIN feed |-> net[i] + fees[i]]
    OBVIOUS
  <1>13. /\ \A i \in I : net[i] \in Int /\ fees[i] \in Int
         /\ \A i \in I : principal[i] = net[i] + fees[i] /\ principal[i] = Principal(feed[i])
         /\ \A i \in I : principal[i] \in Int
    <2>1. \A i \in I : i \in DOMAIN feed
      BY <1>9
    <2>2. \A i \in I : net[i] = feed[i].credit - feed[i].debit /\ fees[i] = feed[i].fee
      BY <1>10, <1>11, <2>1
    <2>3. \A i \in I : principal[i] = net[i] + fees[i]
      BY <1>12, <2>1
    <2>4. \A i \in I : net[i] \in Int /\ fees[i] \in Int
      BY <1>9, <2>2
    <2>5. \A i \in I : principal[i] = Principal(feed[i])
      BY <2>2, <2>3 DEF Principal
    <2>6. \A i \in I : principal[i] \in Int
      BY <2>3, <2>4
    <2> QED BY <2>3, <2>4, <2>5, <2>6
  <1>14. PICK v : v = [k \in DOMAIN lines |-> lines[k].amount]
    OBVIOUS
  <1>19. /\ \A k \in 1 .. n : v[k] = principal[order[k]]
         /\ \A k \in n + 1 .. n + m : v[k] = lines[k].amount /\ v[k] \in Int
    <2>1. ASSUME NEW k \in 1 .. n PROVE v[k] = principal[order[k]]
      <3>1. k \in DOMAIN lines
        BY <1>70, <1>8
      <3>2. v[k] = lines[k].amount /\ lines[k] = RowLine(feed[order[k]])
        BY <1>14, <1>70, <3>1
      <3>3. RowLine(feed[order[k]]).amount = Principal(feed[order[k]])
        BY DEF RowLine, Line
      <3> QED BY <1>8, <1>13, <3>2, <3>3
    <2>2. ASSUME NEW k \in n + 1 .. n + m PROVE v[k] = lines[k].amount /\ v[k] \in Int
      <3>1. k \in DOMAIN lines
        BY <1>70, <1>8
      <3> QED BY <1>14, <1>70, <3>1
    <2> QED BY <2>1, <2>2
  <1>20. SumFunctionOnSet(v, 1 .. n) = SumFunctionOnSet(principal, I)
    <2>1. PICK N : N = 1 .. n
      OBVIOUS
    <2>2. IsFiniteSet(N)
      BY <1>8, <2>1, FS_Interval
    <2>3. I = {order[k] : k \in N}
      BY <1>8, <2>1
    <2>4. \A k, l \in N : order[k] = order[l] => k = l
      BY <1>8, <2>1
    <2>5. \A k \in N : v[k] = principal[order[k]]
      BY <1>19, <2>1
    <2>6. \A i \in I : principal[i] \in Int
      BY <1>13
    <2>7. SumFunctionOnSet(principal, I) = SumFunctionOnSet(v, N)
      BY <2>2, <2>3, <2>4, <2>5, <2>6, SumReindexed
    <2> QED BY <2>1, <2>7
  <1>21. SumFunctionOnSet(principal, I) = SumFunctionOnSet(net, I) + SumFunctionOnSet(fees, I)
    BY <1>9, <1>13, SumPlus
  <1>22. /\ SumFunctionOnSet(v, n + 1 .. n + m) \in Int
         /\ SumFunctionOnSet(v, n + 1 .. n + m) + fee = 0
    <2>1. /\ m = 0 => SumFunctionOnSet(v, n + 1 .. n + m) = 0
          /\ m = 1 => SumFunctionOnSet(v, n + 1 .. n + m) = v[n + 1]
          /\ m = 2 => SumFunctionOnSet(v, n + 1 .. n + m) = v[n + 1] + v[n + 2]
      <3>1. n \in Nat /\ m \in 0 .. 2 /\ \A k \in n + 1 .. n + m : v[k] \in Int
        BY <1>70, <1>8, <1>19
      <3> QED BY <3>1, SumOfFew
    <2>2. m = 1 => v[n + 1] = lines[n + 1].amount
      <3>1. m = 1 => n + 1 \in n + 1 .. n + m
        BY <1>8
      <3> QED BY <1>19, <3>1
    <2>3. m = 2 => v[n + 1] = lines[n + 1].amount /\ v[n + 2] = lines[n + 2].amount
      <3>1. m = 2 => n + 1 \in n + 1 .. n + m /\ n + 2 \in n + 1 .. n + m
        BY <1>8
      <3> QED BY <1>19, <3>1
    <2>4. m = 0 \/ m = 1 \/ m = 2
      BY <1>70
    <2>5. CASE m = 0
      BY <1>70, <2>1, <2>5
    <2>6. CASE m # 0
      <3>1. SumFunctionOnSet(v, n + 1 .. n + m) = -fee
        BY <1>70, <2>1, <2>2, <2>3, <2>4, <2>6
      <3> QED BY <3>1
    <2> QED BY <2>5, <2>6
  <1>23. SumFunctionOnSet(v, 1 .. n + m)
         = SumFunctionOnSet(v, 1 .. n) + SumFunctionOnSet(v, n + 1 .. n + m)
    <2>1. PICK A : A = 1 .. n
      OBVIOUS
    <2>2. PICK B : B = n + 1 .. n + m
      OBVIOUS
    <2>3. 1 .. n + m = A \cup B /\ A \cap B = {}
      BY <1>70, <1>8, <2>1, <2>2
    <2>4. n + 1 \in Int /\ n + m \in Int /\ 1 \in Int /\ n \in Int
      BY <1>70, <1>8
    <2>5. IsFiniteSet(A) /\ IsFiniteSet(B)
      BY <2>1, <2>2, <2>4, FS_Interval
    <2>6. \A k \in A : v[k] \in Int
      BY <1>8, <1>13, <1>19, <2>1
    <2>7. \A k \in B : v[k] \in Int
      BY <1>19, <2>2
    <2>8. SumFunctionOnSet(v, A \cup B) = SumFunctionOnSet(v, A) + SumFunctionOnSet(v, B)
      BY <2>3, <2>5, <2>6, <2>7, SumUnion
    <2> QED BY <2>1, <2>2, <2>3, <2>8
  <1>24. SumFunctionOnSet(fees, I) = fee /\ SumFunctionOnSet(net, I) = SourceNet(feed, s)
    BY <1>1, <1>6, <1>10, <1>11 DEF FeeTotal, SourceNet
  <1>25. SumFunctionOnSet(v, 1 .. n + m) = BreakupTotal(feed, s)
    BY <1>5, <1>14, <1>70 DEF BreakupTotal
  <1>26. SumFunctionOnSet(net, I) \in Int
    BY <1>9, <1>13, SumIs
  <1>27. \A a, b, c \in Int : c + b = 0 => (a + b) + c = a
    OBVIOUS
  <1> QED BY <1>6, <1>20, <1>21, <1>22, <1>23, <1>24, <1>25, <1>26, <1>27
----------------------------------------------------------------------------
(* What a feed says of a settlement is said by its own rows *)

LEMMA SettlementsNamedIs ==
    ASSUME NEW feed \in Seq(FeedRow)
    PROVE  /\ SettlementsNamed(feed) = {row.settlement : row \in Range(feed)}
           /\ \A s : s \in SettlementsNamed(feed)
                     <=> GroupRows(feed, s) # {} \/ ExcludedRows(feed, s) # {}
           /\ \A s : Group(feed, s) = {} <=> GroupRows(feed, s) = {}
  <1>1. ASSUME NEW s
        PROVE  s \in SettlementsNamed(feed)
               <=> GroupRows(feed, s) # {} \/ ExcludedRows(feed, s) # {}
    BY DEF SettlementsNamed, GroupRows, ExcludedRows, Group, ExcludedOf
  <1>2. ASSUME NEW s
        PROVE  s \in SettlementsNamed(feed) <=> \E row \in Range(feed) : row.settlement = s
    <2>1. GroupRows(feed, s) \cup ExcludedRows(feed, s)
          = {row \in Range(feed) : row.settlement = s}
      BY RowsDecide
    <2> QED BY <1>1, <2>1
  <1>3. SettlementsNamed(feed) = {row.settlement : row \in Range(feed)}
    BY <1>2
  <1> QED BY <1>1, <1>3 DEF GroupRows

\* The conflicts of a settlement, of the sets of its rows.
RowUtrs(rows) == {row \in rows : row.utr # NoValue}
RowDates(rows) == {row \in rows : row.settledAt # NoValue}
RowNames(rows) == {row.entity : row \in rows}

LEMMA UtrsSame ==
    ASSUME NEW f, NEW g, NEW s, GroupRows(f, s) = GroupRows(g, s)
    PROVE  UtrConflicts(f, s) = UtrConflicts(g, s) /\ Utr(f, s) = Utr(g, s)
  <1>1. ASSUME NEW h
        PROVE  /\ (\E i, j \in WithUtr(h, Group(h, s)) : h[i].utr # h[j].utr)
                  <=> \E q, r \in RowUtrs(GroupRows(h, s)) : q.utr # r.utr
               /\ EntitiesOf(h, WithUtr(h, Group(h, s))) = RowNames(RowUtrs(GroupRows(h, s)))
               /\ Utrs(h, Group(h, s)) = {row.utr : row \in RowUtrs(GroupRows(h, s))}
    <2>1. \A i \in Group(h, s) : h[i] \in GroupRows(h, s)
      BY DEF GroupRows
    <2>2. \A row \in GroupRows(h, s) : \E i \in Group(h, s) : h[i] = row
      BY DEF GroupRows
    <2>3. \A i \in WithUtr(h, Group(h, s)) : h[i] \in RowUtrs(GroupRows(h, s))
      BY <2>1 DEF WithUtr, RowUtrs
    <2>4. \A row \in RowUtrs(GroupRows(h, s)) : \E i \in WithUtr(h, Group(h, s)) : h[i] = row
      BY <2>2 DEF WithUtr, RowUtrs
    <2>5. EntitiesOf(h, WithUtr(h, Group(h, s))) = RowNames(RowUtrs(GroupRows(h, s)))
      BY <2>3, <2>4 DEF EntitiesOf, RowNames
    <2>6. Utrs(h, Group(h, s)) = {row.utr : row \in RowUtrs(GroupRows(h, s))}
      <3>1. \A u : u \in Utrs(h, Group(h, s))
                   <=> \E row \in RowUtrs(GroupRows(h, s)) : u = row.utr
        BY <2>1, <2>2 DEF Utrs, RowUtrs
      <3> QED BY <3>1
    <2> QED BY <2>3, <2>4, <2>5, <2>6
  <1>2. UtrConflicts(f, s) = UtrConflicts(g, s)
    <2>1. (\E i, j \in WithUtr(f, Group(f, s)) : f[i].utr # f[j].utr)
          <=> \E i, j \in WithUtr(g, Group(g, s)) : g[i].utr # g[j].utr
      BY <1>1
    <2>2. EntitiesOf(f, WithUtr(f, Group(f, s))) = EntitiesOf(g, WithUtr(g, Group(g, s)))
      BY <1>1
    <2> QED BY <2>1, <2>2 DEF UtrConflicts
  <1>3. Utrs(f, Group(f, s)) = Utrs(g, Group(g, s))
    BY <1>1
  <1> QED BY <1>2, <1>3 DEF Utr

LEMMA DatesSame ==
    ASSUME NEW f, NEW g, NEW s, GroupRows(f, s) = GroupRows(g, s)
    PROVE  DateConflicts(f, s) = DateConflicts(g, s) /\ SettledAt(f, s) = SettledAt(g, s)
  <1>1. ASSUME NEW h
        PROVE  /\ Dated(h, s) = {} <=> RowDates(GroupRows(h, s)) = {}
               /\ (\E i, j \in Dated(h, s) : h[i].settledAt # h[j].settledAt)
                  <=> \E q, r \in RowDates(GroupRows(h, s)) : q.settledAt # r.settledAt
               /\ EntitiesOf(h, Dated(h, s)) = RowNames(RowDates(GroupRows(h, s)))
               /\ EntitiesOf(h, Group(h, s)) = RowNames(GroupRows(h, s))
               /\ {h[i].settledAt : i \in Dated(h, s)}
                  = {row.settledAt : row \in RowDates(GroupRows(h, s))}
               /\ {h[i].createdAt : i \in Group(h, s)}
                  = {row.createdAt : row \in GroupRows(h, s)}
    <2>1. \A i \in Group(h, s) : h[i] \in GroupRows(h, s)
      BY DEF GroupRows
    <2>2. \A row \in GroupRows(h, s) : \E i \in Group(h, s) : h[i] = row
      BY DEF GroupRows
    <2>3. \A i \in Dated(h, s) : h[i] \in RowDates(GroupRows(h, s))
      BY <2>1 DEF Dated, RowDates
    <2>4. \A row \in RowDates(GroupRows(h, s)) : \E i \in Dated(h, s) : h[i] = row
      BY <2>2 DEF Dated, RowDates
    <2>5. EntitiesOf(h, Dated(h, s)) = RowNames(RowDates(GroupRows(h, s)))
      BY <2>3, <2>4 DEF EntitiesOf, RowNames
    <2>6. EntitiesOf(h, Group(h, s)) = RowNames(GroupRows(h, s))
      BY <2>1, <2>2 DEF EntitiesOf, RowNames
    <2>7. {h[i].settledAt : i \in Dated(h, s)}
          = {row.settledAt : row \in RowDates(GroupRows(h, s))}
      BY <2>3, <2>4
    <2>8. {h[i].createdAt : i \in Group(h, s)} = {row.createdAt : row \in GroupRows(h, s)}
      BY <2>1, <2>2
    <2>9. Dated(h, s) = {} <=> RowDates(GroupRows(h, s)) = {}
      BY <2>3, <2>4
    <2>10. (\E i, j \in Dated(h, s) : h[i].settledAt # h[j].settledAt)
           <=> \E q, r \in RowDates(GroupRows(h, s)) : q.settledAt # r.settledAt
      BY <2>3, <2>4
    <2> QED BY <2>5, <2>6, <2>7, <2>8, <2>9, <2>10
  <1>2. DateConflicts(f, s) = DateConflicts(g, s)
    BY <1>1 DEF DateConflicts
  <1>3. Dated(f, s) = {} <=> Dated(g, s) = {}
    BY <1>1
  <1>4. /\ {f[i].settledAt : i \in Dated(f, s)} = {g[i].settledAt : i \in Dated(g, s)}
        /\ {f[i].createdAt : i \in Group(f, s)} = {g[i].createdAt : i \in Group(g, s)}
    <2>1. PICK R : R = GroupRows(f, s)
      OBVIOUS
    <2>2. /\ {f[i].settledAt : i \in Dated(f, s)} = {row.settledAt : row \in RowDates(R)}
          /\ {f[i].createdAt : i \in Group(f, s)} = {row.createdAt : row \in R}
      BY <1>1, <2>1
    <2>3. /\ {g[i].settledAt : i \in Dated(g, s)} = {row.settledAt : row \in RowDates(R)}
          /\ {g[i].createdAt : i \in Group(g, s)} = {row.createdAt : row \in R}
      BY <1>1, <2>1
    <2> QED BY <2>2, <2>3
  <1>5. SettledAt(f, s) = SettledAt(g, s)
    BY <1>3, <1>4 DEF SettledAt
  <1> QED BY <1>2, <1>5

LEMMA MismatchesSame ==
    ASSUME NEW f, NEW g, NEW s, Alike(f, g, s)
    PROVE  /\ MismatchConflicts(f, s) = MismatchConflicts(g, s)
           /\ DuplicateConflicts(f, s) = DuplicateConflicts(g, s)
  <1>1. ASSUME NEW h
        PROVE  /\ MismatchConflicts(h, s) =
                    {Conflict("row_principal_amount_mismatch", s, {row.entity}) :
                       row \in {r \in GroupRows(h, s) :
                                  Magnitude(Principal(r)) # r.amount}}
               /\ DuplicateConflicts(h, s) =
                    {Conflict("duplicate_entity_id_conflict", s, {row.entity}) :
                       row \in ExcludedRows(h, s)}
    BY DEF MismatchConflicts, DuplicateConflicts, GroupRows, ExcludedRows
  <1> QED BY <1>1 DEF Alike

LEMMA TaxSame ==
    ASSUME NEW f \in Seq(FeedRow), NEW g \in Seq(FeedRow), NEW s, Alike(f, g, s)
    PROVE  TaxConflicts(f, s) = TaxConflicts(g, s)
  <1>1. ASSUME NEW h
        PROVE  EntitiesOf(h, {i \in Group(h, s) : h[i].tax > h[i].fee})
               = RowNames({row \in GroupRows(h, s) : row.tax > row.fee})
    BY DEF EntitiesOf, RowNames, GroupRows
  <1>2. EntitiesOf(f, {i \in Group(f, s) : f[i].tax > f[i].fee})
        = EntitiesOf(g, {i \in Group(g, s) : g[i].tax > g[i].fee})
    BY <1>1 DEF Alike
  <1>3. TaxTotal(f, s) = TaxTotal(g, s) /\ FeeTotal(f, s) = FeeTotal(g, s)
    BY DeductionsSame
  <1> QED BY <1>2, <1>3 DEF TaxConflicts

\* The companions a settlement proves, of the set of its rows.
PaymentOf(row) == [payment |-> row.entity, order |-> row.order, amount |-> Principal(row)]
RefundOf(row, s) ==
    [refund |-> row.entity, payment |-> row.payment, amount |-> -Principal(row), settlement |-> s]

LEMMA CompanionsAre ==
    ASSUME NEW feed, NEW s
    PROVE  /\ Payments(feed, s) =
                {PaymentOf(row) : row \in {r \in GroupRows(feed, s) :
                                             r.type = "payment" /\ ProvesPayment(r)}}
           /\ Refunds(feed, s) =
                {RefundOf(row, s) : row \in {r \in GroupRows(feed, s) :
                                               r.type = "refund" /\ r.payment # NoValue}}
  <1>1. \A i : i \in {k \in OfType(feed, s, "payment") : ProvesPayment(feed[k])}
               <=> i \in Group(feed, s) /\ feed[i].type = "payment" /\ ProvesPayment(feed[i])
    BY DEF OfType
  <1>2. \A i : i \in {k \in OfType(feed, s, "refund") : feed[k].payment # NoValue}
               <=> i \in Group(feed, s) /\ feed[i].type = "refund" /\ feed[i].payment # NoValue
    BY DEF OfType
  <1> QED BY <1>1, <1>2 DEF Payments, Refunds, GroupRows, PaymentOf, RefundOf

LEMMA CompanionsSame ==
    ASSUME NEW f, NEW g, NEW s, GroupRows(f, s) = GroupRows(g, s)
    PROVE  /\ Payments(f, s) = Payments(g, s) /\ Refunds(f, s) = Refunds(g, s)
           /\ CompanionConflicts(f, s) = CompanionConflicts(g, s)
  <1>1. Payments(f, s) = Payments(g, s) /\ Refunds(f, s) = Refunds(g, s)
    BY CompanionsAre
  <1>2. PICK R : R = GroupRows(f, s)
    OBVIOUS
  <1>3. PICK flaw : flaw = [row \in R |-> Conflict(PaymentFlaw(row), s, {row.entity})]
    OBVIOUS
  <1>4. PICK missing : missing =
            [row \in R |-> Conflict("refund_companion_missing_payment_id", s, {row.entity})]
    OBVIOUS
  <1>5. ASSUME NEW h, GroupRows(h, s) = R
        PROVE  CompanionConflicts(h, s) =
                 {flaw[row] : row \in {r \in R : r.type = "payment" /\ ~ProvesPayment(r)}}
                 \cup {missing[row] : row \in {r \in R : r.type = "refund" /\ r.payment = NoValue}}
    <2>1. PICK A : A = {k \in OfType(h, s, "payment") : ~ProvesPayment(h[k])}
      OBVIOUS
    <2>2. PICK B : B = {k \in OfType(h, s, "refund") : h[k].payment = NoValue}
      OBVIOUS
    <2>3. /\ \A k : k \in A <=> k \in Group(h, s) /\ h[k].type = "payment" /\ ~ProvesPayment(h[k])
          /\ \A k : k \in B <=> k \in Group(h, s) /\ h[k].type = "refund" /\ h[k].payment = NoValue
      BY <2>1, <2>2 DEF OfType
    <2>4. /\ \A k \in Group(h, s) : h[k] \in R
          /\ \A row \in R : \E k \in Group(h, s) : h[k] = row
      BY <1>5 DEF GroupRows
    <2>5. {flaw[h[k]] : k \in A}
          = {flaw[row] : row \in {r \in R : r.type = "payment" /\ ~ProvesPayment(r)}}
      BY <2>3, <2>4
    <2>6. {missing[h[k]] : k \in B}
          = {missing[row] : row \in {r \in R : r.type = "refund" /\ r.payment = NoValue}}
      BY <2>3, <2>4
    <2>7. \A k \in A : flaw[h[k]] = Conflict(PaymentFlaw(h[k]), s, {h[k].entity})
      BY <1>3, <2>3, <2>4
    <2>8. {Conflict(PaymentFlaw(h[k]), s, {h[k].entity}) : k \in A} = {flaw[h[k]] : k \in A}
      BY <2>7
    <2>9. \A k \in B : missing[h[k]]
                       = Conflict("refund_companion_missing_payment_id", s, {h[k].entity})
      BY <1>4, <2>3, <2>4
    <2>10. {Conflict("refund_companion_missing_payment_id", s, {h[k].entity}) : k \in B}
           = {missing[h[k]] : k \in B}
      BY <2>9
    <2>11. CompanionConflicts(h, s)
           = {Conflict(PaymentFlaw(h[k]), s, {h[k].entity}) : k \in A}
             \cup {Conflict("refund_companion_missing_payment_id", s, {h[k].entity}) : k \in B}
      BY <2>1, <2>2 DEF CompanionConflicts
    <2> QED BY <2>5, <2>6, <2>8, <2>10, <2>11
  <1>6. CompanionConflicts(f, s) = CompanionConflicts(g, s)
    BY <1>2, <1>5
  <1>7. Payments(f, s) = Payments(g, s) /\ Refunds(f, s) = Refunds(g, s)
    BY <1>1
  <1> QED BY <1>6, <1>7

\* Feeds that have the same rows of a settlement say the same of it.
LEMMA FindingSame ==
    ASSUME NEW f \in Seq(FeedRow), NEW g \in Seq(FeedRow), NEW s, Alike(f, g, s)
    PROVE  /\ Conflicts(f, s) = Conflicts(g, s) /\ Blocking(f, s) = Blocking(g, s)
           /\ Reconstruction(f, s) = Reconstruction(g, s)
           /\ Payments(f, s) = Payments(g, s) /\ Refunds(f, s) = Refunds(g, s)
           /\ s \in SettlementsNamed(f) <=> s \in SettlementsNamed(g)
           /\ s \in Eligible(f) <=> s \in Eligible(g)
           /\ s \in Quarantined(f) <=> s \in Quarantined(g)
           /\ Finding(f, s) = Finding(g, s)
  <1>1. GroupRows(f, s) = GroupRows(g, s)
    BY DEF Alike
  <1>2. Group(f, s) = {} <=> Group(g, s) = {}
    BY <1>1, SettlementsNamedIs
  <1>3. s \in SettlementsNamed(f) <=> s \in SettlementsNamed(g)
    BY SettlementsNamedIs DEF Alike
  <1>4. Conflicts(f, s) = Conflicts(g, s)
    BY <1>1, <1>2, UtrsSame, DatesSame, MismatchesSame, TaxSame, CompanionsSame DEF Conflicts
  <1>5. Blocking(f, s) = Blocking(g, s)
    BY <1>4 DEF Blocking
  <1>6. Reconstruction(f, s) = Reconstruction(g, s)
    BY <1>1, <1>2, UtrsSame, DatesSame, DeductionsSame DEF Reconstruction
  <1>7. Payments(f, s) = Payments(g, s) /\ Refunds(f, s) = Refunds(g, s)
    BY <1>1, CompanionsSame
  <1>8. /\ s \in Eligible(f) <=> s \in Eligible(g)
        /\ s \in Quarantined(f) <=> s \in Quarantined(g)
    BY <1>2, <1>3, <1>5 DEF Eligible, Quarantined
  <1>9. Finding(f, s) = Finding(g, s)
    BY <1>4, <1>6, <1>7, <1>8 DEF Finding
  <1> QED BY <1>3, <1>4, <1>5, <1>6, <1>7, <1>8, <1>9

\* The rows of a settlement, with those that share an entity with one, are enough.
LEMMA OwnRowsDecide ==
    ASSUME NEW f \in Seq(FeedRow), NEW g \in Seq(FeedRow), NEW s, Range(g) = OwnRows(f, s)
    PROVE  Alike(f, g, s)
  <1>1. \A row : row \in OwnRows(f, s) <=>
            /\ row \in Range(f)
            /\ \E own \in Range(f) : own.settlement = s /\ own.entity = row.entity
    BY DEF OwnRows, Range
  <1>2. ASSUME NEW row, row.settlement = s
        PROVE  /\ row \in Range(f) <=> row \in Range(g)
               /\ row \in Range(f) => (Unopposed(row, Range(f)) <=> Unopposed(row, Range(g)))
    BY <1>1, <1>2 DEF Unopposed
  <1>3. ASSUME NEW h \in Seq(FeedRow)
        PROVE  \A row : /\ row \in GroupRows(h, s) <=>
                              row \in Range(h) /\ row.settlement = s /\ Unopposed(row, Range(h))
                        /\ row \in ExcludedRows(h, s) <=>
                              row \in Range(h) /\ row.settlement = s /\ ~Unopposed(row, Range(h))
    BY RowsDecide
  <1>4. \A row : /\ row \in GroupRows(f, s) <=> row \in GroupRows(g, s)
                 /\ row \in ExcludedRows(f, s) <=> row \in ExcludedRows(g, s)
    BY <1>2, <1>3
  <1>5. GroupRows(f, s) = GroupRows(g, s)
    BY <1>4
  <1>6. ExcludedRows(f, s) = ExcludedRows(g, s)
    BY <1>4
  <1> QED BY <1>5, <1>6 DEF Alike

\* SetToSeq lists a finite set.
LEMMA SetToSeqLists ==
    ASSUME NEW S, IsFiniteSet(S)
    PROVE  SetToSeq(S) \in Seq(S) /\ Range(SetToSeq(S)) = S
  <1>1. PICK n \in Nat : ExistsBijection(1 .. n, S) /\ n = Cardinality(S)
    BY FS_CardinalityType
  <1>2. PICK f \in Bijection(1 .. n, S) : TRUE
    BY <1>1 DEF ExistsBijection
  <1>3. f \in [1 .. n -> S] /\ IsInjective(f)
    BY <1>2 DEF Bijection, Injection, IsInjective
  <1>4. SetToSeq(S) \in [1 .. n -> S] /\ IsInjective(SetToSeq(S))
    BY <1>1, <1>3 DEF SetToSeq
  <1>5. PICK g : g = SetToSeq(S)
    OBVIOUS
  <1>6. g \in Injection(1 .. n, S)
    BY <1>4, <1>5 DEF Injection
  <1>7. Cardinality(1 .. n) = Cardinality(S)
    BY <1>1, FS_Interval
  <1>8. g \in Surjection(1 .. n, S)
    BY <1>6, <1>7, FS_Injection
  <1>9. g \in [1 .. n -> S] /\ \A x \in S : \E k \in 1 .. n : g[k] = x
    BY <1>4, <1>5, <1>8 DEF Surjection
  <1>10. g \in Seq(S) /\ Range(g) = S
    BY <1>9 DEF Range
  <1> QED BY <1>5, <1>10

----------------------------------------------------------------------------
(* What the audit tells of a feed *)

\* The record of a quarantined settlement lists every row that names it.
LEMMA QuarantineListsRows ==
    ASSUME NEW feed \in Seq(FeedRow), NEW s
    PROVE  Range(QuarantineRows(feed, s)) = {row \in Range(feed) : row.settlement = s}
  <1> DEFINE First(i) == CHOOSE j \in Copies(feed, i) : \A k \in Copies(feed, i) : j <= k
             Earlier(i, j) == First(i) < First(j) \/ (First(i) = First(j) /\ i < j)
  <1>1. PICK I : I = ExcludedOf(feed, s)
    OBVIOUS
  <1>2. I \subseteq DOMAIN feed /\ IsFiniteSet(I) /\ I \subseteq Nat
    <2>1. I \subseteq DOMAIN feed /\ DOMAIN feed = 1 .. Len(feed) /\ Len(feed) \in Nat
      BY <1>1, LenProperties DEF ExcludedOf, Excluded
    <2>2. IsFiniteSet(1 .. Len(feed))
      BY <2>1, FS_Interval
    <2> QED BY <2>1, <2>2, FS_Subset
  <1>3. \A i \in I : First(i) \in Nat
    <2> SUFFICES ASSUME NEW i \in I PROVE First(i) \in Nat
      OBVIOUS
    <2>1. Copies(feed, i) \in SUBSET Nat /\ i \in Copies(feed, i)
      BY <1>2 DEF Copies
    <2>2. \E j \in Copies(feed, i) : \A k \in Copies(feed, i) : j <= k
      BY <2>1, LeastElement
    <2> QED BY <2>1, <2>2
  <1> HIDE DEF First
  <1>4. PICK less : less = {e \in I \X I : Earlier(e[1], e[2])}
    OBVIOUS
  <1>5. \A i, j \in I : <<i, j>> \in less <=> Earlier(i, j)
    BY <1>4
  <1>6. StrictOrder(less, I)
    <2>1. \A i \in I : ~Earlier(i, i)
      BY <1>2, <1>3
    <2>2. \A i, j, k \in I : Earlier(i, j) /\ Earlier(j, k) => Earlier(i, k)
      BY <1>2, <1>3
    <2>3. \A i, j \in I : i = j \/ Earlier(i, j) \/ Earlier(j, i)
      BY <1>2, <1>3
    <2> HIDE DEF Earlier
    <2> QED BY <1>5, <2>1, <2>2, <2>3 DEF StrictOrder
  <1>7. PICK rest : rest = [k \in 1 .. Cardinality(I) |->
            CHOOSE i \in I : Cardinality(Preceding(less, I, i)) = k - 1]
    OBVIOUS
  <1>8. PICK order : order = Ordered(feed, s)
    OBVIOUS
  <1>9. QuarantineRows(feed, s) = [k \in DOMAIN (order \o rest) |-> feed[(order \o rest)[k]]]
    <2>1. rest = Sorted(I, less)
      BY <1>7 DEF Sorted, Preceding
    <2>2. less = {e \in I \X I : Earlier(e[1], e[2])}
      BY <1>4
    <2> QED BY <1>1, <1>8, <2>1, <2>2 DEF QuarantineRows, First
  <1> HIDE DEF Earlier
  <1>11. ASSUME NEW k \in 1 .. Cardinality(I),
                \E i \in I : Cardinality(Preceding(less, I, i)) = k - 1
         PROVE  rest[k] \in I /\ Cardinality(Preceding(less, I, rest[k])) = k - 1
    <2>1. rest[k] = CHOOSE i \in I : Cardinality(Preceding(less, I, i)) = k - 1
      BY <1>7
    <2> QED BY <1>11, <2>1
  <1>12. /\ \A k \in 1 .. Cardinality(I) : rest[k] \in I
         /\ \A i \in I : \E k \in 1 .. Cardinality(I) : rest[k] = i
    <2>1. IsFiniteSet(I)
      BY <1>2
    <2> QED BY <1>6, <1>11, <2>1, PlacesAreListed
  <1>13. PICK m \in Nat : m = Cardinality(I)
    BY <1>2, FS_CardinalityType
  <1>14. PICK S : S = Group(feed, s) \cup I
    OBVIOUS
  <1>15. rest \in Seq(S) /\ Len(rest) = m
    <2>1. rest \in [1 .. m -> S]
      BY <1>7, <1>12, <1>13, <1>14
    <2>2. rest \in Seq(S)
      BY <2>1
    <2> QED BY <1>13, <2>1, <2>2, LenProperties
  <1>16. /\ order \in Seq(S) /\ Len(order) \in Nat
         /\ \A k \in 1 .. Len(order) : order[k] \in Group(feed, s)
         /\ \A i \in Group(feed, s) : \E k \in 1 .. Len(order) : order[k] = i
    <2>1. order \in Seq(Group(feed, s)) /\ Len(order) \in Nat
          /\ \A i \in Group(feed, s) : \E k \in 1 .. Len(order) : order[k] = i
      BY <1>8, OrderedIs
    <2>2. order \in Seq(S)
      BY <1>14, <2>1
    <2> QED BY <2>1, <2>2, ElementOfSeq
  <1>17. PICK both : both = order \o rest
    OBVIOUS
  <1>18. /\ both \in Seq(S) /\ Len(both) = Len(order) + m
         /\ \A k \in 1 .. Len(order) + m :
              both[k] = IF k <= Len(order) THEN order[k] ELSE rest[k - Len(order)]
    BY <1>15, <1>16, <1>17, ConcatProperties
  <1>19. DOMAIN both = 1 .. Len(order) + m
    BY <1>18, LenProperties
  <1>20. \A k \in DOMAIN both : both[k] \in S
    BY <1>18, <1>19, ElementOfSeq
  <1>21. ASSUME NEW i \in S PROVE \E k \in DOMAIN both : both[k] = i
    <2>1. CASE i \in Group(feed, s)
      <3>1. PICK k \in 1 .. Len(order) : order[k] = i
        BY <1>16, <2>1
      <3>2. k \in 1 .. Len(order) + m /\ k <= Len(order)
        BY <1>13, <1>16
      <3> QED BY <1>18, <1>19, <3>1, <3>2
    <2>2. CASE i \in I
      <3>1. PICK k \in 1 .. m : rest[k] = i
        BY <1>12, <1>13, <2>2
      <3>2. /\ k + Len(order) \in 1 .. Len(order) + m /\ ~(k + Len(order) <= Len(order))
            /\ (k + Len(order)) - Len(order) = k
        BY <1>13, <1>16
      <3>3. both[k + Len(order)] = i
        BY <1>18, <3>1, <3>2
      <3> QED BY <1>19, <3>2, <3>3
    <2> QED BY <1>14, <2>1, <2>2
  <1>22. QuarantineRows(feed, s) = [k \in DOMAIN both |-> feed[both[k]]]
    BY <1>9, <1>17
  <1>23. Range(QuarantineRows(feed, s)) = {feed[i] : i \in S}
    BY <1>20, <1>21, <1>22 DEF Range
  <1>24. {feed[i] : i \in S} = GroupRows(feed, s) \cup ExcludedRows(feed, s)
    BY <1>1, <1>14 DEF GroupRows, ExcludedRows
  <1>25. GroupRows(feed, s) \cup ExcludedRows(feed, s) = {row \in Range(feed) : row.settlement = s}
    BY RowsDecide
  <1> QED BY <1>23, <1>24, <1>25

\* The lines of the breakup a row had a part in, of the set of rows.
LinesOf(row, rows, lines) ==
    {k \in DOMAIN lines : k > Cardinality(rows) \/ InPlace(rows, k) = row}

LEMMA ProducedIs ==
    ASSUME NEW feed \in Seq(FeedRow), NEW i \in Kept(feed), NEW s, s = feed[i].settlement
    PROVE  Produced(feed, i) = LinesOf(feed[i], GroupRows(feed, s), Breakup(feed, s))
  <1>1. PICK order : order = Ordered(feed, s)
    OBVIOUS
  <1>2. PICK n : n = Cardinality(GroupRows(feed, s))
    OBVIOUS
  <1>3. PICK lines : lines = Breakup(feed, s)
    OBVIOUS
  <1>4. /\ n \in Nat /\ Len(order) = n
        /\ \A k \in 1 .. n : order[k] \in Group(feed, s)
                             /\ feed[order[k]] = InPlace(GroupRows(feed, s), k)
    BY <1>1, <1>2, OrderedIs
  <1>5. i \in Group(feed, s)
    BY DEF Group
  <1>6. \A k \in 1 .. n : order[k] = i <=> InPlace(GroupRows(feed, s), k) = feed[i]
    BY <1>4, <1>5, GroupIs
  <1>7. DOMAIN lines \subseteq Nat \ {0}
    <2>1. PICK m \in 0 .. 2 : Shape(feed, s, n, m)
      BY <1>2, BreakupShape
    <2>2. DOMAIN lines = 1 .. n + m
      BY <1>3, <2>1 DEF Shape
    <2> QED BY <1>4, <2>2
  <1>8. \A k \in DOMAIN lines : k > n \/ k \in 1 .. n
    BY <1>4, <1>7
  <1>9. {k \in DOMAIN lines : k > n \/ order[k] = i}
        = {k \in DOMAIN lines : k > n \/ InPlace(GroupRows(feed, s), k) = feed[i]}
    BY <1>6, <1>8
  <1>10. Produced(feed, i) = {k \in DOMAIN lines : k > n \/ order[k] = i}
    BY <1>1, <1>3, <1>4 DEF Produced
  <1> QED BY <1>2, <1>3, <1>9, <1>10 DEF LinesOf

\* Feeds of the same rows, in any order and any number, come to the same.
LEMMA SameRangeAlike ==
    ASSUME NEW f \in Seq(FeedRow), NEW g \in Seq(FeedRow), Range(f) = Range(g)
    PROVE  /\ \A s : Alike(f, g, s)
           /\ SettlementsNamed(f) = SettlementsNamed(g)
           /\ Eligible(f) = Eligible(g) /\ Quarantined(f) = Quarantined(g)
  <1>1. ASSUME NEW s PROVE Alike(f, g, s)
    <2>3. \A row : /\ row \in GroupRows(f, s) <=> row \in GroupRows(g, s)
                   /\ row \in ExcludedRows(f, s) <=> row \in ExcludedRows(g, s)
      <3>1. PICK R : R = Range(f) /\ R = Range(g)
        OBVIOUS
      <3>2. \A row : /\ row \in GroupRows(f, s) <=>
                          row \in R /\ row.settlement = s /\ Unopposed(row, R)
                     /\ row \in ExcludedRows(f, s) <=>
                          row \in R /\ row.settlement = s /\ ~Unopposed(row, R)
        BY <3>1, RowsDecide
      <3>3. \A row : /\ row \in GroupRows(g, s) <=>
                          row \in R /\ row.settlement = s /\ Unopposed(row, R)
                     /\ row \in ExcludedRows(g, s) <=>
                          row \in R /\ row.settlement = s /\ ~Unopposed(row, R)
        BY <3>1, RowsDecide
      <3> QED BY <3>2, <3>3
    <2>1. GroupRows(f, s) = GroupRows(g, s)
      BY <2>3
    <2>2. ExcludedRows(f, s) = ExcludedRows(g, s)
      BY <2>3
    <2> QED BY <2>1, <2>2 DEF Alike
  <1>2. SettlementsNamed(f) = SettlementsNamed(g)
    BY SettlementsNamedIs
  <1>3. \A s : /\ s \in Eligible(f) <=> s \in Eligible(g)
               /\ s \in Quarantined(f) <=> s \in Quarantined(g)
    BY <1>1, FindingSame
  <1> QED BY <1>1, <1>2, <1>3

LEMMA SameRangeSameFacts ==
    ASSUME NEW f \in Seq(FeedRow), NEW g \in Seq(FeedRow), Range(f) = Range(g), NEW p
    PROVE  Facts(f, p) = Facts(g, p)
  <1>1. \A s : /\ Reconstruction(f, s) = Reconstruction(g, s)
               /\ Payments(f, s) = Payments(g, s)
    BY SameRangeAlike, FindingSame
  <1>2. Eligible(f) = Eligible(g) /\ SettlementsNamed(f) = SettlementsNamed(g)
    BY SameRangeAlike
  <1>3. {Reconstruction(f, s) : s \in Eligible(f)} = {Reconstruction(g, s) : s \in Eligible(g)}
    BY <1>1, <1>2
  <1>4. UNION {Payments(f, s) : s \in SettlementsNamed(f)}
        = UNION {Payments(g, s) : s \in SettlementsNamed(g)}
    BY <1>1, <1>2
  <1> QED BY <1>3, <1>4 DEF Facts

\* What an audit tells of a row.
Trace(feed, row) ==
    [row |-> row,
     produced |-> IF Unopposed(row, Range(feed))
                  THEN LinesOf(row, GroupRows(feed, row.settlement), Breakup(feed, row.settlement))
                  ELSE {}]

LEMMA TracesAre ==
    ASSUME NEW feed \in Seq(FeedRow)
    PROVE  RazorpayEvents(feed).source_row = {Trace(feed, row) : row \in Range(feed)}
  <1>1. ASSUME NEW i \in DOMAIN feed PROVE Agreed(feed, i) <=> Unopposed(feed[i], Range(feed))
    BY DEF Agreed, Copies, Unopposed, Range
  <1>2. Kept(feed) \subseteq DOMAIN feed /\ Excluded(feed) \subseteq DOMAIN feed
    BY DEF Kept, Excluded
  <1>3. ASSUME NEW i \in Kept(feed) \cup Excluded(feed)
        PROVE  [row |-> feed[i], produced |-> Produced(feed, i)] = Trace(feed, feed[i])
    <2>1. CASE i \in Kept(feed)
      <3>1. Unopposed(feed[i], Range(feed))
        BY <1>1, <2>1 DEF Kept
      <3> QED BY <2>1, <3>1, ProducedIs DEF Trace
    <2>2. CASE i \notin Kept(feed)
      <3>1. ~Unopposed(feed[i], Range(feed))
        BY <1>1, <1>2, <1>3, <2>2 DEF Excluded
      <3>2. Produced(feed, i) = {}
        BY <2>2 DEF Produced
      <3> QED BY <3>1, <3>2 DEF Trace
    <2> QED BY <2>1, <2>2
  <1>4. \A row \in Range(feed) : \E i \in Kept(feed) \cup Excluded(feed) : feed[i] = row
    <2> SUFFICES ASSUME NEW row \in Range(feed)
        PROVE  \E i \in Kept(feed) \cup Excluded(feed) : feed[i] = row
      OBVIOUS
    <2>1. PICK i \in DOMAIN feed : feed[i] = row
      BY DEF Range
    <2> QED BY <2>1, AgreedIsKept DEF Excluded
  <1>5. \A i \in Kept(feed) \cup Excluded(feed) : feed[i] \in Range(feed)
    BY <1>2 DEF Range
  <1>6. RazorpayEvents(feed).source_row
        = {[row |-> feed[i], produced |-> Produced(feed, i)] : i \in Kept(feed) \cup Excluded(feed)}
    BY DEF RazorpayEvents
  <1>7. {[row |-> feed[i], produced |-> Produced(feed, i)] : i \in Kept(feed) \cup Excluded(feed)}
        = {Trace(feed, feed[i]) : i \in Kept(feed) \cup Excluded(feed)}
    BY <1>3
  <1>8. {Trace(feed, feed[i]) : i \in Kept(feed) \cup Excluded(feed)}
        = {Trace(feed, row) : row \in Range(feed)}
    BY <1>4, <1>5
  <1> QED BY <1>6, <1>7, <1>8

\* Feeds of the same rows are told of alike, but for the quarantine.
LEMMA SameRangeSameEvents ==
    ASSUME NEW f \in Seq(FeedRow), NEW g \in Seq(FeedRow), Range(f) = Range(g)
    PROVE  /\ RazorpayEvents(f).source_row = RazorpayEvents(g).source_row
           /\ RazorpayEvents(f).conflict = RazorpayEvents(g).conflict
           /\ RazorpayEvents(f).warning = RazorpayEvents(g).warning
           /\ RazorpayEvents(f).unresolved_refund_companion
                = RazorpayEvents(g).unresolved_refund_companion
  <1>1. \A s : Alike(f, g, s)
    BY SameRangeAlike
  <1>2. \A row : Trace(f, row) = Trace(g, row)
    <2> SUFFICES ASSUME NEW row PROVE Trace(f, row) = Trace(g, row)
      OBVIOUS
    <2>1. PICK s : s = row.settlement
      OBVIOUS
    <2>2. GroupRows(f, s) = GroupRows(g, s) /\ Breakup(f, s) = Breakup(g, s)
      BY <1>1, DeductionsSame DEF Alike
    <2> QED BY <2>1, <2>2 DEF Trace
  <1>3. RazorpayEvents(f).source_row = RazorpayEvents(g).source_row
    BY <1>2, TracesAre
  <1>4. SettlementsNamed(f) = SettlementsNamed(g)
    BY SameRangeAlike
  <1>5. \A s : Conflicts(f, s) = Conflicts(g, s) /\ Refunds(f, s) = Refunds(g, s)
    BY <1>1, FindingSame
  <1>6. UNION {Conflicts(f, s) : s \in SettlementsNamed(f)}
        = UNION {Conflicts(g, s) : s \in SettlementsNamed(g)}
    BY <1>4, <1>5
  <1>7. RefundsOf(f) = RefundsOf(g)
    BY <1>4, <1>5 DEF RefundsOf
  <1> QED BY <1>3, <1>6, <1>7 DEF RazorpayEvents

\* Pages that come back in another order have the rows they had.
LEMMA RearrangedHasTheRows ==
    ASSUME NEW g \in Seq(FeedRow), NEW f \in Rearranged(g)
    PROVE  f \in Seq(FeedRow) /\ Range(f) = Range(g) /\ SameRows(f, g)
  <1>1. PICK order \in Bijection(DOMAIN g, DOMAIN g) : f = [i \in DOMAIN g |-> g[order[i]]]
    BY DEF Rearranged
  <1>2. /\ order \in [DOMAIN g -> DOMAIN g]
        /\ \A i, j \in DOMAIN g : order[i] = order[j] => i = j
        /\ \A j \in DOMAIN g : \E i \in DOMAIN g : order[i] = j
    BY <1>1 DEF Bijection, Injection, Surjection, IsInjective
  <1>3. DOMAIN g = 1 .. Len(g) /\ Len(g) \in Nat /\ IsFiniteSet(DOMAIN g)
    BY LenProperties, FS_Interval
  <1>4. \A i \in DOMAIN g : g[i] \in FeedRow
    BY ElementOfSeq, <1>3
  <1>5. f \in Seq(FeedRow)
    <2>1. f \in [1 .. Len(g) -> FeedRow]
      BY <1>1, <1>2, <1>3, <1>4
    <2> QED BY <1>3, <2>1
  <1>6. Range(f) = Range(g)
    BY <1>1, <1>2 DEF Range
  <1>7. ASSUME NEW row
        PROVE  Cardinality({i \in DOMAIN f : f[i] = row}) = Cardinality({i \in DOMAIN g : g[i] = row})
    <2>1. PICK A : A = {i \in DOMAIN f : f[i] = row}
      OBVIOUS
    <2>2. PICK B : B = {i \in DOMAIN g : g[i] = row}
      OBVIOUS
    <2>3. IsFiniteSet(A) /\ A \subseteq DOMAIN g
      BY <1>1, <1>3, <2>1, FS_Subset
    <2>4. PICK b : b = [i \in A |-> order[i]]
      OBVIOUS
    <2>5. Cardinality({b[i] : i \in A}) = Cardinality(A)
      BY <1>2, <2>3, <2>4, ImageHasAsMany
    <2>6. \A i \in A : b[i] \in B
      BY <1>1, <1>2, <2>1, <2>2, <2>3, <2>4
    <2>7. \A j \in B : \E i \in A : b[i] = j
      BY <1>1, <1>2, <2>1, <2>2, <2>4
    <2>8. {b[i] : i \in A} = B
      BY <2>6, <2>7
    <2> QED BY <2>1, <2>2, <2>5, <2>8
  <1> QED BY <1>5, <1>6, <1>7 DEF SameRows

----------------------------------------------------------------------------
(* An eligible settlement *)

\* Nothing is held against any row of an eligible settlement, and each has a line.
LEMMA EligibleIsClean ==
    ASSUME NEW feed \in Seq(FeedRow), NEW s \in Eligible(feed)
    PROVE  /\ {row \in Range(feed) : row.settlement = s} = GroupRows(feed, s)
           /\ \A row \in GroupRows(feed, s) :
                /\ row.type = "payment" => ProvesPayment(row)
                /\ row.type = "refund" => row.payment # NoValue
           /\ \A row \in GroupRows(feed, s) : \E k \in 1 .. Cardinality(GroupRows(feed, s)) :
                InPlace(GroupRows(feed, s), k) = row
  <1>1. Conflicts(feed, s) = {} /\ Group(feed, s) # {}
    BY DEF Eligible, Blocking, NonBlocking
  <1>2. DuplicateConflicts(feed, s) = {} /\ CompanionConflicts(feed, s) = {}
    BY <1>1 DEF Conflicts
  <1>3. ExcludedRows(feed, s) = {}
    BY <1>2 DEF DuplicateConflicts, ExcludedRows
  <1>4. {row \in Range(feed) : row.settlement = s} = GroupRows(feed, s)
    BY <1>3, RowsDecide
  <1>5. ASSUME NEW row \in GroupRows(feed, s)
        PROVE  /\ row.type = "payment" => ProvesPayment(row)
               /\ row.type = "refund" => row.payment # NoValue
    <2>1. PICK i \in Group(feed, s) : feed[i] = row
      BY DEF GroupRows
    <2>2. /\ {k \in OfType(feed, s, "payment") : ~ProvesPayment(feed[k])} = {}
          /\ {k \in OfType(feed, s, "refund") : feed[k].payment = NoValue} = {}
      BY <1>2 DEF CompanionConflicts
    <2> QED BY <2>1, <2>2 DEF OfType
  <1>6. ASSUME NEW row \in GroupRows(feed, s)
        PROVE  \E k \in 1 .. Cardinality(GroupRows(feed, s)) : InPlace(GroupRows(feed, s), k) = row
    <2>1. PICK i \in Group(feed, s) : feed[i] = row
      BY DEF GroupRows
    <2> QED BY <2>1, OrderedIs
  <1> QED BY <1>4, <1>5, <1>6

\* A settlement is quarantined iff it is not eligible: one that nothing blocks has
\* a row that is kept.
LEMMA QuarantinedUnlessEligible ==
    ASSUME NEW feed
    PROVE  Quarantined(feed) = SettlementsNamed(feed) \ Eligible(feed)
  <1>1. ASSUME NEW s \in SettlementsNamed(feed), Blocking(feed, s) = {}
        PROVE  Group(feed, s) # {}
    <2>1. PICK i \in Kept(feed) \cup Excluded(feed) : feed[i].settlement = s
      BY DEF SettlementsNamed
    <2>2. CASE i \in Kept(feed)
      BY <2>1, <2>2 DEF Group
    <2>3. CASE i \in Excluded(feed)
      <3>1. i \in ExcludedOf(feed, s)
        BY <2>1, <2>3 DEF ExcludedOf
      <3>2. DuplicateConflicts(feed, s) # {}
        BY <3>1 DEF DuplicateConflicts
      <3> QED BY <1>1, <3>2 DEF Blocking, NonBlocking, Conflicts
    <2> QED BY <2>2, <2>3
  <1> QED BY <1>1 DEF Quarantined, Eligible

\* What is eligible is read off what is reconstructed.
LEMMA EligibleFromFacts ==
    ASSUME NEW feed, NEW p
    PROVE  Eligible(feed) = {x.settlement : x \in Facts(feed, p).settlements}
  <1>1. \A s \in Eligible(feed) : Reconstruction(feed, s).settlement = s
    BY DEF Eligible, Reconstruction
  <1> QED BY <1>1 DEF Facts

\* Feeds of the same rows have the same rows.
LEMMA SameRowsSameRange ==
    ASSUME NEW f \in Seq(FeedRow), NEW g \in Seq(FeedRow), SameRows(f, g)
    PROVE  Range(f) = Range(g)
  <1> DEFINE At(h, row) == {i \in DOMAIN h : h[i] = row}
  <1>1. \A h \in Seq(FeedRow) : \A row : IsFiniteSet(At(h, row))
    <2> SUFFICES ASSUME NEW h \in Seq(FeedRow), NEW row PROVE IsFiniteSet(At(h, row))
      OBVIOUS
    <2>1. IsFiniteSet(1 .. Len(h)) /\ At(h, row) \subseteq 1 .. Len(h)
      BY FS_Interval
    <2> QED BY <2>1, FS_Subset
  <1>2. \A h \in Seq(FeedRow) : \A row : row \in Range(h) <=> Cardinality(At(h, row)) # 0
    <2> SUFFICES ASSUME NEW h \in Seq(FeedRow), NEW row
        PROVE  row \in Range(h) <=> Cardinality(At(h, row)) # 0
      OBVIOUS
    <2>1. row \in Range(h) <=> At(h, row) # {}
      BY DEF Range
    <2> QED BY <1>1, <2>1, FS_EmptySet
  <1>3. \A row \in Range(f) \cup Range(g) : Cardinality(At(f, row)) = Cardinality(At(g, row))
    BY DEF SameRows
  <1>4. \A row : row \in Range(f) <=> row \in Range(g)
    <2> HIDE DEF At
    <2> QED BY <1>2, <1>3
  <1> QED BY <1>4

----------------------------------------------------------------------------
(* The inductive invariant *)

\* What the properties need of a batch: its facts and events are those of its own
\* sources, but for the order in which a quarantine lists its rows.
QuarantineSound(q, feed) ==
    /\ q.conflicts = Blocking(feed, q.settlement)
    /\ Range(q.rows) = {row \in Range(feed) : row.settlement = q.settlement}

FeedSound(told, feed) ==
    LET recon == RazorpayEvents(feed) IN
    /\ told.source_row = recon.source_row /\ told.conflict = recon.conflict
    /\ told.warning = recon.warning
    /\ told.unresolved_refund_companion = recon.unresolved_refund_companion
    /\ {q.settlement : q \in told.quarantined_settlement} = Quarantined(feed)
    /\ \A q \in told.quarantined_settlement : QuarantineSound(q, feed)

BatchSound ==
    batch # NoValue =>
        /\ batch \in [feed : Seq(FeedRow), profile : Mapping]
        /\ ~Unreadable(batch.profile, statement.header)
        /\ facts = Facts(batch.feed, batch.profile)
        /\ events.accepted_bank_row = BankEvents(batch.profile).accepted_bank_row
        /\ events.rejected_bank_row = BankEvents(batch.profile).rejected_bank_row
        /\ FeedSound(events, batch.feed)

EventsSound ==
    DOMAIN events = DOMAIN NoEvents /\ (batch = NoValue => events = NoEvents)

\* Only a statement ends a run.
AbortSound ==
    outcome = "aborted" => \E x \in Selected : Aborts(x[1], statement.header, statement.rows)

IntakeInv == ReviewInv /\ EventsSound /\ BatchSound /\ AbortSound

\* A run only adds events: those of its own feed and of its own profile.
LEMMA RecordedEvents ==
    ASSUME NEW feed, NEW p, NEW how, EventsSound
    PROVE  LET after == Recorded(feed, p, how)
               r == RazorpayEvents(feed)
               b == BankEvents(p)
           IN /\ DOMAIN after = DOMAIN NoEvents
              /\ after.accepted_bank_row = events.accepted_bank_row \cup b.accepted_bank_row
              /\ after.rejected_bank_row = events.rejected_bank_row \cup b.rejected_bank_row
              /\ after.source_row = events.source_row \cup r.source_row
              /\ after.conflict = events.conflict \cup r.conflict
              /\ after.warning = events.warning \cup r.warning
              /\ after.unresolved_refund_companion
                   = events.unresolved_refund_companion \cup r.unresolved_refund_companion
              /\ after.quarantined_settlement
                   = events.quarantined_settlement \cup r.quarantined_settlement
  <1> DEFINE r == RazorpayEvents(feed)
             b == BankEvents(p)
             New(type) == IF type \in DOMAIN r THEN r[type]
                          ELSE IF type \in DOMAIN b THEN b[type]
                          ELSE {[profile |-> p, how |-> how]}
  <1>1. DOMAIN r = {"source_row", "quarantined_settlement", "conflict", "warning",
                    "unresolved_refund_companion"}
    BY DEF RazorpayEvents
  <1>2. DOMAIN b = {"accepted_bank_row", "bank_row_not_produced", "rejected_bank_row",
                    "bank_conflict"}
    BY DEF BankEvents
  <1>3. Recorded(feed, p, how) = [type \in DOMAIN events |-> events[type] \cup New(type)]
    BY DEF Recorded
  <1>4. {"source_row", "conflict", "warning", "unresolved_refund_companion",
         "quarantined_settlement", "accepted_bank_row", "rejected_bank_row"} \subseteq DOMAIN events
    BY DEF EventsSound, NoEvents
  <1> HIDE DEF r, b
  <1> QED BY <1>1, <1>2, <1>3, <1>4 DEF EventsSound, r, b

\* What a feed adds to the audit.
LEMMA FeedIsAudited ==
    ASSUME NEW feed \in Seq(FeedRow)
    PROVE  FeedSound(RazorpayEvents(feed), feed)
  <1> DEFINE Quarantine(s) ==
        [settlement |-> s, rows |-> QuarantineRows(feed, s), conflicts |-> Blocking(feed, s)]
  <1>1. RazorpayEvents(feed).quarantined_settlement = {Quarantine(s) : s \in Quarantined(feed)}
    BY DEF RazorpayEvents
  <1>2. \A s : Quarantine(s).settlement = s
    OBVIOUS
  <1>3. \A s : QuarantineSound(Quarantine(s), feed)
    BY QuarantineListsRows DEF QuarantineSound
  <1> HIDE DEF Quarantine
  <1> QED BY <1>1, <1>2, <1>3 DEF FeedSound

\* A feed of the same rows tells nothing that is not so already.
LEMMA FeedIsAuditedAgain ==
    ASSUME NEW f \in Seq(FeedRow), NEW g \in Seq(FeedRow), Range(f) = Range(g)
    PROVE  FeedSound(RazorpayEvents(f), g)
  <1>1. FeedSound(RazorpayEvents(f), f)
    BY FeedIsAudited
  <1>2. /\ RazorpayEvents(f).source_row = RazorpayEvents(g).source_row
        /\ RazorpayEvents(f).conflict = RazorpayEvents(g).conflict
        /\ RazorpayEvents(f).warning = RazorpayEvents(g).warning
        /\ RazorpayEvents(f).unresolved_refund_companion
             = RazorpayEvents(g).unresolved_refund_companion
    BY SameRangeSameEvents
  <1>3. Quarantined(f) = Quarantined(g)
    BY SameRangeAlike
  <1>4. \A s : Blocking(f, s) = Blocking(g, s)
    BY SameRangeAlike, FindingSame
  <1>5. \A q : QuarantineSound(q, f) => QuarantineSound(q, g)
    BY <1>4 DEF QuarantineSound
  <1> QED BY <1>1, <1>2, <1>3, <1>5 DEF FeedSound

\* Every upload is a sequence of rows, and the first is read under a known mapping.
LEMMA UploadsAreFeeds ==
    ASSUME IntakeInv, NEW upload \in Uploads
    PROVE  /\ upload[1] \in Seq(FeedRow) /\ upload[2] \in Selected
           /\ batch = NoValue => upload[2][1] \in Mapping
  <1>1. CASE batch = NoValue
    <2>1. upload \in Feeds \X Selected
      BY <1>1 DEF Uploads
    <2>2. upload[2][1] \in Mapping
      BY <2>1 DEF Selected, IntakeInv, ReviewInv, SavedSound
    <2>3. PICK n \in 0 .. MaxRows : upload[1] \in [1 .. n -> FeedRow]
      BY <2>1 DEF Feeds
    <2>4. n \in Nat
      BY <2>3, IntakeAssumption
    <2>5. upload[2] \in Selected
      BY <2>1
    <2>6. upload[1] \in Seq(FeedRow)
      BY <2>3, <2>4
    <2> QED BY <2>2, <2>5, <2>6
  <1>2. CASE batch # NoValue
    <2>1. batch.feed \in Seq(FeedRow)
      BY <1>2 DEF IntakeInv, BatchSound
    <2>2. \A f \in Rearranged(batch.feed) : f \in Seq(FeedRow)
      BY <2>1, RearrangedHasTheRows
    <2>3. Front(batch.feed) \in Seq(FeedRow)
      BY <2>1 DEF Front
    <2>4. upload[1] \in Rearranged(batch.feed) \cup {Front(batch.feed)}
      BY <1>2 DEF Uploads
    <2>5. upload[2] \in Selected
      BY <1>2 DEF Uploads
    <2> QED BY <1>2, <2>2, <2>3, <2>4, <2>5
  <1> QED BY <1>1, <1>2

----------------------------------------------------------------------------
(* IntakeInv is inductive *)

LEMMA IntakeInvInit == Init => IntakeInv
  BY ReviewInvInit, IntakeAssumption DEF Init, IntakeInv, EventsSound, BatchSound, AbortSound

\* What is said of a batch stays true while the batch and the statement stand.
LEMMA BatchStands ==
    ASSUME IntakeInv, UNCHANGED <<statement, batch, facts, events>>
    PROVE  EventsSound' /\ BatchSound'
  <1>1. EventsSound'
    BY DEF IntakeInv, EventsSound
  <1>2. \A feed, p : Facts(feed, p)' = Facts(feed, p) /\ BankEvents(p)' = BankEvents(p)
    BY DEF Facts, BankEvents
  <1>3. BatchSound'
    BY <1>2 DEF IntakeInv, BatchSound
  <1> QED BY <1>1, <1>3

LEMMA ReviewKeepsInv == IntakeInv /\ Review => IntakeInv'
  <1> SUFFICES ASSUME IntakeInv, Review PROVE IntakeInv'
    OBVIOUS
  <1>1. ReviewInv'
    BY ReviewInvStep DEF IntakeInv, Review
  <1>2. UNCHANGED <<statement, batch, facts, events>>
    BY DEF Review, ReviewNext, Propose, ProposalFails, ProposalArrives, Confirm, intakeVars
  <1>3. outcome' # "aborted"
    BY IntakeAssumption DEF Review, intakeVars
  <1>4. AbortSound'
    BY <1>3 DEF AbortSound
  <1> QED BY <1>1, <1>2, <1>4, BatchStands DEF IntakeInv

\* A run adds what its feed and its profile give to what is told.
LEMMA RecordAdds ==
    ASSUME EventsSound, NEW feed, NEW p, NEW how, Record(feed, p, how)
    PROVE  LET recon == RazorpayEvents(feed)
               bank == BankEvents(p)
           IN /\ DOMAIN events' = DOMAIN NoEvents
              /\ events'.accepted_bank_row = events.accepted_bank_row \cup bank.accepted_bank_row
              /\ events'.rejected_bank_row = events.rejected_bank_row \cup bank.rejected_bank_row
              /\ events'.source_row = events.source_row \cup recon.source_row
              /\ events'.conflict = events.conflict \cup recon.conflict
              /\ events'.warning = events.warning \cup recon.warning
              /\ events'.unresolved_refund_companion
                   = events.unresolved_refund_companion \cup recon.unresolved_refund_companion
              /\ events'.quarantined_settlement
                   = events.quarantined_settlement \cup recon.quarantined_settlement
  <1>1. PICK after : after = Recorded(feed, p, how)
    OBVIOUS
  <1>2. events' = after
    BY <1>1 DEF Record
  <1> QED BY <1>1, <1>2, RecordedEvents

LEMMA FirstRecordIsSound ==
    ASSUME IntakeInv, statement' = statement, batch = NoValue,
           NEW feed \in Seq(FeedRow), NEW p \in Mapping, NEW how, Record(feed, p, how)
    PROVE  EventsSound' /\ BatchSound'
  <1>1. batch' = [feed |-> feed, profile |-> p] /\ facts' = Facts(feed, p)
    BY DEF Record
  <1>2. events = NoEvents /\ EventsSound
    BY DEF IntakeInv, EventsSound
  <1>3. /\ batch' \in [feed : Seq(FeedRow), profile : Mapping]
        /\ batch'.feed = feed /\ batch'.profile = p /\ batch' # NoValue
    BY <1>1, IntakeAssumption
  <1>4. PICK recon : recon = RazorpayEvents(feed)
    OBVIOUS
  <1>5. PICK bank : bank = BankEvents(p)
    OBVIOUS
  <1>6. /\ DOMAIN events' = DOMAIN NoEvents
        /\ events'.accepted_bank_row = bank.accepted_bank_row
        /\ events'.rejected_bank_row = bank.rejected_bank_row
        /\ events'.source_row = recon.source_row /\ events'.conflict = recon.conflict
        /\ events'.warning = recon.warning
        /\ events'.unresolved_refund_companion = recon.unresolved_refund_companion
        /\ events'.quarantined_settlement = recon.quarantined_settlement
    <2>1. /\ DOMAIN events' = DOMAIN NoEvents
          /\ events'.accepted_bank_row = events.accepted_bank_row \cup bank.accepted_bank_row
          /\ events'.rejected_bank_row = events.rejected_bank_row \cup bank.rejected_bank_row
          /\ events'.source_row = events.source_row \cup recon.source_row
          /\ events'.conflict = events.conflict \cup recon.conflict
          /\ events'.warning = events.warning \cup recon.warning
          /\ events'.unresolved_refund_companion
               = events.unresolved_refund_companion \cup recon.unresolved_refund_companion
          /\ events'.quarantined_settlement
               = events.quarantined_settlement \cup recon.quarantined_settlement
      BY <1>2, <1>4, <1>5, RecordAdds
    <2>2. /\ events.accepted_bank_row = {} /\ events.rejected_bank_row = {}
          /\ events.source_row = {} /\ events.conflict = {} /\ events.warning = {}
          /\ events.unresolved_refund_companion = {} /\ events.quarantined_settlement = {}
      BY <1>2 DEF NoEvents
    <2> QED BY <2>1, <2>2
  <1>7. Facts(feed, p)' = Facts(feed, p) /\ BankEvents(p)' = BankEvents(p)
    BY DEF Facts, BankEvents
  <1>8. FeedSound(events', feed)
    <2>1. FeedSound(recon, feed)
      BY <1>4, FeedIsAudited
    <2> QED BY <1>6, <2>1 DEF FeedSound
  <1>9. ~Unreadable(p, statement.header)
    BY DEF Record, IsRead
  <1>10. BatchSound'
    BY <1>1, <1>3, <1>5, <1>6, <1>7, <1>8, <1>9 DEF BatchSound
  <1> QED BY <1>3, <1>6, <1>10 DEF EventsSound

LEMMA LaterRecordIsSound ==
    ASSUME IntakeInv, statement' = statement, batch # NoValue,
           NEW feed \in Seq(FeedRow), NEW p, NEW how, Record(feed, p, how)
    PROVE  EventsSound' /\ BatchSound'
  <1>1. PICK old : old = batch.feed
    OBVIOUS
  <1>2. /\ UNCHANGED <<batch, facts>> /\ p = batch.profile
        /\ SameRows(feed, old) /\ Facts(feed, p) = facts
    BY <1>1 DEF Record, SameContent
  <1>3. PICK recon : recon = RazorpayEvents(feed)
    OBVIOUS
  <1>4. PICK bank : bank = BankEvents(p)
    OBVIOUS
  <1>5. /\ EventsSound /\ batch \in [feed : Seq(FeedRow), profile : Mapping]
        /\ ~Unreadable(p, statement.header)
        /\ facts = Facts(old, p) /\ old \in Seq(FeedRow)
        /\ events.accepted_bank_row = bank.accepted_bank_row
        /\ events.rejected_bank_row = bank.rejected_bank_row
        /\ FeedSound(events, old)
    BY <1>1, <1>2, <1>4 DEF IntakeInv, BatchSound
  <1>6. FeedSound(recon, old)
    BY <1>2, <1>3, <1>5, SameRowsSameRange, FeedIsAuditedAgain
  <1>7. /\ DOMAIN events' = DOMAIN NoEvents
        /\ events'.accepted_bank_row = events.accepted_bank_row \cup bank.accepted_bank_row
        /\ events'.rejected_bank_row = events.rejected_bank_row \cup bank.rejected_bank_row
        /\ events'.source_row = events.source_row \cup recon.source_row
        /\ events'.conflict = events.conflict \cup recon.conflict
        /\ events'.warning = events.warning \cup recon.warning
        /\ events'.unresolved_refund_companion
             = events.unresolved_refund_companion \cup recon.unresolved_refund_companion
        /\ events'.quarantined_settlement
             = events.quarantined_settlement \cup recon.quarantined_settlement
    BY <1>3, <1>4, <1>5, RecordAdds
  <1>8. FeedSound(events', old)
    <2>1. /\ events'.source_row = events.source_row /\ events'.conflict = events.conflict
          /\ events'.warning = events.warning
          /\ events'.unresolved_refund_companion = events.unresolved_refund_companion
      BY <1>5, <1>6, <1>7 DEF FeedSound
    <2>2. {q.settlement : q \in events'.quarantined_settlement} = Quarantined(old)
      <3>1. /\ {q.settlement : q \in events.quarantined_settlement} = Quarantined(old)
            /\ {q.settlement : q \in recon.quarantined_settlement} = Quarantined(old)
        BY <1>5, <1>6 DEF FeedSound
      <3> QED BY <1>7, <3>1
    <2>3. \A q \in events'.quarantined_settlement : QuarantineSound(q, old)
      BY <1>5, <1>6, <1>7 DEF FeedSound
    <2> QED BY <1>5, <2>1, <2>2, <2>3 DEF FeedSound
  <1>9. Facts(old, p)' = Facts(old, p) /\ BankEvents(p)' = BankEvents(p)
    BY DEF Facts, BankEvents
  <1>10. batch'.feed = old /\ batch'.profile = p
    BY <1>1, <1>2
  <1>11. BatchSound'
    BY <1>2, <1>4, <1>5, <1>7, <1>8, <1>9, <1>10 DEF BatchSound
  <1> QED BY <1>2, <1>5, <1>7, <1>11 DEF EventsSound

\* The books of a feed agree, so that none ends a run.
LEMMA NeverUnbalanced == ASSUME NEW feed \in Seq(FeedRow) PROVE ~Unbalanced(feed)
  BY Balanced DEF Unbalanced

LEMMA RunKeepsInv == IntakeInv /\ Run => IntakeInv'
  <1> SUFFICES ASSUME IntakeInv, Run PROVE IntakeInv'
    OBVIOUS
  <1>1. ReviewInv' /\ statement' = statement /\ saved' = saved
    <2>1. UNCHANGED reviewVars
      BY DEF Run
    <2> QED BY <2>1, ReviewInvStep DEF IntakeInv, reviewVars
  <1>2. PICK upload \in Uploads :
            LET feed == upload[1]
                p == upload[2][1]
            IN \/ RefuseColumns(feed, p)
               \/ Abort(feed, p)
               \/ RefuseBatch(feed, p)
               \/ Record(feed, p, upload[2][2])
    BY DEF Run
  <1> DEFINE feed == upload[1]
             p == upload[2][1]
  <1>3. feed \in Seq(FeedRow) /\ (batch = NoValue => p \in Mapping) /\ upload[2] \in Selected
    BY UploadsAreFeeds
  <1>4. CASE RefuseColumns(feed, p) \/ Abort(feed, p) \/ RefuseBatch(feed, p)
    <2>1. UNCHANGED <<batch, facts, events>>
      BY <1>4 DEF RefuseColumns, Abort, RefuseBatch
    <2>2. EventsSound' /\ BatchSound'
      BY <1>1, <2>1, BatchStands
    <2>3. AbortSound'
      <3>1. CASE Abort(feed, p)
        <4>1. Aborts(p, statement.header, statement.rows)
          BY <1>3, <3>1, NeverUnbalanced DEF Abort
        <4>2. Selected' = Selected
          BY <1>1 DEF Selected
        <4> QED BY <1>1, <1>3, <4>1, <4>2 DEF AbortSound
      <3>2. CASE RefuseColumns(feed, p) \/ RefuseBatch(feed, p)
        BY <3>2 DEF RefuseColumns, RefuseBatch, AbortSound
      <3> QED BY <1>4, <3>1, <3>2
    <2> QED BY <1>1, <2>2, <2>3 DEF IntakeInv
  <1>5. CASE Record(feed, p, upload[2][2])
    <2>1. EventsSound' /\ BatchSound'
      BY <1>1, <1>3, <1>5, FirstRecordIsSound, LaterRecordIsSound
    <2>2. AbortSound'
      BY <1>5 DEF Record, AbortSound
    <2> QED BY <1>1, <2>1, <2>2 DEF IntakeInv
  <1> QED BY <1>2, <1>4, <1>5

LEMMA IntakeInvAlways == Spec => []IntakeInv
  <1>1. IntakeInv /\ UNCHANGED vars => IntakeInv'
    <2> SUFFICES ASSUME IntakeInv, UNCHANGED vars PROVE IntakeInv'
      OBVIOUS
    <2>1. ReviewInv' /\ UNCHANGED <<statement, saved, batch, facts, events, outcome>>
      BY ReviewInvStep DEF vars, reviewVars, intakeVars, IntakeInv
    <2>2. Selected' = Selected
      BY <2>1 DEF Selected
    <2>3. AbortSound'
      BY <2>1, <2>2 DEF AbortSound, IntakeInv
    <2> QED BY <2>1, <2>3, BatchStands DEF IntakeInv
  <1>2. IntakeInv /\ [Next]_vars => IntakeInv'
    BY <1>1, ReviewKeepsInv, RunKeepsInv DEF Next
  <1> QED BY IntakeInvInit, <1>2, PTL DEF Spec

----------------------------------------------------------------------------
(* One statement *)

\* A row that is collapsed bears a reference and repeats an earlier row that is not.
LEMMA CollapsedRepeats ==
    ASSUME NEW S, NEW rows \in Seq(S), NEW p, NEW h, NEW i \in CollapsedRows(p, h, rows)
    PROVE  /\ Reference(p, h, rows[i]) # NoValue
           /\ \E j \in Assigned(p, h, rows) :
                j \in 1 .. i - 1 /\ Content(h, rows[j]) = Content(h, rows[i])
  <1> DEFINE Same(k) == SameReference(p, h, rows, k)
  <1>1. i \in DOMAIN rows /\ i \notin ConflictingRows(p, h, rows) /\ \E j \in Same(i) : j < i
    BY DEF CollapsedRows
  <1>2. Same(i) \in SUBSET Nat /\ Same(i) # {}
    BY <1>1 DEF SameReference
  <1>3. PICK k \in Same(i) : \A j \in Same(i) : k <= j
    BY <1>2, LeastElement
  <1>4. /\ k \in DOMAIN rows /\ Reference(p, h, rows[i]) # NoValue
        /\ Reference(p, h, rows[k]) = Reference(p, h, rows[i])
    BY <1>3 DEF SameReference
  <1>5. Same(k) = Same(i)
    BY <1>4 DEF SameReference
  <1>6. \A j \in Same(i) : Content(h, rows[j]) = Content(h, rows[i])
    BY <1>1 DEF ConflictingRows
  <1>7. k \notin ConflictingRows(p, h, rows)
    BY <1>3, <1>5, <1>6 DEF ConflictingRows
  <1>8. k \notin CollapsedRows(p, h, rows)
    <2>1. \A j \in Same(k) : ~(j < k)
      <3>1. \A j \in Same(i) : j \in Nat
        BY <1>2
      <3> QED BY <1>3, <1>5, <3>1
    <2> QED BY <2>1 DEF CollapsedRows
  <1>9. k \in 1 .. i - 1
    <2>1. PICK j \in Same(i) : j < i
      BY <1>1
    <2>2. i \in Nat /\ k \in 1 .. Len(rows) /\ j \in 1 .. Len(rows)
      BY <1>1, <1>4 DEF SameReference
    <2> QED BY <1>3, <2>1, <2>2
  <1>10. k \in Assigned(p, h, rows)
    BY <1>4, <1>7, <1>8 DEF Assigned
  <1> QED BY <1>3, <1>4, <1>6, <1>9, <1>10

\* Rows without a reference that say the same are counted apart.
LEMMA OccurrencesDiffer ==
    ASSUME NEW S, NEW rows \in Seq(S), NEW p, NEW h,
           NEW i \in DOMAIN rows, NEW j \in DOMAIN rows, i < j,
           Reference(p, h, rows[i]) = NoValue, Reference(p, h, rows[j]) = NoValue,
           ContentKey(p, h, rows[i]) = ContentKey(p, h, rows[j])
    PROVE  Occurrence(p, h, rows, i) # Occurrence(p, h, rows, j)
  <1> DEFINE Before(n) == {k \in 1 .. n - 1 :
                /\ Reference(p, h, rows[k]) = NoValue
                /\ ContentKey(p, h, rows[k]) = ContentKey(p, h, rows[n])}
  <1>1. i \in Nat /\ j \in Nat
    OBVIOUS
  <1>2. IsFiniteSet(Before(j))
    <2>1. j - 1 \in Int /\ 1 \in Int
      BY <1>1
    <2>2. IsFiniteSet(1 .. j - 1)
      BY <2>1, FS_Interval
    <2>3. Before(j) \in SUBSET (1 .. j - 1)
      OBVIOUS
    <2> QED BY <2>2, <2>3, FS_Subset
  <1>3. Before(i) \in SUBSET Before(j) /\ i \in Before(j) /\ i \notin Before(i)
    <2>1. \A k \in 1 .. i - 1 : k \in 1 .. j - 1
      BY <1>1
    <2> QED BY <1>1, <2>1
  <1>4. Cardinality(Before(i)) # Cardinality(Before(j))
    <2> HIDE DEF Before
    <2> QED BY <1>2, <1>3, FS_Subset
  <1> QED BY <1>4 DEF Occurrence

\* No two rows are given one id.
LEMMA IdsAreUnique ==
    ASSUME NEW S, NEW rows \in Seq(S), NEW p, NEW h,
           NEW i \in Assigned(p, h, rows), NEW j \in Assigned(p, h, rows), i < j
    PROVE  RecordId(p, h, rows, i) # RecordId(p, h, rows, j)
  <1> DEFINE Ref(k) == Reference(p, h, rows[k])
  <1>1. i \in DOMAIN rows /\ j \in DOMAIN rows
    BY DEF Assigned
  <1>2. CASE Ref(i) # NoValue /\ Ref(j) # NoValue
    <2>1. SUFFICES ASSUME Ref(i) = Ref(j) PROVE FALSE
      BY <1>2 DEF RecordId
    <2>2. i \in SameReference(p, h, rows, j)
      BY <1>1, <1>2, <2>1 DEF SameReference
    <2>3. j \in CollapsedRows(p, h, rows) \cup ConflictingRows(p, h, rows)
      BY <1>1, <2>2 DEF CollapsedRows
    <2> QED BY <2>3 DEF Assigned
  <1>3. CASE Ref(i) = NoValue /\ Ref(j) = NoValue
    <2>1. CASE ContentKey(p, h, rows[i]) = ContentKey(p, h, rows[j])
      BY <1>1, <1>3, <2>1, OccurrencesDiffer DEF RecordId
    <2>2. CASE ContentKey(p, h, rows[i]) # ContentKey(p, h, rows[j])
      BY <1>3, <2>2 DEF RecordId
    <2> QED BY <2>1, <2>2
  <1>4. CASE (Ref(i) = NoValue) # (Ref(j) = NoValue)
    <2>1. \A a, b, c, d, e : <<a, b>> # <<c, d, e>>
      <3> SUFFICES ASSUME NEW a, NEW b, NEW c, NEW d, NEW e PROVE <<a, b>> # <<c, d, e>>
        OBVIOUS
      <3>1. Len(<<a, b>>) = 2 /\ Len(<<c, d, e>>) = 3
        OBVIOUS
      <3> QED BY <3>1
    <2> QED BY <1>4, <2>1 DEF RecordId
  <1> QED BY <1>2, <1>3, <1>4

\* What is built of a statement: as many records as rows, under their own ids.
LEMMA RecordsOfRows ==
    ASSUME NEW S, NEW rows \in Seq(S), NEW p, NEW h
    PROVE  LET E == {[index |-> i, row |-> Content(h, rows[i]),
                      produced |-> RecordId(p, h, rows, i)] : i \in Accepted(p, h, rows)}
           IN /\ {e.produced : e \in E} = {r.id : r \in Records(p, h, rows)}
              /\ Cardinality(E) = Cardinality(Records(p, h, rows))
  <1> DEFINE A == Accepted(p, h, rows)
             Event(i) == [index |-> i, row |-> Content(h, rows[i]),
                          produced |-> RecordId(p, h, rows, i)]
             ev == [i \in A |-> Event(i)]
             rec == [i \in A |-> BankRecord(p, h, rows, i)]
  <1>1. A \subseteq 1 .. Len(rows) /\ A \subseteq Assigned(p, h, rows)
    BY DEF Accepted, Assigned
  <1>2. IsFiniteSet(A)
    <2>1. IsFiniteSet(1 .. Len(rows))
      BY FS_Interval
    <2> QED BY <1>1, <2>1, FS_Subset
  <1>3. \A i \in A : ev[i].index = i /\ ev[i].produced = RecordId(p, h, rows, i)
    OBVIOUS
  <1>4. \A i \in A : rec[i].id = RecordId(p, h, rows, i)
    BY DEF BankRecord
  <1>5. \A i, j \in A : rec[i] = rec[j] => i = j
    <2>1. \A i, j \in A : i < j => RecordId(p, h, rows, i) # RecordId(p, h, rows, j)
      BY <1>1, IdsAreUnique
    <2>2. \A i, j \in A : i = j \/ i < j \/ j < i
      BY <1>1
    <2> HIDE DEF rec
    <2> QED BY <1>4, <2>1, <2>2
  <1>6. Records(p, h, rows) = {rec[i] : i \in A} /\ {Event(i) : i \in A} = {ev[i] : i \in A}
    BY DEF Records
  <1>7. Cardinality({rec[i] : i \in A}) = Cardinality(A)
    <2>1. PICK f : f = rec
      OBVIOUS
    <2>2. DOMAIN f = A /\ f = [i \in A |-> f[i]]
      BY <2>1
    <2> HIDE DEF A, rec
    <2> QED BY <1>2, <1>5, <2>1, <2>2, ImageHasAsMany
  <1>8. Cardinality({ev[i] : i \in A}) = Cardinality(A)
    <2>1. PICK f : f = ev
      OBVIOUS
    <2>2. DOMAIN f = A /\ f = [i \in A |-> f[i]]
      BY <2>1
    <2> HIDE DEF A, ev
    <2>3. \A i, j \in A : f[i] = f[j] => i = j
      BY <1>3, <2>1
    <2> QED BY <1>2, <2>1, <2>2, <2>3, ImageHasAsMany
  <1>9. {e.produced : e \in {ev[i] : i \in A}} = {r.id : r \in {rec[i] : i \in A}}
    <2> HIDE DEF ev, rec
    <2> QED BY <1>3, <1>4
  <1> QED BY <1>6, <1>7, <1>8, <1>9

----------------------------------------------------------------------------
(* The order of a statement *)

\* The movement a row reports.
RowSaid(p, h, row) ==
    [amount |-> ReadMoney(p, h, row).amount, direction |-> ReadMoney(p, h, row).direction,
     narration |-> Cell(h, row, p.narration), date |-> ReadDate(p, h, row)]

\* Rows of one content are read alike.
LEMMA ContentSaysAll ==
    ASSUME NEW p \in Mapping, NEW h, ~Unreadable(p, h), NEW q, NEW r, Content(h, q) = Content(h, r)
    PROVE  Reason(p, h, q) = Reason(p, h, r) /\ RowSaid(p, h, q) = RowSaid(p, h, r)
  <1> DEFINE Names == {h[k] : k \in DOMAIN h}
             read(row) == [name \in Names |-> Cell(h, row, name)]
  <1>1. read(q) = read(r)
    BY DEF Content
  <1>2. ASSUME NEW name \in Names PROVE Cell(h, q, name) = Cell(h, r, name)
    <2>1. read(q)[name] = Cell(h, q, name) /\ read(r)[name] = Cell(h, r, name)
      OBVIOUS
    <2> HIDE DEF read
    <2> QED BY <1>1, <2>1
  <1>3. /\ p.date \in Names /\ p.narration \in Names
        /\ MoneyColumns(p)[1] \in Names /\ MoneyColumns(p)[2] \in Names
        /\ p.currencyColumn # NoValue => p.currencyColumn \in Names
    BY MappingReviewAssumption DEF Unreadable, DeclaredColumns
  <1> HIDE DEF Names, read
  <1>4. ReadMoney(p, h, q) = ReadMoney(p, h, r) /\ ReadDate(p, h, q) = ReadDate(p, h, r)
    BY <1>2, <1>3 DEF ReadMoney, ReadDate
  <1>5. WrongCurrency(p, h, q) <=> WrongCurrency(p, h, r)
    BY <1>2, <1>3 DEF WrongCurrency
  <1>6. /\ Cell(h, q, p.narration) = Cell(h, r, p.narration)
        /\ Cell(h, q, p.date) = Cell(h, r, p.date)
    BY <1>2, <1>3
  <1> QED BY <1>4, <1>5, <1>6 DEF Reason, RowSaid

\* The rows of a statement that report a movement, and what tells movements apart.
Reporting(p, h, rows, m) ==
    {j \in DOMAIN rows : /\ j \notin ConflictingRows(p, h, rows)
                         /\ Reason(p, h, rows[j]) = NoValue /\ RowSaid(p, h, rows[j]) = m}
Bearer(p, h, rows, j) ==
    IF Reference(p, h, rows[j]) = NoValue THEN <<0, j>> ELSE <<1, Reference(p, h, rows[j])>>
TakenRows(p, h, rows, m) ==
    {i \in Accepted(p, h, rows) : RowSaid(p, h, rows[i]) = m}

StandsFor(p, h, rows, i, j) ==
    i = j \/ /\ Reference(p, h, rows[j]) # NoValue
             /\ Reference(p, h, rows[i]) = Reference(p, h, rows[j])

\* Of the rows that bear one reference without a conflict, one is taken.
LEMMA BearerIsTaken ==
    ASSUME NEW S, NEW rows \in Seq(S), NEW p \in Mapping, NEW h, ~Unreadable(p, h),
           NEW m, NEW j \in Reporting(p, h, rows, m)
    PROVE  \E i \in TakenRows(p, h, rows, m) : StandsFor(p, h, rows, i, j)
  <1>1. /\ j \in DOMAIN rows /\ j \notin ConflictingRows(p, h, rows)
        /\ Reason(p, h, rows[j]) = NoValue /\ RowSaid(p, h, rows[j]) = m
    BY DEF Reporting
  <1>2. CASE j \notin CollapsedRows(p, h, rows)
    BY <1>1, <1>2 DEF TakenRows, Accepted, Assigned, StandsFor
  <1>3. CASE j \in CollapsedRows(p, h, rows)
    <2>1. SameReference(p, h, rows, j) \in SUBSET Nat /\ SameReference(p, h, rows, j) # {}
      BY <1>3 DEF CollapsedRows, SameReference
    <2>2. PICK i \in SameReference(p, h, rows, j) : \A k \in SameReference(p, h, rows, j) : i <= k
      BY <2>1, LeastElement
    <2>3. /\ i \in DOMAIN rows /\ Reference(p, h, rows[j]) # NoValue
          /\ Reference(p, h, rows[i]) = Reference(p, h, rows[j])
      BY <2>2 DEF SameReference
    <2>4. SameReference(p, h, rows, i) = SameReference(p, h, rows, j)
      BY <2>3 DEF SameReference
    <2>5. \A k \in SameReference(p, h, rows, j) : Content(h, rows[k]) = Content(h, rows[j])
      BY <1>1 DEF ConflictingRows
    <2>6. Content(h, rows[i]) = Content(h, rows[j])
      BY <2>2, <2>5
    <2>7. i \notin ConflictingRows(p, h, rows)
      BY <2>4, <2>5, <2>6 DEF ConflictingRows
    <2>8. i \notin CollapsedRows(p, h, rows)
      <3>1. \A k \in SameReference(p, h, rows, i) : ~(k < i)
        <4>1. \A k \in SameReference(p, h, rows, j) : k \in Nat
          BY <2>1
        <4> QED BY <2>2, <2>4, <4>1
      <3> QED BY <3>1 DEF CollapsedRows
    <2>9. Reason(p, h, rows[i]) = NoValue /\ RowSaid(p, h, rows[i]) = m
      BY <1>1, <2>6, ContentSaysAll
    <2> QED BY <2>3, <2>7, <2>8, <2>9 DEF TakenRows, Accepted, Assigned, StandsFor
  <1> QED BY <1>2, <1>3

\* Two rows that are taken bear different references, or none.
LEMMA TakenOnce ==
    ASSUME NEW S, NEW rows \in Seq(S), NEW p, NEW h,
           NEW i \in Accepted(p, h, rows), NEW k \in Accepted(p, h, rows),
           Reference(p, h, rows[i]) # NoValue,
           Reference(p, h, rows[i]) = Reference(p, h, rows[k])
    PROVE  i = k
  <1>1. ASSUME NEW a \in Accepted(p, h, rows), NEW b \in Accepted(p, h, rows), a < b,
               Reference(p, h, rows[a]) # NoValue,
               Reference(p, h, rows[a]) = Reference(p, h, rows[b])
        PROVE  FALSE
    <2>1. a \in DOMAIN rows /\ b \in DOMAIN rows /\ b \in Assigned(p, h, rows)
      BY DEF Accepted, Assigned
    <2>2. a \in SameReference(p, h, rows, b)
      BY <1>1, <2>1 DEF SameReference
    <2>3. b \in CollapsedRows(p, h, rows) \cup ConflictingRows(p, h, rows)
      BY <1>1, <2>1, <2>2 DEF CollapsedRows
    <2> QED BY <2>1, <2>3 DEF Assigned
  <1>2. i \in Nat /\ k \in Nat
    BY DEF Accepted, Assigned
  <1> QED BY <1>1, <1>2

Arranged(order, rows, g) ==
    /\ order \in Bijection(DOMAIN rows, DOMAIN rows)
    /\ g = [i \in DOMAIN rows |-> rows[order[i]]]

Counted(p, h, rows, g, m) ==
    /\ Cardinality(TakenRows(p, h, g, m))
         = Cardinality({Bearer(p, h, rows, j) : j \in Reporting(p, h, rows, m)})
    /\ TakenRows(p, h, g, m) = {} <=> Reporting(p, h, rows, m) = {}

\* However its rows are ordered, a statement has a movement taken as often as it has
\* bearers of it.
LEMMA OrderDoesNotCount ==
    ASSUME NEW S, NEW rows \in Seq(S), NEW order, NEW g, Arranged(order, rows, g),
           NEW p \in Mapping, NEW h, ~Unreadable(p, h), NEW m
    PROVE  Counted(p, h, rows, g, m)
  <1> DEFINE ref(j) == Reference(p, h, rows[j])
             T == TakenRows(p, h, g, m)
             R == Reporting(p, h, rows, m)
  <1>1. /\ DOMAIN rows = 1 .. Len(rows) /\ Len(rows) \in Nat /\ IsFiniteSet(DOMAIN rows)
        /\ \A j \in DOMAIN rows : rows[j] \in S
    BY LenProperties, FS_Interval, ElementOfSeq
  <1>2. /\ order \in [DOMAIN rows -> DOMAIN rows]
        /\ \A i, k \in DOMAIN rows : order[i] = order[k] => i = k
        /\ \A j \in DOMAIN rows : \E i \in DOMAIN rows : order[i] = j
    BY DEF Arranged, Bijection, Injection, Surjection, IsInjective
  <1>3. /\ g \in Seq(S) /\ DOMAIN g = DOMAIN rows
        /\ \A i \in DOMAIN rows : g[i] = rows[order[i]]
    <2>1. g \in [1 .. Len(rows) -> S]
      BY <1>1, <1>2 DEF Arranged
    <2> QED BY <1>1, <2>1 DEF Arranged
  <1>4. ASSUME NEW i \in DOMAIN rows
        PROVE  i \in ConflictingRows(p, h, g) <=> order[i] \in ConflictingRows(p, h, rows)
    <2>1. \A k : k \in SameReference(p, h, g, i)
                 <=> k \in DOMAIN rows /\ order[k] \in SameReference(p, h, rows, order[i])
      BY <1>2, <1>3 DEF SameReference
    <2>2. \A j \in SameReference(p, h, rows, order[i]) : \E k \in DOMAIN rows : order[k] = j
      BY <1>2 DEF SameReference
    <2>3. (\E k \in SameReference(p, h, g, i) : Content(h, g[k]) # Content(h, g[i]))
          <=> \E j \in SameReference(p, h, rows, order[i]) :
                 Content(h, rows[j]) # Content(h, rows[order[i]])
      BY <1>3, <2>1, <2>2
    <2> QED BY <1>2, <1>3, <2>3 DEF ConflictingRows
  <1>5. ASSUME NEW i \in T PROVE i \in DOMAIN rows /\ order[i] \in R
    <2>1. /\ i \in DOMAIN g /\ i \notin ConflictingRows(p, h, g)
          /\ Reason(p, h, g[i]) = NoValue /\ RowSaid(p, h, g[i]) = m
      BY DEF TakenRows, Accepted, Assigned
    <2> QED BY <1>2, <1>3, <1>4, <2>1 DEF Reporting
  <1>6. ASSUME NEW j \in R
        PROVE  \E i \in T : Bearer(p, h, rows, order[i]) = Bearer(p, h, rows, j)
    <2>1. PICK k \in DOMAIN rows : order[k] = j
      BY <1>2 DEF Reporting
    <2>2. k \in Reporting(p, h, g, m)
      BY <1>3, <1>4, <2>1 DEF Reporting
    <2>3. PICK i \in TakenRows(p, h, g, m) : StandsFor(p, h, g, i, k)
      BY <1>3, <2>2, BearerIsTaken
    <2>4. g[i] = rows[order[i]] /\ g[k] = rows[j]
      BY <1>3, <1>5, <2>1, <2>3
    <2> QED BY <2>1, <2>3, <2>4 DEF Bearer, StandsFor
  <1>7. ASSUME NEW i \in T, NEW k \in T, Bearer(p, h, rows, order[i]) = Bearer(p, h, rows, order[k])
        PROVE  i = k
    <2>1. /\ i \in Accepted(p, h, g) /\ k \in Accepted(p, h, g)
          /\ i \in DOMAIN rows /\ k \in DOMAIN rows
          /\ g[i] = rows[order[i]] /\ g[k] = rows[order[k]]
      BY <1>3, <1>5 DEF TakenRows
    <2>2. CASE ref(order[i]) # NoValue
      <3>1. ref(order[k]) = ref(order[i])
        BY <1>7, <2>2 DEF Bearer
      <3> QED BY <1>3, <2>1, <2>2, <3>1, TakenOnce
    <2>3. CASE ref(order[i]) = NoValue
      <3>1. order[i] = order[k]
        BY <1>7, <2>3 DEF Bearer
      <3> QED BY <1>2, <2>1, <3>1
    <2> QED BY <2>2, <2>3
  <1>8. IsFiniteSet(T)
    <2>1. T \subseteq DOMAIN rows
      BY <1>5
    <2> QED BY <1>1, <2>1, FS_Subset
  <1> HIDE DEF T, R
  <1>9. PICK b : b = [i \in T |-> Bearer(p, h, rows, order[i])]
    OBVIOUS
  <1>10. Cardinality({b[i] : i \in T}) = Cardinality(T)
    <2>1. \A i, k \in T : b[i] = b[k] => i = k
      BY <1>7, <1>9
    <2>2. DOMAIN b = T /\ b = [i \in T |-> b[i]]
      BY <1>9
    <2> QED BY <1>8, <2>1, <2>2, ImageHasAsMany
  <1>11. PICK c : c = [j \in R |-> Bearer(p, h, rows, j)]
    OBVIOUS
  <1>12. {b[i] : i \in T} = {c[j] : j \in R}
    <2>1. \A i \in T : order[i] \in R /\ c[order[i]] = b[i]
      BY <1>5, <1>9, <1>11
    <2>2. \A j \in R : \E i \in T : b[i] = c[j]
      BY <1>6, <1>9, <1>11
    <2> QED BY <2>1, <2>2
  <1>13. {Bearer(p, h, rows, j) : j \in R} = {c[j] : j \in R}
    BY <1>11
  <1>14. T = {} <=> R = {}
    BY <1>5, <1>6
  <1> QED BY <1>10, <1>12, <1>13, <1>14 DEF T, R, Counted

MovementsTaken(p, h, rows) ==
    [m \in {m \in {RowSaid(p, h, rows[i]) : i \in DOMAIN rows} : TakenRows(p, h, rows, m) # {}}
       |-> Cardinality(TakenRows(p, h, rows, m))]

\* A statement reports a movement as often as it has a row of it taken.
LEMMA MovementsOfRows ==
    ASSUME NEW S, NEW rows \in Seq(S), NEW p, p = batch.profile
    PROVE  Movements(rows) = MovementsTaken(p, statement.header, rows)
  <1> DEFINE h == statement.header
             A == Accepted(p, h, rows)
             rec == [i \in A |-> BankRecord(p, h, rows, i)]
             Said(r) == [amount |-> r.amount, direction |-> r.direction,
                         narration |-> r.narration, date |-> r.date]
             M == {m \in {RowSaid(p, h, rows[i]) : i \in DOMAIN rows} : TakenRows(p, h, rows, m) # {}}
             Of(m) == {r \in Records(p, h, rows) : Said(r) = m}
  <1>1. A \subseteq 1 .. Len(rows) /\ A \subseteq Assigned(p, h, rows) /\ A \subseteq DOMAIN rows
    BY DEF Accepted, Assigned
  <1>2. IsFiniteSet(A)
    <2>1. IsFiniteSet(1 .. Len(rows))
      BY FS_Interval
    <2> QED BY <1>1, <2>1, FS_Subset
  <1>3. \A i \in A : Said(rec[i]) = RowSaid(p, h, rows[i])
    BY DEF BankRecord, RowSaid
  <1>4. \A i, j \in A : rec[i] = rec[j] => i = j
    <2>1. \A i \in A : rec[i].id = RecordId(p, h, rows, i)
      BY DEF BankRecord
    <2>2. \A i, j \in A : i < j => RecordId(p, h, rows, i) # RecordId(p, h, rows, j)
      BY <1>1, IdsAreUnique
    <2>3. \A i, j \in A : i = j \/ i < j \/ j < i
      BY <1>1
    <2> HIDE DEF rec
    <2> QED BY <2>1, <2>2, <2>3
  <1>5. Records(p, h, rows) = {rec[i] : i \in A}
    BY DEF Records
  <1> HIDE DEF rec, Said, A
  <1>6. \A m : TakenRows(p, h, rows, m) = {i \in A : RowSaid(p, h, rows[i]) = m}
    BY DEF TakenRows, A
  <1>7. ASSUME NEW m PROVE Cardinality(Of(m)) = Cardinality(TakenRows(p, h, rows, m))
    <2>1. PICK T : T = TakenRows(p, h, rows, m)
      OBVIOUS
    <2>2. T \subseteq A /\ IsFiniteSet(T) /\ \A i \in A : i \in T <=> Said(rec[i]) = m
      BY <1>2, <1>3, <1>6, <2>1, FS_Subset
    <2>3. PICK b : b = [i \in T |-> rec[i]]
      OBVIOUS
    <2>4. DOMAIN b = T /\ b = [i \in T |-> b[i]] /\ \A i \in T : b[i] = rec[i]
      BY <2>3
    <2>5. \A i, j \in T : b[i] = b[j] => i = j
      BY <1>4, <2>2, <2>4
    <2>6. Cardinality({b[i] : i \in T}) = Cardinality(T)
      BY <2>2, <2>4, <2>5, ImageHasAsMany
    <2>7. \A r : r \in Of(m) <=> r \in {b[i] : i \in T}
      BY <1>5, <2>2, <2>4
    <2>8. Of(m) = {b[i] : i \in T}
      BY <2>7
    <2> QED BY <2>1, <2>6, <2>8
  <1>8. {Said(r) : r \in Records(p, h, rows)} = M
    <2>1. \A m : m \in {Said(r) : r \in Records(p, h, rows)} <=> \E i \in A : Said(rec[i]) = m
      BY <1>5
    <2>2. \A m : m \in M <=> \E i \in A : Said(rec[i]) = m
      <3>1. ASSUME NEW m \in M PROVE \E i \in A : Said(rec[i]) = m
        <4>1. PICK i \in A : RowSaid(p, h, rows[i]) = m
          BY <1>6
        <4> QED BY <1>3, <4>1
      <3>2. ASSUME NEW m, NEW i \in A, Said(rec[i]) = m PROVE m \in M
        <4>1. i \in DOMAIN rows /\ RowSaid(p, h, rows[i]) = m
          BY <1>1, <1>3, <3>2
        <4>2. i \in TakenRows(p, h, rows, m)
          BY <1>6, <4>1
        <4> QED BY <4>1, <4>2
      <3> HIDE DEF M
      <3> QED BY <3>1, <3>2
    <2> HIDE DEF M
    <2> QED BY <2>1, <2>2
  <1>9. Movements(rows) = [m \in {Said(r) : r \in Records(p, h, rows)} |-> Cardinality(Of(m))]
    BY DEF Movements, Said
  <1> HIDE DEF Of, M
  <1>10. Movements(rows) = [m \in M |-> Cardinality(TakenRows(p, h, rows, m))]
    BY <1>7, <1>8, <1>9
  <1> QED BY <1>10 DEF M, MovementsTaken

----------------------------------------------------------------------------
(* What the invariant says of a settlement *)

LEMMA RangeIsFinite ==
    ASSUME NEW feed \in Seq(FeedRow)
    PROVE  IsFiniteSet(Range(feed)) /\ Range(feed) \subseteq FeedRow
  <1>1. DOMAIN feed = 1 .. Len(feed) /\ Len(feed) \in Nat /\ IsFiniteSet(DOMAIN feed)
    BY LenProperties, FS_Interval
  <1>2. \A i \in DOMAIN feed : feed[i] \in FeedRow
    BY <1>1, ElementOfSeq
  <1>3. feed \in Surjection(DOMAIN feed, Range(feed))
    BY <1>2 DEF Surjection, Range
  <1> QED BY <1>1, <1>2, <1>3, FS_Surjection DEF Range

\* What enters a batch is what its feed proves.
LEMMA EnteredIs ==
    ASSUME IntakeInv, batch # NoValue, NEW s, NEW x \in Entered(s)
    PROVE  s \in Eligible(batch.feed) /\ x = Reconstruction(batch.feed, s)
  <1>1. PICK t \in Eligible(batch.feed) : x = Reconstruction(batch.feed, t)
    BY DEF Entered, IntakeInv, BatchSound, Facts
  <1>2. x.settlement = t
    BY <1>1 DEF Reconstruction, Eligible
  <1> QED BY <1>1, <1>2 DEF Entered

\* Each row of a settlement has a line of its breakup, in its place.
LEMMA RowsHaveLines ==
    ASSUME NEW feed \in Seq(FeedRow), NEW s, NEW k \in 1 .. Cardinality(GroupRows(feed, s))
    PROVE  /\ k \in DOMAIN Breakup(feed, s)
           /\ Breakup(feed, s)[k] = RowLine(InPlace(GroupRows(feed, s), k))
  <1>1. PICK n \in Nat, m \in 0 .. 2 : n = Cardinality(GroupRows(feed, s)) /\ Shape(feed, s, n, m)
    BY BreakupShape
  <1>2. k \in 1 .. n /\ k \in 1 .. n + m
    BY <1>1
  <1> QED BY <1>1, <1>2 DEF Shape

\* An eligible settlement is worth what its rows moved.
LEMMA WorthItsRows ==
    ASSUME NEW feed \in Seq(FeedRow), NEW s \in Eligible(feed),
           NEW rows, rows = {row \in OwnRows(feed, s) : row.settlement = s}
    PROVE  /\ rows = GroupRows(feed, s)
           /\ BreakupTotal(feed, s)
                = SumFunctionOnSet([row \in rows |-> row.credit - row.debit], rows)
  <1>1. \A row : row \in rows <=> row \in Range(feed) /\ row.settlement = s
    BY DEF OwnRows, Range
  <1>2. rows = GroupRows(feed, s)
    BY <1>1, EligibleIsClean
  <1>3. PICK h : h = [row \in FeedRow |-> row.credit - row.debit]
    OBVIOUS
  <1>4. PICK v : v = [i \in DOMAIN feed |-> feed[i].credit - feed[i].debit]
    OBVIOUS
  <1>5. /\ \A row \in FeedRow : h[row] = row.credit - row.debit /\ h[row] \in Int
        /\ \A i \in DOMAIN feed : v[i] = h[feed[i]]
    <2>1. DOMAIN feed = 1 .. Len(feed)
      BY LenProperties
    <2>2. \A i \in DOMAIN feed : feed[i] \in FeedRow
      BY <2>1, ElementOfSeq
    <2> QED BY <1>3, <1>4, <2>2, IntakeAssumption
  <1>6. SumFunctionOnSet(v, Group(feed, s)) = SumFunctionOnSet(h, rows)
    <2>1. \A row \in FeedRow : h[row] \in Int
      BY <1>5
    <2>2. \A i \in DOMAIN feed : v[i] = h[feed[i]]
      BY <1>5
    <2>3. SumFunctionOnSet(v, Group(feed, s)) = SumFunctionOnSet(h, GroupRows(feed, s))
      BY <2>1, <2>2, GroupTotal
    <2> QED BY <1>2, <2>3
  <1>7. PICK w : w = [row \in rows |-> row.credit - row.debit]
    OBVIOUS
  <1>8. rows \subseteq FeedRow /\ IsFiniteSet(rows)
    BY <1>2, GroupIs
  <1>9. \A row \in rows : h[row] \in Int /\ w[row] = h[row]
    BY <1>5, <1>7, <1>8
  <1>10. SumFunctionOnSet(w, rows) = SumFunctionOnSet(h, rows)
    BY <1>8, <1>9, SumSame
  <1>11. BreakupTotal(feed, s) = SumFunctionOnSet(v, Group(feed, s))
    BY <1>4, Balanced DEF SourceNet
  <1> QED BY <1>2, <1>6, <1>7, <1>10, <1>11

\* The rows that are kept, of all settlements, are of distinct entities.
LEMMA KeptOnce ==
    ASSUME NEW feed \in Seq(FeedRow), NEW s, NEW t, NEW q \in GroupRows(feed, s),
           NEW r \in GroupRows(feed, t), q.entity = r.entity
    PROVE  q = r
  <1>1. q \in Range(feed) /\ Unopposed(r, Range(feed))
    BY RowsDecide
  <1> QED BY <1>1 DEF Unopposed

\* A payment or refund in the breakup of an eligible settlement is one row of it.
LEMMA LineIsOfRow ==
    ASSUME NEW feed \in Seq(FeedRow), NEW s \in Eligible(feed),
           NEW k \in DOMAIN Breakup(feed, s), Breakup(feed, s)[k].type \in {"payment", "refund"}
    PROVE  \E row \in GroupRows(feed, s) :
                Breakup(feed, s)[k] = Line(row.type, Principal(row), row.entity)
  <1>1. PICK n \in Nat, m \in 0 .. 2 : n = Cardinality(GroupRows(feed, s)) /\ Shape(feed, s, n, m)
    BY BreakupShape
  <1>2. PICK lines : lines = Breakup(feed, s)
    OBVIOUS
  <1>3. k \in 1 .. n + m /\ k \notin n + 1 .. n + m
    <2>1. k \in n + 1 .. n + m => lines[k].type \in {"fee", "tax"}
      BY <1>1, <1>2 DEF Shape
    <2> QED BY <1>1, <1>2, <2>1 DEF Shape
  <1>4. k \in 1 .. n
    BY <1>1, <1>3
  <1>5. PICK row : row = feed[Ordered(feed, s)[k]]
    OBVIOUS
  <1>6. lines[k] = RowLine(row)
    BY <1>1, <1>2, <1>4, <1>5 DEF Shape
  <1>7. row \in GroupRows(feed, s)
    <2>1. PICK order : order = Ordered(feed, s)
      OBVIOUS
    <2>2. order[k] \in Group(feed, s)
      BY <1>1, <1>4, <2>1, OrderedIs
    <2> QED BY <1>5, <2>1, <2>2 DEF GroupRows
  <1>8. row.type \in {"payment", "refund"}
    BY <1>2, <1>6 DEF RowLine, Line
  <1> QED BY <1>2, <1>6, <1>7, <1>8 DEF RowLine, LineReference

LEMMA InvGivesEntersOrIsHeld == IntakeInv => EntersOrIsHeld
  <1> SUFFICES ASSUME IntakeInv, batch # NoValue, NEW row \in Range(batch.feed)
      PROVE  /\ Traces(row) # {}
             /\ (Entered(row.settlement) = {}) # (Held(row.settlement) = {})
             /\ \A q \in Held(row.settlement) : q.conflicts # {}
    BY DEF EntersOrIsHeld
  <1> DEFINE s == row.settlement
  <1>1. PICK feed \in Seq(FeedRow) : feed = batch.feed
    BY DEF IntakeInv, BatchSound
  <1>2. facts = Facts(feed, batch.profile) /\ FeedSound(events, feed)
    BY <1>1 DEF IntakeInv, BatchSound
  <1>3. Traces(row) # {}
    <2>1. Trace(feed, row) \in events.source_row
      BY <1>1, <1>2, TracesAre DEF FeedSound
    <2> QED BY <2>1 DEF Traces, Trace
  <1>4. s \in SettlementsNamed(feed)
    BY <1>1, SettlementsNamedIs
  <1>5. Entered(s) # {} <=> s \in Eligible(feed)
    BY <1>2, EligibleFromFacts DEF Entered
  <1>6. Held(s) # {} <=> s \in Quarantined(feed)
    BY <1>2 DEF Held, FeedSound
  <1>7. (Entered(s) = {}) # (Held(s) = {})
    BY <1>4, <1>5, <1>6, QuarantinedUnlessEligible
  <1>8. ASSUME NEW q \in Held(s) PROVE q.conflicts # {}
    <2>1. q.settlement \in Quarantined(feed) /\ q.conflicts = Blocking(feed, q.settlement)
      BY <1>2 DEF Held, FeedSound, QuarantineSound
    <2> QED BY <2>1 DEF Quarantined
  <1> QED BY <1>3, <1>7, <1>8

----------------------------------------------------------------------------
(* Theorems *)

\* A proposal asks the model a bounded number of times, never about a statement that
\* is recognised, and offers nothing that a confirmation would find invalid.
THEOREM ProposalsAreChecked == Spec => []ProposalIsChecked
  <1>1. IntakeInv => ProposalIsChecked
    BY InvGivesProposalIsChecked DEF IntakeInv
  <1> QED BY IntakeInvAlways, <1>1, PTL

\* No mapping is saved under a date format nobody chose and no date settles.
THEOREM AmbiguitiesAreAnswered == Spec => []AmbiguityIsAnswered
  <1>1. IntakeInv => AmbiguityIsAnswered
    BY InvGivesAmbiguityIsAnswered DEF IntakeInv
  <1> QED BY IntakeInvAlways, <1>1, PTL

\* What the validator accepts on a sample, the parser reads, wherever no name is on the
\* header row twice.
THEOREM ConfirmedMappingsRead == Spec => []ConfirmedMappingReads
  <1>1. IntakeInv => ConfirmedMappingReads
    BY InvGivesConfirmedMappingReads DEF IntakeInv
  <1> QED BY IntakeInvAlways, <1>1, PTL

\* Every row of a feed is audited, and its settlement enters the batch or is held
\* back for a reason, however often the feed is uploaded again in any order.
THEOREM EverySettlementEntersOrIsHeld == Spec => []EntersOrIsHeld
  BY IntakeInvAlways, InvGivesEntersOrIsHeld, PTL

\* What a settlement comes to is decided by its own rows, each taken once.
THEOREM QuarantinesAreLocal == Spec => []QuarantineIsLocal
  <1>1. IntakeInv => QuarantineIsLocal
    <2> SUFFICES ASSUME IntakeInv, batch # NoValue, NEW s \in SettlementsNamed(batch.feed)
        PROVE  Finding(batch.feed, s) = Finding(SetToSeq(OwnRows(batch.feed, s)), s)
      BY DEF QuarantineIsLocal
    <2>1. PICK feed \in Seq(FeedRow) : feed = batch.feed
      BY DEF IntakeInv, BatchSound
    <2>2. PICK own : own = OwnRows(feed, s)
      OBVIOUS
    <2>3. own \subseteq Range(feed) /\ IsFiniteSet(Range(feed)) /\ Range(feed) \subseteq FeedRow
      BY <2>2, RangeIsFinite DEF OwnRows, Range
    <2>4. IsFiniteSet(own) /\ own \subseteq FeedRow
      BY <2>3, FS_Subset
    <2>5. PICK g : g = SetToSeq(own)
      OBVIOUS
    <2>6. g \in Seq(own) /\ Range(g) = own
      BY <2>4, <2>5, SetToSeqLists
    <2>7. g \in Seq(FeedRow)
      BY <2>4, <2>6
    <2>8. Alike(feed, g, s)
      BY <2>2, <2>6, <2>7, OwnRowsDecide
    <2>9. Finding(feed, s) = Finding(g, s)
      BY <2>7, <2>8, FindingSame
    <2> QED BY <2>1, <2>2, <2>5, <2>9
  <1> QED BY IntakeInvAlways, <1>1, PTL

\* Pages that come back in another order are the same batch, told of already.
THEOREM RefetchesAreHarmless == Spec => []RefetchIsHarmless
  <1>1. IntakeInv => RefetchIsHarmless
    <2> SUFFICES ASSUME IntakeInv, batch # NoValue, NEW feed \in Rearranged(batch.feed)
        PROVE  /\ SameContent(feed, batch.profile)
               /\ \A type \in {"source_row", "conflict", "warning", "unresolved_refund_companion"} :
                    RazorpayEvents(feed)[type] \subseteq events[type]
      BY DEF RefetchIsHarmless
    <2>1. PICK old \in Seq(FeedRow) : old = batch.feed
      BY DEF IntakeInv, BatchSound
    <2>2. feed \in Seq(FeedRow) /\ Range(feed) = Range(old) /\ SameRows(feed, old)
      BY <2>1, RearrangedHasTheRows
    <2>3. PICK p : p = batch.profile
      OBVIOUS
    <2>4. Facts(feed, p) = facts
      <3>1. facts = Facts(old, p)
        BY <2>1, <2>3 DEF IntakeInv, BatchSound
      <3>2. Facts(feed, p) = Facts(old, p)
        BY <2>2, SameRangeSameFacts
      <3> QED BY <3>1, <3>2
    <2>5. SameContent(feed, batch.profile)
      BY <2>1, <2>2, <2>3, <2>4 DEF SameContent
    <2>6. PICK recon : recon = RazorpayEvents(feed)
      OBVIOUS
    <2>7. /\ recon.source_row = events.source_row /\ recon.conflict = events.conflict
          /\ recon.warning = events.warning
          /\ recon.unresolved_refund_companion = events.unresolved_refund_companion
      <3>1. FeedSound(events, old)
        BY <2>1 DEF IntakeInv, BatchSound
      <3> QED BY <2>2, <2>6, <3>1, SameRangeSameEvents DEF FeedSound
    <2> QED BY <2>5, <2>6, <2>7
  <1> QED BY IntakeInvAlways, <1>1, PTL

\* No row of a feed is lost: it is a line of what enters, or is held with the rest.
THEOREM NoRowVanishes == Spec => []NothingVanishes
  <1>1. IntakeInv => NothingVanishes
    <2> SUFFICES ASSUME IntakeInv, batch # NoValue, NEW row \in Range(batch.feed)
        PROVE  /\ \A x \in Entered(row.settlement) :
                    \E e \in Traces(row) : \E k \in e.produced :
                        x.breakup[k] = Line(row.type, Principal(row), LineReference(row))
               /\ \A q \in Held(row.settlement) : row \in Range(q.rows)
      BY InvGivesEntersOrIsHeld DEF NothingVanishes
    <2>1. PICK feed \in Seq(FeedRow) : feed = batch.feed
      BY DEF IntakeInv, BatchSound
    <2>2. PICK s : s = row.settlement
      OBVIOUS
    <2>3. FeedSound(events, feed) /\ row \in Range(feed)
      BY <2>1 DEF IntakeInv, BatchSound
    <2>4. ASSUME NEW q \in Held(s) PROVE row \in Range(q.rows)
      BY <2>2, <2>3 DEF Held, FeedSound, QuarantineSound
    <2>5. ASSUME NEW x \in Entered(s)
          PROVE  \E e \in Traces(row) : \E k \in e.produced :
                    x.breakup[k] = Line(row.type, Principal(row), LineReference(row))
      <3>1. s \in Eligible(feed) /\ x = Reconstruction(feed, s)
        BY <2>1, EnteredIs
      <3>2. PICK rows : rows = GroupRows(feed, s)
        OBVIOUS
      <3>3. PICK lines : lines = Breakup(feed, s)
        OBVIOUS
      <3>4. x.breakup = lines
        BY <3>1, <3>3 DEF Reconstruction, Eligible
      <3>5. row \in rows /\ \E k \in 1 .. Cardinality(rows) : InPlace(rows, k) = row
        BY <2>2, <2>3, <3>1, <3>2, EligibleIsClean
      <3>6. PICK k \in 1 .. Cardinality(rows) : InPlace(rows, k) = row
        BY <3>5
      <3>7. k \in DOMAIN lines /\ lines[k] = RowLine(row)
        BY <3>2, <3>3, <3>6, RowsHaveLines
      <3>8. Unopposed(row, Range(feed))
        BY <2>2, <3>2, <3>5, RowsDecide
      <3>9. PICK e : e = Trace(feed, row)
        OBVIOUS
      <3>10. e \in events.source_row /\ e.row = row
        BY <2>3, <3>9, TracesAre DEF FeedSound, Trace
      <3>11. k \in e.produced
        BY <2>2, <3>2, <3>3, <3>6, <3>7, <3>8, <3>9 DEF Trace, LinesOf
      <3> QED BY <3>4, <3>7, <3>10, <3>11 DEF Traces, RowLine
    <2> QED BY <2>2, <2>4, <2>5
  <1> QED BY IntakeInvAlways, <1>1, PTL

\* No feed can make the books disagree; a settlement is worth what its rows moved, and
\* each payment or refund in its breakup is one record of that amount.
THEOREM MoneyIsOfTheSource == Spec => []MoneyIsSourceNet
  <1>1. IntakeInv => MoneyIsSourceNet
    <2> DEFINE Lines(x, type) ==
          {x.breakup[k] : k \in {j \in DOMAIN x.breakup : x.breakup[j].type = type}}
    <2>1. ASSUME IntakeInv, batch # NoValue, NEW x \in facts.settlements
          PROVE  LET rows == {row \in OwnRows(batch.feed, x.settlement) :
                                row.settlement = x.settlement}
                 IN /\ x.amount = SumFunctionOnSet([row \in rows |-> row.credit - row.debit], rows)
                    /\ \A line \in Lines(x, "payment") :
                         {y.amount : y \in {z \in facts.payments : z.payment = line.reference}}
                         = {line.amount}
                    /\ \A line \in Lines(x, "refund") :
                         {y.amount : y \in {z \in events.unresolved_refund_companion :
                             z.refund = line.reference}} = {-line.amount}
      <3>1. PICK feed \in Seq(FeedRow) : feed = batch.feed
        BY <2>1 DEF IntakeInv, BatchSound
      <3>2. PICK s : s = x.settlement
        OBVIOUS
      <3>3. s \in Eligible(feed) /\ x = Reconstruction(feed, s)
        BY <2>1, <3>1, <3>2, EnteredIs DEF Entered
      <3>4. x.amount = BreakupTotal(feed, s) /\ x.breakup = Breakup(feed, s)
        BY <3>3 DEF Reconstruction, Eligible
      <3>5. PICK rows : rows = {row \in OwnRows(feed, s) : row.settlement = s}
        OBVIOUS
      <3>6. x.amount = SumFunctionOnSet([row \in rows |-> row.credit - row.debit], rows)
        BY <3>3, <3>4, <3>5, WorthItsRows
      <3>7. s \in SettlementsNamed(feed)
        BY <3>3 DEF Eligible
      <3>8. ASSUME NEW type \in {"payment", "refund"}, NEW line \in Lines(x, type)
            PROVE  \E row \in GroupRows(feed, s) :
                      row.type = type /\ line = Line(type, Principal(row), row.entity)
        <4>1. PICK k \in DOMAIN x.breakup : line = x.breakup[k] /\ line.type = type
          BY <3>8
        <4>2. PICK row \in GroupRows(feed, s) : line = Line(row.type, Principal(row), row.entity)
          BY <3>3, <3>4, <4>1, LineIsOfRow
        <4> QED BY <4>1, <4>2 DEF Line
      <3>9. ASSUME NEW line \in Lines(x, "payment")
            PROVE  {y.amount : y \in {z \in facts.payments : z.payment = line.reference}}
                   = {line.amount}
        <4>1. PICK row \in GroupRows(feed, s) :
                    row.type = "payment" /\ line = Line("payment", Principal(row), row.entity)
          BY <3>8, <3>9
        <4>2. facts.payments = UNION {Payments(feed, t) : t \in SettlementsNamed(feed)}
          BY <2>1, <3>1 DEF IntakeInv, BatchSound, Facts
        <4>3. PaymentOf(row) \in Payments(feed, s)
          <5>1. ProvesPayment(row)
            BY <3>3, <4>1, EligibleIsClean
          <5> QED BY <4>1, <5>1, CompanionsAre
        <4>4. PaymentOf(row) \in facts.payments
          BY <3>7, <4>2, <4>3
        <4>5. ASSUME NEW z \in facts.payments, z.payment = row.entity
              PROVE  z = PaymentOf(row)
          <5>1. PICK t : z \in Payments(feed, t)
            BY <4>2, <4>5
          <5>2. PICK r \in GroupRows(feed, t) : z = PaymentOf(r)
            BY <5>1, CompanionsAre
          <5>3. r.entity = row.entity
            BY <4>5, <5>2 DEF PaymentOf
          <5>4. r = row
            BY <4>1, <5>3, KeptOnce
          <5> QED BY <5>2, <5>4
        <4>6. line.reference = row.entity /\ line.amount = Principal(row)
          BY <4>1 DEF Line
        <4>7. PaymentOf(row).payment = row.entity /\ PaymentOf(row).amount = Principal(row)
          BY DEF PaymentOf
        <4>8. {z \in facts.payments : z.payment = line.reference} = {PaymentOf(row)}
          BY <4>4, <4>5, <4>6, <4>7
        <4> QED BY <4>6, <4>7, <4>8
      <3>10. ASSUME NEW line \in Lines(x, "refund")
             PROVE  {y.amount : y \in {z \in events.unresolved_refund_companion :
                        z.refund = line.reference}} = {-line.amount}
        <4>1. PICK row \in GroupRows(feed, s) :
                    row.type = "refund" /\ line = Line("refund", Principal(row), row.entity)
          BY <3>8, <3>10
        <4>2. events.unresolved_refund_companion
              = UNION {Refunds(feed, t) : t \in SettlementsNamed(feed)}
          <5>1. FeedSound(events, feed)
            BY <2>1, <3>1 DEF IntakeInv, BatchSound
          <5> QED BY <5>1 DEF FeedSound, RazorpayEvents, RefundsOf
        <4>3. RefundOf(row, s) \in Refunds(feed, s)
          <5>1. row.payment # NoValue
            BY <3>3, <4>1, EligibleIsClean
          <5> QED BY <4>1, <5>1, CompanionsAre
        <4>4. RefundOf(row, s) \in events.unresolved_refund_companion
          BY <3>7, <4>2, <4>3
        <4>5. ASSUME NEW z \in events.unresolved_refund_companion, z.refund = row.entity
              PROVE  z.amount = -Principal(row)
          <5>1. PICK t : z \in Refunds(feed, t)
            BY <4>2, <4>5
          <5>2. PICK r \in GroupRows(feed, t) : z = RefundOf(r, t)
            BY <5>1, CompanionsAre
          <5>3. r.entity = row.entity
            BY <4>5, <5>2 DEF RefundOf
          <5>4. r = row
            BY <4>1, <5>3, KeptOnce
          <5> QED BY <5>2, <5>4 DEF RefundOf
        <4>6. line.reference = row.entity /\ line.amount = Principal(row)
          BY <4>1 DEF Line
        <4>7. RefundOf(row, s).refund = row.entity /\ RefundOf(row, s).amount = -Principal(row)
          BY DEF RefundOf
        <4> QED BY <4>4, <4>5, <4>6, <4>7
      <3> HIDE DEF Lines
      <3> QED BY <3>1, <3>2, <3>5, <3>6, <3>9, <3>10
    <2> QED BY <2>1 DEF MoneyIsSourceNet, IntakeInv, AbortSound
  <1> QED BY IntakeInvAlways, <1>1, PTL

\* No row of a statement is lost or counted twice, and each record is of one row.
THEOREM EveryRowIsAccounted == Spec => []EveryRowAccounted
  <1>1. IntakeInv => EveryRowAccounted
    <2> SUFFICES ASSUME IntakeInv, batch # NoValue
        PROVE  EveryRowAccounted
      BY DEF EveryRowAccounted
    <2> DEFINE p == batch.profile
               h == statement.header
               rows == statement.rows
               accepted == events.accepted_bank_row
               rejected == events.rejected_bank_row
               Taken(i) == {e \in accepted : e.index = i}
               Rejections(i) == {e \in rejected : e.index = i}
               Event(i) == [index |-> i, row |-> Content(h, rows[i]),
                            produced |-> RecordId(p, h, rows, i)]
               Rejection(i) == [index |-> i, row |-> Content(h, rows[i]),
                                reason |-> RejectionReason(p, h, rows, i)]
    <2>1. /\ accepted = {Event(i) : i \in Accepted(p, h, rows)}
          /\ rejected = {Rejection(i) : i \in Rejected(p, h, rows)}
          /\ facts = Facts(batch.feed, p)
      BY DEF IntakeInv, BatchSound, BankEvents
    <2>2. rows \in Seq([cells : Seq(DOMAIN Trimmed), long : BOOLEAN])
      BY MappingReviewAssumption DEF IntakeInv, ReviewInv
    <2>3. \A i : /\ Taken(i) # {} <=> i \in Accepted(p, h, rows)
                 /\ Rejections(i) # {} <=> i \in Rejected(p, h, rows)
      <3>1. \A i : Event(i).index = i /\ Rejection(i).index = i
        OBVIOUS
      <3> HIDE DEF Event, Rejection
      <3> QED BY <2>1, <3>1
    <2>4. Accepted(p, h, rows) \cap Rejected(p, h, rows) = {}
      BY DEF Accepted, Rejected, Assigned
    <2>5. Assigned(p, h, rows) \subseteq Accepted(p, h, rows) \cup Rejected(p, h, rows)
      BY DEF Rejected
    <2>6. ASSUME NEW i \in DOMAIN rows, Taken(i) = {}, Rejections(i) = {}
          PROVE  /\ p.reference # NoValue /\ Text(Cell(h, rows[i], p.reference)) # Blank
                 /\ \E j \in {k \in 1 .. i - 1 : Content(h, rows[k]) = Content(h, rows[i])} :
                        Taken(j) # {} \/ Rejections(j) # {}
      <3>1. i \in CollapsedRows(p, h, rows)
        BY <2>3, <2>6 DEF Accepted, Rejected, Assigned
      <3>2. /\ Reference(p, h, rows[i]) # NoValue
            /\ \E j \in Assigned(p, h, rows) :
                 j \in 1 .. i - 1 /\ Content(h, rows[j]) = Content(h, rows[i])
        BY <2>2, <3>1, CollapsedRepeats
      <3>3. p.reference # NoValue /\ Text(Cell(h, rows[i], p.reference)) # Blank
        BY <3>2 DEF Reference
      <3> HIDE DEF Taken, Rejections
      <3> QED BY <2>3, <2>5, <3>2, <3>3
    <2>7. /\ {e.produced : e \in accepted} = {r.id : r \in facts.records}
          /\ Cardinality(accepted) = Cardinality(facts.records)
      <3>1. facts.records = Records(p, h, rows)
        BY <2>1 DEF Facts
      <3> DEFINE E == {Event(i) : i \in Accepted(p, h, rows)}
      <3>2. /\ {e.produced : e \in E} = {r.id : r \in Records(p, h, rows)}
            /\ Cardinality(E) = Cardinality(Records(p, h, rows))
        BY <2>2, RecordsOfRows
      <3>3. accepted = E
        BY <2>1
      <3> HIDE DEF E
      <3> QED BY <3>1, <3>2, <3>3
    <2>8. \A i \in DOMAIN rows : Taken(i) = {} \/ Rejections(i) = {}
      <3> HIDE DEF Taken, Rejections
      <3> QED BY <2>3, <2>4
    <2> HIDE DEF p, Event, Rejection
    <2> QED BY <2>6, <2>7, <2>8 DEF EveryRowAccounted, p
  <1> QED BY IntakeInvAlways, <1>1, PTL

\* The movements taken from a statement do not depend on the order of its rows.
THEOREM StatementsHaveNoOrder == Spec => []StatementOrderIsIrrelevant
  <1>1. IntakeInv => StatementOrderIsIrrelevant
    <2> SUFFICES ASSUME IntakeInv, batch # NoValue, NEW g \in Rearranged(statement.rows)
        PROVE  Movements(g) = Movements(statement.rows)
      BY DEF StatementOrderIsIrrelevant
    <2>1. PICK S : statement.rows \in Seq(S)
      BY MappingReviewAssumption DEF IntakeInv, ReviewInv
    <2>2. PICK rows \in Seq(S) : rows = statement.rows
      BY <2>1
    <2>3. PICK p \in Mapping : p = batch.profile
      BY DEF IntakeInv, BatchSound
    <2>4. PICK h : h = statement.header
      OBVIOUS
    <2>5. ~Unreadable(p, h)
      BY <2>3, <2>4 DEF IntakeInv, BatchSound
    <2>6. PICK order : Arranged(order, rows, g)
      BY <2>2 DEF Rearranged, Arranged
    <2>7. g \in Seq(S) /\ {RowSaid(p, h, g[i]) : i \in DOMAIN g}
                          = {RowSaid(p, h, rows[i]) : i \in DOMAIN rows}
      <3>1. /\ order \in [DOMAIN rows -> DOMAIN rows]
            /\ \A j \in DOMAIN rows : \E i \in DOMAIN rows : order[i] = j
        BY <2>6 DEF Arranged, Bijection, Injection, Surjection
      <3>2. DOMAIN rows = 1 .. Len(rows) /\ \A j \in DOMAIN rows : rows[j] \in S
        BY LenProperties, ElementOfSeq
      <3>3. g \in [1 .. Len(rows) -> S]
        BY <2>6, <3>1, <3>2 DEF Arranged
      <3>4. g \in Seq(S)
        BY <3>3
      <3>5. DOMAIN g = DOMAIN rows /\ \A i \in DOMAIN rows : g[i] = rows[order[i]]
        BY <2>6 DEF Arranged
      <3> QED BY <3>1, <3>4, <3>5
    <2>8. ASSUME NEW m
          PROVE  /\ Cardinality(TakenRows(p, h, g, m)) = Cardinality(TakenRows(p, h, rows, m))
                 /\ TakenRows(p, h, g, m) = {} <=> TakenRows(p, h, rows, m) = {}
      <3>1. PICK same : same = [i \in DOMAIN rows |-> i]
        OBVIOUS
      <3>2. same \in Bijection(DOMAIN rows, DOMAIN rows)
        BY <3>1 DEF Bijection, Injection, Surjection, IsInjective
      <3>3. DOMAIN rows = 1 .. Len(rows)
        BY LenProperties
      <3>4. rows = [i \in DOMAIN rows |-> rows[same[i]]]
        BY <3>1, <3>3
      <3>5. Arranged(same, rows, rows)
        BY <3>2, <3>4 DEF Arranged
      <3>6. Counted(p, h, rows, g, m)
        BY <2>5, <2>6, OrderDoesNotCount
      <3>7. Counted(p, h, rows, rows, m)
        BY <2>5, <3>5, OrderDoesNotCount
      <3> QED BY <3>6, <3>7 DEF Counted
    <2>9. /\ Movements(g) = MovementsTaken(p, h, g)
          /\ Movements(rows) = MovementsTaken(p, h, rows)
      BY <2>3, <2>4, <2>7, MovementsOfRows
    <2>10. PICK all : all = {RowSaid(p, h, rows[i]) : i \in DOMAIN rows}
      OBVIOUS
    <2>11. /\ Movements(g) = [m \in {m \in all : TakenRows(p, h, g, m) # {}}
                                |-> Cardinality(TakenRows(p, h, g, m))]
           /\ Movements(rows) = [m \in {m \in all : TakenRows(p, h, rows, m) # {}}
                                   |-> Cardinality(TakenRows(p, h, rows, m))]
      BY <2>7, <2>9, <2>10 DEF MovementsTaken
    <2>12. {m \in all : TakenRows(p, h, g, m) # {}} = {m \in all : TakenRows(p, h, rows, m) # {}}
      BY <2>8
    <2> QED BY <2>2, <2>8, <2>11, <2>12
  <1> QED BY IntakeInvAlways, <1>1, PTL
=============================================================================

---------------------------- MODULE MappingReview ----------------------------
(***************************************************************************)
(* How a column mapping for an unknown statement is found and confirmed: a *)
(* model proposes one over a bounded sample of the statement, a person     *)
(* confirms one, and both are held to one validator.                       *)
(*                                                                         *)
(* A statement is a header and its rows, see BankCsv.  Tokens of the model *)
(* and truncation of long cells are left out.                              *)
(***************************************************************************)
EXTENDS BankCsv

CONSTANTS
    Statement,         \* statements a person may upload
    Mapping,           \* profiles a model may propose and a person may write
    Recognised,        \* headers a shipped or saved mapping reads already
    SupportedFormat,   \* SUPPORTED_VALUE_DATE_FORMATS
    FormatPair,        \* AMBIGUOUS_FORMAT_PAIRS
    SampleRows,        \* MAX_SAMPLE_ROWS
    MaxModelCalls      \* MAX_MODEL_CALLS

\* ProposalFailure: no proposal was made, or none that fits the file.
ProposalFailure ==
    {"provider_not_configured", "provider_unavailable", "no_tool_call", "malformed_output",
     "invalid_proposal"}

ASSUME MappingReviewAssumption ==
    /\ SampleRows \in Nat \ {0}
    /\ MaxModelCalls \in Nat \ {0}
    /\ NoValue \notin Mapping
    /\ NoValue \notin ProposalFailure \cup RefusalReason
    /\ \A name \in DOMAIN Trimmed :
        Trimmed[name] \in DOMAIN Trimmed /\ Trimmed[Trimmed[name]] = Trimmed[name]
    /\ \A st \in Statement :
        /\ st.header \in Seq(DOMAIN Trimmed)
        /\ st.rows \in Seq([cells : Seq(DOMAIN Trimmed), long : BOOLEAN])
    /\ \A p \in Mapping :
        /\ p.date # NoValue /\ p.narration # NoValue
        /\ p.money.kind \in {"debit_credit", "amount_direction"}
        /\ p.money.kind = "debit_credit" => p.money.marker \in {"empty_only", "empty_or_zero"}

VARIABLES
    statement,         \* the file under review
    review,            \* the proposal request about it
    saved              \* the mapping confirmed for it, or NoValue

reviewVars == <<statement, review, saved>>

NoReview == [step |-> "idle", calls |-> 0, proposal |-> NoValue, failure |-> NoValue]

ReviewInit ==
    /\ statement \in Statement
    /\ review = NoReview
    /\ saved = NoValue

----------------------------------------------------------------------------
(* read_sample *)

ColumnNames(st) == {Trimmed[st.header[k]] : k \in DOMAIN st.header} \ {Blank}

IsBlankRow(row) == ~row.long /\ \A k \in DOMAIN row.cells : Text(row.cells[k]) = Blank

\* The first SampleRows rows that say anything.
Sampled(st) ==
    LET filled == {i \in DOMAIN st.rows : ~IsBlankRow(st.rows[i])} IN
    {i \in filled : Cardinality({j \in filled : j < i}) < SampleRows}

\* BankCsvSample.column: of two columns of one name the first is read.
SampledCell(st, row, name) ==
    LET k == CHOOSE k \in DOMAIN st.header :
                /\ Trimmed[st.header[k]] = name
                /\ \A l \in DOMAIN st.header : Trimmed[st.header[l]] = name => k <= l
    IN Text(row.cells[k])

SampledCells(st, name) ==
    {SampledCell(st, st.rows[i], name) : i \in Sampled(st)}

----------------------------------------------------------------------------
(* format_ambiguity *)

Reads(format, date) == DateOf[<<format, date>>] # NoValue
Evidence(p, st) == SampledCells(st, p.date) \ {Blank}
ReadDates(p, st) == {d \in Evidence(p, st) : Reads(p.format, d)}

Contradicted(p, st) == Evidence(p, st) # {} /\ ReadDates(p, st) = {}

\* The formats a date may be read by as well.
Siblings(format) == (UNION {pair \in FormatPair : format \in pair}) \ {format}

\* The paired formats that read every date the proposed format reads.
AmbiguousWith(p, st) ==
    {f \in Siblings(p.format) :
        ReadDates(p, st) # {} /\ \A d \in ReadDates(p, st) : Reads(f, d)}

\* fields_requiring_human_choice names the date format.
NeedsChoice(p, st) ==
    ~Contradicted(p, st) /\ (AmbiguousWith(p, st) # {} \/ Evidence(p, st) = {})

----------------------------------------------------------------------------
(* validate_mapping_payload *)

\* _money_text: separators are cut whether or not the profile declares one.
SampledAmount(cell) == IF cell = Blank THEN NoValue ELSE Paise[cell]

BothPopulated(p, debit, credit) ==
    /\ debit # Blank /\ credit # Blank
    /\ p.money.marker = "empty_only" \/ (SampledAmount(debit) # 0 /\ SampledAmount(credit) # 0)

NeitherPopulated(p, debit, credit) ==
    \/ debit = Blank /\ credit = Blank
    \/ /\ debit # Blank /\ credit # Blank
       /\ p.money.marker = "empty_or_zero"
       /\ SampledAmount(debit) = 0 /\ SampledAmount(credit) = 0

\* _check_debit_credit_sample
MoneyContradicted(p, st) ==
    LET Debit(i) == SampledCell(st, st.rows[i], p.money.debit)
        Credit(i) == SampledCell(st, st.rows[i], p.money.credit)
    IN \/ \E i \in Sampled(st) : BothPopulated(p, Debit(i), Credit(i))
       \/ /\ Sampled(st) # {}
          /\ \A i \in Sampled(st) : NeitherPopulated(p, Debit(i), Credit(i))

\* _check_money, the columns aside.
MoneyFits(p, st) ==
    IF p.money.kind = "debit_credit"
    THEN p.money.debit # p.money.credit /\ ~MoneyContradicted(p, st)
    ELSE /\ p.money.creditValues # {} /\ p.money.debitValues # {}
         /\ p.money.creditValues \cap p.money.debitValues = {}

\* Fault: the money model is not held against the sample.
FitsByName(p, st) ==
    /\ DeclaredColumns(p) \subseteq ColumnNames(st)
    /\ p.format \in SupportedFormat
    /\ ~Contradicted(p, st)

\* MappingValidation.ok
Valid(p, st) ==
    /\ DeclaredColumns(p) \subseteq ColumnNames(st)
    /\ p.format \in SupportedFormat
    /\ ~Contradicted(p, st)
    /\ MoneyFits(p, st)

----------------------------------------------------------------------------
(* propose_response and propose_mapping *)

\* A recognised statement is answered without a proposal, and stays idle.
Propose ==
    /\ review.step = "idle" /\ saved = NoValue
    /\ statement.header \notin Recognised
    /\ \/ review' = [review EXCEPT !.step = "asking"]
       \/ review' = [review EXCEPT !.step = "failed", !.failure = "provider_not_configured"]
    /\ UNCHANGED <<statement, saved>>

\* The provider fails, the model answers in prose, or what it sends does not
\* decode: none of these is asked again.
ProposalFails ==
    /\ review.step = "asking"
    /\ \E failure \in ProposalFailure \ {"invalid_proposal"} :
         review' = [review EXCEPT !.step = "failed", !.calls = @ + 1, !.failure = failure]
    /\ UNCHANGED <<statement, saved>>

\* Fields of a profile a proposal does not carry.
Proposable(p) == ~p.separator /\ p.currencyColumn = NoValue

\* Fault: the repair may itself be repaired.
RepairAgain(p) ==
    IF Valid(p, statement)
    THEN [review EXCEPT !.step = "offered", !.calls = @ + 1, !.proposal = p]
    ELSE IF review.calls < MaxModelCalls THEN [review EXCEPT !.calls = @ + 1]
    ELSE [review EXCEPT !.step = "failed", !.calls = @ + 1, !.failure = "invalid_proposal"]

\* One proposal; one that does not fit the file is sent back once.
Judged(p) ==
    IF Valid(p, statement)
    THEN [review EXCEPT !.step = "offered", !.calls = @ + 1, !.proposal = p]
    ELSE IF review.calls + 1 < MaxModelCalls THEN [review EXCEPT !.calls = @ + 1]
    ELSE [review EXCEPT !.step = "failed", !.calls = @ + 1, !.failure = "invalid_proposal"]

ProposalArrives ==
    /\ review.step = "asking"
    /\ \E p \in Mapping : Proposable(p) /\ review' = Judged(p)
    /\ UNCHANGED <<statement, saved>>

----------------------------------------------------------------------------
(* _validate_for_save, create_mapping and the store *)

\* Fault: a format the model proposed counts as confirmed.
TrustProposal(p, confirmed) ==
    Valid(p, statement)
    /\ (NeedsChoice(p, statement) => confirmed \/ review.proposal = p)

\* The file is read again, and what its sample cannot settle must be confirmed.
Confirmable(p, confirmed) ==
    Valid(p, statement) /\ (NeedsChoice(p, statement) => confirmed)

\* The store keeps the header row as it is written, and refuses a mapping that declares
\* a column not on it: spaces around a name are part of the name.
Storable(p) == DeclaredColumns(p) \subseteq {statement.header[k] : k \in DOMAIN statement.header}

\* A person posts a mapping, proposed or not, with the file it is for.  Nothing
\* of the proposal is kept on the server; here the review ends with it.
Confirm ==
    /\ review.step # "asking" /\ saved = NoValue
    /\ \E p \in Mapping, confirmed \in BOOLEAN :
         /\ Confirmable(p, confirmed) /\ Storable(p)
         /\ saved' = [profile |-> p, confirmed |-> confirmed]
    /\ review' = NoReview
    /\ UNCHANGED statement

ReviewNext == Propose \/ ProposalFails \/ ProposalArrives \/ Confirm

----------------------------------------------------------------------------
(* Properties *)

\* Dates that two formats read are never read by a format nobody chose: a mapping
\* is saved without a word about its date format only if a sampled date of it
\* tells the format from every sibling.
AmbiguityIsAnswered ==
    saved # NoValue /\ ~saved.confirmed =>
        \A f \in Siblings(saved.profile.format) :
            \E i \in DOMAIN statement.rows :
                LET date == SampledCell(statement, statement.rows[i], saved.profile.date) IN
                date # Blank /\ Reads(saved.profile.format, date) /\ ~Reads(f, date)

\* No name is on the header row twice, with or without the spaces around it.
NamesAreDistinct(header) ==
    \A k, l \in DOMAIN header : Trimmed[header[k]] = Trimmed[header[l]] => k = l

Refused(p, st, i, reason) == ReadMoney(p, st.header, st.rows[i]).reason = reason

\* One side of the row is blank.
HalfBlank(p, st, i) ==
    (Text(Cell(st.header, st.rows[i], p.money.debit)) = Blank)
    # (Text(Cell(st.header, st.rows[i], p.money.credit)) = Blank)

\* A confirmed mapping reads the file it was confirmed on, whose names may have spaces
\* around them where the mapping does not use them: the parser finds its columns, no
\* sampled row has an amount on both sides, and some sampled row has a date if any says
\* one, and an amount on a side or other, unless it is a zero beside a blank: the two
\* sources of nothing are not weighed together.
ConfirmedMappingReads ==
    saved # NoValue /\ NamesAreDistinct(statement.header) =>
        LET p == saved.profile
            sampled == Sampled(statement)
        IN /\ ~Unreadable(p, statement.header)
           /\ \A i \in sampled : ~Refused(p, statement, i, "both_debit_and_credit_populated")
           /\ sampled # {} /\ p.money.kind = "debit_credit" =>
                \E i \in sampled : HalfBlank(p, statement, i)
                    \/ ~Refused(p, statement, i, "neither_amount_populated")
           /\ (\E i \in sampled : Text(Cell(statement.header, statement.rows[i], p.date)) # Blank) =>
                \E i \in sampled : ReadDate(p, statement.header, statement.rows[i]) # NoValue

\* A proposal request asks a model at most MaxModelCalls times and not at all about
\* a statement that is recognised; it ends with a proposal or a failure, never both,
\* and what it offers passes the validation of a confirmation as it stands once its
\* ambiguities are settled (the store may still refuse it for the names it declares).
ProposalIsChecked ==
    /\ review.calls <= MaxModelCalls
    /\ review.calls > 0 => statement.header \notin Recognised
    /\ (review.step = "offered") <=> (review.proposal # NoValue)
    /\ (review.step = "failed") <=> (review.failure # NoValue)
    /\ review.step = "offered" => Confirmable(review.proposal, TRUE)
=============================================================================

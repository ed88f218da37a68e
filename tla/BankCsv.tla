------------------------------- MODULE BankCsv -------------------------------
(***************************************************************************)
(* parse_bank_csv: a bank statement read under a declared profile.         *)
(*                                                                         *)
(* A statement is a header, the sequence of column names as written, and   *)
(* rows: the cells of each place of the header, and whether the row goes   *)
(* on past it.  What a cell says is given by functions on cells: its date  *)
(* under a format, its exact amount, the cell it is when the spaces around *)
(* it are cut.  Decoding the bytes, quoting and the wording of rejections   *)
(* are left out.                                                           *)
(***************************************************************************)
EXTENDS Integers, Sequences, FiniteSets

CONSTANTS
    NoValue,         \* a field that is null
    Blank,           \* the empty cell
    Trimmed,         \* [cells and column names -> themselves without spaces around]
    DateOf,          \* [<<format, cell>> -> the date it reads, or NoValue]
    Paise,           \* [cell -> its exact amount, or Malformed or Infinite]
    Grouped,         \* the cells written with thousands separators
    Malformed, Infinite

Text(cell) == Trimmed[cell]

\* _clean_money_text, then Paise.from_rupees.
AmountIn(profile, cell) ==
    IF Text(cell) \in Grouped /\ ~profile.separator THEN Malformed ELSE Paise[Text(cell)]

----------------------------------------------------------------------------
(* Direction and amount *)

\* What may be wrong with the money of a row.
RefusalReason ==
    {"malformed_money", "OverflowError", "both_debit_and_credit_populated",
     "neither_amount_populated", "missing_amount", "ambiguous_direction_value",
     "unrecognized_direction_value"}

Movement(direction, amount) == [reason |-> NoValue, direction |-> direction, amount |-> amount]
Refusal(reason) == [reason |-> reason, direction |-> NoValue, amount |-> NoValue]

\* The paths that catch MoneyError only: an infinite amount is no such error.
Converted(direction, amount) ==
    IF amount = Malformed THEN Refusal("malformed_money")
    ELSE IF amount = Infinite THEN Refusal("OverflowError")
    ELSE Movement(direction, amount)

\* _classify_money_side and _resolve_zero_filled_debit_credit.
ZeroFilled(profile, debitCell, creditCell) ==
    LET Side(c) == IF Text(c) = Blank THEN 0 ELSE AmountIn(profile, c)
        debit == Side(debitCell)
        credit == Side(creditCell)
    IN IF {debit, credit} \cap {Malformed, Infinite} # {} THEN Refusal("malformed_money")
       ELSE
       CASE debit # 0 /\ credit # 0 -> Refusal("both_debit_and_credit_populated")
         [] debit # 0 /\ credit = 0 -> Movement("debit", debit)
         [] debit = 0 /\ credit # 0 -> Movement("credit", credit)
         [] debit = 0 /\ credit = 0 -> Refusal("neither_amount_populated")

\* _resolve_direction_and_amount where an inactive side is empty.
EmptyOnly(profile, debitCell, creditCell) ==
    CASE Text(debitCell) # Blank /\ Text(creditCell) # Blank ->
            Refusal("both_debit_and_credit_populated")
      [] Text(debitCell) = Blank /\ Text(creditCell) = Blank ->
            Refusal("neither_amount_populated")
      [] Text(debitCell) # Blank /\ Text(creditCell) = Blank ->
            Converted("debit", AmountIn(profile, debitCell))
      [] OTHER -> Converted("credit", AmountIn(profile, creditCell))

\* ... and where a marker column names the direction.
Marked(profile, amountCell, markerCell) ==
    LET marker == Text(markerCell)
        asCredit == marker \in profile.money.creditValues
        asDebit == marker \in profile.money.debitValues
    IN CASE Text(amountCell) = Blank -> Refusal("missing_amount")
         [] Text(amountCell) # Blank /\ asCredit /\ asDebit ->
                Refusal("ambiguous_direction_value")
         [] Text(amountCell) # Blank /\ ~asCredit /\ ~asDebit ->
                Refusal("unrecognized_direction_value")
         [] OTHER -> Converted(IF asCredit THEN "credit" ELSE "debit", AmountIn(profile, amountCell))

----------------------------------------------------------------------------
(* One row *)

\* csv.DictReader: of two columns of one name the last is read.
Place(header, name) ==
    CHOOSE k \in DOMAIN header : header[k] = name /\ \A l \in DOMAIN header :
        header[l] = name => l <= k

Cell(header, row, name) == row.cells[Place(header, name)]

MoneyColumns(profile) ==
    IF profile.money.kind = "debit_credit"
    THEN <<profile.money.debit, profile.money.credit>>
    ELSE <<profile.money.amount, profile.money.direction>>

\* declared_columns
DeclaredColumns(profile) ==
    ({profile.date, profile.narration, profile.reference, profile.currencyColumn} \ {NoValue})
    \cup {MoneyColumns(profile)[1], MoneyColumns(profile)[2]}

ReadMoney(profile, header, row) ==
    LET first == Cell(header, row, MoneyColumns(profile)[1])
        second == Cell(header, row, MoneyColumns(profile)[2])
    IN IF profile.money.kind = "amount_direction" THEN Marked(profile, first, second)
       ELSE IF profile.money.marker = "empty_or_zero" THEN ZeroFilled(profile, first, second)
       ELSE EmptyOnly(profile, first, second)

ReadDate(profile, header, row) ==
    DateOf[<<profile.format, Text(Cell(header, row, profile.date))>>]

WrongCurrency(profile, header, row) ==
    /\ profile.currencyColumn # NoValue
    /\ Text(Cell(header, row, profile.currencyColumn)) # profile.currency

\* _build_record: the first check that fails names the reason; none does if the
\* row is a movement.  The narration is taken as it is, spaces and all.
Reason(profile, header, row) ==
    CASE WrongCurrency(profile, header, row) -> "unsupported_currency"
      [] OTHER ->
    CASE Cell(header, row, profile.narration) = Blank -> "missing_narration"
      [] OTHER ->
    CASE Text(Cell(header, row, profile.date)) = Blank -> "missing_value_date"
      [] OTHER ->
    IF ReadDate(profile, header, row) = NoValue THEN "invalid_value_date_format"
    ELSE ReadMoney(profile, header, row).reason

----------------------------------------------------------------------------
(* _resolve_row_identities *)

\* Fault: rows without a reference are told apart by what they say.
ContentIsReference(profile, header, row) ==
    IF profile.reference = NoValue THEN row.cells
    ELSE IF Text(Cell(header, row, profile.reference)) = Blank THEN row.cells
    ELSE Text(Cell(header, row, profile.reference))

\* _reference_identity
Reference(profile, header, row) ==
    IF profile.reference = NoValue THEN NoValue
    ELSE IF Text(Cell(header, row, profile.reference)) = Blank THEN NoValue
    ELSE Text(Cell(header, row, profile.reference))

\* _content_identity_key: what the row says, which is no identity.
ContentKey(profile, header, row) ==
    <<Cell(header, row, profile.date), Cell(header, row, profile.narration),
      Cell(header, row, MoneyColumns(profile)[1]), Cell(header, row, MoneyColumns(profile)[2])>>

\* _row_fingerprint: all that DictReader read of the row.
Content(header, row) ==
    <<[name \in {header[k] : k \in DOMAIN header} |-> Cell(header, row, name)], row.long>>

\* The rows that bear the reference of row i.
SameReference(profile, header, rows, i) ==
    {j \in DOMAIN rows :
        /\ Reference(profile, header, rows[i]) # NoValue
        /\ Reference(profile, header, rows[j]) = Reference(profile, header, rows[i])}

\* Fault: of rows that disagree the first is kept.
FirstOfDisagreeing(profile, header, rows) ==
    {i \in DOMAIN rows : \E j \in SameReference(profile, header, rows, i) :
        Content(header, rows[j]) # Content(header, rows[i]) /\ j < i}

\* All rows of a reference that stands for different contents.
ConflictingRows(profile, header, rows) ==
    {i \in DOMAIN rows :
        \E j \in SameReference(profile, header, rows, i) :
            Content(header, rows[j]) # Content(header, rows[i])}

\* The rows that repeat an earlier row of their reference.
CollapsedRows(profile, header, rows) ==
    {i \in DOMAIN rows \ ConflictingRows(profile, header, rows) :
        \E j \in SameReference(profile, header, rows, i) : j < i}

\* Rows that are built, and the id each is given: its reference, or what it says
\* and how many rows said so before it.
Assigned(profile, header, rows) ==
    DOMAIN rows \ (ConflictingRows(profile, header, rows) \cup CollapsedRows(profile, header, rows))

Occurrence(profile, header, rows, i) ==
    Cardinality({j \in 1 .. i - 1 :
        /\ Reference(profile, header, rows[j]) = NoValue
        /\ ContentKey(profile, header, rows[j]) = ContentKey(profile, header, rows[i])})

RecordId(profile, header, rows, i) ==
    IF Reference(profile, header, rows[i]) # NoValue
    THEN <<profile.id, Reference(profile, header, rows[i])>>
    ELSE <<profile.id, ContentKey(profile, header, rows[i]), Occurrence(profile, header, rows, i)>>

----------------------------------------------------------------------------
(* parse_bank_csv *)

\* BankCsvDecodeError: the profile declares a column the header row, read as it
\* is written, does not have.
Unreadable(profile, header) ==
    ~(DeclaredColumns(profile) \subseteq {header[k] : k \in DOMAIN header})

Accepted(profile, header, rows) ==
    {i \in Assigned(profile, header, rows) : Reason(profile, header, rows[i]) = NoValue}

Rejected(profile, header, rows) ==
    ConflictingRows(profile, header, rows)
    \cup (Assigned(profile, header, rows) \ Accepted(profile, header, rows))

RejectionReason(profile, header, rows, i) ==
    IF i \in ConflictingRows(profile, header, rows)
    THEN "conflicting_duplicate_bank_record_id" ELSE Reason(profile, header, rows[i])

\* The exceptions no layer catches: an amount that overflows, and the columns of
\* a rejected row sorted with the None that stands for the cells past the header.
Aborts(profile, header, rows) ==
    \E i \in Rejected(profile, header, rows) :
        rows[i].long \/ RejectionReason(profile, header, rows, i) = "OverflowError"

BankRecord(profile, header, rows, i) ==
    LET row == rows[i]
        movement == ReadMoney(profile, header, row)
    IN [id |-> RecordId(profile, header, rows, i),
        amount |-> movement.amount, direction |-> movement.direction,
        narration |-> Cell(header, row, profile.narration),
        date |-> ReadDate(profile, header, row)]

\* built_by_id
Records(profile, header, rows) ==
    {BankRecord(profile, header, rows, i) : i \in Accepted(profile, header, rows)}
=============================================================================

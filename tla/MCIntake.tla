------------------------------- MODULE MCIntake -------------------------------
(* Instance of Intake: rows that are right, and rows that are each wrong in one *)
(* way, in feeds and statements of up to three rows.                            *)
EXTENDS Intake

----------------------------------------------------------------------------
(* The statement *)

Plain == <<"Date", "Text", "Out", "In", "Ref", "Mark">>
Padded == <<"Date", "Text", "Out", "In", " Ref", "Mark">>
Doubled == <<"Date", "Text", "Out", "In", "Ref", "Date">>

\* Read by one of the profiles, which a person may not confirm.
Narrow == <<"Date", "Text", "In", "Mark">>

MCRecognised == {Doubled}

Cells == {Blank, "05/06", "25/06", "n", "0", "10", "20", "1,000", "Infinity", "r1", "r2", "C", "D"}

MCTrimmed == [x \in Cells \cup {" Ref", "Date", "Text", "Out", "In", "Ref", "Mark"} |->
    IF x = " Ref" THEN "Ref" ELSE x]

MCFormat == {"dd/mm", "mm/dd", "yyyy"}

MCDateOf == [x \in MCFormat \X Cells |->
    CASE x = <<"dd/mm", "05/06">> -> 605
      [] x = <<"mm/dd", "05/06">> -> 506
      [] x = <<"dd/mm", "25/06">> -> 625
      [] OTHER -> NoValue]

MCPaise == [x \in Cells |->
    CASE x = "0" -> 0 [] x = "10" -> 1000 [] x = "20" -> 2000 [] x = "1,000" -> 100000
      [] x = "Infinity" -> Infinite [] OTHER -> Malformed]

MCGrouped == {"1,000"}
MCFormatPair == {{"dd/mm", "mm/dd"}}

Cut(cells) == [cells |-> cells, long |-> FALSE]

MCStatementRow == {
    Cut(<<"05/06", "n", "10", Blank, "r1", "C">>),
    Cut(<<"25/06", "n", Blank, "20", "r1", "D">>),
    Cut(<<"05/06", "n", "0", "20", Blank, "C">>),
    Cut(<<"05/06", "n", Blank, "1,000", Blank, "D">>),
    Cut(<<"25/06", "n", "Infinity", Blank, "r2", "C">>),
    Cut(<<Blank, Blank, Blank, Blank, Blank, Blank>>),
    [cells |-> <<"25/06", "n", "10", "20", "r2", "C">>, long |-> TRUE]}

\* A row of no movement that validation does not count as one.
ZeroBesideBlank == Cut(<<"05/06", "n", "0", Blank, Blank, "D">>)

Table(header, n) == {[header |-> header, rows |-> rows] : rows \in [1 .. n -> MCStatementRow]}

MCStatement ==
    Table(Narrow, 0) \cup UNION {Table(Plain, n) : n \in 1 .. 3}
    \cup Table(Padded, 1) \cup UNION {Table(Doubled, n) : n \in 1 .. 2}
    \cup {[header |-> Plain, rows |-> <<ZeroBesideBlank>>]}

Columns(format, reference, money) ==
    [id |-> "p", date |-> "Date", format |-> format, narration |-> "Text",
     reference |-> reference, currencyColumn |-> NoValue, currency |-> "C",
     separator |-> FALSE, money |-> money]

OutIn(marker) == [kind |-> "debit_credit", debit |-> "Out", credit |-> "In", marker |-> marker]
Signed(credits, debits) ==
    [kind |-> "amount_direction", amount |-> "In", direction |-> "Mark",
     creditValues |-> credits, debitValues |-> debits]

MCMapping == {
    Columns("dd/mm", "Ref", OutIn("empty_only")),
    Columns("mm/dd", "Ref", OutIn("empty_or_zero")),
    Columns("dd/mm", NoValue, OutIn("empty_or_zero")),
    Columns("yyyy", NoValue, OutIn("empty_only")),
    Columns("dd/mm", "Ref", Signed({"C"}, {"D"})),
    Columns("dd/mm", NoValue, Signed({"C"}, {"C", "D"})),
    [Columns("dd/mm", NoValue, OutIn("empty_or_zero"))
        EXCEPT !.currencyColumn = "Mark", !.separator = TRUE]}

----------------------------------------------------------------------------
(* The feed: a payment of 10 paise less a fee of 2 *)

Payment(e, s) ==
    [entity |-> e, settlement |-> s, type |-> "payment", credit |-> 8, debit |-> 0,
     amount |-> 10, fee |-> 2, tax |-> 1, settled |-> TRUE, settledAt |-> 3,
     createdAt |-> 1, utr |-> "u", order |-> "o", payment |-> NoValue]

Refund(e, s) ==
    [Payment(e, s) EXCEPT !.type = "refund", !.credit = 0, !.debit = 5, !.amount = 5,
     !.fee = 0, !.tax = 0, !.order = NoValue, !.payment = 1, !.utr = NoValue]

MCFeedRow == {
    Payment(1, "A"), Payment(2, "A"), Payment(2, "B"), Refund(3, "A"),
    [Payment(1, "A") EXCEPT !.settledAt = 4],
    [Payment(1, "A") EXCEPT !.utr = "v"],
    [Payment(2, "A") EXCEPT !.tax = 6],
    [Payment(2, "A") EXCEPT !.settled = FALSE],
    [Payment(2, "B") EXCEPT !.amount = -10],
    [Payment(3, "B") EXCEPT !.settledAt = NoValue],
    [Refund(3, "A") EXCEPT !.payment = NoValue]}
=============================================================================

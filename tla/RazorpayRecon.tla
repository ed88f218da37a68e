---------------------------- MODULE RazorpayRecon ----------------------------
(***************************************************************************)
(* build_recon_result: the settlements a feed of recon rows proves, and    *)
(* those it has to hold back.                                              *)
(*                                                                         *)
(* A feed is the sequence of rows as they were fetched, so that a page     *)
(* fetched twice shows as rows that repeat.  A row stands for its own      *)
(* fingerprint, a hash of everything it says: two rows have one            *)
(* fingerprint iff they are equal.  Rows are named by their places in the  *)
(* feed.  Entity ids are numbers, for their order; texts of conflicts and  *)
(* the fields a row used are left out.                                     *)
(***************************************************************************)
EXTENDS Integers, Sequences, FiniteSets, Functions

CONSTANT NoValue      \* a field that is null

ReconType == {"payment", "refund", "transfer", "adjustment"}

----------------------------------------------------------------------------
(* _dedupe *)

Copies(feed, i) == {j \in DOMAIN feed : feed[j].entity = feed[i].entity}

\* All rows of the entity have one fingerprint.
Agreed(feed, i) == \A j \in Copies(feed, i) : feed[j] = feed[i]

\* The first of the copies that agree, ...
Kept(feed) == {i \in DOMAIN feed : Agreed(feed, i) /\ \A j \in Copies(feed, i) : i <= j}

\* ... the others, dropped as seen twice, ...
DroppedCopies(feed) == {i \in DOMAIN feed : Agreed(feed, i)} \ Kept(feed)

\* ... and every copy of an entity whose copies differ.
Excluded(feed) == {i \in DOMAIN feed : ~Agreed(feed, i)}

ExcludedOf(feed, s) == {i \in Excluded(feed) : feed[i].settlement = s}
Group(feed, s) == {i \in Kept(feed) : feed[i].settlement = s}

----------------------------------------------------------------------------
(* Conflicts: all of them block *)

Conflict(kind, s, entities) == [kind |-> kind, settlement |-> s, entities |-> entities]
EntitiesOf(feed, I) == {feed[i].entity : i \in I}

\* Fault: a conflict is charged to the settlement of the first copy only.
ChargeFirstCopy(feed, s) ==
    {Conflict("duplicate_entity_id_conflict", s, {feed[i].entity}) :
        i \in {k \in ExcludedOf(feed, s) : \A j \in Copies(feed, k) : k <= j}}

\* One per entity, for every settlement a copy names.
DuplicateConflicts(feed, s) ==
    {Conflict("duplicate_entity_id_conflict", s, {feed[i].entity}) : i \in ExcludedOf(feed, s)}

Utrs(feed, I) == {feed[i].utr : i \in I} \ {NoValue}
WithUtr(feed, I) == {i \in I : feed[i].utr # NoValue}

\* Fault: references are compared across the feed.
UtrConflictsOfFeed(feed, s) ==
    IF \E i, j \in WithUtr(feed, Kept(feed)) : feed[i].utr # feed[j].utr
    THEN {Conflict("conflicting_settlement_utr", s, EntitiesOf(feed, WithUtr(feed, Group(feed, s))))}
    ELSE {}

UtrConflicts(feed, s) ==
    LET named == WithUtr(feed, Group(feed, s)) IN
    IF \E i, j \in named : feed[i].utr # feed[j].utr
    THEN {Conflict("conflicting_settlement_utr", s, EntitiesOf(feed, named))} ELSE {}

\* _resolve_utr: none, the one, or none because there are several.
Utr(feed, s) ==
    LET U == Utrs(feed, Group(feed, s)) IN
    IF \E u \in U : U = {u} THEN CHOOSE u \in U : TRUE ELSE NoValue

Dated(feed, s) == {i \in Group(feed, s) : feed[i].settledAt # NoValue}

DateConflicts(feed, s) ==
    LET dated == Dated(feed, s) IN
    IF dated = {}
    THEN {Conflict("settled_at_unavailable", s, EntitiesOf(feed, Group(feed, s)))}
    ELSE IF \E i, j \in dated : feed[i].settledAt # feed[j].settledAt
         THEN {Conflict("inconsistent_settled_at", s, EntitiesOf(feed, dated))} ELSE {}

\* _settlement_created_at: the earliest payout time, or else row time.
SettledAt(feed, s) ==
    LET times == IF Dated(feed, s) # {} THEN {feed[i].settledAt : i \in Dated(feed, s)}
                 ELSE {feed[i].createdAt : i \in Group(feed, s)}
    IN CHOOSE t \in times : \A u \in times : t <= u

----------------------------------------------------------------------------
(* The breakup of a settlement: a line for each row, then the deductions *)

\* Fault: the fee is left out here and deducted again below.
PrincipalNetOfFee(row) == row.credit - row.debit

\* _row_principal: net of fee in the feed, so the fee is added back.
Principal(row) == row.credit - row.debit + row.fee

\* _reference_id_for
LineReference(row) == IF row.type \in {"payment", "refund"} THEN row.entity ELSE NoValue

Line(type, amount, reference) == [type |-> type, amount |-> amount, reference |-> reference]
Deduction(type, amount) == IF amount = 0 THEN <<>> ELSE <<Line(type, -amount, NoValue)>>

FeeTotal(feed, s) == SumFunctionOnSet([i \in DOMAIN feed |-> feed[i].fee], Group(feed, s))
TaxTotal(feed, s) == SumFunctionOnSet([i \in DOMAIN feed |-> feed[i].tax], Group(feed, s))

\* Tax is a part of the fee; where it cannot be, the fee is left whole.
Deductions(feed, s) ==
    LET fee == FeeTotal(feed, s)
        tax == TaxTotal(feed, s)
    IN IF tax > fee THEN Deduction("fee", fee)
       ELSE Deduction("fee", fee - tax) \o Deduction("tax", tax)

\* sorted, by a total order given as its pairs: the k-th element has k - 1
\* before it.
Sorted(I, before) ==
    [k \in 1 .. Cardinality(I) |->
        CHOOSE i \in I : Cardinality({j \in I : <<j, i>> \in before}) = k - 1]

\* Fault: in the order of arrival.
ByArrival(feed, s) ==
    LET I == Group(feed, s) IN Sorted(I, {e \in I \X I : e[1] < e[2]})

\* The rows of a settlement in the order of their entity ids.
Ordered(feed, s) ==
    LET I == Group(feed, s)
    IN Sorted(I, {e \in I \X I : feed[e[1]].entity < feed[e[2]].entity})

Breakup(feed, s) ==
    LET order == Ordered(feed, s) IN
    [k \in 1 .. Len(order) |->
        LET row == feed[order[k]] IN Line(row.type, Principal(row), LineReference(row))]
    \o Deductions(feed, s)

BreakupTotal(feed, s) ==
    LET lines == Breakup(feed, s)
    IN SumFunctionOnSet([k \in DOMAIN lines |-> lines[k].amount], DOMAIN lines)
SourceNet(feed, s) ==
    SumFunctionOnSet([i \in DOMAIN feed |-> feed[i].credit - feed[i].debit], Group(feed, s))

\* The documented amount has no sign.
Magnitude(n) == IF n < 0 THEN -n ELSE n

MismatchConflicts(feed, s) ==
    {Conflict("row_principal_amount_mismatch", s, {feed[i].entity}) :
        i \in {k \in Group(feed, s) : Magnitude(Principal(feed[k])) # feed[k].amount}}

TaxConflicts(feed, s) ==
    IF TaxTotal(feed, s) > FeeTotal(feed, s)
    THEN {Conflict("tax_exceeds_fee_unsplit_deduction", s,
            EntitiesOf(feed, {i \in Group(feed, s) : feed[i].tax > feed[i].fee}))}
    ELSE {}

----------------------------------------------------------------------------
(* Companions: the records the lines of a breakup refer to *)

OfType(feed, s, type) == {i \in Group(feed, s) : feed[i].type = type}

\* A payment row proves a captured payment only when it is settled.
ProvesPayment(row) == row.settled /\ row.order # NoValue

\* _build_payment_companion
Payments(feed, s) ==
    {[payment |-> feed[i].entity, order |-> feed[i].order, amount |-> Principal(feed[i])] :
        i \in {k \in OfType(feed, s, "payment") : ProvesPayment(feed[k])}}

\* _build_refund_companion
Refunds(feed, s) ==
    {[refund |-> feed[i].entity, payment |-> feed[i].payment, amount |-> -Principal(feed[i]),
      settlement |-> s] :
        i \in {k \in OfType(feed, s, "refund") : feed[k].payment # NoValue}}

PaymentFlaw(row) ==
    IF ~row.settled THEN "payment_companion_not_settled" ELSE "payment_companion_missing_order_id"

CompanionConflicts(feed, s) ==
    {Conflict(PaymentFlaw(feed[i]), s, {feed[i].entity}) :
        i \in {k \in OfType(feed, s, "payment") : ~ProvesPayment(feed[k])}}
    \cup {Conflict("refund_companion_missing_payment_id", s, {feed[i].entity}) :
        i \in {k \in OfType(feed, s, "refund") : feed[k].payment = NoValue}}

----------------------------------------------------------------------------
(* The result *)

Conflicts(feed, s) ==
    DuplicateConflicts(feed, s)
    \cup IF Group(feed, s) = {} THEN {}
         ELSE UtrConflicts(feed, s) \cup DateConflicts(feed, s) \cup MismatchConflicts(feed, s)
              \cup TaxConflicts(feed, s) \cup CompanionConflicts(feed, s)

NonBlocking == {}
Blocking(feed, s) == {c \in Conflicts(feed, s) : c.kind \notin NonBlocking}

Reconstruction(feed, s) ==
    IF Group(feed, s) = {} THEN NoValue
    ELSE [settlement |-> s, utr |-> Utr(feed, s), amount |-> BreakupTotal(feed, s),
          createdAt |-> SettledAt(feed, s), breakup |-> Breakup(feed, s)]

SettlementsNamed(feed) == {feed[i].settlement : i \in Kept(feed) \cup Excluded(feed)}

Quarantined(feed) == {s \in SettlementsNamed(feed) : Blocking(feed, s) # {}}
Eligible(feed) ==
    {s \in SettlementsNamed(feed) : Blocking(feed, s) = {} /\ Group(feed, s) # {}}

\* AdapterInvariantError: the run ends before it writes.
Unbalanced(feed) ==
    \E s \in SettlementsNamed(feed) : BreakupTotal(feed, s) # SourceNet(feed, s)

\* The lines of its settlement's breakup that a row had a part in.
Produced(feed, i) ==
    LET s == feed[i].settlement
        order == Ordered(feed, s)
    IN IF i \in Kept(feed)
       THEN {k \in DOMAIN Breakup(feed, s) : k > Len(order) \/ order[k] = i}
       ELSE {}

\* The rows of a quarantined settlement as its record lists them: those kept by
\* entity, then those excluded as _dedupe met them.
QuarantineRows(feed, s) ==
    LET First(i) == CHOOSE j \in Copies(feed, i) : \A k \in Copies(feed, i) : j <= k
        Earlier(i, j) == First(i) < First(j) \/ (First(i) = First(j) /\ i < j)
        I == ExcludedOf(feed, s)
        order == Ordered(feed, s) \o Sorted(I, {e \in I \X I : Earlier(e[1], e[2])})
    IN [k \in DOMAIN order |-> feed[order[k]]]
=============================================================================

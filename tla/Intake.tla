-------------------------------- MODULE Intake --------------------------------
(***************************************************************************)
(* run_reconciliation_batch up to the point where matching begins: a feed  *)
(* of Razorpay rows and a bank statement become the facts of a batch, and  *)
(* whatever they do not become is told in the ingestion audit.             *)
(*                                                                         *)
(* RazorpayRecon and BankCsv say what is read; MappingReview is where the  *)
(* profile may come from.  A run is one step here: Stage2Ledger takes its  *)
(* writes apart.  Source ids are the same for every upload.                *)
(***************************************************************************)
EXTENDS MappingReview, Functions, SequencesExt

INSTANCE RazorpayRecon

CONSTANTS
    FeedRow,           \* rows a feed may have
    MaxRows            \* bound on the rows of the feed

ASSUME IntakeAssumption ==
    /\ MaxRows \in Nat
    /\ NoValue \notin [feed : Seq(FeedRow), profile : Mapping] /\ NoValue # "aborted"
    /\ \A row \in FeedRow : {row.entity, row.credit, row.debit, row.fee, row.tax} \subseteq Int

VARIABLES
    batch,             \* the batch of the ledger, or NoValue
    facts,             \* what it is made of: the records normalization is given
    events,            \* ingestion_audit_events of it, by event_type
    outcome            \* of the last run

intakeVars == <<batch, facts, events, outcome>>
vars == <<reviewVars, intakeVars>>

NoEvents ==
    [source_row |-> {}, quarantined_settlement |-> {}, conflict |-> {}, warning |-> {},
     unresolved_refund_companion |-> {}, accepted_bank_row |-> {},
     bank_row_not_produced |-> {}, rejected_bank_row |-> {}, bank_conflict |-> {},
     bank_profile_selection |-> {}]

NoFacts == [settlements |-> {}, payments |-> {}, records |-> {}]

Init ==
    /\ ReviewInit
    /\ batch = NoValue /\ facts = NoFacts
    /\ events = NoEvents /\ outcome = NoValue

----------------------------------------------------------------------------
(* What a run takes from its two sources *)

\* _ingestion_fingerprint sorts the rows of the feed.
SameRows(f, g) ==
    \A row \in Range(f) \cup Range(g) :
        Cardinality({i \in DOMAIN f : f[i] = row}) = Cardinality({i \in DOMAIN g : g[i] = row})

\* The records given to normalize_batch.  Payments are those of all settlements.
Facts(feed, p) ==
    [settlements |-> {Reconstruction(feed, s) : s \in Eligible(feed)},
     payments |-> UNION {Payments(feed, s) : s \in SettlementsNamed(feed)},
     records |-> Records(p, statement.header, statement.rows)]

\* content_fingerprint_for_batch: of the sources and of the records made of them.
SameContent(feed, p) ==
    SameRows(feed, batch.feed) /\ p = batch.profile /\ Facts(feed, p) = facts

----------------------------------------------------------------------------
(* _persist_ingestion_audit.  An event's id is the hash of all it says. *)

RefundsOf(feed) == UNION {Refunds(feed, s) : s \in SettlementsNamed(feed)}

RazorpayEvents(feed) ==
    [source_row |-> {[row |-> feed[i], produced |-> Produced(feed, i)] :
        i \in Kept(feed) \cup Excluded(feed)},
     quarantined_settlement |-> {[settlement |-> s, rows |-> QuarantineRows(feed, s),
        conflicts |-> Blocking(feed, s)] : s \in Quarantined(feed)},
     conflict |-> UNION {Conflicts(feed, s) : s \in SettlementsNamed(feed)},
     warning |-> {[settlement |-> r.settlement, refund |-> r.refund] : r \in RefundsOf(feed)},
     unresolved_refund_companion |-> RefundsOf(feed)]

BankEvents(p) ==
    LET header == statement.header rows == statement.rows IN
    [accepted_bank_row |-> {[index |-> i, row |-> Content(header, rows[i]),
        produced |-> RecordId(p, header, rows, i)] : i \in Accepted(p, header, rows)},
     bank_row_not_produced |-> {[index |-> i, row |-> Content(header, rows[i])] :
        i \in Rejected(p, header, rows)},
     rejected_bank_row |-> {[index |-> i, row |-> Content(header, rows[i]),
        reason |-> RejectionReason(p, header, rows, i)] : i \in Rejected(p, header, rows)},
     bank_conflict |-> {SameReference(p, header, rows, i) :
        i \in ConflictingRows(p, header, rows)}]

\* INSERT ... ON CONFLICT DO NOTHING
Recorded(feed, p, how) ==
    LET recon == RazorpayEvents(feed)
        bank == BankEvents(p)
    IN [type \in DOMAIN events |-> events[type] \cup
            IF type \in DOMAIN recon THEN recon[type]
            ELSE IF type \in DOMAIN bank THEN bank[type]
            ELSE {[profile |-> p, how |-> how]}]

----------------------------------------------------------------------------
(* _run *)

\* A profile written by hand may be any; a saved mapping is taken where there is one.
Selected ==
    IF saved = NoValue THEN {<<p, "manual">> : p \in Mapping}
    ELSE {<<saved.profile, "saved_mapping">>}

Rearranged(feed) ==
    {[i \in DOMAIN feed |-> feed[order[i]]] : order \in Bijection(DOMAIN feed, DOMAIN feed)}

\* Bound: the feed and the statement are read apart, so that a feed has a row for a
\* row of the statement, or more where there is no statement.
Feeds ==
    UNION {[1 .. n -> FeedRow] :
        n \in {m \in 0 .. MaxRows : m * Len(statement.rows) <= 1}}

\* Bound: the same batch is uploaded again, under the same profile, with its rows in
\* any order; or, if it has MaxRows of them, with the last one missing.
Uploads ==
    IF batch = NoValue THEN Feeds \X Selected
    ELSE (Rearranged(batch.feed)
            \cup IF Len(batch.feed) = MaxRows THEN {Front(batch.feed)} ELSE {})
         \X {x \in Selected : x[1] = batch.profile}

\* BankCsvDecodeError
RefuseColumns(feed, p) ==
    /\ Unreadable(p, statement.header)
    /\ outcome' = "malformed_bank_upload"
    /\ UNCHANGED <<batch, facts, events>>

\* An exception nobody catches, in either adapter.
Abort(feed, p) ==
    /\ ~Unreadable(p, statement.header)
    /\ Unbalanced(feed) \/ Aborts(p, statement.header, statement.rows)
    /\ outcome' = "aborted"
    /\ UNCHANGED <<batch, facts, events>>

IsRead(feed, p) ==
    /\ ~Unreadable(p, statement.header)
    /\ ~Unbalanced(feed) /\ ~Aborts(p, statement.header, statement.rows)

\* BatchIdentityError
RefuseBatch(feed, p) ==
    /\ IsRead(feed, p)
    /\ batch # NoValue /\ ~SameContent(feed, p)
    /\ outcome' = "batch_identity_conflict"
    /\ UNCHANGED <<batch, facts, events>>

Record(feed, p, how) ==
    /\ IsRead(feed, p)
    /\ \/ /\ batch = NoValue
          /\ batch' = [feed |-> feed, profile |-> p] /\ facts' = Facts(feed, p)
       \/ batch # NoValue /\ SameContent(feed, p) /\ UNCHANGED <<batch, facts>>
    /\ events' = Recorded(feed, p, how)
    /\ outcome' = "done"

\* Bound: no run while a proposal is on the screen.
Run ==
    /\ review = NoReview
    /\ \E upload \in Uploads :
         LET feed == upload[1]
             p == upload[2][1]
         IN \/ RefuseColumns(feed, p)
            \/ Abort(feed, p)
            \/ RefuseBatch(feed, p)
            \/ Record(feed, p, upload[2][2])
    /\ UNCHANGED reviewVars

\* Bound: a mapping is reviewed before the first run.
Review == outcome = NoValue /\ ReviewNext /\ UNCHANGED intakeVars

Next == Review \/ Run

Spec == Init /\ [][Next]_vars

----------------------------------------------------------------------------
(* Properties *)

Entered(s) == {x \in facts.settlements : x.settlement = s}
Held(s) == {q \in events.quarantined_settlement : q.settlement = s}

Traces(row) == {e \in events.source_row : e.row = row}

\* Every row has a row of the audit, and its settlement enters the batch or is held
\* back for a reason: never both, and never neither.
EntersOrIsHeld ==
    batch # NoValue => \A row \in Range(batch.feed) :
        /\ Traces(row) # {}
        /\ (Entered(row.settlement) = {}) # (Held(row.settlement) = {})
        /\ \A q \in Held(row.settlement) : q.conflicts # {}

\* No row of a feed is lost: its settlement enters or is held; if it enters it has a
\* line of its breakup for this row, and if it is held the finding names the row.
NothingVanishes ==
    /\ EntersOrIsHeld
    /\ batch # NoValue => \A row \in Range(batch.feed) :
        /\ \A x \in Entered(row.settlement) : \E e \in Traces(row) : \E k \in e.produced :
             x.breakup[k] = Line(row.type, Principal(row), LineReference(row))
        /\ \A q \in Held(row.settlement) : row \in Range(q.rows)

\* What a feed says of one settlement.
Finding(feed, s) ==
    [settlement |-> IF s \in Eligible(feed) THEN Reconstruction(feed, s) ELSE NoValue,
     payments |-> Payments(feed, s), refunds |-> Refunds(feed, s),
     conflicts |-> Conflicts(feed, s)]

\* The distinct rows that name a settlement, or an entity it has a row of.
OwnRows(feed, s) ==
    {feed[i] : i \in {k \in DOMAIN feed : \E j \in DOMAIN feed :
        feed[j].settlement = s /\ feed[j].entity = feed[k].entity}}

\* A malformed row holds back the settlements it, or a copy of it, names and nothing
\* else; a page fetched twice changes nothing: what a settlement comes to is decided
\* by its own rows, each taken once.
QuarantineIsLocal ==
    batch # NoValue => \A s \in SettlementsNamed(batch.feed) :
        Finding(batch.feed, s) = Finding(SetToSeq(OwnRows(batch.feed, s)), s)

\* Pages that come back in another order are the same batch: a run of them is not
\* refused, and tells of no row, conflict or refund that is not told yet.  What is
\* told again is the quarantine: its record lists the rows as they came.
RefetchIsHarmless ==
    batch # NoValue => \A feed \in Rearranged(batch.feed) :
        /\ SameContent(feed, batch.profile)
        /\ \A type \in {"source_row", "conflict", "warning", "unresolved_refund_companion"} :
             RazorpayEvents(feed)[type] \subseteq events[type]

\* Not a paisa is made or lost: a settlement is worth what its rows moved, the fee
\* deducted once, and every payment or refund in its breakup is one record of that
\* amount.  No feed can make the books disagree, which would end the run.
MoneyIsSourceNet ==
    /\ outcome = "aborted" =>
        \E x \in Selected : Aborts(x[1], statement.header, statement.rows)
    /\ batch # NoValue => \A x \in facts.settlements :
        LET rows == {row \in OwnRows(batch.feed, x.settlement) : row.settlement = x.settlement}
            Of(type) == {x.breakup[k] : k \in {j \in DOMAIN x.breakup : x.breakup[j].type = type}}
        IN /\ x.amount = SumFunctionOnSet([row \in rows |-> row.credit - row.debit], rows)
           /\ \A line \in Of("payment") :
                {y.amount : y \in {z \in facts.payments : z.payment = line.reference}}
                = {line.amount}
           /\ \A line \in Of("refund") :
                {y.amount : y \in {z \in events.unresolved_refund_companion :
                    z.refund = line.reference}} = {-line.amount}

\* A row of the statement becomes one record of its own, or is rejected for a
\* reason, or bears a reference and repeats an earlier row word for word; and only
\* one of the three.  Rows that look alike and bear no reference stay apart.
EveryRowAccounted ==
    batch # NoValue =>
        LET accepted == events.accepted_bank_row
            Taken(i) == {e \in accepted : e.index = i}
            Rejections(i) == {e \in events.rejected_bank_row : e.index = i}
            p == batch.profile
            Referenced(i) == p.reference # NoValue
                /\ Text(Cell(statement.header, statement.rows[i], p.reference)) # Blank
            Repeats(i) == {j \in 1 .. i - 1 :
                Content(statement.header, statement.rows[j])
                = Content(statement.header, statement.rows[i])}
        IN /\ \A i \in DOMAIN statement.rows :
                /\ Taken(i) = {} \/ Rejections(i) = {}
                /\ Taken(i) = {} /\ Rejections(i) = {} =>
                    Referenced(i) /\ \E j \in Repeats(i) : Taken(j) # {} \/ Rejections(j) # {}
           /\ {e.produced : e \in accepted} = {r.id : r \in facts.records}
           /\ Cardinality(accepted) = Cardinality(facts.records)

\* How often a statement reports each movement.
Movements(rows) ==
    LET records == Records(batch.profile, statement.header, rows)
        Said(r) == [amount |-> r.amount, direction |-> r.direction,
                    narration |-> r.narration, date |-> r.date]
    IN [m \in {Said(r) : r \in records} |-> Cardinality({r \in records : Said(r) = m})]

\* The movements taken from a statement do not depend on the order of its rows, two
\* that look alike are two, and two rows that contradict each other are none.
StatementOrderIsIrrelevant ==
    batch # NoValue => \A rows \in Rearranged(statement.rows) :
        Movements(rows) = Movements(statement.rows)
=============================================================================

# FinRecon in TLA+

FinRecon reconciles bank credits with payment-gateway settlements. A feed of gateway
rows and a bank statement become a batch (intake). The batch goes through a
deterministic core (Stage 2), the cases it leaves open are
investigated by a model-driven agent and adjudicated by a deterministic policy
(Stage 3), and people decide what is left. Everything is recorded in one SQLite
ledger. This directory holds the TLA+ specifications of that system, the TLC
instances that model-check them and the TLAPS proofs of their main invariants.
Paths below are relative to `src/src/finrecon/` unless they start with `src/`.

## 1. Inventory of the system

| component | state it keeps | operations | what makes it correct |
|---|---|---|---|
| deterministic core: `pipeline.py` 70-133, `matchers/`, `candidates/generator.py` | the batch, the decisions, the pool of unclaimed settlements, the candidates of open cases | direct-key match, derived match, withdrawal of contended claims, candidate generation | no settlement in two cases, exact money, no arbitrary tie-break, an open case is frozen with every group it could still be |
| Stage-2 persistence: `pipeline.py` 136-186, `ledger/store.py`, `ledger/audit.py`, `orchestrate.py` 236-308 | tables `batches`, `cases`, `case_links`, `case_contexts`, `audit_log`, `case_candidates`, `case_snapshots`, `ingestion_audit_events` | register a batch, record each case in five transactions, record ingestion events | a batch id is one content, reruns are no-ops, a kill anywhere is repaired by a rerun |
| Stage 3: `stage3.py`, `agent/cache.py`, `orchestrate.py` 440-497 | tables `stage3_investigations`, `stage3_tool_calls`, `stage3_decisions`, `stage3_links`; trajectory files | report and filter human cases, read claims, investigate or replay, adjudicate, withdraw contention, record | the tables tell one story per case, no settlement is taken twice, a person's decision is left alone |
| human resolutions: `ledger/human.py`, `ledger/store.py` 221-288, `api/service.py` 395-427 | `human_resolution_events` and their links | decide, repeat, revise | append-only, one active revision, no committed decision lost |
| saved bank mappings: `ledger/bank_mappings.py`, `api/bank_mappings.py`, `adapters/bank/schema/` | `bank_mappings`, `bank_mapping_versions` | create, add a version, detect, read a statement under a mapping | versions immutable, one active, a statement is read only under the mapping detection selects |
| investigation loop: `agent/loop.py`, `agent/providers/chain.py`, `agent/trajectory.py` | the steps of one investigation | ask the provider chain, preflight and execute a batch of tool calls, adjudicate provisionally | budgets hold, a step's calls execute all or not at all, every failure is on the record |
| adjudication: `decide/validator.py`, `decide/policy.py`, `evidence/` | none (pure) | close the evidence, identify candidates, check money, block or resolve | evidence can only narrow, nothing resolves without it |
| agent tools, prompt: `agent/tools.py`, `agent/prompt.py` | none (frozen snapshot) | read-only queries | - |
| provider adapters: `agent/providers/` | none | HTTP requests, error classification | errors fall in the kinds the chain distinguishes |
| gateway adapter: `adapters/razorpay/recon.py` | none (pure) | drop copies, group rows into settlements, break them up, hold back what conflicts | no row vanishes, one bad row holds back its settlement and no other, no copy adds money |
| statement parser: `adapters/bank/csv_parser.py` | none (pure) | read a row under a profile, give it an identity, reject it | each row is one record, one rejection or one repetition; order is irrelevant |
| mapping proposals: `adapters/bank/mapping/`, `api/bank_mappings.py` 242-422 | one request about one file | sample, propose, repair once, validate, confirm | a mapping that is confirmed reads its file, and no ambiguity is settled by default |
| batch intake: `orchestrate.py` 220-434, `api/app.py` 255-330 | `batches`, the records of a batch, `ingestion_audit_events` | run, run again | what becomes no fact becomes an event, the same upload is the same batch |
| normalization, models: `normalize/`, `models/`, `loader.py` | none | convert records | order independence |
| API, CLIs, web: `api/`, `*_cli.py`, `src/web/` | request only | plumbing | - |
| benchmark generators, evaluation: `benchmark/`, `src/benchmark/` | files | generate, score | - |

How they interact: `orchestrate.py` runs ingestion, `reconcile_batch`,
`persist_batch`, the ingestion audit, then `run_stage3`, in one thread; each HTTP
request and each CLI opens its own ledger connection, so two runs, or a run and a
reviewer, interleave at transaction boundaries. No transaction spans two cases, or
the investigation and the decision of one case. The trajectory cache is a
directory of files shared by all runs.

What is hard here: read-then-write across transactions (`register_batch`, the
human revision, the settlement claims of a pass), kills between two transactions
of a case, reruns that decide differently, contention that must be symmetric,
and stages that work on pools the previous stage changed. `PROJECT.json`
lists each hazard at its line with the properties that watch it.

## 2. Plan of the development

Modules, in the order they were written: the most important behaviour first.

1. `HumanResolution` (the journal of decisions), then `Stage3Ledger`, which extends
   it: passes, people and crashes on one set of tables. `ClaimRegistry` is the
   abstract specification that `Stage3Ledger` implements.
2. `Stage2Match` (what is decided) and `Stage2Ledger` (how it is written).
3. `ProviderChain`, extended by `InvestigationLoop` (how one investigation goes), with
   `Inquiry` as its abstract specification; `Adjudication` (what evidence resolves).
4. `BankMappings`.
5. `RazorpayRecon` and `BankCsv` (what is read), `MappingReview` (how an unknown statement
   gets a mapping) and `Intake`, which composes the three into the runs of one upload.
6. Proofs of `HumanResolution`, `Adjudication`, `BankMappings`, `MappingReview`, then of
   `Stage2Ledger`, `Stage3Ledger` and `InvestigationLoop`.
7. `FiniteSums`, a theory of sums and orders of finite sets, and with it the proofs that need
   one: `Stage2Match`, the count of attempts of `InvestigationLoop`, the feeds of `Intake`;
   then `Stage3Ledger` for runs that follow one another.

What would come next:

- `Stage2Ledger` and `Stage3Ledger` composed: a run persists Stage 2 and goes on to
  Stage 3 while another run is in Stage 2;
- `Intake` composed with `Stage2Ledger`: an ingestion event differs for a feed that comes
  back in another order, which `Stage2Ledger` takes to be one content (section 6);
- a bound on the trajectory of an investigation under providers that fail for good, which
  is what the fairness in `IsAnInquiry` leaves to TLC.

## 3. Modules and code

`PROJECT.json` maps every definition to the lines it stands for. In outline:

| module | code | state | one action is |
|---|---|---|---|
| `Stage2Match` | `pipeline.py` 70-133, `matchers/`, `candidates/generator.py` | the batch, the decisions of each stage, the candidates | one stage of `reconcile_batch`, contention withdrawn |
| `Stage2Ledger` | `pipeline.py` 136-186, `ledger/store.py`, `ledger/audit.py`, `orchestrate.py` 236-308 | the eight Stage-2 tables; where each run is | one transaction, one read outside a transaction, or a kill |
| `Stage3Ledger` | `stage3.py`, `agent/cache.py`, `orchestrate.py` 440-497, `ledger/store.py` 290-440 | the four Stage-3 tables, the cache files, the journal; what each pass holds | one read, one transaction, one model call, the opening or the writing of a file, or a kill |
| `HumanResolution` | `ledger/store.py` 221-288, `ledger/human.py`, `api/service.py` 395-427 | the journal; what each request has read | the read of the active event, or the transaction |
| `ProviderChain`, `InvestigationLoop` | `agent/providers/chain.py`, `transport.py`, `base.py`, `agent/loop.py`, `agent/trajectory.py` | the attempts of a call; the steps and tool calls of a trajectory | one attempt at a provider; one kind of turn |
| `Adjudication` | `decide/validator.py`, `decide/policy.py`, `evidence/` | the snapshot, the fragments tested, the last decision | a batch of comparisons, or the end of an investigation |
| `BankMappings` | `ledger/bank_mappings.py`, `api/bank_mappings.py`, `adapters/bank/schema/` | the two tables; the requests and uploads in flight | one read or one transaction of an edit; the read of the corpus or the verification of an upload |
| `RazorpayRecon`, `BankCsv` | `adapters/razorpay/recon.py`, `adapters/bank/csv_parser.py` | none: operators on a feed, and on a statement under a profile | - |
| `MappingReview` | `adapters/bank/mapping/`, `api/bank_mappings.py` 242-422 | the file, the proposal request, the mapping saved | one request of a proposal, one answer of the model, one confirmation |
| `Intake` | `orchestrate.py` 220-434, `api/app.py` 255-330, `ledger/store.py` 202-217 | the batch, its facts, its ingestion events, how the last run ended | one run up to matching |

`ClaimRegistry` and `Inquiry` are abstract: they model no code. The modules named
`MC...` give the constants their values for TLC. Operators under a comment that begins
with "Fault:" are plausible bugs that no specification uses; replacing the operator
named in `PROJECT.json` by one of them makes TLC find the property named there
violated, which shows that the property depends on that part of the code.

Abstractions, all of which keep the control:

- Money, dates and narrations. `Stage2Match` keeps amounts and days as numbers, and of
  a narration the settlements its tokens name. `Adjudication` keeps of a fragment how
  many characters the strongest declared relation pins for each candidate, of a
  labelled date or refund amount the set of candidates it fits, and of the money of a
  candidate whether it is exact.
- `Stage2Ledger` bundles what `reconcile_batch` decided for a case in one value, and
  `Stage3Ledger` reduces an investigation to its model, whether it proves the one
  candidate its case admits, and how many calls it made. That one candidate is what
  `Adjudication` shows (`OneAnswer`); the model may or may not reach it.
- Hashes (content fingerprints, snapshot hashes, audit ids, cache keys) are injective.
- A transaction is atomic, SQLite serialises writers, and a kill falls between two
  steps. For a trajectory file the steps are the test that it exists, its opening,
  which truncates it, and its writing.
- A row of a feed stands for its own fingerprint; of a statement's cells the constants say
  what date each format reads in them and what amount they write. The bytes, the quoting
  and the texts of conflicts and rejections are left out.
- Rows are sorted by counting what comes before each (`Sorted`): the order is the one of the
  code, since no two rows that are kept share an entity, and it can be reasoned about
  where a recursive sort cannot.
- A run is one step of `Intake`; `Stage2Ledger` takes its writes apart. Confirming a mapping
  leaves out the name it is given and the 409 of a file that is not the one expected:
  the file stands still here.
- An HTTP exchange is one of the classes of status, transport failure and body that
  `transport.py` and the adapters tell apart.

Who is concurrent with whom. The API is one uvicorn process. Its `async` endpoints
(a run, an edit of a mapping) await their uploads and then run on the event loop
without yielding; its plain endpoints (a human decision, the demonstration run) run in
threads; the command lines are processes of their own. All open their own connection
to one ledger file. Hence two requests of reviewers, a reviewer and a run, and a
demonstration run and another run do interleave inside the API; two edits of one
mapping, or two uploaded runs, interleave only when two processes share the ledger.
The corpus of an upload is read before its files are awaited (`api/app.py` 602), the
active version after, so an edit can fall between them in one process.

## 4. What the runs check

Twelve runs; each ends within five minutes with two workers.

| run | question | bounds |
|---|---|---|
| `human_race` | do racing decisions keep one history? | 2 requests, 2 cases, 3 revisions |
| `match_core` | is money conserved, and is no credit favoured? | every batch of 3 credits and 3 settlements over small facts |
| `persist_runs` | does a ledger written by several runs, killed anywhere, hold one content, whole? | 3 runs, 2 in flight, 3 contents of 2 or 3 cases |
| `persist_mixed` | is a collision of two contents loud? (no) | 2 runs |
| `stage3_serial` | do runs one after the other agree with the tables they leave? | 3 passes, 2 cases that share a settlement, 1 model |
| `stage3_races` | what survives overlapping runs and a reviewer? | 2 passes at once, 1 reviewer, 1 revision of each case, 2 cases |
| `stage3_subset` | does a rerun over some cases keep links and decisions together? (no) | 2 passes |
| `loop_bounded` | are budgets, batches and fallbacks kept, and does the loop implement an inquiry? | 2 steps, 2 providers, 1 retry, 2 calls a step |
| `adjudication` | can a model steer the answer? | every snapshot of 3 candidates and 3 fragments of the kinds below |
| `adjudication_floor` | can a higher floor only withdraw a match? (no) | 2 candidates, 2 fragments of two strengths |
| `bank_mappings` | do edits and uploads keep versions straight? | 2 editors, 2 mappings, 2 labels, 3 versions, 1 upload of 4 files, 1 built-in |
| `intake` | does an upload become a batch without losing, doubling or misreading anything? | feeds of up to 3 of 11 rows, statements of up to 3 of 7 rows, 7 mappings, a sample of 2 |

Why the bounds are enough for the cases of interest:

- `match_core`: a contest takes two credits and one settlement; a third credit and a
  third settlement let a group of two be contested by two different credits, and let
  what one contest releases matter to another. Amounts 1 and 2 make one settlement of
  2 and two of 1 compete; days 0 and 2 against credits of days 1 and 3 put one
  settlement outside one window; one break-up is unsound; a narration names none, one
  or two settlements.
- `persist_runs`: two contents that agree on some cases and differ on one, and a third
  that shifts every later place in the audit trail. The third run is the rerun that
  follows two that overlapped or were killed.
- `stage3_*`: two cases whose candidates share a settlement are the smallest contest; a
  third settlement is held by Stage 2. A trajectory that proves its candidate made one
  call, one that does not made two, so leftovers of one beside the other show. The
  third pass of `stage3_serial` is the rerun after a rerun. `stage3_races` leaves out
  the properties that fail when runs overlap, and says so in section 6.
- `loop_bounded`: two steps are the smallest run in which evidence of an earlier step
  may resolve at a later one and in which the budget may end at a step that resolves.
  Three calls exceed the limit of two. Two providers and one retry give every order of
  retry and fallback.
- `adjudication`: three candidates are needed for two fragments that each leave two
  candidates and together leave one; three fragments for a third to contradict them.
  The snapshots: fragments of one strength with no labelled field, with any one, and
  (two fragments) with any two; each with all money exact or one candidate's not;
  every rung of the value ladder and a narration too long to search; fragments of two
  strengths above the scrutiny threshold.
- `bank_mappings`: two header rows equal up to their case separate the tiers of
  detection; a built-in profile shares one of them, so every tie occurs. Two reads
  (a delimiter and an encoding) see one file alike, or differently, or one of them cannot
  decode it. Three versions let one mapping have three, or two beside the other's one: an
  edit that read an active version is overtaken by another edit.
- `intake`: each row of a feed is right or wrong in one way (a copy that differs, another
  settlement, payout date or reference, tax above fee, not settled, no date, a refund of
  no payment, an amount that is not the principal); three rows give a conflict, the
  settlement it holds back and one it must not. Each row of a statement differs from
  another in one thing the parser looks at (a shared reference, a zero beside an amount,
  separators, an infinite amount, cells past the header, nothing at all), and a header is
  plain, has spaces around a name, or has a name twice. The two sources do not influence each other, so a feed has
  at most one row beside a statement of one and none beside a longer one. A second upload
  is the first one, under the same profile, in any order, or short of its last row. A
  mapping is reviewed before the first run, and nothing runs while a proposal is on screen.
  A proposal has two calls (`MAX_MODEL_CALLS`), as in the code; a sample of two rows is
  smaller than a statement of three.

Deadlock is checked in every run but `intake`. A specification that may stop has an
explicit step for it (`Terminated`, `Returned`), so stopping anywhere else would be
reported. In `human_race`, `adjudication` and `bank_mappings` some action is always
enabled. `intake` may stop for good: a person who can confirm no mapping for a file has
nothing left to do.

Fairness. `FairSpec` of `Stage3Ledger` has weak fairness of `PassStep`, the code of one
pass: it waits for nothing but the model call, which the transport bounds by a
timeout, and a kill is not part of it and never forced. `Spec` of `InvestigationLoop`
has weak fairness of `LoopStep` for the same reason. The safety runs assume none.
`PassEnds` is that a run that is not killed comes to an end in spite of misses, torn
files and other runs; `IsAnInquiry` includes that an investigation comes to its
verdict. Nothing of `Intake` must happen: it waits for people.

What the properties say is beside them in the modules. The ones with most behind them:

- `MoneyIsConserved`, `ContestHasNoWinner`, `TwinsStayOpen` (`Stage2Match`): across three
  stages, whatever each returns to the pool of the next.
- `BatchIsOneContent`, `DoneIsWhole`, `RerunIsNoop`, `LedgerIsSound` (`Stage2Ledger`):
  twenty-odd transactions, killed anywhere, repeated by runs that may not even have
  read the same records. The first three are conditional on runs in flight at once
  having the same content: `persist_mixed` shows why.
- `PassIsExclusive`, `RefinesRegistry` (`Stage3Ledger`): contention is symmetric inside a
  pass, and the ledger as a whole is a registry in which what is taken stays taken.
- `HistoryIsFinal`, `RecordIsSound`, `RecordsAreWhole`: what is recorded first stands, a
  settlement is linked beside another case's claim only if that claim is newer than the
  pass's reading of the claims, a decision has its investigation and its links, and reruns
  that absorb their own writes still report it.
- `HumanAuthority`: what people decided before a run began is reported and left alone, and a
  decision that falls among the reads of the two loops never has its case both reported and
  investigated.
- `OneAuthority`, `AttemptsAreHonest` (`InvestigationLoop`): the loop's early stop and the
  policy's later reading of the trajectory are two computations that must agree on
  every path, and no attempt is missing from the count or blamed on the wrong error.
- `OneAnswer`, `MoreEvidenceKeepsTheAnswer`, `ResolutionIsProved` (`Adjudication`): a
  model cannot choose the answer by choosing what to look at.
- `OneLineOfVersions`, `ConfirmedVersionStands`, `ReadUnderItsMapping` (`BankMappings`).
- `NothingVanishes`, `QuarantineIsLocal`, `MoneyIsSourceNet`, `RefetchIsHarmless` (`Intake`):
  each row of a feed against the settlement, the breakup, the companions and the events
  that came of it, through copies, conflicts and repeated uploads.
- `EveryRowAccounted`, `StatementOrderIsIrrelevant`: two movements that look alike are two,
  two that share a reference and differ are none, in any order.
- `ConfirmedMappingReads`, `AmbiguityIsAnswered`: the validator and the parser read one
  file in two ways (first or last of two equal columns, trimmed or exact names, zero or
  empty sides, separators), and what one accepts the other must read. The first holds
  for header rows that have no name twice, and a zero beside a blank is left out (section 6).

## 5. What is proved

For every value of the constants, with TLAPS:

| module | theorem | of |
|---|---|---|
| `FiniteSums` | lemmas: a finite sum exists, any term may be taken out, sums over unions, parts and renamed indices; each place of an order is taken once | every finite set |
| `Stage2MatchProofs` | `MoneyBalances`, `ContestsAreLost`, `TwinsAreRefused`, `CandidatesAreKept` | batches of any size |
| `Stage2LedgerProofs` | `LedgerStaysSound`, `BatchStaysOneContent`, `ReturnedIsWhole`, `CompleteBatchIsLeftAlone` | any number of runs, contents and cases, a kill anywhere |
| `Stage3LedgerProofs` | `HumanTypeCorrect`, `OneLineOfHistory`, `NoDecisionIsLost`, `JournalAppendOnly` | the journal, any number of cases, requests and revisions |
| | `StageTypeCorrect`, `PeopleHaveAuthority`, `RecordsStayWhole`, `ContestsHaveNoWinner`, `RecordedHistoryIsFinal` | any number of passes in flight, cases, people and options, a kill anywhere |
| | `SerialLinks`, `SerialRecords`, `SerialRefinesRegistry` | any number of passes and cases, a kill anywhere, one run at a time under the hypotheses below |
| `InvestigationLoopProofs` | `LoopTypeCorrect`, `OneAuthorityResolves`, `BatchesAreAtomic`, `FallbackStaysHonest`, `AttemptsStayHonest`, `LoopIsAnInquiry` | any providers, retries, turns, budgets and policy that only seeds on evidence |
| `AdjudicationProofs` | `AdjudicationTypeCorrect`, `NoSteering`, `NamedOnProof`, `EvidenceOnlySeeds`, `NoEvidenceEscalates`, `EscalationsAreExplained`, `ContradictionEscalates` | any candidates, fragments, floors and snapshots |
| `BankMappingsProofs` | `BankTypeCorrect`, `VersionsAreOneLine`, `VersionsStand`, `StatementsReadUnderTheirMapping` | any number of mappings, editors, uploads and versions |
| `IntakeProofs` | `ProposalsAreChecked`, `AmbiguitiesAreAnswered`, `ConfirmedMappingsRead` | any statements, mappings, formats and sample size |
| | `EverySettlementEntersOrIsHeld`, `NoRowVanishes`, `QuarantinesAreLocal`, `RefetchesAreHarmless`, `MoneyIsOfTheSource` | feeds of any length |
| | `EveryRowIsAccounted`, `StatementsHaveNoOrder` | statements of any length |

Every safety invariant and action property of a passing run is stated by one of these
theorems; the two properties that say something must happen are not.

The arguments:

- Sums and orders. The provers cannot instantiate an induction theorem, whose hypothesis is
  an operator. `FiniteSums` does without: strict subsets of a finite set are well-founded,
  so a set of naturals has a least element (`LeastElement`), and a set that contains 0 and
  the successor of each of its members contains all naturals (`InductionOnNat`); likewise
  for the subsets of a finite set (`InductionOnSet`). The hypothesis is then a set, which
  each proof gives as a comprehension. `SumIs` finds the sum that `SumFunctionOnSet` chooses,
  and everything else is one such induction. An order takes each place once
  (`EachPlaceIsTaken`), because an element that comes later has more before it.
- The deterministic core. Each stage is a function of the batch and of the stages before it
  (`StageSound`), so `ContestsAreLost` is about `WithdrawContended`, and `CandidatesAreKept` about
  one enumeration over what both stages left. Money balances because the resolved credits
  of both stages link disjoint sets (`SumOfParts`): a derived match is over what the direct stage
  left, and a decision of either stage links what comes to its credit.
- The journal. The shape of the table (`LatestIsActive`) is not inductive: the revision
  a request is about to write follows the one it read, which says nothing of the table
  now. `JournalInv` adds `ReviewSound`: the row a request read is still in the journal,
  perhaps retired. If it is still active it is the last, and the new revision follows
  it; if it is not, another revision has taken the new one's place and the unique
  indexes refuse the transaction.
- Mappings. `BankInv` adds to the shape of the tables that a named mapping has an active
  version (`SomeActive`, so that the greatest version exists without induction), that
  every version before the one an edit will write exists (`RequestSound`), and that an
  entry of an upload's corpus is still a row of the table, perhaps retired
  (`CorpusSound`). The greatest version is read after the active one; either may be
  stale at the write, and the three unique indexes reject exactly the stale writes
  (`WriteFollows`). For an upload, detection ran against the old corpus, but the
  version it compares with the table at the end cannot have changed its content.
- Adjudication. What the closed evidence identifies does not depend on what was
  tested, which only seeds it; so an invariant that every name ever given is the name
  the fully seeded evidence would give is inductive, and `OneAnswer` follows. The other
  theorems are about the operators and need no induction.

- Proposals. `ReviewInv` says what each step of a proposal has settled and that a saved
  mapping was confirmable; with it the properties are about one file. The validator
  trims the names of the header row and the parser does not, but the store keeps no mapping
  whose columns are not on it as written (`Storable`); where no name is there twice the first
  and the last column of a name are then one column, and both read the same cell (`SameCell`); a row the parser refuses for two amounts, or
  for none, is then one the validator counted (`BothIsCounted`, `NeitherIsCounted`).
- Intake. `IntakeInv` says that the facts and the events of a batch are those of its own
  feed and statement, but for the order in which a quarantine lists its rows. A later run
  that records anything has the same rows, profile and facts, and tells nothing new but
  that (`FeedIsAuditedAgain`). The properties are then about one feed, or one statement, read once.
- Feeds. What a feed says of a settlement is a function of two sets: of its rows that are kept
  and of its rows that are excluded (`Alike`, `FindingSame`); and whether a row is kept depends
  on the set of rows of its entity (`RowsDecide`). So neither copies, nor order, nor other
  settlements matter, which is `QuarantinesAreLocal` and `RefetchesAreHarmless`. The breakup is
  the one place where order shows: `OrderedIs` finds the k-th row by entity from the set alone.
  Its total is the principals, which add the fee back, less the one or two deductions, which
  come to the fee whether or not the tax is split off (`DeductionsAre`): hence what the rows
  moved (`Balanced`), and no run ends on books that disagree (`NeverUnbalanced`). A settlement
  that enters has no excluded row and no payment or refund without its companion
  (`EligibleIsClean`), and a row that is kept is the only one of its entity (`KeptOnce`).
- Statements. Of the rows of one reference the earliest is not collapsed, and of rows without
  one each has more like it before it than the last had (`OccurrencesDiffer`), so that ids are
  unique. In another order another row of a reference is taken, but one of the same content;
  what is counted is therefore the references, and the rows without one, that report a
  movement (`Bearer`), which no order changes (`OrderDoesNotCount`). That rows of one content are
  read alike needs a header that has the declared columns, as an upload that is read has
  (`ContentSaysAll`).

- The Stage-2 ledger. `LedgerInv` has two layers. `Ledger` says of every run which rows it
  has written so far: `SnapshotComesLast` alone is not inductive, as nothing in it says
  that a run about to write a snapshot wrote what the snapshot stands on. Rows are only
  added (`Grows`), so no other run makes it false, whatever the contents (`OtherRuns`).
  `OneContent` says, as long as no two runs of different content were in flight at once,
  that a run that writes is over what is registered and that there are no other rows; a run that is killed leaves rows
  its successor finds registered. A rerun of a whole batch then has nothing to add.
- The Stage-3 ledger. `StageInv` says of every run what its two loops passed over
  (`FilterSound`; a person's decision stays one, so what the first loop reported the second
  passes over too), for which cases it holds a trajectory (`FoundSound`), and that its
  verdicts are those of the whole pass with contests withdrawn (`OutcomeSound`). What it
  relies on in the tables (a row is there, a person has decided) only grows: a
  revision retires an event in the very transaction that adds its successor
  (`ActiveStays`), so the journal's own invariant is part of this one. A verdict is a
  function of what the run read at its start, which is why the theorems hold for
  runs that overlap, and why no more does (section 6): a run links no settlement it read as
  claimed (`OutcomeIsUncontested`), so a link beside another claim meets a newer one
  (`NewLinkIsLate`).
- Runs that follow one another. `Serial` is the hypothesis of the three `Serial...` theorems: one
  run at a time over the whole batch, all asking one model and filing what it answers, and no
  person resolving a case. It is what the orchestrator's defaults come to, and `stage3_serial`
  is an instance. Then what a run decides is a function of the trajectory files (`Final`), the files
  are never rewritten, and what is recorded of a case is what its file says (`RecordSound`):
  a run that is killed leaves a part of that, and the next one adds the rest. No
  hypothesis can go: runs over some of the cases decide differently (`stage3_subset`), two
  runs at once read claims that the other adds to, a second model or an answer that is not filed
  leaves a decision beside another investigation, and a person may choose what
  the machine gave to another case (section 7). `Final` verdicts share no settlement
  (`FinalIsExclusive`), so a recorded decision is a `Claim` of `ClaimRegistry`.
- The investigation. While the loop runs, its record is clean: every step answered,
  every call executed, no resolution in the evidence (`LoopInv`). Whatever ends the loop
  adds one step to such a record, so the policy's reading of the whole can differ from
  the loop's only in that step. `LoopIsAnInquiry` maps an executed batch to a turn of the
  inquiry, an end without a resolution to `GiveUp`, and the rest to nothing.
  `FallbackStaysHonest` adds that the last attempt of a call leads to the one about to be
  made (`CallByTheRule`); `FollowsTheRule` itself speaks only of attempts that were made.
  `AttemptsStayHonest` adds the count: a step that is recorded adds its own attempts to the
  sum over the steps (`StepIsCounted`) in the transition that clears those of the call.

The assumptions are the named ones of the modules: types of the constants, a positive
evidence floor, fragments that are not fabrications, names that are not the absence
of one. `ResolvingAssumption` of `InvestigationLoop` (more evidence resolves as well)
is what `EvidenceOnlySeeds` proves of `Adjudication`.

The assumption on the rows of a feed is that entities, amounts and dates are what the
schema of a row makes them, integers; of a profile, that its date and narration columns are
declared (`adapters/bank/csv_profile.py` has no default for them).

Only model-checked: liveness (`PassEnds`, and that an investigation comes to its verdict in
`IsAnInquiry`), since the prover does no fairness and no ENABLED. Recursion over data stays out of
the modules that are proved about: what an operator computes is stated with sums, orders and
least elements of finite sets instead.

## 6. Where the code does not do what it says

Three runs check a statement of the repository and find it violated:

| run | the statement | what happens |
|---|---|---|
| `stage3_subset` | "a resolution writes links a refusal does not" (`src/tests/test_stage3_pipeline.py` 167) | a case recorded as an escalation resolves in a rerun over fewer cases: the row stays, links are inserted beside it (`ledger/store.py` 398) |
| `persist_mixed` | a batch identity collision is a loud failure (`ledger/store.py` 34) | two runs both find no batch; the second inserts nothing and goes on (`ledger/store.py` 91) |
| `adjudication_floor` | a higher floor "can only ever convert a match into an escalation" (`decide/policy.py` 34) | the floor also hides claims that contradict a match (`evidence/closure.py` 395) |

Seen while modelling, and not turned into runs:

- An investigation "returns a Trajectory in every outcome" (`agent/loop.py` 199), but a reply
  cut short or not UTF-8 raises what no layer catches (`agent/providers/transport.py`
  131), and the whole pass ends with it.
- A feed whose rows come back in another order is the same batch
  (`orchestrate.py` 222-233 sorts them), but the event of a quarantined settlement lists
  their fingerprints as they came (`adapters/razorpay/recon.py` 996-1017) and is
  identified by the hash of that (`ledger/store.py` 202-217): it is recorded again, and
  counted as one more issue. `src/DESIGN.md` 555 asks for "no duplicate audit rows".
  `RefetchIsHarmless` claims the other four kinds of event.
- One row of a statement can end the whole upload: a rejected row with cells past the
  header is sorted with a `None` among its column names (`adapters/bank/csv_parser.py`
  601, 633), and "Infinity" overflows where only `MoneyError` is caught (318, 347), though
  the zero-filled path catches it (197-207). `Aborts` models both.
- The validator reads trimmed column names and the first of two equal ones, the parser
  exact names and the last: a mapping proposed on a padded header passes the validator and
  is then refused by the store (`mapping_columns_absent_from_schema`,
  `ledger/bank_mappings.py` 361), and one that detection selects after normalising the
  names cannot be read at all (`BankCsvDecodeError`). A row with a blank on one side and a zero on the other is no movement to
  the parser (261) but not counted as one by `_check_debit_credit_sample`, so a sample of
  such rows passes. Validation tolerates thousands separators that a proposal never
  declares; such rows are rejected by the parser.
- `_settlement_deductions` (`adapters/razorpay/recon.py` 669) speaks of any row whose tax
  exceeds its fee; the code compares the totals of the settlement. Payments of a
  quarantined settlement are still handed to normalization.

- The report of a run reads the people's resolutions in one loop and the filter of the
  pass in another (`orchestrate.py` 449-456): a case decided between the two is in neither
  `human_resolutions` nor Stage 3 of that report. `HumanAuthority` says that no case is in both.
- Overlapping passes may resolve one settlement to two cases: claims are read once, before
  the model calls (`stage3.py` 308), while `src/DESIGN.md` 264 speaks of a counterparty
  already resolved in this run. `stage3_races` therefore claims exclusivity per pass,
  and only that a pass takes nothing it has read as taken (`LateClaim`); `stage3_serial`
  claims it across passes.
- A second model that investigates a case already recorded is absorbed: the report names
  its decision, the ledger the first one (`ledger/schema.py` 192). The tool-call rows of
  two trajectories merge when the second made more calls (`ledger/store.py` 332, against
  its docstring at 295). A kill between a case's investigation and its decision, then a
  rerun with another model, leaves a decision beside another model's investigation
  (`stage3.py` 265). `stage3_serial` has one model for these reasons.
- A trajectory file torn by a kill ends every later run of that case and model
  (`agent/cache.py` 187-200), and two overlapping live runs may write over each other's
  file, which line 46 says never happens silently. `LoadTorn` and `WriteFile` model both.
- `matchers/derived_reconciliation.py` 21 says no other credit claims a derived match;
  what the direct stage refused, the derived stage may still give away (`pipeline.py` 84),
  and a refusal of the direct stage is overridden when the derived stage finds a group.
- The generator sees what is unclaimed after both stages (`pipeline.py` 113), the matcher
  what was unclaimed before the second: a group the matcher refused as ambiguous can be
  gone from the candidates (`candidates/generator.py` 16-18 says otherwise).
- The docstrings of the two window constants are swapped between `matchers/rules.py` 42
  and 50 and `matchers/blocking.py` 48-51.
- The attempts of a call that stops dead are on no step (`agent/loop.py` 279-291), so
  `provider_call_count` misses them; `AttemptsAreCounted`, in `AttemptsAreHonest`, says by how
  much.
- The branch at `agent/loop.py` 283 cannot be reached behind a `ProviderChain`, no adapter
  raises `ModelSemanticError`, and the policy's catch-all blocker is never the reason
  (`EscalationsAreExplained`). A case with one candidate never resolves: no evidence
  separates it from others.
- `agent/trajectory.py` 162 says a skipped call passed preflight; those of a batch over the
  limit were never preflighted.
- The response to an edit of a mapping reads the active version after its transaction
  (`ledger/bank_mappings.py` 330). An edit confirmed against an older version supersedes
  one made in between. Nothing disables a mapping, so two that tie stay ambiguous.

## 7. What is not modelled

- The seven lexical relations between a fragment and a reference
  (`evidence/reference.py`), the labelled-field patterns and the money derivation line
  by line: their results are inputs of `Adjudication` and `Stage2Match`, any of which
  may occur. Whether a relation that pins n characters is convincing is a judgement.
- Request building and token accounting of the provider adapters, prompts, and the
  read-only tools: they change no state.
- Normalisation, canonical JSON and hashing, the decoding of bytes and the quoting of a
  CSV file, the fetching of pages and the schema of their rows
  (`adapters/razorpay/recon_row.py`): pure conversion of one record.
- API plumbing, command lines, the web client, benchmark generators and evaluation:
  display, plumbing and offline scoring.
- A person choosing a settlement that another case holds: the service checks the choice
  against the frozen candidates only, by design (`api/service.py` 395), and the
  exclusivity properties are checked in runs without people.

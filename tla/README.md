# A verification of Rebate Management

Rebate Management learns of offers and transactions from Kafka, decides which
transactions earn a rebate, exports the rebates to Marketing Cloud, takes notice of
their fulfillment, tells of it over Kafka and reports running totals. This directory
holds TLA+ models of its core, the TLC runs that check them on small instances, and
TLAPS proofs of the most important theorems for every value of the constants. Paths
are those of the repository.

## The system

| Component | State | Operations | Talks to |
|---|---|---|---|
| Scheduler (`app/scheduler`) | one master process, `WEB_CONCURRENCY` workers | fork, assign rows, let the workers start, poll the pending rows, export, sync, exit; single commands (`T_P`, `MC_E`, `MOP_SYNC`) | the tables; workers by one message; a worker exits with its master |
| Kafka listener (`app/kafka/consumers`, `app/consumer.ts`) | a stream per topic, the committed offsets | store transactions, offers, users; commit automatically; exit on an error, resume at the offset | inserts into the tables at any time |
| Rebate events (`app/kafka/producers`, `app/kafka/events`) | what a publisher has still to deliver | look a rebate up, dispatch an event, deliver in the background | Kafka; used by the export and by processors, whose processes exit without waiting |
| Transaction processing (`app/transaction_processing/index.ts`) | a batch of rows in memory | load the rows, hand each to the strategy of its type, log what a strategy throws | the three strategies |
| Qualifying strategy and eligibility checks | criterion, user, product and calculation of one row | a sequence of checks, then mark the row, then insert a rebate | tables; the user ledger |
| Fulfillment strategy | the rebate of one row, cached | a sequence of checks, mark the row, mark the rebate, publish, update the journal | tables, Kafka |
| Refund strategy and refund report | none | checks, mark the row, add rows to the refund report | tables |
| Rebate export (`app/exports`) | the rebates of this export, whether they were uploaded, the id of its row | mark the rebates, CSV, zip, upload, reports, mark, publish, record the outcome | tables, SFTP server, Kafka; started by the master, `MC_E` and the web UI |
| MOP sync (`offer_repository.ts`) | counts and sums per offer | read the totals, add them to the offer, mark the rebates as synced | two databases |
| Transaction import (`app/transaction_import`) | two temporary files that all imports share, a row of `transaction_import_details` per import | sync (fetch a zip, unzip, parse, store), upload (parse, store), delete the row | SFTP server, tables; started by the web UI |
| Offer import (`app/offer_import`, `offer_handler.ts`) | the stored offers | translate an offer event and its reward, store it unless withdrawn | inserts into the tables at any time |
| User ledger (`user_ledger_repository.ts`, a trigger of the database) | entries per user, by timestamp; a partition per month | record targeted and linked offers when a user is stored, enter, correct and delete by hand, look up a state at a date, make the next partition | written by the listener and the web UI, read by the eligibility checks |
| Web UI (`app/web`) | none | pages and forms over the tables; start processing, an export, a sync, an import | all of the above |

The tables are the only state the parts share: `transaction_for_rebate_criteria`
(a row per transaction received, pending until `processed_at` is set), `rebates`,
the report tables and `export_details`. No statement runs in a transaction with
another, and neither table has a unique constraint besides its serial key. What
keeps processes apart is a convention: a master assigns the rows of one user to
one worker, and one daily run follows another.

What is hard here, therefore: check-then-insert across processes, rows marked
before the work is done, polling that takes an empty table for finished workers,
exceptions that are logged and forgotten, processes that die between two
statements, messages that are delivered twice, exports that fail after the
upload, queries by status that reach the rows of others. `PROJECT.json` lists
these hazards at their lines, with the properties that cover them.

### What makes each part correct

- **Scheduler and transaction processing**: the rows of one user are handled one
  after another; a run that waits for its workers ends; every row is processed,
  once; what is issued is exported.
- **Qualifying strategy**: a transaction earns one rebate; limits hold; a
  rejection is justified; a row marked `RebateCreated` has its rebate; a rebate is
  deserved under terms that were stored and pays what these promise; what the
  ledger says of the transaction's day decides.
- **Rebate export**: a rebate is marked `PendingFulfillment` only after an upload
  and while a file on the server holds it, and is then in both reports; it is not
  sent again; every rebate gets there whatever fails on the way.
- **Fulfillment**: a rebate is fulfilled by a transaction of its account and
  amount, and by another one only of another user of that account; a transaction
  fulfills once; row, rebate and journal agree.
- **Refunds**: only repeated refunds are reported, all of them, once.
- **MOP sync**: a rebate marked as synced is in both totals, once.
- **Transaction import**: what is recorded as complete is whole; what is recorded
  as failed can be repeated; connections are closed.
- **User ledger**: its last word on a user is what the users table has; the state
  of a past day is what was so at its end; partitions are there when a month
  begins; what the database recorded is not lost to an edit; events are handled.
- **Rebate events**: an event tells what the database says, none that says
  *pending* follows one that says *fulfilled*, and each update is told.

## Modules

| Module | Models | Composes |
|---|---|---|
| `TransactionProcessing` | a daily run: listener, master, workers, qualifying strategy as far as it concerns rows and rebates | |
| `RebateDelivery` | what the export promises | |
| `RebateExport` | `perform` of the export | `INSTANCE RebateDelivery` by the refinement mapping `stage` |
| `RebateClaims` | what fulfillment promises | |
| `Fulfillment` | the fulfillment strategy beside an export | `INSTANCE RebateClaims` |
| `MopSync` | `syncTotalsToMOP` beside fulfillments | |
| `Refunds` | the refund strategy and its report | |
| `RewardCalculation` | from the terms of an offer to an amount: operators only | |
| `QualifyingStrategy` | every eligibility check, on offers, users and a ledger that change, over Kafka and by hand | `EXTENDS RewardCalculation` |
| `TransactionImport` | imports side by side, each with its two SFTP connections | |
| `UserLedger` | listener, trigger, web UI and partition job over users and ledger | |
| `RebateEvents` | what exports and processors publish about rebates | |
| `MC*` | the instances for TLC | each its module |
| `*_proofs` | the theorems | each its module; `WebUI_proofs` two, `UserLedger` and `TransactionImport`, for which names of the latter begin with `TI` where both need one |

In all of them **one step is one database statement (or one use of a server or a
file) together with the code up to the next one**. That is where Node yields, so it
is where processes interleave and where an exception or the death of a process
leaves things half done. `pc` names the statement that comes next, the other
processor variables are the fields the object caches, the tables are functions from
rows. An exception is a disjunct of the step that may throw and does what the
surrounding `catch` does; where a function swallows it, the step goes on. A process
that dies loses its own variables and leaves the tables. Definitions have the names
of the functions they model where the language allows it; `PROJECT.json` gives the
lines of each. Beside a definition may stand a variant of it, with the mistake one
might make there (`MarkEveryOffer`, `RemoveOfThatSecond`, `RestartWhereItWas`, ...);
no specification uses these: they are the `mutants` that the properties detect.

How state and actions correspond to the code:

- **TransactionProcessing.** `transactions` and `rebates` are the tables, `hash`
  is md5 of the user modulo the workers, chosen anew with each run as the number
  of workers may change. `StartRun` is fork and `assignWorkerProcesses`, `Step(p)`
  the life of a worker from loading its rows to each statement of the strategy,
  `SeeNonePending` the poll, `MCExport` the export and `process.exit`,
  `Disconnect(p)` the exit of a worker whose master is gone, `StartUnnumbered` and
  `ExportCommand` the commands `T_P` and `MC_E`. The master takes no notice of the
  workers but through the table, as in the code.
- **RebateExport.** The steps from `Start` to `RecordComplete` are the statements
  of `perform`; `Throw` is its `catch`, followed by `ResetRebatesOnError` and
  `RecordFailure`. Files are kept as what the server has under today's name and
  under earlier names; `NextDay` turns one into the other, also in the middle of an
  export. A day may have any number of exports: `Put` replaces the file of the day,
  and `PutInPart` leaves a part of the new one where the connection breaks.
- **Fulfillment.** `Take` is loading a row and the first checks; `Step(p)` goes
  through the validation, `markAsProcessed`, the update of the rebate and the
  journal. `WriteJournal` and `MarkExported` are what the export does meanwhile.
  Each check is an operator of its own (`AccountMismatch`, `StatusMismatch`, ...).
  Users may share an account, and nothing keeps their rows apart; `Rivals` are the
  pairs of transactions of one account by different users. `cutOff` remembers, for
  the properties only, the rows whose last handling a fault cut off.
- **MopSync.** A total is kept as the rebates it was added up from, so that count
  and sum can be compared rebate by rebate. `task` is where a sync is with each
  offer, as offers are handled by `Promise.all`.
- **Refunds.** `Qualify` is what the qualifying strategy contributes; the report
  is written row by row, each inserted and then flagged.
- **QualifyingStrategy.** `FindCriteria` reads the offer and `FindUser` the user,
  and the strategy keeps both; `Targeting` and `Linking` read the ledger;
  `CheckLimit` and `CheckUsed` the rebates. `ReceiveUser` includes the trigger
  `user_ledger_trigger` (`Recorded`), `ReceiveOffer` the filter of the listener and
  the clamp of its serializer (`KafkaOffer`); offers are also entered and deleted by
  hand (`EnterOffer`, `DeleteOffers`), where neither applies. The web pages of the
  clients store, enter, copy and delete entries of any day (`EnterUser`,
  `RecordByHand`, `CopyEntry`, `RemoveEntries`, `DeleteHistory`, `DeleteUsers`,
  `DeleteLedgers`). Where the lookup of `Targeting` or `Linking` throws, the code
  answers *no* and the row is refused for good; `unanswered` has the rows to which
  that happened, `corrected` when the past of a user was last rewritten.
  Time is days, which is what the period of an offer and `getStateAtDate` compare.
- **TransactionImport.** The rows of a file are stored in one transaction, so the
  content of a file stands for its rows. A file that two imports write at once may
  hold anything: `touched` marks those imports, and `EntriesOf` gives them either the
  content they asked for or a torn one. `connected` has the connections of each
  client, opened and closed one after the other; `unclosed` the imports that tried
  to close one and failed.
- **UserLedger.** Time is seconds, and a stamp is a whole second or the
  microseconds within it, for entries by hand have the former and those of the
  trigger the latter. `Saved` is TypeORM's `save`, which writes the columns that
  differ from what its select found. `Fetch`, `AutoCommit`, `Process`, `StoreUser`
  and `StoreFails` are the stream of the listener; `Die` and `Restart` its process;
  a request of the web UI goes through the stages `FindUser`, `WriteUser`,
  `RecordByHand` and so on; `CreateNextMonthsTable` is the monthly job.
- **RebateEvents.** `UpdateExportedRebates` to `FinishPublishing` are the end of an
  export, `Take` to `FinishProcessing` a processor. `Issue` is the issuance, which
  gives nothing to the producer. `queue` is what a publisher has
  accepted and not delivered; `Exit` loses it.

Fulfillment, Refunds, QualifyingStrategy and RebateEvents take from
TransactionProcessing what it proves (`SequentialPerUser`): a row of a user is not
taken while another row of that user is at work.

## Runs

`CHECK_DEADLOCK FALSE` is set where everything may have been done and the system
stops (`fu_fulfillment`, `rf_report`, `qs_eligibility`, `ti_import`, `ul_ledger`,
`ev_events`); elsewhere deadlock is checked.

| Run | Instance | Shows |
|---|---|---|
| `tp_safety` | 2 users, 2 workers, both hashes, 4 messages (one transaction for two offers, one on a second card), 2 rows, limit 1; exceptions, deaths and arrivals anywhere (about 960,000 states) | users are sequential, one rebate per transaction, limits hold, rejections are justified, a processed row is final |
| `tp_liveness` | the same, nothing fails and nothing arrives in a run (about 173,000 states) | a run ends, every row is processed, every rebate exported |
| `tp_late_row` | the same, rows may arrive in a run | **violated**: a run ends |
| `tp_lost_rebate` | the same, nothing fails | **violated**: a row marked `RebateCreated` has its rebate |
| `re_safety` | 2 rebates, 2 exporters that do not overlap, any number of exports a day, 2 faults (about 239,000 states) | what is marked is in a file at that moment, and in the reports; duplicates need a failure each; `RebateDelivery` is implemented; every rebate is marked in the end |
| `fu_fulfillment` | 2 rebates of one account that two users share, 2 processors, 4 fulfillments: one transaction for both rebates, one of the other user for the first, one without a rebate id; an export beside them, 2 faults (about 211,000 states) | a fulfilled rebate has its row, journal and rows follow but for what a fault cut off, `RebateClaims` is implemented, every numbered row is processed |
| `ms_sync` | 2 offers with a rebate each, of which MOP knows one, 2 syncs, 2 faults (about 265,000 states) | only a rebate fulfilled during the sync can be missing, a fault counts a rebate once more at most, every rebate is synced |
| `rf_report` | 7 rows: two qualifying ones and 3 refunds of one client, refunds without a rebate and without an offer; 2 processors, 2 faults (about 249,000 states) | only repeated refunds are reported, all of them, once and once more per fault; reports leave nothing out |
| `qs_eligibility` | 2 transactions of an authorized user with two cards, two terms of one offer, its withdrawal and three entered by hand, one with an amount below zero; 2 user events and a user entered by hand, 2 days, a ledger entry per user and day, entries by hand and one fault, edit or deletion besides (about 208,000 states) | rebates are deserved and paid as promised, the ledger of the transaction's day decides, rows are decided |
| `ti_import` | 2 syncs and an upload, two versions of the file, one malformed, 1 fault (about 581,000 states) | complete is whole, failed can be repeated, connections are closed |
| `ul_ledger` | 2 users, 2 events of which one is anonymous, 2 requests of the web UI one after the other, days of two seconds, months of a day, 1 fault (about 776,000 states) | the ledger follows the users, closed days are true, partitions come in time, recorded entries stay, events are handled |
| `ev_events` | 2 rebates, issued at any time, an export and a processor, 2 faults (about 299,000 states) | events are true, in order, and each update by an export or a fulfillment is told or accounted for as lost |

**The bounds.** `MaxRows`, `MaxFaults`, `MaxFailures`, `MaxDisturbances`,
`MaxEntries`, `MaxFetched`, `MaxRequests`, `LastSecond` and `LastDay` cap what would
grow; `MaxDisturbances` counts faults and changes by hand together, but for entries
of the ledger by hand. Two of each kind is
the least that lets actors collide, and what they can collide over is there: two
rows of one transaction, two clients whose workers are exchanged between runs, two
rebates of one account, an export that failed before the one that succeeds, an edit
beside an event of the same user. One fault shows each single failure in every
place; two show a failure of the recovery, or of the next attempt. In `ul_ledger`
days are so short that an edit, its entry and an event fall before, on and after
the last second of a day, and a month turns with each day; requests of the web UI
follow each other there, with the listener beside them. Counters of rows stop at
two in the export ("more than once"). Not every outcome occurs in an instance: the
messages of `fu_fulfillment` have no unknown client and no wrong amount; no row
of `qs_eligibility` has a card that is neither credit nor debit, and none of its
Kafka events an amount below zero. The theorems below
hold for any messages.

**Fairness, and why the code gives it.** What is awaited returns, so a processor
that has begun gets on (weak fairness of its steps). A daily run is scheduled every
day and loads *every* pending row, so a row that can be taken again and again is
taken (strong fairness of `StartRun`, `FindCriteria`, and of *some* processor taking
a given row). The poll goes on (`SeeNonePending`), a worker exits when its master
has (`Disconnect`), days pass (`NextDay`), an export and a sync are started again
every day (strong fairness of `Start`, as each may find another running). The
listener handles what it has fetched and its process is restarted when it exits
(weak fairness of `ListenerStep`); a connected publisher delivers (`Deliver`).
Nothing is assumed of faults, of arrivals, of automatic commits or of what operators
do by hand, and nothing at all in `Refunds`.

## Findings

Two things the repository says of itself do not hold; each has a run.

- **A late row stops the daily run** (`tp_late_row`). The master waits until no row
  at all is pending (`job_runner.ts:94`), but workers load only the rows assigned
  at the start. One row that Kafka delivers in between, and the run waits for ever,
  without exporting.
- **A rebate is lost at the end of a run** (`tp_lost_rebate`). The row is marked
  before the rebate is inserted (`qualifying_strategy.ts:245`). The master may read
  zero pending rows just then, export, and exit, and takes the worker with it.

What else is fragile is among the hazards of `PROJECT.json`, and the properties say
how far it goes instead of denying it. Three of these things sit badly with a spec
of the repository:

- **The issuance is never told.** `publishing_rebate_events.spec.ts:93-105` waits
  for an event that says `PendingExtraction`, in a `try` whose `catch` only logs;
  `PendingRebateIssuance` sets `dispatchedAt` and gives nothing to the producer.
  `EveryUpdateIsTold` is about what an export or a fulfillment makes of a rebate.
- **A fulfilled rebate may be taken over.** `validating_fulfillments.spec.ts:206`
  has a second fulfillment refused, one after the other. Of two users who share an
  account the rows are handled at the same time, both find the rebate pending, and
  the second replaces the first; both rows are successful. `RebateClaims` allows a
  `Rival` that, and nobody else.
- **A fulfillment without a rebate id** arrives as the text `NaN`, passes the check
  for null, makes the query throw in every run and stays pending
  (`EveryNumberedRowProcessed` leaves it out), where
  `validating_fulfillments.spec.ts:33-52` has a null refused.

Of the rest: two exports that overlap mark each other's rebates, also one that was
in no file (the runs and theorems about the export have one at a time); a file that
a second export of the day replaces may be gone before the bank fetches it
(`MarkedFromAFile` is about the moment of marking); a ledger that cannot be read
refuses the row for good (`unanswered`), and rows decided while the past is
rewritten are decided by what it is in between (`corrected`); a row that a fault cuts
off after its marking has lost its fulfillment (`cutOff`); a rebate fulfilled while a
sync runs is marked and never counted (`late` in `OnlyLateOnesAreMissing`); events
that were queued when a process exits are gone (`lost` in `EveryUpdateIsTold`), and
those of a topic that were committed and not handled (`lost` in
`EveryEventIsHandled`); withdrawn offers that stay stored, shared temporary files
(`touched`), corrections that take entries of other users with them,
rejections that are final though the rebate becomes payable a moment later, rebates
of 0.00, and negative ones, for terms entered by hand (`PaidAsPromised`).

## Theorems

They hold for every value of the constants that satisfies the module's
`ConstantsAssumption` (which says, beyond types, that a transaction id names one
user), and for any number of faults.

| Module | Hypothesis | Theorems |
|---|---|---|
| `TransactionProcessing_proofs` | `T_P` is not started during a run (`"overlap"` is not in `Faults`), but for `TypeCorrect` | `TypeCorrect`, `Invariant`, `Sequential`, `OneRebate`, `LimitRespected`, `Justified`, `Final` |
| `RebateExport_proofs` | exports do not overlap, but for `TypeCorrect` | `TypeCorrect`, `Invariant`, `Uploaded`, `ReportedToo`, `Complete`, `Kept`, `Once`, `Delivers` |
| `Fulfillment_proofs` | none | `TypeCorrect`, `Inductive`, `FulfilledHasItsRowAlways`, `SuccessIsReal`, `Follows`, `Implements` |
| `MopSync_proofs` | none (finitely many syncs) | `TypeCorrect`, `Inductive`, `OnlyLate`, `CountedOnce` |
| `Refunds_proofs` | none | `TypeCorrect`, `OnlyRepeated`, `Once`, `LeavesNothingOut`, `RepeatedAreReported`, `ReportsComplete` |
| `QualifyingStrategy_proofs` | none | `TypeCorrect`, `Deserved`, `Settles`, `Pays` |
| `WebUI_proofs`, of `UserLedger` | none | `TypeCorrect`, `Stays`, `Inductive`, `InTime`, `Follows`, `DaysAreTrue` |
| `WebUI_proofs`, of `TransactionImport` | none | `ImportTypeCorrect`, `ImportInductive`, `ImportWhole`, `ImportRepeatable`, `ImportCloses` |
| `RebateEvents_proofs` | none | `TypeCorrect`, `TrueEvents`, `OrderedEvents` |

The arguments, each by an inductive invariant `IInv`:

- **TransactionProcessing.** No process looks at another, so one rebate per
  transaction rests on who may hold which row. `OwnUsers` says that the rows a
  worker holds, and those it may still load, are of users that the hash of this run
  gives to it; it survives a new hash because no worker has a batch when a run
  starts (`IdleHoldNothing`) and `StartRun` reassigns all pending rows.
  `SequentialPerUser` follows. From it, `ChecksStillHold`: what `TransactionUsed`
  and the limit read is still so when the rebate is inserted, as rebates that could
  change it are of the same user. The invariants about rebates follow in turn.
  `IInv` is needed since none of them is inductive alone: a state with two
  processors past the check satisfies all of them, and the next step does not.
- **RebateExport.** From its select to its update the rebates of a lone exporter
  are exactly those `ExtractionStarted` (`CachedAreStarted`), so an update by
  status moves what was uploaded and reported (`UploadedThenReported`) and nothing
  else. `Delivers` maps a rebate to *issued*, *sent* or *settled* by its status and
  its uploads, and every step to one of `RebateDelivery` or to none. `Kept` adds
  `FilesAreKept`: from its upload to its marks an export has all it uploaded in some
  file, as nobody else puts one; the replacement comes before or after. `Once` adds
  `OnceInv`, which gives each rebate one upload, report and record on credit: what
  the export under way, or the one that marked it, has done; all others need a fault
  each (`Credit`), and with the marks the credit is used up for good.
- **Fulfillment.** Between the validation and the update the rebate is not read
  again. `ChecksStillHold` says that the transaction is still unused, for a row of
  the same transaction is of the same user, who is not handled twice at once
  (`OneUserAtATime`); and that the rebate is still pending or a rival was first
  (`Available`), since whoever else names it and passed the check of the account is
  either of that user or a rival. That suffices for `Implements`. `SuccessIsReal`
  and `Follows` rest on `Accounted`: what a successful row has come to (`RowsTell`),
  that who comes late works for another user than the one who fulfilled the rebate
  first (`LateAreRivals`), so that the row it replaces has a rival in its place, and
  how far the journal is behind (`JournalTells`, `ReportAtHand`).
- **MopSync.** `ReadOrAdded`: every rebate a sync may mark was read by it or added
  by another, unless it was fulfilled after a sync began (`late`).
  `CountedOnce` rests on `WithinFaults`, which charges each sync that may still add
  a rebate as if it had: the first is free, the others are faults, and the free one
  is given back only when the rebate is marked.
- **Refunds.** What was read stays true because the tables only grow (`Grow`), so a
  report decided on two refunds has two refunds. The counting of repeated rows goes
  by faults (`RepeatsNeedFaults`). That nothing is left out needs who is
  responsible: `LeftToReport` is what a processor still has to report, `LeftApart`
  that it is nobody else's, `NothingLeftOut` that together with what is flagged it
  is everything, and `SeenTo` that without a fault two tracked refunds have
  somebody who reports them.
- **QualifyingStrategy.** `CachedPasses`: what each check established of the cached
  offer and user is still established at the next, whatever has replaced them in the
  tables. For `Settles`, the ledger of a day that is over does not change but by a
  correction, which is remembered (`LedgerStillSays`, `UncorrectedSince`), so a
  lookup that is made later gives the same; and a user who was found is gone at the
  lookup only if all were deleted (`FoundUnlessDeleted`). `Pays` adds `AmountIsDue`
  (nobody gets to the insert with an amount of nothing) and lemmas about the
  arithmetic of `RewardCalculation`: the calculation is the promise
  (`CalculationKeepsPromise`: the signs of operand and amount cancel, whatever the
  sign of the promise), rounding leaves the nearest unit (`RoundHalfUpIsNearest`),
  and the export, which rounds up, finds whole points (`WholePointsAreExported`).
- **UserLedger.** The invariants are about users nobody corrected by hand
  (`corrected`). *Partitions*: the job makes the next month's table and no later one
  (`MonthsSoFar`), so whether it was run this month can be read off the tables.
  *Last word*: `LedgerFollowsUsers` is not inductive, because listener and requests
  select, and write at a later step what they found different then. Three facts make
  it so. A save that changes a user records it at the current stamp, after every
  entry there is (`EntriesAreOfThePast`), so it settles the user whatever it had found
  (`SaveHasEffect`). A creation enters first and stores last: until it has stored, it
  is one that *will* write (`WillStore`), as what it found differs from what it is to
  store. An edit stores first and enters last, with the time of the request: by then
  the user is still as the edit stored it, or there is an entry later than the edit's
  will be (`EditsAreOvertaken`), so its entry is true or is not the last.
  *Closed days*: when the last second of a day begins, the last word is the state of
  that day; what is recorded afterwards is later than that second's start, and what is
  entered by hand at or before it is `enrolled`, which the property allows.
- **TransactionImport.** `AboutToSucceed`: whoever is on the way to `succeed` has
  stored its rows; `ParsedWasAsked`: they are those of the file it asked for,
  unless files were shared. `ImportCloses`: an import that is not at work holds no
  connection that it could have closed.
- **RebateEvents.** What may be told of a rebate only grows (`Tells`), so what is
  held, queued or delivered remains true. Order needs one thing more: of a rebate
  that is fulfilled and not `crossed` nothing *pending* is on its way
  (`UnderwayOnlyIfCrossed`).

The inductive invariants were checked by TLC, on the instances of the runs and for
`UserLedger` also with two requests side by side, and for `QualifyingStrategy` with
two disturbances and two entries a day, before they were proved.

**Only model-checked**: the nine liveness properties and the two violations. Every
invariant and every property of steps that a run checks is also a theorem. Liveness
under fairness, `ENABLED`, and induction over data are beyond the prover. No module
declares a `RECURSIVE` operator.

## Not modelled

- **Overlapping daily runs**: one master at a time. Unnumbered processors are, as
  the fault `"overlap"`; the type theorem covers them, the others exclude them.
- **The async variant of processing**: off unless configured
  (`TRANSACTION_PROCESSING_ASYNC`). **`FULL_PROCESS`** does `T_P`, `MC_E` and
  `MOP_SYNC` one after the other; each is modelled, the sequence is not.
- **What follows the export in the master**: its sync is in `MopSync`; in
  `TransactionProcessing` it exits after the export.
- **The web UI**: views, and the search pages with their pagination
  (`routes/search.ts`), which only read; the deletion of transactions and rebates by
  hand, which is for demonstrations and takes away what the other parts rest on.
  Routes that change clients, offers, the ledger and imports, or that start work,
  are modelled.
- **Kafka**: streams, offsets and reconnection are those of a library; what the
  listener makes of them is modelled for users, for transactions and offers a
  message may arrive at any time and any number of times. `rebate_event.ts` and
  `lib/kafka` are not used by the parts above.
- **Records and serializers** that copy fields, configuration, migrations but for
  the trigger and the partitions, the virtual SFTP server and the firehose
  (development aids).
- **Content of files and reports**: columns and formatting, but for the amount in
  an exported row (`Exported`). **Fractions of cents** beyond four decimals of an
  operand.

## Plan

Done, with proofs: `TransactionProcessing`, `RebateExport` and `RebateDelivery`,
`Fulfillment` and `RebateClaims`, `MopSync`, `Refunds`, `QualifyingStrategy` with
`RewardCalculation`, `TransactionImport`, `UserLedger`, `RebateEvents`.

To come, the most important first:

1. A module that composes processing, export and fulfillment over one table of
   rebates, and refines a life cycle of a rebate.
2. Overlapping daily runs, with what the repository can promise of them.

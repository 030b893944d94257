# Formal model of cashflow_backend

TLA+ modules, TLC configurations and TLAPS proofs about this backend: its
accounting core, and the process that serves it. Paths are relative to the repository; `A/` stands for
`src/internal/features/accounting/`, and file names without a directory live there.

## 1. The system

One Go process serves an HTTP API over one PostgreSQL database. All business state
is in the database; a request is a goroutine that reads rows, decides, and writes
rows in one transaction. Nothing is queued, and several processes may run beside
each other, so all coordination is done by PostgreSQL's row locks, unique indexes
and one advisory lock.

| Component | State | Operations | How it meets the others |
|---|---|---|---|
| Draft moves | `account_moves`, `account_move_lines` with `state = 'draft'` | create, update, delete | read by posting, outside its transaction |
| Posting | the same rows, `posted` | post, bulk post | draws a number from the journal, links the last hash, checks the period, writes the audit log |
| Reversal | a second posted move with `reversed_move_id` | reverse | as posting; locks the original |
| Subledger events | `subledger_processed_events` | ingest | inserts and posts a new move under an idempotency key |
| Journals | `sequence_prefix`, `next_number`, `is_active` | create, update | `FOR UPDATE` while a number is drawn |
| Fiscal periods | `open`, `soft_closed`, `hard_closed` | change state | `FOR SHARE` while something is posted |
| Audit log | hash-linked rows | append, verify | advisory lock until the end of the transaction |
| Fiscal years, year close | `fiscal_years`, closing and opening moves | create, close | locks years and periods, posts two system moves |
| Reconciliation | `reconciled_amount` of lines, allocations | reconcile, unreconcile | locks lines, may post an FX move or reverse it |
| FX revaluation | none of its own | revalue | creates a draft |
| Chart of accounts, configuration, mappings | `accounts`, single rows | create, update, list | read by every validation; lines refer to accounts by foreign keys |
| Reports | none | sums over posted lines | read only |
| Server, workers, health, pool, migrations | process state, `schema_migrations` | boot, serve, drain, stop | one database for all replicas |
| Configuration engine | a file, the published configuration | load, reload, save | used by bootstrap |
| Errors, logging | none | | |

What is hard here:

- **validate, then write.** Every use case validates what it read outside the
  transaction; the row may be edited, deleted, posted, its period closed, its
  journal renamed before the transaction runs;
- **legal numbering**: no gaps and no repeats, although postings race and fail;
- **two hash chains**, one per journal and one over the audit log, that must not fork;
- **idempotency** when answers are lost and deliveries run at once;
- **locks** taken in different orders by different transactions;
- **several-step operations** that fail in the middle (bulk posting, boot, saving a file);
- **reports that must agree** although different queries compute them, over a book
  that year close and revaluation write into as well;
- **a process with users of its own resources**: handlers and a worker that hold
  connections while the server drains, times out and closes the pool.

`PROJECT.json` lists each hazard with its line and the properties that watch it.

## 2. The modules

| Module | Models |
|---|---|
| `EntryLines` | lines of an entry: columns, balance rule, rounding of `NUMERIC(28,4)`, mirror |
| `Ledger` | tables and requests of drafts, posting, reversal, ingestion, journals, periods, audit; each database transaction is one action |
| `MCLedger` | instances of `Ledger` for TLC |
| `PostingLocks` | extends `Ledger`; opens the three posting transactions statement by statement under PostgreSQL's lock rules |
| `MCPostingLocks` | instances of `PostingLocks` for TLC |
| `LedgerProofs` | type correctness of `Ledger`; immutability, closed periods, numbering and hash chain; and across the steps of a request: what was saved is posted, balance, four eyes, reversal, keys, audit log |
| `LockProofs` | `PostingLocks` implements `Ledger`; its audit chain and its deadlocks |
| `Reports` | the statements as operators on a book of moves |
| `FiscalYears` | extends `Reports`; years, periods, drafts, revaluation, year close |
| `OpenItems` | abstract: what reconciliation promises |
| `Reconciliation` | reconcile and unreconcile under their line locks; implements `OpenItems` |
| `ReconciliationProofs` | the counters, FX moves, rounding and lock rings of `Reconciliation`, and that it implements `OpenItems` |
| `ChartOfAccounts` | accounts, configuration, a mapping, and transactions that refer to accounts, statement by statement |
| `ConfigEngine` | the layers of the configuration, validation, reload, saving the file |
| `ServerProcess` | boot, migrations, serving, shutdown and crashes of several replicas |
| `ConfigProofs`, `ServerProofs` | type correctness and the safety invariants of the last two |
| `SumTheorems` | laws of sums of integers over finite sets, for the proofs below |
| `FiscalProofs` | the statements of `Reports`, the cash flow among them, and the safety of `FiscalYears` |
| `ChartProofs` | type correctness, the tree of accounts and the used accounts of `ChartOfAccounts` |
| `MCFiscalYears`, `MCReconciliation`, `MCChartOfAccounts`, `MCConfigEngine`, `MCServerProcess` | their instances for TLC |

`Ledger` and `FiscalYears` look at the same tables from two sides. `Ledger` keeps names, numbers, hashes,
users and versions and abstracts a date to its period; `FiscalYears` keeps dates, currencies and amounts
and abstracts numbers and hashes away. Both have drafts, posting and period states with the same guards.

### Ledger

The variables `moves`, `journals`, `periods`, `audit`, `events` are the tables as last
committed. `workers` is what each request holds in memory between two database
calls. `replies` records what callers were told for a key.

| Code | Actions |
|---|---|
| `CreateDraftMoveUseCase`, `UpdateDraftMoveUseCase` | `CreateDraft`, `UpdateDraft` (reads), then `SaveDraft` (the upsert) |
| `DeleteDraftMove` | `DeleteDraft` |
| `BulkPostMovesUseCase`, `PostMoveUseCase` | `BeginPosting`, `ReadHeader`, `ReadLines` (two queries of `getMoveByID` and the checks), `PostMove` (`postMoveAtomic`), and again for the next id |
| `ReverseMoveUseCase` | `BeginReverse`, `ReverseMove` |
| `IngestSubledgerEventUseCase` | `AnswerKnown`; or `BeginIngest`, then `IngestEvent` or `IngestFails`, then `LookUp` when there was an error |
| refused, failed or cancelled request | `Fail` |
| `UpdatePeriodState` | `ChangePeriodState` |
| `CreateJournal`, `UpdateJournal` | `CreateJournal`, `UpdateJournal` |

Abstractions. A date is the period that covers it. Money is counted in halves of
the smallest stored amount, so an odd amount is one that the column rounds. A hash is the
move it signs: `previous` is the move whose hash was mixed in. A name is the pair of
a prefix (its rank in string order) and a number; `NumberBefore` compares padded
decimal strings as PostgreSQL does, with `Base = 10` and `Cap = 100000` for `%05d`.
`updated_at` is a version that every write raises: two writes are taken to have
different times. A deleted row keeps its version, which stands for the fact that a
later row with the same id has a later time. `UpdateJournal` may write any value of `is_active`:
the one asked for, or one read before another update. Accounts are always active
leaf accounts. Two reads of one statement-free check (journal active, period open) of a
draft are one step: nothing depends on their order.

`NullHashLoads` says whether scanning a NULL `hash_signature` works. In the code as
it stands it does not (known disagreements, below), and then no manual draft could ever be
posted; the runs set it to TRUE so that everything behind that point is examined.

### PostingLocks

`tx[w]` is the statement a transaction is at and what it read; `held[w]` its locks;
`logs` the previous-hash links of the audit rows. A statement runs when no other
transaction holds a conflicting lock (the conflict table of PostgreSQL's row locks), takes its
locks, and keeps them until commit or rollback. The foreign keys of the `INSERT`
in `postMoveAtomic` take `FOR KEY SHARE` on journal and period, unique indexes make
a second writer of the same name or key wait. A waiter that upgrades a lock it
shares does not queue behind other waiters, as in PostgreSQL. Transactions that wait in a ring are
found by the deadlock detector, which rolls one back. Short transactions
(`SaveDraft`, `DeleteDraft`, `UpdatePeriodState`, `UpdateJournal`) stay atomic: they wait for the
locks they ask for, and hold nothing a posting waits for while waiting themselves.
The locks of lines on accounts are left out here; `ChartOfAccounts` is about them.

The abstract specification is `Ledger` itself: `ImplementsLedger == Spec` of `Ledger`, under
the identity mapping, since `PostingLocks` shares its variables. All statements before the commit
are stuttering steps of `Ledger`; the commit must be a `Ledger` posting.

### Reports and FiscalYears

`book` is the table of moves with their lines. The lines of a move are a function from the positions it
touches, an account and a currency, to the functional and the foreign amount; debit and credit are the sign.
A date is the number of a month, a period is one month, a year has `Months` of them.

| Code | Definitions |
|---|---|
| `internal/queries.go` | `TrialBalance`, `BalancesAsOf` (with the accounts its `WHERE` drops), `CashMovements`, `Counterparts`, `Activities`, `Unclassified` |
| `usecase_generate_*.go` | `BalanceSheet`, `IncomeStatement`, `CashFlow`, `CashFlowFails` |
| `CreateFiscalYearUseCase` | `CreateFiscalYear`: whole months, unique name, overlaps allowed |
| `ChangePeriodStateUseCase`, `UpdatePeriodState` | `ChangePeriodState` |
| `CreateDraftMoveUseCase` | `CreateDraft` (the checks), then `SaveDraft` (the insert) |
| `RevalueFXUseCase` | `RevalueFX` (positions, rates, lines), then `SaveDraft` |
| `DeleteDraftMove`, `PostMoveAtomic` | `DeleteDraft`, `PostMove` |
| `CloseFiscalYear` (`year_close.go`) | `CloseFiscalYear` with `Closable`, `ClosingLines`, `OpeningLines`, `InsertSystemMove`, `Accepted` |

Year close is one transaction that locks its years and periods first and is one action here. `PeriodsOf` gives all
periods of a date: with overlapping years the query takes any of them.

### OpenItems and Reconciliation

`OpenItems` says what a user is promised: open amounts, matches that take equal amounts off both sides and
never more than is open, and undoing that gives back exactly what was taken. `Reconciliation` has lines, the
counter `reconciled_amount`, reconciliations with their items and the realized-FX moves, and the transactions in flight with the lines they have
locked. The refinement maps `open` to the signed residual of every line and `matches` to the items of the reconciliations in force;
locking, waiting, refusing and being a deadlock victim are stuttering steps.

| Code | Actions |
|---|---|
| `ReconcileMoveLinesUseCase` | `Begin` |
| `ReconcileMoveLines` | `LockLine` for each line in the order of the request (lock, read, check), then `CommitReconcile` (sums, rounding, FX move, counters) |
| `UnreconcileMoveLines` | `BeginUnreconcile`, `LockRec`, `RestoreLine` in the order of line ids, `CommitUnreconcile` (reversal of the FX move) |
| `ReverseMoveAtomic` on an FX move | `ReverseByHand` |
| error, cancellation; deadlock detector | `Refuse`; `Victim` |

What follows the line locks in a transaction (period, journal, audit log) is taken in one order by all of them, so it is one step with
the commit. One account is enough: a request may not mix accounts. Amounts are counted in the units of the columns, and `Functional` rounds as
`decimal.Round` does.

### ChartOfAccounts

A request first reads in its use case, without locks (`CreateAccount`, `UpdateAccount`, `UpdateAccountingConfiguration`, `SaveSubledgerMapping`,
`PostMove`), then its statements run one by one. `UpdateAccount` of `repository.go` is `LockHierarchy` (advisory lock), `CheckHierarchy` (the recursive query),
`LockRow` (`FOR UPDATE`), `CheckHistory`, `WriteAccount`. A transaction that posts refers to its accounts line by line (`InsertLine`), each
reference a `FOR KEY SHARE` lock that conflicts with `FOR UPDATE`, and ends with `CommitMove`. `InsertConfiguration` and `SaveMapping` are single statements.
`posted` remembers which accounts have posted lines and which served as retained earnings account of a year close.

### ConfigEngine

A setting is one of four kinds, which differ in what happens to a malformed value. `Resolve` merges the layers in the order of
`PipelineEngine.Resolve`; `ReadFile` and `Load` are the two halves of a load, between which the file may be replaced;
`CreateTemp`, `WriteTemp`, `SyncTemp`, `Rename`, `FailSave` are the steps of a save. `durable` holds what may be found under the path after a power loss: until the
directory is written back (`Flush`) the old file as well as the new one, and a torn one when the temporary file was not synced.

### ServerProcess

| Code | Actions |
|---|---|
| `App.Bootstrap` | `LoadConfiguration`, `Connect`, `LockSchema`, `BeginMigration`, `EndMigration`, `EndMigrations`, `StartWorkers`, `Wire`; any error: `Fail`, and only the log is closed |
| `Server.Run` | `BindListener`, `MarkReady`, `Drain`, `BeginShutdown`, `EndShutdown`, `StopAll`, `WorkersStopped`, `CloseResources` |
| `App.Run`, `main` | `Exit` |
| `net/http`, `pgxpool` | `Accept`, `Acquire`, `Release`, `Respond` |
| serve goroutine, worker, signals | `ServeFails`, `WorkerReturns`, `Signal` |
| the machine | `Crash` |

golang-migrate marks a version dirty before it runs the file and clean after it; a crash in between leaves it dirty, and every later
start refuses. `pgxpool.Close` waits until each connection is given back, `StopAll` until each worker returned; neither has a bound.

## 3. What is checked

Passing runs:

| Run | Instance | Properties |
|---|---|---|
| `ledger_post` | 2 moves, 2 requests, bulk of 2, 2 users, 1 journal, 1 period, 1 key, a large and a fractional entry, threshold between | `TypeOK`, `PostedBalanced`, `MakerChecker`, `OneMovePerKey`, `GaplessNumbering`, `PostedImmutable`, `PostsWhatWasSaved`, `ClosedPeriodSealed` |
| `ledger_chain` | 3 moves, 2 journals, two prefixes for one of them, 1 request, 1 key | `ChainLinear`, `ReversedOnce`, `AuditComplete` |
| `posting_locks` | 3 moves, 2 requests, 1 journal, 3 transactions | `ImplementsLedger`, `OnlyIngestsDeadlock` |
| `posting_rings` | 2 moves, 2 journals, 2 transactions | `AuditChainUnbroken`, `OnlyIngestsDeadlock` |
| `posting_end` | 2 moves, 2 transactions, fair | `RequestsEnd` |
| `fiscal_years` | 3 years of 2 months, 7 accounts of all types, one of them a contra account, 2 currencies, 2 drafts, rates 1 then 2 | `TypeOK`, `BooksBalance`, `StatementsAgree`, `CashFlowExplained`, `ClosedYearSealed`, `ClosingZeroes` |
| `reconciliation` | an invoice and two payments at other rates, 8 requests, 2 users, 2 reconciliations, fair | `TypeOK`, `ResidualsMatch`, `SettledWithinRounding`, `FxReversedOnce`, `OnlyCrossedDeadlock`, `ImplementsOpenItems`, `RequestsEnd` |
| `chart_of_accounts` | 3 accounts and one to be created, 10 requests, 2 users, fair | `TypeOK`, `TreeListsAll`, `UsedKeepCodeAndType`, `RequestsEnd` |
| `config_engine` | a setting of each kind and a pair with an order, 4 files, 4 environments, 3 argument lists, 2 calls | `TypeOK`, `Precedence`, `FileWhole` |
| `server_process` | 2 replicas, 2 migrations, 2 requests each, 1 crash, fair | `TypeOK`, `ReadyIsAble`, `PoolOutlivesUsers`, `StopsOnSignal` |

Bounds and why they suffice.

- `ledger_post` needs two requests and a row written twice (`MaxVersion = 2`) for every race between
  validation and write: edit, delete and recreate, post, close and reopen, all against one posting. The
  large entry is above `Threshold`, the fractional one balances as sent and not as stored.
- `ledger_chain` needs no concurrency (transactions are atomic in `Ledger`), but a chain of three and a
  second journal to confuse it with. `UpdateJournal` may change the prefix of one journal between any two
  postings to one that sorts before or after it. Three numbers never outgrow the padding of five digits; that case is left to
  the theorem. Bulks of two are in `ledger_post`, where each may fail or be overtaken between its moves.
- `posting_locks` and `posting_rings` need two transactions at a time: every property there is about pairs;
  the third request of `posting_locks` makes the posted move that is then reversed, and the second journal of
  `posting_rings` lets two transactions reach the audit log at the same time. `MaxRequests` bounds the
  transactions begun, `MaxBulk` the ids of a bulk request. The `IdLeft` guard keeps a free identifier for each
  transaction that will insert a row, so that the finite set of ids never blocks one.
- `fiscal_years`: two months are the least with a first and a last period that differ. A year starts in one of its own months, so that
  `Starts = {1, 2, 3, 5}` gives years that begin at 1, 3 and 5, the first two of which can be closed one after the other, and a second year at 2, which overlaps the first
  in month 2 and leaves a gap before the third. Drafts are dated in month 2: the last of the first year, and with the overlap a month of two
  years. The closing and opening entries lie in the months 2 to 5. The entries of
  users are a sale with a deposit in euro, capital, and depreciation on a contra account. Two drafts make a second revaluation or an entry next to an adjustment. Periods are only asked to be
  hard closed: reopening a soft-closed one is examined in `ledger_post`, and no statement looks at the states. Drafts are interchangeable (`Drafting`).
- `reconciliation`: 3 units of currency for 10, paid with 2 for 8 and 1 for 1, so that every partial allocation has to be rounded
  and each settlement has an FX difference; the requests name the lines in both orders, too much for the residual, unequal amounts,
  and the lines of the first FX move and of its reversal. Two workers are enough for a ring of two.
- `chart_of_accounts`: a chain of two, a third account to move them under, and requests that refer to the same accounts in both orders.
- `config_engine`: each environment and each argument list has a malformed or empty value for another kind of setting, and one saved
  configuration violates the order of drain and shutdown durations, so that a load of a file that was saved properly can fail.
- `server_process`: the second replica matters for migrations and their lock, two migrations for a crash between
  them, two requests for one with and one without a connection.

The runs of `FiscalYears` and of `Reconciliation` do not check for deadlock: the first may run out of drafts and years, the second out of
reconciliations, and a system nobody asks anything of is at rest.

Fairness. No client is assumed to do anything: requests may never come, cancellations and signals may never happen, and no handler
is assumed to return by itself.

- `posting_end`: weak fairness of `Progress(w)`, a statement of a running transaction that is not blocked, its refusal, its commit, or
  the detection of a deadlock. The goroutine runs on until it returns, the server executes what is not blocked, and `deadlock_timeout`
  bounds detection. As `MaxRequests` is finite, a waiting transaction is not overtaken forever.
- `reconciliation` and `chart_of_accounts`: requests never run out there, so strong fairness of the statements of a transaction: PostgreSQL
  queues the waiters of a row, and one that could go on again and again is served. In `reconciliation` a deadlock is
  also detected (`WF` of `Victim`), and a transaction that has nothing left to do ends.
- `server_process`: `WF` of the steps of the main goroutine; of the worker's return once it is cancelled (it selects on its
  context); of giving a connection back once its client was cut (its queries are cancelled with the request's context).

Refinement. `ImplementsLedger` (`PostingLocks` implements `Ledger`) and `ImplementsOpenItems`
(`Reconciliation` implements `OpenItems`), both described in section 2.

Violations (what a document or a message of the code says, and the code does not do):

| Run | Property | What happens |
|---|---|---|
| `fiscal_opening` | `OpeningRollsForward` | year close books the balances once more into the next year, and nothing takes them out of the closed one: from its first day on every asset and liability counts twice |
| `chart_retained` | `ClosedIntoEquity` | the type of the retained earnings account is read without a lock and changed by another request before the closing entry refers to it |

Both sides of the balance sheet double, so `BooksBalance` holds all the same.

### Known disagreements

Found while modelling, small enough to state without a run of their own:

- A prefix changed to an earlier one makes `ORDER BY name DESC` (`repository.go:1453`) find an old move: the next one signs that instead of the move posted
  before it, and the chain forks. The padding has the same effect from number 100000 on. `docs/implt.md:118` describes one chain. `ChainLinear` says what
  holds anyway, and `OrderedNamesFormOneChain` where there is one chain; the instance of
  `ledger_chain` reaches such a fork.
- Bulk posting commits move by move and stops at the first error; `docs/fix_errors_implementation_plan.md:182` asks for all or none.
- `scanMove` cannot read a draft whose `hash_signature` is NULL (`repository.go:1229`), which
  `internal/repository_integration_test.go:143` relies on. With `NullHashLoads = FALSE` no draft is ever posted.
- Two journals may share a prefix, and names are unique in the whole table (`000002_create_accounting_schema.up.sql:81`): the second journal can then never post.
- Two ingestions into one journal can deadlock: the insert takes a shared lock on the journal which both then upgrade
  (`repository.go:870`). `OnlyIngestsDeadlock` shows that no other rings exist.
- An account whose normal balance is not the one of its type, such as accumulated depreciation, is added to its section of the balance
  sheet instead of deducted (`usecase_generate_balance_sheet.go:48`), so that the sheet is out by twice what it holds, which is what `BooksBalance`
  says. `docs/accounting_screens_comprehensive_analysis.md:480` promises a sheet that always balances.
- A bootstrap that fails after `NewPool` leaves the pool and its worker open until the process exits (`app.go:68` says they are closed).
- The environment variables of the pool settings are declared in tags that the pipeline does not read (`configuration.go:56`).

## 4. What is proved

For every value of the constants, with TLAPS. `PROJECT.json` lists the theorems with the property each of them states.

**`Ledger`** (`LedgerProofs`). `TypeCorrect`: `TypeOK` is inductive; one lemma per action, and lemmas of their own for records built with
`EXCEPT`. `PostedNeverChanges` and `ClosedPeriodsStaySealed` are the action properties `PostedImmutable` and `ClosedPeriodSealed`:
`StepKinds` sorts every step into three kinds, a posting, a rewrite of a draft, or a bystander that leaves moves alone, so that each
theorem treats three cases instead of twenty actions. `NumberingIsGapless` needs that a posted move's journal exists and that `next` is
at least one there; a posting adds exactly the number `next` and raises it. `HashesFormAChain` (`ChainLinear`) is about every way prefixes may change and
numbers may grow: a move signs, of the moves numbered below it, the one whose name sorts last (`SignsLatest` for the posting itself; a later posting
has a larger number and disturbs nothing, `ChainStep`). `OrderedNamesFormOneChain` says when that is one chain: in a journal whose names sort as
its numbers do, each move signs the one numbered just before it.

**Requests against the ledger** (`LedgerProofs`, second part). A request reads a draft, validates its copy and posts later; the row may have changed
in between. The invariant `Sound` has two parts. `RowsSound` is about the tables: which moves balance, who created them, what reverses what,
which key names which move, what the log must hold. `RequestsSound` is about what a request still knows: as long as the version of the row has
not moved, the copy it holds is the row itself, which is what the version check of the commit turns into a guarantee. From it follow
`PostedAsSaved` (`PostsWhatWasSaved`), `PostedEntriesBalance` (`PostedBalanced`), `LargeMovesSeenTwice` (`MakerChecker`), `ReversalsAreExact`
(`ReversedOnce`), `KeysNameOneMove` (`OneMovePerKey`) and `AuditTellsAll` (`AuditComplete`). None of these is inductive alone: the draft that
is posted was checked by an earlier step, of another user's version perhaps.

**Row locks** (`LockProofs`). `LocksImplementLedger`: with `Ledger`'s variables read off the committed tables, every statement of `PostingLocks` is a
stutter and every commit is the one step of `Ledger` (`ImplementsLedger`), for any number of requests, moves, journals and keys. The invariant
`LocksSound` says of every transaction what it has behind it: the locks of the statements it executed, and that what it then read or checked is
still so. It is stable by the conflict table, since whatever would change it takes a lock that conflicts with one that is held. `LedgerHoldsUnderLocks`
carries the theorems about `Ledger` over to the interleaved transactions. `AuditNeverForks`: each row of the log names the row before it.
`IngestsAloneDeadlock` (`OnlyIngestsDeadlock`): the tables are locked in the order move, journal, name, audit log, key, so that a ring of waiting
transactions needs two locks on one row, which only the ingests' shared lock on a journal, upgraded later, can be.

**The chart** (`ChartProofs`). `TypeCorrect`, `AccountsStayATree` (`TreeListsAll`) and `UsedAccountsStay` (`UsedKeepCodeAndType`) rest on `ChartInv`:
the locks exclude each other, and what a transaction checked stays so while it holds the lock. For the hierarchy, what stays so is that a group of
accounts, closed under "child of", holds the moved account but not its new parent; hanging the account there then leaves no group without a way
out. That the recursive query stops is proved by counting: its set grows in every round, so it closes in as many rounds as there are
accounts (`DescendantsClosed`).

**Sums** (`SumTheorems`). The folds of the community modules add in an order they choose. `LeastSubset` (a family of subsets of a finite set has a
least member, from the library's theorem that strict inclusion is well founded there) gives induction over finite sets for formulas that are
sets (`FiniteInduction`), and with it the laws: the order does not matter (`SumLaws`), and sums add, negate, scale, split, swap, are
renamed and are bounded by their terms (`SumPlus`, `SumMinus`, `SumTimes`, `SumUnion`, `SumWithin`, `SumSwap`, `SumReindex`, `SumNatural`,
`SumOnes`, `SumMagnitude`).

**Statements and year close** (`FiscalProofs`). The invariant `FiscalInv`: every move, also one still in a request, is a set of integer lines that
add up to nothing and lies in a period that exists; the periods of a closed year are hard closed; and only the close of a year leaves a
closing or opening move, so that a close never overwrites one. The entries the system makes are even because they were validated, except
the revaluation, which `RevaluationIs` computes: every difference goes to gain or loss, and these are no revalued accounts. `NetTotal` swaps the sum
over moves with the one over accounts; accounts that the query of the balance sheet drops have no balance (`BalancesAre`). Then:
`YearsAndMovesWellTyped` (`TypeOK`), `SheetsBalance` (`BooksBalance`), `StatementsTellTheSame` (`StatementsAgree`), `ClosedYearsStaySealed`
(`ClosedYearSealed`) and `CloseLeavesNoResult` (`ClosingZeroes`). None of them
assumes anything of the chart: `SheetIs` computes each section with the accounts whose sign is turned the wrong way, so that the sheet is out by
exactly twice what they hold (`SheetDifference`), and a close leaves every section as it was, since it touches only nominal accounts and one
equity account (`CloseTotals`); where a user made that one a contra account, the result changes sides in the total of equity. `SheetsBalanceWithoutContra` is the case that the documents promise.

`CashIsExplained` (`CashFlowExplained`) is exact as well, for any entries users post and for those of the system. A move mixes operations with other things
(`Mixes`) if it is neither of operations (`OfOperations`: what it books besides cash is on operating accounts, none of them equity and none
an adjustment) nor outside of them (`OutsideOperations`: no working capital, income and expenses exactly on the accounts marked as non-cash adjustments, and no
operating account together with cash), or if a cash account is itself income or expense. Sales, purchases and their payments are of the first kind; depreciation,
investments, loans and capital of the second. `DifferenceByMove` takes the difference of a statement apart into what each move leaves (`Left`):
nothing where it does not mix (`NothingLeft`, from `OperationsExplained` and `OutsideExplained`), and otherwise what the statement of that move alone
leaves (`LeftAlone`). Equipment bought together with supplies, or the closing entry of a year, mixes; nothing in the code keeps a user from the first.

**Reconciliation** (`ReconciliationProofs`). The invariant `Inv` has two parts. `TablesKept`: the lines are the first ones and those that the FX
moves and their reversals added; every reconciliation lists posted lines of one currency whose debits equal its credits, its FX move is
what `Realized` says, and it is reversed as often as it should be; `reconciled_amount` of a line is the sum over the reconciliations in
force and at most the line. `WorkersKept`: the locks of different transactions are apart; what a reconcile locked was found in order when it was
locked and still is, because whoever would take more off the line needs its lock (`OthersKept`); an unreconcile with a queue undoes a
reconciliation that is still in force, whose row it has locked. From it follow `ReconciliationWellTyped` (`TypeOK`), `CountersAddUp`
(`ResidualsMatch`), `FxMovesReversedOnce` (`FxReversedOnce`), `DeadlocksAreCrossed` (`OnlyCrossedDeadlock`: if all lock in the order of the ids, whoever
waits for a held line is waited for at a smaller one, so a ring has no greatest wanted line) and `ReconciliationImplementsOpenItems`
(`ImplementsOpenItems`): the commits are the steps of `OpenItems`, a reversal by hand posts a line there, and everything else is a stutter. That
the items of a reconciliation can be listed by line at all (`InOrder`) is `SortedExists`, which counts the items up to a line.
`SettledToRounding` (`SettledWithinRounding`) adds up roundings: what a reconciliation takes off a line is at most half a unit away from its
share (`RoundedBy`), so that a settled line is off by at most half a unit for each of its items (`LineRounding`); FX moves book exactly what their items took
off (`FxIs`), those that were undone cancel with their reversals (`BalanceIs`), and lines in the functional currency take off what they are worth
(`WorthItself`). Swapping the sums over lines and reconciliations gives the bound for the account.

**The server** (`ServerProofs`): `TypeCorrect`, `PoolIsClosedLast` (`PoolOutlivesUsers`) and `ReadyMeansAble` (`ReadyIsAble`), for any number of
replicas, migrations, requests and crashes. The invariant is in two parts. `Sane` is about one replica and says in which phase what may
be open: the properties alone are not inductive, since a step does not know how its phase was reached. The other part
relates replicas to the shared schema: once any replica with a database is past the migrations the schema is `Complete`, and
no step leaves that state, because `BeginMigration` needs a migration that is missing. `ReplicaStep` reduces a step of one replica to the record it leaves.

**The configuration** (`ConfigProofs`): `LayersInOrder` (`Precedence`) is a property of the pipeline alone, proved from what `Merge` does at one setting by
cases on the highest layer that gives a value. `PublishedIsValid` (`TypeOK`) and `FileStaysWhole` (`FileWhole`) need the invariant that a temporary
file is renamed only after it was synced; every file a power loss can bring back was then saved from end to end.

The inductive invariants of `Ledger`, `PostingLocks`, `FiscalYears`, `ChartOfAccounts` and `Reconciliation` held in every state of the runs of these modules before they
were proved.

Assumptions are those named in the modules: accounts, currencies and what a run may create are finite sets, journals and periods are
not empty, prefixes are ranks, the entries clients submit are entries, the configured gain and loss accounts exist and are an income and an
expense account, the chart at first is a tree with unique codes, ids of drafts are not those of system moves, files, environments and arguments are layers
of settings, the null values are not members of the sets they extend.

Only model-checked: the disagreements above, which are counterexamples; and what is out of the prover's reach, liveness and
`ENABLED`: `RequestsEnd` of the waiting transactions, of reconciliation and of the chart, and `StopsOnSignal`. Every other property that a run checks is a
theorem, for every value of the constants that the assumptions of its module allow.

## 5. What is not modelled

- HTTP handlers, DTOs, formats, error codes, logging and redaction: pure functions or I/O. The rules of the DTOs that restrict
  requests are guards or assumptions.
- The general ledger with its running balance, the paged lists, and the choice of a subledger mapping by its filters: queries without effect.
- `WithRetry` and `ExecTx` of the PostgreSQL package: nothing in the program calls them.
- The schema engine of the configuration writes a text, and the individual settings are represented by their four kinds.
- Journals, numbers and hashes of the moves of year close, and the audit entries of year close and reconciliation: the system moves go through the
  same insertion as those of `Ledger`, under locks that `Ledger` models for posting.
- `ClosedPeriodSealed` is about what users post: year close writes its closing entry into a hard-closed period by design, which is what
  `ClosedYearSealed` and `ClosingZeroes` of `FiscalYears` are about. Statements about a date that lies in two overlapping years show the postings of both.
- `ChartOfAccounts` writes an account in one step, while the statement takes its entry in the unique index of codes before its lock on the parent: a
  ring through that index is not modelled; the deadlock detector would end it. `ServerProcess` refuses a connection to a handler from
  the moment its client is cut, although the cancellation reaches it a little later, and does not have further requests on a connection that is
  kept alive after the listener closed.
- A draft that was deleted may come back when an update read it before, a revaluation run twice books its difference twice,
  and of two concurrent updates of a journal the later one undoes the other: the modules allow what the code does, and no
  document says otherwise.

## 6. Plan

1. The general ledger as an operator of `Reports`, compared with the trial balance, and the theorem that they agree.
2. The subledger mappings with their filters, and what `UpdateJournal` loses between its read and its write.

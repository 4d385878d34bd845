# Aspira Pay: verification of the payment system

Aspira Pay is a cross-border payment backend: a Go server over PostgreSQL
(`src/backend-go`), a stand-alone C++ trading engine (`src/engine-cpp`), SQL
migrations and a web front end. This directory holds TLA+ models of its core,
the TLC configurations that check them, and theorems about them that TLAPS
checks. The code is the reference: every definition listed under `map` in
`PROJECT.json` names the lines it stands for.

## 1. The system

| component | state it keeps | operations | interacts with |
|---|---|---|---|
| payment state machine (`domain/payment/model.go`) | `payment_orders.status` | `ValidTransitions`, the guarded `UpdatePaymentStatus` | every writer of an order |
| payment service (`service/payment_svc.go`) | `payment_orders`, `idempotency_keys`, `outbox_events` | `CreatePayment`, `runSaga` (one goroutine per order), `compensateInReverse`, `RefundPayment` | accounts, settlement, chain, FX, risk, webhooks |
| account balances (`repository/account_repo.go`) | `accounts` rows: available, frozen, settled | freeze, unfreeze, debit (out of frozen), credit, create | saga, cards, deposit |
| settlement (`service/settlement_svc.go`) | `ledger_entries`, `settlement_batches` | `SettlePayment` (double-entry journal), batch create and close | saga step 6, reconciliation |
| chain audit (`service/chain_svc.go`) | event buffer in memory; blocks, batches, events, submit log in tables | `RecordPaymentOnChain`, `flushBatch`, `commitBatch`, `VerifyPaymentAudit`; the flush and retry loops are never started | saga step 8, each in its own goroutine |
| FX (`service/fx_svc.go`) | table of rates in memory | rate refresh, `GetQuote`, conversions | payments, cards, transfers |
| risk (`service/risk_svc.go`) | six fields of the one `RiskService` | `AssessPayment` and its eight checks | intake of a payment, reads users and orders |
| users and KYC (`service/user_svc.go`, `service/kyc_svc.go`) | users, profiles, login attempts, wallets | register, login, submit and review a profile, change a status | everything that asks whether a user may act |
| transfers and payment links (`service/transfer_svc.go`) | transfer orders, links with a pay counter | quote, confirm, create, pay, cancel a link | FX, risk |
| cards (`service/card_svc.go`) | cards, authorizations | apply, create, review, freeze, unfreeze, cancel, quote, authorize | FX, accounts (the same rows the sagas use) |
| webhooks | delivery rows | enqueue, attempt, retry; no route registers one | payment service |
| middleware | rate windows | limit, authenticate, recover from panics | every request |
| C++ engine (`src/engine-cpp`) | command ring, event ring, accounts in memory, deduplication cache, log file with snapshots in it | submit, freeze, execute, release, refund, settlement batch, publish, flush, snapshot, stop, restart | threads of its own process; `internal/engine/client.go` speaks its protocol and no service calls it |

The complete list, with what is modelled, partly modelled or left out and why,
is `components` in `PROJECT.json`.

### What is hard in it

* **Interleaving.** Every accepted request starts a goroutine. Each of its
  steps is several SQL statements outside any transaction, so the statements
  of concurrent sagas, compensations and refund handlers interleave on the same
  account and order rows. The decisions (`CanDebit`, `CanTransition`) are taken
  on rows read by earlier statements; only the `WHERE` clauses of the updates
  see the current row.
* **Partial failure.** Any statement may fail; some errors abort the step, some
  are dropped (status updates, all three statements of a refund, the chain
  hand-over, a failing idempotency lookup).
* **Crash.** The saga exists only as a goroutine. `runSaga` has one caller, so a
  restarted server resumes no order.
* **Threads without locks.** The engine's rings are arrays with two atomic
  indices; slot accesses and index stores of different threads interleave. The
  log is appended to by two threads under a lock and flushed by a third without
  it; `stop()` runs beside all of them.
* **Amounts that nobody checks.** An amount of a request is an `int64` of either sign:
  `binding:"required"` (`domain/payment/model.go:136`, `domain/fx/model.go:37`,
  `transport/card_handler.go:97`) refuses 0 and nothing else, `ValidateAmount` has no
  caller, and of the tables only `ledger_entries` has a `CHECK (amount > 0)`. The
  engine adds amount and fee before it looks at either. The models take such
  amounts; which properties are left is said at each of them.
* **Fields shared by requests.** The one `RiskService` keeps the payment it assesses
  in its fields, without a lock, and the table of rates is locked for one read at a time.
* **Rows read before.** Links, cards, profiles and balances are read by one statement
  and decided on by a later one; most updates have no condition.
* **Idempotency.** The key is looked up first and recorded last.
* **Order of compensation.** `compensateInReverse` undoes the completed steps;
  the failed step itself is not among them, although it may have executed part
  of its statements.

Each of these is a line of `hazards` in `PROJECT.json`, with the properties
that would catch it going wrong.

### What makes each component correct

* payments: a status only moves along the state machine; a closed payment has its
  whole journal; every order is decided; a retried request gets its own answer.
* accounts: no balance goes below zero, frozen money belongs to exactly one
  payment, the balances are explained by the statuses of the orders.
* chain: an event that was handed over is in one place and gets into one block;
  blocks form one chain; what is reported submitted is complete; an auditor is told
  exactly what the tables say.
* payment links: a closed link is never open again; nobody pays it who came after
  it was paid, cancelled or expired; counts and answers agree with the orders.
* cards: a card that is not active pays nothing; frozen money is explained by
  payments and authorizations, less what payments have taken; the answer to a merchant agrees with the recorded
  authorization; an issued number detects a wrong digit.
* screening: a payment is assessed by its own data; a quote is computed from
  rates that were offered, exact but for its rounding.
* onboarding: who is told of a registration is active, or was frozen or rejected by
  somebody who was told so; who was refused left no user; what a reviewer was told
  stays true.
* engine: the queue loses and duplicates nothing for its producer; executing
  commands of regular amounts creates no money; the log holds every command that changed the ledger,
  in order, and is on file when `stop()` returns; a request is executed once.

## 2. Modules

| module | models | state and actions |
|---|---|---|
| `PaymentStatus` | the order state machine | `ValidTransitions` is the Go map as a set of pairs, `IsStatusAtOrAfter` the saga's skip test, `UpdatedStatus` the `UPDATE ... WHERE status = ANY(...)`: it changes the row only if the current status may move there |
| `Accounts` | the statements on one `accounts` row | `FreezeFunds`, `UnfreezeFunds`, `DebitAccount`, `CreditAccount` are the new row; `CanDebit` and `HasFrozen` are the guards of the `WHERE` clauses |
| `PaymentSaga` | `CreatePayment`, `runSaga`, the compensations, `RefundPayment`, with `SettlePayment` and the hand-over to the chain | one action per SQL statement, described below |
| `MCPaymentSaga` | instances of `PaymentSaga` and its refinement | accounts of three users and the system accounts in two currencies, and the scenarios (sets of orders) |
| `TransferPromise` | abstract | what a payment promises: accepted, then made at once for sender, receiver and fee account, or refused without trace; decided eventually |
| `PaymentRefinement` | extends `PaymentSaga`, which implements `TransferPromise` | the refinement mapping counts what the saga has not delivered yet as already on its way |
| `PaymentSagaProofs` | theorems of `PaymentSaga` | section 5 |
| `MerkleTree` | the trees of `pkg/crypto/hash.go` | root, proof and verification as operators; a hash is the value hashed, a parent the unordered pair of its children (the code sorts the pair) |
| `ChainAudit` | the chain audit service | the buffer, the flushing goroutines, the four tables; described below |
| `MCChainAudit` | instances of `ChainAudit` | |
| `ChainAuditProofs` | theorems of `ChainAudit` | section 5 |
| `PaymentLinks` | payment links and transfer orders | the three tables and the requests on them; described below |
| `MCPaymentLinks` | instances of `PaymentLinks` | |
| `PaymentLinksProofs` | theorems of `PaymentLinks` | section 5 |
| `Rates` | the arithmetic of exchange rates | pair rate, target amount, conversion and fee, with the rounding of each, of negative amounts too |
| `MachineIntegers` | `int64` of Go, `int64_t` of C++ | their range, and what is left of a number outside of it |
| `CardNumbers` | `pkg/card/luhn.go` | check digit and validation of a number as operators over sequences of digits |
| `Cards` | cards and authorizations | the two card tables, the account rows they share with payments, and the requests on them; described below |
| `MCCards` | instances of `Cards` | |
| `CardsProofs` | theorems of `Cards` | section 5 |
| `Users` | the statuses of users and KYC profiles | the two transition maps and the guards of the updates over them |
| `Screening` | intake of a payment up to its quote | the shared fields of `RiskService`, the table of rates, the requests; described below |
| `MCScreening` | instances of `Screening` | |
| `ScreeningProofs` | theorems of `Screening` | section 5 |
| `Onboarding` | registration, login, KYC | tables of users, wallets, profiles and attempts, and the requests; described below |
| `MCOnboarding` | instances of `Onboarding` | |
| `OnboardingProofs` | theorems of `Onboarding` | section 5 |
| `BoundedQueue` | abstract | a first-in first-out queue of bounded length, emptied when its process ends |
| `CommandQueue` | `CommandQueue.cpp` | slot write and index store of `enqueue`, slot copy and index store of `dequeue` as actions of their own |
| `EventRing` | `EventRingBuffer.h` | the same for the ring of events, whose consumers take batches and leave moved-out slots behind |
| `EngineLedger` | `Ledger.cpp` | each operation as its error check (`Can...`) and its result; sums are checked for overflow, differences wrap |
| `Engine` | `Engine.cpp`, `WAL.cpp`, `main.cpp` | all threads of the process, `stop()`, kill and restart; described below |
| `MCEngine` | instances of `Engine` | accounts and command scripts |
| `EngineProofs` | theorems of `Engine` | section 5 |
| `Sums` | lemmas | induction over finite sets and numbers, the largest number of a set, and how sums over a set change; the proof modules share them |

### How `PaymentSaga` corresponds to the code

* `pc[p]` is the place of payment `p`'s request handler, and after the `go`
  statement of its saga goroutine: the next SQL statement to be issued. `step[p]`
  is the index of the saga step (1..8); while compensating it is the step whose
  `compensate` runs next. `lost` holds the payments whose goroutine died.
* `status`, `idempotency`, `accounts`, `open` (which account rows exist) and
  `ledger` are tables. The ledger is kept per payment as the set of its rows,
  with the account named by its role; a row of a reversal is told apart by its
  sequence number, as its entry id does in the code.
* The intake is `CheckIdempotency`, `Screen` (user, KYC, risk, quote: reads
  whose answer is arbitrary), `CheckSenderBalance`, `CommitOrder` (the one
  transaction in this path: order, outbox row and key, then `go runSaga`).
* One round of the saga's loop is `ReloadOrder` (reload, skip a step already
  passed, compensate if the transition is illegal), the statements of the step's
  `execute`, and `UpdateStatus`, whose error the code ignores. Steps 1, 2, 5 and
  7 have nothing to execute; 3 is freeze, 4 debit/credit, 6 settlement, 8 chain.
* A failing `execute` is `MarkFailed` followed by the compensations of the steps
  before it (`LastCompensable`): `CompensateSettlement` (6), `RefundSender`,
  `UndoReceiver`, `UndoFee` (5), `ReleaseFunds` (3).
* `refund[q]` is what one handler of `RefundPayment` is doing, one action per
  statement. Its errors are ignored exactly where the code ignores them.
* A statement succeeds, or fails without effect (`Fails`). `Crash` ends every
  goroutine and handler.

Abstracted: identifiers, time, amounts to small integers, the quote to its two
results (target amount, fee), the screening to a choice, notifications. An order's
source amount is any number but 0, and its target amount and fee are any numbers:
they round, and those of a negative amount are negative. Sums of amounts are not
cut to 64 bits here; a total that overflows is a negative total to the statements
that follow, and negative totals are in the model.

### How `ChainAudit` corresponds to the code

* It starts where the saga of a payment reaches its last step: `RecordPayment(p)`
  reads the order, then `EnqueueEvent(p)` appends the payment's two events, one
  at a time, under the mutex. `pc[p]` is the place of that goroutine.
* A goroutine that filled the buffer calls `flushBatch` after the unlock
  (`TakeEvents`): it takes everything there is, or finds that another one did.
* `commitBatch` is one action per statement: `GetLatestBlock`,
  `InsertChainBlock` (UNIQUE (block_height) refuses it if another goroutine built
  on the same block), `CreateChainBatch`, `InsertChainEvents` (one transaction),
  `InsertSubmitLog` (error dropped). Any other error leads to `RequeueEvents`.
* A block records the process whose key signed it and whether `created_at` fell
  into a later second than the signature: `VerifyPaymentAudit` checks the
  signature with the key of the running process and with `created_at`.
* Hashes are free of collisions. The ledger root, sequence numbers and times are
  left out; `GetAuditTrail` may read the rows of a payment in any order, which
  `AuditsAreRight` allows for.
* `Start`, `Stop` and hence `batchFlushLoop`, `retryLoop` have no caller, and
  nothing calls `EnqueueRetry`: they are not actions of the model.

### How `PaymentLinks` corresponds to the code

* A request is a process: `pc[r]` is the next statement of its handler or its
  answer (`served`, `refused`, `broken` for the panic, `dead` without an answer),
  `request[r]` what it asks for, and `seen[r]` the local variable `link`.
* `GetPaymentLink` is the `SELECT` with which viewing, paying and cancelling begin
  and the checks on the row it returns; `CheckExpiry` compares the clock with that
  row. `MarkExpired`, `MarkCancelled` and `MarkPaid` are updates by id, whatever the
  status has become. Only the error of cancelling is reported.
* `CreateTransferOrder` reads the balance of the source account, an arbitrary
  answer here, since other components move it, and inserts the order. No money
  moves: the service changes no account.
* `ConfirmTransfer` and `MarkSucceeded` are the transfer of a quote, which ends in
  the panic of `recordContact`. `RecordContact` is the upsert of a payment.
* `max_pay_count` is written and never read, `viewed`, `quoted`, `processing` and
  `failed` are never stored, `ExpirePaymentLinks` has no caller: none of them is in
  the model. `CreateQuote` looks for an account of the user `""`, finds none, and
  stores nothing.

Abstracted: tokens and their hashes (a token names its link), titles,
currencies, times (`past` is the set of links that are too old), the account a
payer names.

### How `Cards` corresponds to the code

* `AuthorizeCardPayment` is one action per statement: `Authorize` looks the card up
  by its token, `SpendQuote` reads it again, `SelectDebitCurrency` reads a balance
  and converts, `CheckBalance` reads the balance, `FreezeForCard` freezes if it is
  still there, `RecordAuthorization` inserts, and `AnswerApproval` or
  `ReleaseFreeze`, `DeclineAuth` end it. `AskQuote` is `SpendQuote` of the API alone.
* `GetCard` and `UpdateCardStatus` are cancelling, freezing and unfreezing: the
  decision is taken on the row read, the update has no condition.
  `ApplyForCard` and `CreateCard` are the count and the insert of an application.
* `PaymentFreezes`, `PaymentReleases`, `PaymentDebits` and `PaymentCredits` are the
  statements payments issue on the same account rows, at most `MaxMoves` of them. A
  release or debit asks only whether so much is frozen: a compensation or refund
  (`payment_svc.go:412`, `:468`) takes from a receiver what an authorization of his
  card has frozen. `held` is what payments froze less what they released or took, so
  it may be negative. The row operations are those of `Accounts`, and both components
  compose on one table.
* `live` is a history variable: the requests whose card was active at some time since
  they came. A request that dies, or whose release fails, between freeze and
  record is `stranded`. `mishaps` counts failing statements and deaths of the service
  together.

Abstracted: tokens, masked numbers, merchants, expiry (never looked at), the
holder's name. Ids never collide. Prices and the amounts of payments may be negative:
the service compares a price with an upper limit only (`card_svc.go:217`). Amounts are
not cut to 64 bits here.

### How `Screening` corresponds to the code

* `GetSender`, `GetProfile` and `GetReceiver` are the reads of `CreatePayment`;
  `StoreContext` is six assignments to the fields of the one `RiskService`, an
  action each; `ReceiverStored` and `FetchReceiver` fetch a receiver if the field
  is nil now.
* Each check of `risk_svc.go` is an action that reads the fields again, two where it
  reads a field twice (`CheckReceiverFrozen` tests for nil, `ReadReceiverStatus` uses
  it and may panic, which is `broken`). `Judge` adds points, or rejects at once for
  the rules in `BlockingRules`. `Decide` compares with the two thresholds.
* `ReadSourceRate`, `ReadTargetRate` and `GetQuote` take the lock of the rates once
  each; `FetchLiveRates` replaces the table in between.
* Amounts are `int64` of either sign, with `MaxInt` for the largest. Those computed by
  `math/big` are cut to it at the end, the daily sum and the product with the basis
  points wrap on the way. The target amount rounds a negative amount down
  (`big.Int.Div`), the fee towards zero (the `/` of Go), so they are two operators.
* `disturbed` is a history variable: the assessments into which another request has
  stored. `offered` and `books` remember the rates there were, and what the
  sender's totals were when the checks asked.
* `UpdateUser`, `UpdateProfile`, `FailOrder` are the other components at work.

Abstracted: the balance check and the commit to `PlaceOrder`, which may refuse
(they are in `PaymentSaga`); a string of two letters, which a torn read leaves
whole; unsupported currencies; expired profiles, which nothing makes. The read
and the store of `FetchReceiver` are one action, and `LookupReceiver` is one: its
own test and use of nil need three requests to go wrong. The paths for a nil
sender cannot be reached from `CreatePayment`. A restart, which empties the
fields, is left out.

### How `Onboarding` corresponds to the code

* A registration is `Register`, `CheckEmail`, `CreateUser`, three times
  `EnsureWalletAccount`, `CountProfiles`, `EnsureKYCApproved` and `ActivateUser`.
  The errors of all but `CreateUser` and `ActivateUser` are dropped, and a lookup that
  fails has found nobody; the unique columns refuse in `CreateUser`. The answer says
  `ACTIVE` whether or not `ActivateUser` found a user it may move (`user_svc.go:80`), so a
  user rejected in between is told that he is active. What is true, and what
  `RegistrationsAreHonest` says, is that then somebody was told of the rejection
  or freeze (`WasToldOf`).
* `Login`, `RecordLoginAttempt` and `CountFailedLogins` are a login; the three paths
  (nobody, wrong, right) differ in their order.
* `SubmitKYC`, `CheckExisting`, `CreateKYCProfile`, `SendToReview` are a submission;
  `ReviewKYC`, `DecideKYC`, `DecideUser`, `UpdateKYCRiskLevel`, `UpdateUserRiskLevel` a
  review. A user may have several profiles: a read returns any of them, an update
  moves all that may move.
* `UpdateUserStatus` takes the number of rows from a result that is nil when the
  statement failed: a panic, `broken`.
* `mishaps` counts failing statements and deaths of the service together.

Abstracted: passwords to right or wrong, tokens, administrator keys to the three
kinds `IsAdmin` tells apart, the wallet's balance to how often it was given, names
and addresses of documents. `SetPIN` is one statement nothing here reads.

### How `Engine` corresponds to the code

* `core` is the core thread: its place, what is left of its batch, and where
  `emit_event` returns to. `dequeue_batch` is `TakeCommand` and `AddToBatch` for
  each command, ended by `EndBatch`, which is also the only place besides
  `BatchDone` where the thread looks at `running_`.
* A handler's first ledger operation is in `StartCommand`; the further ones of
  `handle_execute` (`CreditReceiver`, `UndoDebit`, `CreditFee`), the log record
  (`LogCommand`), each event (`EmitEvent`, `PostEvent`) and the entry in the
  deduplication cache (`RecordResult`) are steps of their own, between which the
  other threads run.
* Amounts are `int64_t` of either sign: nothing looks at them before the handlers do,
  and `Total` (source and fee) wraps. `handle_freeze` alone tests for an overflow, with
  a comparison that presupposes what a signed overflow leaves undefined:
  `OverflowChecks` has its value as written and as a compiler may simplify it. `Regular`
  is what balances and money need of a command; the engine trusts its callers for it.
* A command whose request id hashes to 0 passes the deduplication cache by (`Cached`).
* `ended` are the threads that have left their loops. Each looks at `running_` before it
  sleeps and acts afterwards, so it acts once more after `stop()` was called.
* `Submit` is `submit` or `submit_fast`: the check of `running_`, the sequence
  number, which is used up even if the queue is full, and the slot write;
  `FinishSubmit` is the index store.
* The log is one sequence; its first `flushed` records are in the file.
  `write_entry` appends and flushes when a batch is full. `flush()` of the WAL
  thread is two actions, since it takes no lock.
* `take_snapshot` is three actions (read the sequence number, copy the ledger,
  append), run by the snapshot thread and by `stop()`.
* `Stop`, `FinalSnapshot`, `DrainEvents` and `FinishStop` are `stop()`, in the
  order of the source, on the main thread.
* `Restart` is a kill at any point, or the end after `stop()`, and the next start:
  any number of records beyond `flushed` may have reached the file. `read_all`
  finds nothing in a stream opened to append, so the process starts from the
  registered balances.

Abstracted: identifiers and their hashes (an account id is its hash), times,
versions, statistics, metrics, record checksums. Capacities need not be powers
of two. An event is its number. Loads and stores of the atomic indices take
effect in program order, which their acquire and release orders guarantee for
one producer and one consumer. The index store of `dequeue_batch` and the calls
of the callbacks are one action. The signal handler runs on the main thread. The
destructor's second `stop()`, which finds all threads joined, is left out.

## 3. Runs

| run | instance | shows |
|---|---|---|
| `SagaRace` | three payments: two that one sender cannot both afford, one that spends what another brings, one receiver without an account; amounts are positive; no failures | `FrozenBacked`, `BooksAgree`, `SagaTerminates` and `ImplementsPromise` |
| `SagaFaults` | two payments in opposite directions, one refund handler, any two statements failing, one crash | `TypeOK`, `ClosedMeansSettled`, `StatusFollowsLifecycle` on every error path |
| `SagaCrash` | a request, its retry and another body, of a negative amount, under the same key, a refund handler, one crash | `SenderNeverGains`, `AnswerStands` |
| `ChainBatches` | three payments around a buffer of two events, one misfortune (a failing or late statement), one restart | `TypeOK`, `EventsConserved`, `ChainLinked`, `SubmittedIsComplete`, `AuditsAreRight` |
| `LinkRaces` | three requests of two users around two links and a quote, one failing statement, one restart | `TypeOK`, `PayersSawPayableLink`, `OneOrderPerPayer`, `PaidCountFollowsOrders`, `AnswersTellOrders`, `LinkClosesForGood` |
| `CardRaces` | two requests, one card, two owners, three currencies of which one has no rate, a purchase of a negative amount, two statements of payments on one of the accounts, one mishap (a failing statement or a restart) | `TypeOK`, `FreezesAreExplained`, `AnswersTellAuthorizations`, `InactiveCardPaysNothing`, `WrongDigitIsRefused` |
| `ScreeningRaces` | two payments out of four kinds, one of a negative amount and one whose fee overflows, three members (one not registered), one failing statement or one change of users, profiles, rates or orders | `TypeOK`, `LoneAssessmentIsRight`, `QuotesAreFair` |
| `OnboardingRaces` | three requests, three ids of users of which two begin alike, three names and addresses of which two people share one each, one mishap | `TypeOK`, `RegistrationsAreHonest`, `ReviewsStand` |
| `EngineThreads` | one producer with one of ten scripts of up to three commands, rings of two slots, events published in batches of two, a cache of one request, a log batch of two, up to two processes | `TypeOK`, `CommandsInOrder` (the command ring implements `BoundedQueue`), `EventsInOrder`, `LogRebuildsLedger`, `NoMoneyCreated`, `ExecutedOnce`, `StoppedIsDurable`, `CommandsGetTaken`, `StopCompletes` |
| `ClaimRefundOnce` | one payment, two refund handlers | violation of `SenderNeverGains`, section 4 |
| `ClaimRestore` | the engine with a restart | violation of `RestoresSnapshot`, section 4 |
| `ClaimAssessAtomic` | two payments screened at once, nothing else happening | violation of `AssessmentIsAtomic`, section 4 |

Bounds. Two payments are enough for every race on one row, three for a payment
that depends on the outcome of a race; the amounts are chosen so that money runs
out. Two failing statements reach a failure inside a compensation. Every
counter is bounded by a constant (`MaxFaults`, `MaxCrashes`, `MaxEvents`,
`MaxMishaps`, `MaxMoves`, `MaxSequence`); nothing else grows. For the chain, three goroutines
with six events and a buffer of two give batches of two, three and more events (so
odd trees too), two goroutines that build on one block while the third refills the
buffer, and batches put back and flushed again. Deadlock is not checked: when all
requests are answered the system rests.

For links, three requests are two payers and one who cancels, views or repeats; the
second link tells whether anything leaks from one to the other.

For cards, two authorizations can overspend one account together, or one of them
meets a cancellation, a freeze or an unfreeze at any of its statements. The
amounts are such that the account affords one purchase and not two, that one
price is beyond the limit of a transaction (3), that one is negative, and that the fee
(1) decides. Two statements of payments are a payment's freeze and what ends it, or a
credit, or a debit that takes what a card froze; the account in euros is left to the
cards (2.3 million states). The rates
{2, 3} at a precision of 2 round in both directions. The card numbers have four
digits, so that both weights occur before the check digit; `NumbersDetectErrors` is
evaluated over all of them.

For screening, the four payments reach each limit by themselves and together with
what the sender has sent: amounts above and below each single limit, a
restricted country, a receiver who is not there, a sender one payment short of
"frequent". The negative amount goes to the missing receiver and the payment within one
currency to the restricted country, so both are quoted only when the other payment has
disturbed their assessment, which it does in many states. `MaxInt` is small enough for the product of the largest
amount and the basis points to overflow, and for nothing else to. A precision of 3
with the rates {2, 7} leaves a remainder in every division. The assessment of one
payment has some twenty steps and those of two interleave freely (2.3 million states).

For onboarding, three requests are two registrations that race for a name, an address
or a wallet id beside a third request, or two reviewers and a submission.

For the engine, rings of two slots have an order to keep and are both full and
empty in runs of three commands, which wrap their indices around; the publisher takes
one event or two. A cache of one entry evicts at every second request. The scripts
contain duplicates behind their originals, commands without a request id, an execution
whose receiver is at the limit, one whose fee account is, amounts whose sum
overflows, negative ones, and every command type. `Plans`
also bounds which background threads wake up in an instance: the publisher alone and with
the log thread, the log thread alone and across a restart, the snapshot thread alone. All sequence numbers end at `MaxSequence`; a
command that brings its own number does not use one.

Symmetry is used for requests (payments in `ChainBatches`, cards in `CardRaces`),
in runs that check safety properties only; no definition tells them apart.

Fairness (`FairSpec`). A goroutine with a statement to issue eventually issues
it: the Go scheduler is fair to runnable goroutines and a statement has no
precondition other than the program's own control flow. Sending a request, asking
for a refund, failing and crashing are not fair. Liveness and the refinement are
checked where no statement fails: with failures an order may stay undecided for
ever (section 4). In the engine every thread that has started is scheduled; each
of its loops sleeps and looks again. Submitting, stopping and dying are not fair.

## 4. Where the code and its documents disagree

Checked by violation runs:

* `ClaimRefundOnce`: two concurrent refunds both pay the sender, since the result of
  the guarded status update is ignored
  (`src/docs/aspira_pay_cross_border_payment_clearing_architecture.md:1657`).
* `ClaimRestore`: no start of the engine ever restores anything, since the log is
  opened in a mode that cannot be read.
* `ClaimAssessAtomic`: an assessment decides about the receiver, amount or countries
  of another payment, which replaced them in the shared fields. The design notes
  (`src/docs/development-issues.md:398`) concede that the scheme "is still not completely
  safe for concurrency (if a single `RiskService` instance is shared by several
  goroutines)", and then call one call of `AssessPayment` atomic nevertheless.
  `cmd/server/main.go:81` makes one instance for all requests, which is the conceded
  case.

Met while modelling, visible in the model and not a run of their own.

Payments:

* Two concurrent requests with one idempotency key both charge: the key is looked
  up first and inserted with the order, where `ON CONFLICT DO NOTHING` lets the second
  one pass (`src/docs/aspira_pay_cross_border_payment_clearing_architecture.md:1655`
  says that a repeated request does not charge again).
* Two payments that create the same receiver account at once leave one sender
  debited and failed.
* A payment whose fee or target amount rounds to zero is refused by
  `CHECK (amount > 0)` after the receiver was credited; its compensation pays
  the sender back and debits the receiver's frozen balance, which holds nothing.
  `RefundPayment` debits the same way. In both cases money appears.
* Migration 002 fails to insert the system accounts (two rows per
  `(user_id, currency)`); without them no payment gets past settlement. The
  instances create them.
* Nothing refuses a payment of a negative amount before settlement, whose
  `CHECK (amount > 0)` does. By then the sender of a negative total has been given it,
  and the receiver's balance has gone down, below zero if need be: no `WHERE` clause
  stops a negative amount. The compensation takes it from the sender again, who may have
  spent it, and gives the receiver and the fee account theirs back as frozen money.
  `NonNegative` and `SenderNeverGains` say so: they protect the accounts no such order
  names (`Regular`, `OnlySends`).
* A release, a refund or a compensation takes an amount out of `frozen` whoever froze it:
  of another payment, or of an authorization of the receiver's card.
* Even one refund handler pays twice if its status update fails and it is asked again.
* `RefundPayment` posts no reversed ledger entries.
* One failing load or status update leaves an order in the middle of its saga
  for ever, and a crash leaves its money frozen.
* The error of the chain hand-over is dropped and the payment is closed.

Links and transfers:

* Two payers who read a link before either of them is counted both pay it, although
  a link is for one payment; a payment that overtakes a cancellation leaves the
  link paid, and a cancellation that overtakes a payment leaves it cancelled.
* `ConfirmTransfer` always panics after it has marked its order succeeded.
* `UpdatePaymentLinkStatus` and `UpdateTransferStatus` use one parameter both for a
  `VARCHAR` column and in a comparison of literals, for which PostgreSQL may not
  find one type; the model leaves open whether the statement succeeds.

Chain:

* No batch is made "when 1000 ms has passed"
  (`src/docs/aspira_pay_blockchain_layer_optimization.md:382`): the loop that would
  is never started, so fewer than a full buffer of events never reach the chain.
* The audit trail of an honest payment is reported unverified when its two events
  land in blocks that are not neighbours, or are read out of order.
* A commit that fails after its block was inserted leaves a block without events
  and without a batch row; its events are committed again in a later block.
* An honest event fails verification when it is the only one of its batch (empty
  proof), after a restart (new key), or when its block's `created_at` is in
  another second than its signature.

Cards:

* `LuhnCheckDigit` does not double the digit beside the check digit, which Luhn's
  algorithm does (`src/docs/aspira_pay_card_payment_subsystem_design.md:401`): its numbers
  detect a wrong digit, but fail validation elsewhere.
* A cancelled card becomes active again by `UnfreezeCard`, which asks nothing, while
  `ValidCardTransitions` makes cancelled a last status.
* The limit of five cards is counted before the insert, and `/cards/virtual` does not
  count. `calculateFee`'s percentage is never added to a debit. `DailyLimit` and
  `MonthlyLimit` are stored and never read.
* Nothing ever captures or releases an authorization: its freeze stays.
* A request that dies between freeze and record leaves money frozen that no row
  explains.
* A purchase of a negative price is approved, and makes money available; if it cannot be
  recorded, its release takes that money whether or not it is still there. Only for
  prices that are not negative does a debit cover the fee.
* `ReviewCardApplication` uses one parameter with two types, for which PostgreSQL may
  refuse it; the model lets it succeed.

Screening and quotes:

* Exceeding the daily limit (30 points) or the limit of one payment (40) blocks
  nothing by itself, and `MANUAL_REVIEW` is only logged: the payment goes on.
* A total that cannot be read skips its rule. Everybody counts as a new user.
* The fee multiplies cents and basis points as `int64` (`fx_svc.go:115`): beyond a
  hundredth of the largest number it is anything. A negative amount passes every limit,
  and its fee is negative.
* A receiver field set to nil by another request between its test and its use is a
  panic.

Users and KYC:

* No statement sets `locked_until`: five wrong passwords lock nobody out
  (`user_svc.go:88`).
* `IsAdmin` panics on an administrator key of one to six characters.
* A registration activates its user although the profile could not be inserted. A
  registration, or an approval, un-freezes a user frozen while it ran.
* A user rejected while his registration runs is answered that he is `ACTIVE`
  (`user_svc.go:80`): that the update found no row it may move is no error.
* A wallet's id is made from the first eight characters of the user's; two users who
  share them leave one without a wallet.
* Reviewing the profile of an active user moves the profile and then answers with
  an error.
* `UpdateUserStatus` panics when its statement fails.

Engine:

* Two producers overwrite each other's command although the header calls the queue
  safe for several (`CommandQueue.h:20`): both load the same write index, both write its
  slot, and both return true. With `Producers = {p1, p2}` in `EngineThreads.cfg` TLC
  finds `CommandsInOrder` violated after seven states. No code of the repository but the
  tests submits commands, from one thread; the run has the one producer with which the
  queue keeps its promise.
* Commands of negative amounts, or whose amount and fee overflow, pass `handle_execute`,
  `handle_release` and `handle_refund`: balances become negative and money appears.
* `stop()` takes its "final snapshot" before the core thread has ended, or not at
  all when no sequence number was handed out since the last one; commands still
  queued are dropped although `submit` returned true; it drains the event ring
  while the publisher is still consuming it.
* A dropped event is not "still in WAL" (`Engine.cpp:376`): only commands and
  snapshots are logged, and a rejected command is not.
* The compensation of a failed execution is not logged, and makes available what
  was frozen before.
* The fee account the engine credits (`sys_fee_income_USD`, hashed) is not the
  one `main` registers (`sys_fee_income_usd`, 9001).

## 5. Proofs

Every safety property and action property that a run checks is also the subject
of a theorem; section "What is only model-checked" below names the rest.

`PaymentSagaProofs` proves, for every set of payments, orders, accounts, keys
and refund handlers and every bound on failures and crashes:

* `TypeCorrect`: `Spec => []TypeOK`
* `BalancesNonNegative`: `Spec => []NonNegative`, no balance is below zero
* `ClosedIsSettled`: `Spec => []ClosedMeansSettled`
* `AnswersStand`: `Spec => []AnswerStands`
* `AnchoredIsSettled`: `Spec => []AnchoredMeansSettled`, what reached the chain is settled
* `LifecycleFollowed`: `Spec => StatusFollowsLifecycle`

and, under the hypotheses explained below,

* `FrozenIsBacked`: `Settleable` gives `Spec /\ []Undisturbed => []FrozenBacked`
* `BooksAlwaysAgree`: `Settleable` gives `Spec /\ []Undisturbed => []BooksAgree`
* `SagaKeepsPromise`: `Settleable` gives `Spec /\ []Undisturbed =>` the initial
  condition and the steps of `TransferPromise` under the mapping of `PaymentRefinement`
* `CalmIsUndisturbed`: `Calm` gives `Spec => []Undisturbed`, hence
  `CalmPaymentsAddUp`, the three before for `Spec` alone
* `SendersNeverGain`: `Spec /\ []RefundsAlone => []SenderNeverGains`
* `OneRefunderIsAlone`: `OneRefunder` gives `Spec => []RefundsAlone`, hence
  `OneRefunderPaysOnce`, which is `SenderNeverGains` for `Spec` alone

Assumptions: `OrderAssumption` (amounts are integers, and the source amount is not 0,
which is all the request binding demands), `AccountAssumption` (system accounts exist as identifiers, balances start
non-negative), `BoundAssumption` (bounds are naturals, `NoPayment` is neither a
payment nor a status). Orders of negative amounts are among those the theorems
quantify over. `NonNegative` is about the accounts that no order of a negative total,
target or fee names (`Regular`), and `SenderNeverGains` about those of them that receive
nothing (`OnlySends`); the orders of the other accounts may be what they like.

Argument. None of these is inductive alone: whether the journal exists depends
on the place of the goroutine, and the place on the step and the status read
there. `IInv` adds `OrderStage` (an order row exists exactly from the commit on),
`StepStage` (each label occurs at its step only, and a forward-moving order has a
main-flow status no further than its step), `JournalStage` (empty before
step 6, complete after it, reversed at most once, complete and untouched once
closed), `KeyStage` (a key names an order made with that key) and `RefundStage`.
The proof is split in two halves: `NextKeepsAccountsSound` for the rows
(each `WHERE` clause keeps a row non-negative) and `NextKeepsControl` for the
rest, in which `LocalStep` collects what any statement of a single payment does
so that the frame argument is made once. `LifecycleFollowed` is an action property
proved from the same invariant and the guard of `UpdatedStatus`;
`AnchoredIsSettled` adds `AnchorStage` (an anchored payment is at its last
update or done).

Hypotheses. Section 4 lists how the code makes money disappear or appear; the
theorems about sums say what is true apart from that. `Undisturbed` is a predicate of
states: no statement has failed so far (`faults = 0`), no refund handler is at
work, and nobody is about to create an account that exists by now. `Settleable` is
about the constants: no amount of an order is negative or rounds down to zero, and the system
accounts its journal names exist. The process may die anywhere, any number of
times. Each condition is needed, by `FrozenBacked` as well as by `BooksAgree`:
TLC finds a counterexample to each of the two on instances of two or three
payments as soon as one condition is given up. Behind most of them is that
`executeRelease` and the debits of a compensation or a refund take an amount out of
`frozen`, whoever froze it; the others are releases that fail and are not repeated.
`Calm` (no failures, no refund handlers, receivers with two payments have an account from the start) is one way to guarantee `Undisturbed`; the instance of
`SagaRace` satisfies `Undisturbed` too, since the two payments to Carol exclude each other.
`RefundsAlone` says that no order is in the hands of two refund handlers and that
none pays before the order is marked; without the first condition `ClaimRefundOnce`
is the counterexample, without the second one failing update of the status is.
`OneRefunder` (one handler, no failures) guarantees both. Failures elsewhere do not
matter to `SendersNeverGain`.

Argument of the sums. `CleanInv` adds to `IInv` that only finitely many payments have
started (a sum over an infinite set has no meaning), that a saga fails at the
freeze or not at all (`CleanStage`), and `FrozenBacked` itself; each statement changes
one summand (`SumChange`, `SumWith`, `SumRemove` of `Sums`), and the `WHERE` clause of a
debit or release is then always met. `SagaKeepsPromise` splits over the same cases:
the debit of the sender is the promised transfer, the end of a failed saga the
refusal, everything else stutters. `BooksAgree` follows from the promise
(`MadeExplains`) and what a quiet state looks like. `SendersNeverGain` is made
inductive by `OwedInv`: what an account has, plus the amounts of its payments for
which a compensation or refund can still pay (`Owing`), is at most what it had.

`ChainAuditProofs` proves, for every set of payments, every size of the buffer
and every bound on misfortunes and restarts:

* `TypeCorrect`: `Spec => []TypeOK`
* `ChainNeverForks`: `Spec => []ChainLinked`
* `EventsAreConserved`: `Spec => []EventsConserved`
* `SubmissionsAreComplete`: `Spec => []SubmittedIsComplete`
* `ProofsVerify`: for every number of leaves, `VerifyMerkleProof` accepts what
  `MerkleProof` collects for a leaf against what `MerkleRoot` computes
* `AuditorsAreToldRight`: `Spec => []AuditsAreRight`

Assumption: `ChainAssumption` (the bounds are naturals). `ChainLinked` is made
inductive by `ChainInv`: the heights in use are exactly `0..n` and every
goroutine builds on a block of the chain, so a free height above it can only be
`n + 1`. `EventsConserved` is made inductive by `Typed`, by `OneLeft` (a goroutine
about to hand over an event has one left) and by `NothingEarly` (nothing is
anywhere before it was handed over), so that an appended event is new everywhere.
Each kind of step has a lemma: events stay in place, enter the buffer, move into
hands, into rows, or back, or are lost in a crash. `SubmittedIsComplete` counts rows: `SubmitInv`
says which goroutine has its block, its batch row and all its rows, and
`OneRowEach` counts the inserted rows by a bijection with the events of the batch,
none of which is in it twice.

`ProofsVerify` is about recursive functions (`Levels`, `Depth`, `Ancestor` of
`MerkleTree`), which TLA+ defines with CHOOSE: that they exist and satisfy their
equations is proved first, by taking the smallest counterexample (`SmallestNumber`).
On each level the node above a leaf and the sibling collected for it have the
node of the next level as their parent, the odd node at the end being its own
sibling. `AuditInv` then says that each row's block is the root of a tree with the
row's event as a leaf (`Rooted`), that a goroutine past its block has such a block
(`HasRoot`), and that a batch has one block (`OneBlockEach`), so that a hash names its
block (`Sealed`). The trail is a fold; `TrailOfTwo` computes it for two rows, and
`TrailVerifies` compares it with the heights of the blocks.

`EngineProofs` proves, for every set of commands, every capacity, batch size,
cache size, plan and bound:

* `EngineTypeOK`: `Spec => []TypeOK`, in particular that no balance is negative while
  only regular commands have been taken
* `EngineStopIsDurable`: `Spec => []StoppedIsDurable`
* `EngineQueueIsFIFO`: with one producer, `Spec => CommandsInOrder`, that is,
  the engine implements `BoundedQueue`
* `EngineEventsInOrder`: `Spec => []EventsInOrder`
* `EngineExecutesOnce`: `Spec => []ExecutedOnce`, for requests of a hash other than 0
* `EngineLogRebuilds`: `Spec => []LogRebuildsLedger`
* `EngineMakesNoMoney`: `Spec => []NoMoneyCreated`, while only regular commands have
  been taken

Assumptions: `QueueAssumption`, `RingAssumption` and `EngineAssumption` (sizes are
positive), `WidthAssumption` (`MaxInt` is a natural) and `AmountAssumption` (every
amount is an `int64`, of either sign). A command is regular (`Regular`) if no amount is
negative and the source amount plus the fee is at most `MaxInt`. Nothing enforces this,
so the two theorems have it as a hypothesis on the commands taken so far
(`OnlyRegular`) and not as an assumption on the constants; the others hold whatever is
submitted. `QueueInv` says what lies in the slots: the accepted commands not
yet taken between the indices, the one being written behind them, the one at
hand in front. It needs that fewer than `Capacity` consecutive indices have
different slots (`SlotsDiffer`) and, in `WriteSlot` and `CommitWrite`, that nobody
else is writing: with a second producer it fails exactly there. `RingInv` is
its counterpart for the event ring, in which up to a batch may be in the
publisher's hands; while the engine runs, `StopInv` keeps the main thread away from
the ring. `StopInv` is also what makes `StoppedIsDurable` inductive: past the
joins no thread that appends is left. `CoreOK` ties the core thread's place to
having a command, and a lemma per ledger operation keeps balances in range.

`OnceInv` says where the request of a logged command is remembered: in the cache,
among the evicted ones, or in the hands of the core thread, which has logged it and
not yet recorded it; and that a request in the middle of its execution is not in the
cache. `ReplayInv`, which holds of wrapped amounts as of others, says by which part of the current command the ledger is ahead of
the log (after the debit, after the credit, before the log record). The replay is a
fold over a filtered sequence; `Sums` and the lemmas before it show what one more
record does to it. `MoneyInv` bounds the worth of all accounts by what was
registered, what the commands taken so far mint, and what is in flight between two
accounts; it holds with any undo, since an undo gives back at most what was debited.
Minting is the code's: a refund credits without a debit, and a conversion may
have a target larger than its source.

`PaymentLinksProofs` proves, for any users, links, quotes and requests and every
bound on failures and crashes:

* `LinksTypeOK`: `Spec => []TypeOK`
* `LinksPayersSawPayable`: `Spec => []PayersSawPayableLink`
* `LinksOneOrderPerPayer`: `Spec => []OneOrderPerPayer`
* `LinksAnswersTellOrders`: `Spec => []AnswersTellOrders`
* `LinksCountsFollowOrders`: `Spec => []PaidCountFollowsOrders`
* `LinksCloseForGood`: `Spec => LinkClosesForGood`

Assumptions: `AmountAssumption` (amounts are integers, negative ones too),
`NameAssumption` (ids of links and quotes differ by their prefix),
`LimitAssumption` (the bounds are naturals). What `TypeOK` says of amounts is that they are
those of the requests. `PayersSawPayableLink` is about a row
read long before the order; it is inductive with `PayInv` (who goes on to pay has
read a payable row, not yet paid) and `LinkInv` (a payable link was not paid), which
stands since every update of a link closes it. `KeyInv` is the unique index, and
`OrderInv` says at which labels a request has an order and what its key is made of.
`PaidCountFollowsOrders` compares a counter with the number of orders; `CountInv`
bounds it by the sets of requests about to mark a link (`Marking`) or cut off
before they could (`Cut`), with the library's facts about cardinality.

`CardsProofs` proves, for any owners, cards, currencies, rates and requests and
every bound on failures and crashes:

* `TypeCorrect`: `Spec => []TypeOK`
* `AnswersAreTrue`: `Spec => []AnswersTellAuthorizations`
* `InactiveCardsPayNothing`: `Spec => []InactiveCardPaysNothing`
* `NoAccountOverdrawn`: no regular account is ever below zero
* `FreezesExplained`: `Spec => []FreezesAreExplained`
* `WrongDigitsAreRefused`: `Spec => []WrongDigitIsRefused`, for numbers of any length

Assumptions: `NamesAssumption`, `WalletAssumption`, `AmountAssumption` (prices and the
amounts of payments are integers, of either sign), `RateAssumption` (rates and their quotients are positive),
`LimitAssumption`, `PrecisionAssumption`, `LengthAssumption`. The inductive invariant is `ShapeInv`,
`RequestInv` (what a label says of the request), `QuoteInv` (from its label on, a
request whose price is not negative has a quote that covers the fee), `BalanceInv`
(a regular account is not below zero: regular is one on which no payment moves a
negative amount and for which no purchase was quoted a negative debit), `AuthInv` (an authorization
is that of its request, and there is one only at the labels behind its record),
`ServedInv` and `LiveInv` (whoever has passed the token look-up has seen the card
active). `FreezesExplained` adds `HoldInv`: finitely many requests hold money, of cards
that exist, and the frozen balance of a wallet is what payments and cards froze of it,
less what payments released and took. It needs no assumption on amounts. The lemmas follow a hold from the freeze to its record, release or loss. That a wrong digit is
refused depends on both weightings of a digit being one-to-one modulo ten
(`LuhnSumChanges`): the sum over all digits then changes by less than ten and not
by zero.

`ScreeningProofs` proves, for any members, payments, rates, precision and requests:

* `QuotesAreRight`: `Spec => []QuotesAreFair`
* `LoneAssessments`: `Spec => []LoneAssessmentIsRight`
* `ScreeningTypeOK`: `Spec => []TypeOK`

Assumptions: `NilAssumption`, `UserAssumption`, `IntentAssumption` (an amount is an
`int64` other than 0), `WidthAssumption`, `RateAssumption` (rates are positive),
`BoundAssumption`, `PrecisionAssumption`, `RequestAssumption` (there
are finitely many requests, or a sender's total of a day means nothing).
`ScreeningTypeOK` is `TypeInv` with `QuoteInv`: which label has fetched a sender and
may read the field that holds him. `QuotesAreFair` follows
from `QuoteInv` (what a request has read was offered) by lemmas about the
roundings (`Quotients`, `Scaled`, `TargetIsFair`, `FeeIsFair`), of which the two signs
are cases. It is about quotes whose amounts fit (`Fits`): a number of the range is what
`Wrapped` leaves of it (`WrappedSame`), any other is cut, and the code does not notice. `LoneAssessmentIsRight`
is about a request into which nobody wrote: `LoneInv` says that up to its label the
service's fields hold its own data (`OwnContext`) and its points are those of its own
payment (`OwnPoints`, `OwnReads`, `OwnChecks`, `OwnDecision`). Its frame lemmas say
that a store of one request makes every other one `disturbed`, and that a check
leaves the others as they are.

`OnboardingProofs` proves, for any names, addresses, ids and requests:

* `TypeCorrect`: `Spec => []TypeOK`
* `RegistrationsAreTrue`: `Spec => []RegistrationsAreHonest`
* `ReviewsAreFinal`: `Spec => []ReviewsStand`

Assumptions: `NoneAssumption`, `RegisteredAssumption` (the users of the beginning
differ in name and address), `IdentityAssumption`, `BoundAssumption`. The inductive
invariant is `ShapeInv`, `RequestInv` (what each label says of the request, of the
user it has made and of the rows it has moved: `FieldsOK`, `MadeOK`, `ReviewOK`),
`UniqueInv` (the unique columns) and `WalletInv` (before its label a wallet of a
registration under way was not given its balance). That somebody was told of every
freeze and rejection is a second invariant, `ToldInv`: only a review and an update by an
administrator give a user one of the two statuses (`WhoMovesUsers`, `WhoMakesUsers`), and
an answer is not taken back (`ToldForGood`).

### What is only model-checked

* Liveness: `SagaTerminates`, the fairness half of `ImplementsPromise`
  (`SagaKeepsPromise` is its safety half), `CommandsGetTaken` and `StopCompletes`. The
  prover has no rules for ENABLED and hence for weak fairness.
* The three violation runs: `RestoresSnapshot` and `AssessmentIsAtomic` are false, and
  `SenderNeverGains` is false there.

Sums, folds and recursive functions are proved about although the library's induction
theorems take an operator as a parameter and cannot be used: a set of counterexamples
is given a smallest member by `SetInduction` or `SmallestNumber` of `Sums`, which rest on
the library's facts about well-founded relations.

## 6. Plan

Done: payments with accounts and journal, chain audit, links and transfers, cards
beside payments, screening and quotes, onboarding, the engine. What is left, in
the order of importance:

1. **Cards and payments as one.** `Cards` takes the payments' use of an account as
   four kinds of statements in any order. A module that runs `PaymentSaga` itself over the same rows would
   check `FrozenBacked` and `FreezesAreExplained` together.
2. **Weaker hypotheses for the books.** `BooksAlwaysAgree` allows no failing statement.
   A failure that is answered by a compensation which itself succeeds leaves the
   books right in many states; which ones is a theorem worth stating.
3. **Progress without fairness.** What the liveness properties rest on can be stated
   as safety: a payment's place moves through a well-founded order, so that a saga
   issues a bounded number of statements.
4. **Settlement batches, reconciliation, webhooks**, as soon as anything calls them.

## 7. Not modelled

* Without a caller or a route, so no state of the running program is reached by
  them: settlement batches (they are created by a count and an insert that race, but
  no payment joins one, since `UpdateSettlementBatch` is called by nothing),
  reconciliation (it stores nothing, and `ReconcileOrder` always answers `MATCHED`),
  webhooks (`RegisterWebhook` has no route, and the payload lacks the `merchant_id`
  `DeliverEvent` looks for), `internal/orchestrator` (constructed and discarded),
  `internal/engine`, `internal/messaging`, the chain's retry queue, `money.go` (used
  by a validator nothing calls). Of the C++ engine, the object pool, `FeeEngine`,
  `log_event` and `drain`.
* One request at a time: the middleware. `IdempotencyMiddleware` only sets key and
  hash for the service, `AdminRequired` admits every authenticated user, and a
  token is never compared with the user's status again. The recovery from panics is
  why a panic is the end of one request in the models.
* Configuration, logging, metrics and tracing hold no state the results depend on.
  The web administration, load generators and deployment files are clients and
  configuration.
* The fetch of live rates from their provider is any table of positive rates.

Handlers in `transport` parse a request and call one service operation; which
requests can arrive is in the `Next` of each module. `components` in `PROJECT.json`
lists each part with its reason.

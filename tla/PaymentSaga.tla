------------------------------ MODULE PaymentSaga ------------------------------
(***************************************************************************)
(* The payment service: CreatePayment takes a request in, commits an order *)
(* and starts the saga goroutine that carries the order to CLOSED, undoing *)
(* its completed steps when one fails; RefundPayment reverses a closed     *)
(* payment.  Every action is one database statement of one goroutine (the  *)
(* unit that interleaves), together with the local control flow up to the  *)
(* next statement.  The account and order rows are shared by all of them.  *)
(*                                                                         *)
(* A statement may fail without effect (faults, at most MaxFaults), and    *)
(* the server process may be killed and restarted (crashes, at most        *)
(* MaxCrashes), which ends every goroutine it was running.                 *)
(***************************************************************************)
EXTENDS PaymentStatus, Accounts, FiniteSets, Functions

CONSTANTS
  Payments,       \* the requests to CreatePayment, and the payments they create
  AccountIds,     \* accounts of users, one per user and currency, and of the system
  Currencies,
  Keys,           \* values of the Idempotency-Key header
  Refunders,      \* handlers that may serve RefundPayment at the same time
  NoPayment,      \* the absence of a payment in a column or a variable
  Order,          \* what each request asks for, with the target amount and fee of its quote
  CurrencyOf,     \* the currency of an account
  FeeAccountOf,   \* sys_fee_income_<currency>
  SettlementAccountOf,  \* sys_settlement_<currency>
  OpenAtStart,    \* the accounts whose row exists when the system starts
  StartBalance,   \* available_balance of those rows
  MaxFaults,
  MaxCrashes

OrderType == [from : AccountIds, to : AccountIds, source : Int, target : Int,
              fee : Int, key : Keys, body : Int]

\* The request binding refuses an amount of 0 and nothing else: an amount may be
\* negative, and then so are the target amount and the fee of its quote.  Both
\* may also round to zero when the amount is small (fx_svc.go).
ASSUME OrderAssumption ==
  /\ Order \in [Payments -> OrderType]
  /\ \A p \in Payments : Order[p].source # 0

ASSUME AccountAssumption ==
  /\ CurrencyOf \in [AccountIds -> Currencies]
  /\ FeeAccountOf \in [Currencies -> AccountIds]
  /\ SettlementAccountOf \in [Currencies -> AccountIds]
  /\ OpenAtStart \subseteq AccountIds
  /\ StartBalance \in [AccountIds -> Nat]

ASSUME BoundAssumption ==
  /\ MaxFaults \in Nat
  /\ MaxCrashes \in Nat
  /\ NoPayment \notin Payments \cup PaymentStatuses

VARIABLES
  status,       \* payment_orders.status, NoPayment while there is no row
  accounts,     \* the rows of the accounts table
  open,         \* the accounts that have a row
  ledger,       \* the ledger_entries rows of each payment
  anchored,     \* the payments whose events were handed to the chain service
  idempotency,  \* idempotency_keys: the payment a key was answered with
  pc,           \* where the goroutine of each payment is
  step,         \* the saga step it is at; when it compensates, the one to undo next
  refund,       \* what each refund handler is doing
  lost,         \* the payments whose goroutine died with the process
  faults,
  crashes

orderVars == <<status, idempotency>>
moneyVars == <<accounts, open, ledger>>
sagaVars  == <<pc, step>>
vars == <<status, accounts, open, ledger, anchored, idempotency, pc, step,
          refund, lost, faults, crashes>>

-----------------------------------------------------------------------------
Total(p) == Order[p].source + Order[p].fee
Sender(p) == Order[p].from
Receiver(p) == Order[p].to
FeeAccount(p) == FeeAccountOf[CurrencyOf[Sender(p)]]
SettlementAccount(p) == SettlementAccountOf[CurrencyOf[Sender(p)]]

\* The eight saga steps: step k carries the order to MainFlow[k + 1].
Steps == 1..8
TargetStatus(k) == MainFlow[k + 1]

\* Mutant: the settlement step has no execute function.
FirstStatementUnsettled(k) ==
  << "update", "update", "freeze_read", "debit", "update", "update", "update", "anchor" >>[k]

\* The first statement of a step's execute function; steps that have nothing
\* to execute go straight to the status update.
FirstStatement(k) ==
  << "update", "update", "freeze_read", "debit", "update", "settle", "update", "anchor" >>[k]

\* Mutant: the step that failed is undone too.
LastCompensableOffByOne(k) == IF k >= 5 THEN 6
                              ELSE IF k = 4 THEN 5
                              ELSE IF k >= 2 THEN 3 ELSE 0

\* The last step among 1..k that has a compensate function; 0 if none has.
LastCompensable(k) == IF k >= 6 THEN 6
                      ELSE IF k = 5 THEN 5
                      ELSE IF k >= 3 THEN 3 ELSE 0

IntakeLabels == {"idempotency", "screen", "balance", "commit"}
ForwardLabels == {"load", "reload", "freeze_read", "freeze", "debit",
                  "find_receiver", "open_receiver", "credit", "credit_fee",
                  "settle", "anchor", "update"}
BackwardLabels == {"fail", "compensate", "undo_receiver", "undo_fee"}
FinalLabels == {"answered", "rejected", "done"}
Labels == IntakeLabels \cup ForwardLabels \cup BackwardLabels \cup FinalLabels

-----------------------------------------------------------------------------
\* Double-entry journal of a payment (SettlePayment): four pairs, each in one
\* currency.  An account is named by its role in the payment.
Entry(seq, account, currency, direction, amount) ==
  [seq |-> seq, account |-> account, currency |-> currency,
   direction |-> direction, amount |-> amount]

EntryPair(seq, debited, credited, currency, amount) ==
  { Entry(seq, debited, currency, "DEBIT", amount),
    Entry(seq + 1, credited, currency, "CREDIT", amount) }

Journal(p) ==
  LET source == CurrencyOf[Sender(p)]
      target == CurrencyOf[Receiver(p)]
  IN  EntryPair(1, "sender", "settlement", source, Total(p))
        \cup EntryPair(3, "settlement", "exchange", source, Order[p].source)
        \cup EntryPair(5, "settlement", "fee", source, Order[p].fee)
        \cup EntryPair(7, "exchange", "receiver", target, Order[p].target)

\* compensateSettlement: the same amounts the other way round, as new rows.
Reversal(entries) ==
  { [e EXCEPT !.seq = @ + 99,
              !.direction = IF @ = "CREDIT" THEN "DEBIT" ELSE "CREDIT"] : e \in entries }

Volume(entries, currency, direction) ==
  SumFunctionOnSet([e \in entries |-> e.amount],
                   { e \in entries : e.currency = currency /\ e.direction = direction })

CheckBalance(entries) ==
  \A c \in Currencies : Volume(entries, c, "DEBIT") = Volume(entries, c, "CREDIT")

\* CHECK (amount > 0) of the ledger_entries table rejects the whole INSERT.
AmountsArePositive(entries) == \A e \in entries : e.amount > 0

-----------------------------------------------------------------------------
Init ==
  /\ status = [p \in Payments |-> NoPayment]
  /\ accounts = [a \in AccountIds |->
                   NewRow(IF a \in OpenAtStart THEN StartBalance[a] ELSE 0)]
  /\ open = OpenAtStart
  /\ ledger = [p \in Payments |-> {}]
  /\ anchored = {}
  /\ idempotency = [k \in Keys |-> NoPayment]
  /\ pc = [p \in Payments |-> "idempotency"]
  /\ step = [p \in Payments |-> 1]
  /\ refund = [q \in Refunders |-> [at |-> "idle", of |-> NoPayment]]
  /\ lost = {}
  /\ faults = 0
  /\ crashes = 0

\* A statement succeeds, or the database returns an error and changes nothing.
Succeeds == UNCHANGED faults
Fails == faults < MaxFaults /\ faults' = faults + 1

At(p, label) == pc[p] = label /\ p \notin lost
Goto(p, label) == pc' = [pc EXCEPT ![p] = label]

\* compensateInReverse over the completed steps 1..k.
UndoFrom(p, k) ==
  /\ step' = [step EXCEPT ![p] = LastCompensable(k)]
  /\ Goto(p, IF LastCompensable(k) = 0 THEN "done" ELSE "compensate")

\* UPDATE accounts ... WHERE account_id = a AND guard: no row, no change.
UpdatedAccount(a, guard, row) ==
  IF a \in open /\ guard THEN [accounts EXCEPT ![a] = row] ELSE accounts

CreditedAccount(a, amount) ==
  IF a \in open THEN [accounts EXCEPT ![a] = CreditAccount(accounts[a], amount)] ELSE accounts

\* GetIdempotencyKey: the payment the key was answered with, if any.
Recorded(key) == idempotency[key]

\* GetPaymentOrder: what a statement finds of the order of p.
Found(p) == status[p]

\* insertLedgerEntriesBatch: all rows in one statement, beside what is there.
WithEntries(p, entries) == [ledger EXCEPT ![p] = @ \cup entries]

-----------------------------------------------------------------------------
(* CreatePayment *)

\* checkIdempotency.  A key already answered for the same body returns the
\* cached response, for another body an error; an error of the read itself
\* counts as "no record".
CheckIdempotency(p) ==
  /\ At(p, "idempotency")
  /\ LET first == Recorded(Order[p].key)
     IN  \/ /\ Succeeds
            /\ Goto(p, IF first = NoPayment THEN "screen"
                       ELSE IF Order[first].body = Order[p].body THEN "answered"
                       ELSE "rejected")
         \/ /\ Fails
            /\ Goto(p, "screen")
  /\ UNCHANGED <<orderVars, moneyVars, anchored, step, refund, lost, crashes>>

\* The sender's status and KYC, the risk decision and the quote: each either
\* lets the request through or ends it, and none of them writes.
Screen(p) ==
  /\ At(p, "screen")
  /\ Succeeds
  /\ \/ Goto(p, "balance")
     \/ Goto(p, "rejected")
  /\ UNCHANGED <<orderVars, moneyVars, anchored, step, refund, lost, crashes>>

\* The balance check before the order exists; nothing is reserved yet.
CheckSenderBalance(p) ==
  /\ At(p, "balance")
  /\ \/ /\ Succeeds
        /\ Goto(p, IF /\ Sender(p) \in open
                      /\ CanDebit(accounts[Sender(p)], Total(p))
                   THEN "commit" ELSE "rejected")
     \/ /\ Fails
        /\ Goto(p, "rejected")
  /\ UNCHANGED <<orderVars, moneyVars, anchored, step, refund, lost, crashes>>

\* CreatePaymentOrderTx: the row of the order, which is CREATED.
WithOrder(p) == [status EXCEPT ![p] = "CREATED"]

\* Mutant: ON CONFLICT DO UPDATE.
NotedKeyOverwritten(current, p) == p

\* INSERT INTO idempotency_keys ... ON CONFLICT DO NOTHING.
NotedKey(current, p) == IF current = NoPayment THEN p ELSE current

\* The transaction that inserts the order, its outbox event and the
\* idempotency row, and then the go statement.
CommitOrder(p) ==
  /\ At(p, "commit")
  /\ \/ /\ Succeeds
        /\ status' = WithOrder(p)
        /\ idempotency' = [idempotency EXCEPT ![Order[p].key] = NotedKey(@, p)]
        /\ Goto(p, "load")
     \/ /\ Fails
        /\ Goto(p, "rejected")
        /\ UNCHANGED orderVars
  /\ UNCHANGED <<moneyVars, anchored, step, refund, lost, crashes>>

-----------------------------------------------------------------------------
(* runSaga *)

\* The first load of the order; on an error the goroutine just returns.
LoadOrder(p) ==
  /\ At(p, "load")
  /\ \/ Succeeds /\ Goto(p, "reload")
     \/ Fails /\ Goto(p, "done")
  /\ UNCHANGED <<orderVars, moneyVars, anchored, step, refund, lost, crashes>>

\* The head of the loop: skip a step the order has passed, undo everything
\* when the order cannot make the transition, or execute the step.
ReloadOrder(p) ==
  /\ At(p, "reload")
  /\ LET k == step[p]
         target == TargetStatus(k)
     IN  \/ /\ Succeeds
            /\ IF IsStatusAtOrAfter(Found(p), target)
               THEN /\ Goto(p, IF k = 8 THEN "done" ELSE "reload")
                    /\ step' = [step EXCEPT ![p] = IF k = 8 THEN 8 ELSE k + 1]
               ELSE IF CanTransition(Found(p), target)
               THEN /\ Goto(p, FirstStatement(k))
                    /\ UNCHANGED step
               ELSE UndoFrom(p, k - 1)
         \/ /\ Fails
            /\ UndoFrom(p, k - 1)
  /\ UNCHANGED <<orderVars, moneyVars, anchored, refund, lost, crashes>>

\* executeFreeze reads the sender's account and checks it ...
ReadSenderForFreeze(p) ==
  /\ At(p, "freeze_read")
  /\ \/ /\ Succeeds
        /\ Goto(p, IF /\ Sender(p) \in open
                      /\ CanDebit(accounts[Sender(p)], Total(p))
                   THEN "freeze" ELSE "fail")
     \/ /\ Fails
        /\ Goto(p, "fail")
  /\ UNCHANGED <<orderVars, moneyVars, anchored, step, refund, lost, crashes>>

\* ... and then freezes; other payments may have run in between.
ExecuteFreeze(p) ==
  /\ At(p, "freeze")
  /\ LET row == accounts[Sender(p)]
         enough == CanDebit(row, Total(p))
     IN  \/ /\ Succeeds
            /\ accounts' = UpdatedAccount(Sender(p), enough, FreezeFunds(row, Total(p)))
            /\ Goto(p, IF Sender(p) \in open /\ enough THEN "update" ELSE "fail")
         \/ /\ Fails
            /\ Goto(p, "fail")
            /\ UNCHANGED accounts
  /\ UNCHANGED <<orderVars, open, ledger, anchored, step, refund, lost, crashes>>

\* executeEngineOp: debit the sender's frozen funds ...
DebitSender(p) ==
  /\ At(p, "debit")
  /\ LET row == accounts[Sender(p)]
         enough == HasFrozen(row, Total(p))
     IN  \/ /\ Succeeds
            /\ accounts' = UpdatedAccount(Sender(p), enough, DebitAccount(row, Total(p)))
            /\ Goto(p, IF Sender(p) \in open /\ enough THEN "find_receiver" ELSE "fail")
         \/ /\ Fails
            /\ Goto(p, "fail")
            /\ UNCHANGED accounts
  /\ UNCHANGED <<orderVars, open, ledger, anchored, step, refund, lost, crashes>>

\* ... look the receiver's account up (any error means "create it") ...
FindReceiver(p) ==
  /\ At(p, "find_receiver")
  /\ \/ /\ Succeeds
        /\ Goto(p, IF Receiver(p) \in open THEN "credit" ELSE "open_receiver")
     \/ /\ Fails
        /\ Goto(p, "open_receiver")
  /\ UNCHANGED <<orderVars, moneyVars, anchored, step, refund, lost, crashes>>

\* ... create it, which UNIQUE (user_id, currency) refuses when it exists ...
OpenReceiver(p) ==
  /\ At(p, "open_receiver")
  /\ \/ /\ Succeeds
        /\ open' = open \cup {Receiver(p)}
        /\ Goto(p, IF Receiver(p) \in open THEN "fail" ELSE "credit")
     \/ /\ Fails
        /\ Goto(p, "fail")
        /\ UNCHANGED open
  /\ UNCHANGED <<orderVars, accounts, ledger, anchored, step, refund, lost, crashes>>

\* ... credit the receiver, and the fee income account.  CreditAccount does
\* not look at the row count: a missing account is no error.
CreditReceiver(p) ==
  /\ At(p, "credit")
  /\ \/ /\ Succeeds
        /\ accounts' = CreditedAccount(Receiver(p), Order[p].target)
        /\ Goto(p, "credit_fee")
     \/ /\ Fails
        /\ Goto(p, "fail")
        /\ UNCHANGED accounts
  /\ UNCHANGED <<orderVars, open, ledger, anchored, step, refund, lost, crashes>>

CreditFee(p) ==
  /\ At(p, "credit_fee")
  /\ \/ /\ Succeeds
        /\ accounts' = CreditedAccount(FeeAccount(p), Order[p].fee)
        /\ Goto(p, "update")
     \/ /\ Fails
        /\ Goto(p, "fail")
        /\ UNCHANGED accounts
  /\ UNCHANGED <<orderVars, open, ledger, anchored, step, refund, lost, crashes>>

\* SettlePayment: nothing to do when entries exist; otherwise the four
\* accounts must exist, and the journal is one multi-row INSERT.
SettlePayment(p) ==
  /\ At(p, "settle")
  /\ LET accepted == /\ {Sender(p), Receiver(p), SettlementAccount(p), FeeAccount(p)} \subseteq open
                     /\ CheckBalance(Journal(p))
                     /\ AmountsArePositive(Journal(p))
     IN  \/ /\ Succeeds
            /\ ledger' = IF ledger[p] = {} /\ accepted THEN WithEntries(p, Journal(p)) ELSE ledger
            /\ Goto(p, IF ledger[p] # {} \/ accepted THEN "update" ELSE "fail")
         \/ /\ Fails
            /\ Goto(p, "fail")
            /\ UNCHANGED ledger
  /\ UNCHANGED <<orderVars, accounts, open, anchored, step, refund, lost, crashes>>

\* RecordPaymentOnChain hands two events to the chain service's buffer; the
\* step ignores its error.
RecordOnChain(p) ==
  /\ At(p, "anchor")
  /\ \/ Succeeds /\ anchored' = anchored \cup {p}
     \/ Fails /\ UNCHANGED anchored
  /\ Goto(p, "update")
  /\ UNCHANGED <<orderVars, moneyVars, step, refund, lost, crashes>>

\* The status update after a step that executed.  Its error is ignored: the
\* next iteration finds the order where it was.
UpdateStatus(p) ==
  /\ At(p, "update")
  /\ LET k == step[p]
     IN  /\ \/ /\ Succeeds
               /\ status' = [status EXCEPT ![p] = UpdatedStatus(@, TargetStatus(k))]
            \/ /\ Fails
               /\ UNCHANGED status
         /\ Goto(p, IF k = 8 THEN "done" ELSE "reload")
         /\ step' = [step EXCEPT ![p] = IF k = 8 THEN 8 ELSE k + 1]
  /\ UNCHANGED <<idempotency, moneyVars, anchored, refund, lost, crashes>>

\* A step's execute returned an error: mark the order failed (an error of that
\* update is ignored) and undo the steps before it.
MarkFailed(p) ==
  /\ At(p, "fail")
  /\ \/ /\ Succeeds
        /\ status' = [status EXCEPT ![p] = UpdatedStatus(@, "PAYMENT_FAILED")]
     \/ /\ Fails
        /\ UNCHANGED status
  /\ UndoFrom(p, step[p] - 1)
  /\ UNCHANGED <<idempotency, moneyVars, anchored, refund, lost, crashes>>

-----------------------------------------------------------------------------
(* compensateInReverse: each compensation first loads the order, and is     *)
(* skipped when the load fails.                                             *)

\* compensateSettlement posts the reversal of whatever entries there are.
CompensateSettlement(p) ==
  /\ At(p, "compensate") /\ step[p] = 6
  /\ \/ /\ Succeeds
        /\ ledger' = WithEntries(p, Reversal(ledger[p]))
     \/ /\ Fails
        /\ UNCHANGED ledger
  /\ UndoFrom(p, 5)
  /\ UNCHANGED <<orderVars, accounts, open, anchored, refund, lost, crashes>>

\* executeRefund: pay the sender back (the error of this statement and of the
\* next two is ignored) ...
RefundSender(p) ==
  /\ At(p, "compensate") /\ step[p] = 5
  /\ \/ /\ Succeeds
        /\ accounts' = CreditedAccount(Sender(p), Total(p))
        /\ Goto(p, "undo_receiver")
        /\ UNCHANGED step
     \/ /\ Fails
        /\ Goto(p, "undo_receiver")
        /\ UNCHANGED <<accounts, step>>
     \/ /\ Fails
        /\ UndoFrom(p, 4)
        /\ UNCHANGED accounts
  /\ UNCHANGED <<orderVars, open, ledger, anchored, refund, lost, crashes>>

\* ... debit the receiver, out of its frozen balance ...
UndoReceiver(p) ==
  /\ At(p, "undo_receiver")
  /\ LET row == accounts[Receiver(p)]
     IN  \/ /\ Succeeds
            /\ accounts' = UpdatedAccount(Receiver(p), HasFrozen(row, Order[p].target),
                             DebitAccount(row, Order[p].target))
         \/ /\ Fails
            /\ UNCHANGED accounts
  /\ Goto(p, "undo_fee")
  /\ UNCHANGED <<orderVars, open, ledger, anchored, step, refund, lost, crashes>>

\* ... and the fee account, out of its frozen balance.
UndoFee(p) ==
  /\ At(p, "undo_fee")
  /\ LET row == accounts[FeeAccount(p)]
     IN  \/ /\ Succeeds
            /\ accounts' = UpdatedAccount(FeeAccount(p), HasFrozen(row, Order[p].fee),
                             DebitAccount(row, Order[p].fee))
         \/ /\ Fails
            /\ UNCHANGED accounts
  /\ UndoFrom(p, 4)
  /\ UNCHANGED <<orderVars, open, ledger, anchored, refund, lost, crashes>>

\* executeRelease: unfreeze the payment's total, whoever it was frozen for.
ReleaseFunds(p) ==
  /\ At(p, "compensate") /\ step[p] = 3
  /\ LET row == accounts[Sender(p)]
     IN  \/ /\ Succeeds
            /\ accounts' = UpdatedAccount(Sender(p), HasFrozen(row, Total(p)),
                             UnfreezeFunds(row, Total(p)))
         \/ /\ Fails
            /\ UNCHANGED accounts
  /\ UndoFrom(p, 2)
  /\ UNCHANGED <<orderVars, open, ledger, anchored, refund, lost, crashes>>

-----------------------------------------------------------------------------
(* RefundPayment *)

RefundGoto(q, label) ==
  refund' = [refund EXCEPT ![q] = IF label = "idle" THEN [at |-> "idle", of |-> NoPayment]
                                                    ELSE [@ EXCEPT !.at = label]]

\* Read the order and check the transition: only a closed payment qualifies.
StartRefund(q, p) ==
  /\ refund[q].at = "idle"
  /\ Found(p) # NoPayment
  /\ CanTransition(Found(p), "REFUND_PENDING")
  /\ refund' = [refund EXCEPT ![q] = [at |-> "mark", of |-> p]]
  /\ UNCHANGED <<orderVars, moneyVars, anchored, sagaVars, lost, faults, crashes>>

\* Mark it; the error of this update is ignored.
MarkRefundPending(q) ==
  /\ refund[q].at = "mark"
  /\ \/ /\ Succeeds
        /\ status' = [status EXCEPT ![refund[q].of] = UpdatedStatus(@, "REFUND_PENDING")]
     \/ /\ Fails
        /\ UNCHANGED status
  /\ RefundGoto(q, "pay_sender")
  /\ UNCHANGED <<idempotency, moneyVars, anchored, sagaVars, lost, crashes>>

RefundPaysSender(q) ==
  /\ refund[q].at = "pay_sender"
  /\ LET p == refund[q].of
     IN  \/ /\ Succeeds
            /\ accounts' = CreditedAccount(Sender(p), Total(p))
         \/ /\ Fails
            /\ UNCHANGED accounts
  /\ RefundGoto(q, "debit_receiver")
  /\ UNCHANGED <<orderVars, open, ledger, anchored, sagaVars, lost, crashes>>

RefundDebitsReceiver(q) ==
  /\ refund[q].at = "debit_receiver"
  /\ LET p == refund[q].of
         row == accounts[Receiver(p)]
     IN  \/ /\ Succeeds
            /\ accounts' = UpdatedAccount(Receiver(p), HasFrozen(row, Order[p].target),
                             DebitAccount(row, Order[p].target))
         \/ /\ Fails
            /\ UNCHANGED accounts
  /\ RefundGoto(q, "debit_fee")
  /\ UNCHANGED <<orderVars, open, ledger, anchored, sagaVars, lost, crashes>>

RefundDebitsFee(q) ==
  /\ refund[q].at = "debit_fee"
  /\ LET p == refund[q].of
         row == accounts[FeeAccount(p)]
     IN  \/ /\ Succeeds
            /\ accounts' = UpdatedAccount(FeeAccount(p), HasFrozen(row, Order[p].fee),
                             DebitAccount(row, Order[p].fee))
         \/ /\ Fails
            /\ UNCHANGED accounts
  /\ RefundGoto(q, "finish")
  /\ UNCHANGED <<orderVars, open, ledger, anchored, sagaVars, lost, crashes>>

FinishRefund(q) ==
  /\ refund[q].at = "finish"
  /\ \/ /\ Succeeds
        /\ status' = [status EXCEPT ![refund[q].of] = UpdatedStatus(@, "REFUNDED")]
     \/ /\ Fails
        /\ UNCHANGED status
  /\ RefundGoto(q, "idle")
  /\ UNCHANGED <<idempotency, moneyVars, anchored, sagaVars, lost, crashes>>

-----------------------------------------------------------------------------
\* The process dies with the goroutines it was running and starts again.
\* Nothing looks for unfinished orders: runSaga has one caller, CreatePayment.
Crash ==
  /\ crashes < MaxCrashes
  /\ crashes' = crashes + 1
  /\ lost' = lost \cup { p \in Payments : pc[p] \notin FinalLabels \cup {"idempotency"} }
  /\ refund' = [q \in Refunders |-> [at |-> "idle", of |-> NoPayment]]
  /\ UNCHANGED <<orderVars, moneyVars, anchored, sagaVars, faults>>

\* What the request handler and then the saga goroutine of a payment do.
HandlerStep(p) == Screen(p) \/ CheckSenderBalance(p) \/ CommitOrder(p)

SagaStep(p) ==
  \/ LoadOrder(p) \/ ReloadOrder(p)
  \/ ReadSenderForFreeze(p) \/ ExecuteFreeze(p)
  \/ DebitSender(p) \/ FindReceiver(p) \/ OpenReceiver(p)
  \/ CreditReceiver(p) \/ CreditFee(p)
  \/ SettlePayment(p) \/ RecordOnChain(p)
  \/ UpdateStatus(p) \/ MarkFailed(p)
  \/ CompensateSettlement(p)
  \/ RefundSender(p) \/ UndoReceiver(p) \/ UndoFee(p)
  \/ ReleaseFunds(p)

RefundStep(q) ==
  \/ MarkRefundPending(q) \/ RefundPaysSender(q) \/ RefundDebitsReceiver(q)
  \/ RefundDebitsFee(q) \/ FinishRefund(q)

Next ==
  \/ \E p \in Payments : CheckIdempotency(p) \/ HandlerStep(p) \/ SagaStep(p)
  \/ \E q \in Refunders : RefundStep(q) \/ \E p \in Payments : StartRefund(q, p)
  \/ Crash

Spec == Init /\ [][Next]_vars

\* A goroutine that has a statement to issue eventually issues it; whether a
\* client sends a request at all, asks for a refund, or the process dies, is
\* up to nobody.
FairSpec ==
  /\ Spec
  /\ \A p \in Payments : WF_vars(HandlerStep(p)) /\ WF_vars(SagaStep(p))
  /\ \A q \in Refunders : WF_vars(RefundStep(q))

-----------------------------------------------------------------------------
(* Properties *)

\* The shape of every variable.
TypeOK ==
  /\ status \in [Payments -> PaymentStatuses \cup {NoPayment}]
  /\ accounts \in [AccountIds -> Row]
  /\ open \subseteq AccountIds
  /\ \A p \in Payments : ledger[p] \in {{}, Journal(p), Journal(p) \cup Reversal(Journal(p))}
  /\ DOMAIN ledger = Payments
  /\ anchored \subseteq Payments
  /\ idempotency \in [Keys -> Payments \cup {NoPayment}]
  /\ pc \in [Payments -> Labels]
  /\ step \in [Payments -> 0..8]
  /\ refund \in [Refunders -> [at : {"idle", "mark", "pay_sender", "debit_receiver",
                                      "debit_fee", "finish"},
                               of : Payments \cup {NoPayment}]]
  /\ lost \subseteq Payments
  /\ faults \in 0..MaxFaults
  /\ crashes \in 0..MaxCrashes

\* No order takes a negative total from the account, or brings it a negative
\* amount or fee.  The service does not see to that; the clients have to.
Regular(a) ==
  \A p \in Payments : /\ Sender(p) = a => Total(p) >= 0
                      /\ Receiver(p) = a => Order[p].target >= 0
                      /\ FeeAccount(p) = a => Order[p].fee >= 0

\* No interleaving of payments, compensations and refunds drives a balance
\* below zero, although every saga decides on a balance it read earlier and
\* the table has no CHECK: only the WHERE clauses of the updates stand
\* between two payments and the same money.  (A negative amount passes them,
\* so an account that an order of one names is not protected.)
NonNegative ==
  \A a \in AccountIds : Regular(a) =>
    accounts[a].available >= 0 /\ accounts[a].frozen >= 0 /\ accounts[a].settled >= 0

\* A payment that is closed, or was and is being refunded, has its whole
\* journal in the ledger and was never compensated: however statements fail
\* and whenever the process dies, the status CLOSED is never ahead of the
\* books.
ClosedStatuses == {"CLOSED", "REFUND_PENDING", "REFUNDED"}

ClosedMeansSettled ==
  \A p \in Payments : status[p] \in ClosedStatuses => ledger[p] = Journal(p)

\* The answer a retried request got is never taken back: its key keeps naming
\* an order that was committed, made from a request with the same key and body,
\* however many requests race for the key (checkIdempotency reads the table,
\* InsertIdempotencyTx writes it much later).
AnswerStands ==
  \A p \in Payments : pc[p] = "answered" =>
    LET first == idempotency[Order[p].key]
    IN  /\ first # NoPayment
        /\ Order[first].key = Order[p].key
        /\ Order[first].body = Order[p].body
        /\ status[first] # NoPayment

\* An order only ever moves along the state machine of domain/payment,
\* whichever of the saga, its failure path and the refund handlers moves it.
StatusFollowsLifecycle ==
  [][\A p \in Payments : status'[p] # status[p] =>
       \/ status[p] = NoPayment /\ status'[p] = "CREATED"
       \/ status[p] # NoPayment /\ CanTransition(status[p], status'[p])]_status

\* The payment's total is frozen and not yet debited.  (Where no statement
\* fails, a saga past its debit has nothing left to undo.)
HoldsFreeze(p) ==
  \/ pc[p] = "update" /\ step[p] = 3
  \/ pc[p] = "reload" /\ step[p] = 4
  \/ pc[p] = "debit"

Totals  == [p \in Payments |-> Total(p)]
Targets == [p \in Payments |-> Order[p].target]
Fees    == [p \in Payments |-> Order[p].fee]

\* The frozen balance of an account is exactly what its payments have frozen
\* and not yet debited or released: no payment releases or spends what
\* another one reserved, also when the process dies in between.
FrozenBacked ==
  \A a \in AccountIds :
    accounts[a].frozen =
      SumFunctionOnSet(Totals, { p \in Payments : Sender(p) = a /\ HoldsFreeze(p) })

\* No goroutine is between two statements.
Quiet == /\ \A p \in Payments : pc[p] \in FinalLabels \cup {"idempotency"}
         /\ \A q \in Refunders : refund[q].at = "idle"

\* The money that has left (negative: reached) an account through closed payments.
PaidOut(a) ==
  LET closed == { p \in Payments : status[p] = "CLOSED" }
  IN  SumFunctionOnSet(Totals, { p \in closed : Sender(p) = a })
        - SumFunctionOnSet(Targets, { p \in closed : Receiver(p) = a })
        - SumFunctionOnSet(Fees, { p \in closed : FeeAccount(p) = a })

\* Once every goroutine has ended, the statuses alone explain every balance:
\* a closed payment was paid in full, sender, receiver and fee; any other one
\* left no trace and nothing frozen.
BooksAgree ==
  Quiet => \A a \in AccountIds :
             /\ accounts[a].frozen = 0
             /\ Cash(accounts[a]) = (IF a \in OpenAtStart THEN StartBalance[a] ELSE 0) - PaidOut(a)

\* An account that receives no payment and sends none of a negative total never
\* ends up with more than it had, whatever else is ordered: compensations and
\* refunds give back at most what was taken.
OnlySends(a) == Regular(a) /\ \A p \in Payments : Receiver(p) # a /\ FeeAccount(p) # a

SenderNeverGains ==
  \A a \in AccountIds : OnlySends(a) => Cash(accounts[a]) <= StartBalance[a]

\* What the chain service was told is in the books, and stays there: a payment
\* whose events were handed over has its whole journal in the ledger and no
\* reversal of it, whatever fails or dies after that.
AnchoredMeansSettled == \A p \in anchored : ledger[p] = Journal(p)

\* Every order that was created is eventually closed or failed, and its
\* goroutine is then finished.
SagaTerminates ==
  \A p \in Payments :
    status[p] = "CREATED" ~> (pc[p] = "done" /\ status[p] \in ClosedStatuses \cup {"PAYMENT_FAILED"})

-----------------------------------------------------------------------------
(* The inductive invariant behind TypeOK, NonNegative, ClosedMeansSettled,  *)
(* AnswerStands and StatusFollowsLifecycle: which label goes with which     *)
(* step, status and journal.                                                *)

NoOrderLabels == IntakeLabels \cup {"answered", "rejected"}

\* A payment has an order row exactly when its request was committed.
OrderStage(p) == (status[p] = NoPayment) <=> (pc[p] \in NoOrderLabels)

\* The statements of a step are issued at that step, and an order in the
\* forward part of the saga has not reached the status its step leads to.
StepStage(p) ==
  /\ pc[p] \in {"freeze_read", "freeze"} => step[p] = 3
  /\ pc[p] \in {"debit", "find_receiver", "open_receiver", "credit", "credit_fee"} => step[p] = 4
  /\ pc[p] = "settle" => step[p] = 6
  /\ pc[p] = "anchor" => step[p] = 8
  /\ pc[p] \in ForwardLabels \cup {"fail"} => step[p] \in Steps
  /\ pc[p] \in IntakeLabels \cup {"load"} => step[p] = 1
  /\ pc[p] = "compensate" => step[p] \in {3, 5, 6}
  /\ pc[p] \in ForwardLabels => \E i \in 1..step[p] : status[p] = MainFlow[i]

\* The journal is written by step 6, and reversed at most once.
JournalStage(p) ==
  /\ pc[p] \in NoOrderLabels \cup {"load"} => ledger[p] = {}
  /\ pc[p] \in ForwardLabels \cup {"fail"} \/ (pc[p] = "compensate" /\ step[p] = 6)
       => ledger[p] \in {{}, Journal(p)}
  /\ (pc[p] \in ForwardLabels /\ step[p] >= 7) \/ (pc[p] = "update" /\ step[p] = 6)
       => ledger[p] = Journal(p)
  /\ status[p] \in ClosedStatuses => pc[p] = "done" /\ ledger[p] = Journal(p)

KeyStage ==
  \A k \in Keys : idempotency[k] # NoPayment =>
    /\ Order[idempotency[k]].key = k
    /\ status[idempotency[k]] # NoPayment

\* A refund handler works on a payment that has an order.
RefundStage ==
  \A q \in Refunders : refund[q].at # "idle" =>
    refund[q].of \in Payments /\ status[refund[q].of] # NoPayment

IInv ==
  /\ TypeOK
  /\ NonNegative
  /\ \A p \in Payments : OrderStage(p) /\ StepStage(p) /\ JournalStage(p)
  /\ KeyStage
  /\ AnswerStands
  /\ RefundStage

\* A payment that was handed to the chain service only has its last status
\* update ahead of it.
AnchorStage ==
  \A p \in anchored :
    /\ ledger[p] = Journal(p)
    /\ pc[p] = "done" \/ (pc[p] = "update" /\ step[p] = 8)
===============================================================================

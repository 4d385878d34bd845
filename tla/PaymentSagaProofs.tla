-------------------------- MODULE PaymentSagaProofs --------------------------
(***************************************************************************)
(* Theorems about PaymentSaga, for every set of payments, orders and       *)
(* accounts, any number of refund handlers, and any bound on failing       *)
(* statements and crashes.                                                 *)
(*                                                                         *)
(* The first part holds of every run: types, balances, journals, answers.  *)
(* The second is about what the books say.  The code only promises that    *)
(* where no statement fails (Undisturbed, Settleable), and there each saga *)
(* is shown to implement the transfer of TransferPromise.  The third is    *)
(* about what a sender gets back when statements do fail (RefundsAlone).   *)
(***************************************************************************)
EXTENDS PaymentRefinement, Sums

-----------------------------------------------------------------------------
(* The state machine of orders.                                            *)

LEMMA FlowStatuses ==
  /\ \A k \in Steps : TargetStatus(k) \in PaymentStatuses
  /\ \A k \in 1..7 : TargetStatus(k) \notin ClosedStatuses
  /\ \A k \in 1..9 : MainFlow[k] \in PaymentStatuses
  BY DEF Steps, TargetStatus, PaymentStatuses, MainFlow, ClosedStatuses

LEMMA RefundTransitions ==
  ASSUME NEW s
  PROVE  /\ CanTransition(s, "REFUND_PENDING") => s = "CLOSED"
         /\ CanTransition(s, "REFUNDED") => s = "REFUND_PENDING"
  BY DEF CanTransition, ValidTransitions

LEMMA UpdatedStatusOutcome ==
  ASSUME NEW s, NEW t
  PROVE  \/ UpdatedStatus(s, t) = s
         \/ UpdatedStatus(s, t) = t /\ CanTransition(s, t)
  BY DEF UpdatedStatus

LEMMA StatusNames ==
  /\ {"CREATED", "PAYMENT_FAILED", "REFUND_PENDING", "REFUNDED"} \subseteq PaymentStatuses
  /\ "CREATED" = MainFlow[1]
  /\ "PAYMENT_FAILED" \notin ClosedStatuses
  /\ \A k \in 1..8 : MainFlow[k] \notin ClosedStatuses
  BY DEF PaymentStatuses, MainFlow, OffFlow, ClosedStatuses

-----------------------------------------------------------------------------
(* The rows of the accounts table.                                         *)

LEMMA OrderFacts ==
  ASSUME NEW p \in Payments
  PROVE  /\ Order[p] \in OrderType
         /\ Sender(p) \in AccountIds /\ Receiver(p) \in AccountIds /\ FeeAccount(p) \in AccountIds
         /\ Order[p].source \in Int /\ Order[p].target \in Int /\ Order[p].fee \in Int
         /\ Total(p) \in Int
         /\ Order[p].key \in Keys
  BY OrderAssumption, AccountAssumption
     DEF OrderType, Sender, Receiver, FeeAccount, Total

\* An account row with no negative balance.
SoundRow(row) == row \in Row /\ row.available >= 0 /\ row.frozen >= 0 /\ row.settled >= 0

LEMMA RowOperations ==
  ASSUME NEW row, SoundRow(row), NEW n \in Int, n >= 0
  PROVE  /\ CanDebit(row, n) => SoundRow(FreezeFunds(row, n))
         /\ HasFrozen(row, n) => SoundRow(UnfreezeFunds(row, n))
         /\ HasFrozen(row, n) => SoundRow(DebitAccount(row, n))
         /\ SoundRow(CreditAccount(row, n))
<1>1. /\ row \in Row
      /\ row.available \in Int /\ row.frozen \in Int /\ row.settled \in Int
      /\ row.available >= 0 /\ row.frozen >= 0 /\ row.settled >= 0
  BY DEF SoundRow, Row
<1>2. CanDebit(row, n) => SoundRow(FreezeFunds(row, n))
  BY <1>1 DEF CanDebit, SoundRow, FreezeFunds, Row
<1>3. HasFrozen(row, n) => SoundRow(UnfreezeFunds(row, n))
  BY <1>1 DEF HasFrozen, SoundRow, UnfreezeFunds, Row
<1>4. HasFrozen(row, n) => SoundRow(DebitAccount(row, n))
  BY <1>1 DEF HasFrozen, SoundRow, DebitAccount, Row
<1>5. SoundRow(CreditAccount(row, n))
  BY <1>1 DEF SoundRow, CreditAccount, Row
<1> QED BY <1>2, <1>3, <1>4, <1>5

SoundAccounts == accounts \in [AccountIds -> Row] /\ NonNegative

LEMMA UpdatedAccountSound ==
  ASSUME SoundAccounts, NEW a \in AccountIds, NEW guard, NEW row,
         guard => row \in Row /\ (Regular(a) => SoundRow(row)),
         accounts' = UpdatedAccount(a, guard, row)
  PROVE  SoundAccounts'
<1>1. accounts' \in [AccountIds -> Row]
  BY DEF SoundAccounts, UpdatedAccount
<1>2. ASSUME NEW b \in AccountIds, Regular(b)
      PROVE  accounts'[b].available >= 0 /\ accounts'[b].frozen >= 0 /\ accounts'[b].settled >= 0
  BY <1>2 DEF SoundAccounts, NonNegative, SoundRow, UpdatedAccount
<1> QED BY <1>1, <1>2 DEF SoundAccounts, NonNegative, Regular

\* The operations give rows, whatever the sign of the amount.
LEMMA RowsStayRows ==
  ASSUME NEW row \in Row, NEW n \in Int
  PROVE  /\ FreezeFunds(row, n) \in Row /\ UnfreezeFunds(row, n) \in Row
         /\ DebitAccount(row, n) \in Row /\ CreditAccount(row, n) \in Row
BY DEF FreezeFunds, UnfreezeFunds, DebitAccount, CreditAccount, Row

LEMMA CreditedAccountSound ==
  ASSUME SoundAccounts, NEW a \in AccountIds, NEW n \in Int, Regular(a) => n >= 0,
         accounts' = CreditedAccount(a, n)
  PROVE  SoundAccounts'
<1>1. accounts[a] \in Row /\ (Regular(a) => SoundRow(accounts[a]))
  BY DEF SoundAccounts, NonNegative, SoundRow
<1>2. CreditAccount(accounts[a], n) \in Row /\ (Regular(a) => SoundRow(CreditAccount(accounts[a], n)))
  BY <1>1, RowOperations, RowsStayRows
<1>3. accounts' = UpdatedAccount(a, TRUE, CreditAccount(accounts[a], n))
  BY DEF CreditedAccount, UpdatedAccount
<1> QED BY <1>2, <1>3, UpdatedAccountSound

\* A frozen, released, debited or credited amount of a payment, on a row of one
\* of its parties.
LEMMA PartyRow ==
  ASSUME SoundAccounts, NEW a \in AccountIds, NEW n \in Int, Regular(a) => n >= 0
  PROVE  /\ CanDebit(accounts[a], n) =>
              /\ FreezeFunds(accounts[a], n) \in Row
              /\ Regular(a) => SoundRow(FreezeFunds(accounts[a], n))
         /\ HasFrozen(accounts[a], n) =>
              /\ UnfreezeFunds(accounts[a], n) \in Row /\ DebitAccount(accounts[a], n) \in Row
              /\ Regular(a) => /\ SoundRow(UnfreezeFunds(accounts[a], n))
                              /\ SoundRow(DebitAccount(accounts[a], n))
<1>1. accounts[a] \in Row /\ (Regular(a) => SoundRow(accounts[a]))
  BY DEF SoundAccounts, NonNegative, SoundRow
<1> QED BY <1>1, RowOperations, RowsStayRows

LEMMA PartyAmounts ==
  ASSUME NEW p \in Payments
  PROVE  /\ Regular(Sender(p)) => Total(p) >= 0
         /\ Regular(Receiver(p)) => Order[p].target >= 0
         /\ Regular(FeeAccount(p)) => Order[p].fee >= 0
BY DEF Regular

\* No statement of any saga, compensation or refund makes a balance of a regular
\* account negative.
LEMMA NextKeepsAccountsSound ==
  ASSUME SoundAccounts, Next,
         \A q \in Refunders : refund[q].at # "idle" => refund[q].of \in Payments
  PROVE  SoundAccounts'
<1>1. ASSUME UNCHANGED accounts
      PROVE  SoundAccounts'
  BY <1>1 DEF SoundAccounts, NonNegative, Regular
<1>2. ASSUME NEW p \in Payments,
             ExecuteFreeze(p) \/ DebitSender(p) \/ CreditReceiver(p) \/ CreditFee(p)
               \/ RefundSender(p) \/ UndoReceiver(p) \/ UndoFee(p) \/ ReleaseFunds(p)
      PROVE  SoundAccounts'
  <2>1. CASE ExecuteFreeze(p)
    BY <2>1, <1>1, OrderFacts, PartyAmounts, PartyRow, UpdatedAccountSound DEF ExecuteFreeze
  <2>2. CASE DebitSender(p)
    BY <2>2, <1>1, OrderFacts, PartyAmounts, PartyRow, UpdatedAccountSound DEF DebitSender
  <2>3. CASE CreditReceiver(p)
    BY <2>3, <1>1, OrderFacts, PartyAmounts, CreditedAccountSound DEF CreditReceiver
  <2>4. CASE CreditFee(p)
    BY <2>4, <1>1, OrderFacts, PartyAmounts, CreditedAccountSound DEF CreditFee
  <2>5. CASE RefundSender(p)
    BY <2>5, <1>1, OrderFacts, PartyAmounts, CreditedAccountSound DEF RefundSender
  <2>6. CASE UndoReceiver(p)
    BY <2>6, <1>1, OrderFacts, PartyAmounts, PartyRow, UpdatedAccountSound DEF UndoReceiver
  <2>7. CASE UndoFee(p)
    BY <2>7, <1>1, OrderFacts, PartyAmounts, PartyRow, UpdatedAccountSound DEF UndoFee
  <2>8. CASE ReleaseFunds(p)
    BY <2>8, <1>1, OrderFacts, PartyAmounts, PartyRow, UpdatedAccountSound DEF ReleaseFunds
  <2> QED BY <1>2, <2>1, <2>2, <2>3, <2>4, <2>5, <2>6, <2>7, <2>8
<1>3. ASSUME NEW q \in Refunders,
             RefundPaysSender(q) \/ RefundDebitsReceiver(q) \/ RefundDebitsFee(q)
      PROVE  SoundAccounts'
  <2>0. refund[q].of \in Payments
    BY <1>3 DEF RefundPaysSender, RefundDebitsReceiver, RefundDebitsFee
  <2>1. CASE RefundPaysSender(q)
    BY <2>0, <2>1, <1>1, OrderFacts, PartyAmounts, CreditedAccountSound DEF RefundPaysSender
  <2>2. CASE RefundDebitsReceiver(q)
    BY <2>0, <2>2, <1>1, OrderFacts, PartyAmounts, PartyRow, UpdatedAccountSound DEF RefundDebitsReceiver
  <2>3. CASE RefundDebitsFee(q)
    BY <2>0, <2>3, <1>1, OrderFacts, PartyAmounts, PartyRow, UpdatedAccountSound DEF RefundDebitsFee
  <2> QED BY <1>3, <2>1, <2>2, <2>3
<1>4. ASSUME NEW p \in Payments,
             CheckIdempotency(p) \/ HandlerStep(p) \/ LoadOrder(p) \/ ReloadOrder(p)
               \/ ReadSenderForFreeze(p) \/ FindReceiver(p) \/ OpenReceiver(p)
               \/ SettlePayment(p) \/ RecordOnChain(p) \/ UpdateStatus(p) \/ MarkFailed(p)
               \/ CompensateSettlement(p)
      PROVE  UNCHANGED accounts
  BY <1>4 DEF HandlerStep, moneyVars, CheckIdempotency, Recorded, Screen, CheckSenderBalance,
       CommitOrder, WithOrder, LoadOrder, ReloadOrder, Found, ReadSenderForFreeze, FindReceiver,
       OpenReceiver,
       SettlePayment, WithEntries, RecordOnChain, UpdateStatus, MarkFailed, CompensateSettlement
<1>5. ASSUME NEW q \in Refunders,
             MarkRefundPending(q) \/ FinishRefund(q) \/ \E p \in Payments : StartRefund(q, p)
      PROVE  UNCHANGED accounts
  BY <1>5 DEF moneyVars, MarkRefundPending, FinishRefund, StartRefund, Found
<1>6. CASE Crash
  BY <1>6, <1>1 DEF Crash, moneyVars
<1> QED
  BY <1>1, <1>2, <1>3, <1>4, <1>5, <1>6 DEF Next, SagaStep, RefundStep

-----------------------------------------------------------------------------
(* The control state of the sagas.                                         *)

Shapes(p) == {{}, Journal(p), Journal(p) \cup Reversal(Journal(p))}

\* TypeOK without the rows of the accounts.
ControlTypeOK ==
  /\ status \in [Payments -> PaymentStatuses \cup {NoPayment}]
  /\ open \subseteq AccountIds
  /\ \A p \in Payments : ledger[p] \in Shapes(p)
  /\ DOMAIN ledger = Payments
  /\ anchored \subseteq Payments
  /\ idempotency \in [Keys -> Payments \cup {NoPayment}]
  /\ pc \in [Payments -> Labels]
  /\ step \in [Payments -> 0..8]
  /\ refund \in [Refunders -> [at : {"idle", "mark", "pay_sender", "debit_receiver",
                                      "debit_fee", "finish"},
                               of : Payments \cup {NoPayment}]]
  /\ lost \subseteq Payments
  /\ faults \in 0..MaxFaults
  /\ crashes \in 0..MaxCrashes

LEMMA TypeOKParts == TypeOK <=> ControlTypeOK /\ accounts \in [AccountIds -> Row]
  BY DEF TypeOK, ControlTypeOK, Shapes

Stage(p) == OrderStage(p) /\ StepStage(p) /\ JournalStage(p)

ControlInv ==
  /\ ControlTypeOK
  /\ \A p \in Payments : Stage(p)
  /\ KeyStage
  /\ AnswerStands
  /\ RefundStage

\* What a step of payment p's handler or goroutine does to the control state.
LocalStep(p) ==
  /\ status' \in [Payments -> PaymentStatuses \cup {NoPayment}]
  /\ pc' \in [Payments -> Labels]
  /\ step' \in [Payments -> 0..8]
  /\ DOMAIN ledger' = Payments
  /\ \A r \in Payments \ {p} : /\ status'[r] = status[r]
                              /\ pc'[r] = pc[r]
                              /\ step'[r] = step[r]
                              /\ ledger'[r] = ledger[r]
  /\ ledger'[p] \in Shapes(p)
  /\ status[p] # NoPayment => status'[p] # NoPayment
  /\ pc'[p] # "answered"
  /\ Stage(p)'
  /\ open' \subseteq AccountIds
  /\ anchored' \subseteq Payments
  /\ faults' \in 0..MaxFaults
  /\ UNCHANGED <<idempotency, refund, lost, crashes>>

LEMMA LocalStepKeeps ==
  ASSUME ControlInv, NEW p \in Payments, LocalStep(p)
  PROVE  ControlInv'
<1>1. ControlTypeOK'
  BY DEF ControlInv, ControlTypeOK, LocalStep, Shapes, Journal, Reversal
<1>2. ASSUME NEW r \in Payments PROVE Stage(r)'
  <2>1. CASE r = p
    BY <2>1 DEF LocalStep
  <2>2. CASE r # p
    BY <2>2 DEF ControlInv, LocalStep, Stage, OrderStage, StepStage, JournalStage
  <2> QED BY <2>1, <2>2
<1>3. \A r \in Payments : status[r] # NoPayment => status'[r] # NoPayment
  BY DEF LocalStep
<1>4. UNCHANGED <<idempotency, refund>>
  BY DEF LocalStep
<1>5. KeyStage'
  BY <1>3, <1>4 DEF ControlInv, KeyStage, ControlTypeOK
<1>6. ASSUME NEW r \in Payments, pc'[r] = "answered" PROVE pc[r] = "answered"
  BY <1>6 DEF LocalStep
<1>7. AnswerStands'
  BY <1>3, <1>4, <1>6, OrderFacts DEF ControlInv, AnswerStands, ControlTypeOK
<1>8. RefundStage'
  BY <1>3, <1>4 DEF ControlInv, RefundStage
<1> QED BY <1>1, <1>2, <1>5, <1>7, <1>8 DEF ControlInv

LEMMA FlowIndexOf == \A i \in 1..9 : FlowIndex(MainFlow[i]) = i
  BY DEF FlowIndex, MainFlow

LEMMA NotYetReached ==
  ASSUME NEW k \in Steps, NEW i \in 1..k
  PROVE  ~ IsStatusAtOrAfter(MainFlow[i], TargetStatus(k))
  BY FlowIndexOf DEF IsStatusAtOrAfter, TargetStatus, Steps

LEMMA FirstStatements ==
  ASSUME NEW k \in Steps
  PROVE  \/ FirstStatement(k) = "update" /\ k \in {1, 2, 5, 7}
         \/ FirstStatement(k) = "freeze_read" /\ k = 3
         \/ FirstStatement(k) = "debit" /\ k = 4
         \/ FirstStatement(k) = "settle" /\ k = 6
         \/ FirstStatement(k) = "anchor" /\ k = 8
  BY DEF Steps, FirstStatement

LEMMA LastCompensables ==
  ASSUME NEW k \in 0..7
  PROVE  /\ LastCompensable(k) \in {0, 3, 5, 6}
         /\ LastCompensable(k) <= k
  BY DEF LastCompensable

\* Turning back from step k, or going on undoing before it.
LEMMA UndoFromStage ==
  ASSUME ControlTypeOK, NEW p \in Payments, NEW k \in 0..7, UndoFrom(p, k),
         status'[p] # NoPayment, status'[p] \notin ClosedStatuses,
         k >= 6 => ledger'[p] \in {{}, Journal(p)}
  PROVE  /\ Stage(p)'
         /\ pc' \in [Payments -> Labels] /\ step' \in [Payments -> 0..8]
         /\ \A r \in Payments \ {p} : pc'[r] = pc[r] /\ step'[r] = step[r]
         /\ pc'[p] # "answered"
<1> DEFINE n == LastCompensable(k)
<1>1. n \in {0, 3, 5, 6} /\ n <= k
  BY LastCompensables
<1>2. /\ step' = [step EXCEPT ![p] = n]
      /\ pc' = [pc EXCEPT ![p] = IF n = 0 THEN "done" ELSE "compensate"]
  BY DEF UndoFrom, Goto
<1> HIDE DEF n
<1>3. /\ pc' \in [Payments -> Labels] /\ step' \in [Payments -> 0..8]
      /\ \A r \in Payments \ {p} : pc'[r] = pc[r] /\ step'[r] = step[r]
  BY <1>1, <1>2 DEF ControlTypeOK, Labels, BackwardLabels, FinalLabels
<1>4. step'[p] = n /\ ((pc'[p] = "compensate" /\ n # 0) \/ pc'[p] = "done")
  BY <1>1, <1>2 DEF ControlTypeOK
<1>5. Stage(p)'
  BY <1>1, <1>4 DEF Stage, OrderStage, StepStage, JournalStage, NoOrderLabels, IntakeLabels,
                    ForwardLabels
<1> QED BY <1>3, <1>4, <1>5

LEMMA LocalSteps ==
  ASSUME ControlInv, NEW p \in Payments, HandlerStep(p) \/ SagaStep(p),
         ~ CommitOrder(p)
  PROVE  LocalStep(p)
<1>0. ControlTypeOK /\ Stage(p)
  BY DEF ControlInv
<1> USE BoundAssumption
    DEF At, Goto, Succeeds, Fails, orderVars, moneyVars, Labels, IntakeLabels, ForwardLabels,
        BackwardLabels, FinalLabels, ControlTypeOK
<1>1. ASSUME Screen(p) PROVE LocalStep(p)
  <2>1. Stage(p)'
    BY <1>1, <1>0 DEF Screen, Stage, OrderStage, StepStage, JournalStage, NoOrderLabels
  <2> QED
    BY <1>1, <1>0, <2>1 DEF Screen, LocalStep
<1>2. ASSUME CheckSenderBalance(p) PROVE LocalStep(p)
  <2>1. Stage(p)'
    BY <1>2, <1>0 DEF CheckSenderBalance, Stage, OrderStage, StepStage, JournalStage, NoOrderLabels
  <2> QED
    BY <1>2, <1>0, <2>1 DEF CheckSenderBalance, LocalStep
<1>3. ASSUME LoadOrder(p) PROVE LocalStep(p)
  <2>1. Stage(p)'
    BY <1>3, <1>0 DEF LoadOrder, Stage, OrderStage, StepStage, JournalStage, NoOrderLabels
  <2> QED
    BY <1>3, <1>0, <2>1 DEF LoadOrder, LocalStep
<1>4. ASSUME ReloadOrder(p) PROVE LocalStep(p)
  <2> DEFINE k == step[p]
  <2>1. k \in Steps /\ \E i \in 1..k : status[p] = MainFlow[i]
    BY <1>4, <1>0 DEF ReloadOrder, Found, Stage, StepStage
  <2>2. ~ IsStatusAtOrAfter(status[p], TargetStatus(k))
    BY <2>1, NotYetReached
  <2>3. status[p] # NoPayment /\ status[p] \notin ClosedStatuses /\ ledger[p] \in {{}, Journal(p)}
    BY <1>4, <1>0 DEF ReloadOrder, Found, Stage, OrderStage, JournalStage, NoOrderLabels
  <2>4. CASE Goto(p, FirstStatement(k)) /\ UNCHANGED <<step, faults>>
    <3>1. FirstStatement(k) \in ForwardLabels \ {"load"}
      BY <2>1, FirstStatements
    <3>2. Stage(p)'
      BY <1>4, <1>0, <2>1, <2>4, FirstStatements
         DEF ReloadOrder, Found, Stage, OrderStage, StepStage, JournalStage, NoOrderLabels
    <3> QED
      BY <1>4, <1>0, <2>4, <3>1, <3>2 DEF ReloadOrder, Found, LocalStep
  <2>5. CASE UndoFrom(p, k - 1)
    <3>1. k - 1 \in 0..7
      BY <2>1 DEF Steps
    <3>2. status' = status /\ ledger' = ledger
      BY <1>4 DEF ReloadOrder, Found
    <3> QED
      BY <1>4, <1>0, <2>3, <2>5, <3>1, <3>2, UndoFromStage DEF ReloadOrder, Found, LocalStep
  <2> QED
    BY <1>4, <2>2, <2>4, <2>5 DEF ReloadOrder, Found
<1>5. ASSUME ReadSenderForFreeze(p) PROVE LocalStep(p)
  <2>1. Stage(p)'
    BY <1>5, <1>0 DEF ReadSenderForFreeze, Stage, OrderStage, StepStage, JournalStage, NoOrderLabels
  <2> QED
    BY <1>5, <1>0, <2>1 DEF ReadSenderForFreeze, LocalStep
<1>6. ASSUME ExecuteFreeze(p) PROVE LocalStep(p)
  <2>1. Stage(p)'
    BY <1>6, <1>0 DEF ExecuteFreeze, Stage, OrderStage, StepStage, JournalStage, NoOrderLabels
  <2> QED
    BY <1>6, <1>0, <2>1 DEF ExecuteFreeze, LocalStep
<1>7. ASSUME DebitSender(p) PROVE LocalStep(p)
  <2>1. Stage(p)'
    BY <1>7, <1>0 DEF DebitSender, Stage, OrderStage, StepStage, JournalStage, NoOrderLabels
  <2> QED
    BY <1>7, <1>0, <2>1 DEF DebitSender, LocalStep
<1>8. ASSUME FindReceiver(p) PROVE LocalStep(p)
  <2>1. Stage(p)'
    BY <1>8, <1>0 DEF FindReceiver, Stage, OrderStage, StepStage, JournalStage, NoOrderLabels
  <2> QED
    BY <1>8, <1>0, <2>1 DEF FindReceiver, LocalStep
<1>9. ASSUME OpenReceiver(p) PROVE LocalStep(p)
  <2>1. Stage(p)'
    BY <1>9, <1>0 DEF OpenReceiver, Stage, OrderStage, StepStage, JournalStage, NoOrderLabels
  <2> QED
    BY <1>9, <1>0, <2>1, OrderFacts DEF OpenReceiver, LocalStep
<1>10. ASSUME CreditReceiver(p) PROVE LocalStep(p)
  <2>1. /\ pc[p] = "credit" /\ (Goto(p, "credit_fee") \/ Goto(p, "fail"))
        /\ faults' \in 0..MaxFaults
        /\ UNCHANGED <<status, idempotency, open, ledger, anchored, step, refund, lost, crashes>>
    BY <1>10, <1>0 DEF CreditReceiver
  <2>2. Stage(p)'
    BY <1>0, <2>1 DEF Stage, OrderStage, StepStage, JournalStage, NoOrderLabels
  <2> QED
    BY <1>0, <2>1, <2>2 DEF LocalStep
<1>11. ASSUME CreditFee(p) PROVE LocalStep(p)
  <2>1. /\ pc[p] = "credit_fee" /\ (Goto(p, "update") \/ Goto(p, "fail"))
        /\ faults' \in 0..MaxFaults
        /\ UNCHANGED <<status, idempotency, open, ledger, anchored, step, refund, lost, crashes>>
    BY <1>11, <1>0 DEF CreditFee
  <2>2. Stage(p)'
    BY <1>0, <2>1 DEF Stage, OrderStage, StepStage, JournalStage, NoOrderLabels
  <2> QED
    BY <1>0, <2>1, <2>2 DEF LocalStep
<1>12. ASSUME SettlePayment(p) PROVE LocalStep(p)
  <2>0. \/ ledger' = ledger /\ (pc'[p] = "update" => ledger[p] # {})
        \/ ledger[p] = {} /\ ledger' = [ledger EXCEPT ![p] = Journal(p)]
    <3>1. {} \cup Journal(p) = Journal(p)
      OBVIOUS
    <3>2. ledger[p] = {} => WithEntries(p, Journal(p)) = [ledger EXCEPT ![p] = Journal(p)]
      BY <3>1 DEF WithEntries
    <3> QED
      BY <1>12, <1>0, <3>2 DEF SettlePayment
  <2>1. Stage(p)'
    BY <1>12, <1>0, <2>0
    DEF SettlePayment, Stage, OrderStage, StepStage, JournalStage, NoOrderLabels
  <2>2. /\ DOMAIN ledger' = Payments /\ ledger'[p] \in Shapes(p)
        /\ \A r \in Payments \ {p} : ledger'[r] = ledger[r]
    BY <1>0, <2>0 DEF Shapes
  <2> QED
    BY <1>12, <1>0, <2>1, <2>2 DEF SettlePayment, LocalStep
<1>13. ASSUME RecordOnChain(p) PROVE LocalStep(p)
  <2>1. Stage(p)'
    BY <1>13, <1>0 DEF RecordOnChain, Stage, OrderStage, StepStage, JournalStage, NoOrderLabels
  <2> QED
    BY <1>13, <1>0, <2>1 DEF RecordOnChain, LocalStep
<1>14. ASSUME UpdateStatus(p) PROVE LocalStep(p)
  <2> DEFINE k == step[p]
  <2>1. k \in Steps /\ \E i \in 1..k : status[p] = MainFlow[i]
    BY <1>14, <1>0 DEF UpdateStatus, Stage, StepStage
  <2>2. PICK s \in {status[p], TargetStatus(k)} : status' = [status EXCEPT ![p] = s]
    BY <1>14, <1>0, UpdatedStatusOutcome DEF UpdateStatus
  <2>3. \E i \in 1..(k + 1) : s = MainFlow[i]
    BY <2>1, <2>2 DEF TargetStatus, Steps
  <2>4. s \in PaymentStatuses /\ s # NoPayment /\ status'[p] = s
    <3>1. \A i \in 1..(k + 1) : i \in 1..9
      BY <2>1 DEF Steps
    <3>2. s \in PaymentStatuses
      BY <2>3, <3>1, FlowStatuses
    <3> QED BY <1>0, <2>2, <3>2
  <2>5. k < 8 => s \notin ClosedStatuses
    BY <2>1, <2>3, StatusNames DEF Steps
  <2>6. k >= 6 => ledger[p] = Journal(p)
    <3>1. pc[p] = "update"
      BY <1>14 DEF UpdateStatus
    <3>2. JournalStage(p)
      BY <1>0 DEF Stage
    <3>3. k \in Int
      BY <2>1 DEF Steps
    <3> QED BY <3>1, <3>2, <3>3 DEF JournalStage
  <2>7. /\ pc' = [pc EXCEPT ![p] = IF k = 8 THEN "done" ELSE "reload"]
        /\ step' = [step EXCEPT ![p] = IF k = 8 THEN 8 ELSE k + 1]
        /\ ledger' = ledger
    BY <1>14 DEF UpdateStatus
  <2>8. Stage(p)'
    <3>1. CASE k = 8
      BY <1>0, <2>4, <2>6, <2>7, <3>1
         DEF Stage, OrderStage, StepStage, JournalStage, NoOrderLabels
    <3>2. CASE k < 8
      <4>1. pc'[p] = "reload" /\ step'[p] = k + 1 /\ ledger'[p] = ledger[p]
        BY <1>0, <2>7, <3>2
      <4>2. k + 1 \in Steps /\ (k + 1 >= 7 => k >= 6)
        BY <2>1, <3>2 DEF Steps
      <4>3. ledger[p] \in {{}, Journal(p)}
        BY <1>14, <1>0 DEF UpdateStatus, Stage, JournalStage
      <4> QED
        BY <2>3, <2>4, <2>5, <2>6, <3>2, <4>1, <4>2, <4>3
           DEF Stage, OrderStage, StepStage, JournalStage, NoOrderLabels
    <3> QED BY <2>1, <3>1, <3>2 DEF Steps
  <2> QED
    BY <1>14, <1>0, <2>1, <2>2, <2>4, <2>7, <2>8 DEF UpdateStatus, LocalStep, Steps
<1>15. ASSUME MarkFailed(p) PROVE LocalStep(p)
  <2>1. step[p] - 1 \in 0..7
    BY <1>15, <1>0 DEF MarkFailed, Stage, StepStage, Steps
  <2>2. status[p] # NoPayment /\ status[p] \notin ClosedStatuses /\ ledger[p] \in {{}, Journal(p)}
    BY <1>15, <1>0 DEF MarkFailed, Stage, OrderStage, JournalStage, NoOrderLabels
  <2>3. PICK s \in {status[p], "PAYMENT_FAILED"} : status' = [status EXCEPT ![p] = s]
    BY <1>15, <1>0, UpdatedStatusOutcome DEF MarkFailed
  <2>4. /\ s \in PaymentStatuses /\ s # NoPayment /\ s \notin ClosedStatuses
        /\ status'[p] = s
    BY <1>0, <2>2, <2>3, StatusNames
  <2> QED
    BY <1>15, <1>0, <2>1, <2>2, <2>3, <2>4, UndoFromStage DEF MarkFailed, LocalStep
<1>16. ASSUME CompensateSettlement(p) PROVE LocalStep(p)
  <2>1. status[p] # NoPayment /\ status[p] \notin ClosedStatuses /\ ledger[p] \in {{}, Journal(p)}
    BY <1>16, <1>0 DEF CompensateSettlement, WithEntries, Stage, OrderStage, JournalStage, NoOrderLabels
  <2>2. UndoFrom(p, 5) /\ status' = status
    BY <1>16 DEF CompensateSettlement, WithEntries
  <2>3. Reversal({}) = {}
    BY DEF Reversal
  <2>4. /\ DOMAIN ledger' = Payments /\ ledger'[p] \in Shapes(p)
        /\ \A r \in Payments \ {p} : ledger'[r] = ledger[r]
    BY <1>16, <1>0, <2>1, <2>3 DEF CompensateSettlement, WithEntries, Shapes
  <2> QED
    BY <1>16, <1>0, <2>1, <2>2, <2>4, UndoFromStage DEF CompensateSettlement, WithEntries, LocalStep
<1>17. ASSUME RefundSender(p) PROVE LocalStep(p)
  <2>1. /\ pc[p] = "compensate" /\ step[p] = 5
        /\ UndoFrom(p, 4) \/ (Goto(p, "undo_receiver") /\ UNCHANGED step)
        /\ faults' \in 0..MaxFaults
        /\ UNCHANGED <<status, idempotency, open, ledger, anchored, refund, lost, crashes>>
    BY <1>17, <1>0 DEF RefundSender
  <2>2. status[p] # NoPayment /\ status[p] \notin ClosedStatuses
    BY <1>0, <2>1 DEF Stage, OrderStage, JournalStage, NoOrderLabels
  <2>3. CASE UndoFrom(p, 4)
    BY <1>0, <2>1, <2>2, <2>3, UndoFromStage DEF LocalStep
  <2>4. CASE Goto(p, "undo_receiver") /\ UNCHANGED step
    <3>1. Stage(p)'
      BY <1>0, <2>1, <2>2, <2>4 DEF Stage, OrderStage, StepStage, JournalStage, NoOrderLabels
    <3> QED
      BY <1>0, <2>1, <2>4, <3>1 DEF LocalStep
  <2> QED
    BY <2>1, <2>3, <2>4
<1>18. ASSUME UndoReceiver(p) PROVE LocalStep(p)
  <2>1. Stage(p)'
    BY <1>18, <1>0 DEF UndoReceiver, Stage, OrderStage, StepStage, JournalStage, NoOrderLabels
  <2> QED
    BY <1>18, <1>0, <2>1 DEF UndoReceiver, LocalStep
<1>19. ASSUME UndoFee(p) PROVE LocalStep(p)
  <2>1. status[p] # NoPayment /\ status[p] \notin ClosedStatuses
    BY <1>19, <1>0 DEF UndoFee, Stage, OrderStage, JournalStage, NoOrderLabels
  <2>2. UndoFrom(p, 4) /\ status' = status
    BY <1>19 DEF UndoFee
  <2> QED
    BY <1>19, <1>0, <2>1, <2>2, UndoFromStage DEF UndoFee, LocalStep
<1>20. ASSUME ReleaseFunds(p) PROVE LocalStep(p)
  <2>1. status[p] # NoPayment /\ status[p] \notin ClosedStatuses
    BY <1>20, <1>0 DEF ReleaseFunds, Stage, OrderStage, JournalStage, NoOrderLabels
  <2>2. UndoFrom(p, 2) /\ status' = status
    BY <1>20 DEF ReleaseFunds
  <2> QED
    BY <1>20, <1>0, <2>1, <2>2, UndoFromStage DEF ReleaseFunds, LocalStep
<1> QED
  BY <1>1, <1>2, <1>3, <1>4, <1>5, <1>6, <1>7, <1>8, <1>9, <1>10, <1>11, <1>12, <1>13, <1>14, <1>15, <1>16, <1>17, <1>18, <1>19, <1>20 DEF HandlerStep, SagaStep

-----------------------------------------------------------------------------
(* The steps that touch the keys, the refund handlers or the whole process. *)

LEMMA CheckIdempotencyKeeps ==
  ASSUME ControlInv, NEW p \in Payments, CheckIdempotency(p)
  PROVE  ControlInv'
<1> DEFINE first == idempotency[Order[p].key]
<1>1. PICK l \in {"screen", "answered", "rejected"} :
        /\ pc' = [pc EXCEPT ![p] = l]
        /\ l = "answered" => first # NoPayment /\ Order[first].body = Order[p].body
  BY DEF CheckIdempotency, Recorded, Goto
<1>2. /\ pc[p] = "idempotency" /\ faults' \in 0..MaxFaults
      /\ UNCHANGED <<status, idempotency, open, ledger, anchored, step, refund, lost, crashes>>
  BY BoundAssumption
     DEF CheckIdempotency, Recorded, At, Succeeds, Fails, orderVars, moneyVars, ControlInv, ControlTypeOK
<1>3. ControlTypeOK'
  BY <1>1, <1>2 DEF ControlInv, ControlTypeOK, Shapes, Journal, Reversal, Labels, IntakeLabels,
                    FinalLabels
<1>4. ASSUME NEW r \in Payments PROVE Stage(r)'
  BY <1>1, <1>2 DEF ControlInv, ControlTypeOK, Stage, OrderStage, StepStage, JournalStage,
                    NoOrderLabels, IntakeLabels, ForwardLabels
<1>5. KeyStage' /\ RefundStage'
  BY <1>2 DEF ControlInv, KeyStage, RefundStage
<1>6. Order[p].key \in Keys /\ (first # NoPayment => first \in Payments)
  BY OrderFacts DEF ControlInv, ControlTypeOK
<1>7. first # NoPayment => Order[first].key = Order[p].key /\ status[first] # NoPayment
  BY <1>6 DEF ControlInv, KeyStage
<1>8. AnswerStands'
  BY <1>1, <1>2, <1>7 DEF ControlInv, ControlTypeOK, AnswerStands
<1> QED BY <1>3, <1>4, <1>5, <1>8 DEF ControlInv

LEMMA CommitOrderKeeps ==
  ASSUME ControlInv, NEW p \in Payments, CommitOrder(p)
  PROVE  ControlInv'
<1>0. ControlTypeOK /\ Stage(p) /\ pc[p] = "commit" /\ faults' \in 0..MaxFaults
  BY BoundAssumption DEF ControlInv, ControlTypeOK, CommitOrder, WithOrder, At, Succeeds, Fails
<1>1. UNCHANGED <<open, ledger, anchored, step, refund, lost, crashes>>
  BY DEF CommitOrder, WithOrder, moneyVars
<1>2. CASE Goto(p, "rejected") /\ UNCHANGED <<status, idempotency>>
  <2>1. Stage(p)'
    BY <1>0, <1>1, <1>2 DEF Goto, Stage, OrderStage, StepStage, JournalStage, NoOrderLabels,
       IntakeLabels, ForwardLabels, ControlTypeOK
  <2>2. LocalStep(p)
    BY <1>0, <1>1, <1>2, <2>1 DEF Goto, LocalStep, ControlTypeOK, Labels, FinalLabels
  <2> QED BY <2>2, LocalStepKeeps
<1>3. CASE /\ status' = [status EXCEPT ![p] = "CREATED"]
           /\ idempotency' = [idempotency EXCEPT
                ![Order[p].key] = NotedKey(idempotency[Order[p].key], p)]
           /\ Goto(p, "load")
  <2>0. Order[p].key \in Keys
    BY OrderFacts
  <2>1. status'[p] = "CREATED" /\ "CREATED" # NoPayment /\ "CREATED" \in PaymentStatuses
    BY <1>0, <1>3, StatusNames, BoundAssumption DEF ControlTypeOK
  <2>2. ControlTypeOK'
    BY <1>0, <1>1, <1>3, <2>0, <2>1
       DEF Goto, ControlTypeOK, NotedKey, Labels, ForwardLabels, Shapes, Journal, Reversal
  <2>3. ASSUME NEW r \in Payments PROVE Stage(r)'
    <3>1. CASE r = p
      <4>1. step[p] = 1 /\ ledger[p] = {} /\ pc'[p] = "load"
        BY <1>0, <1>3 DEF Goto, Stage, StepStage, JournalStage, NoOrderLabels, IntakeLabels,
                          ControlTypeOK
      <4>2. \E i \in 1..1 : "CREATED" = MainFlow[i]
        BY StatusNames
      <4>3. "CREATED" \notin ClosedStatuses
        BY DEF ClosedStatuses
      <4> QED
        BY <1>1, <2>1, <3>1, <4>1, <4>2, <4>3 DEF Stage, OrderStage, StepStage, JournalStage,
           NoOrderLabels, IntakeLabels, ForwardLabels, Steps
    <3>2. CASE r # p
      BY <1>0, <1>1, <1>3, <3>2 DEF ControlInv, ControlTypeOK, Goto, Stage, OrderStage, StepStage,
                               JournalStage
    <3> QED BY <3>1, <3>2
  <2>4. \A r \in Payments : status[r] # NoPayment => status'[r] # NoPayment
    BY <1>0, <1>3, <2>1 DEF ControlTypeOK
  <2>5. \A k \in Keys : idempotency[k] # NoPayment => idempotency'[k] = idempotency[k]
    BY <1>0, <1>3 DEF NotedKey, ControlTypeOK
  <2>6. KeyStage'
    BY <1>0, <1>3, <2>0, <2>1, <2>4, BoundAssumption DEF ControlInv, ControlTypeOK, KeyStage, NotedKey
  <2>7. \A r \in Payments : pc'[r] = "answered" => pc[r] = "answered"
    BY <1>0, <1>3 DEF Goto, ControlTypeOK
  <2>8. AnswerStands'
    BY <1>0, <2>4, <2>5, <2>7, OrderFacts DEF ControlInv, AnswerStands, ControlTypeOK
  <2>9. RefundStage'
    BY <1>1, <2>4 DEF ControlInv, RefundStage
  <2> QED BY <2>2, <2>3, <2>6, <2>8, <2>9 DEF ControlInv
<1> QED
  BY <1>2, <1>3 DEF CommitOrder, WithOrder, orderVars

\* What a refund handler may do to the control state: move one closed order on.
LEMMA RefundMoveKeeps ==
  ASSUME ControlInv, NEW p \in Payments, NEW s \in PaymentStatuses \cup {NoPayment},
         status' = [status EXCEPT ![p] = s],
         s = status[p] \/ (status[p] \in ClosedStatuses /\ s \in {"REFUND_PENDING", "REFUNDED"}),
         UNCHANGED <<idempotency, open, ledger, anchored, pc, step, lost, crashes>>,
         faults' \in 0..MaxFaults,
         refund' \in [Refunders -> [at : {"idle", "mark", "pay_sender", "debit_receiver",
                                          "debit_fee", "finish"},
                                   of : Payments \cup {NoPayment}]],
         \A q \in Refunders : refund'[q].at # "idle" =>
            refund'[q].of \in Payments /\ status[refund'[q].of] # NoPayment
  PROVE  ControlInv'
<1>0. ControlTypeOK
  BY DEF ControlInv
<1>1. ControlTypeOK'
  BY <1>0 DEF ControlTypeOK, Shapes, Journal, Reversal
<1>2. s = status[p] \/ (s # NoPayment /\ s \in ClosedStatuses)
  BY BoundAssumption, StatusNames DEF ClosedStatuses
<1>3. \A r \in Payments : status[r] # NoPayment => status'[r] # NoPayment
  BY <1>0, <1>2 DEF ControlTypeOK
<1>4. ASSUME NEW r \in Payments PROVE Stage(r)'
  <2>1. CASE status'[r] = status[r]
    BY <2>1 DEF ControlInv, Stage, OrderStage, StepStage, JournalStage
  <2>2. CASE status'[r] # status[r]
    <3>1. r = p /\ status[p] \in ClosedStatuses /\ status'[p] = s /\ s # NoPayment /\ s \in ClosedStatuses
      BY <1>0, <1>2, <2>2 DEF ControlTypeOK
    <3>2. JournalStage(p) /\ pc[p] = "done" /\ ledger[p] = Journal(p)
      BY <3>1 DEF ControlInv, Stage, JournalStage
    <3> QED
      BY <3>1, <3>2 DEF Stage, OrderStage, StepStage, JournalStage, NoOrderLabels, IntakeLabels,
                        ForwardLabels
  <2> QED BY <2>1, <2>2
<1>5. KeyStage' /\ RefundStage'
  BY <1>0, <1>3 DEF ControlInv, KeyStage, RefundStage, ControlTypeOK
<1>6. AnswerStands'
  BY <1>0, <1>3, OrderFacts DEF ControlInv, AnswerStands, ControlTypeOK
<1> QED BY <1>1, <1>4, <1>5, <1>6 DEF ControlInv

LEMMA RefundStepKeeps ==
  ASSUME ControlInv, NEW q \in Refunders, RefundStep(q)
  PROVE  ControlInv'
<1> DEFINE p == refund[q].of
<1>0. ControlTypeOK /\ RefundStage
  BY DEF ControlInv
<1>1. refund[q].at # "idle"
  BY DEF RefundStep, MarkRefundPending, RefundPaysSender, RefundDebitsReceiver,
         RefundDebitsFee, FinishRefund
<1>2. p \in Payments /\ status[p] # NoPayment /\ status[p] \in PaymentStatuses
  BY <1>0, <1>1 DEF RefundStage, ControlTypeOK
<1>3. PICK label \in {"idle", "pay_sender", "debit_receiver", "debit_fee", "finish"} : RefundGoto(q, label)
  BY DEF RefundStep, MarkRefundPending, RefundPaysSender, RefundDebitsReceiver,
         RefundDebitsFee, FinishRefund
<1>4. /\ refund' \in [Refunders -> [at : {"idle", "mark", "pay_sender", "debit_receiver",
                                          "debit_fee", "finish"},
                                   of : Payments \cup {NoPayment}]]
      /\ \A r \in Refunders : refund'[r].at # "idle" => refund[r].at # "idle" /\ refund'[r].of = refund[r].of
  BY <1>0, <1>1, <1>2, <1>3 DEF RefundGoto, ControlTypeOK
<1>5. \A r \in Refunders : refund'[r].at # "idle" =>
        refund'[r].of \in Payments /\ status[refund'[r].of] # NoPayment
  BY <1>0, <1>4 DEF RefundStage
<1>6. /\ UNCHANGED <<idempotency, open, ledger, anchored, pc, step, lost, crashes>>
      /\ faults' \in 0..MaxFaults
  BY <1>0, BoundAssumption
     DEF RefundStep, MarkRefundPending, RefundPaysSender, RefundDebitsReceiver, RefundDebitsFee,
         FinishRefund, Succeeds, Fails, orderVars, moneyVars, sagaVars, ControlTypeOK
<1>7. \E s \in PaymentStatuses \cup {NoPayment} :
        /\ status' = [status EXCEPT ![p] = s]
        /\ s = status[p] \/ (status[p] \in ClosedStatuses /\ s \in {"REFUND_PENDING", "REFUNDED"})
  <2>1. CASE MarkRefundPending(q)
    <3>1. \/ status' = status
          \/ status' = [status EXCEPT ![p] = UpdatedStatus(status[p], "REFUND_PENDING")]
      BY <2>1 DEF MarkRefundPending
    <3>2. UpdatedStatus(status[p], "REFUND_PENDING") \in {status[p], "REFUND_PENDING"}
      BY UpdatedStatusOutcome
    <3>3. UpdatedStatus(status[p], "REFUND_PENDING") # status[p] => status[p] \in ClosedStatuses
      BY UpdatedStatusOutcome, RefundTransitions DEF ClosedStatuses
    <3> QED BY <1>0, <1>2, <3>1, <3>2, <3>3, StatusNames DEF ControlTypeOK
  <2>2. CASE FinishRefund(q)
    <3>1. \/ status' = status
          \/ status' = [status EXCEPT ![p] = UpdatedStatus(status[p], "REFUNDED")]
      BY <2>2 DEF FinishRefund
    <3>2. UpdatedStatus(status[p], "REFUNDED") \in {status[p], "REFUNDED"}
      BY UpdatedStatusOutcome
    <3>3. UpdatedStatus(status[p], "REFUNDED") # status[p] => status[p] \in ClosedStatuses
      BY UpdatedStatusOutcome, RefundTransitions DEF ClosedStatuses
    <3> QED BY <1>0, <1>2, <3>1, <3>2, <3>3, StatusNames DEF ControlTypeOK
  <2>3. CASE RefundPaysSender(q) \/ RefundDebitsReceiver(q) \/ RefundDebitsFee(q)
    <3>1. status' = status
      BY <2>3 DEF RefundPaysSender, RefundDebitsReceiver, RefundDebitsFee, orderVars
    <3> QED BY <1>0, <1>2, <3>1 DEF ControlTypeOK
  <2> QED BY <2>1, <2>2, <2>3 DEF RefundStep
<1> QED BY <1>2, <1>4, <1>5, <1>6, <1>7, RefundMoveKeeps

LEMMA StartRefundKeeps ==
  ASSUME ControlInv, NEW q \in Refunders, NEW p \in Payments, StartRefund(q, p)
  PROVE  ControlInv'
<1>0. ControlTypeOK /\ RefundStage
  BY DEF ControlInv
<1>1. status[p] # NoPayment /\ refund' = [refund EXCEPT ![q] = [at |-> "mark", of |-> p]]
  BY DEF StartRefund, Found
<1>2. /\ status' = status /\ faults' \in 0..MaxFaults
      /\ UNCHANGED <<idempotency, open, ledger, anchored, pc, step, lost, crashes>>
  BY <1>0 DEF StartRefund, Found, orderVars, moneyVars, sagaVars, ControlTypeOK
<1>3. /\ refund' \in [Refunders -> [at : {"idle", "mark", "pay_sender", "debit_receiver",
                                          "debit_fee", "finish"},
                                   of : Payments \cup {NoPayment}]]
      /\ \A r \in Refunders : refund'[r].at # "idle" =>
            refund'[r].of \in Payments /\ status[refund'[r].of] # NoPayment
  BY <1>0, <1>1 DEF ControlTypeOK, RefundStage
<1>4. status' = [status EXCEPT ![p] = status[p]] /\ status[p] \in PaymentStatuses \cup {NoPayment}
  BY <1>0, <1>2 DEF ControlTypeOK
<1> QED BY <1>2, <1>3, <1>4, RefundMoveKeeps

LEMMA CrashKeeps ==
  ASSUME ControlInv, Crash
  PROVE  ControlInv'
<1>0. ControlTypeOK
  BY DEF ControlInv
<1>1. /\ UNCHANGED <<status, idempotency, open, ledger, anchored, pc, step, faults>>
      /\ crashes < MaxCrashes /\ crashes' = crashes + 1
      /\ refund' = [q \in Refunders |-> [at |-> "idle", of |-> NoPayment]]
      /\ lost' \subseteq Payments
  BY <1>0 DEF Crash, orderVars, moneyVars, sagaVars, ControlTypeOK
<1>2. ControlTypeOK'
  <2>1. crashes' \in 0..MaxCrashes
    BY <1>0, <1>1, BoundAssumption DEF ControlTypeOK
  <2>2. refund' \in [Refunders -> [at : {"idle", "mark", "pay_sender", "debit_receiver",
                                       "debit_fee", "finish"},
                                of : Payments \cup {NoPayment}]]
    BY <1>1
  <2> QED BY <1>0, <1>1, <2>1, <2>2 DEF ControlTypeOK, Shapes, Journal, Reversal
<1>3. RefundStage'
  BY <1>1 DEF RefundStage
<1>4. (\A p \in Payments : Stage(p)') /\ KeyStage' /\ AnswerStands'
  BY <1>1 DEF ControlInv, Stage, OrderStage, StepStage, JournalStage, KeyStage, AnswerStands
<1> QED BY <1>2, <1>3, <1>4 DEF ControlInv

LEMMA NextKeepsControl ==
  ASSUME ControlInv, Next
  PROVE  ControlInv'
<1>1. ASSUME NEW p \in Payments, CheckIdempotency(p) \/ HandlerStep(p) \/ SagaStep(p)
      PROVE  ControlInv'
  BY <1>1, CheckIdempotencyKeeps, CommitOrderKeeps, LocalSteps, LocalStepKeeps DEF HandlerStep
<1>2. ASSUME NEW q \in Refunders, RefundStep(q) \/ \E p \in Payments : StartRefund(q, p)
      PROVE  ControlInv'
  BY <1>2, RefundStepKeeps, StartRefundKeeps
<1>3. CASE Crash
  BY <1>3, CrashKeeps
<1> QED BY <1>1, <1>2, <1>3 DEF Next

-----------------------------------------------------------------------------
(* The inductive invariant.                                                *)

LEMMA IInvParts == IInv <=> ControlInv /\ SoundAccounts
  BY TypeOKParts DEF IInv, ControlInv, SoundAccounts, Stage

LEMMA InitIInv == Init => IInv
<1> SUFFICES ASSUME Init PROVE IInv
  OBVIOUS
<1>1. SoundAccounts
  <2>1. ASSUME NEW a \in AccountIds PROVE SoundRow(accounts[a])
    BY AccountAssumption DEF Init, NewRow, SoundRow, Row
  <2> QED BY <2>1 DEF Init, SoundAccounts, NonNegative, SoundRow
<1>2. ControlTypeOK
  BY AccountAssumption, BoundAssumption
     DEF Init, ControlTypeOK, Shapes, Labels, IntakeLabels
<1>3. ASSUME NEW p \in Payments PROVE Stage(p)
  <2>1. NoPayment \notin ClosedStatuses
    BY BoundAssumption, StatusNames DEF ClosedStatuses, PaymentStatuses, MainFlow, OffFlow
  <2> QED
    BY <2>1 DEF Init, Stage, OrderStage, StepStage, JournalStage, NoOrderLabels, IntakeLabels,
              ForwardLabels
<1>4. KeyStage /\ AnswerStands /\ RefundStage
  BY DEF Init, KeyStage, AnswerStands, RefundStage
<1> QED BY <1>1, <1>2, <1>3, <1>4, IInvParts DEF ControlInv

LEMMA NextIInv == IInv /\ [Next]_vars => IInv'
<1> SUFFICES ASSUME IInv, [Next]_vars PROVE IInv'
  OBVIOUS
<1>0. ControlInv /\ SoundAccounts
  BY IInvParts
<1>1. CASE Next
  <2>1. ControlInv'
    BY <1>0, <1>1, NextKeepsControl
  <2>2. SoundAccounts'
    BY <1>0, <1>1, NextKeepsAccountsSound DEF ControlInv, RefundStage
  <2> QED BY <2>1, <2>2 DEF IInv, ControlInv, SoundAccounts, Stage, TypeOK, ControlTypeOK, Shapes
<1>2. CASE UNCHANGED vars
  <2>1. TypeOK' /\ NonNegative'
    BY <1>2 DEF vars, IInv, TypeOK, NonNegative, Regular, Journal, Reversal
  <2>2. ASSUME NEW p \in Payments PROVE OrderStage(p)' /\ StepStage(p)' /\ JournalStage(p)'
    BY <1>2 DEF vars, IInv, OrderStage, StepStage, JournalStage
  <2>3. KeyStage' /\ AnswerStands' /\ RefundStage'
    BY <1>2 DEF vars, IInv, KeyStage, AnswerStands, RefundStage
  <2> QED BY <2>1, <2>2, <2>3 DEF IInv
<1> QED BY <1>1, <1>2

\* Every reachable state satisfies the inductive invariant.
THEOREM Invariance == Spec => []IInv
  BY InitIInv, NextIInv, PTL DEF Spec

\* The variables keep their types; in particular the ledger of a payment only
\* ever is empty, its journal, or its journal with one reversal of it.
THEOREM TypeCorrect == Spec => []TypeOK
  BY Invariance, PTL DEF IInv

\* No interleaving of sagas, compensations, refunds, failing statements and
\* crashes makes a balance negative, of an account that no order of a negative
\* amount names; the orders of other accounts may be what they like.
THEOREM BalancesNonNegative == Spec => []NonNegative
<1>1. IInv => NonNegative
  BY DEF IInv
<1> QED BY <1>1, Invariance, PTL

\* The status CLOSED, and the refund statuses after it, are never ahead of the
\* ledger.
THEOREM ClosedIsSettled == Spec => []ClosedMeansSettled
<1>1. IInv => ClosedMeansSettled
  BY DEF IInv, JournalStage, ClosedMeansSettled
<1> QED BY <1>1, Invariance, PTL

\* The cached answer of a retried request is never about another request.
THEOREM AnswersStand == Spec => []AnswerStands
<1>1. IInv => AnswerStands
  BY DEF IInv
<1> QED BY <1>1, Invariance, PTL

-----------------------------------------------------------------------------
(* What the chain service was told.                                        *)

LEMMA RecordOnChainAnchors ==
  ASSUME IInv, AnchorStage, NEW p \in Payments, RecordOnChain(p)
  PROVE  AnchorStage'
<1>1. ControlTypeOK /\ StepStage(p) /\ JournalStage(p)
  BY IInvParts DEF ControlInv, Stage
<1>2. /\ pc[p] = "anchor" /\ pc' = [pc EXCEPT ![p] = "update"]
      /\ anchored' \subseteq anchored \cup {p}
      /\ ledger' = ledger /\ step' = step
  BY DEF RecordOnChain, At, Goto, moneyVars
<1>3. step[p] = 8 /\ ledger[p] = Journal(p)
  BY <1>1, <1>2 DEF StepStage, JournalStage, ForwardLabels
<1> QED BY <1>1, <1>2, <1>3 DEF AnchorStage, ControlTypeOK

LEMMA UpdateStatusAnchors ==
  ASSUME IInv, AnchorStage, NEW p \in Payments, UpdateStatus(p)
  PROVE  AnchorStage'
<1>1. ControlTypeOK
  BY IInvParts DEF ControlInv
<1>2. /\ pc[p] = "update"
      /\ pc' = [pc EXCEPT ![p] = IF step[p] = 8 THEN "done" ELSE "reload"]
      /\ step' = [step EXCEPT ![p] = IF step[p] = 8 THEN 8 ELSE step[p] + 1]
      /\ UNCHANGED <<ledger, anchored>>
  BY DEF UpdateStatus, At, Goto, moneyVars
<1> QED BY <1>1, <1>2 DEF AnchorStage, ControlTypeOK

\* Every other statement belongs to a payment that was not handed over yet,
\* and moves only that payment.
LEMMA OthersAnchor ==
  ASSUME IInv, AnchorStage, NEW p \in Payments, p \notin anchored,
         \A r \in Payments \ {p} : pc'[r] = pc[r] /\ step'[r] = step[r] /\ ledger'[r] = ledger[r],
         anchored' = anchored
  PROVE  AnchorStage'
<1>1. anchored \subseteq Payments
  BY DEF IInv, TypeOK
<1> QED BY <1>1 DEF AnchorStage

LEMMA NextAnchors ==
  ASSUME IInv, AnchorStage, Next
  PROVE  AnchorStage'
<1>0. ControlInv /\ ControlTypeOK
  BY IInvParts DEF ControlInv
<1>1. ASSUME NEW p \in Payments, HandlerStep(p) \/ SagaStep(p),
             ~ RecordOnChain(p), ~ UpdateStatus(p)
      PROVE  AnchorStage'
  <2>1. pc[p] \notin {"done", "update"} /\ anchored' = anchored
    BY <1>1 DEF HandlerStep, SagaStep, At, moneyVars, Screen, CheckSenderBalance,
         CommitOrder, WithOrder,
         LoadOrder, ReloadOrder, Found, ReadSenderForFreeze, ExecuteFreeze, DebitSender, FindReceiver,
         OpenReceiver, CreditReceiver, CreditFee, SettlePayment, WithEntries, MarkFailed,
         CompensateSettlement, RefundSender, UndoReceiver, UndoFee, ReleaseFunds
  <2>2. p \notin anchored
    BY <2>1 DEF AnchorStage
  <2>3. CASE CommitOrder(p)
    BY <1>0, <2>1, <2>2, <2>3, OthersAnchor DEF CommitOrder, WithOrder, Goto, moneyVars, ControlTypeOK
  <2>4. CASE ~ CommitOrder(p)
    BY <1>0, <1>1, <2>1, <2>2, <2>4, LocalSteps, OthersAnchor DEF LocalStep
  <2> QED BY <2>3, <2>4
<1>2. ASSUME NEW p \in Payments, CheckIdempotency(p)
      PROVE  AnchorStage'
  <2>1. /\ pc[p] = "idempotency"
        /\ \A r \in Payments \ {p} : pc'[r] = pc[r]
        /\ UNCHANGED <<ledger, step, anchored>>
    BY <1>0, <1>2 DEF CheckIdempotency, Recorded, At, Goto, moneyVars, ControlTypeOK
  <2>2. p \notin anchored
    BY <2>1 DEF AnchorStage
  <2> QED BY <2>1, <2>2, OthersAnchor
<1>3. ASSUME NEW q \in Refunders, RefundStep(q) \/ \E p \in Payments : StartRefund(q, p)
      PROVE  AnchorStage'
  <2>1. UNCHANGED <<ledger, step, anchored, pc>>
    BY <1>3 DEF RefundStep, MarkRefundPending, RefundPaysSender, RefundDebitsReceiver,
         RefundDebitsFee, FinishRefund, StartRefund, Found, moneyVars, sagaVars
  <2> QED BY <2>1 DEF AnchorStage
<1>4. CASE Crash
  BY <1>4 DEF Crash, AnchorStage, moneyVars, sagaVars
<1> QED
  BY <1>1, <1>2, <1>3, <1>4, RecordOnChainAnchors, UpdateStatusAnchors DEF Next

\* What was handed to the chain service is settled in the ledger and never
\* reversed there.
THEOREM AnchoredIsSettled == Spec => []AnchoredMeansSettled
<1>1. Init => AnchorStage
  BY DEF Init, AnchorStage
<1>2. IInv /\ AnchorStage /\ [Next]_vars => AnchorStage'
  <2>1. ASSUME AnchorStage, UNCHANGED vars PROVE AnchorStage'
    BY <2>1 DEF vars, AnchorStage
  <2> QED BY <2>1, NextAnchors
<1>3. AnchorStage => AnchoredMeansSettled
  BY DEF AnchorStage, AnchoredMeansSettled
<1> QED BY <1>1, <1>2, <1>3, Invariance, PTL DEF Spec

-----------------------------------------------------------------------------
\* Every change of an order's status is its creation or a transition of the
\* state machine: the updates' WHERE clauses alone guarantee it, whoever
\* issues them and whatever was read before.
THEOREM LifecycleFollowed == Spec => StatusFollowsLifecycle
<1> DEFINE Lifecycle ==
      \A p \in Payments : status'[p] # status[p] =>
        \/ status[p] = NoPayment /\ status'[p] = "CREATED"
        \/ status[p] # NoPayment /\ CanTransition(status[p], status'[p])
<1>1. IInv /\ [Next]_vars => [Lifecycle]_status
  <2> SUFFICES ASSUME IInv, Next PROVE Lifecycle \/ UNCHANGED status
    BY DEF vars
  <2>0. ControlTypeOK /\ RefundStage /\ \A p \in Payments : OrderStage(p)
    BY IInvParts DEF ControlInv, Stage
  <2>1. ASSUME NEW p \in Payments, CommitOrder(p)
        PROVE  Lifecycle \/ UNCHANGED status
    BY <2>0, <2>1 DEF CommitOrder, WithOrder, At, orderVars, OrderStage, NoOrderLabels, IntakeLabels,
                      ControlTypeOK
  <2>2. ASSUME NEW p \in Payments, NEW s, status[p] # NoPayment,
               status' = [status EXCEPT ![p] = UpdatedStatus(status[p], s)]
        PROVE  Lifecycle \/ UNCHANGED status
    BY <2>0, <2>2, UpdatedStatusOutcome DEF ControlTypeOK
  <2>3. ASSUME NEW p \in Payments, UpdateStatus(p) \/ MarkFailed(p)
        PROVE  Lifecycle \/ UNCHANGED status
    <3>1. status[p] # NoPayment
      BY <2>0, <2>3 DEF UpdateStatus, MarkFailed, At, OrderStage, NoOrderLabels, IntakeLabels
    <3>2. \/ UNCHANGED status
          \/ \E s : status' = [status EXCEPT ![p] = UpdatedStatus(status[p], s)]
      BY <2>3 DEF UpdateStatus, MarkFailed
    <3> QED BY <2>2, <3>1, <3>2
  <2>4. ASSUME NEW q \in Refunders, MarkRefundPending(q) \/ FinishRefund(q)
        PROVE  Lifecycle \/ UNCHANGED status
    <3> DEFINE p == refund[q].of
    <3>1. p \in Payments /\ status[p] # NoPayment
      BY <2>0, <2>4 DEF RefundStage, MarkRefundPending, FinishRefund
    <3>2. \/ UNCHANGED status
          \/ \E s : status' = [status EXCEPT ![p] = UpdatedStatus(status[p], s)]
      BY <2>4 DEF MarkRefundPending, FinishRefund
    <3> QED BY <2>2, <3>1, <3>2
  <2>5. ASSUME NEW p \in Payments,
               CheckIdempotency(p) \/ Screen(p) \/ CheckSenderBalance(p) \/ LoadOrder(p)
                 \/ ReloadOrder(p) \/ ReadSenderForFreeze(p) \/ ExecuteFreeze(p) \/ DebitSender(p)
                 \/ FindReceiver(p) \/ OpenReceiver(p) \/ CreditReceiver(p) \/ CreditFee(p)
                 \/ SettlePayment(p) \/ RecordOnChain(p) \/ CompensateSettlement(p)
                 \/ RefundSender(p) \/ UndoReceiver(p) \/ UndoFee(p) \/ ReleaseFunds(p)
        PROVE  UNCHANGED status
    BY <2>5 DEF orderVars, CheckIdempotency, Recorded, Screen, CheckSenderBalance, LoadOrder,
         ReloadOrder, Found, ReadSenderForFreeze, ExecuteFreeze, DebitSender, FindReceiver, OpenReceiver,
         CreditReceiver, CreditFee, SettlePayment, WithEntries, RecordOnChain,
         CompensateSettlement,
         RefundSender, UndoReceiver, UndoFee, ReleaseFunds
  <2>6. ASSUME NEW q \in Refunders,
               RefundPaysSender(q) \/ RefundDebitsReceiver(q) \/ RefundDebitsFee(q)
                 \/ \E p \in Payments : StartRefund(q, p)
        PROVE  UNCHANGED status
    BY <2>6 DEF orderVars, RefundPaysSender, RefundDebitsReceiver, RefundDebitsFee, StartRefund, Found
  <2>7. CASE Crash
    BY <2>7 DEF Crash, orderVars
  <2> QED
    BY <2>1, <2>3, <2>4, <2>5, <2>6, <2>7 DEF Next, HandlerStep, SagaStep, RefundStep
<1>2. QED
  BY <1>1, Invariance, PTL DEF Spec, StatusFollowsLifecycle

-----------------------------------------------------------------------------
(* Runs in which no statement fails, nobody asks for a refund and no two   *)
(* payments create the account of one receiver at the same time.  The      *)
(* process may still die.                                                  *)

Undisturbed ==
  /\ faults = 0
  /\ \A q \in Refunders : refund[q].at = "idle"
  /\ \A p \in Payments : pc[p] = "open_receiver" => Receiver(p) \notin open

\* The journal of every order can be posted: no amount is negative or rounds to
\* zero, and the system has the accounts that the journal names.
Settleable ==
  \A p \in Payments : /\ Order[p].source > 0
                      /\ Order[p].target > 0
                      /\ Order[p].fee > 0
                      /\ {SettlementAccount(p), FeeAccount(p)} \subseteq OpenAtStart

\* Then a saga fails at the freeze or not at all, and the accounts it needs exist.
CleanStage(p) ==
  /\ pc[p] \notin {"compensate", "undo_receiver", "undo_fee"}
  /\ pc[p] \in ForwardLabels => status[p] = MainFlow[step[p]]
  /\ pc[p] = "fail" => step[p] = 3 /\ status[p] = MainFlow[3]
  /\ pc[p] = "done" => status[p] \in {"CLOSED", "PAYMENT_FAILED"}
  /\ pc[p] = "freeze" \/ HoldsFreeze(p) \/ (pc[p] # "done" /\ Debited(p)) => Sender(p) \in open
  /\ pc[p] \notin {"find_receiver", "open_receiver", "done"} /\ Debited(p) => Receiver(p) \in open

Started == { p \in Payments : pc[p] # "idempotency" }

CleanInv ==
  /\ OpenAtStart \subseteq open
  /\ IsFiniteSet(Started)
  /\ \A p \in Payments : CleanStage(p)
  /\ FrozenBacked

\* Each status of the happy path leads to the next, or to PAYMENT_FAILED.
LEMMA MainFlowNames ==
  /\ MainFlow[9] = "CLOSED"
  /\ \A k \in 1..8 : /\ MainFlow[k] \notin {"CLOSED", "PAYMENT_FAILED", NoPayment}
                     /\ CanTransition(MainFlow[k], MainFlow[k + 1])
                     /\ CanTransition(MainFlow[k], "PAYMENT_FAILED")
<1>1. NoPayment \notin { MainFlow[i] : i \in 1..9 }
  BY BoundAssumption DEF PaymentStatuses
<1>2. \A k \in 1..8 : k \in 1..9
  OBVIOUS
<1>3. \A k \in 1..8 : MainFlow[k] # NoPayment
  BY <1>1, <1>2
<1> QED
  BY <1>3 DEF MainFlow, CanTransition, ValidTransitions

LEMMA NoPaymentIsNoStatus == NoPayment # "PAYMENT_FAILED" /\ NoPayment # "CLOSED"
  BY BoundAssumption DEF PaymentStatuses, OffFlow, MainFlow

-----------------------------------------------------------------------------
(* The journal of an order balances in every currency.                     *)

LEMMA JournalBalances ==
  ASSUME NEW p \in Payments
  PROVE  CheckBalance(Journal(p))
<1> DEFINE source == CurrencyOf[Sender(p)]
           target == CurrencyOf[Receiver(p)]
           J == Journal(p)
           amounts == [e \in J |-> e.amount]
           Side(c, d) == { e \in J : e.currency = c /\ e.direction = d }
           debit == << Entry(1, "sender", source, "DEBIT", Total(p)),
                       Entry(3, "settlement", source, "DEBIT", Order[p].source),
                       Entry(5, "settlement", source, "DEBIT", Order[p].fee),
                       Entry(7, "exchange", target, "DEBIT", Order[p].target) >>
           credit == << Entry(2, "settlement", source, "CREDIT", Total(p)),
                        Entry(4, "exchange", source, "CREDIT", Order[p].source),
                        Entry(6, "fee", source, "CREDIT", Order[p].fee),
                        Entry(8, "receiver", target, "CREDIT", Order[p].target) >>
<1> SUFFICES ASSUME NEW c \in Currencies
             PROVE  SumFunctionOnSet(amounts, Side(c, "DEBIT"))
                      = SumFunctionOnSet(amounts, Side(c, "CREDIT"))
  BY DEF CheckBalance, Volume
<1>1. J = { debit[i] : i \in 1..4 } \cup { credit[i] : i \in 1..4 }
  BY DEF Journal, EntryPair
<1> DEFINE I == { i \in 1..4 : debit[i].currency = c }
<1>2. \A i \in 1..4 : /\ debit[i].amount = credit[i].amount /\ debit[i].amount \in Int
                      /\ debit[i].currency = credit[i].currency
                      /\ debit[i].direction = "DEBIT" /\ credit[i].direction = "CREDIT"
  BY OrderFacts DEF Entry
<1>3. \A i, j \in 1..4 : /\ debit[i] = debit[j] => i = j
                         /\ credit[i] = credit[j] => i = j
  BY DEF Entry
<1> HIDE DEF debit, credit, J
<1>4. Side(c, "DEBIT") = { debit[i] : i \in I } /\ Side(c, "CREDIT") = { credit[i] : i \in I }
  BY <1>1, <1>2
<1>5. \A i \in I : amounts[debit[i]] = debit[i].amount /\ amounts[credit[i]] = credit[i].amount
  BY <1>1
<1>6. I \subseteq 1..4 /\ IsFiniteSet(I)
  <2>1. IsFiniteSet(1..4)
    <3>1. 1 \in Int /\ 4 \in Int
      OBVIOUS
    <3> QED BY <3>1, FS_Interval
  <2>2. I \subseteq 1..4
    OBVIOUS
  <2> HIDE DEF I
  <2> QED BY <2>1, <2>2, FS_Subset
<1> DEFINE paid == [i \in I |-> amounts[debit[i]]]
           got == [i \in I |-> amounts[credit[i]]]
<1>7. paid = got
  BY <1>2, <1>5
<1>8. /\ SumFunctionOnSet(amounts, { debit[i] : i \in I }) = SumFunctionOnSet(paid, I)
      /\ SumFunctionOnSet(amounts, { credit[i] : i \in I }) = SumFunctionOnSet(got, I)
  <2>1. /\ \A i \in I : amounts[debit[i]] \in Int /\ amounts[credit[i]] \in Int
        /\ \A i, j \in I : debit[i] = debit[j] => i = j
        /\ \A i, j \in I : credit[i] = credit[j] => i = j
    BY <1>2, <1>3, <1>5, <1>6
  <2> HIDE DEF I, amounts
  <2> QED BY <1>6, <2>1, SumImage
<1> HIDE DEF Side, I, amounts, paid, got
<1> QED BY <1>4, <1>7, <1>8, Zenon

\* The settlement accepts the journal once the parties' accounts exist.
LEMMA JournalAccepted ==
  ASSUME Settleable, OpenAtStart \subseteq open, NEW p \in Payments,
         Sender(p) \in open, Receiver(p) \in open
  PROVE  /\ {Sender(p), Receiver(p), SettlementAccount(p), FeeAccount(p)} \subseteq open
         /\ CheckBalance(Journal(p))
         /\ AmountsArePositive(Journal(p))
<1>1. Total(p) > 0 /\ Order[p].source > 0 /\ Order[p].fee > 0 /\ Order[p].target > 0
  BY OrderFacts DEF Settleable, Total
<1>2. AmountsArePositive(Journal(p))
  BY <1>1 DEF AmountsArePositive, Journal, EntryPair, Entry
<1> QED BY <1>2, JournalBalances DEF Settleable
-----------------------------------------------------------------------------
(* One statement of an undisturbed run.                                    *)

OthersStay(p) ==
  \A r \in Payments \ {p} : pc'[r] = pc[r] /\ step'[r] = step[r] /\ status'[r] = status[r]

\* A statement that moves no money: the payment may be accepted or refused.
QuietStep(p) ==
  /\ OthersStay(p)
  /\ UNCHANGED accounts
  /\ open \subseteq open'
  /\ CleanStage(p)'
  /\ HoldsFreeze(p)' <=> HoldsFreeze(p)
  /\ Undelivered(p)' <=> Undelivered(p)
  /\ FeeUnpaid(p)' <=> FeeUnpaid(p)
  /\ \/ OutcomeOf(p)' = OutcomeOf(p)
     \/ OutcomeOf(p) = "none" /\ OutcomeOf(p)' = "accepted"
     \/ OutcomeOf(p) = "accepted" /\ OutcomeOf(p)' = "refused"

\* A statement that carries payment p on in the saga, from one label to the next.
CarriesOn(p, from, to) ==
  /\ OthersStay(p)
  /\ pc[p] = from /\ pc'[p] = to
  /\ step'[p] = step[p] /\ step[p] = (IF from = "freeze" THEN 3 ELSE 4)
  /\ status'[p] = status[p]
  /\ open' = open
  /\ CleanStage(p)'

\* Where a goroutine goes.
LEMMA LabelMoves ==
  ASSUME ControlTypeOK, NEW p \in Payments, NEW l, Goto(p, l)
  PROVE  pc'[p] = l /\ \A r \in Payments \ {p} : pc'[r] = pc[r]
BY DEF ControlTypeOK, Goto

\* In an undisturbed run no statement fails.
LEMMA NothingFails ==
  ASSUME ControlTypeOK, Undisturbed, Undisturbed'
  PROVE  ~ Fails
BY DEF Undisturbed, Fails

\* Taking a request in moves no money.
LEMMA IntakeIsQuiet ==
  ASSUME IInv, CleanInv, Undisturbed, Undisturbed', NEW p \in Payments,
         CheckIdempotency(p) \/ HandlerStep(p)
  PROVE  QuietStep(p)
<1>0. ControlTypeOK /\ Stage(p) /\ CleanStage(p) /\ ~ Fails
  BY IInvParts, NothingFails DEF ControlInv, CleanInv
<1>1. pc[p] \in IntakeLabels /\ status[p] = NoPayment
  BY <1>0 DEF CheckIdempotency, HandlerStep, Screen, CheckSenderBalance, CommitOrder, At,
              IntakeLabels, Stage, OrderStage, NoOrderLabels
<1>2. CASE ~ CommitOrder(p)
  <2>1. PICK l \in NoOrderLabels : Goto(p, l)
    BY <1>0, <1>2 DEF CheckIdempotency, HandlerStep, Screen, CheckSenderBalance, NoOrderLabels,
                      IntakeLabels
  <2>2. UNCHANGED <<status, step, accounts, open>>
    BY <1>2 DEF CheckIdempotency, HandlerStep, Screen, CheckSenderBalance, orderVars, moneyVars
  <2>3. pc'[p] \in NoOrderLabels /\ \A r \in Payments \ {p} : pc'[r] = pc[r]
    BY <1>0, <2>1, LabelMoves
  <2> QED
    BY <1>1, <2>2, <2>3
       DEF QuietStep, OthersStay, CleanStage, HoldsFreeze, Debited, Undelivered, FeeUnpaid,
           OutcomeOf, NoOrderLabels, IntakeLabels, ForwardLabels
<1>3. CASE CommitOrder(p)
  <2>1. /\ status' = [status EXCEPT ![p] = "CREATED"] /\ Goto(p, "load")
        /\ UNCHANGED <<step, accounts, open>>
    BY <1>0, <1>3 DEF CommitOrder, WithOrder, moneyVars
  <2>2. pc'[p] = "load" /\ \A r \in Payments \ {p} : pc'[r] = pc[r]
    BY <1>0, <2>1, LabelMoves
  <2>3. status'[p] = MainFlow[1] /\ \A r \in Payments \ {p} : status'[r] = status[r]
    BY <1>0, <2>1 DEF ControlTypeOK, MainFlow
  <2>4. step[p] = 1
    BY <1>0, <1>1 DEF Stage, StepStage
  <2>5. OutcomeOf(p) = "none" /\ OutcomeOf(p)' = "accepted"
    <3>1. status'[p] \notin {NoPayment, "PAYMENT_FAILED"}
      BY <2>3, MainFlowNames
    <3>2. ~ Debited(p)'
      BY <2>2 DEF Debited
    <3>3. OutcomeOf(p)' = "accepted"
      BY <3>1, <3>2 DEF OutcomeOf
    <3>4. OutcomeOf(p) = "none"
      BY <1>1, NoPaymentIsNoStatus DEF OutcomeOf, Debited, IntakeLabels
    <3> QED BY <3>3, <3>4
  <2> QED
    BY <1>1, <2>1, <2>2, <2>3, <2>4, <2>5
       DEF QuietStep, OthersStay, CleanStage, HoldsFreeze, Debited, Undelivered, FeeUnpaid,
           IntakeLabels
<1> QED BY <1>2, <1>3

\* A statement that leaves a live payment as far as it was.
LEMMA QuietMove ==
  ASSUME NEW p \in Payments, OthersStay(p), UNCHANGED accounts, open \subseteq open',
         {status[p], status'[p]} \cap {NoPayment, "PAYMENT_FAILED"} = {},
         CleanStage(p)',
         HoldsFreeze(p)' <=> HoldsFreeze(p), Debited(p)' <=> Debited(p),
         Undelivered(p)' <=> Undelivered(p), FeeUnpaid(p)' <=> FeeUnpaid(p)
  PROVE  QuietStep(p)
<1>1. OutcomeOf(p) = IF Debited(p) THEN "made" ELSE "accepted"
  BY DEF OutcomeOf
<1>2. OutcomeOf(p)' = IF Debited(p)' THEN "made" ELSE "accepted"
  BY DEF OutcomeOf
<1> QED BY <1>1, <1>2 DEF QuietStep

Reserved(a) == { p \in Payments : Sender(p) = a /\ HoldsFreeze(p) }
Carried(a) == { p \in Payments : Undelivered(p) /\ Receiver(p) = a }
Charged(a) == { p \in Payments : FeeUnpaid(p) /\ FeeAccount(p) = a }

\* Only finitely many payments have frozen money or money on its way.
LEMMA FewStarted ==
  ASSUME CleanInv, NEW a
  PROVE  IsFiniteSet(Reserved(a)) /\ IsFiniteSet(Carried(a)) /\ IsFiniteSet(Charged(a))
<1>1. Reserved(a) \subseteq Started /\ Carried(a) \subseteq Started /\ Charged(a) \subseteq Started
  BY DEF Reserved, Carried, Charged, Started, HoldsFreeze, Undelivered, FeeUnpaid
<1> QED BY <1>1, FS_Subset DEF CleanInv

\* The amounts of an order, and of one that can be settled.
LEMMA AmountsAreInt ==
  ASSUME NEW p \in Payments
  PROVE  /\ Totals[p] = Total(p) /\ Totals[p] \in Int
         /\ Targets[p] = Order[p].target /\ Targets[p] \in Int
         /\ Fees[p] = Order[p].fee /\ Fees[p] \in Int
  BY OrderFacts DEF Totals, Targets, Fees

LEMMA AmountsAreNat ==
  ASSUME Settleable, NEW p \in Payments
  PROVE  Totals[p] \in Nat /\ Targets[p] \in Nat /\ Fees[p] \in Nat
<1>1. Order[p].source > 0 /\ Order[p].target > 0 /\ Order[p].fee > 0
  BY DEF Settleable
<1> QED BY <1>1, OrderFacts, AmountsAreInt DEF Total

LEMMA AllRegular ==
  ASSUME Settleable
  PROVE  \A a : Regular(a)
BY OrderFacts DEF Settleable, Regular, Total

\* What is frozen of an account covers each of the payments that wait for it.
LEMMA FreezeCovers ==
  ASSUME Settleable, IInv, CleanInv, NEW p \in Payments, HoldsFreeze(p)
  PROVE  HasFrozen(accounts[Sender(p)], Total(p))
<1> DEFINE a == Sender(p)
           R == Reserved(a)
<1>1. IsFiniteSet(R)
  BY FewStarted
<1>2. \A q \in R : Totals[q] \in Nat
  BY AmountsAreNat DEF Reserved
<1>3. p \in R /\ Totals[p] = Total(p)
  BY DEF Reserved, Totals
<1>4. SumFunctionOnSet(Totals, R) = Totals[p] + SumFunctionOnSet(Totals, R \ {p})
  <2>1. \A q \in R : Totals[q] \in Int
    BY <1>2
  <2> HIDE DEF R
  <2> QED BY <1>1, <1>3, <2>1, SumRemove
<1>5. SumFunctionOnSet(Totals, R \ {p}) \in Nat
  <2>1. IsFiniteSet(R \ {p}) /\ \A q \in R \ {p} : Totals[q] \in Nat
    <3> HIDE DEF R
    <3> QED BY <1>1, <1>2, FS_Subset
  <2> HIDE DEF R
  <2> QED BY <2>1, SumNat
<1>6. accounts[a].frozen = SumFunctionOnSet(Totals, R)
  BY OrderFacts DEF CleanInv, FrozenBacked, Reserved
<1> HIDE DEF a, R
<1>7. Total(p) \in Int
  BY OrderFacts
<1> QED BY <1>3, <1>4, <1>5, <1>6, <1>7 DEF HasFrozen, a

\* What a statement of an undisturbed saga does: four of them move money, and
\* the one that failed in freezing ends the saga.
LEMMA SagaSteps ==
  ASSUME IInv, CleanInv, Undisturbed, Undisturbed', Settleable, NEW p \in Payments, SagaStep(p)
  PROVE  \/ QuietStep(p)
         \/ /\ CarriesOn(p, "freeze", "update")
            /\ CanDebit(accounts[Sender(p)], Total(p))
            /\ accounts' = [accounts EXCEPT ![Sender(p)] = FreezeFunds(accounts[Sender(p)], Total(p))]
         \/ /\ CarriesOn(p, "debit", "find_receiver")
            /\ accounts' = [accounts EXCEPT ![Sender(p)] = DebitAccount(accounts[Sender(p)], Total(p))]
         \/ /\ CarriesOn(p, "credit", "credit_fee")
            /\ accounts' = [accounts EXCEPT ![Receiver(p)] =
                                CreditAccount(accounts[Receiver(p)], Order[p].target)]
         \/ /\ CarriesOn(p, "credit_fee", "update")
            /\ accounts' = [accounts EXCEPT ![FeeAccount(p)] =
                                CreditAccount(accounts[FeeAccount(p)], Order[p].fee)]
<1>0. ControlTypeOK /\ Stage(p) /\ CleanStage(p) /\ ~ Fails /\ OpenAtStart \subseteq open
  BY IInvParts, NothingFails DEF ControlInv, CleanInv
<1> DEFINE k == step[p]
<1>1. pc[p] \in ForwardLabels \ {"load"} => k \in 1..8
  BY <1>0 DEF Stage, StepStage, Steps
<1>2. \A j \in 1..8 : MainFlow[j] \notin {"CLOSED", "PAYMENT_FAILED", NoPayment}
  BY MainFlowNames
<1>3. ASSUME LoadOrder(p) PROVE QuietStep(p)
  <2>1. pc[p] = "load" /\ Goto(p, "reload") /\ UNCHANGED <<status, step, accounts, open>>
    BY <1>0, <1>3 DEF LoadOrder, At, orderVars, moneyVars
  <2>2. pc'[p] = "reload" /\ OthersStay(p)
    BY <1>0, <2>1, LabelMoves DEF OthersStay
  <2>3. k = 1 /\ status[p] = MainFlow[k]
    BY <1>0, <2>1 DEF Stage, StepStage, CleanStage, ForwardLabels
  <2> QED
    BY <2>1, <2>2, <2>3, <1>2, QuietMove
       DEF CleanStage, HoldsFreeze, Debited, Undelivered, FeeUnpaid, ForwardLabels
<1>4. ASSUME ReloadOrder(p) PROVE QuietStep(p)
  <2>1. pc[p] = "reload" /\ UNCHANGED <<status, accounts, open>>
    BY <1>4 DEF ReloadOrder, Found, At, orderVars, moneyVars
  <2>2. k \in 1..8 /\ status[p] = MainFlow[k]
    BY <1>0, <1>1, <2>1 DEF CleanStage, ForwardLabels
  <2>3. ~ IsStatusAtOrAfter(status[p], TargetStatus(k)) /\ CanTransition(status[p], TargetStatus(k))
    <3>1. k \in Steps /\ k \in 1..k
      BY <2>2 DEF Steps
    <3> QED BY <2>2, <3>1, NotYetReached, MainFlowNames DEF TargetStatus
  <2>4. Goto(p, FirstStatement(k)) /\ UNCHANGED step
    BY <1>0, <1>4, <2>3 DEF ReloadOrder, Found
  <2>5. pc'[p] = FirstStatement(k) /\ OthersStay(p)
    BY <1>0, <2>1, <2>4, LabelMoves DEF OthersStay
  <2>6. k \in Steps
    BY <2>2 DEF Steps
  <2> QED
    BY <1>0, <2>1, <2>2, <2>4, <2>5, <2>6, <1>2, QuietMove, FirstStatements
       DEF CleanStage, HoldsFreeze, Debited, Undelivered, FeeUnpaid, ForwardLabels
<1>5. ASSUME ReadSenderForFreeze(p) PROVE QuietStep(p)
  <2>1. /\ pc[p] = "freeze_read" /\ UNCHANGED <<status, step, accounts, open>>
        /\ \/ Goto(p, "freeze") /\ Sender(p) \in open
           \/ Goto(p, "fail")
    BY <1>0, <1>5 DEF ReadSenderForFreeze, At, orderVars, moneyVars
  <2>2. pc'[p] \in {"freeze", "fail"} /\ (pc'[p] = "freeze" => Sender(p) \in open) /\ OthersStay(p)
    BY <1>0, <2>1, LabelMoves DEF OthersStay
  <2>3. k = 3 /\ status[p] = MainFlow[k]
    BY <1>0, <2>1 DEF Stage, StepStage, CleanStage, ForwardLabels
  <2> QED
    BY <2>1, <2>2, <2>3, <1>2, QuietMove
       DEF CleanStage, HoldsFreeze, Debited, Undelivered, FeeUnpaid, ForwardLabels
<1>6. ASSUME FindReceiver(p) PROVE QuietStep(p)
  <2>1. /\ pc[p] = "find_receiver" /\ UNCHANGED <<status, step, accounts, open>>
        /\ \/ Goto(p, "credit") /\ Receiver(p) \in open
           \/ Goto(p, "open_receiver")
    BY <1>0, <1>6 DEF FindReceiver, At, orderVars, moneyVars
  <2>2. /\ pc'[p] \in {"credit", "open_receiver"} /\ OthersStay(p)
        /\ pc'[p] = "credit" => Receiver(p) \in open
    BY <1>0, <2>1, LabelMoves DEF OthersStay
  <2>3. k = 4 /\ status[p] = MainFlow[k]
    BY <1>0, <2>1 DEF Stage, StepStage, CleanStage, ForwardLabels
  <2> QED
    BY <1>0, <2>1, <2>2, <2>3, <1>2, QuietMove
       DEF CleanStage, HoldsFreeze, Debited, Undelivered, FeeUnpaid, ForwardLabels
<1>7. ASSUME OpenReceiver(p) PROVE QuietStep(p)
  <2>1. /\ pc[p] = "open_receiver" /\ UNCHANGED <<status, step, accounts>>
        /\ open' = open \cup {Receiver(p)} /\ Goto(p, "credit")
    BY <1>0, <1>7 DEF OpenReceiver, At, orderVars, Undisturbed
  <2>2. pc'[p] = "credit" /\ OthersStay(p)
    BY <1>0, <2>1, LabelMoves DEF OthersStay
  <2>3. k = 4 /\ status[p] = MainFlow[k]
    BY <1>0, <2>1 DEF Stage, StepStage, CleanStage, ForwardLabels
  <2> QED
    BY <1>0, <2>1, <2>2, <2>3, <1>2, QuietMove
       DEF CleanStage, HoldsFreeze, Debited, Undelivered, FeeUnpaid, ForwardLabels
<1>8. ASSUME SettlePayment(p) PROVE QuietStep(p)
  <2>1. pc[p] = "settle" /\ UNCHANGED <<status, step, accounts, open>>
    BY <1>8 DEF SettlePayment, At, orderVars
  <2>2. k = 6 /\ status[p] = MainFlow[k] /\ Sender(p) \in open /\ Receiver(p) \in open
    BY <1>0, <2>1 DEF Stage, StepStage, CleanStage, ForwardLabels, Debited
  <2>3. Goto(p, "update")
    BY <1>0, <1>8, <2>2, JournalAccepted DEF SettlePayment
  <2>4. pc'[p] = "update" /\ OthersStay(p)
    BY <1>0, <2>1, <2>3, LabelMoves DEF OthersStay
  <2> QED
    BY <1>0, <2>1, <2>2, <2>4, <1>2, QuietMove
       DEF CleanStage, HoldsFreeze, Debited, Undelivered, FeeUnpaid, ForwardLabels
<1>9. ASSUME RecordOnChain(p) PROVE QuietStep(p)
  <2>1. pc[p] = "anchor" /\ Goto(p, "update") /\ UNCHANGED <<status, step, accounts, open>>
    BY <1>9 DEF RecordOnChain, At, orderVars, moneyVars
  <2>2. pc'[p] = "update" /\ OthersStay(p)
    BY <1>0, <2>1, LabelMoves DEF OthersStay
  <2>3. k = 8 /\ status[p] = MainFlow[k]
    BY <1>0, <2>1 DEF Stage, StepStage, CleanStage, ForwardLabels
  <2> QED
    BY <1>0, <2>1, <2>2, <2>3, <1>2, QuietMove
       DEF CleanStage, HoldsFreeze, Debited, Undelivered, FeeUnpaid, ForwardLabels
<1>10. ASSUME UpdateStatus(p) PROVE QuietStep(p)
  <2>1. /\ pc[p] = "update" /\ UNCHANGED <<accounts, open>>
        /\ status' = [status EXCEPT ![p] = UpdatedStatus(status[p], TargetStatus(k))]
        /\ Goto(p, IF k = 8 THEN "done" ELSE "reload")
        /\ step' = [step EXCEPT ![p] = IF k = 8 THEN 8 ELSE k + 1]
    BY <1>0, <1>10 DEF UpdateStatus, At, moneyVars
  <2>2. k \in 1..8 /\ status[p] = MainFlow[k]
    BY <1>0, <1>1, <2>1 DEF CleanStage, ForwardLabels
  <2>3. UpdatedStatus(status[p], TargetStatus(k)) = MainFlow[k + 1]
    BY <2>2, MainFlowNames DEF UpdatedStatus, TargetStatus
  <2>4. /\ pc'[p] = (IF k = 8 THEN "done" ELSE "reload")
        /\ step'[p] = (IF k = 8 THEN 8 ELSE k + 1)
        /\ status'[p] = MainFlow[k + 1]
        /\ OthersStay(p)
    BY <1>0, <2>1, <2>3, LabelMoves DEF OthersStay, ControlTypeOK
  <2>5. MainFlow[k + 1] \notin {NoPayment, "PAYMENT_FAILED"} /\ MainFlow[9] = "CLOSED"
    <3>1. k + 1 \in 1..8 \/ k + 1 = 9
      BY <2>2
    <3> QED BY <3>1, <1>2, MainFlowNames, NoPaymentIsNoStatus
  <2>6. CASE k = 8
    BY <1>0, <2>1, <2>2, <2>4, <2>5, <2>6, <1>2, QuietMove
       DEF CleanStage, HoldsFreeze, Debited, Undelivered, FeeUnpaid, ForwardLabels
  <2>7. CASE k # 8
    BY <1>0, <2>1, <2>2, <2>4, <2>5, <2>7, <1>2, QuietMove
       DEF CleanStage, HoldsFreeze, Debited, Undelivered, FeeUnpaid, ForwardLabels
  <2> QED BY <2>6, <2>7
<1>11. ASSUME MarkFailed(p) PROVE QuietStep(p)
  <2>1. /\ pc[p] = "fail" /\ UNCHANGED <<accounts, open>>
        /\ status' = [status EXCEPT ![p] = UpdatedStatus(status[p], "PAYMENT_FAILED")]
        /\ UndoFrom(p, k - 1)
    BY <1>0, <1>11 DEF MarkFailed, At, moneyVars
  <2>2. k = 3 /\ status[p] = MainFlow[3]
    BY <1>0, <2>1 DEF CleanStage
  <2>3. UpdatedStatus(status[p], "PAYMENT_FAILED") = "PAYMENT_FAILED"
    BY <2>2, MainFlowNames DEF UpdatedStatus
  <2>4. LastCompensable(k - 1) = 0
    BY <2>2 DEF LastCompensable
  <2>5. Goto(p, "done") /\ step' = [step EXCEPT ![p] = 0]
    BY <2>1, <2>4 DEF UndoFrom
  <2>6. /\ pc'[p] = "done" /\ step'[p] = 0 /\ status'[p] = "PAYMENT_FAILED"
        /\ OthersStay(p)
    BY <1>0, <2>1, <2>3, <2>5, LabelMoves DEF OthersStay, ControlTypeOK
  <2>7. OutcomeOf(p) = "accepted"
    BY <2>1, <2>2, <1>2 DEF OutcomeOf, Debited
  <2>8. OutcomeOf(p)' = "refused"
    BY <2>6, NoPaymentIsNoStatus DEF OutcomeOf, Debited
  <2> QED
    BY <1>0, <2>1, <2>2, <2>6, <2>7, <2>8
       DEF QuietStep, CleanStage, HoldsFreeze, Debited, Undelivered, FeeUnpaid, ForwardLabels
<1>12. ASSUME ExecuteFreeze(p)
       PROVE  \/ QuietStep(p)
              \/ /\ CarriesOn(p, "freeze", "update")
                 /\ CanDebit(accounts[Sender(p)], Total(p))
                 /\ accounts' = [accounts EXCEPT ![Sender(p)] =
                                     FreezeFunds(accounts[Sender(p)], Total(p))]
  <2>1. pc[p] = "freeze" /\ UNCHANGED <<status, step, open>>
    BY <1>12 DEF ExecuteFreeze, At, orderVars
  <2>2. k = 3 /\ status[p] = MainFlow[k] /\ Sender(p) \in open
    BY <1>0, <2>1 DEF Stage, StepStage, CleanStage, ForwardLabels
  <2>3. CASE CanDebit(accounts[Sender(p)], Total(p))
    <3>1. /\ Goto(p, "update")
          /\ accounts' = [accounts EXCEPT ![Sender(p)] = FreezeFunds(accounts[Sender(p)], Total(p))]
      BY <1>0, <1>12, <2>2, <2>3 DEF ExecuteFreeze, UpdatedAccount
    <3>2. pc'[p] = "update" /\ OthersStay(p)
      BY <1>0, <2>1, <3>1, LabelMoves DEF OthersStay
    <3>3. CarriesOn(p, "freeze", "update")
      BY <1>0, <2>1, <2>2, <3>2 DEF CarriesOn, CleanStage, HoldsFreeze, Debited, ForwardLabels
    <3> QED BY <2>3, <3>1, <3>3
  <2>4. CASE ~ CanDebit(accounts[Sender(p)], Total(p))
    <3>1. Goto(p, "fail") /\ accounts' = accounts
      BY <1>0, <1>12, <2>4 DEF ExecuteFreeze, UpdatedAccount
    <3>2. pc'[p] = "fail" /\ OthersStay(p)
      BY <1>0, <2>1, <3>1, LabelMoves DEF OthersStay
    <3> QED
      BY <1>0, <2>1, <2>2, <3>1, <3>2, <1>2, QuietMove
         DEF CleanStage, HoldsFreeze, Debited, Undelivered, FeeUnpaid, ForwardLabels
  <2> QED BY <2>3, <2>4
<1>13. ASSUME DebitSender(p)
       PROVE  /\ CarriesOn(p, "debit", "find_receiver")
              /\ accounts' = [accounts EXCEPT ![Sender(p)] =
                                  DebitAccount(accounts[Sender(p)], Total(p))]
  <2>1. pc[p] = "debit" /\ UNCHANGED <<status, step, open>>
    BY <1>13 DEF DebitSender, At, orderVars
  <2>2. k = 4 /\ status[p] = MainFlow[k] /\ Sender(p) \in open
    BY <1>0, <2>1 DEF Stage, StepStage, CleanStage, ForwardLabels, HoldsFreeze
  <2>3. HasFrozen(accounts[Sender(p)], Total(p))
    BY <2>1, FreezeCovers DEF HoldsFreeze
  <2>4. /\ Goto(p, "find_receiver")
        /\ accounts' = [accounts EXCEPT ![Sender(p)] = DebitAccount(accounts[Sender(p)], Total(p))]
    BY <1>0, <1>13, <2>2, <2>3 DEF DebitSender, UpdatedAccount
  <2>5. pc'[p] = "find_receiver" /\ OthersStay(p)
    BY <1>0, <2>1, <2>4, LabelMoves DEF OthersStay
  <2> QED
    BY <1>0, <2>1, <2>2, <2>4, <2>5 DEF CarriesOn, CleanStage, HoldsFreeze, Debited, ForwardLabels
<1>14. ASSUME CreditReceiver(p)
       PROVE  /\ CarriesOn(p, "credit", "credit_fee")
              /\ accounts' = [accounts EXCEPT ![Receiver(p)] =
                                  CreditAccount(accounts[Receiver(p)], Order[p].target)]
  <2>1. /\ pc[p] = "credit" /\ UNCHANGED <<status, step, open>> /\ Goto(p, "credit_fee")
        /\ accounts' = CreditedAccount(Receiver(p), Order[p].target)
    BY <1>0, <1>14 DEF CreditReceiver, At, orderVars
  <2>2. k = 4 /\ status[p] = MainFlow[k] /\ Sender(p) \in open /\ Receiver(p) \in open
    BY <1>0, <2>1 DEF Stage, StepStage, CleanStage, ForwardLabels, Debited
  <2>3. pc'[p] = "credit_fee" /\ OthersStay(p)
    BY <1>0, <2>1, LabelMoves DEF OthersStay
  <2> QED
    BY <1>0, <2>1, <2>2, <2>3
       DEF CarriesOn, CleanStage, HoldsFreeze, Debited, ForwardLabels, CreditedAccount
<1>15. ASSUME CreditFee(p)
       PROVE  /\ CarriesOn(p, "credit_fee", "update")
              /\ accounts' = [accounts EXCEPT ![FeeAccount(p)] =
                                  CreditAccount(accounts[FeeAccount(p)], Order[p].fee)]
  <2>1. /\ pc[p] = "credit_fee" /\ UNCHANGED <<status, step, open>> /\ Goto(p, "update")
        /\ accounts' = CreditedAccount(FeeAccount(p), Order[p].fee)
    BY <1>0, <1>15 DEF CreditFee, At, orderVars
  <2>2. /\ k = 4 /\ status[p] = MainFlow[k] /\ Sender(p) \in open /\ Receiver(p) \in open
        /\ FeeAccount(p) \in open
    BY <1>0, <2>1 DEF Stage, StepStage, CleanStage, ForwardLabels, Debited, Settleable
  <2>3. pc'[p] = "update" /\ OthersStay(p)
    BY <1>0, <2>1, LabelMoves DEF OthersStay
  <2> QED
    BY <1>0, <2>1, <2>2, <2>3
       DEF CarriesOn, CleanStage, HoldsFreeze, Debited, ForwardLabels, CreditedAccount
<1>16. ~ (CompensateSettlement(p) \/ RefundSender(p) \/ UndoReceiver(p) \/ UndoFee(p) \/ ReleaseFunds(p))
  BY <1>0 DEF CompensateSettlement, RefundSender, UndoReceiver, UndoFee, ReleaseFunds, At, CleanStage
<1> QED
  BY <1>3, <1>4, <1>5, <1>6, <1>7, <1>8, <1>9, <1>10, <1>11, <1>12, <1>13, <1>14, <1>15, <1>16
     DEF SagaStep

-----------------------------------------------------------------------------
(* Reservations and payments under way, statement by statement.            *)

\* How the sets of payments change when one payment moves.
LEMMA OneMoves ==
  ASSUME NEW p \in Payments, OthersStay(p), NEW a
  PROVE  /\ Reserved(a)' = IF Sender(p) = a /\ HoldsFreeze(p)' THEN Reserved(a) \cup {p} ELSE Reserved(a) \ {p}
         /\ Carried(a)' = IF Receiver(p) = a /\ Undelivered(p)' THEN Carried(a) \cup {p} ELSE Carried(a) \ {p}
         /\ Charged(a)' = IF FeeAccount(p) = a /\ FeeUnpaid(p)' THEN Charged(a) \cup {p} ELSE Charged(a) \ {p}
<1>1. \A r \in Payments \ {p} : /\ HoldsFreeze(r)' <=> HoldsFreeze(r)
                                /\ Undelivered(r)' <=> Undelivered(r)
                                /\ FeeUnpaid(r)' <=> FeeUnpaid(r)
  BY DEF OthersStay, HoldsFreeze, Undelivered, FeeUnpaid
<1> QED BY <1>1 DEF Reserved, Carried, Charged

Part(condition, amount) == IF condition THEN amount ELSE 0

\* What is reserved of, and on its way to, an account after payment p moved.
LEMMA SumsMove ==
  ASSUME Settleable, CleanInv, NEW p \in Payments, OthersStay(p), NEW a
  PROVE  /\ SumFunctionOnSet(Totals, Reserved(a))' =
              SumFunctionOnSet(Totals, Reserved(a))
                + Part(Sender(p) = a /\ HoldsFreeze(p)', Total(p))
                - Part(Sender(p) = a /\ HoldsFreeze(p), Total(p))
         /\ OnItsWayTo(a)' =
              OnItsWayTo(a)
                + Part(Receiver(p) = a /\ Undelivered(p)', Order[p].target)
                - Part(Receiver(p) = a /\ Undelivered(p), Order[p].target)
                + Part(FeeAccount(p) = a /\ FeeUnpaid(p)', Order[p].fee)
                - Part(FeeAccount(p) = a /\ FeeUnpaid(p), Order[p].fee)
         /\ SumFunctionOnSet(Totals, Reserved(a)) \in Int
         /\ OnItsWayTo(a) \in Nat
<1>0. IsFiniteSet(Reserved(a)) /\ IsFiniteSet(Carried(a)) /\ IsFiniteSet(Charged(a))
  BY FewStarted
<1>1. /\ \A q \in Reserved(a) : Totals[q] \in Int
      /\ \A q \in Carried(a) : Targets[q] \in Int /\ Targets[q] \in Nat
      /\ \A q \in Charged(a) : Fees[q] \in Int /\ Fees[q] \in Nat
  BY AmountsAreNat, AmountsAreInt DEF Reserved, Carried, Charged
<1>2. /\ Totals[p] = Total(p) /\ Totals[p] \in Int
      /\ Targets[p] = Order[p].target /\ Targets[p] \in Int
      /\ Fees[p] = Order[p].fee /\ Fees[p] \in Int
  BY AmountsAreInt
<1>3. /\ p \in Reserved(a) <=> Sender(p) = a /\ HoldsFreeze(p)
      /\ p \in Carried(a) <=> Receiver(p) = a /\ Undelivered(p)
      /\ p \in Charged(a) <=> FeeAccount(p) = a /\ FeeUnpaid(p)
  BY DEF Reserved, Carried, Charged
<1>4. /\ SumFunctionOnSet(Totals, Reserved(a)) \in Int
      /\ SumFunctionOnSet(Targets, Carried(a)) \in Nat
      /\ SumFunctionOnSet(Fees, Charged(a)) \in Nat
  BY <1>0, <1>1, SumInt, SumNat
<1>5. SumFunctionOnSet(Totals, Reserved(a))' =
        SumFunctionOnSet(Totals, Reserved(a))
          + Part(Sender(p) = a /\ HoldsFreeze(p)', Total(p))
          - Part(Sender(p) = a /\ HoldsFreeze(p), Total(p))
  <2>1. SumFunctionOnSet(Totals, Reserved(a))' = SumFunctionOnSet(Totals, Reserved(a)')
    BY DEF Totals
  <2>2. /\ SumFunctionOnSet(Totals, Reserved(a) \cup {p}) =
             SumFunctionOnSet(Totals, Reserved(a)) + (IF p \in Reserved(a) THEN 0 ELSE Totals[p])
        /\ SumFunctionOnSet(Totals, Reserved(a) \ {p}) =
             SumFunctionOnSet(Totals, Reserved(a)) - (IF p \in Reserved(a) THEN Totals[p] ELSE 0)
    <3>1. IsFiniteSet(Reserved(a)) /\ (\A q \in Reserved(a) : Totals[q] \in Int) /\ Totals[p] \in Int
      BY <1>0, <1>1, <1>2
    <3> QED BY <3>1, SumWith, SMTT(60)
  <2>3. CASE Sender(p) = a /\ HoldsFreeze(p)'
    <3>1. SumFunctionOnSet(Totals, Reserved(a)') = SumFunctionOnSet(Totals, Reserved(a) \cup {p})
      BY <2>3, OneMoves
    <3> QED BY <1>2, <1>3, <1>4, <2>1, <2>2, <2>3, <3>1 DEF Part
  <2>4. CASE ~ (Sender(p) = a /\ HoldsFreeze(p)')
    <3>1. SumFunctionOnSet(Totals, Reserved(a)') = SumFunctionOnSet(Totals, Reserved(a) \ {p})
      BY <2>4, OneMoves
    <3> QED BY <1>2, <1>3, <1>4, <2>1, <2>2, <2>4, <3>1 DEF Part
  <2> QED BY <2>3, <2>4
<1>6. SumFunctionOnSet(Targets, Carried(a))' =
        SumFunctionOnSet(Targets, Carried(a))
          + Part(Receiver(p) = a /\ Undelivered(p)', Order[p].target)
          - Part(Receiver(p) = a /\ Undelivered(p), Order[p].target)
  <2>1. SumFunctionOnSet(Targets, Carried(a))' = SumFunctionOnSet(Targets, Carried(a)')
    BY DEF Targets
  <2>2. /\ SumFunctionOnSet(Targets, Carried(a) \cup {p}) =
             SumFunctionOnSet(Targets, Carried(a)) + (IF p \in Carried(a) THEN 0 ELSE Targets[p])
        /\ SumFunctionOnSet(Targets, Carried(a) \ {p}) =
             SumFunctionOnSet(Targets, Carried(a)) - (IF p \in Carried(a) THEN Targets[p] ELSE 0)
    <3>1. IsFiniteSet(Carried(a)) /\ (\A q \in Carried(a) : Targets[q] \in Int) /\ Targets[p] \in Int
      BY <1>0, <1>1, <1>2
    <3> QED BY <3>1, SumWith, SMTT(60)
  <2>3. CASE Receiver(p) = a /\ Undelivered(p)'
    <3>1. SumFunctionOnSet(Targets, Carried(a)') = SumFunctionOnSet(Targets, Carried(a) \cup {p})
      BY <2>3, OneMoves
    <3> QED BY <1>2, <1>3, <1>4, <2>1, <2>2, <2>3, <3>1 DEF Part
  <2>4. CASE ~ (Receiver(p) = a /\ Undelivered(p)')
    <3>1. SumFunctionOnSet(Targets, Carried(a)') = SumFunctionOnSet(Targets, Carried(a) \ {p})
      BY <2>4, OneMoves
    <3> QED BY <1>2, <1>3, <1>4, <2>1, <2>2, <2>4, <3>1 DEF Part
  <2> QED BY <2>3, <2>4
<1>7. SumFunctionOnSet(Fees, Charged(a))' =
        SumFunctionOnSet(Fees, Charged(a))
          + Part(FeeAccount(p) = a /\ FeeUnpaid(p)', Order[p].fee)
          - Part(FeeAccount(p) = a /\ FeeUnpaid(p), Order[p].fee)
  <2>1. SumFunctionOnSet(Fees, Charged(a))' = SumFunctionOnSet(Fees, Charged(a)')
    BY DEF Fees
  <2>2. /\ SumFunctionOnSet(Fees, Charged(a) \cup {p}) =
             SumFunctionOnSet(Fees, Charged(a)) + (IF p \in Charged(a) THEN 0 ELSE Fees[p])
        /\ SumFunctionOnSet(Fees, Charged(a) \ {p}) =
             SumFunctionOnSet(Fees, Charged(a)) - (IF p \in Charged(a) THEN Fees[p] ELSE 0)
    <3>1. IsFiniteSet(Charged(a)) /\ (\A q \in Charged(a) : Fees[q] \in Int) /\ Fees[p] \in Int
      BY <1>0, <1>1, <1>2
    <3> QED BY <3>1, SumWith, SMTT(60)
  <2>3. CASE FeeAccount(p) = a /\ FeeUnpaid(p)'
    <3>1. SumFunctionOnSet(Fees, Charged(a)') = SumFunctionOnSet(Fees, Charged(a) \cup {p})
      BY <2>3, OneMoves
    <3> QED BY <1>2, <1>3, <1>4, <2>1, <2>2, <2>3, <3>1 DEF Part
  <2>4. CASE ~ (FeeAccount(p) = a /\ FeeUnpaid(p)')
    <3>1. SumFunctionOnSet(Fees, Charged(a)') = SumFunctionOnSet(Fees, Charged(a) \ {p})
      BY <2>4, OneMoves
    <3> QED BY <1>2, <1>3, <1>4, <2>1, <2>2, <2>4, <3>1 DEF Part
  <2> QED BY <2>3, <2>4
<1>8. OnItsWayTo(a) = SumFunctionOnSet(Targets, Carried(a)) + SumFunctionOnSet(Fees, Charged(a))
  BY DEF OnItsWayTo, Carried, Charged
<1>9. OnItsWayTo(a)' = SumFunctionOnSet(Targets, Carried(a))' + SumFunctionOnSet(Fees, Charged(a))'
  BY DEF OnItsWayTo, Carried, Charged
<1> QED BY <1>2, <1>4, <1>5, <1>6, <1>7, <1>8, <1>9 DEF Part

\* The money of an account as its owner sees it.
Money(a) == Cash(accounts[a]) + OnItsWayTo(a)

\* What the operations on a row do to its frozen balance and to its money.
LEMMA RowMoves ==
  ASSUME NEW row \in Row, NEW n \in Int
  PROVE  /\ FreezeFunds(row, n).frozen = row.frozen + n
         /\ Cash(FreezeFunds(row, n)) = Cash(row)
         /\ DebitAccount(row, n).frozen = row.frozen - n
         /\ Cash(DebitAccount(row, n)) = Cash(row) - n
         /\ CreditAccount(row, n).frozen = row.frozen
         /\ Cash(CreditAccount(row, n)) = Cash(row) + n
         /\ Cash(row) \in Int
  BY DEF Row, FreezeFunds, DebitAccount, CreditAccount, Cash

\* The invariant part of a step of one payment.
StepKeeps(p) == OthersStay(p) /\ open \subseteq open' /\ CleanStage(p)' /\ FrozenBacked'

\* A step of one payment keeps the invariant.
LEMMA KeepsClean ==
  ASSUME IInv, CleanInv, NEW p \in Payments, StepKeeps(p)
  PROVE  CleanInv'
<1>1. \A r \in Payments : CleanStage(r)'
  <2> SUFFICES ASSUME NEW r \in Payments, r # p PROVE CleanStage(r)'
    BY DEF StepKeeps
  <2> QED BY DEF CleanInv, StepKeeps, OthersStay, CleanStage, HoldsFreeze, Debited
<1>2. IsFiniteSet(Started')
  <2>1. Started' \subseteq Started \cup {p}
    BY DEF Started, StepKeeps, OthersStay
  <2> QED BY <2>1, FS_AddElement, FS_Subset DEF CleanInv
<1> QED BY <1>1, <1>2 DEF CleanInv, StepKeeps

\* Either nobody's money changes and at most one payment's outcome does, or a
\* payment is made.
LEMMA OutcomesMove ==
  ASSUME NEW p \in Payments, OthersStay(p)
  PROVE  \A r \in Payments \ {p} : OutcomeOf(r)' = OutcomeOf(r)
<1> SUFFICES ASSUME NEW r \in Payments \ {p} PROVE OutcomeOf(r)' = OutcomeOf(r)
  OBVIOUS
<1>1. Debited(r)' <=> Debited(r)
  BY DEF Debited, OthersStay
<1>2. status'[r] = status[r]
  BY DEF OthersStay
<1> QED BY <1>1, <1>2 DEF OutcomeOf

PromiseStep == Promise!Next \/ UNCHANGED Promise!promiseVars

Monies == [a \in AccountIds |-> Cash(accounts[a]) + OnItsWayTo(a)]
Outcomes == [p \in Payments |-> OutcomeOf(p)]

\* A step of the promise, in terms of the saga.
LEMMA PromiseMoves ==
  ASSUME NEW p \in Payments, \A r \in Payments \ {p} : OutcomeOf(r)' = OutcomeOf(r),
         \/ /\ \A a \in AccountIds : Money(a)' = Money(a)
            /\ \/ OutcomeOf(p)' = OutcomeOf(p)
               \/ OutcomeOf(p) = "none" /\ OutcomeOf(p)' = "accepted"
               \/ OutcomeOf(p) = "accepted" /\ OutcomeOf(p)' = "refused"
         \/ /\ \A a \in AccountIds : Money(a)' = Money(a) + Promise!Gain(p, a)
            /\ Money(Sender(p)) >= Total(p)
            /\ OutcomeOf(p) = "accepted" /\ OutcomeOf(p)' = "made"
  PROVE  PromiseStep
<1> DEFINE o == OutcomeOf(p)'
<1>1. Outcomes' = [Outcomes EXCEPT ![p] = o]
  BY DEF Outcomes
<1>2. Outcomes[p] = OutcomeOf(p) /\ \A a \in AccountIds : Monies[a] = Money(a)
  BY DEF Outcomes, Monies, Money
<1>3. CASE o = OutcomeOf(p) /\ \A a \in AccountIds : Money(a)' = Money(a)
  <2>1. Outcomes' = Outcomes
    BY <1>1, <1>3 DEF Outcomes
  <2>2. Monies' = Monies
    BY <1>3 DEF Monies, Money
  <2> QED BY <2>1, <2>2 DEF PromiseStep, Promise!promiseVars, Outcomes, Monies
<1>4. CASE /\ \A a \in AccountIds : Money(a)' = Money(a)
           /\ \/ OutcomeOf(p) = "none" /\ o = "accepted"
              \/ OutcomeOf(p) = "accepted" /\ o = "refused"
  <2>1. Monies' = Monies
    BY <1>4 DEF Monies, Money
  <2>2. Promise!Accept(p) \/ Promise!Refuse(p)
    BY <1>1, <1>2, <1>4, <2>1
       DEF Promise!Accept, Promise!Refuse, Promise!Becomes, Outcomes, Monies
  <2> QED BY <2>2 DEF PromiseStep, Promise!Next
<1>5. CASE /\ \A a \in AccountIds : Money(a)' = Money(a) + Promise!Gain(p, a)
           /\ Money(Sender(p)) >= Total(p)
           /\ OutcomeOf(p) = "accepted" /\ o = "made"
  <2>1. Monies' = [a \in AccountIds |-> Monies[a] + Promise!Gain(p, a)]
    BY <1>2, <1>5 DEF Monies, Money
  <2>2. Monies[Sender(p)] >= Total(p)
    BY <1>2, <1>5, OrderFacts
  <2>3. Promise!Make(p)
    BY <1>1, <1>2, <1>5, <2>1, <2>2 DEF Promise!Make, Promise!Becomes, Outcomes, Monies
  <2> QED BY <2>3 DEF PromiseStep, Promise!Next
<1> QED BY <1>3, <1>4, <1>5

\* A statement that moves no money.
LEMMA QuietStepKeeps ==
  ASSUME Settleable, IInv, CleanInv, NEW p \in Payments, QuietStep(p)
  PROVE  StepKeeps(p) /\ PromiseStep
<1>1. OthersStay(p) /\ UNCHANGED accounts
  BY DEF QuietStep
<1>2. ASSUME NEW a \in AccountIds
      PROVE  /\ SumFunctionOnSet(Totals, Reserved(a))' = SumFunctionOnSet(Totals, Reserved(a))
             /\ OnItsWayTo(a)' = OnItsWayTo(a)
  BY <1>1, SumsMove, OrderFacts DEF QuietStep, Part
<1>3. FrozenBacked'
  BY <1>1, <1>2 DEF CleanInv, FrozenBacked, Reserved
<1>4. StepKeeps(p)
  BY <1>3 DEF StepKeeps, QuietStep
<1>5. \A a \in AccountIds : Money(a)' = Money(a)
  BY <1>1, <1>2 DEF Money
<1>6. \A r \in Payments \ {p} : OutcomeOf(r)' = OutcomeOf(r)
  BY <1>1, OutcomesMove
<1>7. PromiseStep
  BY <1>5, <1>6, PromiseMoves DEF QuietStep
<1> QED BY <1>4, <1>7

\* What the four statements that move money do to every account.
LEMMA MovesKeep ==
  ASSUME Settleable, IInv, CleanInv, NEW p \in Payments,
         OthersStay(p), open \subseteq open', CleanStage(p)',
         NEW b \in AccountIds, NEW row \in Row, accounts' = [accounts EXCEPT ![b] = row],
         \A a \in AccountIds :
           (IF a = b THEN row.frozen ELSE accounts[a].frozen) =
             accounts[a].frozen
               + Part(Sender(p) = a /\ HoldsFreeze(p)', Total(p))
               - Part(Sender(p) = a /\ HoldsFreeze(p), Total(p))
  PROVE  StepKeeps(p)
<1>1. accounts \in [AccountIds -> Row]
  BY DEF IInv, TypeOK
<1>2. ASSUME NEW a \in AccountIds
      PROVE  accounts'[a].frozen = SumFunctionOnSet(Totals, Reserved(a))'
  <2>1. accounts[a].frozen = SumFunctionOnSet(Totals, Reserved(a))
    BY DEF CleanInv, FrozenBacked, Reserved
  <2>2. accounts'[a].frozen = IF a = b THEN row.frozen ELSE accounts[a].frozen
    BY <1>1
  <2> QED BY <2>1, <2>2, SumsMove
<1>3. FrozenBacked'
  BY <1>2 DEF FrozenBacked, Reserved
<1> QED BY <1>3 DEF StepKeeps

\* The outcome of a payment that carries on in the saga.
LEMMA CarriedOutcome ==
  ASSUME CleanInv, NEW p \in Payments, NEW from \in ForwardLabels, NEW to, CarriesOn(p, from, to)
  PROVE  /\ OutcomeOf(p) = (IF Debited(p) THEN "made" ELSE "accepted")
         /\ OutcomeOf(p)' = (IF Debited(p)' THEN "made" ELSE "accepted")
<1>1. step[p] \in 1..8 /\ status[p] = MainFlow[step[p]] /\ status'[p] = status[p]
  BY DEF CarriesOn, CleanInv, CleanStage
<1>2. status[p] \notin {NoPayment, "PAYMENT_FAILED"}
  BY <1>1, MainFlowNames
<1> QED BY <1>1, <1>2 DEF OutcomeOf

\* Freezing the sender's money.
LEMMA FreezeKeeps ==
  ASSUME Settleable, IInv, CleanInv, NEW p \in Payments, CarriesOn(p, "freeze", "update"),
         accounts' = [accounts EXCEPT ![Sender(p)] = FreezeFunds(accounts[Sender(p)], Total(p))]
  PROVE  StepKeeps(p) /\ PromiseStep
<1> DEFINE b == Sender(p)
           row == FreezeFunds(accounts[b], Total(p))
<1>1. accounts \in [AccountIds -> Row] /\ b \in AccountIds /\ Total(p) \in Int
  BY OrderFacts DEF IInv, TypeOK
<1>2. /\ pc[p] = "freeze" /\ pc'[p] = "update" /\ step[p] = 3 /\ step'[p] = 3
      /\ OthersStay(p) /\ open' = open /\ CleanStage(p)'
  BY DEF CarriesOn
<1>3. /\ HoldsFreeze(p)' /\ ~ HoldsFreeze(p) /\ ~ Debited(p) /\ ~ Debited(p)'
      /\ ~ Undelivered(p) /\ ~ Undelivered(p)' /\ ~ FeeUnpaid(p) /\ ~ FeeUnpaid(p)'
  BY <1>2 DEF HoldsFreeze, Debited, Undelivered, FeeUnpaid
<1>4. row \in Row
  BY <1>1 DEF FreezeFunds, Row
<1>5. StepKeeps(p)
  <2>1. row.frozen = accounts[b].frozen + Total(p)
    BY <1>1, RowMoves
  <2>2. accounts[b].frozen \in Int /\ \A a \in AccountIds : accounts[a].frozen \in Int
    BY <1>1 DEF Row
  <2>3. ASSUME NEW a \in AccountIds
        PROVE  (IF a = b THEN row.frozen ELSE accounts[a].frozen) =
                 accounts[a].frozen
                   + Part(Sender(p) = a /\ HoldsFreeze(p)', Total(p))
                   - Part(Sender(p) = a /\ HoldsFreeze(p), Total(p))
    <3> HIDE DEF row
    <3> QED BY <1>1, <1>3, <2>1, <2>2 DEF Part
  <2> HIDE DEF b, row
  <2> QED BY <1>1, <1>2, <1>4, <2>3, MovesKeep DEF b, row
<1>6. ASSUME NEW a \in AccountIds PROVE Money(a)' = Money(a)
  <2>1. OnItsWayTo(a)' = OnItsWayTo(a)
    BY <1>2, <1>3, SumsMove, OrderFacts DEF Part
  <2>2. Cash(accounts'[a]) = Cash(accounts[a])
    <3>1. Cash(row) = Cash(accounts[b])
      BY <1>1, RowMoves
    <3> HIDE DEF row
    <3>2. accounts'[a] = IF a = b THEN row ELSE accounts[a]
      BY <1>1 DEF row
    <3> QED BY <3>1, <3>2
  <2> QED BY <2>1, <2>2 DEF Money
<1>7. OutcomeOf(p)' = OutcomeOf(p)
  BY <1>3, CarriedOutcome DEF ForwardLabels
<1> QED BY <1>2, <1>5, <1>6, <1>7, PromiseMoves, OutcomesMove

\* Debiting the sender, which makes the payment for its clients.
LEMMA DebitKeeps ==
  ASSUME Settleable, IInv, CleanInv, NEW p \in Payments, CarriesOn(p, "debit", "find_receiver"),
         accounts' = [accounts EXCEPT ![Sender(p)] = DebitAccount(accounts[Sender(p)], Total(p))]
  PROVE  StepKeeps(p) /\ PromiseStep
<1> DEFINE b == Sender(p)
           row == DebitAccount(accounts[b], Total(p))
<1>1. accounts \in [AccountIds -> Row] /\ b \in AccountIds /\ Total(p) \in Int
  BY OrderFacts DEF IInv, TypeOK
<1>2. /\ pc[p] = "debit" /\ pc'[p] = "find_receiver" /\ step[p] = 4 /\ step'[p] = 4
      /\ OthersStay(p) /\ open' = open /\ CleanStage(p)'
  BY DEF CarriesOn
<1>3. /\ HoldsFreeze(p) /\ ~ HoldsFreeze(p)' /\ ~ Debited(p) /\ Debited(p)'
      /\ ~ Undelivered(p) /\ Undelivered(p)' /\ ~ FeeUnpaid(p) /\ FeeUnpaid(p)'
  BY <1>2 DEF HoldsFreeze, Debited, Undelivered, FeeUnpaid
<1>4. row \in Row
  BY <1>1 DEF DebitAccount, Row
<1>5. StepKeeps(p)
  <2>1. row.frozen = accounts[b].frozen - Total(p)
    BY <1>1, RowMoves
  <2>2. accounts[b].frozen \in Int /\ \A a \in AccountIds : accounts[a].frozen \in Int
    BY <1>1 DEF Row
  <2>3. ASSUME NEW a \in AccountIds
        PROVE  (IF a = b THEN row.frozen ELSE accounts[a].frozen) =
                 accounts[a].frozen
                   + Part(Sender(p) = a /\ HoldsFreeze(p)', Total(p))
                   - Part(Sender(p) = a /\ HoldsFreeze(p), Total(p))
    <3> HIDE DEF row
    <3> QED BY <1>1, <1>3, <2>1, <2>2 DEF Part
  <2> HIDE DEF b, row
  <2> QED BY <1>1, <1>2, <1>4, <2>3, MovesKeep DEF b, row
<1>6. ASSUME NEW a \in AccountIds PROVE Money(a)' = Money(a) + Promise!Gain(p, a)
  <2>1. /\ OnItsWayTo(a)' = OnItsWayTo(a) + Part(Receiver(p) = a, Order[p].target)
                                         + Part(FeeAccount(p) = a, Order[p].fee)
        /\ OnItsWayTo(a) \in Nat
    BY <1>2, <1>3, SumsMove, OrderFacts DEF Part
  <2>2. Cash(accounts'[a]) = Cash(accounts[a]) - Part(Sender(p) = a, Total(p)) /\ Cash(accounts[a]) \in Int
    <3>1. Cash(row) = Cash(accounts[b]) - Total(p) /\ Cash(accounts[b]) \in Int
      BY <1>1, RowMoves
    <3>2. accounts[a] \in Row /\ Cash(accounts[a]) \in Int
      BY <1>1, RowMoves
    <3> HIDE DEF row
    <3>3. CASE a = b
      <4>1. accounts'[a] = row
        BY <1>1, <3>3 DEF row
      <4> QED BY <3>1, <3>3, <4>1 DEF Part
    <3>4. CASE a # b
      <4>1. accounts'[a] = accounts[a]
        BY <1>1, <3>4
      <4> QED BY <3>2, <3>4, <4>1 DEF Part
    <3> QED BY <3>3, <3>4
  <2> QED BY <2>1, <2>2, OrderFacts DEF Money, Part, Promise!Gain, Delivered, Fee
<1>7. OutcomeOf(p) = "accepted" /\ OutcomeOf(p)' = "made"
  BY <1>3, CarriedOutcome DEF ForwardLabels
<1>8. Money(b) >= Total(p)
  <2>1. HasFrozen(accounts[b], Total(p))
    BY <1>3, FreezeCovers
  <2>2. accounts[b].available >= 0 /\ accounts[b] \in Row
    BY <1>1, AllRegular DEF IInv, NonNegative
  <2>3. OnItsWayTo(b) \in Nat
    BY <1>2, SumsMove
  <2> HIDE DEF b
  <2> QED BY <1>1, <2>1, <2>2, <2>3 DEF HasFrozen, Money, Cash, Row
<1> QED BY <1>2, <1>5, <1>6, <1>7, <1>8, PromiseMoves, OutcomesMove

\* Crediting the receiver.
LEMMA CreditKeeps ==
  ASSUME Settleable, IInv, CleanInv, NEW p \in Payments, CarriesOn(p, "credit", "credit_fee"),
         accounts' = [accounts EXCEPT ![Receiver(p)] =
                          CreditAccount(accounts[Receiver(p)], Order[p].target)]
  PROVE  StepKeeps(p) /\ PromiseStep
<1> DEFINE b == Receiver(p)
           row == CreditAccount(accounts[b], Order[p].target)
<1>1. accounts \in [AccountIds -> Row] /\ b \in AccountIds /\ Order[p].target \in Int
  BY OrderFacts DEF IInv, TypeOK
<1>2. /\ pc[p] = "credit" /\ pc'[p] = "credit_fee" /\ step[p] = 4 /\ step'[p] = 4
      /\ OthersStay(p) /\ open' = open /\ CleanStage(p)'
  BY DEF CarriesOn
<1>3. /\ ~ HoldsFreeze(p) /\ ~ HoldsFreeze(p)' /\ Debited(p) /\ Debited(p)'
      /\ Undelivered(p) /\ ~ Undelivered(p)' /\ FeeUnpaid(p) /\ FeeUnpaid(p)'
  BY <1>2 DEF HoldsFreeze, Debited, Undelivered, FeeUnpaid
<1>4. row \in Row
  BY <1>1 DEF CreditAccount, Row
<1>5. StepKeeps(p)
  <2>1. row.frozen = accounts[b].frozen
    BY <1>1, RowMoves
  <2>2. accounts[b].frozen \in Int /\ \A a \in AccountIds : accounts[a].frozen \in Int
    BY <1>1 DEF Row
  <2>3. ASSUME NEW a \in AccountIds
        PROVE  (IF a = b THEN row.frozen ELSE accounts[a].frozen) =
                 accounts[a].frozen
                   + Part(Sender(p) = a /\ HoldsFreeze(p)', Total(p))
                   - Part(Sender(p) = a /\ HoldsFreeze(p), Total(p))
    <3> HIDE DEF row
    <3> QED BY <1>1, <1>3, <2>1, <2>2 DEF Part
  <2> HIDE DEF b, row
  <2> QED BY <1>1, <1>2, <1>4, <2>3, MovesKeep DEF b, row
<1>6. ASSUME NEW a \in AccountIds PROVE Money(a)' = Money(a)
  <2>1. /\ OnItsWayTo(a)' = OnItsWayTo(a) - Part(Receiver(p) = a, Order[p].target)
        /\ OnItsWayTo(a) \in Nat
    BY <1>2, <1>3, SumsMove, OrderFacts DEF Part
  <2>2. /\ Cash(accounts'[a]) = Cash(accounts[a]) + Part(Receiver(p) = a, Order[p].target)
        /\ Cash(accounts[a]) \in Int
    BY <1>1, RowMoves DEF Part
  <2> QED BY <1>1, <2>1, <2>2 DEF Money, Part
<1>7. OutcomeOf(p)' = OutcomeOf(p)
  BY <1>3, CarriedOutcome DEF ForwardLabels
<1> QED BY <1>2, <1>5, <1>6, <1>7, PromiseMoves, OutcomesMove

\* Crediting the fee account.
LEMMA FeeKeeps ==
  ASSUME Settleable, IInv, CleanInv, NEW p \in Payments, CarriesOn(p, "credit_fee", "update"),
         accounts' = [accounts EXCEPT ![FeeAccount(p)] =
                          CreditAccount(accounts[FeeAccount(p)], Order[p].fee)]
  PROVE  StepKeeps(p) /\ PromiseStep
<1> DEFINE b == FeeAccount(p)
           row == CreditAccount(accounts[b], Order[p].fee)
<1>1. accounts \in [AccountIds -> Row] /\ b \in AccountIds /\ Order[p].fee \in Int
  BY OrderFacts DEF IInv, TypeOK
<1>2. /\ pc[p] = "credit_fee" /\ pc'[p] = "update" /\ step[p] = 4 /\ step'[p] = 4
      /\ OthersStay(p) /\ open' = open /\ CleanStage(p)'
  BY DEF CarriesOn
<1>3. /\ ~ HoldsFreeze(p) /\ ~ HoldsFreeze(p)' /\ Debited(p) /\ Debited(p)'
      /\ ~ Undelivered(p) /\ ~ Undelivered(p)' /\ FeeUnpaid(p) /\ ~ FeeUnpaid(p)'
  BY <1>2 DEF HoldsFreeze, Debited, Undelivered, FeeUnpaid
<1>4. row \in Row
  BY <1>1 DEF CreditAccount, Row
<1>5. StepKeeps(p)
  <2>1. row.frozen = accounts[b].frozen
    BY <1>1, RowMoves
  <2>2. accounts[b].frozen \in Int /\ \A a \in AccountIds : accounts[a].frozen \in Int
    BY <1>1 DEF Row
  <2>3. ASSUME NEW a \in AccountIds
        PROVE  (IF a = b THEN row.frozen ELSE accounts[a].frozen) =
                 accounts[a].frozen
                   + Part(Sender(p) = a /\ HoldsFreeze(p)', Total(p))
                   - Part(Sender(p) = a /\ HoldsFreeze(p), Total(p))
    <3> HIDE DEF row
    <3> QED BY <1>1, <1>3, <2>1, <2>2 DEF Part
  <2> HIDE DEF b, row
  <2> QED BY <1>1, <1>2, <1>4, <2>3, MovesKeep DEF b, row
<1>6. ASSUME NEW a \in AccountIds PROVE Money(a)' = Money(a)
  <2>1. /\ OnItsWayTo(a)' = OnItsWayTo(a) - Part(FeeAccount(p) = a, Order[p].fee)
        /\ OnItsWayTo(a) \in Nat
    BY <1>2, <1>3, SumsMove, OrderFacts DEF Part
  <2>2. /\ Cash(accounts'[a]) = Cash(accounts[a]) + Part(FeeAccount(p) = a, Order[p].fee)
        /\ Cash(accounts[a]) \in Int
    BY <1>1, RowMoves DEF Part
  <2> QED BY <1>1, <2>1, <2>2 DEF Money, Part
<1>7. OutcomeOf(p)' = OutcomeOf(p)
  BY <1>3, CarriedOutcome DEF ForwardLabels
<1> QED BY <1>2, <1>5, <1>6, <1>7, PromiseMoves, OutcomesMove

\* Every step of an undisturbed run keeps the invariant and the promise.
LEMMA NextKeepsClean ==
  ASSUME IInv, CleanInv, Undisturbed, Undisturbed', Settleable, Next
  PROVE  CleanInv' /\ PromiseStep
<1>1. ASSUME NEW p \in Payments, CheckIdempotency(p) \/ HandlerStep(p) \/ SagaStep(p)
      PROVE  CleanInv' /\ PromiseStep
  <2>1. StepKeeps(p) /\ PromiseStep
    BY <1>1, IntakeIsQuiet, SagaSteps, QuietStepKeeps, FreezeKeeps, DebitKeeps, CreditKeeps, FeeKeeps
  <2> QED BY <2>1, KeepsClean
<1>2. ASSUME NEW q \in Refunders, RefundStep(q) \/ \E p \in Payments : StartRefund(q, p)
      PROVE  FALSE
  <2>1. refund[q].at = "idle" /\ refund'[q].at = "idle"
    BY DEF Undisturbed
  <2>2. ~ RefundStep(q)
    BY <2>1 DEF RefundStep, MarkRefundPending, RefundPaysSender, RefundDebitsReceiver,
                RefundDebitsFee, FinishRefund
  <2>3. refund \in [Refunders -> [at : {"idle", "mark", "pay_sender", "debit_receiver",
                                      "debit_fee", "finish"},
                               of : Payments \cup {NoPayment}]]
    BY DEF IInv, TypeOK
  <2> QED BY <1>2, <2>1, <2>2, <2>3 DEF StartRefund
<1>3. CASE Crash
  <2>1. UNCHANGED <<status, accounts, open, pc, step>>
    BY <1>3 DEF Crash, orderVars, moneyVars, sagaVars
  <2>2. CleanInv'
    BY <2>1 DEF CleanInv, Started, CleanStage, HoldsFreeze, Debited, FrozenBacked
  <2>3. UNCHANGED Promise!promiseVars
    BY <2>1 DEF Promise!promiseVars, OutcomeOf, Debited, OnItsWayTo, Undelivered, FeeUnpaid
  <2> QED BY <2>2, <2>3 DEF PromiseStep
<1> QED BY <1>1, <1>2, <1>3 DEF Next

\* The initial states.
LEMMA InitClean ==
  ASSUME Init
  PROVE  CleanInv /\ Promise!Init
<1>1. \A p \in Payments : pc[p] = "idempotency" /\ status[p] = NoPayment
  BY DEF Init
<1>2. Started = {} /\ \A a : Reserved(a) = {} /\ Carried(a) = {} /\ Charged(a) = {}
  BY <1>1 DEF Started, Reserved, Carried, Charged, HoldsFreeze, Undelivered, FeeUnpaid
<1>3. \A f : SumFunctionOnSet(f, {}) = 0
  BY SumEmpty
<1>4. FrozenBacked
  <2>1. ASSUME NEW a \in AccountIds PROVE accounts[a].frozen = SumFunctionOnSet(Totals, Reserved(a))
    <3>1. SumFunctionOnSet(Totals, Reserved(a)) = SumFunctionOnSet(Totals, {})
      BY <1>2
    <3>2. accounts[a].frozen = 0
      BY DEF Init, NewRow
    <3> QED BY <1>3, <3>1, <3>2
  <2> QED BY <2>1 DEF FrozenBacked, Reserved
<1>5. \A p \in Payments : CleanStage(p)
  BY <1>1 DEF CleanStage, HoldsFreeze, Debited, ForwardLabels
<1>6. CleanInv
  BY <1>2, <1>4, <1>5, FS_EmptySet DEF Init, CleanInv
<1>7. ASSUME NEW a \in AccountIds PROVE Money(a) = StartMoney[a]
  <2>1. OnItsWayTo(a) = SumFunctionOnSet(Targets, {}) + SumFunctionOnSet(Fees, {})
    BY <1>2 DEF OnItsWayTo, Carried, Charged
  <2>2. OnItsWayTo(a) = 0
    BY <1>3, <2>1
  <2>3. Cash(accounts[a]) = StartMoney[a] /\ StartMoney[a] \in Int
    BY AccountAssumption DEF Init, NewRow, Cash, StartMoney
  <2> QED BY <2>2, <2>3 DEF Money
<1>8. \A p \in Payments : OutcomeOf(p) = "none"
  BY <1>1, NoPaymentIsNoStatus DEF OutcomeOf, Debited
<1>9. Promise!Init
  BY <1>7, <1>8 DEF Promise!Init, Money, StartMoney
<1> QED BY <1>6, <1>9

\* While nothing disturbs the sagas, each keeps to its steps or fails at the freeze.
LEMMA CleanInvariance ==
  ASSUME Settleable
  PROVE  Spec /\ []Undisturbed => [](IInv /\ CleanInv)
<1>1. Init => CleanInv
  BY InitClean
<1>2. IInv /\ CleanInv /\ Undisturbed /\ Undisturbed' /\ [Next]_vars => CleanInv'
  <2> SUFFICES ASSUME IInv, CleanInv, Undisturbed, Undisturbed', [Next]_vars PROVE CleanInv'
    OBVIOUS
  <2>1. CASE Next
    BY <2>1, NextKeepsClean
  <2>2. CASE UNCHANGED vars
    BY <2>2 DEF vars, CleanInv, Started, CleanStage, HoldsFreeze, Debited, FrozenBacked
  <2> QED BY <2>1, <2>2
<1> QED BY <1>1, <1>2, Invariance, PTL DEF Spec

\* What is frozen of an account is what its payments have frozen: no saga
\* releases or spends what another one reserved.
THEOREM FrozenIsBacked ==
  ASSUME Settleable
  PROVE  Spec /\ []Undisturbed => []FrozenBacked
<1>1. IInv /\ CleanInv => FrozenBacked
  BY DEF CleanInv
<1> QED BY <1>1, CleanInvariance, PTL

\* The saga implements the indivisible transfer of TransferPromise, as far as
\* what may happen is concerned: every statement of every saga is a step of the
\* promise or changes nothing that its clients see.
THEOREM SagaKeepsPromise ==
  ASSUME Settleable
  PROVE  Spec /\ []Undisturbed => Promise!Init /\ [][Promise!Next]_(Promise!promiseVars)
<1>1. Init => Promise!Init
  BY InitClean
<1>2. IInv /\ CleanInv /\ Undisturbed /\ Undisturbed' /\ [Next]_vars
        => [Promise!Next]_(Promise!promiseVars)
  <2> SUFFICES ASSUME IInv, CleanInv, Undisturbed, Undisturbed', [Next]_vars
               PROVE  [Promise!Next]_(Promise!promiseVars)
    OBVIOUS
  <2>1. CASE Next
    BY <2>1, NextKeepsClean DEF PromiseStep
  <2>2. CASE UNCHANGED vars
    BY <2>2 DEF vars, Promise!promiseVars, OutcomeOf, Debited, OnItsWayTo, Undelivered, FeeUnpaid
  <2> QED BY <2>1, <2>2
<1> QED BY <1>1, <1>2, CleanInvariance, PTL DEF Spec

-----------------------------------------------------------------------------
(* The books.                                                              *)

Made == { p \in Payments : OutcomeOf(p) = "made" }
Gains(a) == [p \in Payments |-> Promise!Gain(p, a)]

\* Every account's money is explained by the payments that were made.
MadeExplains ==
  \A a \in AccountIds : Monies[a] = StartMoney[a] + SumFunctionOnSet(Gains(a), Made)

\* Only payments that were started are made.
LEMMA MadeFinite ==
  ASSUME CleanInv
  PROVE  IsFiniteSet(Made)
<1>1. Made \subseteq Started
  <2> SUFFICES ASSUME NEW p \in Payments, OutcomeOf(p) = "made", pc[p] = "idempotency" PROVE FALSE
    BY DEF Made, Started
  <2>1. ~ Debited(p)
    BY DEF Debited
  <2> QED BY <2>1 DEF OutcomeOf
<1> QED BY <1>1, FS_Subset DEF CleanInv

LEMMA GainsAreInt ==
  ASSUME NEW p \in Payments, NEW a
  PROVE  Gains(a)[p] = Promise!Gain(p, a) /\ Gains(a)[p] \in Int
  BY OrderFacts DEF Gains, Promise!Gain, Delivered, Fee

\* At the start nothing was made and nothing moved.
LEMMA InitMade ==
  ASSUME Init
  PROVE  MadeExplains
<1>1. Made = {}
  BY InitClean DEF Promise!Init, Made
<1>2. ASSUME NEW a \in AccountIds PROVE Monies[a] = StartMoney[a] + SumFunctionOnSet(Gains(a), Made)
  <2>1. SumFunctionOnSet(Gains(a), Made) = SumFunctionOnSet(Gains(a), {})
    BY <1>1
  <2>2. SumFunctionOnSet(Gains(a), {}) = 0
    BY SumEmpty
  <2>3. Monies[a] = StartMoney[a]
    BY InitClean DEF Promise!Init, Monies
  <2>4. StartMoney[a] \in Int
    BY AccountAssumption DEF StartMoney
  <2> QED BY <2>1, <2>2, <2>3, <2>4
<1> QED BY <1>2 DEF MadeExplains

\* A step of the promise adds to the balances what the payment it makes brings.
LEMMA PromiseStepExplains ==
  ASSUME CleanInv, MadeExplains, PromiseStep
  PROVE  MadeExplains'
<1>1. Monies = [a \in AccountIds |-> Cash(accounts[a]) + OnItsWayTo(a)]
      /\ Outcomes = [p \in Payments |-> OutcomeOf(p)]
  BY DEF Monies, Outcomes
<1>2. Made = { p \in Payments : Outcomes[p] = "made" }
      /\ Made' = { p \in Payments : Outcomes'[p] = "made" }
  BY DEF Made, Outcomes
<1>3. \A a : Gains(a)' = Gains(a)
  BY DEF Gains
<1>4. ASSUME UNCHANGED <<Monies, Made>> PROVE MadeExplains'
  BY <1>3, <1>4 DEF MadeExplains, StartMoney
<1>5. CASE UNCHANGED Promise!promiseVars
  BY <1>4, <1>5 DEF Promise!promiseVars, Monies, Made
<1>6. ASSUME NEW p \in Payments, Promise!Accept(p) \/ Promise!Refuse(p)
      PROVE  MadeExplains'
  <2>1. Monies' = Monies
    BY <1>6 DEF Promise!Accept, Promise!Refuse, Monies
  <2>2. \E o \in {"accepted", "refused"} : Outcomes[p] # "made" /\ Outcomes' = [Outcomes EXCEPT ![p] = o]
    BY <1>6 DEF Promise!Accept, Promise!Refuse, Promise!Becomes, Outcomes
  <2>3. Made' = Made
    BY <1>1, <1>2, <2>2
  <2> QED BY <1>4, <2>1, <2>3
<1>7. ASSUME NEW p \in Payments, Promise!Make(p)
      PROVE  MadeExplains'
  <2>1. Monies' = [a \in AccountIds |-> Monies[a] + Promise!Gain(p, a)]
    BY <1>7 DEF Promise!Make, Monies
  <2>2. Outcomes[p] # "made" /\ Outcomes' = [Outcomes EXCEPT ![p] = "made"]
    BY <1>7 DEF Promise!Make, Promise!Becomes, Outcomes
  <2>3. Made' = Made \cup {p} /\ p \notin Made
    BY <1>1, <1>2, <2>2
  <2>4. ASSUME NEW a \in AccountIds
        PROVE  Monies'[a] = StartMoney[a] + SumFunctionOnSet(Gains(a), Made')
    <3>1. SumFunctionOnSet(Gains(a), Made \cup {p}) = SumFunctionOnSet(Gains(a), Made) + Gains(a)[p]
      <4>1. /\ IsFiniteSet(Made)
            /\ \A q \in Made : Gains(a)[q] \in Int
            /\ Gains(a)[p] \in Int
        BY MadeFinite, GainsAreInt DEF Made
      <4> QED BY <2>3, <4>1, SumAdd
    <3>2. SumFunctionOnSet(Gains(a), Made') = SumFunctionOnSet(Gains(a), Made \cup {p})
      BY <2>3
    <3>3. SumFunctionOnSet(Gains(a), Made) \in Int
      <4>1. \A q \in Made : Gains(a)[q] \in Int
        BY GainsAreInt DEF Made
      <4> QED BY <4>1, MadeFinite, SumInt
    <3>4. Monies'[a] = Monies[a] + Gains(a)[p] /\ Gains(a)[p] \in Int
      BY <2>1, GainsAreInt
    <3>5. Monies[a] = StartMoney[a] + SumFunctionOnSet(Gains(a), Made)
      BY DEF MadeExplains
    <3>6. StartMoney[a] \in Int
      BY AccountAssumption DEF StartMoney
    <3> QED BY <3>1, <3>2, <3>3, <3>4, <3>5, <3>6
  <2>5. \A a \in AccountIds : SumFunctionOnSet(Gains(a), Made)' = SumFunctionOnSet(Gains(a), Made')
    BY DEF Gains
  <2> QED BY <2>4, <2>5 DEF MadeExplains, StartMoney
<1> QED BY <1>5, <1>6, <1>7 DEF PromiseStep, Promise!Next

\* What the closed payments brought an account, party by party.
LEMMA ClosedGains ==
  ASSUME NEW S \in SUBSET Payments, IsFiniteSet(S), NEW a
  PROVE  SumFunctionOnSet(Gains(a), S) =
           SumFunctionOnSet(Targets, { p \in S : Receiver(p) = a })
             + SumFunctionOnSet(Fees, { p \in S : FeeAccount(p) = a })
             - SumFunctionOnSet(Totals, { p \in S : Sender(p) = a })
<1> DEFINE R == { p \in S : Receiver(p) = a }
           F == { p \in S : FeeAccount(p) = a }
           D == { p \in S : Sender(p) = a }
           in == [p \in S |-> IF p \in R THEN Targets[p] ELSE 0]
           fee == [p \in S |-> IF p \in F THEN Fees[p] ELSE 0]
           out == [p \in S |-> IF p \in D THEN Totals[p] ELSE 0]
           got == [p \in S |-> in[p] + fee[p]]
<1>1. \A p \in S : Targets[p] \in Int /\ Fees[p] \in Int /\ Totals[p] \in Int
  BY AmountsAreInt
<1>2. /\ SumFunctionOnSet(Targets, R) = SumFunctionOnSet(in, S)
      /\ SumFunctionOnSet(Fees, F) = SumFunctionOnSet(fee, S)
      /\ SumFunctionOnSet(Totals, D) = SumFunctionOnSet(out, S)
  <2>1. ASSUME NEW f, NEW T \in SUBSET S, \A p \in S : f[p] \in Int
        PROVE  SumFunctionOnSet(f, T) = SumFunctionOnSet([p \in S |-> IF p \in T THEN f[p] ELSE 0], S)
    BY <2>1, SumFilter
  <2>2. R \in SUBSET S /\ F \in SUBSET S /\ D \in SUBSET S
    OBVIOUS
  <2> HIDE DEF R, F, D
  <2> QED BY <1>1, <2>1, <2>2
<1>3. \A p \in S : /\ in[p] \in Int /\ fee[p] \in Int /\ out[p] \in Int /\ got[p] \in Int
                   /\ got[p] = in[p] + fee[p]
                   /\ Gains(a)[p] \in Int
                   /\ got[p] = Gains(a)[p] + out[p]
  BY <1>1, AmountsAreInt, GainsAreInt DEF Promise!Gain, Delivered, Fee
<1> HIDE DEF R, F, D, in, fee, out, got
<1>4. SumFunctionOnSet(got, S) = SumFunctionOnSet(in, S) + SumFunctionOnSet(fee, S)
  BY <1>3, SumPlus
<1>5. SumFunctionOnSet(got, S) = SumFunctionOnSet(Gains(a), S) + SumFunctionOnSet(out, S)
  BY <1>3, SumPlus
<1>6. /\ SumFunctionOnSet(in, S) \in Int /\ SumFunctionOnSet(fee, S) \in Int
      /\ SumFunctionOnSet(out, S) \in Int /\ SumFunctionOnSet(Gains(a), S) \in Int
  BY <1>3, SumInt
<1>7. SumFunctionOnSet(Gains(a), S) =
        SumFunctionOnSet(Targets, R) + SumFunctionOnSet(Fees, F) - SumFunctionOnSet(Totals, D)
  <2> DEFINE i == SumFunctionOnSet(in, S)
             f == SumFunctionOnSet(fee, S)
             o == SumFunctionOnSet(out, S)
             g == SumFunctionOnSet(Gains(a), S)
  <2>1. i \in Int /\ f \in Int /\ o \in Int /\ g \in Int /\ i + f = g + o
    BY <1>4, <1>5, <1>6
  <2>2. g = i + f - o
    <3> HIDE DEF i, f, o, g
    <3> QED BY <2>1
  <2> QED BY <1>2, <2>2
<1> QED BY <1>7 DEF R, F, D

\* When every goroutine has ended, the payments made are the closed ones.
LEMMA QuietBooks ==
  ASSUME IInv, CleanInv, MadeExplains, Quiet, NEW a \in AccountIds
  PROVE  /\ accounts[a].frozen = 0
         /\ Cash(accounts[a]) = (IF a \in OpenAtStart THEN StartBalance[a] ELSE 0) - PaidOut(a)
<1> DEFINE closed == { p \in Payments : status[p] = "CLOSED" }
<1>1. \A p \in Payments : pc[p] \in {"idempotency", "answered", "rejected", "done"}
  BY DEF Quiet, FinalLabels
<1>2. Reserved(a) = {} /\ Carried(a) = {} /\ Charged(a) = {}
  BY <1>1 DEF Reserved, Carried, Charged, HoldsFreeze, Undelivered, FeeUnpaid
<1>3. /\ SumFunctionOnSet(Totals, {}) = 0
      /\ SumFunctionOnSet(Targets, {}) = 0
      /\ SumFunctionOnSet(Fees, {}) = 0
  BY SumEmpty
<1>4. accounts[a].frozen = 0
  <2>1. accounts[a].frozen = SumFunctionOnSet(Totals, Reserved(a))
    BY DEF CleanInv, FrozenBacked, Reserved
  <2>2. SumFunctionOnSet(Totals, Reserved(a)) = SumFunctionOnSet(Totals, {})
    BY <1>2
  <2> QED BY <1>3, <2>1, <2>2
<1>5. Monies[a] = Cash(accounts[a])
  <2>1. OnItsWayTo(a) = SumFunctionOnSet(Targets, Carried(a)) + SumFunctionOnSet(Fees, Charged(a))
    BY DEF OnItsWayTo, Carried, Charged
  <2>2. /\ SumFunctionOnSet(Targets, Carried(a)) = SumFunctionOnSet(Targets, {})
        /\ SumFunctionOnSet(Fees, Charged(a)) = SumFunctionOnSet(Fees, {})
    BY <1>2
  <2>3. Cash(accounts[a]) \in Int
    BY RowMoves DEF IInv, TypeOK
  <2> QED BY <1>3, <2>1, <2>2, <2>3 DEF Monies
<1>6. Made = closed
  <2>1. ASSUME NEW p \in Payments PROVE OutcomeOf(p) = "made" <=> status[p] = "CLOSED"
    <3>1. Debited(p) <=> pc[p] = "done" /\ status[p] = "CLOSED"
      BY <1>1 DEF Debited
    <3>2. status[p] = "CLOSED" => pc[p] = "done"
      BY DEF IInv, JournalStage, ClosedStatuses
    <3> QED BY <3>1, <3>2, NoPaymentIsNoStatus DEF OutcomeOf
  <2> QED BY <2>1 DEF Made
<1>7. SumFunctionOnSet(Gains(a), closed) =
           SumFunctionOnSet(Targets, { p \in closed : Receiver(p) = a })
             + SumFunctionOnSet(Fees, { p \in closed : FeeAccount(p) = a })
             - SumFunctionOnSet(Totals, { p \in closed : Sender(p) = a })
  <2>1. closed \in SUBSET Payments
    OBVIOUS
  <2>2. IsFiniteSet(closed)
    BY <1>6, MadeFinite
  <2> HIDE DEF closed
  <2> QED BY <2>1, <2>2, ClosedGains
<1>8. Monies[a] = StartMoney[a] + SumFunctionOnSet(Gains(a), closed)
  BY <1>6 DEF MadeExplains
<1>9. /\ SumFunctionOnSet(Targets, { p \in closed : Receiver(p) = a }) \in Int
      /\ SumFunctionOnSet(Fees, { p \in closed : FeeAccount(p) = a }) \in Int
      /\ SumFunctionOnSet(Totals, { p \in closed : Sender(p) = a }) \in Int
  <2>1. ASSUME NEW f, NEW T \in SUBSET closed, \A p \in closed : f[p] \in Int
        PROVE  SumFunctionOnSet(f, T) \in Int
    <3>1. IsFiniteSet(T)
      BY <1>6, MadeFinite, FS_Subset
    <3>2. \A p \in T : f[p] \in Int
      BY <2>1
    <3> QED BY <3>1, <3>2, SumInt
  <2>2. \A p \in closed : Targets[p] \in Int /\ Fees[p] \in Int /\ Totals[p] \in Int
    BY AmountsAreInt
  <2> HIDE DEF closed
  <2> QED BY <2>1, <2>2
<1>10. StartMoney[a] \in Int
  BY AccountAssumption DEF StartMoney
<1>11. PaidOut(a) = SumFunctionOnSet(Totals, { p \in closed : Sender(p) = a })
                      - SumFunctionOnSet(Targets, { p \in closed : Receiver(p) = a })
                      - SumFunctionOnSet(Fees, { p \in closed : FeeAccount(p) = a })
  BY DEF PaidOut
<1>12. Cash(accounts[a]) = StartMoney[a] - PaidOut(a)
  <2> HIDE DEF closed
  <2> QED BY <1>5, <1>7, <1>8, <1>9, <1>10, <1>11
<1> QED BY <1>4, <1>12 DEF StartMoney

\* Once every goroutine has ended, the statuses of the orders explain every
\* balance: a closed payment was paid in full, any other left no trace.
THEOREM BooksAlwaysAgree ==
  ASSUME Settleable
  PROVE  Spec /\ []Undisturbed => []BooksAgree
<1>1. Init => MadeExplains
  BY InitMade
<1>2. IInv /\ CleanInv /\ MadeExplains /\ Undisturbed /\ Undisturbed' /\ [Next]_vars => MadeExplains'
  <2> SUFFICES ASSUME IInv, CleanInv, MadeExplains, Undisturbed, Undisturbed', [Next]_vars
               PROVE  MadeExplains'
    OBVIOUS
  <2>1. CASE Next
    BY <2>1, NextKeepsClean, PromiseStepExplains
  <2>2. CASE UNCHANGED vars
    <3>1. UNCHANGED Promise!promiseVars
      BY <2>2 DEF vars, Promise!promiseVars, OutcomeOf, Debited, OnItsWayTo, Undelivered, FeeUnpaid
    <3> QED BY <3>1, PromiseStepExplains DEF PromiseStep
  <2> QED BY <2>1, <2>2
<1>3. IInv /\ CleanInv /\ MadeExplains => BooksAgree
  BY QuietBooks DEF BooksAgree
<1> QED BY <1>1, <1>2, <1>3, CleanInvariance, PTL DEF Spec

-----------------------------------------------------------------------------
(* Constants under which every run is undisturbed.                         *)

Calm ==
  /\ MaxFaults = 0
  /\ Refunders = {}
  /\ \A p, q \in Payments : p # q /\ Receiver(p) = Receiver(q) => Receiver(p) \in OpenAtStart

\* An account is only created where there is none.
Opening ==
  /\ OpenAtStart \subseteq open
  /\ \A p \in Payments : pc[p] = "open_receiver" => Receiver(p) \notin open

\* No other statement leads to the creation of an account.
LEMMA OthersDoNotOpen ==
  ASSUME IInv, NEW p \in Payments, CheckIdempotency(p) \/ HandlerStep(p) \/ SagaStep(p),
         ~ FindReceiver(p), ~ OpenReceiver(p)
  PROVE  open' = open /\ \E l : Goto(p, l) /\ l # "open_receiver"
<1>1. ControlTypeOK /\ StepStage(p)
  BY IInvParts DEF ControlInv, Stage
<1>2. open' = open
  BY DEF HandlerStep, SagaStep, moneyVars, CheckIdempotency, Screen, CheckSenderBalance,
         CommitOrder, LoadOrder, ReloadOrder, ReadSenderForFreeze, ExecuteFreeze, DebitSender,
         CreditReceiver, CreditFee, SettlePayment, RecordOnChain, UpdateStatus, MarkFailed,
         CompensateSettlement, RefundSender, UndoReceiver, UndoFee, ReleaseFunds
<1>3. ASSUME NEW k, UndoFrom(p, k)
      PROVE  \E l : Goto(p, l) /\ l # "open_receiver"
  BY <1>3 DEF UndoFrom
<1>4. ASSUME ReloadOrder(p)
      PROVE  \E l : Goto(p, l) /\ l # "open_receiver"
  <2>1. step[p] \in Steps
    BY <1>1, <1>4 DEF ReloadOrder, At, StepStage, ForwardLabels
  <2>2. FirstStatement(step[p]) # "open_receiver"
    BY <2>1, FirstStatements
  <2>3. \/ Goto(p, IF step[p] = 8 THEN "done" ELSE "reload")
        \/ Goto(p, FirstStatement(step[p]))
        \/ UndoFrom(p, step[p] - 1)
    BY <1>4 DEF ReloadOrder
  <2> QED BY <1>3, <2>2, <2>3
<1>5. ASSUME MarkFailed(p) \/ CompensateSettlement(p) \/ UndoFee(p) \/ ReleaseFunds(p)
      PROVE  \E k : UndoFrom(p, k)
  BY <1>5 DEF MarkFailed, CompensateSettlement, UndoFee, ReleaseFunds
<1>6. ASSUME RefundSender(p) PROVE \E l : Goto(p, l) /\ l # "open_receiver"
  <2>1. Goto(p, "undo_receiver") \/ UndoFrom(p, 4)
    BY <1>6 DEF RefundSender
  <2> QED BY <1>3, <2>1
<1>7. ASSUME CheckIdempotency(p) \/ HandlerStep(p)
      PROVE  \E l : Goto(p, l) /\ l # "open_receiver"
  BY <1>7 DEF HandlerStep, CheckIdempotency, Screen, CheckSenderBalance, CommitOrder
<1>8. ASSUME LoadOrder(p) \/ ReadSenderForFreeze(p) \/ ExecuteFreeze(p) \/ DebitSender(p)
      PROVE  \E l : Goto(p, l) /\ l # "open_receiver"
  BY <1>8 DEF LoadOrder, ReadSenderForFreeze, ExecuteFreeze, DebitSender
<1>9. ASSUME CreditReceiver(p) \/ CreditFee(p) \/ SettlePayment(p) \/ RecordOnChain(p)
               \/ UpdateStatus(p) \/ UndoReceiver(p)
      PROVE  \E l : Goto(p, l) /\ l # "open_receiver"
  BY <1>9 DEF CreditReceiver, CreditFee, SettlePayment, RecordOnChain, UpdateStatus, UndoReceiver
<1> QED BY <1>2, <1>3, <1>4, <1>5, <1>6, <1>7, <1>8, <1>9 DEF SagaStep

\* Without failures and refunds, and where payments to one receiver find an
\* account of his from the start, every run is undisturbed.
THEOREM CalmIsUndisturbed ==
  ASSUME Calm
  PROVE  Spec => []Undisturbed
<1>1. Init => Opening
  BY DEF Init, Opening
<1>2. IInv /\ Opening /\ [Next]_vars => Opening'
  <2> SUFFICES ASSUME IInv, Opening, [Next]_vars PROVE Opening'
    OBVIOUS
  <2>0. ControlTypeOK /\ ~ Fails
    BY IInvParts DEF ControlInv, Calm, Fails, ControlTypeOK
  <2>1. ASSUME NEW p \in Payments, FindReceiver(p) PROVE Opening'
    <3>1. /\ open' = open
          /\ Goto(p, "credit") \/ (Goto(p, "open_receiver") /\ Receiver(p) \notin open)
      BY <2>0, <2>1 DEF FindReceiver, moneyVars
    <3> QED BY <2>0, <3>1, LabelMoves DEF Opening
  <2>2. ASSUME NEW p \in Payments, OpenReceiver(p) PROVE Opening'
    <3>1. /\ pc[p] = "open_receiver" /\ open' = open \cup {Receiver(p)}
          /\ Goto(p, "fail") \/ Goto(p, "credit")
      BY <2>0, <2>2 DEF OpenReceiver, At
    <3>2. pc'[p] # "open_receiver" /\ \A r \in Payments \ {p} : pc'[r] = pc[r]
      BY <2>0, <3>1, LabelMoves
    <3>3. Receiver(p) \notin open
      BY <3>1 DEF Opening
    <3>4. ASSUME NEW r \in Payments, pc'[r] = "open_receiver" PROVE Receiver(r) \notin open'
      <4>1. r # p /\ Receiver(r) \notin open
        BY <3>2, <3>4 DEF Opening
      <4>2. Receiver(r) # Receiver(p)
        BY <3>3, <4>1 DEF Calm, Opening
      <4> QED BY <3>1, <4>1, <4>2
    <3> QED BY <3>1, <3>4 DEF Opening
  <2>3. ASSUME NEW p \in Payments, CheckIdempotency(p) \/ HandlerStep(p) \/ SagaStep(p),
               ~ FindReceiver(p), ~ OpenReceiver(p)
        PROVE  Opening'
    BY <2>0, <2>3, OthersDoNotOpen, LabelMoves DEF Opening
  <2>4. CASE Crash \/ UNCHANGED vars
    BY <2>4 DEF Crash, Opening, vars, moneyVars, sagaVars
  <2>5. Refunders = {}
    BY DEF Calm
  <2> QED BY <2>1, <2>2, <2>3, <2>4, <2>5 DEF Next
<1>3. IInv /\ Opening => Undisturbed
  BY DEF IInv, TypeOK, Opening, Undisturbed, Calm
<1> QED BY <1>1, <1>2, <1>3, Invariance, PTL DEF Spec

\* There all sagas together do to accounts and clients what the indivisible
\* transfers of TransferPromise do, wherever the process dies.
THEOREM CalmPaymentsAddUp ==
  ASSUME Settleable, Calm
  PROVE  Spec => /\ [](FrozenBacked /\ BooksAgree)
                 /\ Promise!Init /\ [][Promise!Next]_(Promise!promiseVars)
BY CalmIsUndisturbed, FrozenIsBacked, BooksAlwaysAgree, SagaKeepsPromise, PTL

-----------------------------------------------------------------------------
(* What a sender can get back, whatever fails and whenever the process     *)
(* dies, as long as no refund is served by two handlers at a time and none *)
(* pays without having marked the order.                                   *)

RefundsAlone ==
  /\ \A q, r \in Refunders : q # r /\ refund[q].at # "idle" /\ refund[r].at # "idle"
                               => refund[q].of # refund[r].of
  /\ \A q \in Refunders : refund[q].at = "pay_sender" => status[refund[q].of] = "REFUND_PENDING"

\* The sender was debited, and a compensation or a refund may still pay him back.
Owing(p) ==
  \/ pc[p] \in {"find_receiver", "open_receiver", "credit", "credit_fee", "settle", "anchor"}
  \/ pc[p] = "update" /\ step[p] >= 4
  \/ pc[p] \in {"reload", "fail"} /\ step[p] >= 5
  \/ pc[p] = "compensate" /\ step[p] \in {5, 6}
  \/ status[p] = "CLOSED"
  \/ status[p] = "REFUND_PENDING" /\ \E q \in Refunders : refund[q].at = "pay_sender" /\ refund[q].of = p

Owed(a) == { p \in Payments : Sender(p) = a /\ Owing(p) }

\* What an account has and may still get back is at most what it had.
OwedInv ==
  /\ IsFiniteSet(Started)
  /\ \A q \in Refunders : refund[q].at = "mark" => status[refund[q].of] = "CLOSED"
  /\ \A a \in AccountIds : OnlySends(a) =>
       Cash(accounts[a]) + SumFunctionOnSet(Totals, Owed(a)) <= StartBalance[a]

\* What is owed is owed to payments that were started.
LEMMA OwedFacts ==
  ASSUME IInv, NEW a
  PROVE  /\ Owed(a) \subseteq Started
         /\ \A p \in Owed(a) : Totals[p] \in Int
         /\ OnlySends(a) => \A p \in Owed(a) : Totals[p] \in Nat
<1>1. \A p \in Payments : status[p] \in {"CLOSED", "REFUND_PENDING"} => pc[p] = "done"
  BY DEF IInv, JournalStage, ClosedStatuses
<1>2. Owed(a) \subseteq Started /\ \A p \in Owed(a) : Totals[p] \in Int
  BY <1>1, AmountsAreInt DEF Owed, Owing, Started
<1>3. ASSUME OnlySends(a), NEW p \in Owed(a) PROVE Totals[p] \in Nat
  BY <1>3, AmountsAreInt DEF OnlySends, Regular, Owed
<1> QED BY <1>2, <1>3

\* A step after which no more is owed, one that takes what is then owed, and one
\* that pays back what was.
Settles(p, takes, pays) ==
  /\ Started' \subseteq Started \cup {p}
  /\ \A r \in Payments : Owing(r)' => Owing(r) \/ (takes /\ r = p)
  /\ takes => ~ Owing(p)
  /\ pays => Owing(p) /\ ~ Owing(p)'
  /\ \A a \in AccountIds : OnlySends(a) =>
       Cash(accounts'[a]) <= Cash(accounts[a]) - Part(takes /\ Sender(p) = a, Total(p))
                                              + Part(pays /\ Sender(p) = a, Total(p))

\* Such a step keeps the balance of what an account has and may still get.
LEMMA SettlesKeeps ==
  ASSUME IInv, accounts' \in [AccountIds -> Row], OwedInv, NEW p \in Payments,
         NEW takes \in BOOLEAN, NEW pays \in BOOLEAN,
         Settles(p, takes, pays), NEW a \in AccountIds, OnlySends(a)
  PROVE  Cash(accounts'[a]) + SumFunctionOnSet(Totals, Owed(a))' <= StartBalance[a]
<1> DEFINE S == Owed(a)
           T == Owed(a)'
<1>1. /\ IsFiniteSet(S) /\ S \subseteq Started
      /\ \A r \in S : Totals[r] \in Nat /\ Totals[r] \in Int
  BY OwedFacts, FS_Subset DEF OwedInv
<1>2. SumFunctionOnSet(Totals, Owed(a))' = SumFunctionOnSet(Totals, T)
  BY DEF Totals
<1>3. T \subseteq IF takes /\ Sender(p) = a THEN S \cup {p} ELSE S
  BY DEF Settles, Owed
<1>4. /\ takes /\ Sender(p) = a => p \notin S
      /\ pays /\ Sender(p) = a => p \in S /\ p \notin T
  BY DEF Settles, Owed
<1>5. Totals[p] = Total(p) /\ Totals[p] \in Int /\ (Sender(p) = a => Totals[p] \in Nat)
  BY AmountsAreInt DEF OnlySends, Regular
<1>6. T \subseteq S \cup {p} /\ IsFiniteSet(T)
  <2>1. IsFiniteSet(S \cup {p})
    BY <1>1, FS_AddElement
  <2>2. T \subseteq S \cup {p}
    BY <1>3
  <2> HIDE DEF S, T
  <2> QED BY <2>1, <2>2, FS_Subset
<1> HIDE DEF S, T
<1>7. SumFunctionOnSet(Totals, S) \in Int /\ SumFunctionOnSet(Totals, T) \in Int
  <2>1. \A r \in T : Totals[r] \in Int
    BY <1>1, <1>5, <1>6
  <2> QED BY <1>1, <1>6, <2>1, SumInt
<1>8. SumFunctionOnSet(Totals, T) <= SumFunctionOnSet(Totals, S)
                                       + Part(takes /\ Sender(p) = a, Total(p))
                                       - Part(pays /\ Sender(p) = a, Total(p))
  <2>1. CASE takes /\ Sender(p) = a
    <3>1. IsFiniteSet(S \cup {p}) /\ \A r \in S \cup {p} : Totals[r] \in Nat
      BY <1>1, <1>5, <2>1, FS_AddElement
    <3>2. SumFunctionOnSet(Totals, T) <= SumFunctionOnSet(Totals, S \cup {p})
      BY <1>6, <3>1, SumSubset
    <3>3. SumFunctionOnSet(Totals, S \cup {p}) = SumFunctionOnSet(Totals, S) + Totals[p]
      BY <1>1, <1>4, <1>5, <2>1, SumAdd
    <3>4. ~ pays
      BY <1>4, <2>1
    <3> QED BY <1>5, <1>7, <2>1, <3>2, <3>3, <3>4 DEF Part
  <2>2. CASE pays /\ Sender(p) = a
    <3>1. IsFiniteSet(S \ {p}) /\ (\A r \in S \ {p} : Totals[r] \in Nat) /\ T \subseteq S \ {p}
      BY <1>1, <1>4, <1>6, <2>2, FS_Subset
    <3>2. SumFunctionOnSet(Totals, T) <= SumFunctionOnSet(Totals, S \ {p})
      BY <3>1, SumSubset
    <3>3. SumFunctionOnSet(Totals, S) = Totals[p] + SumFunctionOnSet(Totals, S \ {p})
      BY <1>1, <1>4, <2>2, SumRemove
    <3>4. SumFunctionOnSet(Totals, S \ {p}) \in Int
      BY <3>1, SumInt
    <3>5. ~ (takes /\ Sender(p) = a)
      BY <1>4, <2>2
    <3> QED BY <1>5, <1>7, <2>2, <3>2, <3>3, <3>4, <3>5 DEF Part
  <2>3. CASE ~ (takes /\ Sender(p) = a) /\ ~ (pays /\ Sender(p) = a)
    <3>1. SumFunctionOnSet(Totals, T) <= SumFunctionOnSet(Totals, S)
      BY <1>1, <1>3, <2>3, SumSubset
    <3> QED BY <1>7, <2>3, <3>1 DEF Part
  <2> QED BY <2>1, <2>2, <2>3
<1>9. Cash(accounts[a]) + SumFunctionOnSet(Totals, S) <= StartBalance[a]
  BY DEF OwedInv, S
<1>10. Cash(accounts[a]) \in Int /\ Cash(accounts'[a]) \in Int /\ StartBalance[a] \in Int
  BY RowMoves, AccountAssumption DEF IInv, TypeOK
<1>11. Total(p) \in Int
  BY OrderFacts
<1>12. Cash(accounts'[a]) <= Cash(accounts[a]) - Part(takes /\ Sender(p) = a, Total(p))
                                              + Part(pays /\ Sender(p) = a, Total(p))
  BY DEF Settles
<1> DEFINE t == Part(takes /\ Sender(p) = a, Total(p))
           y == Part(pays /\ Sender(p) = a, Total(p))
           x == SumFunctionOnSet(Totals, S)
           z == SumFunctionOnSet(Totals, T)
<1>13. t \in Int /\ y \in Int
  BY <1>11 DEF Part
<1>14. Cash(accounts'[a]) + z <= StartBalance[a]
  <2>1. Cash(accounts'[a]) <= Cash(accounts[a]) - t + y
    BY <1>12
  <2>2. z <= x + t - y
    BY <1>8
  <2>3. Cash(accounts[a]) + x <= StartBalance[a] /\ x \in Int /\ z \in Int
    BY <1>7, <1>9
  <2> HIDE DEF t, y, x, z
  <2> QED BY <1>10, <1>13, <2>1, <2>2, <2>3
<1> QED BY <1>2, <1>14

\* A step of one payment leaves what the others owe as it was.
LEMMA OthersOwing ==
  ASSUME NEW p \in Payments, OthersStay(p), refund' = refund
  PROVE  /\ Started' \subseteq Started \cup {p}
         /\ \A r \in Payments \ {p} : Owing(r)' <=> Owing(r)
  BY DEF OthersStay, Started, Owing

\* A saga only comes to owe by debiting the sender.
LEMMA OnlyDebitsOwe ==
  ASSUME IInv, NEW p \in Payments, CheckIdempotency(p) \/ HandlerStep(p) \/ SagaStep(p)
  PROVE  OthersStay(p) /\ refund' = refund /\ (~ DebitSender(p) => (Owing(p)' => Owing(p)))
<1>0. ControlTypeOK /\ Stage(p)
  BY IInvParts DEF ControlInv
<1> DEFINE k == step[p]
           Fine == OthersStay(p) /\ refund' = refund /\ (Owing(p)' => Owing(p))
<1>1. status[p] \in ClosedStatuses => pc[p] = "done"
  BY <1>0 DEF Stage, JournalStage
<1>2. /\ pc[p] \in ForwardLabels \cup {"fail"} => k \in 1..8
      /\ pc[p] \in IntakeLabels \cup {"load"} => k = 1
      /\ pc[p] \in {"freeze_read", "freeze"} => k = 3
      /\ pc[p] \in {"debit", "find_receiver", "open_receiver", "credit", "credit_fee"} => k = 4
  BY <1>0 DEF Stage, StepStage, Steps
<1>3. ASSUME NEW l, Goto(p, l), UNCHANGED <<status, step, refund>>, pc[p] # "done",
             l \notin {"find_receiver", "open_receiver", "credit", "credit_fee", "settle", "anchor"},
             \/ l \notin {"update", "reload", "fail", "compensate"}
             \/ l \in {"update", "reload", "fail"} /\ k < 4
             \/ l = "fail" /\ k = 4
             \/ Owing(p)
      PROVE  Fine
  <2>1. pc'[p] = l /\ OthersStay(p)
    BY <1>0, <1>3, LabelMoves DEF OthersStay
  <2>2. status[p] \notin {"CLOSED", "REFUND_PENDING"}
    BY <1>1, <1>3 DEF ClosedStatuses
  <2>3. CASE Owing(p)
    BY <1>3, <2>1, <2>3
  <2>4. CASE ~ Owing(p)
    <3>1. step'[p] = k /\ status'[p] = status[p]
      BY <1>3
    <3>2. k \in Int
      BY <1>0 DEF ControlTypeOK
    <3> QED BY <1>3, <2>1, <2>2, <2>4, <3>1, <3>2 DEF Owing
  <2> QED BY <2>3, <2>4
<1>4. ASSUME NEW n \in 0..7, UndoFrom(p, n), refund' = refund,
             status'[p] \notin {"CLOSED", "REFUND_PENDING"},
             \A r \in Payments \ {p} : status'[r] = status[r],
             n >= 5 => Owing(p)
      PROVE  Fine
  <2>1. LastCompensable(n) \in {0, 3, 5, 6} /\ LastCompensable(n) <= n
    BY LastCompensables
  <2>2. /\ step' = [step EXCEPT ![p] = LastCompensable(n)]
        /\ Goto(p, IF LastCompensable(n) = 0 THEN "done" ELSE "compensate")
    BY <1>4 DEF UndoFrom
  <2>3. /\ pc'[p] = (IF LastCompensable(n) = 0 THEN "done" ELSE "compensate")
        /\ step'[p] = LastCompensable(n)
        /\ OthersStay(p)
    BY <1>0, <1>4, <2>2, LabelMoves DEF OthersStay, ControlTypeOK
  <2> QED BY <1>4, <2>1, <2>3 DEF Owing
<1>5. ASSUME CheckIdempotency(p) \/ Screen(p) \/ CheckSenderBalance(p) PROVE Fine
  <2>1. PICK l \in {"screen", "answered", "rejected", "balance", "commit"} : Goto(p, l)
    BY <1>5 DEF CheckIdempotency, Screen, CheckSenderBalance
  <2>2. UNCHANGED <<status, step, refund>> /\ pc[p] # "done"
    BY <1>5 DEF CheckIdempotency, Screen, CheckSenderBalance, orderVars, At
  <2> HIDE DEF Fine
  <2> QED BY <1>3, <2>1, <2>2
<1>6. ASSUME CommitOrder(p) PROVE Fine
  <2>1. PICK l \in {"load", "rejected"} : Goto(p, l)
    BY <1>6 DEF CommitOrder
  <2>2. UNCHANGED <<step, refund>> /\ pc[p] = "commit"
        /\ (status' = status \/ status' = [status EXCEPT ![p] = "CREATED"])
    BY <1>6 DEF CommitOrder, WithOrder, orderVars, At
  <2>3. pc'[p] = l /\ OthersStay(p)
    BY <1>0, <2>1, <2>2, LabelMoves DEF OthersStay, ControlTypeOK
  <2>4. status'[p] \notin {"CLOSED", "REFUND_PENDING"}
    BY <1>0, <1>1, <2>2 DEF ControlTypeOK, ClosedStatuses
  <2> QED BY <2>2, <2>3, <2>4 DEF Owing
<1>7. ASSUME LoadOrder(p) \/ ReadSenderForFreeze(p) \/ ExecuteFreeze(p) PROVE Fine
  <2>1. PICK l \in {"reload", "done", "freeze", "fail", "update"} : Goto(p, l)
    BY <1>7 DEF LoadOrder, ReadSenderForFreeze, ExecuteFreeze
  <2>2. UNCHANGED <<status, step, refund>> /\ pc[p] \in {"load", "freeze_read", "freeze"}
    BY <1>7 DEF LoadOrder, ReadSenderForFreeze, ExecuteFreeze, orderVars, At
  <2>3. k < 4
    BY <1>2, <2>2
  <2> HIDE DEF Fine
  <2> QED BY <1>3, <2>1, <2>2, <2>3
<1>8. ASSUME FindReceiver(p) \/ OpenReceiver(p) \/ CreditReceiver(p) \/ CreditFee(p)
               \/ SettlePayment(p) \/ RecordOnChain(p)
      PROVE  Fine
  <2>1. PICK l : Goto(p, l)
    BY <1>8 DEF FindReceiver, OpenReceiver, CreditReceiver, CreditFee, SettlePayment, RecordOnChain
  <2>2. UNCHANGED <<status, step, refund>> /\ Owing(p)
    BY <1>8 DEF FindReceiver, OpenReceiver, CreditReceiver, CreditFee, SettlePayment,
                RecordOnChain, orderVars, At, Owing
  <2>3. OthersStay(p)
    BY <1>0, <2>1, <2>2, LabelMoves DEF OthersStay
  <2> QED BY <2>2, <2>3
<1>9. ASSUME ReloadOrder(p) PROVE Fine
  <2>1. /\ pc[p] = "reload" /\ UNCHANGED <<status, refund>> /\ k \in Steps
        /\ status[p] \notin {"CLOSED", "REFUND_PENDING"}
    BY <1>0, <1>1, <1>9 DEF ReloadOrder, At, orderVars, ForwardLabels, Stage, StepStage, ClosedStatuses
  <2>2. ~ IsStatusAtOrAfter(Found(p), TargetStatus(k))
    BY <1>0, <2>1, NotYetReached DEF Stage, StepStage, ForwardLabels, Found
  <2>3. CASE UndoFrom(p, k - 1)
    <3>1. k - 1 \in 0..7 /\ (k - 1 >= 5 => Owing(p))
      BY <2>1 DEF Steps, Owing
    <3> QED BY <1>4, <2>1, <2>3, <3>1
  <2>4. CASE Goto(p, FirstStatement(k)) /\ UNCHANGED step
    <3>1. pc'[p] = FirstStatement(k) /\ OthersStay(p)
      BY <1>0, <2>1, <2>4, LabelMoves DEF OthersStay
    <3>2. CASE k >= 5
      BY <2>1, <3>1, <3>2 DEF Owing
    <3>3. CASE k < 5
      BY <2>1, <2>4, <3>1, <3>3, FirstStatements DEF Owing, Steps
    <3> QED BY <2>1, <3>2, <3>3 DEF Steps
  <2> QED BY <1>9, <2>2, <2>3, <2>4 DEF ReloadOrder
<1>10. ASSUME UpdateStatus(p) PROVE Fine
  <2>1. /\ pc[p] = "update" /\ refund' = refund /\ k \in 1..8
        /\ Goto(p, IF k = 8 THEN "done" ELSE "reload")
        /\ step' = [step EXCEPT ![p] = IF k = 8 THEN 8 ELSE k + 1]
        /\ \/ status' = [status EXCEPT ![p] = UpdatedStatus(status[p], TargetStatus(k))]
           \/ status' = status
    BY <1>2, <1>10 DEF UpdateStatus, At, ForwardLabels
  <2>2. pc'[p] = (IF k = 8 THEN "done" ELSE "reload") /\ step'[p] = (IF k = 8 THEN 8 ELSE k + 1)
        /\ OthersStay(p)
    BY <1>0, <2>1, LabelMoves DEF OthersStay, ControlTypeOK
  <2>3. CASE k >= 4
    BY <2>1, <2>2, <2>3 DEF Owing
  <2>4. CASE k < 4
    <3>1. TargetStatus(k) \notin ClosedStatuses
      BY <2>1, <2>4, FlowStatuses
    <3>2. status'[p] \notin {"CLOSED", "REFUND_PENDING"}
      BY <1>0, <1>1, <2>1, <3>1, UpdatedStatusOutcome DEF ClosedStatuses, ControlTypeOK
    <3> QED BY <2>1, <2>2, <2>4, <3>2 DEF Owing
  <2> QED BY <2>1, <2>3, <2>4
<1>11. ASSUME MarkFailed(p) PROVE Fine
  <2>1. /\ pc[p] = "fail" /\ refund' = refund /\ k \in 1..8 /\ UndoFrom(p, k - 1)
        /\ \/ status' = [status EXCEPT ![p] = UpdatedStatus(status[p], "PAYMENT_FAILED")]
           \/ status' = status
    BY <1>2, <1>11 DEF MarkFailed, At
  <2>2. status'[p] \notin {"CLOSED", "REFUND_PENDING"} /\ \A r \in Payments \ {p} : status'[r] = status[r]
    BY <1>0, <1>1, <2>1, UpdatedStatusOutcome DEF ClosedStatuses, ControlTypeOK
  <2>3. k - 1 \in 0..7 /\ (k - 1 >= 5 => Owing(p))
    BY <2>1 DEF Owing
  <2> QED BY <1>4, <2>1, <2>2, <2>3
<1>12. ASSUME CompensateSettlement(p) \/ UndoFee(p) \/ ReleaseFunds(p) \/ UndoReceiver(p) \/ RefundSender(p)
       PROVE  Fine
  <2>1. /\ UNCHANGED <<status, refund>> /\ pc[p] \in {"compensate", "undo_receiver", "undo_fee"}
        /\ status[p] \notin {"CLOSED", "REFUND_PENDING"}
    BY <1>1, <1>12
       DEF CompensateSettlement, UndoFee, ReleaseFunds, UndoReceiver, RefundSender, orderVars, At,
           ClosedStatuses
  <2>2. \/ UndoFrom(p, 5) /\ Owing(p)
        \/ UndoFrom(p, 4)
        \/ UndoFrom(p, 2)
        \/ (Goto(p, "undo_fee") \/ Goto(p, "undo_receiver")) /\ UNCHANGED step
    BY <1>12
       DEF CompensateSettlement, UndoFee, ReleaseFunds, UndoReceiver, RefundSender, At, Owing
  <2>3. 5 \in 0..7 /\ 4 \in 0..7 /\ 2 \in 0..7 /\ ~ (4 >= 5) /\ ~ (2 >= 5)
    OBVIOUS
  <2> HIDE DEF Fine
  <2> QED BY <1>3, <1>4, <2>1, <2>2, <2>3
<1>13. ASSUME DebitSender(p) PROVE OthersStay(p) /\ refund' = refund
  <2>1. PICK l : Goto(p, l)
    BY <1>13 DEF DebitSender
  <2>2. UNCHANGED <<status, step, refund>>
    BY <1>13 DEF DebitSender, orderVars
  <2> QED BY <1>0, <2>1, <2>2, LabelMoves DEF OthersStay
<1> HIDE DEF Fine
<1>14. ~ DebitSender(p) => Fine
  BY <1>5, <1>6, <1>7, <1>8, <1>9, <1>10, <1>11, <1>12 DEF HandlerStep, SagaStep
<1> QED BY <1>13, <1>14 DEF Fine

\* What an update and a credit of one row do to the money of an account.
LEMMA CashAfterUpdate ==
  ASSUME accounts \in [AccountIds -> Row], NEW b \in AccountIds, NEW guard, NEW row,
         accounts' = UpdatedAccount(b, guard, row), NEW a \in AccountIds
  PROVE  Cash(accounts'[a]) = IF a = b /\ b \in open /\ guard THEN Cash(row) ELSE Cash(accounts[a])
  BY DEF UpdatedAccount

LEMMA CashAfterCredit ==
  ASSUME accounts \in [AccountIds -> Row], NEW b \in AccountIds, NEW n \in Int,
         accounts' = CreditedAccount(b, n), NEW a \in AccountIds
  PROVE  Cash(accounts'[a]) = IF a = b /\ b \in open THEN Cash(accounts[a]) + n ELSE Cash(accounts[a])
<1>1. Cash(CreditAccount(accounts[b], n)) = Cash(accounts[b]) + n
  BY RowMoves
<1> QED BY <1>1 DEF CreditedAccount

\* The refund of a failed step pays what the step before it took.
Repays(p) ==
  \A a \in AccountIds : \/ Cash(accounts'[a]) = Cash(accounts[a])
                        \/ a = Sender(p) /\ Cash(accounts'[a]) = Cash(accounts[a]) + Total(p)

\* No other statement of a saga changes the money of an account that only sends.
LEMMA SagaCash ==
  ASSUME IInv, NEW p \in Payments, CheckIdempotency(p) \/ HandlerStep(p) \/ SagaStep(p),
         ~ DebitSender(p), ~ RefundSender(p), NEW a \in AccountIds, OnlySends(a)
  PROVE  Cash(accounts'[a]) = Cash(accounts[a])
<1>0. /\ accounts \in [AccountIds -> Row]
      /\ Receiver(p) # a /\ FeeAccount(p) # a
      /\ Sender(p) \in AccountIds /\ Receiver(p) \in AccountIds /\ FeeAccount(p) \in AccountIds
      /\ Total(p) \in Int /\ Order[p].target \in Int /\ Order[p].fee \in Int
  BY OrderFacts DEF IInv, TypeOK, OnlySends
<1>1. ASSUME UNCHANGED accounts PROVE Cash(accounts'[a]) = Cash(accounts[a])
  BY <1>1
<1>2. CASE ExecuteFreeze(p)
  <2>1. \/ UNCHANGED accounts
        \/ accounts' = UpdatedAccount(Sender(p), CanDebit(accounts[Sender(p)], Total(p)),
                                      FreezeFunds(accounts[Sender(p)], Total(p)))
    BY <1>2 DEF ExecuteFreeze
  <2>2. Cash(FreezeFunds(accounts[Sender(p)], Total(p))) = Cash(accounts[Sender(p)])
    BY <1>0, RowMoves
  <2> QED BY <1>0, <2>1, <2>2, CashAfterUpdate
<1>3. CASE ReleaseFunds(p)
  <2>1. \/ UNCHANGED accounts
        \/ accounts' = UpdatedAccount(Sender(p), HasFrozen(accounts[Sender(p)], Total(p)),
                                      UnfreezeFunds(accounts[Sender(p)], Total(p)))
    BY <1>3 DEF ReleaseFunds
  <2>2. Cash(UnfreezeFunds(accounts[Sender(p)], Total(p))) = Cash(accounts[Sender(p)])
    <3>1. accounts[Sender(p)] \in Row
      BY <1>0
    <3> QED BY <1>0, <3>1 DEF Row, UnfreezeFunds, Cash
  <2> QED BY <1>0, <2>1, <2>2, CashAfterUpdate
<1>4. CASE CreditReceiver(p)
  BY <1>0, <1>4, CashAfterCredit DEF CreditReceiver
<1>5. CASE CreditFee(p)
  BY <1>0, <1>5, CashAfterCredit DEF CreditFee
<1>6. CASE UndoReceiver(p)
  BY <1>0, <1>6, CashAfterUpdate DEF UndoReceiver
<1>7. CASE UndoFee(p)
  BY <1>0, <1>7, CashAfterUpdate DEF UndoFee
<1>8. \/ UNCHANGED accounts
      \/ ExecuteFreeze(p) \/ CreditReceiver(p) \/ CreditFee(p)
      \/ UndoReceiver(p) \/ UndoFee(p) \/ ReleaseFunds(p)
  BY DEF HandlerStep, SagaStep, moneyVars, CheckIdempotency, Screen, CheckSenderBalance,
         CommitOrder, LoadOrder, ReloadOrder, ReadSenderForFreeze, FindReceiver, OpenReceiver,
         SettlePayment, RecordOnChain, UpdateStatus, MarkFailed, CompensateSettlement
<1> QED BY <1>1, <1>2, <1>3, <1>4, <1>5, <1>6, <1>7, <1>8

\* A step that pays no sender and takes from none.
LEMMA NothingSettles ==
  ASSUME NEW p \in Payments, Started' \subseteq Started \cup {p},
         \A r \in Payments : Owing(r)' => Owing(r),
         \A a \in AccountIds : OnlySends(a) => Cash(accounts'[a]) = Cash(accounts[a]),
         accounts \in [AccountIds -> Row]
  PROVE  Settles(p, FALSE, FALSE)
<1>1. \A a \in AccountIds : Cash(accounts[a]) \in Int
  BY RowMoves
<1> QED BY <1>1 DEF Settles, Part

\* A step of one payment that moves none of its sender's money.
LEMMA OthersSettle ==
  ASSUME NEW p \in Payments, OthersStay(p), refund' = refund, Owing(p)' => Owing(p),
         \A a \in AccountIds : OnlySends(a) => Cash(accounts'[a]) = Cash(accounts[a]),
         accounts \in [AccountIds -> Row]
  PROVE  Settles(p, FALSE, FALSE)
<1>1. Started' \subseteq Started \cup {p} /\ \A r \in Payments : Owing(r)' => Owing(r)
  BY OthersOwing
<1> QED BY <1>1, NothingSettles

\* The debit takes what is then owed.
LEMMA DebitSettles ==
  ASSUME IInv, NEW p \in Payments, DebitSender(p)
  PROVE  Settles(p, TRUE, FALSE) \/ Settles(p, FALSE, FALSE)
<1>0. /\ ControlTypeOK /\ Stage(p) /\ accounts \in [AccountIds -> Row]
      /\ Sender(p) \in AccountIds /\ Total(p) \in Int
  BY IInvParts, OrderFacts DEF ControlInv, SoundAccounts
<1>1. OthersStay(p) /\ refund' = refund
  BY OnlyDebitsOwe DEF SagaStep
<1>2. pc[p] = "debit" /\ status[p] \notin {"CLOSED", "REFUND_PENDING"} /\ step[p] = 4
      /\ UNCHANGED <<status, step>>
  BY <1>0 DEF DebitSender, At, Stage, StepStage, JournalStage, ClosedStatuses, orderVars
<1>3. ~ Owing(p)
  BY <1>2 DEF Owing
<1>4. \/ accounts' = [accounts EXCEPT ![Sender(p)] = DebitAccount(accounts[Sender(p)], Total(p))]
      \/ accounts' = accounts /\ Goto(p, "fail")
  BY DEF DebitSender, UpdatedAccount
<1>5. CASE accounts' = [accounts EXCEPT ![Sender(p)] = DebitAccount(accounts[Sender(p)], Total(p))]
  <2>1. ASSUME NEW a \in AccountIds
        PROVE  Cash(accounts'[a]) <= Cash(accounts[a]) - Part(Sender(p) = a, Total(p))
    <3>1. Cash(DebitAccount(accounts[Sender(p)], Total(p))) = Cash(accounts[Sender(p)]) - Total(p)
      BY <1>0, RowMoves
    <3>2. Cash(accounts'[a]) = IF a = Sender(p) THEN Cash(accounts[a]) - Total(p)
                                                ELSE Cash(accounts[a])
      BY <1>0, <1>5, <3>1
    <3>3. Cash(accounts[a]) \in Int
      BY <1>0, RowMoves
    <3> QED BY <1>0, <3>2, <3>3 DEF Part
  <2>2. \A a \in AccountIds : Cash(accounts[a]) \in Int
    BY <1>0, RowMoves
  <2>3. ASSUME NEW a \in AccountIds
        PROVE  Cash(accounts'[a]) <= Cash(accounts[a]) - Part(TRUE /\ Sender(p) = a, Total(p))
                                                       + Part(FALSE /\ Sender(p) = a, Total(p))
    BY <1>0, <2>1, <2>2 DEF Part
  <2>4. /\ Started' \subseteq Started \cup {p}
        /\ \A r \in Payments \ {p} : Owing(r)' <=> Owing(r)
    BY <1>1, OthersOwing
  <2> QED BY <1>3, <2>3, <2>4 DEF Settles
<1>6. CASE accounts' = accounts /\ Goto(p, "fail")
  <2>1. pc'[p] = "fail"
    BY <1>0, <1>6, LabelMoves
  <2>2. ~ Owing(p)'
    BY <1>2, <2>1 DEF Owing
  <2> QED BY <1>0, <1>1, <1>6, <2>2, OthersSettle
<1> QED BY <1>4, <1>5, <1>6

\* Paying the sender back settles the payment, if it was still owed.
LEMMA RepaymentSettles ==
  ASSUME IInv, NEW p \in Payments, accounts' = CreditedAccount(Sender(p), Total(p)),
         Started' \subseteq Started, \A r \in Payments : Owing(r)' => Owing(r),
         Owing(p), ~ Owing(p)'
  PROVE  Settles(p, FALSE, TRUE)
<1>0. accounts \in [AccountIds -> Row] /\ Sender(p) \in AccountIds /\ Total(p) \in Int
  BY OrderFacts DEF IInv, TypeOK
<1>1. ASSUME NEW a \in AccountIds, OnlySends(a)
      PROVE  Cash(accounts'[a]) <= Cash(accounts[a]) - Part(FALSE /\ Sender(p) = a, Total(p))
                                                     + Part(TRUE /\ Sender(p) = a, Total(p))
  <2>1. Cash(accounts'[a]) = (IF a = Sender(p) /\ Sender(p) \in open THEN Cash(accounts[a]) + Total(p)
                                                                    ELSE Cash(accounts[a]))
    BY <1>0, CashAfterCredit
  <2>2. Cash(accounts[a]) \in Int
    BY <1>0, RowMoves
  <2>3. Sender(p) = a => Total(p) >= 0
    BY <1>1 DEF OnlySends, Regular
  <2> QED BY <1>0, <2>1, <2>2, <2>3 DEF Part
<1> QED BY <1>1 DEF Settles

\* The compensation of the debit pays it back.
LEMMA RefundSenderSettles ==
  ASSUME IInv, NEW p \in Payments, RefundSender(p)
  PROVE  Settles(p, FALSE, TRUE) \/ Settles(p, FALSE, FALSE)
<1>0. ControlTypeOK /\ Stage(p) /\ accounts \in [AccountIds -> Row]
  BY IInvParts DEF ControlInv, SoundAccounts
<1>1. OthersStay(p) /\ refund' = refund /\ (Owing(p)' => Owing(p))
  <2>1. ~ DebitSender(p)
    BY DEF RefundSender, DebitSender, At
  <2> QED BY <2>1, OnlyDebitsOwe DEF SagaStep
<1>2. /\ pc[p] = "compensate" /\ step[p] = 5 /\ UNCHANGED status
      /\ status[p] \notin {"CLOSED", "REFUND_PENDING"}
  BY <1>0 DEF RefundSender, At, Stage, JournalStage, ClosedStatuses, orderVars
<1>3. CASE accounts' = accounts
  BY <1>0, <1>1, <1>3, OthersSettle
<1>4. CASE accounts' = CreditedAccount(Sender(p), Total(p)) /\ Goto(p, "undo_receiver")
  <2>1. pc'[p] = "undo_receiver"
    BY <1>0, <1>4, LabelMoves
  <2>2. Owing(p) /\ ~ Owing(p)'
    BY <1>2, <2>1 DEF Owing
  <2>3. Started' \subseteq Started
    BY <1>1, <1>2, OthersOwing DEF Started
  <2>4. \A r \in Payments : Owing(r)' => Owing(r)
    BY <1>1, OthersOwing
  <2> QED BY <1>4, <2>2, <2>3, <2>4, RepaymentSettles
<1> QED BY <1>3, <1>4 DEF RefundSender

\* Every statement of a request or a saga settles its payment.
LEMMA SagaSettles ==
  ASSUME IInv, NEW p \in Payments, CheckIdempotency(p) \/ HandlerStep(p) \/ SagaStep(p)
  PROVE  \E takes, pays \in BOOLEAN : Settles(p, takes, pays)
<1>1. CASE DebitSender(p)
  BY <1>1, DebitSettles
<1>2. CASE RefundSender(p)
  BY <1>2, RefundSenderSettles
<1>3. CASE ~ DebitSender(p) /\ ~ RefundSender(p)
  <2>1. OthersStay(p) /\ refund' = refund /\ (Owing(p)' => Owing(p))
    BY <1>3, OnlyDebitsOwe
  <2>2. \A a \in AccountIds : OnlySends(a) => Cash(accounts'[a]) = Cash(accounts[a])
    BY <1>3, SagaCash
  <2>3. Settles(p, FALSE, FALSE)
    BY <2>1, <2>2, OthersSettle DEF IInv, TypeOK
  <2> QED BY <2>3
<1> QED BY <1>1, <1>2, <1>3

-----------------------------------------------------------------------------
(* The handlers of RefundPayment.                                          *)

\* What a refund handler does to the payments it owes: nothing but paying one.
LEMMA RefundSettles ==
  ASSUME IInv, OwedInv, RefundsAlone, NEW q \in Refunders, RefundStep(q),
         NEW p \in Payments, p = refund[q].of
  PROVE  \E takes, pays \in BOOLEAN : Settles(p, takes, pays)
<1>0. /\ ControlTypeOK /\ RefundStage /\ accounts \in [AccountIds -> Row]
      /\ refund[q].at # "idle" /\ Stage(p)
  <2>1. ControlTypeOK /\ RefundStage /\ accounts \in [AccountIds -> Row] /\ Stage(p)
    BY IInvParts DEF ControlInv, SoundAccounts
  <2>2. refund[q].at # "idle"
    BY DEF RefundStep, MarkRefundPending, RefundPaysSender, RefundDebitsReceiver, RefundDebitsFee,
           FinishRefund
  <2> QED BY <2>1, <2>2
<1>1. UNCHANGED <<pc, step>>
  BY DEF RefundStep, MarkRefundPending, RefundPaysSender, RefundDebitsReceiver, RefundDebitsFee,
         FinishRefund, sagaVars
<1>2. ASSUME NEW l, RefundGoto(q, l)
      PROVE  /\ refund'[q].at = l
             /\ refund'[q].of \in {p, NoPayment}
             /\ \A s \in Refunders \ {q} : refund'[s] = refund[s]
  BY <1>0, <1>2 DEF RefundGoto, ControlTypeOK
<1>3. \A r \in Refunders \ {q} : refund[r].at # "idle" => refund[r].of # p
  BY <1>0 DEF RefundsAlone
<1>4. Started' \subseteq Started
  BY <1>1 DEF Started
<1>5. ASSUME NEW l, RefundGoto(q, l), \A r \in Payments \ {p} : status'[r] = status[r]
      PROVE  \A r \in Payments \ {p} : Owing(r)' => Owing(r)
  <2> SUFFICES ASSUME NEW r \in Payments \ {p}, Owing(r)', status'[r] = "REFUND_PENDING",
                      NEW s \in Refunders, refund'[s].at = "pay_sender", refund'[s].of = r
               PROVE  refund[s].at = "pay_sender" /\ refund[s].of = r
    BY <1>1, <1>5 DEF Owing
  <2>1. r # NoPayment
    BY BoundAssumption
  <2>2. s # q
    BY <1>2, <1>5, <2>1
  <2> QED BY <1>2, <1>5, <2>2
<1>6. ASSUME NEW l, RefundGoto(q, l), l # "pay_sender"
      PROVE  \A s \in Refunders : refund'[s].at = "pay_sender" => refund'[s].of # p
  <2> SUFFICES ASSUME NEW s \in Refunders, refund'[s].at = "pay_sender" PROVE refund'[s].of # p
    OBVIOUS
  <2>1. s # q
    BY <1>2, <1>6
  <2>2. refund'[s] = refund[s]
    BY <1>2, <1>6, <2>1
  <2> QED BY <1>3, <2>1, <2>2
<1>7. CASE MarkRefundPending(q)
  <2>1. /\ RefundGoto(q, "pay_sender") /\ accounts' = accounts /\ status[p] = "CLOSED"
        /\ \A r \in Payments \ {p} : status'[r] = status[r]
    BY <1>0, <1>7 DEF MarkRefundPending, moneyVars, OwedInv, ControlTypeOK
  <2>2. Owing(p)
    BY <2>1 DEF Owing
  <2>3. Settles(p, FALSE, FALSE)
    BY <1>0, <1>4, <1>5, <2>1, <2>2, NothingSettles
  <2> QED BY <2>3
<1>8. CASE RefundPaysSender(q)
  <2>1. /\ RefundGoto(q, "debit_receiver") /\ status' = status
        /\ refund[q].at = "pay_sender"
        /\ accounts' = accounts \/ accounts' = CreditedAccount(Sender(p), Total(p))
    BY <1>8 DEF RefundPaysSender, orderVars
  <2>2. status[p] = "REFUND_PENDING" /\ pc[p] = "done"
    BY <1>0, <2>1 DEF RefundsAlone, Stage, JournalStage, ClosedStatuses
  <2>3. Owing(p)
    BY <2>1, <2>2 DEF Owing
  <2>4. ~ Owing(p)'
    BY <1>1, <1>6, <2>1, <2>2 DEF Owing
  <2>5. \A r \in Payments : Owing(r)' => Owing(r)
    BY <1>5, <2>1, <2>3
  <2>6. CASE accounts' = accounts
    <3>1. Settles(p, FALSE, FALSE)
      BY <1>0, <1>4, <2>5, <2>6, NothingSettles
    <3> QED BY <3>1
  <2>7. CASE accounts' = CreditedAccount(Sender(p), Total(p))
    <3>1. Settles(p, FALSE, TRUE)
      BY <1>0, <1>4, <2>3, <2>4, <2>5, <2>7, RepaymentSettles
    <3> QED BY <3>1
  <2> QED BY <2>1, <2>6, <2>7
<1>9. ASSUME NEW l, RefundGoto(q, l), l # "pay_sender", refund[q].at # "pay_sender",
             status' = status \/ status' = [status EXCEPT ![p] = UpdatedStatus(@, "REFUNDED")],
             \A a \in AccountIds : OnlySends(a) => Cash(accounts'[a]) = Cash(accounts[a])
      PROVE  Settles(p, FALSE, FALSE)
  <2>1. \A r \in Payments \ {p} : status'[r] = status[r]
    BY <1>0, <1>9 DEF ControlTypeOK
  <2>2. \A s \in Refunders : refund'[s].at = "pay_sender" => refund'[s].of # p
    BY <1>6, <1>9
  <2>3. status'[p] = status[p] \/ status'[p] = "REFUNDED"
    BY <1>0, <1>9, UpdatedStatusOutcome DEF ControlTypeOK
  <2>4. Owing(p)' => Owing(p)
    BY <1>1, <2>2, <2>3 DEF Owing
  <2>5. \A r \in Payments : Owing(r)' => Owing(r)
    BY <1>5, <1>9, <2>1, <2>4
  <2> QED BY <1>0, <1>4, <1>9, <2>5, NothingSettles
<1>10. CASE RefundDebitsReceiver(q)
  <2>1. /\ RefundGoto(q, "debit_fee") /\ refund[q].at = "debit_receiver" /\ status' = status
        /\ \/ accounts' = accounts
           \/ accounts' = UpdatedAccount(Receiver(p), HasFrozen(accounts[Receiver(p)], Order[p].target),
                                         DebitAccount(accounts[Receiver(p)], Order[p].target))
    BY <1>10 DEF RefundDebitsReceiver, orderVars
  <2>2. \A a \in AccountIds : OnlySends(a) => Cash(accounts'[a]) = Cash(accounts[a])
    BY <1>0, <2>1, OrderFacts, CashAfterUpdate DEF OnlySends
  <2>3. Settles(p, FALSE, FALSE)
    BY <1>9, <2>1, <2>2
  <2> QED BY <2>3
<1>11. CASE RefundDebitsFee(q)
  <2>1. /\ RefundGoto(q, "finish") /\ refund[q].at = "debit_fee" /\ status' = status
        /\ \/ accounts' = accounts
           \/ accounts' = UpdatedAccount(FeeAccount(p), HasFrozen(accounts[FeeAccount(p)], Order[p].fee),
                                         DebitAccount(accounts[FeeAccount(p)], Order[p].fee))
    BY <1>11 DEF RefundDebitsFee, orderVars
  <2>2. \A a \in AccountIds : OnlySends(a) => Cash(accounts'[a]) = Cash(accounts[a])
    BY <1>0, <2>1, OrderFacts, CashAfterUpdate DEF OnlySends
  <2>3. Settles(p, FALSE, FALSE)
    BY <1>9, <2>1, <2>2
  <2> QED BY <2>3
<1>12. CASE FinishRefund(q)
  <2>1. /\ RefundGoto(q, "idle") /\ refund[q].at = "finish" /\ accounts' = accounts
        /\ status' = status \/ status' = [status EXCEPT ![p] = UpdatedStatus(@, "REFUNDED")]
    BY <1>12 DEF FinishRefund, moneyVars
  <2>2. Settles(p, FALSE, FALSE)
    BY <1>9, <2>1
  <2> QED BY <2>2
<1> QED BY <1>7, <1>8, <1>10, <1>11, <1>12 DEF RefundStep

\* A handler that is about to mark an order still finds it closed.
Unmarked == \A q \in Refunders : refund[q].at = "mark" => status[refund[q].of] = "CLOSED"

LEMMA OwedParts ==
  OwedInv <=> /\ IsFiniteSet(Started)
              /\ Unmarked
              /\ \A a \in AccountIds : OnlySends(a) =>
                   Cash(accounts[a]) + SumFunctionOnSet(Totals, Owed(a)) <= StartBalance[a]
  BY DEF OwedInv, Unmarked

\* No other handler and no saga moves an order that a refund is about to mark.
LEMMA UnmarkedStays ==
  ASSUME IInv, Unmarked, RefundsAlone, Next
  PROVE  Unmarked'
<1>0. ControlTypeOK /\ (\A r \in Payments : Stage(r)) /\ RefundStage
  BY IInvParts DEF ControlInv
<1>1. ASSUME NEW p \in Payments, CheckIdempotency(p) \/ HandlerStep(p) \/ SagaStep(p)
      PROVE  Unmarked'
  <2>1. OthersStay(p) /\ refund' = refund
    BY <1>1, OnlyDebitsOwe
  <2>2. pc[p] # "done"
    BY <1>1 DEF HandlerStep, SagaStep, CheckIdempotency, Screen, CheckSenderBalance, CommitOrder,
                LoadOrder, ReloadOrder, ReadSenderForFreeze, ExecuteFreeze, DebitSender, FindReceiver,
                OpenReceiver, CreditReceiver, CreditFee, SettlePayment, RecordOnChain, UpdateStatus,
                MarkFailed, CompensateSettlement, RefundSender, UndoReceiver, UndoFee, ReleaseFunds, At
  <2>3. status[p] # "CLOSED"
    BY <1>0, <2>2 DEF Stage, JournalStage, ClosedStatuses
  <2> QED BY <1>0, <2>1, <2>3 DEF Unmarked, OthersStay, RefundStage
<1>2. ASSUME NEW q \in Refunders, RefundStep(q) PROVE Unmarked'
  <2>1. PICK l \in {"idle", "pay_sender", "debit_receiver", "debit_fee", "finish"} : RefundGoto(q, l)
    BY <1>2 DEF RefundStep, MarkRefundPending, RefundPaysSender, RefundDebitsReceiver,
                RefundDebitsFee, FinishRefund
  <2>2. refund[q].at # "idle" /\ \E s : status' = [status EXCEPT ![refund[q].of] = s]
    <3>1. UNCHANGED status => status' = [status EXCEPT ![refund[q].of] = status[refund[q].of]]
      BY <1>0 DEF ControlTypeOK
    <3> QED BY <1>2, <3>1 DEF RefundStep, MarkRefundPending, RefundPaysSender, RefundDebitsReceiver,
                RefundDebitsFee, FinishRefund, orderVars
  <2>3. ASSUME NEW s \in Refunders, refund'[s].at = "mark" PROVE status'[refund'[s].of] = "CLOSED"
    <3>1. s # q /\ refund'[s] = refund[s]
      BY <1>0, <2>1, <2>3 DEF RefundGoto, ControlTypeOK
    <3>2. refund[s].of # refund[q].of
      BY <2>2, <2>3, <3>1 DEF RefundsAlone
    <3>3. refund[s].of \in Payments
      BY <1>0, <2>3, <3>1 DEF RefundStage
    <3> QED BY <1>0, <2>2, <2>3, <3>1, <3>2, <3>3 DEF Unmarked, ControlTypeOK
  <2> QED BY <2>3 DEF Unmarked
<1>3. ASSUME NEW q \in Refunders, NEW p \in Payments, StartRefund(q, p) PROVE Unmarked'
  <2>1. status[p] = "CLOSED" /\ status' = status /\ refund' = [refund EXCEPT ![q] = [at |-> "mark", of |-> p]]
    BY <1>3, RefundTransitions DEF StartRefund, Found, orderVars
  <2> QED BY <1>0, <2>1 DEF Unmarked, ControlTypeOK
<1>4. CASE Crash
  BY <1>4 DEF Crash, Unmarked
<1> QED BY <1>1, <1>2, <1>3, <1>4 DEF Next

\* At the start nothing is owed.
LEMMA InitOwed == Init => OwedInv
<1> SUFFICES ASSUME Init PROVE OwedInv
  OBVIOUS
<1>1. Started = {} /\ IsFiniteSet({})
  BY FS_EmptySet DEF Init, Started
<1>2. Unmarked
  BY DEF Init, Unmarked
<1>3. ASSUME NEW a \in AccountIds
      PROVE  Cash(accounts[a]) + SumFunctionOnSet(Totals, Owed(a)) <= StartBalance[a]
  <2>1. Owed(a) = {}
    BY BoundAssumption DEF Init, Owed, Owing, PaymentStatuses, MainFlow, OffFlow
  <2>2. SumFunctionOnSet(Totals, Owed(a)) = SumFunctionOnSet(Totals, {})
    BY <2>1
  <2>3. SumFunctionOnSet(Totals, {}) = 0
    BY SumEmpty
  <2>4. Cash(accounts[a]) = IF a \in OpenAtStart THEN StartBalance[a] ELSE 0
    BY AccountAssumption DEF Init, NewRow, Cash
  <2>5. StartBalance[a] \in Nat
    BY AccountAssumption
  <2> QED BY <2>2, <2>3, <2>4, <2>5
<1> QED BY <1>1, <1>2, <1>3, OwedParts

\* Every step keeps what an account has and may still get below what it had.
LEMMA NextKeepsOwed ==
  ASSUME IInv, IInv', OwedInv, RefundsAlone, RefundsAlone', [Next]_vars
  PROVE  OwedInv'
<1> SUFFICES ASSUME Next PROVE OwedInv'
  <2>1. ASSUME UNCHANGED vars PROVE OwedInv'
    <3>1. \A r \in Payments : Owing(r)' <=> Owing(r)
      BY <2>1 DEF vars, Owing
    <3>2. \A a \in AccountIds : Owed(a)' = Owed(a)
      BY <3>1 DEF Owed
    <3>3. Started' = Started
      BY <2>1 DEF vars, Started
    <3>4. \A a \in AccountIds : SumFunctionOnSet(Totals, Owed(a))' = SumFunctionOnSet(Totals, Owed(a))
      BY <3>2 DEF Totals
    <3> QED BY <2>1, <3>3, <3>4 DEF OwedInv, vars, OnlySends
  <2> QED BY <2>1
<1>1. Unmarked'
  BY UnmarkedStays, OwedParts
<1>2. ASSUME NEW p \in Payments, NEW takes \in BOOLEAN, NEW pays \in BOOLEAN, Settles(p, takes, pays)
      PROVE  OwedInv'
  <2>1. IsFiniteSet(Started')
    BY <1>2, FS_AddElement, FS_Subset DEF Settles, OwedInv
  <2>2. accounts' \in [AccountIds -> Row]
    BY DEF IInv, TypeOK
  <2>3. \A a \in AccountIds : OnlySends(a)' =>
           Cash(accounts'[a]) + SumFunctionOnSet(Totals, Owed(a))' <= StartBalance[a]
    BY <1>2, <2>2, SettlesKeeps DEF OnlySends
  <2> QED BY <1>1, <2>1, <2>3 DEF OwedInv, Unmarked
<1>3. ASSUME UNCHANGED <<accounts, pc, step, status>>, \A r \in Payments : Owing(r)' => Owing(r)
      PROVE  OwedInv'
  <2>1. ASSUME NEW a \in AccountIds, OnlySends(a)
        PROVE  Cash(accounts'[a]) + SumFunctionOnSet(Totals, Owed(a))' <= StartBalance[a]
    <3> DEFINE S == Owed(a)
               T == Owed(a)'
    <3>1. IsFiniteSet(S) /\ \A r \in S : Totals[r] \in Nat /\ Totals[r] \in Int
      BY <2>1, OwedFacts, FS_Subset DEF OwedInv
    <3>2. T \subseteq S
      BY <1>3 DEF Owed
    <3>3. SumFunctionOnSet(Totals, Owed(a))' = SumFunctionOnSet(Totals, T)
      BY DEF Totals
    <3>4. Cash(accounts'[a]) = Cash(accounts[a]) /\ Cash(accounts[a]) \in Int /\ StartBalance[a] \in Int
      BY <1>3, RowMoves, AccountAssumption DEF IInv, TypeOK
    <3>5. Cash(accounts[a]) + SumFunctionOnSet(Totals, S) <= StartBalance[a]
      BY <2>1 DEF OwedInv, S
    <3> HIDE DEF S, T
    <3>6. SumFunctionOnSet(Totals, T) <= SumFunctionOnSet(Totals, S)
      BY <3>1, <3>2, SumSubset
    <3>7. SumFunctionOnSet(Totals, S) \in Int /\ SumFunctionOnSet(Totals, T) \in Int
      <4>1. IsFiniteSet(T) /\ \A r \in T : Totals[r] \in Int
        BY <3>1, <3>2, FS_Subset
      <4> QED BY <3>1, <4>1, SumInt
    <3> QED BY <3>3, <3>4, <3>5, <3>6, <3>7
  <2>2. Started' = Started
    BY <1>3 DEF Started
  <2> QED BY <1>1, <2>1, <2>2 DEF OwedInv, Unmarked, OnlySends
<1>4. ASSUME NEW q \in Refunders, NEW p \in Payments, StartRefund(q, p) PROVE OwedInv'
  <2>1. /\ UNCHANGED <<accounts, pc, step, status>>
        /\ refund' = [refund EXCEPT ![q] = [at |-> "mark", of |-> p]]
    BY <1>4 DEF StartRefund, orderVars, moneyVars, sagaVars
  <2>2. \A s \in Refunders : refund'[s].at = "pay_sender" => refund'[s] = refund[s]
    BY <2>1 DEF IInv, TypeOK
  <2>3. \A r \in Payments : Owing(r)' => Owing(r)
    BY <2>1, <2>2 DEF Owing
  <2> QED BY <1>3, <2>1, <2>3
<1>5. CASE Crash
  <2>1. /\ UNCHANGED <<accounts, pc, step, status>>
        /\ \A q \in Refunders : refund'[q].at = "idle"
    BY <1>5 DEF Crash, orderVars, moneyVars, sagaVars
  <2>2. \A r \in Payments : Owing(r)' => Owing(r)
    BY <2>1 DEF Owing
  <2> QED BY <1>3, <2>1, <2>2
<1>6. ASSUME NEW p \in Payments, CheckIdempotency(p) \/ HandlerStep(p) \/ SagaStep(p) PROVE OwedInv'
  BY <1>2, <1>6, SagaSettles
<1>7. ASSUME NEW q \in Refunders, RefundStep(q) PROVE OwedInv'
  <2>1. PICK p \in Payments : p = refund[q].of
    BY <1>7 DEF RefundStep, MarkRefundPending, RefundPaysSender, RefundDebitsReceiver,
                RefundDebitsFee, FinishRefund, IInv, RefundStage
  <2> QED BY <1>2, <1>7, <2>1, RefundSettles
<1> QED BY <1>4, <1>5, <1>6, <1>7 DEF Next

\* Refunds that are served one at a time and mark their order never give a
\* sender more than he paid, whatever fails and whenever the process dies.
THEOREM SendersNeverGain == Spec /\ []RefundsAlone => []SenderNeverGains
<1>1. IInv /\ OwedInv => SenderNeverGains
  <2> SUFFICES ASSUME IInv, OwedInv, NEW a \in AccountIds, OnlySends(a)
               PROVE  Cash(accounts[a]) <= StartBalance[a]
    BY DEF SenderNeverGains
  <2>1. IsFiniteSet(Owed(a)) /\ \A r \in Owed(a) : Totals[r] \in Nat
    BY OwedFacts, FS_Subset DEF OwedInv
  <2>2. SumFunctionOnSet(Totals, Owed(a)) \in Nat
    <3> DEFINE S == Owed(a)
    <3>1. IsFiniteSet(S) /\ \A r \in S : Totals[r] \in Nat
      BY <2>1
    <3> HIDE DEF S
    <3>2. SumFunctionOnSet(Totals, S) \in Nat
      BY <3>1, SumNat
    <3> QED BY <3>2 DEF S
  <2>3. Cash(accounts[a]) \in Int /\ StartBalance[a] \in Int
    BY RowMoves, AccountAssumption DEF IInv, TypeOK
  <2>4. Cash(accounts[a]) + SumFunctionOnSet(Totals, Owed(a)) <= StartBalance[a]
    BY DEF OwedInv
  <2> QED BY <2>2, <2>3, <2>4
<1>2. IInv /\ IInv' /\ OwedInv /\ RefundsAlone /\ RefundsAlone' /\ [Next]_vars => OwedInv'
  BY NextKeepsOwed
<1> QED BY <1>1, <1>2, InitOwed, Invariance, PTL DEF Spec

\* One refund handler, and no failure to make it pay without marking the order.
OneRefunder == MaxFaults = 0 /\ \A q, r \in Refunders : q = r

\* Then no two refunds meet, and none pays an order that it did not mark.
THEOREM OneRefunderIsAlone ==
  ASSUME OneRefunder
  PROVE  Spec => []RefundsAlone
<1> DEFINE Inv == Unmarked /\ RefundsAlone
<1>1. Init => Inv
  BY DEF Init, Unmarked, RefundsAlone
<1>2. IInv /\ Inv /\ [Next]_vars => Inv'
  <2> SUFFICES ASSUME IInv, Inv, [Next]_vars PROVE Inv'
    OBVIOUS
  <2>0. ControlTypeOK /\ (\A r \in Payments : Stage(r)) /\ ~ Fails /\ RefundStage
    BY IInvParts DEF ControlInv, ControlTypeOK, OneRefunder, Fails
  <2>1. ASSUME Next PROVE Unmarked'
    BY <2>1, UnmarkedStays
  <2>2. ASSUME NEW p \in Payments, CheckIdempotency(p) \/ HandlerStep(p) \/ SagaStep(p)
        PROVE  RefundsAlone'
    <3>1. OthersStay(p) /\ refund' = refund
      BY <2>2, OnlyDebitsOwe
    <3>2. pc[p] # "done"
      BY <2>2 DEF HandlerStep, SagaStep, CheckIdempotency, Screen, CheckSenderBalance, CommitOrder,
                  LoadOrder, ReloadOrder, ReadSenderForFreeze, ExecuteFreeze, DebitSender, FindReceiver,
                  OpenReceiver, CreditReceiver, CreditFee, SettlePayment, RecordOnChain, UpdateStatus,
                  MarkFailed, CompensateSettlement, RefundSender, UndoReceiver, UndoFee, ReleaseFunds, At
    <3>3. status[p] # "REFUND_PENDING"
      BY <2>0, <3>2 DEF Stage, JournalStage, ClosedStatuses
    <3> QED BY <2>0, <3>1, <3>3 DEF RefundsAlone, OthersStay, RefundStage
  <2>3. ASSUME NEW q \in Refunders, RefundStep(q) PROVE RefundsAlone'
    <3>1. \A r \in Refunders : r = q
      BY DEF OneRefunder
    <3>2. CASE MarkRefundPending(q)
      <4>1. /\ refund[q].of \in Payments /\ status[refund[q].of] = "CLOSED"
            /\ status' = [status EXCEPT ![refund[q].of] = UpdatedStatus(@, "REFUND_PENDING")]
            /\ refund'[q].of = refund[q].of
        BY <2>0, <3>2 DEF MarkRefundPending, RefundStage, Unmarked, RefundGoto, ControlTypeOK
      <4>2. UpdatedStatus("CLOSED", "REFUND_PENDING") = "REFUND_PENDING"
        BY DEF UpdatedStatus, CanTransition, ValidTransitions
      <4> QED BY <2>0, <3>1, <4>1, <4>2 DEF RefundsAlone, ControlTypeOK
    <3>3. CASE ~ MarkRefundPending(q)
      <4>1. refund'[q].at # "pay_sender"
        BY <2>0, <2>3, <3>3 DEF RefundStep, RefundPaysSender, RefundDebitsReceiver, RefundDebitsFee,
                                FinishRefund, RefundGoto, ControlTypeOK
      <4> QED BY <3>1, <4>1 DEF RefundsAlone
    <3> QED BY <3>2, <3>3
  <2>4. ASSUME NEW q \in Refunders, NEW p \in Payments, StartRefund(q, p) PROVE RefundsAlone'
    <3>1. (\A r \in Refunders : r = q) /\ refund'[q].at = "mark"
      BY <2>0, <2>4 DEF OneRefunder, StartRefund, ControlTypeOK
    <3> QED BY <3>1 DEF RefundsAlone
  <2>5. ASSUME Crash PROVE RefundsAlone'
    <3>1. \A q \in Refunders : refund'[q].at = "idle"
      BY <2>5 DEF Crash
    <3> QED BY <3>1 DEF RefundsAlone
  <2>6. CASE UNCHANGED vars
    BY <2>6 DEF vars, Unmarked, RefundsAlone
  <2> QED BY <2>1, <2>2, <2>3, <2>4, <2>5, <2>6 DEF Next
<1> QED BY <1>1, <1>2, Invariance, PTL DEF Spec

\* So a sender whose refunds have one handler that never fails gains nothing.
THEOREM OneRefunderPaysOnce ==
  ASSUME OneRefunder
  PROVE  Spec => []SenderNeverGains
BY OneRefunderIsAlone, SendersNeverGain, PTL

=============================================================================

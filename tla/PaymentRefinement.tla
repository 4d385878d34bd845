-------------------------- MODULE PaymentRefinement --------------------------
(***************************************************************************)
(* The payment saga implements TransferPromise as long as no statement     *)
(* fails and the process stays up.  A payment counts as made from the      *)
(* debit of the sender on: what the saga has not credited yet is on its    *)
(* way to the receiver and the fee account.                                *)
(***************************************************************************)
EXTENDS PaymentSaga

\* The sender was debited and the step that did it was not undone.
Debited(p) ==
  \/ pc[p] \in {"find_receiver", "open_receiver", "credit", "credit_fee", "settle", "anchor"}
  \/ pc[p] = "update" /\ step[p] >= 4
  \/ pc[p] = "reload" /\ step[p] >= 5
  \/ pc[p] = "done" /\ status[p] = "CLOSED"

Undelivered(p) == pc[p] \in {"find_receiver", "open_receiver", "credit"}
FeeUnpaid(p) == Undelivered(p) \/ pc[p] = "credit_fee"

OnItsWayTo(a) ==
  SumFunctionOnSet(Targets, { p \in Payments : Undelivered(p) /\ Receiver(p) = a })
    + SumFunctionOnSet(Fees, { p \in Payments : FeeUnpaid(p) /\ FeeAccount(p) = a })

OutcomeOf(p) == CASE status[p] = NoPayment       -> "none"
                  [] Debited(p)                  -> "made"
                  [] status[p] = "PAYMENT_FAILED" -> "refused"
                  [] OTHER                       -> "accepted"

StartMoney == [a \in AccountIds |-> IF a \in OpenAtStart THEN StartBalance[a] ELSE 0]
Delivered(p) == Order[p].target
Fee(p) == Order[p].fee

Promise == INSTANCE TransferPromise WITH
             Taken <- Total,
             money <- [a \in AccountIds |-> Cash(accounts[a]) + OnItsWayTo(a)],
             outcome <- [p \in Payments |-> OutcomeOf(p)]

\* However payments interleave, each of them looks to its parties like one
\* indivisible transfer that is decided sooner or later: no interleaving
\* shows a sender who paid and a payment that is refused, or money spent twice.
ImplementsPromise == Promise!Spec
==============================================================================

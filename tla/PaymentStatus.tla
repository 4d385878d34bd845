---------------------------- MODULE PaymentStatus ----------------------------
(***************************************************************************)
(* The state machine of a payment order (domain/payment/model.go) and the  *)
(* guarded UPDATE by which the repository moves an order along it          *)
(* (repository/payment_repo.go, UpdatePaymentStatus).                      *)
(***************************************************************************)
EXTENDS Integers

\* The saga's happy path, in the order isStatusAtOrAfter lists it.
MainFlow == << "CREATED", "QUOTE_LOCKED", "COMPLIANCE_PRECHECKED",
               "PAYMENT_PENDING", "PAYMENT_EXECUTING", "PAYMENT_CONFIRMED",
               "SETTLEMENT_PROOFED", "RECONCILED", "CLOSED" >>

OffFlow == { "RISK_REJECTED", "PAYMENT_FAILED", "REFUND_PENDING", "REFUNDED",
             "DISPUTED", "FROZEN", "MANUAL_REVIEW", "CANCELLED", "REJECTED" }

PaymentStatuses == { MainFlow[i] : i \in 1..9 } \cup OffFlow

\* The map ValidTransitions as a relation.
ValidTransitions ==
  ({"CREATED"} \X {"QUOTE_LOCKED", "CANCELLED", "RISK_REJECTED", "PAYMENT_FAILED"})
  \cup ({"QUOTE_LOCKED"} \X {"COMPLIANCE_PRECHECKED", "RISK_REJECTED", "PAYMENT_FAILED"})
  \cup ({"COMPLIANCE_PRECHECKED"} \X {"PAYMENT_PENDING", "MANUAL_REVIEW", "PAYMENT_FAILED"})
  \cup ({"PAYMENT_PENDING"} \X {"PAYMENT_EXECUTING", "CANCELLED", "PAYMENT_FAILED"})
  \cup ({"PAYMENT_EXECUTING"} \X {"PAYMENT_CONFIRMED", "PAYMENT_FAILED"})
  \cup ({"PAYMENT_CONFIRMED"} \X {"SETTLEMENT_PROOFED", "PAYMENT_FAILED"})
  \cup ({"SETTLEMENT_PROOFED"} \X {"RECONCILED", "DISPUTED", "PAYMENT_FAILED"})
  \cup ({"RECONCILED"} \X {"CLOSED", "DISPUTED", "PAYMENT_FAILED"})
  \cup ({"CLOSED"} \X {"REFUND_PENDING", "DISPUTED"})
  \cup ({"REFUND_PENDING"} \X {"REFUNDED", "DISPUTED"})
  \cup ({"MANUAL_REVIEW"} \X {"PAYMENT_PENDING", "RISK_REJECTED", "FROZEN", "PAYMENT_FAILED"})
  \cup ({"DISPUTED"} \X {"RECONCILED", "CLOSED"})

\* Mutant: a refunded order may be refunded again.
CanTransitionAgain(from, to) ==
  <<from, to>> \in ValidTransitions \/ (from = "REFUNDED" /\ to = "REFUND_PENDING")

CanTransition(from, to) == <<from, to>> \in ValidTransitions

\* -1 for a status off the happy path, as in the code's two index searches.
FlowIndex(s) == IF \E i \in 1..9 : MainFlow[i] = s
                THEN CHOOSE i \in 1..9 : MainFlow[i] = s
                ELSE -1

\* Mutant: the comparison is off by one.
IsStatusBefore(current, target) == FlowIndex(current) >= FlowIndex(target) - 1

IsStatusAtOrAfter(current, target) == FlowIndex(current) >= FlowIndex(target)

\* Mutant: the UPDATE without its WHERE status IN (...).
UpdatedStatusUnguarded(current, new) == new

\* UPDATE ... WHERE status IN (sources of new): one atomic statement; no row
\* matches, and the status stays, when the current status is not a source.
UpdatedStatus(current, new) ==
  IF CanTransition(current, new) THEN new ELSE current

==============================================================================

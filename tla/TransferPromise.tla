--------------------------- MODULE TransferPromise ---------------------------
(***************************************************************************)
(* What a client of the payment service relies on, with none of the steps: *)
(* a payment is accepted, and then either made, in one indivisible move of *)
(* money between the sender, the receiver and the fee account, or refused, *)
(* which moves nothing.  Money is what an account's owner can call his     *)
(* own, whether it is available, reserved or already on its way to him.    *)
(***************************************************************************)
EXTENDS Integers

CONSTANTS Payments, AccountIds, StartMoney,
          Sender(_), Receiver(_), FeeAccount(_),
          Taken(_), Delivered(_), Fee(_)

VARIABLES money, outcome

promiseVars == <<money, outcome>>

Outcomes == {"none", "accepted", "made", "refused"}

PromiseTypeOK == /\ money \in [AccountIds -> Nat]
                 /\ outcome \in [Payments -> Outcomes]

Init == /\ money = StartMoney
        /\ outcome = [p \in Payments |-> "none"]

Becomes(p, o) == outcome' = [outcome EXCEPT ![p] = o]

Accept(p) == /\ outcome[p] = "none"
             /\ Becomes(p, "accepted")
             /\ UNCHANGED money

Gain(p, a) == (IF a = Receiver(p) THEN Delivered(p) ELSE 0)
                + (IF a = FeeAccount(p) THEN Fee(p) ELSE 0)
                - (IF a = Sender(p) THEN Taken(p) ELSE 0)

Make(p) == /\ outcome[p] = "accepted"
           /\ money[Sender(p)] >= Taken(p)
           /\ Becomes(p, "made")
           /\ money' = [a \in AccountIds |-> money[a] + Gain(p, a)]

Refuse(p) == /\ outcome[p] = "accepted"
             /\ Becomes(p, "refused")
             /\ UNCHANGED money

Next == \E p \in Payments : Accept(p) \/ Make(p) \/ Refuse(p)

\* An accepted payment does not stay undecided.
Spec == /\ Init
        /\ [][Next]_promiseVars
        /\ \A p \in Payments : WF_promiseVars(Make(p) \/ Refuse(p))
=============================================================================

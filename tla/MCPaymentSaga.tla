---------------------------- MODULE MCPaymentSaga ----------------------------
(***************************************************************************)
(* Small instances of PaymentSaga.  Each scenario is a set of orders; the  *)
(* configurations choose one, the accounts that exist and the bounds on    *)
(* faults and crashes.                                                     *)
(***************************************************************************)
EXTENDS PaymentRefinement

CONSTANTS p1, p2, p3,                  \* payments
          alice, bob, carol,           \* USD, USD and JPY accounts of three users
          feeUsd, settlementUsd, feeJpy, settlementJpy,
          usd, jpy, k1, k2, k3

MCAccounts == {alice, bob, carol, feeUsd, settlementUsd, feeJpy, settlementJpy}
MCSystemAccounts == {feeUsd, settlementUsd, feeJpy, settlementJpy}
MCUserAccounts == {alice, bob, carol}
MCWithoutCarol == MCAccounts \ {carol}
MCCurrencies == {usd, jpy}

MCCurrencyOf == [a \in MCAccounts |->
                   IF a \in {carol, feeJpy, settlementJpy} THEN jpy ELSE usd]
MCFeeAccountOf == [c \in MCCurrencies |-> IF c = usd THEN feeUsd ELSE feeJpy]
MCSettlementAccountOf == [c \in MCCurrencies |->
                            IF c = usd THEN settlementUsd ELSE settlementJpy]
MCStartBalance == [a \in MCAccounts |-> CASE a = alice -> 10
                                          [] a = bob   -> 3
                                          [] OTHER     -> 0]

Request(from, to, source, target, fee, key, body) ==
  [from |-> from, to |-> to, source |-> source, target |-> target,
   fee |-> fee, key |-> key, body |-> body]

\* Alice can pay p1 or p2 but not both; p3 spends what p1 brings to Bob.
MCRacingOrders ==
  [p \in {p1, p2, p3} |->
     CASE p = p1 -> Request(alice, bob, 6, 6, 1, k1, 1)
       [] p = p2 -> Request(alice, carol, 4, 8, 1, k2, 2)
       [] p = p3 -> Request(bob, carol, 5, 10, 1, k3, 3)]

\* One request and its retry under the same key, and a request with another
\* body, for a negative amount, of which Bob is the sender.
MCRetriedOrders ==
  [p \in {p1, p2, p3} |->
     IF p = p3 THEN Request(bob, carol, -4, -8, -1, k1, 2)
               ELSE Request(alice, bob, 3, 3, 1, k1, 1)]

MCOnePayment == [p \in {p1} |-> Request(alice, bob, 4, 4, 1, k1, 1)]

\* A payment and one that goes the other way.
MCBothWays ==
  [p \in {p1, p2} |-> IF p = p1 THEN Request(alice, bob, 4, 4, 1, k1, 1)
                                ELSE Request(bob, alice, 2, 2, 1, k2, 2)]
==============================================================================

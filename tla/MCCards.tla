-------------------------------- MODULE MCCards --------------------------------
(***************************************************************************)
(* Small instances of Cards, and card numbers of four digits.              *)
(***************************************************************************)
EXTENDS Cards, TLC

CONSTANTS r1, r2, r3, o1, o2, c1, c2, usd, eur, xxx

\* One owner has money in two currencies, the other none.
MCOpening == (<<o1, usd>> :> 3) @@ (<<o1, eur>> :> 2)

\* A purchase within the limit, one above it, and one of a negative amount.
MCAmounts == {2, 4, -1}

\* Payments move the account in dollars only; the other is left to the cards.
MCPaymentAmounts == (<<o1, usd>> :> {2}) @@ (<<o1, eur>> :> {})

MCSymmetry == Permutations(Requests) \cup Permutations(CardIds)
===============================================================================

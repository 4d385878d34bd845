---------------------------- MODULE MCPaymentLinks ----------------------------
(***************************************************************************)
(* Small instances of PaymentLinks.                                        *)
(***************************************************************************)
EXTENDS PaymentLinks, TLC

CONSTANTS r1, r2, r3, u1, u2, l1, l2

MCSymmetry == Permutations(Requests) \cup Permutations(Users) \cup Permutations(Links)
===============================================================================

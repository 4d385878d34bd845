----------------------------- MODULE MCChainAudit -----------------------------
(***************************************************************************)
(* Small instances of ChainAudit.                                          *)
(***************************************************************************)
EXTENDS ChainAudit, TLC

CONSTANTS p1, p2, p3

MCSymmetry == Permutations(Payments)
===============================================================================

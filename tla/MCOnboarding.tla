----------------------------- MODULE MCOnboarding ------------------------------
(***************************************************************************)
(* Small instances of Onboarding.                                          *)
(***************************************************************************)
EXTENDS Onboarding, TLC

CONSTANTS r1, r2, r3, u1, u2, u3, n1, n2, n3, e1, e2, e3

\* A registration was cut off: its user has submitted a profile himself.
MCRegistered ==
  u1 :> [name |-> n1, email |-> e1, status |-> "PENDING_KYC", level |-> "LOW", failed |-> 0]

\* The ids of the first two users begin alike.
MCPrefix == (u1 :> 1) @@ (u2 :> 1) @@ (u3 :> 2)

\* Three people, two of them with the same name, two with the same address.
MCIdentities == {<<n2, e2>>, <<n3, e2>>, <<n3, e3>>}

MCSymmetry == Permutations(Requests)
===============================================================================

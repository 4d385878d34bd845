------------------------------ MODULE MCScreening ------------------------------
(***************************************************************************)
(* Small instances of Screening.                                           *)
(***************************************************************************)
EXTENDS Screening, TLC

CONSTANTS r1, r2, u1, u2, u3, usd, eur, jpy

Row(u, status, riskLevel) == [id |-> u, status |-> status, level |-> riskLevel]

\* One member may send little and was approved at the second attempt, one may
\* send much; the third is not registered.
MCRegistered == (u1 :> Row(u1, "ACTIVE", "HIGH")) @@ (u2 :> Row(u2, "ACTIVE", "LOW")) @@ (u3 :> Nil)
MCProfiles == (u1 :> {"REJECTED", "APPROVED"}) @@ (u2 :> {"APPROVED"}) @@ (u3 :> {})
MCHistory ==
  (u1 :> [total |-> 150000, count |-> 2]) @@ (u2 :> [total |-> 0, count |-> 9])
  @@ (u3 :> [total |-> 0, count |-> 0])

MCRates == (eur :> 2) @@ (jpy :> 7)

Pay(from, to, cents, country, source, target) ==
  [sender |-> from, receiver |-> to, amount |-> cents, from |-> "JP", to |-> country,
   source |-> source, target |-> target]

\* Payments beyond the limits of a transaction and of a day, a large one whose fee
\* overflows, a negative one to somebody who is missing, and one to a restricted
\* country.  The last two are quoted if another payment has disturbed them.
MCIntents ==
  { Pay(u1, u2, 60001, "US", eur, jpy), Pay(u2, u1, 110000, "US", usd, eur),
    Pay(u2, u3, -1999, "US", eur, jpy), Pay(u2, u1, 40000, "KP", eur, eur) }

MCSymmetry == Permutations(Requests)
===============================================================================

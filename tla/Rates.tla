--------------------------------- MODULE Rates ---------------------------------
(***************************************************************************)
(* The arithmetic of exchange rates: service/fx_svc.go and the conversion  *)
(* in service/card_svc.go.  Amounts are whole cents.  The code keeps a     *)
(* rate as a decimal string with twelve digits after the point and         *)
(* computes with exact fractions; here a rate is a whole number of         *)
(* 1/Precision, and the operations that round are the divisions.           *)
(***************************************************************************)
EXTENDS Integers

CONSTANT Precision   \* 10^12 in the code

ASSUME PrecisionAssumption == Precision \in Nat \ {0}

\* The rate of a currency to itself.
Unit == Precision

\* Mutant: the digits after the last are cut off instead of rounded.
PairRateTruncated(source, target) == (target * Precision) \div source

\* getPairRate: the quotient of two rates to the dollar, printed by
\* FloatString(12), which rounds to the nearest digit and halves upwards.
PairRate(source, target) == (2 * target * Precision + source) \div (2 * source)

\* Mutant: the target amount is rounded up.
TargetAmountUp(amount, rate) == (amount * rate + Precision - 1) \div Precision

\* GetQuote and ConvertFromUSD: times the rate, rounded down by big.Int.Div, of
\* a negative amount, too.
TargetAmount(amount, rate) == (amount * rate) \div Precision

\* convertToUSD, and convertAmount of a card with inverse = true.
SourceAmount(amount, rate) == (amount * Precision) \div rate

FeeBasisPointsUSD == 100

\* The fee of a quote, in cents of a dollar, from the product of dollars and basis
\* points: the division of machine integers, which drops the fraction and so
\* rounds a negative amount upwards.
QuoteFee(points) == IF points >= 0 THEN points \div 10000 ELSE - ((- points) \div 10000)
===============================================================================

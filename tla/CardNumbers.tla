------------------------------ MODULE CardNumbers ------------------------------
(***************************************************************************)
(* The card numbers of pkg/card/luhn.go: sequences of digits, the last of  *)
(* which is a check digit computed from the others.                        *)
(***************************************************************************)
EXTENDS Integers, Sequences, Functions

CONSTANT TotalLength   \* 16 in the code

ASSUME LengthAssumption == TotalLength \in Nat /\ TotalLength > 2

Digits == 0..9

\* Mutant: a doubled digit of two figures is not reduced to one.
DoubledUnreduced(d) == 2 * d

\* Twice a digit, less nine if that has two figures.
Doubled(d) == IF 2 * d > 9 THEN 2 * d - 9 ELSE 2 * d

\* From the right, every second digit of the body is doubled, beginning with
\* the second: the digit beside the check digit is not.
Weighted(body, i) == IF (Len(body) - i) % 2 = 1 THEN Doubled(body[i]) ELSE body[i]

LuhnSum(body) == SumFunctionOnSet([i \in DOMAIN body |-> Weighted(body, i)], DOMAIN body)

LuhnCheckDigit(body) == (10 - (LuhnSum(body) % 10)) % 10

ValidateLuhn(pan) ==
  /\ Len(pan) >= 2
  /\ LuhnCheckDigit(SubSeq(pan, 1, Len(pan) - 1)) = pan[Len(pan)]

\* The BINs of the test networks, cut to fit a short number.
TestBINs == { <<4>>, <<5>> }

\* A body begins with a BIN and goes on with random digits.
GenerateTestPAN(body) == Append(body, LuhnCheckDigit(body))

TestPANs ==
  { GenerateTestPAN(bin \o random) :
      bin \in TestBINs, random \in [1..TotalLength - 2 -> Digits] }

\* A card number the service issues passes its own validation, and the number
\* with any one digit mistyped does not.
NumbersDetectErrors ==
  \A pan \in TestPANs :
    /\ ValidateLuhn(pan)
    /\ \A i \in DOMAIN pan : \A d \in Digits \ {pan[i]} :
         ~ ValidateLuhn([pan EXCEPT ![i] = d])
===============================================================================

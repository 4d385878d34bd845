---------------------------- MODULE MachineIntegers ----------------------------
(***************************************************************************)
(* The integers of the programs: Go's int64 and C++'s int64_t.  A result   *)
(* that nothing checks keeps its last 64 bits.                             *)
(***************************************************************************)
EXTENDS Integers

CONSTANT MaxInt   \* the largest amount (2^63 - 1)

ASSUME WidthAssumption == MaxInt \in Nat

MinInt == - MaxInt - 1
Int64 == MinInt..MaxInt

\* An unchecked sum, difference or product, and what a longer number leaves.
Wrapped(n) == ((n - MinInt) % (2 * MaxInt + 2)) + MinInt
================================================================================

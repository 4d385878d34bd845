------------------------------- MODULE Accounts -------------------------------
(***************************************************************************)
(* A row of the accounts table and the UPDATE statements of                *)
(* repository/account_repo.go.  Every statement is one atomic UPDATE: its  *)
(* WHERE clause is a predicate on the row (Can...), its SET clause gives   *)
(* the new row.  The balances are BIGINT columns without a CHECK, so       *)
(* nothing but the WHERE clauses keeps them from going negative.           *)
(***************************************************************************)
EXTENDS Integers

Row == [available : Int, frozen : Int, settled : Int]

NewRow(amount) == [available |-> amount, frozen |-> 0, settled |-> 0]

\* Mutant: the balance is not looked at.
CanDebitUnchecked(row, amount) == TRUE

\* LegacyAccount.CanDebit, and the WHERE clause of FreezeFunds.
CanDebit(row, amount) == row.available >= amount

\* Mutant: the UPDATE without the balance in its WHERE clause.
HasFrozenUnchecked(row, amount) == TRUE

\* The WHERE clause of UnfreezeFunds and of DebitAccount.
HasFrozen(row, amount) == row.frozen >= amount

FreezeFunds(row, amount) ==
  [available |-> row.available - amount, frozen |-> row.frozen + amount, settled |-> row.settled]

UnfreezeFunds(row, amount) ==
  [available |-> row.available + amount, frozen |-> row.frozen - amount, settled |-> row.settled]

\* Mutant: the debit takes available money and leaves the freeze.
DebitAvailable(row, amount) ==
  [available |-> row.available - amount, frozen |-> row.frozen, settled |-> row.settled + amount]

\* Frozen money leaves as settled money.
DebitAccount(row, amount) ==
  [available |-> row.available, frozen |-> row.frozen - amount, settled |-> row.settled + amount]

CreditAccount(row, amount) == [row EXCEPT !.available = @ + amount]

\* Money the owner still has: settled_balance only counts what has left.
Cash(row) == row.available + row.frozen

===============================================================================

----------------------------- MODULE EngineLedger -----------------------------
(***************************************************************************)
(* The engine's in-memory ledger: a table from account ids to balances.    *)
(* Each operation holds the ledger's lock from its first look to its last  *)
(* change.  Sums are checked for overflow, differences wrap as the         *)
(* machine's do.  Version numbers and times are left out, nothing reads    *)
(* them; of the error codes the engine only tells OK from the rest.        *)
(***************************************************************************)
EXTENDS MachineIntegers

Balance(available, frozen, settled) ==
  [available |-> available, frozen |-> frozen, settled |-> settled]

\* What fits the fields of a balance, and what a balance should be.
BalanceRows == [available : Int64, frozen : Int64, settled : Int64]
Balances == [available : 0..MaxInt, frozen : 0..MaxInt, settled : 0..MaxInt]

AddOverflow(a, b) == a + b \notin Int64

\* accounts_[id] = b
Stored(ledger, id, b) ==
  [a \in DOMAIN ledger \cup {id} |-> IF a = id THEN b ELSE ledger[a]]

CanFreezeUnfunded(ledger, id, amount) ==
  /\ id \in DOMAIN ledger
  /\ ~ AddOverflow(ledger[id].frozen, amount)

CanFreeze(ledger, id, amount) ==
  /\ id \in DOMAIN ledger
  /\ ledger[id].available >= amount
  /\ ~ AddOverflow(ledger[id].frozen, amount)

Freeze(ledger, id, amount) ==
  Stored(ledger, id, Balance(Wrapped(ledger[id].available - amount), ledger[id].frozen + amount,
                             ledger[id].settled))

CanUnfreeze(ledger, id, amount) ==
  /\ id \in DOMAIN ledger
  /\ ledger[id].frozen >= amount
  /\ ~ AddOverflow(ledger[id].available, amount)

Unfreeze(ledger, id, amount) ==
  Stored(ledger, id, Balance(ledger[id].available + amount, Wrapped(ledger[id].frozen - amount),
                             ledger[id].settled))

CanDebit(ledger, id, amount) ==
  /\ id \in DOMAIN ledger
  /\ ledger[id].frozen >= amount
  /\ ~ AddOverflow(ledger[id].settled, amount)

DebitKeepsFrozen(ledger, id, amount) ==
  Stored(ledger, id, Balance(ledger[id].available, ledger[id].frozen,
                             ledger[id].settled + amount))

Debit(ledger, id, amount) ==
  Stored(ledger, id, Balance(ledger[id].available, Wrapped(ledger[id].frozen - amount),
                             ledger[id].settled + amount))

\* The first credit opens the account.
CanCredit(ledger, id, amount) ==
  id \in DOMAIN ledger => ~ AddOverflow(ledger[id].available, amount)

Credit(ledger, id, amount) ==
  Stored(ledger, id,
         IF id \in DOMAIN ledger
         THEN Balance(ledger[id].available + amount, ledger[id].frozen, ledger[id].settled)
         ELSE Balance(amount, 0, 0))

\* A credit whose result the caller ignores.
CreditIfPossible(ledger, id, amount) ==
  IF CanCredit(ledger, id, amount) THEN Credit(ledger, id, amount) ELSE ledger
===============================================================================

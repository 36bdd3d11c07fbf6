-------------------------------- MODULE Ledger --------------------------------
(***************************************************************************)
(* What the contracts of ignition_pay_contract see of the network: the     *)
(* close time of the ledger and one token contract.  A contract call is    *)
(* one transaction, so it is one action: a panic, a refused token transfer *)
(* included, undoes everything the call did.                               *)
(***************************************************************************)
EXTENDS Naturals, FiniteSets

CONSTANTS
  Accounts,     \* holders of the token that call the contract
  Voters,       \* addresses that approve or delegate
  Self,         \* the address of the contract
  Funds,        \* what each account holds at first
  MaxTime       \* bound on the ledger time

ASSUME LedgerAssumption ==
  /\ IsFiniteSet(Accounts) /\ IsFiniteSet(Voters) /\ Self \notin Accounts
  /\ Funds \in Nat /\ MaxTime \in Nat

VARIABLES
  contract,     \* which contract is deployed; never changes
  now,          \* env.ledger().timestamp()
  balance       \* the token: what each address holds

ledgerVars == <<contract, now, balance>>

Holders == Accounts \cup {Self}
Supply  == Cardinality(Accounts) * Funds

LedgerInit(kinds) ==
  /\ contract \in kinds
  /\ now = 0
  /\ balance = [a \in Holders |-> IF a = Self THEN 0 ELSE Funds]

\* transfer of the token contract, which panics when the balance is too small.
Transfer(from, to, amount) ==
  /\ amount <= balance[from]
  /\ balance' = [balance EXCEPT ![from] = @ - amount, ![to] = @ + amount]

\* Somebody sends tokens without calling the contract.
Send(from, to, amount) ==
  /\ from # to
  /\ Transfer(from, to, amount)
  /\ UNCHANGED <<contract, now>>

CloseLedger ==
  /\ now < MaxTime
  /\ now' = now + 1
  /\ UNCHANGED <<contract, balance>>

=============================================================================

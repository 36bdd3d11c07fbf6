------------------------------ MODULE Delegation ------------------------------
(***************************************************************************)
(* DelegationContract of lib.rs: voting power set by the admin, and at     *)
(* most one delegate for each voter.  Every walk along the delegates stops *)
(* after MaxHops steps (100 in the code).                                  *)
(***************************************************************************)
EXTENDS Ledger, FiniteSetsExt

CONSTANTS
  Powers,       \* powers the admin sets
  MaxHops       \* steps of a walk

ASSUME DelegationAssumption ==
  /\ Powers \subseteq Nat
  /\ MaxHops \in Nat

VARIABLES
  power,        \* power
  delegates     \* delegates; a voter that is its own delegate has none

delegationVars == <<power, delegates>>

DelegationInit ==
  /\ power = [a \in Voters |-> 0]
  /\ delegates = [a \in Voters |-> a]

\* The address n steps along the delegates from a.
Walk(a) ==
  LET at[n \in 0 .. MaxHops] == IF n = 0 THEN a ELSE delegates[at[n - 1]]
  IN  at

SetVotingPower(voter, p) ==
  /\ contract = "delegation"
  /\ power' = [power EXCEPT ![voter] = p]
  /\ UNCHANGED <<ledgerVars, delegates>>

\* Mutant: only a representative who delegates straight back is refused.
DelegateNearsighted(delegator, rep) ==
  /\ contract = "delegation"
  /\ delegator # rep
  /\ delegates[rep] # delegator
  /\ delegates' = [delegates EXCEPT ![delegator] = rep]
  /\ UNCHANGED <<ledgerVars, power>>

\* The walk of the cycle check compares the representative and MaxHops - 1
\* addresses after it.
Delegate(delegator, rep) ==
  /\ contract = "delegation"
  /\ delegator # rep
  /\ \A n \in 0 .. MaxHops - 1 : Walk(rep)[n] # delegator
  /\ delegates' = [delegates EXCEPT ![delegator] = rep]
  /\ UNCHANGED <<ledgerVars, power>>

ClearDelegation(delegator) ==
  /\ contract = "delegation"
  /\ delegates' = [delegates EXCEPT ![delegator] = delegator]
  /\ UNCHANGED <<ledgerVars, power>>

\* get_voting_power: the representative's own power, and that of every voter
\* whose walk comes to the representative.
VotingPower(rep) ==
  power[rep] +
  MapThenSumSet(LAMBDA v : power[v],
                {v \in Voters : /\ delegates[v] # v
                               /\ \E n \in 1 .. MaxHops : Walk(v)[n] = rep})

DelegationNext ==
  \/ \E a \in Voters, p \in Powers : SetVotingPower(a, p)
  \/ \E a, b \in Voters : Delegate(a, b)
  \/ \E a \in Voters : ClearDelegation(a)

DelegationTypeOK ==
  /\ power \in [Voters -> Nat]
  /\ delegates \in [Voters -> Voters]

\* The representatives who delegate to nobody hold all the power there is, each
\* part of it once, in whatever order voters delegate, change and clear: no
\* cycle makes power vanish and no power is counted for two of them.  It needs
\* walks at least as long as there are voters.
PowerCountedOnce ==
  MaxHops >= Cardinality(Voters) =>
    MapThenSumSet(VotingPower, {a \in Voters : delegates[a] = a}) =
    MapThenSumSet(LAMBDA a : power[a], Voters)

=============================================================================

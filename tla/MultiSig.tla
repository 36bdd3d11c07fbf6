------------------------------- MODULE MultiSig -------------------------------
(***************************************************************************)
(* MultiSigApprovalContract of lib.rs, both versions: payments out of the  *)
(* contract's own tokens, which execute by themselves at the Threshold-th  *)
(* approval when they are of high value, and by a call of the admin when   *)
(* they are not.  In the first version the admin proposes and any address  *)
(* approves; in the second both take a registered signer.                  *)
(***************************************************************************)
EXTENDS Ledger

CONSTANTS
  Payments,     \* payment ids
  Values,       \* amounts proposed
  Threshold,    \* approvals a high-value payment needs
  HighValue     \* the amount from which a payment is of high value

ASSUME MultiSigAssumption ==
  /\ IsFiniteSet(Payments)
  /\ Values \subseteq Nat \ {0}
  /\ Threshold \in Nat \ {0} /\ HighValue \in Nat

VARIABLES
  payment,      \* proposals / payments
  votes,        \* approvals / approver_votes: who approved each payment
  signers       \* signers, of the second version only

multiSigVars == <<payment, votes, signers>>

MultiSigKinds == {"multisig", "signer_multisig"}

NoPayment == [state |-> "none", to |-> Self, amount |-> 0, approvals |-> 0]

MultiSigInit ==
  /\ payment = [p \in Payments |-> NoPayment]
  /\ votes = [p \in Payments |-> {}]
  /\ signers = {}

MaySign(a) == contract = "signer_multisig" => a \in signers

AddSigner(a) ==
  /\ contract = "signer_multisig" /\ a \notin signers
  /\ signers' = signers \cup {a}
  /\ UNCHANGED <<ledgerVars, payment, votes>>

ProposePayment(p, proposer, to, amount) ==
  /\ contract \in MultiSigKinds /\ MaySign(proposer)
  /\ payment[p].state = "none"
  /\ payment' = [payment EXCEPT ![p] = [state |-> "open", to |-> to, amount |-> amount,
                                        approvals |-> 0]]
  /\ UNCHANGED <<ledgerVars, votes, signers>>

\* The count is the proposal's own; a transfer that fails undoes the approval.
Decide(p) ==
  LET n == payment[p].approvals + 1
      high == payment[p].amount >= HighValue /\ n >= Threshold
  IN  /\ payment' = [payment EXCEPT ![p] = [state |-> IF high THEN "executed" ELSE @.state,
                                            to |-> @.to, amount |-> @.amount,
                                            approvals |-> n]]
      /\ IF high THEN Transfer(Self, payment[p].to, payment[p].amount)
                 ELSE UNCHANGED balance

\* Mutant: an address may approve twice.
ApproveAgain(p, approver) ==
  /\ contract \in MultiSigKinds /\ MaySign(approver)
  /\ payment[p].state = "open"
  /\ votes' = [votes EXCEPT ![p] = @ \cup {approver}]
  /\ Decide(p)
  /\ UNCHANGED <<contract, now, signers>>

Approve(p, approver) ==
  /\ contract \in MultiSigKinds /\ MaySign(approver)
  /\ payment[p].state = "open" /\ approver \notin votes[p]
  /\ votes' = [votes EXCEPT ![p] = @ \cup {approver}]
  /\ Decide(p)
  /\ UNCHANGED <<contract, now, signers>>

ExecutePayment(p) ==
  /\ contract \in MultiSigKinds
  /\ payment[p].state = "open" /\ payment[p].amount < HighValue
  /\ Transfer(Self, payment[p].to, payment[p].amount)
  /\ payment' = [payment EXCEPT ![p].state = "executed"]
  /\ UNCHANGED <<contract, now, votes, signers>>

MultiSigNext ==
  \/ \E a \in Voters : AddSigner(a)
  \/ \E p \in Payments :
       \/ \E a \in Voters, to \in Accounts, v \in Values : ProposePayment(p, a, to, v)
       \/ \E a \in Voters : Approve(p, a)
       \/ ExecutePayment(p)

MultiSigTypeOK ==
  /\ payment \in [Payments -> [state : {"none", "open", "executed"}, to : Accounts \cup {Self},
                               amount : Values \cup {0}, approvals : Nat]]
  /\ votes \in [Payments -> SUBSET Voters]
  /\ signers \subseteq Voters

\* A high-value payment has executed exactly when Threshold distinct addresses
\* have approved it, registered signers where the contract has them: never
\* earlier, by the admin or by one address approving twice, and never later,
\* by an approval that counts while its transfer fails.
ApprovalsDecide ==
  \A p \in Payments :
    payment[p].state # "none" /\ payment[p].amount >= HighValue =>
      /\ (payment[p].state = "executed") <=> (Cardinality(votes[p]) >= Threshold)
      /\ contract = "signer_multisig" => votes[p] \subseteq signers

=============================================================================

------------------------------ MODULE Contracts ------------------------------
(***************************************************************************)
(* The contracts of ignition_pay_contract on one ledger.  Each deployment  *)
(* is a contract of its own, with its own storage and its own tokens; the  *)
(* network around it closes ledgers, and any holder may send tokens to the *)
(* contract without calling it.                                            *)
(***************************************************************************)
EXTENDS Escrow, MultiSig, Governance, Delegation, Oracles, Administration

\* What the contracts keep that answer questions and hold no votes or tokens.
adviceVars == <<oraclesVars, administrationVars>>

contractVars ==
  <<ledgerVars, escrowVars, multiSigVars, governanceVars, delegationVars, adviceVars>>

ContractInit ==
  /\ LedgerInit(Kinds \cup MultiSigKinds \cup AdministrationKinds
                  \cup {"governance", "delegation", "oracle"})
  /\ EscrowInit /\ MultiSigInit /\ GovernanceInit /\ DelegationInit
  /\ OraclesInit /\ AdministrationInit

\* Contracts that hold tokens, and so can be sent some.
Holding == Custodial \cup MultiSigKinds \cup {"escrow", "refund_record"}

\* Contracts that read the ledger time or its number.
Timed == {"expiring", "htlc", "strict_htlc", "quote", "governance", "oracle", "authorization"}

Network ==
  \/ contract \in Timed /\ CloseLedger
  \/ contract \in Holding /\ \E a \in Accounts : Send(a, Self, 1)

AdviceNext ==
  \/ OraclesNext /\ UNCHANGED administrationVars
  \/ AdministrationNext /\ UNCHANGED oraclesVars

ContractNext ==
  \/ EscrowNext /\ UNCHANGED <<multiSigVars, governanceVars, delegationVars, adviceVars>>
  \/ MultiSigNext /\ UNCHANGED <<escrowVars, governanceVars, delegationVars, adviceVars>>
  \/ GovernanceNext /\ UNCHANGED <<escrowVars, multiSigVars, delegationVars, adviceVars>>
  \/ DelegationNext /\ UNCHANGED <<escrowVars, multiSigVars, governanceVars, adviceVars>>
  \/ AdviceNext /\ UNCHANGED <<escrowVars, multiSigVars, governanceVars, delegationVars>>
  \/ Network /\ UNCHANGED <<escrowVars, multiSigVars, governanceVars, delegationVars, adviceVars>>

\* Ledgers go on closing, and depositors who may have their tokens back ask
\* for them.
ContractFairness ==
  /\ WF_ledgerVars(CloseLedger)
  /\ \A i \in Ids : WF_<<ledgerVars, escrowVars>>(TakeBack(i))

ContractSpec == ContractInit /\ [][ContractNext]_contractVars /\ ContractFairness

\* The storage of every contract has the types its comments give.
ContractTypeOK ==
  /\ balance \in [Holders -> Nat]
  /\ EscrowTypeOK /\ MultiSigTypeOK /\ GovernanceTypeOK /\ DelegationTypeOK
  /\ OraclesTypeOK /\ AdministrationTypeOK

=============================================================================

---------------------------- MODULE ContractsProofs ----------------------------
(***************************************************************************)
(* For all accounts, voters, ids, amounts, percentages, prices and bounds: *)
(* releases in steps stay in proportion, expired deposits go back to the   *)
(* depositor, a high-value payment executes exactly at its Threshold-th    *)
(* approval, a decided proposal keeps its tally, a revoked user is out,    *)
(* the version follows the upgrades, no minority of prices moves the       *)
(* median, and the feed moves no faster than its limit. Last, the types of *)
(* all contracts together.                                                 *)
(*                                                                         *)
(* What is a sum over a set (Solvent, TallyIsBacked, PowerCountedOnce) is  *)
(* proved in TotalsProofs, from the invariants of this module.             *)
(***************************************************************************)
EXTENDS Contracts, FiniteSetTheorems, WellFoundedInduction, TLAPS

Names   == Accounts \cup {Nobody}

\* The entries of an escrow contract.
Entries == [state : States, from : Names, to : Names, amount : Nat, until : Nat,
            bps : 0 .. BasisPoints]

\* The contracts whose entries expire.
Expirable == {"expiring", "htlc", "strict_htlc"}

\* Entries are well formed; those that expire name their depositor.
EntryShape ==
  /\ balance \in [Holders -> Nat] /\ now \in Nat
  /\ entry \in [Ids -> Entries]
  /\ released \in [Ids -> Nat]
  /\ \A i \in Ids : contract \in Expirable /\ Open(i) => entry[i].from \in Accounts

\* Only milestones of the first escrow have releases.
ReleasedWhere ==
  \A i \in Ids : contract # "escrow" \/ entry[i].state = "none" => released[i] = 0

\* The inductive invariant of the entries.
EscrowInv == EntryShape /\ ReleasedWhere /\ ReleasedInProportion

-----------------------------------------------------------------------------
\* A whole is a natural number of basis points.
LEMMA BasisPointsTyped == BasisPoints \in Nat
BY DEF BasisPoints

\* Division rounds down.
LEMMA DivRoundsDown ==
  ASSUME NEW x \in Nat
  PROVE  x \div BasisPoints \in Nat /\ (x \div BasisPoints) * BasisPoints <= x
BY DEF BasisPoints

\* Adding a part, rounded down, keeps the sum of the parts within the percentage.
LEMMA PartsInProportion ==
  ASSUME NEW amount \in Nat, NEW bps \in Nat, NEW old \in Nat, NEW paid \in Nat,
         old <= bps, paid * BasisPoints <= amount * old
  PROVE  (paid + ((amount * (bps - old)) \div BasisPoints)) * BasisPoints <= amount * bps
<1>1. amount * (bps - old) = amount * bps - amount * old
  OBVIOUS
<1>2. amount * (bps - old) \in Nat /\ amount * bps \in Nat /\ amount * old \in Nat
  OBVIOUS
<1> DEFINE whole == amount * (bps - old)
<1>3. whole \div BasisPoints \in Nat /\ (whole \div BasisPoints) * BasisPoints <= whole
  BY <1>2, DivRoundsDown
<1> HIDE DEF whole
<1>4. (paid + (whole \div BasisPoints)) * BasisPoints
        = paid * BasisPoints + (whole \div BasisPoints) * BasisPoints
  BY <1>3 DEF BasisPoints
<1> QED BY <1>1, <1>2, <1>3, <1>4 DEF whole, BasisPoints

\* Products of natural numbers are natural numbers.
LEMMA ProductTyped == ASSUME NEW x \in Nat, NEW y \in Nat PROVE x * y \in Nat
OBVIOUS

\* A transfer keeps balances natural numbers, whoever takes part in it.
LEMMA TransferTyped ==
  ASSUME balance \in [Holders -> Nat], NEW f, NEW t, NEW m \in Nat, Transfer(f, t, m)
  PROVE  balance' \in [Holders -> Nat]
<1> DEFINE less == [balance EXCEPT ![f] = @ - m]
<1>1. less \in [Holders -> Nat]
  <2>1. CASE f \in Holders
    <3>1. balance[f] - m \in Nat
      BY <2>1 DEF Transfer
    <3> QED BY <3>1
  <2>2. CASE f \notin Holders
    BY <2>2
  <2> QED BY <2>1, <2>2
<1>2. CASE f # t
  <2>1. balance' = [less EXCEPT ![t] = @ + m]
    BY <1>2 DEF Transfer
  <2> HIDE DEF less
  <2>2. CASE t \in Holders
    <3>1. less[t] + m \in Nat
      BY <1>1, <2>2
    <3> QED BY <1>1, <2>1, <3>1
  <2>3. CASE t \notin Holders
    BY <1>1, <2>1, <2>3
  <2> QED BY <2>2, <2>3
<1>3. CASE f = t
  <2>1. ASSUME NEW h \in Holders PROVE balance'[h] \in Nat
    BY <1>3 DEF Transfer
  <2> QED BY <2>1 DEF Transfer
<1> QED BY <1>2, <1>3

\* Entries the code writes: a new one where releases are counted, and with its
\* depositor where it expires.
Admissible(i, e) ==
  /\ contract # "escrow" \/ (entry[i].state = "none" /\ e.state # "none")
  /\ contract \in Expirable /\ e.state \in {"active", "frozen"} => e.from \in Accounts

\* A call that writes one entry and moves tokens.
Written(i, e) ==
  /\ entry' = [entry EXCEPT ![i] = e] /\ UNCHANGED <<contract, now, released>>
  /\ balance' \in [Holders -> Nat]

\* Writing a well-formed entry keeps the invariant: the percentage is kept or
\* there was no release.
LEMMA EntryWritten ==
  ASSUME EscrowInv, NEW i \in Ids, NEW e \in Entries, Written(i, e), Admissible(i, e)
  PROVE  EscrowInv'
<1> USE DEF EscrowInv, Written, Admissible
<1>1. /\ entry' \in [Ids -> Entries] /\ entry'[i] = e
      /\ \A j \in Ids : j # i => entry'[j] = entry[j]
  BY DEF EntryShape
<1>2. EntryShape'
  BY <1>1 DEF EntryShape, Open
<1>3. released'[i] = 0
  BY DEF ReleasedWhere
<1>4. ReleasedWhere'
  BY <1>1, <1>3 DEF ReleasedWhere
<1>5. ReleasedInProportion'
  <2>0. e.amount \in Nat /\ e.bps \in Nat
    <3>1. e.amount \in Nat /\ e.bps \in 0 .. BasisPoints
      BY DEF Entries
    <3> QED BY <3>1, BasisPointsTyped
  <2>1. e.amount * e.bps \in Nat /\ 0 * BasisPoints = 0
    BY <2>0, ProductTyped DEF BasisPoints
  <2> QED BY <1>1, <1>3, <2>1 DEF ReleasedInProportion
<1> QED BY <1>2, <1>4, <1>5

\* A release in steps keeps the parts in proportion.
LEMMA ReleaseKeeps ==
  ASSUME EscrowInv, NEW i \in Ids, NEW b \in Percentages, ReleaseMilestone(i, b)
  PROVE  EscrowInv'
<1> USE LedgerAssumption, EscrowAssumption DEF EscrowInv, ReleaseMilestone, Is
<1> DEFINE part == (entry[i].amount * (b - entry[i].bps)) \div BasisPoints
<1>1. /\ b \in 0 .. BasisPoints /\ b \in Nat /\ entry[i].bps \in Nat /\ entry[i].bps <= b
      /\ entry[i] \in Entries /\ entry[i].amount \in Nat /\ released[i] \in Nat
  <2>1. entry[i] \in Entries /\ released[i] \in Nat
    BY DEF EntryShape
  <2>2. entry[i].amount \in Nat /\ entry[i].bps \in 0 .. BasisPoints
    BY <2>1 DEF Entries
  <2>3. b \in 1 .. BasisPoints
    OBVIOUS
  <2> QED BY <2>1, <2>2, <2>3, BasisPointsTyped
<1>2. part \in Nat
  <2>1. b - entry[i].bps \in Nat
    BY <1>1
  <2>2. entry[i].amount * (b - entry[i].bps) \in Nat
    BY <1>1, <2>1, ProductTyped
  <2> QED BY <2>2, DivRoundsDown
<1>3. (released[i] + part) * BasisPoints <= entry[i].amount * b
  BY <1>1, PartsInProportion DEF ReleasedInProportion
<1>4. /\ entry' = [entry EXCEPT ![i].bps = b] /\ released' = [released EXCEPT ![i] = @ + part]
      /\ Transfer(Self, entry[i].to, part) /\ UNCHANGED <<contract, now>>
      /\ contract = "escrow" /\ entry[i].state = "pending"
  OBVIOUS
<1> HIDE DEF part
<1>5. /\ entry' \in [Ids -> Entries] /\ released' \in [Ids -> Nat]
      /\ entry'[i].amount = entry[i].amount /\ entry'[i].bps = b
      /\ entry'[i].state = "pending" /\ released'[i] = released[i] + part
      /\ \A j \in Ids : j # i => entry'[j] = entry[j] /\ released'[j] = released[j]
  BY <1>1, <1>2, <1>4 DEF EntryShape, Entries
<1>6. balance' \in [Holders -> Nat]
  BY <1>2, <1>4, TransferTyped DEF EntryShape
<1>7. EntryShape'
  BY <1>4, <1>5, <1>6 DEF EntryShape, Expirable
<1>8. ReleasedWhere'
  BY <1>4, <1>5 DEF ReleasedWhere
<1>9. ReleasedInProportion'
  BY <1>3, <1>5 DEF ReleasedInProportion
<1> QED BY <1>7, <1>8, <1>9

\* Every call of the escrow contracts keeps the invariant.
LEMMA EscrowKeeps == EscrowInv /\ EscrowNext => EscrowInv'
<1> SUFFICES ASSUME EscrowInv, EscrowNext PROVE EscrowInv'
  OBVIOUS
<1> USE LedgerAssumption, EscrowAssumption
<1>0. balance \in [Holders -> Nat] /\ entry \in [Ids -> Entries]
  BY DEF EscrowInv, EntryShape
<1>2. PICK i \in Ids : Opening(i) \/ Closing(i) \/ TakeBack(i)
  BY DEF EscrowNext
<1>3. entry[i] \in Entries /\ NoEntry \in Entries
  <2>1. NoEntry \in Entries
    BY DEF Entries, NoEntry, Entry, States, Names, BasisPoints
  <2> QED BY <1>0, <2>1
<1>4. ASSUME NEW s \in States
      PROVE  /\ Become(i, s) \in Entries /\ Become(i, s).state = s
             /\ Become(i, s).from = entry[i].from /\ Become(i, s).amount = entry[i].amount
  BY <1>3 DEF Entries, Become
<1>5. ASSUME NEW a \in Accounts, NEW m \in Amounts,
             \/ FundMilestone(i, a)       \/ CreateShare(i, a, m)
             \/ LockFunds(i, a)           \/ CreateMilestone(i, a, m)
             \/ DisputeDeposit(i, a, m)   \/ RecoveryDeposit(i, a, m)
             \/ RecordPayment(i, a, m)    \/ RecordDonation(i, a, m)
             \/ Donate(i, a, m)
      PROVE  EscrowInv'
  <2> USE DEF Is
  <2>0. m \in Nat /\ entry[i].amount \in Nat
    BY <1>3 DEF Entries
  <2>1. CASE FundMilestone(i, a)
    <3>1. balance' \in [Holders -> Nat]
      BY <1>0, <2>0, <2>1, TransferTyped DEF FundMilestone
    <3> QED BY <2>1, <3>1 DEF FundMilestone, EscrowInv, EntryShape, ReleasedWhere,
                              ReleasedInProportion, escrowVars, Open
  <2>2. CASE CreateShare(i, a, m) \/ CreateMilestone(i, a, m)
    <3> DEFINE e == Entry("pending", Nobody, a, m, 0)
    <3>1. Store(i, e) /\ entry[i].state = "none"
      BY <2>2 DEF CreateShare, CreateMilestone
    <3>2. e \in Entries /\ e.state = "pending"
      BY <2>0 DEF Entries, Entry, States, Names, BasisPoints
    <3> HIDE DEF e
    <3>3. Written(i, e) /\ Admissible(i, e)
      BY <1>0, <3>1, <3>2 DEF Written, Admissible, Store, ledgerVars
    <3> QED BY <3>2, <3>3, EntryWritten
  <2>3. CASE LockFunds(i, a)
    <3>1. TakeIn(i, a, Become(i, "active")) /\ contract = "milestone"
      BY <2>3 DEF LockFunds
    <3>2. Become(i, "active") \in Entries /\ Become(i, "active").amount \in Nat
      BY <1>4, <2>0 DEF States
    <3>3. balance' \in [Holders -> Nat]
      BY <1>0, <3>1, <3>2, TransferTyped DEF TakeIn
    <3>4. Written(i, Become(i, "active")) /\ Admissible(i, Become(i, "active"))
      BY <3>1, <3>3 DEF Written, Admissible, TakeIn, Expirable
    <3> QED BY <3>2, <3>4, EntryWritten
  <2>4. CASE \/ DisputeDeposit(i, a, m) \/ RecoveryDeposit(i, a, m) \/ RecordPayment(i, a, m)
             \/ RecordDonation(i, a, m)
    <3> DEFINE e == Entry("active", a, Nobody, m, 0)
    <3>1. /\ entry' = [entry EXCEPT ![i] = e] /\ UNCHANGED <<contract, now, released>>
          /\ UNCHANGED balance \/ Transfer(a, Self, e.amount)
          /\ contract \in {"dispute", "recovery", "refund", "refund_record"}
      BY <2>4 DEF DisputeDeposit, RecoveryDeposit, RecordPayment, RecordDonation, Deposited,
                  TakeIn, Store, ledgerVars
    <3>2. e \in Entries /\ e.amount \in Nat
      BY <2>0 DEF Entries, Entry, States, Names, BasisPoints
    <3> HIDE DEF e
    <3>3. balance' \in [Holders -> Nat]
      BY <1>0, <3>1, <3>2, TransferTyped
    <3>4. Written(i, e) /\ Admissible(i, e)
      BY <3>1, <3>3 DEF Written, Admissible, Expirable
    <3> QED BY <3>2, <3>4, EntryWritten
  <2>5. CASE Donate(i, a, m)
    <3> DEFINE e == Entry("active", Nobody, Nobody, entry[i].amount + m, 0)
    <3>1. /\ entry' = [entry EXCEPT ![i] = e] /\ UNCHANGED <<contract, now, released>>
          /\ contract = "campaign" /\ Transfer(a, Self, m)
      BY <2>5 DEF Donate, Deposited
    <3>2. entry[i].amount + m \in Nat
      BY <2>0
    <3>3. e \in Entries
      BY <3>2 DEF Entries, Entry, States, Names, BasisPoints
    <3>4. balance' \in [Holders -> Nat]
      BY <1>0, <2>0, <3>1, TransferTyped
    <3> HIDE DEF e
    <3>5. Written(i, e) /\ Admissible(i, e)
      BY <3>1, <3>4 DEF Written, Admissible, Expirable
    <3> QED BY <3>3, <3>5, EntryWritten
  <2> QED BY <1>5, <2>1, <2>2, <2>3, <2>4, <2>5
<1>6. ASSUME NEW a \in Accounts, NEW m \in Amounts, NEW u \in 1 .. MaxTime,
             \/ ExpiringDeposit(i, a, m, u) \/ LockQuote(i, a, u)
             \/ \E b \in Accounts : Lock(i, a, b, m, u)
      PROVE  EscrowInv'
  <2> USE DEF Is
  <2>0. m \in Nat /\ u \in Nat
    OBVIOUS
  <2>1. CASE LockQuote(i, a, u)
    <3> DEFINE e == Entry("pending", a, Nobody, 0, u)
    <3>1. Store(i, e) /\ contract = "quote"
      BY <2>1 DEF LockQuote
    <3>2. e \in Entries
      BY <2>0 DEF Entries, Entry, States, Names, BasisPoints
    <3> HIDE DEF e
    <3>3. Written(i, e) /\ Admissible(i, e)
      BY <1>0, <3>1 DEF Written, Admissible, Store, ledgerVars, Expirable
    <3> QED BY <3>2, <3>3, EntryWritten
  <2>2. ASSUME NEW t \in Names, TakeIn(i, a, Entry("active", a, t, m, u)), contract \in Expirable
        PROVE  EscrowInv'
    <3> DEFINE e == Entry("active", a, t, m, u)
    <3>1. /\ entry' = [entry EXCEPT ![i] = e] /\ UNCHANGED <<contract, now, released>>
          /\ Transfer(a, Self, e.amount)
      BY <2>2 DEF TakeIn
    <3>2. e \in Entries /\ e.from = a /\ e.amount \in Nat
      BY <2>0, <2>2 DEF Entries, Entry, States, Names, BasisPoints
    <3> HIDE DEF e
    <3>3. balance' \in [Holders -> Nat]
      BY <1>0, <3>1, <3>2, TransferTyped
    <3>4. contract # "escrow"
      BY <2>2 DEF Expirable
    <3>5. Written(i, e) /\ Admissible(i, e)
      BY <3>1, <3>2, <3>3, <3>4 DEF Written, Admissible
    <3> QED BY <3>2, <3>5, EntryWritten
  <2>3. CASE ExpiringDeposit(i, a, m, u)
    BY <2>2, <2>3 DEF ExpiringDeposit, Expirable, Names
  <2>4. CASE \E b \in Accounts : Lock(i, a, b, m, u)
    BY <2>2, <2>4 DEF Lock, Expirable, Names
  <2> QED BY <1>6, <2>1, <2>3, <2>4
<1>7. ASSUME NEW t, NEW e \in Entries, PayOut(i, t, e), contract # "escrow",
             e.state \in {"none", "paid", "refunded"}
      PROVE  EscrowInv'
  <2>1. balance' \in [Holders -> Nat]
    BY <1>0, <1>3, <1>7, TransferTyped DEF PayOut, Entries
  <2>2. Written(i, e) /\ Admissible(i, e)
    BY <1>7, <2>1 DEF Written, Admissible, PayOut
  <2> QED BY <2>2, EntryWritten
<1>8. ASSUME NEW t, PayOut(i, t, NoEntry), contract # "escrow" PROVE EscrowInv'
  <2>1. NoEntry.state = "none"
    BY DEF NoEntry, Entry
  <2> QED BY <1>3, <1>7, <1>8, <2>1
<1>9. ASSUME NEW s \in States, Store(i, Become(i, s)), contract \in {"dispute", "quote"}
      PROVE  EscrowInv'
  <2>1. Become(i, s) \in Entries
    BY <1>4
  <2>2. Written(i, Become(i, s)) /\ Admissible(i, Become(i, s))
    BY <1>0, <1>9 DEF Written, Admissible, Store, ledgerVars, Expirable
  <2> QED BY <2>1, <2>2, EntryWritten
<1>10. ASSUME Closing(i) \/ TakeBack(i) PROVE EscrowInv'
  <2>1. CASE \E b \in Percentages : ReleaseMilestone(i, b)
    BY <2>1, ReleaseKeeps
  <2>2. CASE CompleteMilestone(i) \/ Withdraw(i) \/ WithdrawInTime(i) \/ ProcessRefund(i)
               \/ ProcessRecordedRefund(i) \/ Refund(i)
    <3>1. PICK s \in {"paid", "refunded"}, t \in {entry[i].from, entry[i].to} :
            PayOut(i, t, Become(i, s)) /\ contract # "escrow"
      BY <2>2 DEF CompleteMilestone, Withdraw, WithdrawInTime, ProcessRefund,
                  ProcessRecordedRefund, Refund, Is
    <3>2. s \in States
      BY DEF States
    <3> QED BY <1>4, <1>7, <3>1, <3>2
  <2>3. CASE Freeze(i) \/ Unfreeze(i) \/ ExecuteQuote(i)
    BY <2>3, <1>9 DEF Freeze, Unfreeze, ExecuteQuote, Is, States
  <2>4. CASE \/ Reclaim(i)
             \/ \E a \in Accounts :
                  \/ DisputeRelease(i, a)  \/ RecoveryRelease(i, a) \/ EmergencyRecover(i, a)
                  \/ ExpiringRelease(i, a) \/ ReleaseToCampaign(i, a)
    BY <2>4, <1>8 DEF Reclaim, DisputeRelease, RecoveryRelease, EmergencyRecover,
                      ExpiringRelease, ReleaseToCampaign, Is
  <2> QED BY <1>10, <2>1, <2>2, <2>3, <2>4 DEF Closing, TakeBack
<1> QED BY <1>2, <1>5, <1>6, <1>10 DEF Opening

-----------------------------------------------------------------------------
\* Approvals are counted as they are recorded, and signers only are recorded.
ApprovalsCounted ==
  \A p \in Payments :
    /\ payment[p].approvals = Cardinality(votes[p])
    /\ payment[p].state = "none" => votes[p] = {}
    /\ contract = "signer_multisig" => votes[p] \subseteq signers

\* The inductive invariant of the payments of both multisig contracts.
MultiSigInv == MultiSigTypeOK /\ ApprovalsCounted /\ ApprovalsDecide

\* A set of approvals is finite, and one more approval counts one more.
LEMMA OneMoreApproval ==
  ASSUME NEW V \in SUBSET Voters, NEW a \in Voters, a \notin V
  PROVE  Cardinality(V) \in Nat /\ Cardinality(V \cup {a}) = Cardinality(V) + 1
<1>1. IsFiniteSet(V)
  BY FS_Subset, LedgerAssumption
<1> QED BY <1>1, FS_CardinalityType, FS_AddElement

\* Payments are of natural amounts.
LEMMA AmountTyped == MultiSigTypeOK => \A p \in Payments : payment[p].amount \in Nat
<1> SUFFICES ASSUME MultiSigTypeOK, NEW p \in Payments PROVE payment[p].amount \in Nat
  OBVIOUS
<1>1. payment[p].amount \in Values \cup {0}
  BY DEF MultiSigTypeOK
<1>2. CASE payment[p].amount \in Values
  BY <1>2, MultiSigAssumption
<1>3. CASE payment[p].amount = 0
  BY <1>3
<1> QED BY <1>1, <1>2, <1>3

\* The oracles and the administration move neither tokens nor time.
LEMMA AdviceApart == AdviceNext => UNCHANGED <<contract, now, balance>>
<1>1. OraclesNext => UNCHANGED ledgerVars
  BY DEF OraclesNext, AddOracle, RemoveOracle, PushPrice, SetMaxStaleness, SetMaxDeviation,
         RegisterProvider, UnregisterProvider, UpdatePrice, UpdatePriceElsewhere, Accepted,
         OracleCall
<1>2. AdministrationNext => UNCHANGED ledgerVars
  BY DEF AdministrationNext, AdminCall, SetKycStatus, Authorize, Revoke, Upgrade,
         UpgradeWithVersion, ApplyUpgrade, TransferAdmin
<1> QED BY <1>1, <1>2 DEF AdviceNext, ledgerVars

\* Every call keeps the approvals of all payments counted and decisive.
LEMMA MultiSigKeeps == MultiSigInv /\ [ContractNext]_contractVars => MultiSigInv'
<1> SUFFICES ASSUME MultiSigInv, [ContractNext]_contractVars PROVE MultiSigInv'
  OBVIOUS
<1> USE LedgerAssumption, MultiSigAssumption
<1> DEFINE Payable == [state : {"none", "open", "executed"}, to : Accounts \cup {Self},
                       amount : Values \cup {0}, approvals : Nat]
<1>0. /\ payment \in [Payments -> Payable] /\ votes \in [Payments -> SUBSET Voters]
      /\ signers \subseteq Voters
  BY DEF MultiSigInv, MultiSigTypeOK
<1>1. CASE UNCHANGED <<contract, multiSigVars>>
  BY <1>1 DEF MultiSigInv, MultiSigTypeOK, ApprovalsCounted, ApprovalsDecide, multiSigVars
<1>2. ASSUME NEW a \in Voters, AddSigner(a) PROVE MultiSigInv'
  <2>1. UNCHANGED <<contract, payment, votes>> /\ signers' = signers \cup {a}
    BY <1>2 DEF AddSigner, ledgerVars
  <2> QED BY <2>1 DEF MultiSigInv, MultiSigTypeOK, ApprovalsCounted, ApprovalsDecide
<1>3. ASSUME NEW p \in Payments, NEW a \in Voters, NEW to \in Accounts, NEW v \in Values,
             ProposePayment(p, a, to, v)
      PROVE  MultiSigInv'
  <2> DEFINE new == [state |-> "open", to |-> to, amount |-> v, approvals |-> 0]
  <2>1. /\ UNCHANGED <<contract, votes, signers>> /\ payment' = [payment EXCEPT ![p] = new]
        /\ payment[p].state = "none"
    BY <1>3 DEF ProposePayment, ledgerVars
  <2>2. new \in Payable
    OBVIOUS
  <2>3. votes[p] = {} /\ Cardinality(votes[p]) = 0
    BY <2>1, FS_EmptySet DEF MultiSigInv, ApprovalsCounted
  <2>4. payment'[p] = new /\ \A q \in Payments : q # p => payment'[q] = payment[q]
    BY <1>0, <2>1
  <2>5. MultiSigTypeOK'
    BY <1>0, <2>1, <2>2 DEF MultiSigTypeOK
  <2>6. new.state = "open" /\ new.approvals = 0
    OBVIOUS
  <2> HIDE DEF new
  <2>7. ApprovalsCounted'
    BY <2>1, <2>3, <2>4, <2>6 DEF MultiSigInv, ApprovalsCounted
  <2>8. ApprovalsDecide'
    <3>1. ~(Cardinality(votes[p]) >= Threshold)
      BY <2>3
    <3> QED BY <2>1, <2>3, <2>4, <2>6, <3>1 DEF MultiSigInv, ApprovalsDecide
  <2> QED BY <2>5, <2>7, <2>8 DEF MultiSigInv
<1>4. ASSUME NEW p \in Payments, NEW a \in Voters, Approve(p, a) PROVE MultiSigInv'
  <2> DEFINE n    == payment[p].approvals + 1
             high == payment[p].amount >= HighValue /\ n >= Threshold
             done == [state |-> IF high THEN "executed" ELSE payment[p].state,
                      to |-> payment[p].to, amount |-> payment[p].amount, approvals |-> n]
  <2>1. /\ UNCHANGED <<contract, signers>> /\ payment' = [payment EXCEPT ![p] = done]
        /\ votes' = [votes EXCEPT ![p] = @ \cup {a}] /\ a \notin votes[p]
        /\ payment[p].state = "open" /\ MaySign(a)
    BY <1>4 DEF Approve, Decide
  <2>2. payment[p] \in Payable /\ votes[p] \in SUBSET Voters
    BY <1>0
  <2>3. /\ done \in Payable /\ done.approvals = n /\ done.amount = payment[p].amount
        /\ done.state = IF high THEN "executed" ELSE "open"
    BY <2>1, <2>2
  <2>4. n = Cardinality(votes[p] \cup {a}) /\ n \in Nat /\ n = Cardinality(votes[p]) + 1
    BY <2>1, <2>2, OneMoreApproval DEF MultiSigInv, ApprovalsCounted
  <2>5. payment[p].amount >= HighValue => ~(Cardinality(votes[p]) >= Threshold)
    BY <2>1 DEF MultiSigInv, ApprovalsDecide
  <2> HIDE DEF done
  <2>6. /\ payment'[p] = done /\ votes'[p] = votes[p] \cup {a}
        /\ \A q \in Payments : q # p => payment'[q] = payment[q] /\ votes'[q] = votes[q]
    BY <1>0, <2>1
  <2>7. MultiSigTypeOK'
    BY <1>0, <2>1, <2>3 DEF MultiSigTypeOK
  <2>8. ApprovalsCounted'
    BY <2>1, <2>3, <2>4, <2>6 DEF MultiSigInv, ApprovalsCounted, MaySign
  <2>9. ApprovalsDecide'
    BY <2>1, <2>3, <2>4, <2>5, <2>6 DEF MultiSigInv, ApprovalsDecide, MaySign
  <2> QED BY <2>7, <2>8, <2>9 DEF MultiSigInv
<1>5. ASSUME NEW p \in Payments, ExecutePayment(p) PROVE MultiSigInv'
  <2>1. /\ UNCHANGED <<contract, votes, signers>> /\ payment[p].state = "open"
        /\ payment[p].amount < HighValue
        /\ payment' = [payment EXCEPT ![p].state = "executed"]
    BY <1>5 DEF ExecutePayment
  <2>2. payment[p] \in Payable /\ payment[p].amount \in Nat
    BY <1>0, AmountTyped DEF MultiSigInv
  <2>3. /\ payment'[p].state = "executed" /\ payment'[p].amount = payment[p].amount
        /\ payment'[p].approvals = payment[p].approvals /\ payment'[p] \in Payable
        /\ \A q \in Payments : q # p => payment'[q] = payment[q]
    BY <1>0, <2>1, <2>2
  <2>4. MultiSigTypeOK'
    BY <1>0, <2>1, <2>3 DEF MultiSigTypeOK
  <2>5. ApprovalsCounted' /\ ApprovalsDecide'
    BY <2>1, <2>2, <2>3 DEF MultiSigInv, ApprovalsCounted, ApprovalsDecide
  <2> QED BY <2>4, <2>5 DEF MultiSigInv
<1>6. CASE EscrowNext /\ UNCHANGED <<multiSigVars, governanceVars, delegationVars, adviceVars>>
  <2>1. UNCHANGED contract
    BY <1>6 DEF EscrowNext, Opening, Closing, TakeBack, CreateShare, FundMilestone,
       ReleaseMilestone, CreateMilestone, LockFunds, CompleteMilestone, DisputeDeposit, Freeze,
       Unfreeze, DisputeRelease, RecoveryDeposit, RecoveryRelease, EmergencyRecover,
       ExpiringDeposit, ExpiringRelease, Reclaim, Donate, ReleaseToCampaign, Lock, Withdraw,
       WithdrawInTime, Refund, RecordPayment, RecordDonation, ProcessRefund,
       ProcessRecordedRefund, LockQuote, ExecuteQuote, TakeIn, PayOut, Store, ledgerVars
  <2> QED BY <1>1, <1>6, <2>1
<1>7. CASE GovernanceNext /\ UNCHANGED <<escrowVars, multiSigVars, delegationVars, adviceVars>>
  BY <1>1, <1>7 DEF GovernanceNext, CreateProposal, ExecuteProposal, SnapshotVotingPower,
                    CastVote, MoveVotes, Send, ledgerVars
<1>8. CASE DelegationNext /\ UNCHANGED <<escrowVars, multiSigVars, governanceVars, adviceVars>>
  BY <1>1, <1>8 DEF DelegationNext, SetVotingPower, Delegate, ClearDelegation, ledgerVars
<1>9. CASE Network /\ UNCHANGED <<escrowVars, multiSigVars, governanceVars, delegationVars, adviceVars>>
  BY <1>1, <1>9 DEF Network, CloseLedger, Send
<1>10. CASE AdviceNext /\ UNCHANGED <<escrowVars, multiSigVars, governanceVars, delegationVars>>
  BY <1>1, <1>10, AdviceApart
<1>11. CASE UNCHANGED contractVars
  BY <1>1, <1>11 DEF contractVars, ledgerVars
<1> QED
  BY <1>2, <1>3, <1>4, <1>5, <1>6, <1>7, <1>8, <1>9, <1>10, <1>11 DEF ContractNext, MultiSigNext

\* The invariant of the payments holds in every reachable state.
THEOREM MultiSigInvariant == ContractSpec => []MultiSigInv
<1>1. ContractInit => MultiSigInv
  <2> SUFFICES ASSUME ContractInit PROVE MultiSigInv
    OBVIOUS
  <2>1. /\ payment = [p \in Payments |-> NoPayment] /\ votes = [p \in Payments |-> {}]
        /\ signers = {}
    BY DEF ContractInit, MultiSigInit
  <2>2. MultiSigTypeOK
    BY <2>1 DEF MultiSigTypeOK, NoPayment
  <2> QED BY <2>1, <2>2, FS_EmptySet
          DEF MultiSigInv, ApprovalsCounted, ApprovalsDecide, NoPayment
<1> QED BY <1>1, MultiSigKeeps, PTL DEF ContractSpec

\* A high-value payment executes with the Threshold-th approval of distinct
\* addresses, registered signers where there are any, and at no other moment.
THEOREM HighValueAtThreshold == ContractSpec => []ApprovalsDecide
<1>1. MultiSigInv => ApprovalsDecide
  BY DEF MultiSigInv
<1> QED BY <1>1, MultiSigInvariant, PTL

-----------------------------------------------------------------------------
\* The other contracts and the network move tokens and time only.
LEMMA OthersKeepEscrow == EscrowInv /\ MultiSigInv /\ ContractNext => EscrowInv'
<1> SUFFICES ASSUME EscrowInv, MultiSigInv, ContractNext PROVE EscrowInv'
  OBVIOUS
<1>1. CASE EscrowNext
  BY <1>1, EscrowKeeps
<1>2. ASSUME UNCHANGED <<contract, escrowVars>>, now' \in Nat, balance' \in [Holders -> Nat]
      PROVE  EscrowInv'
  BY <1>2 DEF EscrowInv, EntryShape, ReleasedWhere, ReleasedInProportion, escrowVars, Open
<1>3. balance \in [Holders -> Nat] /\ now \in Nat
  BY DEF EscrowInv, EntryShape
<1>4. ASSUME NEW f, NEW t, Send(f, t, 1) PROVE now' = now /\ balance' \in [Holders -> Nat]
  BY <1>3, <1>4, TransferTyped DEF Send
<1>5. CASE Network /\ UNCHANGED <<escrowVars, multiSigVars, governanceVars, delegationVars, adviceVars>>
  BY <1>2, <1>3, <1>4, <1>5 DEF Network, CloseLedger, Send
<1>6. CASE MultiSigNext /\ UNCHANGED <<escrowVars, governanceVars, delegationVars, adviceVars>>
  <2>1. \A p \in Payments : payment[p].amount \in Nat
    BY AmountTyped DEF MultiSigInv
  <2>2. UNCHANGED <<contract, now>>
    BY <1>6 DEF MultiSigNext, AddSigner, ProposePayment, Approve, ExecutePayment, ledgerVars
  <2>3. CASE UNCHANGED balance
    BY <1>2, <1>3, <1>6, <2>2, <2>3
  <2>4. ASSUME NEW p \in Payments, Transfer(Self, payment[p].to, payment[p].amount)
        PROVE  EscrowInv'
    <3>1. balance' \in [Holders -> Nat]
      BY <1>3, <2>1, <2>4, TransferTyped
    <3> QED BY <1>2, <1>3, <1>6, <2>2, <3>1
  <2> QED BY <1>6, <2>3, <2>4 DEF MultiSigNext, AddSigner, ProposePayment, Approve, Decide,
                                  ExecutePayment, ledgerVars
<1>7. CASE GovernanceNext /\ UNCHANGED <<escrowVars, multiSigVars, delegationVars, adviceVars>>
  BY <1>2, <1>3, <1>4, <1>7 DEF GovernanceNext, CreateProposal, ExecuteProposal,
         SnapshotVotingPower, CastVote, MoveVotes, Send, ledgerVars
<1>8. CASE DelegationNext /\ UNCHANGED <<escrowVars, multiSigVars, governanceVars, adviceVars>>
  BY <1>2, <1>3, <1>8 DEF DelegationNext, SetVotingPower, Delegate, ClearDelegation, ledgerVars
<1>9. CASE AdviceNext /\ UNCHANGED <<escrowVars, multiSigVars, governanceVars, delegationVars>>
  BY <1>2, <1>3, <1>9, AdviceApart
<1> QED BY <1>1, <1>5, <1>6, <1>7, <1>8, <1>9 DEF ContractNext

\* The invariant of the entries holds in every reachable state.
THEOREM EscrowInvariant == ContractSpec => []EscrowInv
<1>1. ContractInit => EscrowInv
  <2> SUFFICES ASSUME ContractInit PROVE EscrowInv
    OBVIOUS
  <2>1. NoEntry \in Entries /\ NoEntry.state = "none" /\ NoEntry.amount = 0 /\ NoEntry.bps = 0
    BY DEF NoEntry, Entry, Entries, States, Names, BasisPoints
  <2>2. balance \in [Holders -> Nat] /\ now \in Nat
    BY LedgerAssumption DEF ContractInit, LedgerInit
  <2>3. entry = [i \in Ids |-> NoEntry] /\ released = [i \in Ids |-> 0]
    BY DEF ContractInit, EscrowInit
  <2> QED BY <2>1, <2>2, <2>3
          DEF EscrowInv, EntryShape, ReleasedWhere, ReleasedInProportion, Open, BasisPoints
<1>2. EscrowInv /\ MultiSigInv /\ [ContractNext]_contractVars => EscrowInv'
  <2>1. EscrowInv /\ UNCHANGED contractVars => EscrowInv'
    BY DEF EscrowInv, EntryShape, ReleasedWhere, ReleasedInProportion, Open, contractVars,
           ledgerVars, escrowVars
  <2> QED BY <2>1, OthersKeepEscrow
<1> QED BY <1>1, <1>2, MultiSigInvariant, PTL DEF ContractSpec

\* Whatever the steps and the rounding of each, the releases of a milestone pay
\* no more than the percentage released so far.
THEOREM ReleasesStayInProportion == ContractSpec => []ReleasedInProportion
<1>1. EscrowInv => ReleasedInProportion
  BY DEF EscrowInv
<1> QED BY <1>1, EscrowInvariant, PTL

-----------------------------------------------------------------------------
\* Once an entry of an expiring escrow or of the second HTLC has expired, the
\* only call that closes it pays the depositor.
THEOREM ExpiredTokensGoBack == ContractSpec => ExpiredGoesBack
<1> DEFINE goesBack(i) ==
      contract \in {"expiring", "strict_htlc"} /\ Open(i) /\ now >= entry[i].until
        /\ entry'[i].state # entry[i].state
        => balance'[entry[i].from] = balance[entry[i].from] + entry[i].amount
<1>1. ASSUME EscrowInv, [ContractNext]_contractVars, NEW i \in Ids PROVE goesBack(i)
  <2> SUFFICES ASSUME contract \in {"expiring", "strict_htlc"}, Open(i), now >= entry[i].until,
                      entry'[i].state # entry[i].state
               PROVE  balance'[entry[i].from] = balance[entry[i].from] + entry[i].amount
    OBVIOUS
  <2>1. EscrowNext
    BY <1>1 DEF ContractNext, contractVars, escrowVars
  <2>2. PICK j \in Ids : Opening(j) \/ Closing(j) \/ TakeBack(j)
    BY <2>1 DEF EscrowNext
  <2>3. /\ entry \in [Ids -> Entries] /\ balance \in [Holders -> Nat] /\ now \in Nat
        /\ entry[i].from \in Accounts /\ entry[i] \in Entries
    BY <1>1 DEF EscrowInv, EntryShape, Expirable
  <2>4. ASSUME NEW e, entry' = [entry EXCEPT ![j] = e] PROVE j = i
    BY <2>3, <2>4
  <2>5. ASSUME PayOut(i, entry[i].from, NoEntry) \/ PayOut(i, entry[i].from, Become(i, "refunded"))
        PROVE  balance'[entry[i].from] = balance[entry[i].from] + entry[i].amount
    <3>1. entry[i].from # Self /\ entry[i].from \in Holders /\ Self \in Holders
      BY <2>3, LedgerAssumption DEF Holders
    <3> QED BY <2>3, <2>5, <3>1 DEF PayOut, Transfer
  <2>6. CASE Opening(j)
    <3>1. \/ \E a \in Accounts, m \in Amounts, u \in 1 .. MaxTime : ExpiringDeposit(j, a, m, u)
          \/ \E a, b \in Accounts, m \in Amounts, u \in 1 .. MaxTime : Lock(j, a, b, m, u)
      BY <2>6 DEF Opening, CreateShare, FundMilestone, CreateMilestone, LockFunds,
         DisputeDeposit, RecoveryDeposit, RecordPayment, RecordDonation, Donate, LockQuote, Is
    <3>2. entry[j].state = "none" /\ \E e : entry' = [entry EXCEPT ![j] = e]
      BY <3>1 DEF ExpiringDeposit, Lock, TakeIn, Is
    <3> QED BY <2>4, <3>2 DEF Open
  <2>7. CASE Closing(j)
    <3>1. \/ \E a \in Accounts : ExpiringRelease(j, a)
          \/ WithdrawInTime(j)
      BY <2>7 DEF Closing, ReleaseMilestone, CompleteMilestone, Freeze, Unfreeze, Withdraw,
         DisputeRelease, RecoveryRelease, EmergencyRecover, ReleaseToCampaign, ProcessRefund,
         ProcessRecordedRefund, ExecuteQuote, Is
    <3>2. now < entry[j].until /\ \E e : entry' = [entry EXCEPT ![j] = e]
      BY <3>1 DEF ExpiringRelease, WithdrawInTime, PayOut
    <3>3. j = i /\ entry[i].until \in Nat
      BY <2>3, <2>4, <3>2 DEF Entries
    <3> QED BY <2>3, <3>2, <3>3
  <2>8. CASE TakeBack(j)
    <3>1. \E e : entry' = [entry EXCEPT ![j] = e]
      BY <2>8 DEF TakeBack, Reclaim, Refund, PayOut
    <3>2. j = i
      BY <2>4, <3>1
    <3> QED BY <2>5, <2>8, <3>2 DEF TakeBack, Reclaim, Refund
  <2> QED BY <2>2, <2>6, <2>7, <2>8
<1>2. EscrowInv /\ [ContractNext]_contractVars
        => [\A i \in Ids : goesBack(i)]_<<ledgerVars, escrowVars>>
  BY <1>1
<1>3. ([\A i \in Ids : goesBack(i)]_<<ledgerVars, escrowVars>>)
        => [\A i \in Ids :
       contract \in {"expiring", "strict_htlc"} /\ Open(i) /\ now >= entry[i].until
         /\ entry'[i].state # entry[i].state
         => balance'[entry[i].from] = balance[entry[i].from] + entry[i].amount]_<<ledgerVars, escrowVars>>
  OBVIOUS
<1> QED BY <1>2, <1>3, EscrowInvariant, PTL DEF ContractSpec, ExpiredGoesBack

-----------------------------------------------------------------------------
\* A proposal is executed only after its voting period.
ExecutedAfterEnd ==
  \A p \in DOMAIN proposals : proposals[p].executed => proposals[p].end_time < now

\* The inductive invariant of the proposals.
GovernanceInv == GovernanceTypeOK /\ ExecutedAfterEnd

\* A proposal as it is stored.
Ballots == [start_time : Nat, end_time : Nat, executed : BOOLEAN, votes_for : Nat,
            votes_against : Nat]

\* The proposals are finitely many, so the next number is a number.
LEMMA FewProposals ==
  ASSUME GovernanceTypeOK
  PROVE  Cardinality(DOMAIN proposals) \in Nat
<1>1. DOMAIN proposals \subseteq 1 .. MaxProposals
  BY DEF GovernanceTypeOK, Proposals
<1>2. MaxProposals \in Int /\ 1 \in Int
  BY GovernanceAssumption DEF GovernanceAssumption
<1>3. IsFiniteSet(1 .. MaxProposals)
  BY <1>2, FS_Interval
<1>4. IsFiniteSet(DOMAIN proposals)
  BY <1>1, <1>3, FS_Subset
<1> QED BY ONLY <1>4, FS_CardinalityType

\* Every call keeps executed proposals behind their voting period.
LEMMA GovernanceKeeps ==
  EscrowInv /\ GovernanceInv /\ [ContractNext]_contractVars => GovernanceInv'
<1> SUFFICES ASSUME EscrowInv, GovernanceInv, [ContractNext]_contractVars PROVE GovernanceInv'
  OBVIOUS
<1> USE LedgerAssumption, GovernanceAssumption
<1>0. /\ now \in Nat /\ balance \in [Holders -> Nat]
      /\ \A p \in DOMAIN proposals : p \in Proposals /\ proposals[p] \in Ballots
  BY DEF EscrowInv, EntryShape, GovernanceInv, GovernanceTypeOK, Ballots
<1>1. ASSUME UNCHANGED governanceVars, now' \in Nat, now' >= now PROVE GovernanceInv'
  <2>1. \A p \in DOMAIN proposals : proposals[p].end_time \in Nat
    BY <1>0 DEF Ballots
  <2> QED BY <1>0, <1>1, <2>1 DEF GovernanceInv, GovernanceTypeOK, ExecutedAfterEnd, governanceVars
<1>2. ASSUME UNCHANGED <<now, vp_snapshot, has_voted, moved>>,
             DOMAIN proposals' \subseteq Proposals,
             \A p \in DOMAIN proposals' :
               /\ proposals'[p] \in Ballots
               /\ proposals'[p].executed => proposals'[p].end_time < now
      PROVE  GovernanceInv'
  BY <1>2 DEF GovernanceInv, GovernanceTypeOK, ExecutedAfterEnd, Ballots
<1>3. ASSUME NEW d \in Durations, CreateProposal(d) PROVE GovernanceInv'
  <2> DEFINE n   == Cardinality(DOMAIN proposals) + 1
             new == [start_time |-> now, end_time |-> now + d, executed |-> FALSE,
                     votes_for |-> 0, votes_against |-> 0]
  <2>1. /\ proposals' = [p \in DOMAIN proposals \cup {n} |->
                           IF Exists(p) THEN proposals[p] ELSE new]
        /\ UNCHANGED <<now, vp_snapshot, has_voted, moved>> /\ n <= MaxProposals
    <3>1. Cardinality(DOMAIN proposals) \in Nat
      BY FewProposals DEF GovernanceInv
    <3> QED BY <1>3, <3>1 DEF CreateProposal, ledgerVars
  <2>2. n \in Proposals /\ new \in Ballots /\ new.executed = FALSE
    <3>1. d \in Nat /\ now + d \in Nat
      BY <1>0
    <3>2. new \in Ballots
      BY <1>0, <3>1 DEF Ballots
    <3>3. n \in Proposals
      <4>1. Cardinality(DOMAIN proposals) \in Nat
        BY FewProposals DEF GovernanceInv
      <4> QED BY <2>1, <4>1 DEF Proposals
    <3> QED BY <3>2, <3>3
  <2> HIDE DEF n, new
  <2>3. ASSUME NEW p \in DOMAIN proposals'
        PROVE  proposals'[p] = IF p \in DOMAIN proposals THEN proposals[p] ELSE new
    BY <2>1 DEF Exists
  <2>4. DOMAIN proposals' = DOMAIN proposals \cup {n}
    BY <2>1
  <2> QED BY <1>0, <1>2, <2>1, <2>2, <2>3, <2>4 DEF GovernanceInv, ExecutedAfterEnd
<1>4. ASSUME NEW p \in Proposals, ExecuteProposal(p) PROVE GovernanceInv'
  <2>1. /\ proposals' = [proposals EXCEPT ![p].executed = TRUE] /\ p \in DOMAIN proposals
        /\ UNCHANGED <<now, vp_snapshot, has_voted, moved>> /\ proposals[p].end_time < now
    BY <1>0, <1>4 DEF ExecuteProposal, Exists, ledgerVars, Ballots
  <2>2. /\ DOMAIN proposals' = DOMAIN proposals /\ proposals'[p] \in Ballots
        /\ proposals'[p].end_time = proposals[p].end_time
        /\ \A q \in DOMAIN proposals : q # p => proposals'[q] = proposals[q]
    BY <1>0, <2>1 DEF Ballots
  <2> QED BY <1>0, <1>2, <2>1, <2>2 DEF GovernanceInv, ExecutedAfterEnd
<1>5. ASSUME NEW p \in Proposals, NEW a \in Accounts, SnapshotVotingPower(p, a)
      PROVE  GovernanceInv'
  <2>1. /\ UNCHANGED <<now, proposals, has_voted, moved>>
        /\ vp_snapshot' = [vp_snapshot EXCEPT ![p] = Registered(@, a)]
    BY <1>5 DEF SnapshotVotingPower, ledgerVars
  <2>2. a \in Holders /\ balance[a] \in Nat
    BY <1>0 DEF Holders
  <2>3. ASSUME NEW q \in Proposals
        PROVE  /\ DOMAIN vp_snapshot'[q] \subseteq Accounts
               /\ \A b \in DOMAIN vp_snapshot'[q] : vp_snapshot'[q][b] \in Nat
    <3>1. /\ DOMAIN vp_snapshot[q] \subseteq Accounts
          /\ \A b \in DOMAIN vp_snapshot[q] : vp_snapshot[q][b] \in Nat
      BY DEF GovernanceInv, GovernanceTypeOK
    <3>2. CASE q # p
      BY <2>1, <3>1, <3>2
    <3>3. CASE q = p /\ q \in DOMAIN vp_snapshot
      <4>1. vp_snapshot'[q] = Registered(vp_snapshot[q], a)
        BY <2>1, <3>3
      <4> QED BY <2>2, <3>1, <4>1 DEF Registered
    <3>4. CASE q \notin DOMAIN vp_snapshot
      BY <2>1, <3>1, <3>4
    <3> QED BY <3>2, <3>3, <3>4
  <2> QED BY <2>1, <2>3 DEF GovernanceInv, GovernanceTypeOK, ExecutedAfterEnd
<1>6. ASSUME NEW p \in Proposals, NEW a \in Accounts, NEW f \in BOOLEAN, CastVote(p, a, f)
      PROVE  GovernanceInv'
  <2>1. /\ p \in DOMAIN proposals /\ UNCHANGED <<now, vp_snapshot, moved>>
        /\ a \in DOMAIN vp_snapshot[p]
        /\ has_voted' = [has_voted EXCEPT ![p] = @ \cup {a}]
        /\ \/ proposals' = [proposals EXCEPT ![p].votes_for = @ + vp_snapshot[p][a]]
           \/ proposals' = [proposals EXCEPT ![p].votes_against = @ + vp_snapshot[p][a]]
    BY <1>6 DEF CastVote, Voting, Exists, ledgerVars
  <2>2. vp_snapshot[p][a] \in Nat /\ proposals[p] \in Ballots
    BY <1>0, <2>1 DEF GovernanceInv, GovernanceTypeOK
  <2>3. /\ DOMAIN proposals' = DOMAIN proposals
        /\ \A q \in DOMAIN proposals : q # p => proposals'[q] = proposals[q]
    BY <2>1
  <2>4. /\ proposals'[p] \in Ballots /\ proposals'[p].end_time = proposals[p].end_time
        /\ proposals'[p].executed = proposals[p].executed
    <3>1. proposals[p].votes_for + vp_snapshot[p][a] \in Nat
          /\ proposals[p].votes_against + vp_snapshot[p][a] \in Nat
      BY <2>2 DEF Ballots
    <3>2. \/ proposals'[p] = [proposals[p] EXCEPT !.votes_for = @ + vp_snapshot[p][a]]
          \/ proposals'[p] = [proposals[p] EXCEPT !.votes_against = @ + vp_snapshot[p][a]]
      BY <2>1
    <3> QED BY <2>2, <3>1, <3>2 DEF Ballots
  <2>5. \A q \in Proposals : has_voted'[q] \subseteq Accounts
    <3>1. \A q \in Proposals : has_voted[q] \subseteq Accounts
      BY DEF GovernanceInv, GovernanceTypeOK
    <3> QED BY <2>1, <3>1
  <2> QED BY <1>0, <2>1, <2>3, <2>4, <2>5
          DEF GovernanceInv, GovernanceTypeOK, ExecutedAfterEnd, Ballots
<1>7. ASSUME NEW a \in Accounts, NEW b \in Accounts, MoveVotes(a, b, 1) PROVE GovernanceInv'
  BY <1>7 DEF MoveVotes, Send, GovernanceInv, GovernanceTypeOK, ExecutedAfterEnd, Proposals
<1>8. CASE EscrowNext /\ UNCHANGED <<multiSigVars, governanceVars, delegationVars, adviceVars>>
  <2>1. UNCHANGED now
    BY <1>8 DEF EscrowNext, Opening, Closing, TakeBack, CreateShare, FundMilestone,
       ReleaseMilestone, CreateMilestone, LockFunds, CompleteMilestone, DisputeDeposit, Freeze,
       Unfreeze, DisputeRelease, RecoveryDeposit, RecoveryRelease, EmergencyRecover,
       ExpiringDeposit, ExpiringRelease, Reclaim, Donate, ReleaseToCampaign, Lock, Withdraw,
       WithdrawInTime, Refund, RecordPayment, RecordDonation, ProcessRefund,
       ProcessRecordedRefund, LockQuote, ExecuteQuote, TakeIn, PayOut, Store, ledgerVars
  <2> QED BY <1>0, <1>1, <1>8, <2>1
<1>9. CASE MultiSigNext /\ UNCHANGED <<escrowVars, governanceVars, delegationVars, adviceVars>>
  <2>1. UNCHANGED now
    BY <1>9 DEF MultiSigNext, AddSigner, ProposePayment, Approve, ExecutePayment, ledgerVars
  <2> QED BY <1>0, <1>1, <1>9, <2>1
<1>10. CASE DelegationNext /\ UNCHANGED <<escrowVars, multiSigVars, governanceVars, adviceVars>>
  <2>1. UNCHANGED now
    BY <1>10 DEF DelegationNext, SetVotingPower, Delegate, ClearDelegation, ledgerVars
  <2> QED BY <1>0, <1>1, <1>10, <2>1
<1>11. CASE Network /\ UNCHANGED <<escrowVars, multiSigVars, governanceVars, delegationVars, adviceVars>>
  <2>1. now' \in Nat /\ now' >= now
    BY <1>0, <1>11 DEF Network, CloseLedger, Send
  <2> QED BY <1>1, <1>11, <2>1
<1>12. CASE AdviceNext /\ UNCHANGED <<escrowVars, multiSigVars, governanceVars, delegationVars>>
  BY <1>0, <1>1, <1>12, AdviceApart
<1>13. CASE UNCHANGED contractVars
  BY <1>0, <1>1, <1>13 DEF contractVars, ledgerVars
<1> QED
  BY <1>3, <1>4, <1>5, <1>6, <1>7, <1>8, <1>9, <1>10, <1>11, <1>12, <1>13
  DEF ContractNext, GovernanceNext

\* The invariant of the proposals holds in every reachable state.
THEOREM GovernanceInvariant == ContractSpec => []GovernanceInv
<1>1. ContractInit => GovernanceInv
  <2> SUFFICES ASSUME ContractInit PROVE GovernanceInv
    OBVIOUS
  <2>1. /\ proposals = << >> /\ moved = {} /\ has_voted = [p \in Proposals |-> {}]
        /\ vp_snapshot = [p \in Proposals |-> << >>]
    BY DEF ContractInit, GovernanceInit
  <2>2. DOMAIN proposals = {} /\ \A p \in Proposals : DOMAIN vp_snapshot[p] = {}
    BY <2>1
  <2> QED BY <2>1, <2>2 DEF GovernanceInv, GovernanceTypeOK, ExecutedAfterEnd
<1> QED BY <1>1, GovernanceKeeps, EscrowInvariant, PTL DEF ContractSpec

\* No vote and no call changes a proposal that has been decided: it is executed
\* after its voting period, and the period never opens again.
THEOREM DecidedForGood == ContractSpec => DecisionFinal
<1>1. ASSUME GovernanceInv, EscrowInv, [ContractNext]_contractVars,
             NEW p \in DOMAIN proposals, proposals[p].executed
      PROVE  proposals'[p] = proposals[p]
  <2>1. /\ proposals[p].end_time < now /\ now \in Nat /\ proposals[p] \in Ballots
        /\ proposals[p].end_time \in Nat
    BY <1>1 DEF GovernanceInv, ExecutedAfterEnd, GovernanceTypeOK, EscrowInv, EntryShape, Ballots
  <2>2. CASE UNCHANGED proposals
    BY <2>2
  <2>3. ASSUME NEW d \in Durations, CreateProposal(d) PROVE proposals'[p] = proposals[p]
    BY <2>3 DEF CreateProposal, Exists
  <2>4. ASSUME NEW q \in Proposals, ExecuteProposal(q) PROVE proposals'[p] = proposals[p]
    BY <1>1, <2>4 DEF ExecuteProposal
  <2>5. ASSUME NEW q \in Proposals, NEW a \in Accounts, NEW f \in BOOLEAN, CastVote(q, a, f)
        PROVE  proposals'[p] = proposals[p]
    <3>1. q # p
      BY <2>1, <2>5 DEF CastVote, Voting
    <3> QED BY <2>5, <3>1 DEF CastVote
  <2> QED BY <1>1, <2>2, <2>3, <2>4, <2>5 DEF ContractNext, contractVars, governanceVars,
          GovernanceNext, SnapshotVotingPower, MoveVotes
<1>2. GovernanceInv /\ EscrowInv /\ [ContractNext]_contractVars
        => [\A p \in DOMAIN proposals :
              proposals[p].executed => proposals'[p] = proposals[p]]_<<ledgerVars, governanceVars>>
  BY <1>1
<1> QED BY <1>2, GovernanceInvariant, EscrowInvariant, PTL DEF ContractSpec, DecisionFinal

-----------------------------------------------------------------------------
\* What a user needs to be on the list twice, and what a pending upgrade says
\* about its version.
AuthorizationInv ==
  /\ authorizations \in [Accounts -> Nat]
  /\ \A u \in Accounts : authorizations[u] > 1 => u \in twice
  /\ dismissed \subseteq Accounts /\ RevokedIsOut

\* What a pending upgrade says of the version that it will publish.
UpgradeInv ==
  /\ VersionFollowsUpgrade
  /\ pending_upgrade = {} => pending_version = {}
  /\ \/ pending_upgrade = {}
     \/ \E w \in Wasms : pending_upgrade = {w} /\ (asked => pending_version = {w})
  /\ pending_version # {} /\ ~asked => mixed

\* The inductive invariant of the administration.
AdministrationInv == AuthorizationInv /\ UpgradeInv

\* Calls of the contracts other than IgnitionPayContract leave it alone.
LEMMA OthersKeepAdministration ==
  ContractNext => AdministrationNext \/ UNCHANGED administrationVars
BY DEF ContractNext, AdviceNext, adviceVars

\* Authorizing, revoking and all other calls keep who is on the list.
LEMMA AuthorizationKeeps ==
  AuthorizationInv /\ [ContractNext]_contractVars => AuthorizationInv'
<1> SUFFICES ASSUME AuthorizationInv, [ContractNext]_contractVars PROVE AuthorizationInv'
  OBVIOUS
<1>1. CASE UNCHANGED <<authorizations, dismissed, twice>>
  BY <1>1 DEF AuthorizationInv, RevokedIsOut
<1>2. ASSUME NEW u \in Accounts, Authorize(u) PROVE AuthorizationInv'
  <2>1. /\ authorizations' = [authorizations EXCEPT ![u] = @ + 1]
        /\ dismissed' = dismissed \ {u}
        /\ twice' = IF authorizations[u] > 0 THEN twice \cup {u} ELSE twice
    BY <1>2 DEF Authorize
  <2>2. authorizations' \in [Accounts -> Nat]
    BY <2>1 DEF AuthorizationInv
  <2>3. \A v \in Accounts : v # u => authorizations'[v] = authorizations[v]
    BY <2>1 DEF AuthorizationInv
  <2>4. authorizations'[u] = authorizations[u] + 1 /\ authorizations[u] \in Nat
    BY <2>1 DEF AuthorizationInv
  <2> QED BY <2>1, <2>2, <2>3, <2>4 DEF AuthorizationInv, RevokedIsOut
<1>3. ASSUME NEW u \in Accounts, Revoke(u) PROVE AuthorizationInv'
  <2>1. /\ authorizations' =
             [authorizations EXCEPT ![u] = IF @ > 0 THEN @ - 1 ELSE @]
        /\ dismissed' = dismissed \cup {u} /\ twice' = twice
    BY <1>3 DEF Revoke
  <2>2. authorizations[u] \in Nat
    BY DEF AuthorizationInv
  <2>3. /\ \A v \in Accounts : v # u => authorizations'[v] = authorizations[v]
        /\ authorizations'[u] = IF authorizations[u] > 0 THEN authorizations[u] - 1
                                ELSE authorizations[u]
    BY <2>1 DEF AuthorizationInv
  <2>4. authorizations' \in [Accounts -> Nat]
    BY <2>1, <2>2 DEF AuthorizationInv
  <2> QED BY <2>1, <2>2, <2>3, <2>4 DEF AuthorizationInv, RevokedIsOut
<1>4. CASE AdministrationNext
  BY <1>1, <1>2, <1>3, <1>4 DEF AdministrationNext, SetKycStatus, TransferAdmin, Upgrade,
     UpgradeWithVersion, ApplyUpgrade, authorizationVars
<1>5. CASE UNCHANGED administrationVars
  BY <1>1, <1>5 DEF administrationVars, authorizationVars
<1> QED BY <1>4, <1>5, OthersKeepAdministration DEF contractVars, adviceVars

\* Asking for an upgrade, applying it and all other calls keep the version.
LEMMA UpgradeKeeps == UpgradeInv /\ [ContractNext]_contractVars => UpgradeInv'
<1> SUFFICES ASSUME UpgradeInv, [ContractNext]_contractVars PROVE UpgradeInv'
  OBVIOUS
<1>1. CASE UNCHANGED upgradeVars
  BY <1>1 DEF UpgradeInv, VersionFollowsUpgrade, upgradeVars
<1>2. ASSUME NEW w \in Wasms, Upgrade(w) PROVE UpgradeInv'
  BY <1>2 DEF Upgrade, UpgradeInv, VersionFollowsUpgrade
<1>3. ASSUME NEW w \in Wasms, UpgradeWithVersion(w) PROVE UpgradeInv'
  BY <1>3 DEF UpgradeWithVersion, UpgradeInv, VersionFollowsUpgrade
<1>4. CASE ApplyUpgrade
  <2>1. PICK w \in Wasms : pending_upgrade = {w} /\ (asked => pending_version = {w})
    BY <1>4 DEF ApplyUpgrade, UpgradeInv
  <2>2. /\ pending_upgrade' = {} /\ pending_version' = {}
        /\ version' = IF pending_version = {} THEN version
                      ELSE CHOOSE v \in pending_version : TRUE
        /\ announced' = IF asked THEN CHOOSE v \in pending_upgrade : TRUE ELSE announced
        /\ mixed' = (mixed /\ ~asked) /\ asked' = asked
    BY <1>4 DEF ApplyUpgrade
  <2>3. CASE asked
    <3>1. version' = w /\ announced' = w
      BY <2>1, <2>2, <2>3
    <3> QED BY <2>2, <3>1 DEF UpgradeInv, VersionFollowsUpgrade
  <2>4. CASE ~asked
    BY <2>2, <2>4 DEF UpgradeInv, VersionFollowsUpgrade
  <2> QED BY <2>3, <2>4
<1>5. CASE AdministrationNext
  BY <1>1, <1>2, <1>3, <1>4, <1>5 DEF AdministrationNext, AdminCall, SetKycStatus, Authorize,
     Revoke, TransferAdmin
<1>6. CASE UNCHANGED administrationVars
  BY <1>1, <1>6 DEF administrationVars
<1> QED BY <1>5, <1>6, OthersKeepAdministration DEF contractVars, adviceVars

\* A revoked user is authorized only after a second authorization, and the
\* version published is that of the last upgrade that gave one, unless a request
\* without a version took the place of one with a version.
THEOREM AdministrationStands == ContractSpec => []AdministrationHolds
<1>1. ContractInit => AdministrationInv
  BY DEF ContractInit, AdministrationInit, AdministrationInv, AuthorizationInv, UpgradeInv,
         RevokedIsOut, VersionFollowsUpgrade
<1>2. AdministrationInv /\ [ContractNext]_contractVars => AdministrationInv'
  BY AuthorizationKeeps, UpgradeKeeps DEF AdministrationInv
<1>3. AdministrationInv => AdministrationHolds
  BY DEF AdministrationInv, AuthorizationInv, UpgradeInv, AdministrationHolds
<1> QED BY <1>1, <1>2, <1>3, PTL DEF ContractSpec

-----------------------------------------------------------------------------
\* The observations of the price oracle.
Observations == [oracle : Sources, price : Prices, ledger : Nat]

\* Every set of naturals that is not empty has a least element.
LEMMA LeastNatural ==
  ASSUME NEW T, T \subseteq Nat, T # {}
  PROVE  \E n \in T : \A m \in T : n <= m
<1>1. PICK n \in T : \A m \in T : ~(<<m, n>> \in OpToRel(<, Nat))
  BY NatLessThanWellFounded, WFMin
<1>2. ASSUME NEW m \in T PROVE n <= m
  <2>1. m \in Nat /\ n \in Nat
    OBVIOUS
  <2>2. ~(m < n)
    BY <1>1, <2>1 DEF OpToRel
  <2> QED BY <2>1, <2>2
<1> QED BY <1>2

\* A part of a finite set has a number of elements.
LEMMA CountOfPart ==
  ASSUME NEW S, IsFiniteSet(S)
  PROVE  \A T \in SUBSET S : Cardinality(T) \in Nat
BY FS_Subset, FS_CardinalityType

\* Observed prices are numbers up to the highest.
LEMMA PriceTyped ==
  ASSUME NEW S, S \subseteq Observations
  PROVE  \A x \in S : x.price \in Nat /\ x.price <= MaxPrice
<1> SUFFICES ASSUME NEW x \in S PROVE x.price \in Nat /\ x.price <= MaxPrice
  OBVIOUS
<1>1. x.price \in Prices
  BY DEF Observations
<1>2. Prices \subseteq 0 .. MaxPrice
  BY OraclesAssumption DEF OraclesAssumption
<1>3. MaxPrice \in Nat
  BY OraclesAssumption DEF OraclesAssumption
<1>4. x.price \in 0 .. MaxPrice
  BY <1>1, <1>2
<1> QED BY <1>3, <1>4

\* A sorted list has a price at each of its indices.
LEMMA AtIndexExists ==
  ASSUME NEW S, S \subseteq Observations, IsFiniteSet(S),
         NEW i \in Nat, i < Cardinality(S)
  PROVE  /\ AtIndex(S, i) \in {x.price : x \in S}
         /\ Cardinality({x \in S : x.price < AtIndex(S, i)}) <= i
         /\ i < Cardinality({x \in S : x.price <= AtIndex(S, i)})
<1> DEFINE upTo(p) == {x \in S : x.price <= p}
           below(p) == {x \in S : x.price < p}
           T == {p \in Nat : i < Cardinality(upTo(p))}
<1>1. \A x \in S : x.price \in Nat /\ x.price <= MaxPrice
  BY PriceTyped
<1>0. MaxPrice \in Nat /\ \A U \in SUBSET S : Cardinality(U) \in Nat
  BY OraclesAssumption, CountOfPart DEF OraclesAssumption
<1>2. MaxPrice \in T
  <2>1. upTo(MaxPrice) = S
    BY <1>1
  <2> QED BY <1>0, <2>1
<1>3. PICK p \in T : \A q \in T : p <= q
  <2> HIDE DEF T
  <2>1. T \subseteq Nat
    BY DEF T
  <2> QED BY <1>2, <2>1, LeastNatural
<1>4. p \in Nat /\ i < Cardinality(upTo(p))
  OBVIOUS
<1>5. ASSUME p # 0 PROVE below(p) = upTo(p - 1)
  BY <1>1, <1>4, <1>5
<1>6. Cardinality(below(p)) <= i
  <2>1. CASE p = 0
    <3>1. below(p) = {}
      BY <1>1, <2>1
    <3> QED BY <3>1, FS_EmptySet
  <2>2. CASE p # 0
    <3>1. p - 1 \in Nat /\ p - 1 < p
      BY <1>4, <2>2
    <3>2. ~(i < Cardinality(upTo(p - 1)))
      BY <1>3, <3>1
    <3>3. Cardinality(upTo(p - 1)) \in Nat
      <4>1. upTo(p - 1) \subseteq S
        OBVIOUS
      <4> HIDE DEF upTo
      <4> QED BY <1>0, <4>1
    <3> HIDE DEF upTo, below
    <3> QED BY <1>5, <2>2, <3>2, <3>3
  <2> QED BY <2>1, <2>2
<1>7. p \in {x.price : x \in S}
  <2> SUFFICES ASSUME \A x \in S : x.price # p PROVE FALSE
    OBVIOUS
  <2>1. below(p) = upTo(p)
    BY <1>1, <1>4
  <2>2. Cardinality(below(p)) \in Nat
    <3>1. below(p) \subseteq S
      OBVIOUS
    <3> HIDE DEF below
    <3> QED BY <1>0, <3>1
  <2>3. p \in Nat /\ i < Cardinality(upTo(p))
    BY <1>4
  <2> HIDE DEF upTo, below, T
  <2> QED BY <1>6, <2>1, <2>2, <2>3
<1> HIDE DEF T
<1> QED BY <1>4, <1>6, <1>7 DEF AtIndex

\* Counting: a majority of S leaves less than half of it outside.
LEMMA MajorityDecides ==
  ASSUME NEW S, S \subseteq Observations, IsFiniteSet(S),
         2 * Cardinality({x \in S : Fair(x)}) > Cardinality(S)
  PROVE  AtIndex(S, Cardinality(S) \div 2) \in Lowest .. Highest
<1> DEFINE n == Cardinality(S)
           i == n \div 2
           m == AtIndex(S, i)
           fair == {x \in S : Fair(x)}
           below == {x \in S : x.price < m}
           upTo == {x \in S : x.price <= m}
<1>1. n \in Nat /\ IsFiniteSet(fair) /\ Cardinality(fair) \in Nat
      /\ Cardinality(fair) <= n
  BY FS_Subset, FS_CardinalityType
<1>2. n > 0 /\ i \in Nat /\ i < n
  BY <1>1
<1>3. m \in {x.price : x \in S} /\ Cardinality(below) <= i /\ i < Cardinality(upTo)
  BY <1>2, AtIndexExists
<1>4. m \in Nat /\ Lowest \in Nat /\ Highest \in Nat /\ \A x \in S : x.price \in Nat
  <2>1. \A x \in S : x.price \in Nat
    BY PriceTyped
  <2>2. Lowest \in Nat /\ Highest \in Nat
    BY OraclesAssumption DEF OraclesAssumption
  <2> HIDE DEF m
  <2> QED BY <1>3, <2>1, <2>2
<1>5. IsFiniteSet(below) /\ Cardinality(below) \in Nat
      /\ IsFiniteSet(upTo) /\ Cardinality(upTo) \in Nat
  BY FS_Subset, FS_CardinalityType
<1> HIDE DEF m
<1>6. ASSUME m < Lowest PROVE FALSE
  <2>1. fair \cap upTo = {}
    BY <1>4, <1>6 DEF Fair
  <2>2. Cardinality(fair \cup upTo) = Cardinality(fair) + Cardinality(upTo)
    <3>1. Cardinality(fair \cup upTo)
            = Cardinality(fair) + Cardinality(upTo) - Cardinality(fair \cap upTo)
      BY ONLY <1>1, <1>5, FS_Union
    <3>2. Cardinality(fair \cap upTo) = 0
      BY <2>1, FS_EmptySet
    <3> QED BY <1>1, <1>5, <3>1, <3>2
  <2>3. Cardinality(fair \cup upTo) <= n
    <3>1. fair \cup upTo \in SUBSET S
      OBVIOUS
    <3> QED BY <3>1, FS_Subset
  <2> QED BY <1>1, <1>2, <1>3, <1>5, <2>2, <2>3
<1>7. ASSUME m > Highest PROVE FALSE
  <2>1. fair \subseteq below
    BY <1>4, <1>7 DEF Fair
  <2>2. Cardinality(fair) <= Cardinality(below)
    BY <1>5, <2>1, FS_Subset
  <2> QED BY <1>1, <1>2, <1>3, <1>5, <2>2
<1> QED BY <1>4, <1>6, <1>7 DEF m

\* Time never runs backwards.
LEMMA TimeGoesOn == EscrowInv /\ [ContractNext]_contractVars => now' \in Nat /\ now' >= now
<1> SUFFICES ASSUME EscrowInv, [ContractNext]_contractVars PROVE now' \in Nat /\ now' >= now
  OBVIOUS
<1>1. now \in Nat
  BY DEF EscrowInv, EntryShape
<1>2. CASE UNCHANGED now
  BY <1>1, <1>2
<1>3. EscrowNext => UNCHANGED now
  BY DEF EscrowNext, Opening, Closing, TakeBack, CreateShare, FundMilestone,
     ReleaseMilestone, CreateMilestone, LockFunds, CompleteMilestone, DisputeDeposit, Freeze,
     Unfreeze, DisputeRelease, RecoveryDeposit, RecoveryRelease, EmergencyRecover,
     ExpiringDeposit, ExpiringRelease, Reclaim, Donate, ReleaseToCampaign, Lock, Withdraw,
     WithdrawInTime, Refund, RecordPayment, RecordDonation, ProcessRefund,
     ProcessRecordedRefund, LockQuote, ExecuteQuote, TakeIn, PayOut, Store, ledgerVars
<1>4. MultiSigNext \/ GovernanceNext \/ DelegationNext => UNCHANGED now
  BY DEF MultiSigNext, AddSigner, ProposePayment, Approve, ExecutePayment, GovernanceNext,
     CreateProposal, ExecuteProposal, SnapshotVotingPower, CastVote, MoveVotes, Send,
     DelegationNext, SetVotingPower, Delegate, ClearDelegation, ledgerVars
<1>5. CASE Network
  BY <1>1, <1>5 DEF Network, CloseLedger, Send
<1>6. CASE UNCHANGED contractVars
  BY <1>2, <1>6 DEF contractVars, ledgerVars
<1> QED BY <1>2, <1>3, <1>4, <1>5, <1>6, AdviceApart DEF ContractNext

\* The prices collected are finitely many, none is from the future, and the feed
\* remembers the last one it forwarded here unless it was busy elsewhere.
OraclesInv ==
  /\ IsFiniteSet(observations) /\ observations \subseteq Observations
  /\ \A x \in observations : x.ledger <= now
  /\ ~elsewhere =>
       \A x \in FeedPrices :
         (\A y \in FeedPrices : y.ledger <= x.ledger) => last_price = {x.price}

\* The median of the fresh prices is fair when more than half of them are.
LEMMA MajorityIsFair == OraclesInv => MedianIsFair
<1> SUFFICES ASSUME OraclesInv,
                    2 * Cardinality({x \in Fresh : Fair(x)}) > Cardinality(Fresh)
             PROVE  Median \in Lowest .. Highest
  BY DEF MedianIsFair
<1>1. Fresh \subseteq observations
  BY DEF Fresh
<1>2. IsFiniteSet(Fresh) /\ Fresh \subseteq Observations
  BY <1>1, FS_Subset DEF OraclesInv
<1> QED BY <1>2, MajorityDecides DEF Median

\* Every step keeps the observations and moves the feed no further than allowed.
LEMMA OraclesKeep ==
  EscrowInv /\ OraclesInv /\ [ContractNext]_contractVars => OraclesInv' /\ FeedMovesSlowly
<1> SUFFICES ASSUME EscrowInv, OraclesInv, [ContractNext]_contractVars
             PROVE  OraclesInv' /\ FeedMovesSlowly
  OBVIOUS
<1>1. now \in Nat
  BY DEF EscrowInv, EntryShape
<1>2. ASSUME UNCHANGED <<observations, last_price, elsewhere>>, now' \in Nat, now' >= now
      PROVE  OraclesInv' /\ FeedMovesSlowly
  <2>1. \A x \in observations : x.ledger \in Nat
    BY DEF OraclesInv, Observations
  <2> QED BY <1>1, <1>2, <2>1 DEF OraclesInv, FeedPrices, FeedMovesSlowly
<1>3. ASSUME NEW o \in Sources, NEW price \in Prices, Push(o, price), UNCHANGED now
      PROVE  /\ IsFiniteSet(observations') /\ observations' \subseteq Observations
             /\ \A x \in observations' : x.ledger <= now'
  <2> DEFINE new == [oracle |-> o, price |-> price, ledger |-> now]
  <2>1. observations' = observations \cup {new}
    BY <1>3 DEF Push
  <2>2. new \in Observations /\ new.ledger <= now
    BY <1>1 DEF Observations
  <2>3. IsFiniteSet(observations \cup {new})
    BY FS_AddElement DEF OraclesInv
  <2> HIDE DEF new
  <2> QED BY <1>3, <2>1, <2>2, <2>3 DEF OraclesInv
<1>4. ASSUME NEW o \in Accounts, NEW price \in Prices, PushPrice(o, price)
      PROVE  OraclesInv' /\ FeedMovesSlowly
  <2>1. UNCHANGED <<now, last_price, elsewhere>> /\ Push(o, price)
    BY <1>4 DEF PushPrice, OracleCall, FeedUntouched, ledgerVars
  <2>2. o \in Sources /\ o # Feed
    BY OraclesAssumption DEF OraclesAssumption, Sources
  <2>3. FeedPrices' = FeedPrices
    BY <2>1, <2>2 DEF FeedPrices, Push
  <2> QED BY <1>3, <2>1, <2>2, <2>3 DEF OraclesInv, FeedMovesSlowly
<1>5. ASSUME NEW p \in Providers, NEW price \in Prices, UpdatePrice(p, price)
      PROVE  OraclesInv' /\ FeedMovesSlowly
  <2> DEFINE new == [oracle |-> Feed, price |-> price, ledger |-> now]
  <2>1. /\ UNCHANGED now /\ last_price' = {price} /\ Push(Feed, price)
        /\ \A last \in last_price : Within(price, last, max_deviation)
    BY <1>5 DEF UpdatePrice, Accepted, OracleCall, ledgerVars
  <2>2. Feed \in Sources
    BY DEF Sources
  <2>3. /\ observations' = observations \cup {new}
        /\ \A x \in FeedPrices : x.ledger < now
    <3>1. \A x \in observations : x.ledger \in Nat /\ x.ledger <= now
      BY DEF OraclesInv, Observations
    <3> QED BY <1>1, <2>1, <3>1 DEF Push, FeedPrices
  <2>4. new.ledger = now /\ new.price = price /\ new.oracle = Feed
    OBVIOUS
  <2> HIDE DEF new
  <2>5. FeedPrices' = FeedPrices \cup {new}
    BY <2>3, <2>4 DEF FeedPrices
  <2>6. \A x \in FeedPrices' :
          (\A y \in FeedPrices' : y.ledger <= x.ledger) => last_price' = {x.price}
    <3> SUFFICES ASSUME NEW x \in FeedPrices', \A y \in FeedPrices' : y.ledger <= x.ledger
                 PROVE  x = new
      BY <2>1, <2>4
    <3>1. now <= x.ledger
      BY <2>4, <2>5
    <3>2. x \in FeedPrices => x.ledger < now /\ x.ledger \in Nat
      BY <2>3 DEF FeedPrices, OraclesInv, Observations
    <3> QED BY <1>1, <2>5, <3>1, <3>2
  <2>7. FeedMovesSlowly
    BY <2>1, <2>4, <2>5 DEF FeedMovesSlowly, OraclesInv
  <2> QED BY <1>3, <2>1, <2>2, <2>6, <2>7 DEF OraclesInv
<1>6. ASSUME NEW p \in Providers, NEW price \in Prices, UpdatePriceElsewhere(p, price)
      PROVE  OraclesInv' /\ FeedMovesSlowly
  <2>1. UNCHANGED <<now, observations>> /\ elsewhere' = TRUE
    BY <1>6 DEF UpdatePriceElsewhere, Accepted, OracleCall, ledgerVars
  <2> QED BY <2>1 DEF OraclesInv, FeedMovesSlowly, FeedPrices
<1>7. CASE OraclesNext
  <2>1. UNCHANGED now
    BY <1>7 DEF OraclesNext, AddOracle, RemoveOracle, PushPrice, SetMaxStaleness,
       SetMaxDeviation, RegisterProvider, UnregisterProvider, UpdatePrice,
       UpdatePriceElsewhere, Accepted, OracleCall, ledgerVars
  <2> QED BY <1>1, <1>2, <1>4, <1>5, <1>6, <1>7, <2>1 DEF OraclesNext, AddOracle, RemoveOracle,
             SetMaxStaleness, SetMaxDeviation, RegisterProvider, UnregisterProvider,
             FeedUntouched
<1>8. CASE UNCHANGED oraclesVars
  <2>1. now' \in Nat /\ now' >= now
    BY <1>1, TimeGoesOn
  <2> QED BY <1>2, <1>8, <2>1 DEF oraclesVars
<1> QED BY <1>7, <1>8 DEF ContractNext, AdviceNext, contractVars, adviceVars

\* The median of the fresh prices is fair whenever more than half of them are,
\* and the feed moves no faster than the deviation allowed.
THEOREM MinorityMovesNothing == ContractSpec => PricesHold
<1>1. ContractInit => OraclesInv
  BY FS_EmptySet DEF ContractInit, OraclesInit, OraclesInv, FeedPrices
<1>2. EscrowInv /\ OraclesInv /\ [ContractNext]_contractVars => OraclesInv'
  BY OraclesKeep
<1>3. EscrowInv /\ OraclesInv /\ OraclesInv' /\ [ContractNext]_contractVars
        => [MedianIsFair' /\ FeedMovesSlowly]_<<ledgerVars, oraclesVars>>
  <2>1. OraclesInv' => MedianIsFair'
    BY MajorityIsFair, PTL
  <2> QED BY <2>1, OraclesKeep
<1> QED BY <1>1, <1>2, <1>3, EscrowInvariant, PTL DEF ContractSpec, PricesHold

-----------------------------------------------------------------------------
\* The calls of the oracle contracts keep the types of their storage.
LEMMA OraclesTyped == OraclesTypeOK /\ now \in Nat /\ [ContractNext]_contractVars => OraclesTypeOK'
<1> SUFFICES ASSUME OraclesTypeOK, now \in Nat, [ContractNext]_contractVars PROVE OraclesTypeOK'
  OBVIOUS
<1> USE DEF OraclesTypeOK
<1>1. CASE UNCHANGED oraclesVars
  BY <1>1 DEF oraclesVars
<1>2. ASSUME NEW o \in Sources, AddOracle(o) \/ RemoveOracle(o) PROVE OraclesTypeOK'
  <2>1. oracles' = [oracles EXCEPT ![o] = oracles'[o]] /\ oracles'[o] \in Nat
    BY <1>2 DEF AddOracle, RemoveOracle
  <2> QED BY <1>2, <2>1 DEF AddOracle, RemoveOracle, FeedUntouched
<1>3. ASSUME NEW o \in Sources, NEW price \in Prices, Push(o, price)
      PROVE  UNCHANGED <<oracles, max_staleness>>
             /\ observations' \subseteq [oracle : Sources, price : Prices, ledger : Nat]
  BY <1>3 DEF Push
<1>4. ASSUME NEW o \in Accounts, NEW price \in Prices, PushPrice(o, price) PROVE OraclesTypeOK'
  BY <1>3, <1>4 DEF PushPrice, FeedUntouched, Sources
<1>5. ASSUME NEW p \in Providers, NEW price \in Prices,
             UpdatePrice(p, price) \/ UpdatePriceElsewhere(p, price)
      PROVE  OraclesTypeOK'
  BY <1>3, <1>5 DEF UpdatePrice, UpdatePriceElsewhere, Accepted, Sources
<1>6. CASE OraclesNext
  BY <1>2, <1>4, <1>5, <1>6 DEF OraclesNext, SetMaxStaleness, SetMaxDeviation, RegisterProvider,
     UnregisterProvider, FeedUntouched
<1> QED BY <1>1, <1>6 DEF ContractNext, AdviceNext, contractVars, adviceVars

\* The calls of IgnitionPayContract keep the types of its storage.
LEMMA AdministrationTyped ==
  AdministrationTypeOK /\ now \in Nat /\ [ContractNext]_contractVars => AdministrationTypeOK'
<1> SUFFICES ASSUME AdministrationTypeOK, now \in Nat, [ContractNext]_contractVars
             PROVE  AdministrationTypeOK'
  OBVIOUS
<1> USE AdministrationAssumption DEF AdministrationTypeOK
<1>1. CASE UNCHANGED administrationVars
  BY <1>1 DEF administrationVars, authorizationVars, upgradeVars
<1>2. ASSUME AdminCall
      PROVE  /\ rate_limit' \in [Accounts -> Nat \X (0 .. MaxCalls)]
             /\ UNCHANGED <<admin, upgradeVars>>
  <2> DEFINE made == IF rate_limit[admin][1] = now THEN rate_limit[admin][2] ELSE 0
  <2>1. made \in 0 .. MaxCalls /\ made < MaxCalls
    BY <1>2 DEF AdminCall, CheckRateLimit
  <2>2. rate_limit' = [rate_limit EXCEPT ![admin] = <<now, made + 1>>]
    BY <1>2 DEF AdminCall, CheckRateLimit
  <2>3. <<now, made + 1>> \in Nat \X (0 .. MaxCalls)
    BY <2>1
  <2> HIDE DEF made
  <2> QED BY <1>2, <2>2, <2>3 DEF AdminCall
<1>3. ASSUME NEW u \in Accounts, NEW c \in BOOLEAN, SetKycStatus(u, c)
      PROVE  AdministrationTypeOK'
  BY <1>2, <1>3 DEF SetKycStatus, upgradeVars
<1>4. ASSUME NEW u \in Accounts, Authorize(u) \/ Revoke(u) PROVE AdministrationTypeOK'
  <2>1. /\ authorizations' = [authorizations EXCEPT ![u] = authorizations'[u]]
        /\ authorizations'[u] \in Nat
    BY <1>4 DEF Authorize, Revoke
  <2>2. kyc_status' = kyc_status /\ dismissed' \subseteq Accounts /\ twice' \subseteq Accounts
    BY <1>4 DEF Authorize, Revoke
  <2> QED BY <1>2, <1>4, <2>1, <2>2 DEF Authorize, Revoke, upgradeVars
<1>5. ASSUME NEW u \in Accounts, TransferAdmin(u) PROVE AdministrationTypeOK'
  BY <1>5 DEF TransferAdmin, authorizationVars, upgradeVars
<1>6. ASSUME NEW w \in Wasms, Upgrade(w) \/ UpgradeWithVersion(w) PROVE AdministrationTypeOK'
  BY <1>6 DEF Upgrade, UpgradeWithVersion, authorizationVars
<1>7. CASE ApplyUpgrade
  BY <1>7 DEF ApplyUpgrade, authorizationVars
<1>8. CASE AdministrationNext
  BY <1>3, <1>4, <1>5, <1>6, <1>7, <1>8 DEF AdministrationNext
<1> QED BY <1>1, <1>8, OthersKeepAdministration DEF contractVars, adviceVars

\* Setting powers and delegating keep the types.
LEMMA DelegationTyped == DelegationTypeOK /\ [ContractNext]_contractVars => DelegationTypeOK'
<1> SUFFICES ASSUME DelegationTypeOK, [ContractNext]_contractVars PROVE DelegationTypeOK'
  OBVIOUS
<1>1. CASE DelegationNext
  BY <1>1, DelegationAssumption
  DEF DelegationTypeOK, DelegationNext, SetVotingPower, Delegate, ClearDelegation
<1>2. CASE UNCHANGED delegationVars
  BY <1>2 DEF DelegationTypeOK, delegationVars
<1> QED BY <1>1, <1>2 DEF ContractNext, contractVars

\* The storage of every contract keeps its types, for any values of the constants.
THEOREM ContractsTypeCorrect == ContractSpec => []ContractTypeOK
<1>1. ContractInit => OraclesTypeOK /\ AdministrationTypeOK /\ DelegationTypeOK
  <2> SUFFICES ASSUME ContractInit
               PROVE  OraclesTypeOK /\ AdministrationTypeOK /\ DelegationTypeOK
    OBVIOUS
  <2>1. OraclesTypeOK
    <3>1. OraclesInit
      BY DEF ContractInit
    <3>2. oracles \in [Sources -> Nat] /\ elsewhere \in BOOLEAN
      BY <3>1, Zenon DEF OraclesInit
    <3>3. observations = {} /\ providers = {} /\ last_price = {}
      BY <3>1 DEF OraclesInit
    <3>4. max_staleness \in Stalenesses /\ max_deviation \in Deviations
      BY <3>1, OraclesAssumption DEF OraclesInit
    <3> QED BY <3>2, <3>3, <3>4 DEF OraclesTypeOK
  <2>2. AdministrationTypeOK
    <3>1. AdministrationInit /\ 0 \in 0 .. MaxCalls
      BY AdministrationAssumption DEF ContractInit
    <3>2. rate_limit \in [Accounts -> Nat \X (0 .. MaxCalls)]
      BY <3>1 DEF AdministrationInit
    <3>3. authorizations \in [Accounts -> Nat] /\ admin \in Accounts
      BY <3>1, AdministrationAssumption DEF AdministrationInit
    <3>4. asked \in BOOLEAN /\ mixed \in BOOLEAN
      BY <3>1, Zenon DEF AdministrationInit
    <3>5. /\ {kyc_status, dismissed, twice, pending_upgrade, pending_version} = {{}}
          /\ {version, announced} = {FirstVersion}
      BY <3>1 DEF AdministrationInit
    <3> QED BY <3>2, <3>3, <3>4, <3>5 DEF AdministrationTypeOK
  <2>3. DelegationTypeOK
    BY DEF ContractInit, DelegationInit, DelegationTypeOK
  <2> QED BY <2>1, <2>2, <2>3
<1>2. EscrowInv => now \in Nat
  BY DEF EscrowInv, EntryShape
<1>3. EscrowInv /\ MultiSigInv /\ GovernanceInv /\ OraclesTypeOK /\ AdministrationTypeOK
        /\ DelegationTypeOK => ContractTypeOK
  BY DEF EscrowInv, EntryShape, Entries, Names, EscrowTypeOK, MultiSigInv, GovernanceInv,
         ContractTypeOK
<1> QED BY <1>1, <1>2, <1>3, OraclesTyped, AdministrationTyped, DelegationTyped, EscrowInvariant,
           MultiSigInvariant, GovernanceInvariant, PTL DEF ContractSpec

=============================================================================

---------------------------- MODULE TotalsProofs ----------------------------
(***************************************************************************)
(* For every number of accounts, entries, proposals and voters: the        *)
(* promises of the contracts that are about a sum. The escrow contracts    *)
(* hold what they owe on all open entries together; a tally is the sum of  *)
(* what its voters had registered and no more than the supply; the power   *)
(* of all voters is counted once among those who delegate to nobody.       *)
(*                                                                         *)
(* A step changes one or two terms of a sum, and the lemmas of Sums say by *)
(* how much the sum changes. The last part is also about walks: voters who *)
(* delegate never form a circle, so that every walk ends at a              *)
(* representative, and the voters are parted by where theirs does.         *)
(***************************************************************************)
EXTENDS ContractsProofs, Sums

-----------------------------------------------------------------------------
\* Escrow and distribution

\* What is due on an entry, on each id, and on all of them as Owed adds it up.
DueOf(e) == IF e.state \in {"active", "frozen"} THEN e.amount ELSE 0
Due(ent) == [i \in Ids |-> DueOf(ent[i])]
OwedIn(ent) == MapThenSumSet(LAMBDA i : ent[i].amount,
                             {i \in Ids : ent[i].state \in {"active", "frozen"}})

\* What is owed is the sum of what is due on each id, open or not.
LEMMA OwedIsTotal ==
  ASSUME NEW ent \in [Ids -> Entries]
  PROVE  OwedIn(ent) = Total(Due(ent), Ids)
<1> DEFINE O == {i \in Ids : ent[i].state \in {"active", "frozen"}}
<1> DEFINE f == [i \in Ids |-> ent[i].amount]
<1> DEFINE P(g) == g = [T \in SUBSET O |-> IF T = {} THEN 0
                          ELSE ent[CHOOSE x \in T : TRUE].amount + g[T \ {CHOOSE x \in T : TRUE}]]
<1>1. IsFiniteSet(O) /\ IsFiniteSet(Ids)
  BY EscrowAssumption, FS_Subset
<1>2. \A g : P(g) <=> Adds(g, f, O)
  <2> SUFFICES ASSUME NEW g PROVE P(g) <=> Adds(g, f, O)
    OBVIOUS
  <2>1. \A T \in SUBSET O : T # {} => f[Pick(T)] = ent[CHOOSE x \in T : TRUE].amount
    <3> SUFFICES ASSUME NEW T \in SUBSET O, T # {} PROVE f[Pick(T)] = ent[Pick(T)].amount
      BY DEF Pick
    <3> QED BY PickIn
  <2> HIDE DEF f
  <2> QED BY <2>1 DEF Adds, Pick
<1>3. OwedIn(ent) = (CHOOSE g : P(g))[O]
  BY DEF OwedIn, MapThenSumSet, MapThenFoldSet
<1>4. PICK h : Adds(h, f, O) /\ Total(f, O) = h[O]
  BY <1>1, TotalAdds
<1>5. \E g : P(g)
  <2> HIDE DEF P, f, O
  <2> QED BY <1>2, <1>4
<1> DEFINE c == CHOOSE g : P(g)
<1>6. P(c)
  BY <1>5
<1> HIDE DEF P, f, O, c
<1>7. Adds(c, f, O)
  BY <1>2, <1>6
<1>8. c[O] = h[O]
  BY <1>1, <1>4, <1>7, AddsAgree
<1>9. Total(f, O) = Total(Due(ent), Ids)
  <2>1. \A i \in Ids : ent[i].amount \in Nat
    BY DEF Entries
  <2> QED BY <1>1, <2>1, TotalSupport DEF f, O, Due, DueOf
<1> QED BY <1>3, <1>4, <1>8, <1>9 DEF c

\* The owed sum is the sum of the entries, in this state and in the next.
LEMMA OwedNow == Owed = OwedIn(entry) /\ Owed' = OwedIn(entry')
BY DEF Owed, OwedIn, Open, MapThenSumSet, MapThenFoldSet
\* Rewriting one entry changes what is owed by the difference of what is due.
LEMMA OwedChanges ==
  ASSUME entry \in [Ids -> Entries], NEW i \in Ids, NEW e \in Entries,
         entry' = [entry EXCEPT ![i] = e]
  PROVE  /\ Owed \in Nat /\ Owed' \in Nat
         /\ DueOf(entry[i]) \in Nat /\ DueOf(e) \in Nat
         /\ Owed' + DueOf(entry[i]) = Owed + DueOf(e)
<1>1. entry' \in [Ids -> Entries] /\ \A j \in Ids : entry'[j] = IF j = i THEN e ELSE entry[j]
  OBVIOUS
<1>2. \A x \in Entries : DueOf(x) \in Nat
  BY DEF DueOf, Entries
<1>3. \A j \in Ids : Due(entry)[j] \in Nat /\ Due(entry')[j] \in Nat
  BY <1>1, <1>2 DEF Due
<1>4. \A j \in Ids \ {i} : Due(entry')[j] = Due(entry)[j]
  BY <1>1 DEF Due
<1>5. Due(entry)[i] = DueOf(entry[i]) /\ Due(entry')[i] = DueOf(e)
  BY <1>1 DEF Due
<1>6. Owed = Total(Due(entry), Ids) /\ Owed' = Total(Due(entry'), Ids)
  BY <1>1, OwedNow, OwedIsTotal
<1>7. Total(Due(entry'), Ids) + Due(entry)[i] = Total(Due(entry), Ids) + Due(entry')[i]
  <2> DEFINE f == Due(entry)
             g == Due(entry')
  <2>1. IsFiniteSet(Ids) /\ \A j \in Ids : f[j] \in Nat /\ g[j] \in Nat
    BY <1>3, EscrowAssumption
  <2>2. \A j \in Ids \ {i} : g[j] = f[j]
    BY <1>4
  <2> HIDE DEF f, g
  <2>3. Total(g, Ids) + f[i] = Total(f, Ids) + g[i]
    BY <2>1, <2>2, TotalExcept
  <2> QED BY <2>3 DEF f, g
<1>8. Owed \in Nat /\ Owed' \in Nat
  BY <1>3, <1>6, EscrowAssumption, TotalNat
<1> QED BY <1>2, <1>5, <1>6, <1>7, <1>8

\* Leaving the entries alone leaves what is owed.
LEMMA OwedStays ==
  ASSUME entry \in [Ids -> Entries], UNCHANGED entry
  PROVE  Owed \in Nat /\ Owed' = Owed
<1>1. \A j \in Ids : Due(entry)[j] \in Nat
  BY DEF Due, DueOf, Entries
<1>2. Owed = Total(Due(entry), Ids)
  BY OwedNow, OwedIsTotal
<1> QED BY <1>1, <1>2, OwedNow, EscrowAssumption, TotalNat

\* A campaign whose pot has been released starts again from nothing.
PotsEmpty == \A i \in Ids : contract = "campaign" /\ ~Open(i) => entry[i].amount = 0

\* The inductive invariant of the escrow contracts, beside that of their
\* entries.
SolventInv == PotsEmpty /\ Solvent

\* Tokens that an account pays in are held by the contract.
LEMMA PaidIn ==
  ASSUME balance \in [Holders -> Nat], NEW a \in Accounts, NEW m \in Nat, Transfer(a, Self, m)
  PROVE  balance'[Self] = balance[Self] + m
BY LedgerAssumption DEF Transfer, Holders

\* A payment costs the contract no more than its amount, whoever is paid.
LEMMA PaidOut ==
  ASSUME balance \in [Holders -> Nat], NEW t, NEW m \in Nat, Transfer(Self, t, m)
  PROVE  balance'[Self] + m >= balance[Self]
<1>1. Self \in Holders /\ balance[Self] \in Nat /\ m <= balance[Self]
  BY DEF Transfer, Holders
<1>2. balance'[Self] = IF t = Self THEN balance[Self] ELSE balance[Self] - m
  BY <1>1 DEF Transfer
<1> QED BY <1>1, <1>2

\* An entry may be rewritten when the contract gains what becomes due, and loses
\* no more than what no longer is.
LEMMA SolventWritten ==
  ASSUME EscrowInv, SolventInv, NEW i \in Ids, NEW e \in Entries,
         entry' = [entry EXCEPT ![i] = e], contract' = contract, balance' \in [Holders -> Nat],
         contract \in Custodial => balance'[Self] + DueOf(entry[i]) >= balance[Self] + DueOf(e),
         contract = "campaign" => e.amount = DueOf(e)
  PROVE  SolventInv'
<1>1. entry \in [Ids -> Entries] /\ balance[Self] \in Nat /\ balance'[Self] \in Nat
  BY DEF EscrowInv, EntryShape, Holders
<1>2. entry' \in [Ids -> Entries] /\ \A j \in Ids : entry'[j] = IF j = i THEN e ELSE entry[j]
  BY <1>1
<1>3. PotsEmpty'
  BY <1>2 DEF SolventInv, PotsEmpty, Open, DueOf
<1>4. Solvent'
  <2>1. /\ Owed \in Nat /\ Owed' \in Nat
        /\ DueOf(entry[i]) \in Nat /\ DueOf(e) \in Nat
        /\ Owed' + DueOf(entry[i]) = Owed + DueOf(e)
    BY <1>1, OwedChanges
  <2> QED BY <1>1, <2>1 DEF SolventInv, Solvent
<1> QED BY <1>3, <1>4 DEF SolventInv

\* The tokens that a contract holds may grow, and other contracts owe nothing.
LEMMA SolventStays ==
  ASSUME EscrowInv, SolventInv, UNCHANGED <<contract, entry>>, balance' \in [Holders -> Nat],
         contract \in Custodial => balance'[Self] >= balance[Self]
  PROVE  SolventInv'
<1>1. entry \in [Ids -> Entries] /\ balance[Self] \in Nat /\ balance'[Self] \in Nat
  BY DEF EscrowInv, EntryShape, Holders
<1>2. PotsEmpty'
  BY DEF SolventInv, PotsEmpty, Open
<1>3. Solvent'
  BY <1>1, OwedStays DEF SolventInv, Solvent
<1> QED BY <1>2, <1>3 DEF SolventInv

\* Every call of the escrow contracts leaves them solvent.
LEMMA EscrowSolvent == EscrowInv /\ SolventInv /\ EscrowNext => SolventInv'
<1> SUFFICES ASSUME EscrowInv, SolventInv, EscrowNext PROVE SolventInv'
  OBVIOUS
<1> USE LedgerAssumption, EscrowAssumption DEF Is
<1>0. balance \in [Holders -> Nat] /\ entry \in [Ids -> Entries] /\ balance' \in [Holders -> Nat]
  BY EscrowKeeps DEF EscrowInv, EntryShape
<1>1. PICK i \in Ids : Opening(i) \/ Closing(i) \/ TakeBack(i)
  BY DEF EscrowNext
<1>2. /\ entry[i] \in Entries /\ NoEntry \in Entries /\ DueOf(NoEntry) = 0 /\ NoEntry.amount = 0
      /\ entry[i].amount \in Nat /\ balance[Self] \in Nat /\ balance'[Self] \in Nat
  <2>1. NoEntry \in Entries
    BY DEF Entries, NoEntry, Entry, States, Names, BasisPoints
  <2>2. entry[i] \in Entries /\ entry[i].amount \in Nat
    BY <1>0 DEF Entries
  <2> QED BY <1>0, <2>1, <2>2 DEF NoEntry, Entry, DueOf, Holders
<1>3. ASSUME NEW s \in States
      PROVE  Become(i, s) \in Entries /\ Become(i, s).state = s /\ Become(i, s).amount = entry[i].amount
  BY <1>2 DEF Entries, Become
<1>4. ASSUME NEW e \in Entries, entry' = [entry EXCEPT ![i] = e], contract' = contract,
             contract \notin Custodial
      PROVE  SolventInv'
  BY <1>0, <1>4, SolventWritten DEF Custodial
<1>5. ASSUME NEW e \in Entries, NEW a \in Accounts, TakeIn(i, a, e),
             entry[i].state \notin {"active", "frozen"}, contract # "campaign"
      PROVE  SolventInv'
  <2>1. /\ entry' = [entry EXCEPT ![i] = e] /\ contract' = contract
        /\ Transfer(a, Self, e.amount) /\ e.amount \in Nat
    BY <1>5 DEF TakeIn, Entries
  <2>2. balance'[Self] = balance[Self] + e.amount
    BY <1>0, <2>1, PaidIn
  <2>3. balance'[Self] + DueOf(entry[i]) >= balance[Self] + DueOf(e)
    BY <1>2, <1>5, <2>1, <2>2 DEF DueOf
  <2> QED BY <1>0, <1>5, <2>1, <2>3, SolventWritten
<1>6. ASSUME NEW e \in Entries, NEW t, PayOut(i, t, e), entry[i].state = "active",
             e.state \notin {"active", "frozen"}, contract = "campaign" => e.amount = 0
      PROVE  SolventInv'
  <2>1. /\ entry' = [entry EXCEPT ![i] = e] /\ contract' = contract
        /\ Transfer(Self, t, entry[i].amount)
    BY <1>6 DEF PayOut
  <2>2. balance'[Self] + entry[i].amount >= balance[Self]
    BY <1>0, <1>2, <2>1, PaidOut
  <2>3. DueOf(entry[i]) = entry[i].amount /\ DueOf(e) = 0
    BY <1>6 DEF DueOf
  <2>4. balance'[Self] + DueOf(entry[i]) >= balance[Self] + DueOf(e)
    BY <1>2, <2>2, <2>3
  <2> QED BY <1>0, <1>6, <2>1, <2>3, <2>4, SolventWritten
<1>7. ASSUME NEW e \in Entries, Store(i, e), DueOf(e) = DueOf(entry[i]), contract # "campaign"
      PROVE  SolventInv'
  <2>1. /\ entry' = [entry EXCEPT ![i] = e] /\ contract' = contract /\ balance' = balance
    BY <1>7 DEF Store, ledgerVars
  <2>2. DueOf(e) \in Nat
    BY <1>2, <1>7 DEF DueOf
  <2>3. balance'[Self] + DueOf(entry[i]) >= balance[Self] + DueOf(e)
    BY <1>2, <1>7, <2>1, <2>2
  <2> QED BY <1>0, <1>7, <2>1, <2>3, SolventWritten
<1>8. ASSUME Opening(i) PROVE SolventInv'
  <2>0. PICK a \in Accounts, m \in Amounts :
           \/ FundMilestone(i, a)       \/ CreateShare(i, a, m)
           \/ LockFunds(i, a)           \/ CreateMilestone(i, a, m)
           \/ DisputeDeposit(i, a, m)   \/ RecoveryDeposit(i, a, m)
           \/ RecordPayment(i, a, m)    \/ RecordDonation(i, a, m)
           \/ Donate(i, a, m)
           \/ \E u \in 1 .. MaxTime :
                \/ ExpiringDeposit(i, a, m, u) \/ LockQuote(i, a, u)
                \/ \E b \in Accounts : Lock(i, a, b, m, u)
    BY <1>8 DEF Opening
  <2>a. m \in Nat /\ a \in Names
    BY DEF Names
  <2>b. ASSUME NEW s \in States, NEW f \in Names, NEW t \in Names, NEW k \in Nat, NEW u \in Nat
        PROVE  /\ Entry(s, f, t, k, u) \in Entries /\ Entry(s, f, t, k, u).state = s
               /\ Entry(s, f, t, k, u).amount = k
    BY DEF Entries, Entry, BasisPoints
  <2>c. Nobody \in Names /\ "active" \in States /\ "pending" \in States
    BY DEF Names, States
  <2>1. CASE FundMilestone(i, a)
    <3>1. UNCHANGED <<contract, entry>> /\ contract = "escrow"
      BY <2>1 DEF FundMilestone, escrowVars
    <3> QED BY <1>0, <3>1, SolventStays DEF Custodial
  <2>2. CASE CreateShare(i, a, m) \/ CreateMilestone(i, a, m)
    <3> DEFINE e == Entry("pending", Nobody, a, m, 0)
    <3>1. e \in Entries /\ e.state = "pending"
      BY <2>a, <2>b, <2>c
    <3>2. Store(i, e) /\ entry[i].state = "none" /\ contract # "campaign"
      BY <2>2 DEF CreateShare, CreateMilestone
    <3> HIDE DEF e
    <3>3. DueOf(e) = DueOf(entry[i])
      BY <3>1, <3>2 DEF DueOf
    <3> QED BY <1>7, <3>1, <3>2, <3>3
  <2>3. CASE LockFunds(i, a)
    BY <1>3, <1>5, <2>3, <2>c DEF LockFunds
  <2>4. CASE DisputeDeposit(i, a, m) \/ RecoveryDeposit(i, a, m) \/ RecordPayment(i, a, m)
    <3> DEFINE e == Entry("active", a, Nobody, m, 0)
    <3>1. e \in Entries
      BY <2>a, <2>b, <2>c
    <3>2. TakeIn(i, a, e) /\ entry[i].state = "none" /\ contract # "campaign"
      BY <2>4 DEF DisputeDeposit, RecoveryDeposit, RecordPayment, Deposited
    <3> HIDE DEF e
    <3> QED BY <1>5, <3>1, <3>2
  <2>5. CASE RecordDonation(i, a, m)
    <3>1. Deposited(a, m) \in Entries
      BY <2>a, <2>b, <2>c DEF Deposited
    <3> QED BY <1>4, <2>5, <3>1 DEF RecordDonation, Store, ledgerVars, Custodial
  <2>6. CASE Donate(i, a, m)
    <3> DEFINE n == entry[i].amount + m
               e == Entry("active", Nobody, Nobody, n, 0)
    <3>1. /\ entry' = [entry EXCEPT ![i] = e] /\ contract' = contract
          /\ contract = "campaign" /\ Transfer(a, Self, m)
      BY <2>6 DEF Donate, Deposited
    <3>2. n \in Nat
      BY <1>2, <2>a
    <3> HIDE DEF n
    <3>3. e \in Entries /\ e.state = "active" /\ e.amount = n
      BY <2>b, <2>c, <3>2
    <3> HIDE DEF e
    <3>4. balance'[Self] = balance[Self] + m
      BY <1>0, <2>a, <3>1, PaidIn
    <3>5. DueOf(e) = n /\ DueOf(entry[i]) = entry[i].amount
      BY <3>1, <3>3 DEF DueOf, SolventInv, PotsEmpty, Open
    <3>6. balance'[Self] + DueOf(entry[i]) >= balance[Self] + DueOf(e)
      BY <1>2, <2>a, <3>4, <3>5 DEF n
    <3> QED BY <1>0, <3>1, <3>3, <3>5, <3>6, SolventWritten
  <2>7. ASSUME NEW u \in 1 .. MaxTime,
               ExpiringDeposit(i, a, m, u) \/ \E b \in Accounts : Lock(i, a, b, m, u)
        PROVE  SolventInv'
    <3>1. PICK t \in Names : TakeIn(i, a, Entry("active", a, t, m, u))
      BY <2>7 DEF ExpiringDeposit, Lock, Names
    <3> DEFINE e == Entry("active", a, t, m, u)
    <3>2. e \in Entries /\ entry[i].state = "none" /\ contract # "campaign"
      BY <2>7, <2>a, <2>b, <2>c DEF ExpiringDeposit, Lock
    <3> HIDE DEF e
    <3> QED BY <1>5, <3>1, <3>2 DEF e
  <2>8. ASSUME NEW u \in 1 .. MaxTime, LockQuote(i, a, u) PROVE SolventInv'
    <3>1. Entry("pending", a, Nobody, 0, u) \in Entries
      BY <2>a, <2>b, <2>c
    <3> QED BY <1>4, <2>8, <3>1 DEF LockQuote, Store, ledgerVars, Custodial
  <2> QED BY <2>0, <2>1, <2>2, <2>3, <2>4, <2>5, <2>6, <2>7, <2>8
<1>9. ASSUME Closing(i) \/ TakeBack(i) PROVE SolventInv'
  <2>0. {"active", "frozen", "paid", "refunded"} \subseteq States
    BY DEF States
  <2>1. CASE \E b \in Percentages : ReleaseMilestone(i, b)
    <3>1. PICK b \in Percentages : ReleaseMilestone(i, b)
      BY <2>1
    <3>2. entry' = [entry EXCEPT ![i] = entry'[i]] /\ entry'[i] \in Entries
      <4>1. entry' \in [Ids -> Entries]
        BY <3>1, ReleaseKeeps DEF EscrowInv, EntryShape
      <4> QED BY <1>0, <3>1, <4>1 DEF ReleaseMilestone
    <3> QED BY <1>4, <3>1, <3>2 DEF ReleaseMilestone, Custodial
  <2>2. CASE CompleteMilestone(i) \/ Withdraw(i) \/ WithdrawInTime(i) \/ ProcessRefund(i)
               \/ ProcessRecordedRefund(i) \/ Refund(i)
    <3>1. PICK s \in {"paid", "refunded"}, t \in {entry[i].from, entry[i].to} :
            PayOut(i, t, Become(i, s)) /\ contract # "campaign" /\ entry[i].state = "active"
      BY <2>2 DEF CompleteMilestone, Withdraw, WithdrawInTime, ProcessRefund,
                  ProcessRecordedRefund, Refund
    <3> QED BY <1>3, <1>6, <2>0, <3>1
  <2>3. CASE Freeze(i) \/ Unfreeze(i)
    <3>1. PICK s \in {"active", "frozen"} :
            /\ Store(i, Become(i, s)) /\ contract = "dispute"
            /\ entry[i].state \in {"active", "frozen"}
      BY <2>3 DEF Freeze, Unfreeze
    <3>2. Become(i, s) \in Entries /\ DueOf(Become(i, s)) = DueOf(entry[i])
      BY <1>3, <2>0, <3>1 DEF DueOf
    <3> QED BY <1>7, <3>1, <3>2
  <2>4. CASE ExecuteQuote(i)
    BY <1>3, <1>4, <2>0, <2>4 DEF ExecuteQuote, Store, ledgerVars, Custodial
  <2>5. CASE \/ Reclaim(i)
             \/ \E a \in Accounts :
                  \/ DisputeRelease(i, a)  \/ RecoveryRelease(i, a) \/ EmergencyRecover(i, a)
                  \/ ExpiringRelease(i, a) \/ ReleaseToCampaign(i, a)
    <3>1. \E t : PayOut(i, t, NoEntry) /\ entry[i].state = "active"
      BY <2>5 DEF Reclaim, DisputeRelease, RecoveryRelease, EmergencyRecover,
                  ExpiringRelease, ReleaseToCampaign
    <3>2. NoEntry.state = "none"
      BY DEF NoEntry, Entry
    <3> QED BY <1>2, <1>6, <3>1, <3>2
  <2> QED BY <1>9, <2>1, <2>2, <2>3, <2>4, <2>5 DEF Closing, TakeBack
<1> QED BY <1>1, <1>8, <1>9

\* The network, and the contracts that owe nothing, leave the escrows solvent.
LEMMA OthersKeepSolvent ==
  EscrowInv /\ MultiSigInv /\ SolventInv /\ [ContractNext]_contractVars => SolventInv'
<1> SUFFICES ASSUME EscrowInv, MultiSigInv, SolventInv, [ContractNext]_contractVars
             PROVE  SolventInv'
  OBVIOUS
<1>0. balance \in [Holders -> Nat] /\ balance[Self] \in Nat
  BY DEF EscrowInv, EntryShape, Holders
<1>1. CASE UNCHANGED contractVars
  BY <1>0, <1>1, SolventStays DEF contractVars, ledgerVars, escrowVars
<1>2. CASE EscrowNext
  BY <1>2, EscrowSolvent
<1>3. CASE ContractNext /\ ~EscrowNext
  <2>1. balance' \in [Holders -> Nat] /\ UNCHANGED entry
    BY <1>3, OthersKeepEscrow DEF EscrowInv, EntryShape, ContractNext, escrowVars
  <2>2. ASSUME UNCHANGED contract, contract \in Custodial => balance'[Self] >= balance[Self]
        PROVE  SolventInv'
    BY <2>1, <2>2, SolventStays
  <2>3. CASE MultiSigNext
    BY <2>2, <2>3 DEF MultiSigNext, AddSigner, ProposePayment, Approve, ExecutePayment,
       ledgerVars, MultiSigKinds, Custodial
  <2>4. CASE GovernanceNext
    BY <2>2, <2>4 DEF GovernanceNext, CreateProposal, ExecuteProposal, SnapshotVotingPower,
       CastVote, MoveVotes, Send, ledgerVars, Custodial
  <2>5. CASE DelegationNext
    BY <1>0, <2>2, <2>5 DEF DelegationNext, SetVotingPower, Delegate, ClearDelegation, ledgerVars
  <2>6. CASE AdviceNext
    BY <1>0, <2>2, <2>6, AdviceApart
  <2>7. CASE Network
    <3>1. CASE CloseLedger
      BY <1>0, <2>2, <3>1 DEF CloseLedger
    <3>2. CASE \E a \in Accounts : Send(a, Self, 1)
      <4>1. PICK a \in Accounts : Send(a, Self, 1)
        BY <3>2
      <4>2. balance'[Self] = balance[Self] + 1
        BY <1>0, <4>1, PaidIn DEF Send
      <4> QED BY <1>0, <2>2, <4>1, <4>2 DEF Send
    <3> QED BY <2>7, <3>1, <3>2 DEF Network
  <2> QED BY <1>3, <2>3, <2>4, <2>5, <2>6, <2>7 DEF ContractNext
<1> QED BY <1>1, <1>2, <1>3

\* The contract holds what it owes on all open entries together, whatever is
\* opened, paid, frozen, refunded or sent in between, for each of the escrow
\* contracts.
THEOREM EscrowsSolvent == ContractSpec => []Solvent
<1>1. ContractInit => SolventInv
  <2> SUFFICES ASSUME ContractInit PROVE SolventInv
    OBVIOUS
  <2>1. NoEntry \in Entries /\ NoEntry.state = "none" /\ NoEntry.amount = 0
    BY DEF NoEntry, Entry, Entries, States, Names, BasisPoints
  <2>2. entry = [i \in Ids |-> NoEntry] /\ balance[Self] = 0
    BY DEF ContractInit, EscrowInit, LedgerInit, Holders
  <2>3. \A i \in Ids : Due(entry)[i] = 0
    BY <2>1, <2>2 DEF Due, DueOf
  <2>4. Owed = Total(Due(entry), Ids)
    <3>1. entry \in [Ids -> Entries]
      BY <2>1, <2>2
    <3> QED BY <3>1, OwedNow, OwedIsTotal
  <2>5. Owed = Cardinality(Ids) * 0 /\ Cardinality(Ids) \in Nat
    BY <2>3, <2>4, EscrowAssumption, TotalConstant, FS_CardinalityType
  <2>6. Owed = 0
    BY <2>5
  <2> QED BY <2>1, <2>2, <2>6 DEF SolventInv, PotsEmpty, Solvent
<1>2. SolventInv => Solvent
  BY DEF SolventInv
<1> QED BY <1>1, <1>2, OthersKeepSolvent, EscrowInvariant, MultiSigInvariant, PTL DEF ContractSpec

-----------------------------------------------------------------------------
\* Governance

\* The votes that a proposal has counted, and the voters it has a snapshot of.
Tally(p) == proposals[p].votes_for + proposals[p].votes_against
Snapshots(p) == DOMAIN vp_snapshot[p]

\* The votes counted are the snapshots of those who voted.
Counted ==
  \A p \in DOMAIN proposals : Tally(p) = Total(vp_snapshot[p], has_voted[p])

\* Who voted has a snapshot, and only proposals have snapshots.
VotersRegistered ==
  /\ vp_snapshot = [p \in Proposals |-> vp_snapshot[p]]
  /\ has_voted = [p \in Proposals |-> has_voted[p]]
  /\ \A p \in Proposals : /\ has_voted[p] \subseteq Snapshots(p)
                          /\ p \notin DOMAIN proposals => Snapshots(p) = {}

\* While a proposal is open and no token has moved, the snapshots are balances.
SnapshotsCurrent ==
  \A p \in DOMAIN proposals \ moved :
    now <= proposals[p].end_time =>
      \A a \in Snapshots(p) : vp_snapshot[p][a] = balance[a]

\* Unless tokens have moved meanwhile, the snapshots of a proposal are no more
\* than there are tokens.
SnapshotsBacked ==
  \A p \in DOMAIN proposals \ moved : Total(vp_snapshot[p], Snapshots(p)) <= Supply

\* Voters hold all tokens, and proposals are made on the governance contract.
TokensWithVoters ==
  /\ contract = "governance" => Total(balance, Accounts) = Supply
  /\ contract # "governance" => DOMAIN proposals = {}
  /\ \A p \in DOMAIN proposals : proposals[p].start_time <= now

\* The inductive invariant of the tallies.
TallyInv ==
  Counted /\ VotersRegistered /\ SnapshotsCurrent /\ SnapshotsBacked /\ TokensWithVoters

\* Moving tokens between two accounts keeps what accounts hold together.
LEMMA MoveKeepsTotal ==
  ASSUME balance \in [Holders -> Nat], NEW a \in Accounts, NEW b \in Accounts, Send(a, b, 1)
  PROVE  Total(balance', Accounts) = Total(balance, Accounts)
<1> USE LedgerAssumption
<1> DEFINE mid == [balance EXCEPT ![a] = @ - 1]
           bal == balance
           new == balance'
<1>1. /\ a # b /\ 1 <= balance[a] /\ balance' = [balance EXCEPT ![a] = @ - 1, ![b] = @ + 1]
      /\ Accounts \subseteq Holders
  BY DEF Send, Transfer, Holders
<1>2. mid \in [Holders -> Nat] /\ mid[a] + 1 = bal[a]
  BY <1>1
<1>3. new = [mid EXCEPT ![b] = @ + 1]
  BY <1>1
<1> HIDE DEF mid, new, bal
<1>4. new \in [Holders -> Nat] /\ new[b] = mid[b] + 1 /\ bal \in [Holders -> Nat]
  BY <1>1, <1>2, <1>3 DEF bal
<1>5. \A x \in Accounts : new[x] \in Nat /\ mid[x] \in Nat /\ bal[x] \in Nat
  BY <1>1, <1>2, <1>4
<1>6. \A x \in Accounts \ {a} : mid[x] = bal[x]
  BY <1>1 DEF mid, bal
<1>7. \A x \in Accounts \ {b} : new[x] = mid[x]
  BY <1>1, <1>2, <1>3
<1>8. Total(mid, Accounts) + bal[a] = Total(bal, Accounts) + mid[a]
  BY <1>5, <1>6, TotalExcept
<1>9. Total(new, Accounts) + mid[b] = Total(mid, Accounts) + new[b]
  BY <1>5, <1>7, TotalExcept
<1>10. /\ Total(mid, Accounts) \in Nat /\ Total(bal, Accounts) \in Nat
       /\ Total(new, Accounts) \in Nat
  BY <1>5, TotalNat
<1>11. Total(new, Accounts) = Total(bal, Accounts)
  BY <1>2, <1>4, <1>5, <1>8, <1>9, <1>10
<1> QED BY <1>11 DEF new, bal

\* The next step leaves the votes of all proposals as they are.
LEMMA TallyStays ==
  ASSUME TallyInv, GovernanceInv, UNCHANGED <<contract, governanceVars>>, now \in Nat, now' \in Nat, now' >= now,
         UNCHANGED balance \/ DOMAIN proposals = {},
         contract = "governance" => UNCHANGED balance
  PROVE  TallyInv'
<1> USE DEF governanceVars
<1>1. \A p \in DOMAIN proposals : proposals[p].end_time \in Nat /\ proposals[p].start_time \in Nat
  BY DEF GovernanceInv, GovernanceTypeOK
<1>2. Counted'
  BY DEF TallyInv, Counted, Tally
<1>3. VotersRegistered'
  BY DEF TallyInv, VotersRegistered, Snapshots
<1>4. SnapshotsCurrent'
  BY <1>1 DEF TallyInv, SnapshotsCurrent, Snapshots
<1>5. SnapshotsBacked'
  BY DEF TallyInv, SnapshotsBacked, Snapshots, Supply
<1>6. TokensWithVoters'
  <2>1. contract = "governance" => Total(balance', Accounts) = Supply
    BY DEF TallyInv, TokensWithVoters
  <2> QED BY <1>1, <2>1 DEF TallyInv, TokensWithVoters, Supply
<1> QED BY <1>2, <1>3, <1>4, <1>5, <1>6 DEF TallyInv

\* A new proposal has no snapshots and no votes.
LEMMA TallyCreate ==
  ASSUME TallyInv, GovernanceInv, now \in Nat, NEW d \in Durations, CreateProposal(d)
  PROVE  TallyInv'
<1> DEFINE n   == Cardinality(DOMAIN proposals) + 1
           new == [start_time |-> now, end_time |-> now + d, executed |-> FALSE,
                   votes_for |-> 0, votes_against |-> 0]
<1>1. /\ proposals' = [p \in DOMAIN proposals \cup {n} |->
                         IF p \in DOMAIN proposals THEN proposals[p] ELSE new]
      /\ UNCHANGED <<contract, now, balance, vp_snapshot, has_voted, moved>> /\ n \in Proposals
      /\ contract = "governance"
  <2>1. Cardinality(DOMAIN proposals) \in Nat
    BY FewProposals DEF GovernanceInv
  <2> QED BY <2>1, GovernanceAssumption DEF CreateProposal, ledgerVars, Exists, Proposals
<1>2. new.start_time = now /\ new.votes_for + new.votes_against = 0
  OBVIOUS
<1> HIDE DEF n, new
<1>3. /\ DOMAIN proposals' = DOMAIN proposals \cup {n}
      /\ \A p \in DOMAIN proposals' :
           proposals'[p] = IF p \in DOMAIN proposals THEN proposals[p] ELSE new
  BY <1>1
<1>4. \A p \in DOMAIN proposals' \ DOMAIN proposals :
        has_voted[p] = {} /\ Snapshots(p) = {} /\ p \in Proposals
  BY <1>1, <1>3 DEF TallyInv, VotersRegistered
<1>5. Supply \in Nat
  <2>1. Cardinality(Accounts) \in Nat /\ Funds \in Nat
    BY LedgerAssumption, FS_CardinalityType
  <2> QED BY <2>1 DEF Supply
<1>6. Counted'
  <2> SUFFICES ASSUME NEW p \in DOMAIN proposals'
               PROVE  Tally(p)' = Total(vp_snapshot[p], has_voted[p])
    BY <1>1 DEF Counted
  <2>1. CASE p \in DOMAIN proposals
    BY <1>3, <2>1 DEF TallyInv, Counted, Tally
  <2>2. CASE p \notin DOMAIN proposals
    <3>1. Tally(p)' = 0
      BY <1>2, <1>3, <2>2 DEF Tally
    <3>2. has_voted[p] = {}
      BY <1>4, <2>2
    <3> QED BY <3>1, <3>2, TotalEmpty
  <2> QED BY <2>1, <2>2
<1>7. VotersRegistered'
  BY <1>1, <1>3 DEF TallyInv, VotersRegistered, Snapshots
<1>8. SnapshotsCurrent'
  BY <1>1, <1>3, <1>4 DEF TallyInv, SnapshotsCurrent, Snapshots
<1>9. SnapshotsBacked'
  <2> SUFFICES ASSUME NEW p \in DOMAIN proposals' \ moved
               PROVE  Total(vp_snapshot[p], Snapshots(p)) <= Supply
    BY <1>1 DEF SnapshotsBacked, Snapshots, Supply
  <2>1. CASE p \in DOMAIN proposals
    BY <2>1 DEF TallyInv, SnapshotsBacked
  <2>2. CASE p \notin DOMAIN proposals
    <3>1. Snapshots(p) = {}
      BY <1>4, <2>2
    <3> QED BY <1>5, <3>1, TotalEmpty
  <2> QED BY <2>1, <2>2
<1>10. TokensWithVoters'
  BY <1>1, <1>2, <1>3 DEF TallyInv, TokensWithVoters, Supply
<1> QED BY <1>6, <1>7, <1>8, <1>9, <1>10 DEF TallyInv

\* A snapshot registers a balance, once.
LEMMA TallySnapshot ==
  ASSUME TallyInv, GovernanceInv, EscrowInv, NEW p \in Proposals, NEW v \in Accounts,
         SnapshotVotingPower(p, v)
  PROVE  TallyInv'
<1> USE LedgerAssumption
<1> DEFINE old == vp_snapshot[p]
           new == vp_snapshot'[p]
<1>1. /\ UNCHANGED <<contract, now, balance, proposals, has_voted, moved>>
      /\ vp_snapshot' = [vp_snapshot EXCEPT ![p] = Registered(@, v)]
      /\ v \notin Snapshots(p) /\ p \in DOMAIN proposals /\ now <= proposals[p].end_time
      /\ contract = "governance"
  BY DEF SnapshotVotingPower, ledgerVars, Voting, Exists, Snapshots
<1>2. vp_snapshot = [q \in Proposals |-> vp_snapshot[q]]
  BY DEF TallyInv, VotersRegistered
<1>3. /\ vp_snapshot' = [q \in Proposals |-> vp_snapshot'[q]] /\ new = Registered(old, v)
      /\ \A q \in Proposals : q # p => vp_snapshot'[q] = vp_snapshot[q]
  BY <1>1, <1>2
<1>4. /\ DOMAIN new = DOMAIN old \cup {v} /\ new[v] = balance[v]
      /\ \A a \in DOMAIN old : new[a] = old[a]
  BY <1>1, <1>3 DEF Registered, Snapshots
<1>5. /\ has_voted[p] \subseteq DOMAIN old /\ DOMAIN old \subseteq Accounts
      /\ balance \in [Holders -> Nat] /\ \A a \in DOMAIN old : old[a] \in Nat
  BY DEF TallyInv, VotersRegistered, Snapshots, GovernanceInv, GovernanceTypeOK, EscrowInv, EntryShape
<1> HIDE DEF old, new
<1>6. \A q \in DOMAIN proposals : q \in Proposals
  BY DEF GovernanceInv, GovernanceTypeOK
<1>7. Counted'
  <2>1. Total(new, has_voted[p]) = Total(old, has_voted[p])
    <3>1. IsFiniteSet(has_voted[p])
      BY <1>5, FS_Subset
    <3> QED BY <1>4, <1>5, <3>1, TotalCongruence
  <2> SUFFICES ASSUME NEW q \in DOMAIN proposals
               PROVE  Tally(q) = Total(vp_snapshot'[q], has_voted[q])
    BY <1>1 DEF Counted, Tally
  <2>2. Tally(q) = Total(vp_snapshot[q], has_voted[q])
    BY DEF TallyInv, Counted
  <2> QED BY <1>3, <1>6, <2>1, <2>2 DEF old, new
<1>8. VotersRegistered'
  BY <1>1, <1>3, <1>4 DEF TallyInv, VotersRegistered, Snapshots, old, new
<1>9. SnapshotsCurrent'
  <2> SUFFICES ASSUME NEW q \in DOMAIN proposals \ moved, now <= proposals[q].end_time,
                      NEW a \in DOMAIN vp_snapshot'[q]
               PROVE  vp_snapshot'[q][a] = balance[a]
    BY <1>1 DEF SnapshotsCurrent, Snapshots
  <2>1. \A b \in DOMAIN vp_snapshot[q] : vp_snapshot[q][b] = balance[b]
    BY DEF TallyInv, SnapshotsCurrent, Snapshots
  <2>2. CASE q = p
    BY <1>4, <2>1, <2>2 DEF old, new
  <2>3. CASE q # p
    BY <1>3, <1>6, <2>1, <2>3
  <2> QED BY <2>2, <2>3
<1>10. SnapshotsBacked'
  <2> SUFFICES ASSUME NEW q \in DOMAIN proposals \ moved
               PROVE  Total(vp_snapshot'[q], DOMAIN vp_snapshot'[q]) <= Supply
    BY <1>1 DEF SnapshotsBacked, Snapshots, Supply
  <2>1. CASE q # p
    BY <1>3, <1>6, <2>1 DEF TallyInv, SnapshotsBacked, Snapshots
  <2>2. CASE q = p
    <3>1. \A a \in DOMAIN new : new[a] = balance[a]
      BY <1>1, <1>9, <2>2 DEF SnapshotsCurrent, Snapshots, new
    <3>2. DOMAIN new \subseteq Accounts /\ \A a \in Accounts : balance[a] \in Nat
      BY <1>4, <1>5 DEF Holders
    <3>3. \A a \in DOMAIN new : new[a] \in Nat /\ new[a] <= balance[a]
      BY <3>1, <3>2
    <3>4. Total(new, DOMAIN new) <= Total(balance, Accounts)
      BY <3>2, <3>3, TotalMonotone
    <3>5. Total(balance, Accounts) = Supply
      BY <1>1 DEF TallyInv, TokensWithVoters
    <3> QED BY <2>2, <3>4, <3>5 DEF new
  <2> QED BY <2>1, <2>2
<1>11. TokensWithVoters'
  BY <1>1 DEF TallyInv, TokensWithVoters, Supply
<1> QED BY <1>7, <1>8, <1>9, <1>10, <1>11 DEF TallyInv

\* A vote adds its voter's snapshot to the tally, once.
LEMMA TallyVote ==
  ASSUME TallyInv, GovernanceInv, NEW p \in Proposals, NEW v \in Accounts, NEW f \in BOOLEAN,
         CastVote(p, v, f)
  PROVE  TallyInv'
<1> USE LedgerAssumption
<1>1. /\ p \in DOMAIN proposals /\ UNCHANGED <<contract, now, balance, vp_snapshot, moved>>
      /\ v \in DOMAIN vp_snapshot[p] /\ v \notin has_voted[p]
      /\ has_voted' = [has_voted EXCEPT ![p] = @ \cup {v}]
      /\ \/ proposals' = [proposals EXCEPT ![p].votes_for = @ + vp_snapshot[p][v]]
         \/ proposals' = [proposals EXCEPT ![p].votes_against = @ + vp_snapshot[p][v]]
  BY DEF CastVote, Voting, Exists, ledgerVars
<1>2. /\ \A a \in DOMAIN vp_snapshot[p] : vp_snapshot[p][a] \in Nat
      /\ has_voted[p] \subseteq DOMAIN vp_snapshot[p] /\ proposals[p] \in Ballots
      /\ has_voted[p] \subseteq Accounts
      /\ has_voted = [q \in Proposals |-> has_voted[q]]
  BY <1>1 DEF GovernanceInv, GovernanceTypeOK, TallyInv, VotersRegistered, Snapshots, Ballots
<1>3. /\ has_voted' = [q \in Proposals |-> has_voted'[q]] /\ has_voted'[p] = has_voted[p] \cup {v}
      /\ \A q \in Proposals : q # p => has_voted'[q] = has_voted[q]
  BY <1>1, <1>2
<1>4. /\ DOMAIN proposals' = DOMAIN proposals
      /\ \A q \in DOMAIN proposals : q # p => proposals'[q] = proposals[q]
      /\ proposals'[p].start_time = proposals[p].start_time
      /\ proposals'[p].end_time = proposals[p].end_time
      /\ Tally(p)' = vp_snapshot[p][v] + Tally(p)
  BY <1>1, <1>2 DEF Ballots, Tally
<1>5. \A q \in DOMAIN proposals : q \in Proposals
  BY DEF GovernanceInv, GovernanceTypeOK
<1>6. Counted'
  <2> SUFFICES ASSUME NEW q \in DOMAIN proposals
               PROVE  Tally(q)' = Total(vp_snapshot[q], has_voted'[q])
    BY <1>1, <1>4 DEF Counted
  <2>1. Tally(q) = Total(vp_snapshot[q], has_voted[q])
    BY DEF TallyInv, Counted
  <2>2. CASE q # p
    BY <1>3, <1>4, <1>5, <2>1, <2>2 DEF Tally
  <2>3. CASE q = p
    <3> DEFINE s == vp_snapshot[p]
               H == has_voted[p]
    <3>1. IsFiniteSet(H) /\ (\A x \in H : s[x] \in Nat) /\ v \notin H /\ s[v] \in Nat
      BY <1>1, <1>2, FS_Subset
    <3> HIDE DEF s, H
    <3>2. Total(s, H \cup {v}) = s[v] + Total(s, H)
      BY <3>1, TotalAdd
    <3> QED BY <1>3, <1>4, <2>1, <2>3, <3>2 DEF s, H
  <2> QED BY <2>2, <2>3
<1>7. VotersRegistered'
  BY <1>1, <1>3, <1>4 DEF TallyInv, VotersRegistered, Snapshots
<1>8. SnapshotsCurrent'
  BY <1>1, <1>4 DEF TallyInv, SnapshotsCurrent, Snapshots
<1>9. SnapshotsBacked'
  BY <1>1, <1>4 DEF TallyInv, SnapshotsBacked, Snapshots, Supply
<1>10. TokensWithVoters'
  BY <1>1, <1>4 DEF TallyInv, TokensWithVoters, Supply
<1> QED BY <1>6, <1>7, <1>8, <1>9, <1>10 DEF TallyInv

\* Executing a proposal changes none of its votes.
LEMMA TallyExecute ==
  ASSUME TallyInv, GovernanceInv, NEW p \in Proposals, ExecuteProposal(p)
  PROVE  TallyInv'
<1>1. /\ proposals' = [proposals EXCEPT ![p].executed = TRUE] /\ p \in DOMAIN proposals
      /\ UNCHANGED <<contract, now, balance, vp_snapshot, has_voted, moved>>
  BY DEF ExecuteProposal, Exists, ledgerVars
<1>2. proposals[p] \in Ballots
  BY <1>1 DEF GovernanceInv, GovernanceTypeOK, Ballots
<1>3. /\ DOMAIN proposals' = DOMAIN proposals
      /\ \A q \in DOMAIN proposals :
           /\ proposals'[q].start_time = proposals[q].start_time
           /\ proposals'[q].end_time = proposals[q].end_time /\ Tally(q)' = Tally(q)
  BY <1>1, <1>2 DEF Ballots, Tally
<1>4. Counted'
  BY <1>1, <1>3 DEF TallyInv, Counted
<1>5. VotersRegistered'
  BY <1>1, <1>3 DEF TallyInv, VotersRegistered, Snapshots
<1>6. SnapshotsCurrent'
  BY <1>1, <1>3 DEF TallyInv, SnapshotsCurrent, Snapshots
<1>7. SnapshotsBacked'
  BY <1>1, <1>3 DEF TallyInv, SnapshotsBacked, Snapshots, Supply
<1>8. TokensWithVoters'
  BY <1>1, <1>3 DEF TallyInv, TokensWithVoters, Supply
<1> QED BY <1>4, <1>5, <1>6, <1>7, <1>8 DEF TallyInv

\* Moving tokens marks the proposals that are open.
LEMMA TallyMove ==
  ASSUME TallyInv, GovernanceInv, EscrowInv, NEW a \in Accounts, NEW b \in Accounts,
         MoveVotes(a, b, 1)
  PROVE  TallyInv'
<1>1. /\ UNCHANGED <<contract, now, proposals, vp_snapshot, has_voted>>
      /\ moved' = moved \cup {p \in Proposals : Voting(p)} /\ Send(a, b, 1)
  BY DEF MoveVotes, Send
<1>2. Total(balance', Accounts) = Total(balance, Accounts)
  BY <1>1, MoveKeepsTotal DEF EscrowInv, EntryShape
<1>3. Counted'
  BY <1>1 DEF TallyInv, Counted, Tally
<1>4. VotersRegistered'
  BY <1>1 DEF TallyInv, VotersRegistered, Snapshots
<1>5. SnapshotsCurrent'
  <2>1. \A p \in DOMAIN proposals \ moved' : ~(now <= proposals[p].end_time)
    BY <1>1 DEF TallyInv, TokensWithVoters, Voting, Exists, GovernanceInv, GovernanceTypeOK
  <2> QED BY <1>1, <2>1 DEF SnapshotsCurrent
<1>6. SnapshotsBacked'
  BY <1>1 DEF TallyInv, SnapshotsBacked, Snapshots, Supply
<1>7. TokensWithVoters'
  BY <1>1, <1>2 DEF TallyInv, TokensWithVoters, Supply
<1> QED BY <1>3, <1>4, <1>5, <1>6, <1>7 DEF TallyInv

\* Every step keeps the tallies backed.
LEMMA TallyKeeps ==
  EscrowInv /\ MultiSigInv /\ GovernanceInv /\ TallyInv /\ [ContractNext]_contractVars => TallyInv'
<1> SUFFICES ASSUME EscrowInv, MultiSigInv, GovernanceInv, TallyInv, [ContractNext]_contractVars
             PROVE  TallyInv'
  OBVIOUS
<1>0. now \in Nat
  BY DEF EscrowInv, EntryShape
<1>1. ASSUME UNCHANGED <<contract, governanceVars>>, now' \in Nat, now' >= now,
             UNCHANGED balance \/ contract # "governance"
      PROVE  TallyInv'
  <2>1. contract # "governance" => DOMAIN proposals = {}
    BY DEF TallyInv, TokensWithVoters
  <2> QED BY <1>0, <1>1, <2>1, TallyStays
<1>2. CASE GovernanceNext
  BY <1>0, <1>2, TallyCreate, TallySnapshot, TallyVote, TallyExecute, TallyMove DEF GovernanceNext
<1>3. CASE EscrowNext /\ UNCHANGED <<multiSigVars, governanceVars, delegationVars, adviceVars>>
  <2>1. UNCHANGED <<contract, now>> /\ contract # "governance"
    <3>1. PICK i \in Ids : Opening(i) \/ Closing(i) \/ TakeBack(i)
      BY <1>3 DEF EscrowNext
    <3>2. CASE Opening(i)
      BY <3>2 DEF Opening, CreateShare, FundMilestone, CreateMilestone, LockFunds,
         DisputeDeposit, RecoveryDeposit, RecordPayment, RecordDonation, Donate, LockQuote,
         ExpiringDeposit, Lock, Is, TakeIn, Store, ledgerVars
    <3>3. CASE Closing(i) \/ TakeBack(i)
      BY <3>3 DEF Closing, TakeBack, ReleaseMilestone, CompleteMilestone, Freeze, Unfreeze,
         Withdraw, DisputeRelease, RecoveryRelease, EmergencyRecover, ReleaseToCampaign,
         ProcessRefund, ProcessRecordedRefund, ExecuteQuote, ExpiringRelease, WithdrawInTime,
         Reclaim, Refund, Is, PayOut, Store, ledgerVars
    <3> QED BY <3>1, <3>2, <3>3
  <2> QED BY <1>0, <1>1, <1>3, <2>1
<1>4. CASE MultiSigNext /\ UNCHANGED <<escrowVars, governanceVars, delegationVars, adviceVars>>
  <2>1. UNCHANGED <<contract, now>> /\ contract # "governance"
    BY <1>4 DEF MultiSigNext, AddSigner, ProposePayment, Approve, ExecutePayment, ledgerVars,
       MultiSigKinds
  <2> QED BY <1>0, <1>1, <1>4, <2>1
<1>5. CASE DelegationNext /\ UNCHANGED <<escrowVars, multiSigVars, governanceVars, adviceVars>>
  BY <1>0, <1>1, <1>5 DEF DelegationNext, SetVotingPower, Delegate, ClearDelegation, ledgerVars
<1>6. CASE AdviceNext /\ UNCHANGED <<escrowVars, multiSigVars, governanceVars, delegationVars>>
  BY <1>0, <1>1, <1>6, AdviceApart
<1>7. CASE Network /\ UNCHANGED <<escrowVars, multiSigVars, governanceVars, delegationVars, adviceVars>>
  <2>1. CASE CloseLedger
    BY <1>0, <1>1, <1>7, <2>1 DEF CloseLedger
  <2>2. CASE contract \in Holding /\ \E a \in Accounts : Send(a, Self, 1)
    BY <1>0, <1>1, <1>7, <2>2 DEF Send, Holding, Custodial, MultiSigKinds
  <2> QED BY <1>7, <2>1, <2>2 DEF Network
<1>8. CASE UNCHANGED contractVars
  BY <1>0, <1>1, <1>8 DEF contractVars, ledgerVars
<1> QED BY <1>2, <1>3, <1>4, <1>5, <1>6, <1>7, <1>8 DEF ContractNext

\* A tally is what its voters had registered, each once, and is backed by tokens.
LEMMA TallyDecides == TallyInv /\ GovernanceInv => TallyIsBacked
<1> SUFFICES ASSUME TallyInv, GovernanceInv, NEW p \in DOMAIN proposals
             PROVE  /\ Tally(p) = Total(vp_snapshot[p], has_voted[p])
                    /\ p \notin moved => Tally(p) <= Supply
  BY DEF TallyIsBacked, Tally, Total, MapThenSumSet, MapThenFoldSet
<1> DEFINE s == vp_snapshot[p]
           H == has_voted[p]
           D == DOMAIN vp_snapshot[p]
<1>1. /\ Tally(p) = Total(s, H) /\ H \subseteq D /\ D \subseteq Accounts
      /\ \A a \in D : s[a] \in Nat
      /\ p \notin moved => Total(s, D) <= Supply
  BY DEF TallyInv, Counted, VotersRegistered, SnapshotsBacked, Snapshots, GovernanceInv,
         GovernanceTypeOK
<1>2. IsFiniteSet(D) /\ Supply \in Nat
  <2>1. Cardinality(Accounts) \in Nat /\ Funds \in Nat
    BY LedgerAssumption, FS_CardinalityType
  <2> QED BY <1>1, <2>1, LedgerAssumption, FS_Subset DEF Supply
<1>3. IsFiniteSet(H)
  BY <1>1, <1>2, FS_Subset
<1> HIDE DEF s, H, D
<1>4. Total(s, H) <= Total(s, D) /\ Total(s, H) \in Nat /\ Total(s, D) \in Nat
  <2>1. \A x \in D : s[x] \in Nat
    BY <1>1
  <2>2. \A x \in H : s[x] \in Nat /\ s[x] <= s[x]
    BY <1>1, <2>1
  <2> QED BY <1>1, <1>2, <1>3, <2>1, <2>2, TotalMonotone, TotalNat
<1>5. p \notin moved => Tally(p) <= Supply
  BY <1>1, <1>2, <1>4
<1> QED BY <1>1, <1>5 DEF s, H

\* A tally is the sum of what its voters had registered, each counted once, and
\* no more than the supply unless tokens moved between registrations (register,
\* vote).
THEOREM TalliesBacked == ContractSpec => []TallyIsBacked
<1>1. ContractInit => TallyInv
  <2> SUFFICES ASSUME ContractInit PROVE TallyInv
    OBVIOUS
  <2>1. /\ proposals = << >> /\ moved = {} /\ has_voted = [p \in Proposals |-> {}]
        /\ vp_snapshot = [p \in Proposals |-> << >>]
        /\ balance = [a \in Holders |-> IF a = Self THEN 0 ELSE Funds]
    BY DEF ContractInit, GovernanceInit, LedgerInit
  <2>2. DOMAIN proposals = {} /\ \A p \in Proposals : DOMAIN vp_snapshot[p] = {}
    BY <2>1
  <2>3. \A a \in Accounts : balance[a] = Funds
    BY <2>1, LedgerAssumption DEF Holders
  <2>4. Total(balance, Accounts) = Supply
    BY <2>3, LedgerAssumption, TotalConstant DEF Supply
  <2> QED BY <2>1, <2>2, <2>4 DEF TallyInv, Counted, VotersRegistered, SnapshotsCurrent,
             SnapshotsBacked, TokensWithVoters, Snapshots
<1> QED BY <1>1, TallyKeeps, TallyDecides, GovernanceInvariant, EscrowInvariant,
           MultiSigInvariant, PTL DEF ContractSpec

-----------------------------------------------------------------------------
\* Delegation

\* The delegations of one state, with its walks; a voter without a delegate is a root.
Roots(del) == {a \in Voters : del[a] = a}

\* The walk from a voter along its delegate, the delegate of that, and so on.
WalkIn(del, a) ==
  LET at[n \in 0 .. MaxHops] == IF n = 0 THEN a ELSE del[at[n - 1]]
  IN  at

\* No voters delegate in a circle: voters who delegate among themselves have a root.
Acyclic(del) ==
  \A S \in SUBSET Voters : S # {} /\ (\A a \in S : del[a] \in S) => S \cap Roots(del) # {}

\* Voters whose walk has met a root after n steps.
Grounded(del, n) == {a \in Voters : \E m \in 0 .. n : WalkIn(del, a)[m] \in Roots(del)}

\* What holds of the first step of a walk and, with each step, of the next, holds
\* of all of them.
LEMMA StepByStep ==
  ASSUME NEW first \in Nat, NEW last \in Nat, NEW G, first \in G,
         \A n \in first .. last : n \in G /\ n < last => n + 1 \in G
  PROVE  \A n \in first .. last : n \in G
<1> DEFINE B == {n \in first .. last : n \notin G}
<1> SUFFICES ASSUME B # {} PROVE FALSE
  OBVIOUS
<1>1. PICK n \in B : \A m \in B : n <= m
  <2>1. B \subseteq Nat
    OBVIOUS
  <2> HIDE DEF B
  <2> QED BY <2>1, LeastNatural
<1>2. n # first /\ n \in first .. last /\ n \notin G
  OBVIOUS
<1>3. n - 1 \in first .. last /\ n - 1 < last
  BY <1>2
<1>4. n - 1 \in G
  BY <1>1, <1>2, <1>3
<1> QED BY <1>2, <1>3, <1>4

\* A walk begins where it begins and goes on along the delegates.
LEMMA WalkSteps ==
  ASSUME NEW del \in [Voters -> Voters], NEW a \in Voters
  PROVE  /\ WalkIn(del, a)[0] = a
         /\ \A n \in 0 .. MaxHops : WalkIn(del, a)[n] \in Voters
         /\ \A n \in 0 .. MaxHops : n < MaxHops => WalkIn(del, a)[n + 1] = del[WalkIn(del, a)[n]]
<1> USE DelegationAssumption
<1> DEFINE P(f, k) == f = [n \in 0 .. k |-> IF n = 0 THEN a ELSE del[f[n - 1]]]
           G == {k \in 0 .. MaxHops : \E f : P(f, k)}
<1>1. 0 \in G
  <2> DEFINE f == [n \in 0 .. 0 |-> a]
  <2>1. P(f, 0)
    OBVIOUS
  <2> HIDE DEF P, f
  <2> QED BY <2>1, DelegationAssumption
<1>2. ASSUME NEW k \in 0 .. MaxHops, k \in G, k < MaxHops PROVE k + 1 \in G
  <2>1. PICK f : P(f, k)
    BY <1>2
  <2> DEFINE h == [n \in 0 .. k + 1 |-> IF n = k + 1 THEN del[f[k]] ELSE f[n]]
  <2>2. \A n \in 0 .. k : f[n] = IF n = 0 THEN a ELSE del[f[n - 1]]
    BY <2>1
  <2>3. ASSUME NEW n \in 0 .. k + 1 PROVE h[n] = IF n = 0 THEN a ELSE del[h[n - 1]]
    <3>1. CASE n = k + 1
      BY <3>1
    <3>2. CASE n \in 0 .. k
      <4>1. h[n] = f[n] /\ (n # 0 => h[n - 1] = f[n - 1])
        BY <3>2
      <4> HIDE DEF h
      <4> QED BY <2>2, <3>2, <4>1
    <3> QED BY <3>1, <3>2
  <2> DEFINE e == [n \in 0 .. k + 1 |-> IF n = 0 THEN a ELSE del[h[n - 1]]]
  <2>4. h = e
    BY <2>3
  <2>5. P(h, k + 1)
    BY <2>4
  <2>6. k + 1 \in 0 .. MaxHops
    BY <1>2
  <2> HIDE DEF P, h
  <2> QED BY <2>5, <2>6
<1>3. MaxHops \in G
  <2> HIDE DEF G
  <2> QED BY <1>1, <1>2, StepByStep
<1> DEFINE w == CHOOSE f : P(f, MaxHops)
<1>4. P(w, MaxHops)
  BY <1>3
<1>5. WalkIn(del, a) = w
  BY DEF WalkIn
<1> HIDE DEF w
<1>6. /\ w[0] = a
      /\ \A n \in 0 .. MaxHops : n < MaxHops => w[n + 1] = del[w[n]]
  <2>1. \A n \in 0 .. MaxHops : w[n] = IF n = 0 THEN a ELSE del[w[n - 1]]
    BY <1>4
  <2>2. ASSUME NEW n \in 0 .. MaxHops, n < MaxHops PROVE w[n + 1] = del[w[n]]
    <3>1. n + 1 \in 0 .. MaxHops /\ n + 1 # 0 /\ (n + 1) - 1 = n
      BY <2>2
    <3> QED BY <2>1, <3>1
  <2> QED BY <2>1, <2>2
<1>7. \A n \in 0 .. MaxHops : w[n] \in Voters
  <2> DEFINE V == {n \in 0 .. MaxHops : w[n] \in Voters}
  <2>1. 0 \in V
    BY <1>6
  <2>2. \A n \in 0 .. MaxHops : n \in V /\ n < MaxHops => n + 1 \in V
    BY <1>6
  <2> HIDE DEF V
  <2>3. \A n \in 0 .. MaxHops : n \in V
    BY <2>1, <2>2, StepByStep
  <2> QED BY <2>3 DEF V
<1> QED BY <1>5, <1>6, <1>7

\* The walk from a voter is the walk from its delegate, one step later.
LEMMA WalkFromDelegate ==
  ASSUME NEW del \in [Voters -> Voters], NEW a \in Voters
  PROVE  \A n \in 0 .. MaxHops : n < MaxHops => WalkIn(del, a)[n + 1] = WalkIn(del, del[a])[n]
<1> USE DelegationAssumption
<1> DEFINE w == WalkIn(del, a)
           v == WalkIn(del, del[a])
           G == {n \in 0 .. MaxHops : n < MaxHops => w[n + 1] = v[n]}
<1>1. /\ w[0] = a /\ v[0] = del[a]
      /\ \A n \in 0 .. MaxHops : n < MaxHops => w[n + 1] = del[w[n]]
      /\ \A n \in 0 .. MaxHops : n < MaxHops => v[n + 1] = del[v[n]]
  BY WalkSteps
<1> HIDE DEF w, v
<1>2. 0 \in G
  BY <1>1
<1>3. \A n \in 0 .. MaxHops : n \in G /\ n < MaxHops => n + 1 \in G
  BY <1>1
<1>4. \A n \in 0 .. MaxHops : n \in G
  <2> HIDE DEF G
  <2> QED BY <1>2, <1>3, StepByStep
<1> QED BY <1>4 DEF w, v

\* A walk that has met a root stays there.
LEMMA WalkStays ==
  ASSUME NEW del \in [Voters -> Voters], NEW a \in Voters, NEW m \in 0 .. MaxHops,
         WalkIn(del, a)[m] \in Roots(del)
  PROVE  \A n \in m .. MaxHops : WalkIn(del, a)[n] = WalkIn(del, a)[m]
<1> USE DelegationAssumption
<1> DEFINE w == WalkIn(del, a)
           G == {n \in m .. MaxHops : w[n] = w[m]}
<1>1. \A n \in 0 .. MaxHops : n < MaxHops => w[n + 1] = del[w[n]]
  BY WalkSteps
<1>2. del[w[m]] = w[m]
  BY DEF Roots
<1> HIDE DEF w
<1>3. m \in G
  OBVIOUS
<1>4. \A n \in m .. MaxHops : n \in G /\ n < MaxHops => n + 1 \in G
  BY <1>1, <1>2
<1>5. \A n \in m .. MaxHops : n \in G
  <2> HIDE DEF G
  <2> QED BY <1>3, <1>4, StepByStep
<1> QED BY <1>5 DEF w

\* With every step another voter meets a root, until all have.
LEMMA GroundedGrows ==
  ASSUME NEW del \in [Voters -> Voters], Acyclic(del), NEW n \in 0 .. MaxHops, n < MaxHops,
         Grounded(del, n) # Voters
  PROVE  \E a \in Voters \ Grounded(del, n) : a \in Grounded(del, n + 1)
<1> USE DelegationAssumption
<1> DEFINE S == Voters \ Grounded(del, n)
<1>1. S \cap Roots(del) = {}
  <2> SUFFICES ASSUME NEW a \in Voters, a \in Roots(del) PROVE a \in Grounded(del, n)
    OBVIOUS
  <2>1. WalkIn(del, a)[0] \in Roots(del)
    BY WalkSteps
  <2> QED BY <2>1 DEF Grounded
<1>2. S # {} /\ S \in SUBSET Voters
  BY DEF Grounded
<1>3. PICK a \in S : del[a] \notin S
  <2> HIDE DEF S
  <2> QED BY <1>1, <1>2 DEF Acyclic
<1>4. PICK m \in 0 .. n : WalkIn(del, del[a])[m] \in Roots(del)
  BY <1>3 DEF Grounded
<1>5. WalkIn(del, a)[m + 1] \in Roots(del)
  BY <1>4, WalkFromDelegate
<1>6. m + 1 \in 0 .. n + 1
  OBVIOUS
<1> QED BY <1>5, <1>6 DEF Grounded

\* So after n steps more than n voters have, unless all have.
LEMMA GroundedCount ==
  ASSUME NEW del \in [Voters -> Voters], Acyclic(del)
  PROVE  \A n \in 0 .. MaxHops : Grounded(del, n) = Voters \/ n < Cardinality(Grounded(del, n))
<1> USE DelegationAssumption, LedgerAssumption
<1> DEFINE G == {n \in 0 .. MaxHops : Grounded(del, n) = Voters \/ n < Cardinality(Grounded(del, n))}
<1>f. \A n \in 0 .. MaxHops : /\ IsFiniteSet(Grounded(del, n)) /\ Grounded(del, n) \subseteq Voters
                              /\ Cardinality(Grounded(del, n)) \in Nat
  BY FS_Subset, FS_CardinalityType DEF Grounded
<1>1. 0 \in G
  <2>1. CASE Voters = {}
    BY <2>1 DEF Grounded
  <2>2. CASE Voters # {}
    <3>1. PICK a \in Voters : a \in Roots(del)
      BY <2>2 DEF Acyclic, Roots
    <3>2. a \in Grounded(del, 0)
      BY <3>1, WalkSteps DEF Grounded
    <3>3. Cardinality(Grounded(del, 0)) # 0
      BY <1>f, <3>2, FS_EmptySet
    <3> QED BY <1>f, <3>3
  <2> QED BY <2>1, <2>2
<1>2. ASSUME NEW n \in 0 .. MaxHops, n \in G, n < MaxHops PROVE n + 1 \in G
  <2>1. n + 1 \in 0 .. MaxHops /\ Grounded(del, n) \subseteq Grounded(del, n + 1)
    BY <1>2 DEF Grounded
  <2>2. CASE Grounded(del, n) = Voters
    BY <1>f, <2>1, <2>2
  <2>3. CASE Grounded(del, n) # Voters
    <3>1. PICK a \in Voters \ Grounded(del, n) : a \in Grounded(del, n + 1)
      BY <1>2, <2>3, GroundedGrows
    <3> DEFINE S == Grounded(del, n)
               T == Grounded(del, n + 1)
    <3>2. IsFiniteSet(S) /\ IsFiniteSet(T) /\ S \subseteq T /\ a \in T /\ a \notin S /\ n < Cardinality(S)
      BY <1>f, <1>2, <2>1, <2>3, <3>1
    <3>3. Cardinality(S) \in Nat /\ Cardinality(T) \in Nat
      BY <1>f, <2>1
    <3> HIDE DEF S, T
    <3>4. Cardinality(S) < Cardinality(T)
      BY <3>2, <3>3, FS_Subset
    <3> QED BY <2>1, <3>2, <3>3, <3>4 DEF T, S
  <2> QED BY <2>2, <2>3
<1>3. \A n \in 0 .. MaxHops : n \in G
  <2> HIDE DEF G
  <2> QED BY <1>1, <1>2, StepByStep
<1> QED BY <1>3

\* Every walk meets a root before its last step when there are no more voters than
\* steps.
LEMMA AllGrounded ==
  ASSUME NEW del \in [Voters -> Voters], Acyclic(del), MaxHops >= Cardinality(Voters), NEW a \in Voters
  PROVE  \E m \in 0 .. MaxHops - 1 : WalkIn(del, a)[m] \in Roots(del)
<1> USE DelegationAssumption, LedgerAssumption
<1> DEFINE N == Cardinality(Voters)
<1>1. N \in Nat /\ N # 0
  BY FS_CardinalityType, FS_EmptySet
<1>2. N - 1 \in 0 .. MaxHops /\ N - 1 \in 0 .. MaxHops - 1
  BY <1>1
<1> DEFINE S == Grounded(del, N - 1)
<1>3. S = Voters
  <2>1. S \subseteq Voters /\ IsFiniteSet(S) /\ Cardinality(S) \in Nat
    BY FS_Subset, FS_CardinalityType DEF Grounded
  <2>2. S = Voters \/ N - 1 < Cardinality(S)
    BY <1>2, GroundedCount
  <2>3. S # Voters => Cardinality(S) < N
    <3> HIDE DEF S
    <3>1. IsFiniteSet(Voters)
      OBVIOUS
    <3>2. Cardinality(S) <= N /\ (N = Cardinality(S) => Voters = S)
      BY <2>1, <3>1, FS_Subset
    <3> QED BY <1>1, <2>1, <3>2
  <2> HIDE DEF S, N
  <2> QED BY <1>1, <2>1, <2>2, <2>3
<1>4. PICK m \in 0 .. N - 1 : WalkIn(del, a)[m] \in Roots(del)
  BY <1>3 DEF Grounded
<1>5. m \in 0 .. MaxHops - 1
  BY <1>1, <1>2
<1> QED BY <1>4, <1>5

\* Delegating makes no circle: the walk from the representative meets a root before
\* it would meet the delegator.
LEMMA DelegateKeepsAcyclic ==
  ASSUME NEW del \in [Voters -> Voters], Acyclic(del), MaxHops >= Cardinality(Voters),
         NEW a \in Voters, NEW b \in Voters, a # b,
         \A n \in 0 .. MaxHops - 1 : WalkIn(del, b)[n] # a
  PROVE  Acyclic([del EXCEPT ![a] = b])
<1> USE DelegationAssumption
<1> DEFINE new == [del EXCEPT ![a] = b]
<1>1. new[a] = b /\ \A v \in Voters : v # a => new[v] = del[v]
  OBVIOUS
<1> HIDE DEF new
<1> SUFFICES ASSUME NEW S \in SUBSET Voters, S # {}, \A v \in S : new[v] \in S
             PROVE  S \cap Roots(new) # {}
  BY DEF Acyclic, new
<1>2. CASE a \notin S
  <2>1. \A v \in S : del[v] \in S
    BY <1>1, <1>2
  <2>2. PICK v \in S : v \in Roots(del)
    BY <2>1 DEF Acyclic
  <2>3. v \in Roots(new)
    BY <1>1, <1>2, <2>2 DEF Roots
  <2> QED BY <2>3
<1>3. CASE a \in S
  <2> DEFINE w == WalkIn(del, b)
             G == {n \in 0 .. MaxHops - 1 : w[n] \in S}
  <2>1. PICK m \in 0 .. MaxHops - 1 : w[m] \in Roots(del)
    BY AllGrounded
  <2>2. \A n \in 0 .. m : w[n] \in S
    <3>1. /\ w[0] = b
          /\ \A n \in 0 .. MaxHops : n < MaxHops => w[n + 1] = del[w[n]]
          /\ \A n \in 0 .. MaxHops : w[n] \in Voters
      BY WalkSteps
    <3> HIDE DEF w
    <3>2. 0 \in G
      BY <1>1, <1>3, <2>1, <3>1
    <3>3. \A n \in 0 .. m : n \in G /\ n < m => n + 1 \in G
      <4> SUFFICES ASSUME NEW n \in 0 .. m, n \in G, n < m PROVE n + 1 \in G
        OBVIOUS
      <4>1. w[n] # a
        BY <2>1 DEF w
      <4>2. w[n + 1] = new[w[n]]
        BY <1>1, <2>1, <3>1, <4>1
      <4>3. w[n + 1] \in S /\ n + 1 \in 0 .. MaxHops - 1
        BY <2>1, <4>2
      <4> QED BY <4>3
    <3> HIDE DEF G
    <3>4. \A n \in 0 .. m : n \in G
      BY <3>2, <3>3, StepByStep
    <3> QED BY <3>4 DEF G
  <2>3. w[m] # a /\ w[m] \in S /\ w[m] \in Voters
    BY <2>1, <2>2
  <2> HIDE DEF w
  <2>4. w[m] \in Roots(new)
    BY <1>1, <2>1, <2>3 DEF Roots
  <2> QED BY <2>3, <2>4
<1> QED BY <1>2, <1>3

\* The inductive invariant of delegation: when a walk may take as many steps as
\* there are voters, nobody delegates in a circle.
DelegationInv ==
  DelegationTypeOK /\ (MaxHops >= Cardinality(Voters) => Acyclic(delegates))

\* The walks of the state are those of its delegates.
LEMMA WalksOfState == \A a : Walk(a) = WalkIn(delegates, a)
BY DEF Walk, WalkIn

\* At first every voter represents itself.
LEMMA DelegationInvInit == ContractInit => DelegationInv
<1> SUFFICES ASSUME ContractInit PROVE DelegationInv
  OBVIOUS
<1>1. /\ power = [a \in Voters |-> 0]
      /\ delegates = [a \in Voters |-> a]
  BY DEF ContractInit, DelegationInit
<1> QED BY <1>1 DEF DelegationInv, DelegationTypeOK, Acyclic, Roots

\* Delegating and taking a delegation back make no circle.
LEMMA DelegationInvStep == DelegationInv /\ [ContractNext]_contractVars => DelegationInv'
<1> SUFFICES ASSUME DelegationInv, [ContractNext]_contractVars PROVE DelegationInv'
  OBVIOUS
<1>1. DelegationTypeOK /\ DelegationTypeOK'
  BY DelegationTyped DEF DelegationInv
<1>2. delegates \in [Voters -> Voters]
  BY <1>1 DEF DelegationTypeOK
<1> SUFFICES ASSUME MaxHops >= Cardinality(Voters), Acyclic(delegates) PROVE Acyclic(delegates')
  BY <1>1 DEF DelegationInv, Acyclic, Roots
<1>3. CASE DelegationNext
  <2>1. CASE delegates' = delegates
    BY <2>1
  <2>2. ASSUME NEW a \in Voters, NEW b \in Voters, Delegate(a, b) PROVE Acyclic(delegates')
    <3>1. /\ a # b /\ \A n \in 0 .. MaxHops - 1 : WalkIn(delegates, b)[n] # a
          /\ delegates' = [delegates EXCEPT ![a] = b]
      BY <2>2, WalksOfState DEF Delegate
    <3> QED BY <1>2, <3>1, DelegateKeepsAcyclic
  <2>3. ASSUME NEW a \in Voters, ClearDelegation(a) PROVE Acyclic(delegates')
    <3>1. delegates' = [delegates EXCEPT ![a] = a]
      BY <2>3 DEF ClearDelegation
    <3>2. \A v \in Voters : delegates'[v] = delegates[v] \/ (v = a /\ delegates'[v] = v)
      BY <1>2, <3>1
    <3> QED BY <3>2 DEF Acyclic, Roots
  <2> QED BY <1>3, <2>1, <2>2, <2>3 DEF DelegationNext, SetVotingPower
<1>4. CASE UNCHANGED delegationVars
  BY <1>4 DEF delegationVars
<1> QED BY <1>3, <1>4 DEF ContractNext, contractVars

\* The root that each voter's walk ends in.
Root(del, a) == WalkIn(del, a)[MaxHops]

\* In the sum of a representative who delegates to nobody is every voter whose walk
\* ends there, itself included.
LEMMA ReachesItsRoot ==
  ASSUME NEW del \in [Voters -> Voters], Acyclic(del), MaxHops >= Cardinality(Voters),
         NEW a \in Voters
  PROVE  /\ Root(del, a) \in Roots(del)
         /\ a \in Roots(del) => Root(del, a) = a
         /\ \A rep \in Roots(del) : (\E n \in 1 .. MaxHops : WalkIn(del, a)[n] = rep) <=> Root(del, a) = rep
<1> USE DelegationAssumption
<1>1. PICK m \in 0 .. MaxHops - 1 : WalkIn(del, a)[m] \in Roots(del)
  BY AllGrounded
<1>2. MaxHops \in 1 .. MaxHops /\ m \in 0 .. MaxHops /\ MaxHops \in m .. MaxHops
  BY <1>1
<1>3. Root(del, a) = WalkIn(del, a)[m]
  BY <1>1, <1>2, WalkStays DEF Root
<1>4. WalkIn(del, a)[0] = a
  BY WalkSteps
<1>5. a \in Roots(del) => Root(del, a) = a
  <2>1. 0 \in 0 .. MaxHops /\ MaxHops \in 0 .. MaxHops
    BY <1>2
  <2> QED BY <1>4, <2>1, WalkStays DEF Root
<1>6. ASSUME NEW rep \in Roots(del), NEW n \in 1 .. MaxHops, WalkIn(del, a)[n] = rep
      PROVE  Root(del, a) = rep
  <2>1. n \in 0 .. MaxHops /\ MaxHops \in n .. MaxHops
    OBVIOUS
  <2> QED BY <1>6, <2>1, WalkStays DEF Root
<1> QED BY <1>1, <1>2, <1>3, <1>5, <1>6 DEF Root

\* The voters whose walk ends at a representative.
Following(del, rep) == {v \in Voters : Root(del, v) = rep}

\* get_voting_power adds up the power of those voters.
LEMMA PowerOfFollowing ==
  ASSUME DelegationInv, MaxHops >= Cardinality(Voters), NEW rep \in Roots(delegates)
  PROVE  VotingPower(rep) = Total(power, Following(delegates, rep))
<1> DEFINE A == {v \in Voters : /\ delegates[v] # v
                                /\ \E n \in 1 .. MaxHops : Walk(v)[n] = rep}
<1>1. /\ delegates \in [Voters -> Voters] /\ power \in [Voters -> Nat] /\ Acyclic(delegates)
      /\ rep \in Voters /\ IsFiniteSet(Voters)
  BY LedgerAssumption DEF DelegationInv, DelegationTypeOK, Roots
<1>2. Following(delegates, rep) = A \cup {rep} /\ rep \notin A
  <2>1. ASSUME NEW v \in Voters PROVE (v \in A \/ v = rep) <=> v \in Following(delegates, rep)
    <3>1. (\E n \in 1 .. MaxHops : Walk(v)[n] = rep) <=> Root(delegates, v) = rep
      BY <1>1, ReachesItsRoot, WalksOfState
    <3>2. v \in Roots(delegates) => Root(delegates, v) = v
      BY <1>1, ReachesItsRoot
    <3>3. v \in Roots(delegates) <=> delegates[v] = v
      BY DEF Roots
    <3> QED BY <3>1, <3>2, <3>3 DEF Following
  <2>2. rep \notin A
    BY DEF Roots
  <2>3. A \subseteq Voters /\ Following(delegates, rep) \subseteq Voters
    BY DEF Following
  <2> HIDE DEF A
  <2> QED BY <1>1, <2>1, <2>2, <2>3
<1>3. VotingPower(rep) = power[rep] + Total(power, A)
  BY DEF VotingPower, Total
<1>4. IsFiniteSet(A)
  BY <1>1, FS_Subset
<1>5. A \subseteq Voters
  OBVIOUS
<1> HIDE DEF A
<1>6. Total(power, A \cup {rep}) = power[rep] + Total(power, A)
  BY <1>1, <1>2, <1>4, <1>5, TotalAdd
<1> QED BY <1>2, <1>3, <1>6

\* The sum over the representatives is a sum of sums.
LEMMA PowerOfRoots ==
  ASSUME DelegationInv, MaxHops >= Cardinality(Voters)
  PROVE  MapThenSumSet(VotingPower, Roots(delegates)) =
         Total([y \in Roots(delegates) |-> Total(power, Following(delegates, y))], Roots(delegates))
<1> DEFINE R == Roots(delegates)
           f == [y \in R |-> Total(power, Following(delegates, y))]
           P(g) == g = [T \in SUBSET R |-> IF T = {} THEN 0
                          ELSE VotingPower(CHOOSE x \in T : TRUE) + g[T \ {CHOOSE x \in T : TRUE}]]
<1>1. IsFiniteSet(R)
  BY LedgerAssumption, FS_Subset DEF Roots
<1>2. \A y \in R : f[y] = VotingPower(y)
  BY PowerOfFollowing
<1> HIDE DEF f
<1>3. \A g : P(g) <=> Adds(g, f, R)
  <2> SUFFICES ASSUME NEW g PROVE P(g) <=> Adds(g, f, R)
    OBVIOUS
  <2>1. \A T \in SUBSET R : T # {} => f[Pick(T)] = VotingPower(CHOOSE x \in T : TRUE)
    <3> SUFFICES ASSUME NEW T \in SUBSET R, T # {} PROVE f[Pick(T)] = VotingPower(Pick(T))
      BY DEF Pick
    <3> QED BY <1>2, PickIn
  <2> HIDE DEF R
  <2> QED BY <2>1 DEF Adds, Pick
<1>4. MapThenSumSet(VotingPower, R) = (CHOOSE g : P(g))[R]
  BY DEF MapThenSumSet, MapThenFoldSet
<1>5. PICK h : Adds(h, f, R) /\ Total(f, R) = h[R]
  BY <1>1, TotalAdds
<1> DEFINE c == CHOOSE g : P(g)
<1>6. P(c)
  <2> HIDE DEF P, R
  <2> QED BY <1>3, <1>5
<1> HIDE DEF P, R, c
<1>7. Adds(c, f, R)
  BY <1>3, <1>6
<1>8. c[R] = h[R]
  BY <1>1, <1>5, <1>7, AddsAgree
<1> QED BY <1>4, <1>5, <1>8 DEF c, f, R

\* The power of the voters who delegate to nobody, with all that
\* get_voting_power adds to it, is the power of all voters: none vanishes in a
\* circle and none counts twice, as long as MAX_HOPS is no smaller than the
\* number of voters.
THEOREM PowerIsConserved == ContractSpec => []PowerCountedOnce
<1>1. DelegationInv => PowerCountedOnce
  <2> SUFFICES ASSUME DelegationInv, MaxHops >= Cardinality(Voters)
               PROVE  MapThenSumSet(VotingPower, Roots(delegates)) = Total(power, Voters)
    BY DEF PowerCountedOnce, Roots, Total
  <2> DEFINE R == Roots(delegates)
             r == [v \in Voters |-> Root(delegates, v)]
  <2>1. /\ delegates \in [Voters -> Voters] /\ power \in [Voters -> Nat] /\ Acyclic(delegates)
        /\ IsFiniteSet(Voters)
    BY LedgerAssumption DEF DelegationInv, DelegationTypeOK
  <2>2. \A v \in Voters : r[v] \in R
    BY <2>1, ReachesItsRoot
  <2>3. IsFiniteSet(R)
    BY <2>1, FS_Subset DEF Roots
  <2>4. \A y : Following(delegates, y) = {v \in Voters : r[v] = y}
    BY DEF Following
  <2> HIDE DEF r, R
  <2>5. Total([y \in R |-> Total(power, {v \in Voters : r[v] = y})], R) = Total(power, Voters)
    BY <2>1, <2>2, <2>3, TotalFibers
  <2>6. MapThenSumSet(VotingPower, R) = Total([y \in R |-> Total(power, Following(delegates, y))], R)
    BY PowerOfRoots DEF R
  <2> QED BY <2>4, <2>5, <2>6 DEF R
<1> QED BY <1>1, DelegationInvInit, DelegationInvStep, PTL DEF ContractSpec

=============================================================================

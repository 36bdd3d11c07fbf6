-------------------------------- MODULE Escrow --------------------------------
(***************************************************************************)
(* The contracts of lib.rs that take tokens, or promises of tokens, under  *)
(* an id and let them go later: Escrow, MilestoneEscrow, DisputeEscrow,    *)
(* AdminRecoveryEscrow, ExpiringEscrow, CampaignDonationEscrow, both HTLCs,*)
(* both Refund contracts, and QuoteLock.  contract says which one is       *)
(* deployed; each public function is one action.                           *)
(*                                                                         *)
(* Whoever must sign a call signs it: an action stands for the call by the *)
(* address that require_auth asks for.  The hash of an HTLC is abstract: a *)
(* withdrawal is a call with the right preimage.                           *)
(***************************************************************************)
EXTENDS Ledger, FiniteSetsExt

CONSTANTS
  Ids,          \* milestone, escrow, campaign, lock, donation and quote ids
  Amounts,      \* amounts callers choose
  Percentages   \* basis points callers choose

BasisPoints == 10000

ASSUME EscrowAssumption ==
  /\ IsFiniteSet(Ids)
  /\ Amounts \subseteq Nat \ {0}
  /\ Percentages \subseteq 1 .. BasisPoints

VARIABLES
  entry,        \* the entry stored under each id
  released      \* history: what release_milestone has paid under each id

escrowVars == <<entry, released>>

Kinds == {"escrow", "milestone", "dispute", "recovery", "expiring", "campaign",
          "htlc", "strict_htlc", "refund", "refund_record", "quote"}

Nobody == "nobody"
Entry(state, from, to, amount, until) ==
  [state |-> state, from |-> from, to |-> to, amount |-> amount, until |-> until, bps |-> 0]
NoEntry == Entry("none", Nobody, Nobody, 0, 0)
States  == {"none", "pending", "active", "frozen", "paid", "refunded"}

EscrowInit ==
  /\ entry = [i \in Ids |-> NoEntry]
  /\ released = [i \in Ids |-> 0]

\* The ids whose tokens the contract holds.
Open(i) == entry[i].state \in {"active", "frozen"}

-----------------------------------------------------------------------------
\* The two halves of most functions: tokens come in under a new or pending
\* entry, and tokens go out while the entry is closed or removed.
TakeIn(i, from, e) ==
  /\ Transfer(from, Self, e.amount)
  /\ entry' = [entry EXCEPT ![i] = e]
  /\ UNCHANGED <<contract, now, released>>

PayOut(i, to, e) ==
  /\ Transfer(Self, to, entry[i].amount)
  /\ entry' = [entry EXCEPT ![i] = e]
  /\ UNCHANGED <<contract, now, released>>

\* Functions that write an entry and move no tokens.
Store(i, e) ==
  /\ entry' = [entry EXCEPT ![i] = e]
  /\ UNCHANGED <<ledgerVars, released>>

Deposited(from, amount) == Entry("active", from, Nobody, amount, 0)

Become(i, state) == [entry[i] EXCEPT !.state = state]

Is(kind, i, state) == contract = kind /\ entry[i].state = state

-----------------------------------------------------------------------------
\* EscrowContract: milestones are paid out of a common pot, in percentages
\* that grow; anybody may fund a milestone, any number of times.
CreateShare(i, to, amount) ==
  /\ Is("escrow", i, "none")
  /\ Store(i, Entry("pending", Nobody, to, amount, 0))

FundMilestone(i, from) ==
  /\ Is("escrow", i, "pending")
  /\ Transfer(from, Self, entry[i].amount)
  /\ UNCHANGED <<contract, now, escrowVars>>

\* Mutant: the whole percentage is paid again, not what has been added to it.
ReleaseMilestoneWhole(i, bps) ==
  /\ Is("escrow", i, "pending")
  /\ bps > entry[i].bps
  /\ LET part == (entry[i].amount * bps) \div BasisPoints
     IN  /\ Transfer(Self, entry[i].to, part)
         /\ released' = [released EXCEPT ![i] = @ + part]
  /\ entry' = [entry EXCEPT ![i].bps = bps]
  /\ UNCHANGED <<contract, now>>

ReleaseMilestone(i, bps) ==
  /\ Is("escrow", i, "pending")
  /\ bps > entry[i].bps
  /\ LET part == (entry[i].amount * (bps - entry[i].bps)) \div BasisPoints
     IN  /\ Transfer(Self, entry[i].to, part)
         /\ released' = [released EXCEPT ![i] = @ + part]
  /\ entry' = [entry EXCEPT ![i].bps = bps]
  /\ UNCHANGED <<contract, now>>

\* MilestoneEscrowContract
CreateMilestone(i, to, amount) ==
  /\ Is("milestone", i, "none")
  /\ Store(i, Entry("pending", Nobody, to, amount, 0))

LockFunds(i, from) ==
  /\ Is("milestone", i, "pending")
  /\ TakeIn(i, from, Become(i, "active"))

\* Mutant: the status is not written back after the transfer.
CompleteMilestoneUnmarked(i) ==
  /\ Is("milestone", i, "active")
  /\ PayOut(i, entry[i].to, entry[i])

CompleteMilestone(i) ==
  /\ Is("milestone", i, "active")
  /\ PayOut(i, entry[i].to, Become(i, "paid"))

\* DisputeEscrowContract
DisputeDeposit(i, from, amount) ==
  /\ Is("dispute", i, "none")
  /\ TakeIn(i, from, Deposited(from, amount))

Freeze(i) ==
  /\ Is("dispute", i, "active")
  /\ balance[Self] >= entry[i].amount
  /\ Store(i, Become(i, "frozen"))

Unfreeze(i) ==
  /\ Is("dispute", i, "frozen")
  /\ Store(i, Become(i, "active"))

DisputeRelease(i, to) ==
  /\ Is("dispute", i, "active")
  /\ PayOut(i, to, NoEntry)

\* AdminRecoveryEscrowContract: release is the admin's call, emergency_recover
\* the recovery admin's.
RecoveryDeposit(i, from, amount) ==
  /\ Is("recovery", i, "none")
  /\ TakeIn(i, from, Deposited(from, amount))

RecoveryRelease(i, to) ==
  /\ Is("recovery", i, "active")
  /\ PayOut(i, to, NoEntry)

EmergencyRecover(i, to) ==
  /\ Is("recovery", i, "active")
  /\ PayOut(i, to, NoEntry)

\* ExpiringEscrowContract
ExpiringDeposit(i, from, amount, until) ==
  /\ Is("expiring", i, "none")
  /\ until > now
  /\ TakeIn(i, from, Entry("active", from, Nobody, amount, until))

\* Mutant: the expiry is compared the wrong way at the boundary.
ExpiringReleaseAtExpiry(i, to) ==
  /\ Is("expiring", i, "active")
  /\ now <= entry[i].until
  /\ PayOut(i, to, NoEntry)

ExpiringRelease(i, to) ==
  /\ Is("expiring", i, "active")
  /\ now < entry[i].until
  /\ PayOut(i, to, NoEntry)

Reclaim(i) ==
  /\ Is("expiring", i, "active")
  /\ now >= entry[i].until
  /\ PayOut(i, entry[i].from, NoEntry)

\* CampaignDonationEscrowContract: one pot per campaign.
Donate(i, from, amount) ==
  /\ contract = "campaign"
  /\ Transfer(from, Self, amount)
  /\ entry' = [entry EXCEPT ![i] = Deposited(Nobody, @.amount + amount)]
  /\ UNCHANGED <<contract, now, released>>

ReleaseToCampaign(i, creator) ==
  /\ Is("campaign", i, "active")
  /\ PayOut(i, creator, NoEntry)

\* HTLCContract, both versions.
Lock(i, from, to, amount, until) ==
  /\ contract \in {"htlc", "strict_htlc"}
  /\ entry[i].state = "none"
  /\ until > now
  /\ TakeIn(i, from, Entry("active", from, to, amount, until))

\* The first version lets the recipient withdraw at any time.
Withdraw(i) ==
  /\ Is("htlc", i, "active")
  /\ PayOut(i, entry[i].to, Become(i, "paid"))

WithdrawInTime(i) ==
  /\ Is("strict_htlc", i, "active")
  /\ now < entry[i].until
  /\ PayOut(i, entry[i].to, Become(i, "paid"))

\* Mutant: the time lock is compared the wrong way round.
RefundNever(i) ==
  /\ contract \in {"htlc", "strict_htlc"}
  /\ entry[i].state = "active"
  /\ now < entry[i].until
  /\ PayOut(i, entry[i].from, Become(i, "refunded"))

Refund(i) ==
  /\ contract \in {"htlc", "strict_htlc"}
  /\ entry[i].state = "active"
  /\ now >= entry[i].until
  /\ PayOut(i, entry[i].from, Become(i, "refunded"))

\* RefundContract: the first version pulls the donation in, the second only
\* records it and refunds out of whatever the contract has been sent.
RecordPayment(i, from, amount) ==
  /\ Is("refund", i, "none")
  /\ TakeIn(i, from, Deposited(from, amount))

RecordDonation(i, from, amount) ==
  /\ Is("refund_record", i, "none")
  /\ Store(i, Deposited(from, amount))

ProcessRefund(i) ==
  /\ Is("refund", i, "active")
  /\ PayOut(i, entry[i].from, Become(i, "refunded"))

ProcessRecordedRefund(i) ==
  /\ Is("refund_record", i, "active")
  /\ PayOut(i, entry[i].from, Become(i, "refunded"))

\* QuoteLockContract moves no tokens.
LockQuote(i, creator, until) ==
  /\ Is("quote", i, "none")
  /\ until > now
  /\ Store(i, Entry("pending", creator, Nobody, 0, until))

ExecuteQuote(i) ==
  /\ Is("quote", i, "pending")
  /\ now < entry[i].until
  /\ Store(i, Become(i, "paid"))

-----------------------------------------------------------------------------
\* Calls that open or fund an entry.
Opening(i) ==
  \E a \in Accounts, m \in Amounts :
    \/ FundMilestone(i, a)       \/ CreateShare(i, a, m)
    \/ LockFunds(i, a)           \/ CreateMilestone(i, a, m)
    \/ DisputeDeposit(i, a, m)   \/ RecoveryDeposit(i, a, m)
    \/ RecordPayment(i, a, m)    \/ RecordDonation(i, a, m)
    \/ Donate(i, a, m)
    \/ \E u \in 1 .. MaxTime :
         \/ ExpiringDeposit(i, a, m, u) \/ LockQuote(i, a, u)
         \/ \E b \in Accounts : Lock(i, a, b, m, u)

\* Calls by which tokens, or promises, leave or are held back.
Closing(i) ==
  \/ CompleteMilestone(i) \/ Freeze(i) \/ Unfreeze(i)
  \/ Withdraw(i)          \/ WithdrawInTime(i) \/ ExecuteQuote(i)
  \/ ProcessRefund(i)     \/ ProcessRecordedRefund(i)
  \/ \E b \in Percentages : ReleaseMilestone(i, b)
  \/ \E a \in Accounts :
       \/ DisputeRelease(i, a)  \/ RecoveryRelease(i, a) \/ EmergencyRecover(i, a)
       \/ ExpiringRelease(i, a) \/ ReleaseToCampaign(i, a)

\* Calls by which a depositor takes expired tokens back.
TakeBack(i) == Reclaim(i) \/ Refund(i)

EscrowNext == \E i \in Ids : Opening(i) \/ Closing(i) \/ TakeBack(i)

-----------------------------------------------------------------------------
EscrowTypeOK ==
  /\ \A i \in Ids :
       /\ entry[i].state \in States
       /\ entry[i].from \in Accounts \cup {Nobody}
       /\ entry[i].to \in Accounts \cup {Nobody}
       /\ entry[i].amount \in Nat
       /\ entry[i].until \in Nat
       /\ entry[i].bps \in 0 .. BasisPoints
  /\ released \in [Ids -> Nat]

\* The contracts whose open entries were all paid in when they were opened.
Custodial == {"milestone", "dispute", "recovery", "expiring", "campaign", "htlc",
              "strict_htlc", "refund"}

Owed == MapThenSumSet(LAMBDA i : entry[i].amount, {i \in Ids : Open(i)})

\* The contract holds what it owes on all open entries together, whatever is
\* opened, paid, frozen, refunded or sent in between: no release is ever paid
\* with the tokens of another entry.
Solvent == contract \in Custodial => balance[Self] >= Owed

\* Releases in steps pay no more than the percentage released so far, whatever
\* the steps and the rounding of each.
ReleasedInProportion ==
  \A i \in Ids : released[i] * BasisPoints <= entry[i].amount * entry[i].bps

\* Once an entry of an expiring escrow or of the second HTLC has expired, its
\* tokens go back to the depositor and to nobody else.
ExpiredGoesBack ==
  [][\A i \in Ids :
       contract \in {"expiring", "strict_htlc"} /\ Open(i) /\ now >= entry[i].until
         /\ entry'[i].state # entry[i].state
         => balance'[entry[i].from] = balance[entry[i].from] + entry[i].amount]_<<ledgerVars, escrowVars>>

\* No deposit with an expiry is locked for ever: it is released or comes back
\* ("preventing funds from being locked forever on abandoned campaigns").
NothingLockedForever ==
  \A i \in Ids :
    contract \in {"expiring", "htlc", "strict_htlc"} /\ Open(i) ~> ~Open(i)

=============================================================================

------------------------------ MODULE Governance ------------------------------
(***************************************************************************)
(* GovernanceContract of lib.rs.  The governance token is the token of the *)
(* ledger, and voters may move it at any time; a vote counts what the      *)
(* voter held when the snapshot was registered.  The quorum is stored and  *)
(* read by nothing, and update_governance_token is left out.               *)
(***************************************************************************)
EXTENDS Ledger, FiniteSetsExt

CONSTANTS
  MaxProposals, \* bound on proposal_count
  Durations     \* voting periods authors choose

ASSUME GovernanceAssumption ==
  /\ MaxProposals \in Nat
  /\ Durations \subseteq Nat

VARIABLES
  proposals,    \* proposals, with votes_for and votes_against
  vp_snapshot,  \* the weight registered, for each proposal and voter
  has_voted,    \* who voted on each proposal
  moved         \* history: proposals during whose voting period tokens moved

governanceVars == <<proposals, vp_snapshot, has_voted, moved>>

Proposals == 1 .. MaxProposals

GovernanceInit ==
  /\ proposals = << >>
  /\ vp_snapshot = [p \in Proposals |-> << >>]
  /\ has_voted = [p \in Proposals |-> {}]
  /\ moved = {}

Exists(p) == p \in DOMAIN proposals

\* Both bounds of the voting period are inside it.
Voting(p) == Exists(p) /\ proposals[p].start_time <= now /\ now <= proposals[p].end_time

CreateProposal(duration) ==
  /\ contract = "governance" /\ Cardinality(DOMAIN proposals) < MaxProposals
  /\ proposals' = [p \in DOMAIN proposals \cup {Cardinality(DOMAIN proposals) + 1} |->
                     IF Exists(p) THEN proposals[p]
                     ELSE [start_time |-> now, end_time |-> now + duration, executed |-> FALSE,
                           votes_for |-> 0, votes_against |-> 0]]
  /\ UNCHANGED <<ledgerVars, vp_snapshot, has_voted, moved>>

\* The snapshots of a proposal with the voter's balance of now.
Registered(snapshot, voter) ==
  [a \in DOMAIN snapshot \cup {voter} |-> IF a = voter THEN balance[voter] ELSE snapshot[a]]

\* Mutant: a later call replaces the first snapshot.
SnapshotAgain(p, voter) ==
  /\ contract = "governance" /\ Voting(p)
  /\ vp_snapshot' = [vp_snapshot EXCEPT ![p] = Registered(@, voter)]
  /\ UNCHANGED <<ledgerVars, proposals, has_voted, moved>>

SnapshotVotingPower(p, voter) ==
  /\ contract = "governance" /\ Voting(p)
  /\ voter \notin DOMAIN vp_snapshot[p]
  /\ vp_snapshot' = [vp_snapshot EXCEPT ![p] = Registered(@, voter)]
  /\ UNCHANGED <<ledgerVars, proposals, has_voted, moved>>

CastVote(p, voter, in_favor) ==
  /\ contract = "governance" /\ Voting(p)
  /\ voter \notin has_voted[p]
  /\ voter \in DOMAIN vp_snapshot[p] /\ vp_snapshot[p][voter] > 0
  /\ proposals' = IF in_favor
                  THEN [proposals EXCEPT ![p].votes_for = @ + vp_snapshot[p][voter]]
                  ELSE [proposals EXCEPT ![p].votes_against = @ + vp_snapshot[p][voter]]
  /\ has_voted' = [has_voted EXCEPT ![p] = @ \cup {voter}]
  /\ UNCHANGED <<ledgerVars, vp_snapshot, moved>>

\* A rejected proposal is marked executed too; only the event differs.
ExecuteProposal(p) ==
  /\ contract = "governance" /\ Exists(p)
  /\ ~proposals[p].executed /\ now > proposals[p].end_time
  /\ proposals' = [proposals EXCEPT ![p].executed = TRUE]
  /\ UNCHANGED <<ledgerVars, vp_snapshot, has_voted, moved>>

\* The token contract's transfer, which the governance contract does not see.
MoveVotes(from, to, amount) ==
  /\ contract = "governance"
  /\ Send(from, to, amount)
  /\ moved' = moved \cup {p \in Proposals : Voting(p)}
  /\ UNCHANGED <<proposals, vp_snapshot, has_voted>>

GovernanceNext ==
  \/ \E d \in Durations : CreateProposal(d)
  \/ \E p \in Proposals :
       \/ ExecuteProposal(p)
       \/ \E a \in Accounts :
            \/ SnapshotVotingPower(p, a)
            \/ \E f \in BOOLEAN : CastVote(p, a, f)
  \/ \E a, b \in Accounts : MoveVotes(a, b, 1)

GovernanceTypeOK ==
  /\ DOMAIN proposals \subseteq Proposals
  /\ \A p \in DOMAIN proposals :
       proposals[p] \in [start_time : Nat, end_time : Nat, executed : BOOLEAN,
                         votes_for : Nat, votes_against : Nat]
  /\ \A p \in Proposals :
       /\ has_voted[p] \subseteq Accounts
       /\ DOMAIN vp_snapshot[p] \subseteq Accounts
       /\ \A a \in DOMAIN vp_snapshot[p] : vp_snapshot[p][a] \in Nat
  /\ moved \subseteq Proposals

\* The tally of a proposal is what its voters had registered when they voted,
\* each once, whatever they registered or moved before and after; and it is no
\* more than there are tokens, as long as no token moved while the proposal was
\* open.  A token that moves can be registered again by its new holder.
TallyIsBacked ==
  \A p \in DOMAIN proposals :
    LET tally == proposals[p].votes_for + proposals[p].votes_against
    IN  /\ tally = MapThenSumSet(LAMBDA a : vp_snapshot[p][a], has_voted[p])
        /\ p \notin moved => tally <= Supply

\* Nothing changes the tally of a proposal that has been decided.
DecisionFinal ==
  [][\A p \in DOMAIN proposals :
       proposals[p].executed => proposals'[p] = proposals[p]]_<<ledgerVars, governanceVars>>

=============================================================================

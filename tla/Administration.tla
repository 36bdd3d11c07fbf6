---------------------------- MODULE Administration ----------------------------
(***************************************************************************)
(* IgnitionPayContract of lib.rs: who is authorized, and which code runs.  *)
(* The two share nothing but the admin, so a behaviour is about one of     *)
(* them.  All calls but apply_upgrade take values from the admin, who      *)
(* names the version that the uploaded code reports.                       *)
(***************************************************************************)
EXTENDS Ledger

CONSTANTS
  MaxCalls,     \* MAX_CALLS_PER_LEDGER
  Wasms,        \* uploaded code, named by the version it reports
  FirstVersion, \* CONTRACT_VERSION
  Deployer      \* the account that initialize names as the admin

ASSUME AdministrationAssumption == MaxCalls \in Nat /\ FirstVersion \notin Wasms /\ Deployer \in Accounts

VARIABLES
  admin,
  kyc_status,       \* users whose KYC is completed
  authorizations,   \* how often each user is in the list
  rate_limit,       \* of each admin, the ledger of the last limited call and their number in it
  dismissed,        \* history: users whose last call was a revocation
  twice,            \* history: users authorized again while they were
  pending_upgrade,  \* the code to apply, at most one
  pending_version,  \* its version, when one was given
  version,          \* the version the contract publishes
  announced,        \* history: the version that the upgrades applied so far announced
  asked,            \* history: whether the last request gave a version
  mixed             \* history: a request without a version replaced one with a version

authorizationVars == <<kyc_status, authorizations, rate_limit, dismissed, twice>>
upgradeVars == <<pending_upgrade, pending_version, version, announced, asked, mixed>>
administrationVars == <<admin, authorizationVars, upgradeVars>>

AdministrationKinds == {"authorization", "upgrade"}

AdministrationInit ==
  /\ admin = Deployer
  /\ kyc_status = {} /\ dismissed = {} /\ twice = {}
  /\ authorizations = [u \in Accounts |-> 0]
  /\ rate_limit = [a \in Accounts |-> <<0, 0>>]
  /\ pending_upgrade = {} /\ pending_version = {}
  /\ version = FirstVersion /\ announced = FirstVersion
  /\ asked = FALSE /\ mixed = FALSE

-----------------------------------------------------------------------------
\* check_rate_limit: calls of one admin in one ledger.
CheckRateLimit ==
  LET made == IF rate_limit[admin][1] = now THEN rate_limit[admin][2] ELSE 0
  IN  made < MaxCalls /\ rate_limit' = [rate_limit EXCEPT ![admin] = <<now, made + 1>>]

\* A limited call of the admin.
AdminCall ==
  /\ contract = "authorization" /\ CheckRateLimit
  /\ UNCHANGED <<ledgerVars, admin, upgradeVars>>

SetKycStatus(u, completed) ==
  /\ AdminCall
  /\ kyc_status' = IF completed THEN kyc_status \cup {u} ELSE kyc_status \ {u}
  /\ UNCHANGED <<authorizations, dismissed, twice>>

\* The user is pushed, on the list already or not.
Authorize(u) ==
  /\ AdminCall /\ u \in kyc_status
  /\ authorizations' = [authorizations EXCEPT ![u] = @ + 1]
  /\ dismissed' = dismissed \ {u}
  /\ twice' = IF authorizations[u] > 0 THEN twice \cup {u} ELSE twice
  /\ UNCHANGED kyc_status

\* Mutant: a user whose KYC was withdrawn is taken for revoked.
RevokeIfKnown(u) ==
  /\ AdminCall
  /\ authorizations' = [authorizations EXCEPT
       ![u] = IF @ > 0 /\ u \in kyc_status THEN @ - 1 ELSE @]
  /\ dismissed' = dismissed \cup {u}
  /\ UNCHANGED <<kyc_status, twice>>

\* The first entry of the user is removed, if there is one.
Revoke(u) ==
  /\ AdminCall
  /\ authorizations' = [authorizations EXCEPT ![u] = IF @ > 0 THEN @ - 1 ELSE @]
  /\ dismissed' = dismissed \cup {u}
  /\ UNCHANGED <<kyc_status, twice>>

-----------------------------------------------------------------------------
\* upgrade leaves the version of an earlier request where it is.
Upgrade(w) ==
  /\ contract = "upgrade"
  /\ pending_upgrade' = {w}
  /\ asked' = FALSE
  /\ mixed' = (mixed \/ pending_version # {})
  /\ UNCHANGED <<ledgerVars, admin, authorizationVars, pending_version, version, announced>>

UpgradeWithVersion(w) ==
  /\ contract = "upgrade"
  /\ pending_upgrade' = {w} /\ pending_version' = {w}
  /\ asked' = TRUE
  /\ UNCHANGED <<ledgerVars, admin, authorizationVars, version, announced, mixed>>

\* The new code runs from here on; it is taken to offer the same calls.
ApplyUpgrade ==
  /\ contract = "upgrade" /\ pending_upgrade # {}
  /\ pending_upgrade' = {} /\ pending_version' = {}
  /\ version' = IF pending_version = {} THEN version ELSE CHOOSE w \in pending_version : TRUE
  /\ announced' = IF asked THEN CHOOSE w \in pending_upgrade : TRUE ELSE announced
  /\ mixed' = (mixed /\ ~asked)
  /\ UNCHANGED <<ledgerVars, admin, authorizationVars, asked>>

\* The new admin need not agree.
TransferAdmin(new) ==
  /\ contract \in AdministrationKinds /\ new # admin
  /\ admin' = new
  /\ UNCHANGED <<ledgerVars, authorizationVars, upgradeVars>>

AdministrationNext ==
  \/ \E u \in Accounts :
       \/ \E c \in BOOLEAN : SetKycStatus(u, c)
       \/ Authorize(u) \/ Revoke(u) \/ TransferAdmin(u)
  \/ \E w \in Wasms : Upgrade(w) \/ UpgradeWithVersion(w)
  \/ ApplyUpgrade

AdministrationTypeOK ==
  /\ admin \in Accounts /\ kyc_status \subseteq Accounts
  /\ authorizations \in [Accounts -> Nat]
  /\ rate_limit \in [Accounts -> Nat \X (0 .. MaxCalls)]
  /\ dismissed \subseteq Accounts /\ twice \subseteq Accounts
  /\ pending_upgrade \subseteq Wasms /\ pending_version \subseteq Wasms
  /\ {version, announced} \subseteq Wasms \cup {FirstVersion}
  /\ asked \in BOOLEAN /\ mixed \in BOOLEAN

\* A user who was revoked is not authorized, unless somebody had authorized the
\* user twice: revoke removes one entry of a list that may hold several.
RevokedIsOut ==
  \A u \in dismissed : authorizations[u] > 0 => u \in twice

\* The version published is the one given with the last upgrade applied that
\* gave one, unless a request without a version replaced one with a version:
\* then the code of the second is published under the version of the first,
\* although "if none was supplied the current version string is left untouched".
VersionFollowsUpgrade == version = announced \/ mixed

\* What the admins of IgnitionPayContract have decided holds, in every order of
\* their calls and across changes of the admin.
AdministrationHolds == RevokedIsOut /\ VersionFollowsUpgrade

=============================================================================

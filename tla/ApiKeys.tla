------------------------------- MODULE ApiKeys -------------------------------
(***************************************************************************)
(* The API keys of one user: the key controller (create, rotate, finalize, *)
(* cancel, revoke), ApiKeyGuard and the sweep that runs once per start.    *)
(* Names, prefixes and scopes do not matter here, and expiresAt is set by  *)
(* nothing.  Rotation and its cancellation are several statements outside  *)
(* a transaction; the owner's requests may overlap between them.           *)
(***************************************************************************)
EXTENDS Naturals, FiniteSets

CONSTANTS
  Keys,         \* ids of keys, taken in any order
  Owners,       \* concurrent requests of the owner
  Grace,        \* the grace period of a rotation (7 days)
  Unused,       \* API_KEY_TTL_MS
  MaxDay,       \* bound on time
  MaxRequests   \* bound on the owner's requests

ASSUME ApiKeysAssumption ==
  /\ Grace \in Nat \ {0} /\ Unused \in Nat \ {0}
  /\ MaxDay \in Nat \ {0} /\ MaxRequests \in Nat

VARIABLES
  row,          \* api_keys: of each key that exists its columns
  day,
  doing,        \* what each request of the owner is in the middle of
  requests,     \* requests the owner has begun
  revoked,      \* history: keys whose revocation has been answered
  dropped       \* history: something other than a rotation took a key away

apiKeysVars == <<row, day, doing, requests, revoked, dropped>>

NoKey == {}
NotDoing == [step |-> "idle", key |-> NoKey, new |-> NoKey]

\* rotationOfId is a set of at most one key; lastUsedAt of a key never used is 0.
NewRow == [isActive |-> TRUE, rotationOfId |-> NoKey, rotationExpiresAt |-> 0,
           lastUsedAt |-> 0]

ApiKeysInit ==
  /\ row = [k \in {} |-> NewRow]
  /\ day = 1
  /\ doing = [o \in Owners |-> NotDoing]
  /\ requests = 0 /\ revoked = {} /\ dropped = FALSE

Has(k) == k \in DOMAIN row
InRotation(k) == row[k].rotationOfId # NoKey

\* ApiKeyGuard accepts an old key in its grace period and otherwise asks
\* whether the key is active.
Accepted(k) ==
  Has(k) /\ IF InRotation(k) THEN row[k].rotationExpiresAt > day ELSE row[k].isActive

InsertKey(k) == [j \in DOMAIN row \cup {k} |-> IF Has(j) THEN row[j] ELSE NewRow]

\* A request begins; harm says whether it may take the owner's last key away,
\* as any request does that begins in the middle of a cancellation.
BeginRequest(o, harm) ==
  /\ doing[o] = NotDoing /\ requests < MaxRequests
  /\ requests' = requests + 1
  /\ dropped' = (dropped \/ harm \/ \E p \in Owners : doing[p].step \in {"drop", "clear"})

CreateKey(o, k) ==
  /\ BeginRequest(o, FALSE) /\ ~Has(k)
  /\ row' = InsertKey(k)
  /\ UNCHANGED <<day, doing, revoked>>

-----------------------------------------------------------------------------
\* rotate: a new key is made, then the old one is marked.  A rotation whose
\* grace period has passed does not count as one in progress.
Rotatable(k) ==
  Has(k) /\ row[k].isActive /\ ~(InRotation(k) /\ row[k].rotationExpiresAt > day)

BeginRotation(o, k) ==
  /\ BeginRequest(o, FALSE) /\ Rotatable(k)
  /\ doing' = [doing EXCEPT ![o] = [step |-> "create", key |-> {k}, new |-> NoKey]]
  /\ UNCHANGED <<row, day, revoked>>

CreateSuccessor(o, n) ==
  /\ doing[o].step = "create" /\ ~Has(n)
  /\ row' = InsertKey(n)
  /\ doing' = [doing EXCEPT ![o] = [step |-> "mark", key |-> @.key, new |-> {n}]]
  /\ UNCHANGED <<day, requests, revoked, dropped>>

\* The row is updated by id, whatever has become of the key.
MarkRotated(o) ==
  /\ doing[o].step = "mark"
  /\ \E k \in doing[o].key :
       row' = [row EXCEPT ![k] = [@ EXCEPT !.rotationOfId = doing[o].new,
                                           !.rotationExpiresAt = day + Grace]]
  /\ doing' = [doing EXCEPT ![o] = NotDoing]
  /\ UNCHANGED <<day, requests, revoked, dropped>>

FinalizeRotation(o, k) ==
  /\ BeginRequest(o, FALSE) /\ Has(k) /\ InRotation(k)
  /\ row' = [row EXCEPT ![k] = [@ EXCEPT !.isActive = FALSE, !.rotationExpiresAt = day]]
  /\ UNCHANGED <<day, doing, revoked>>

\* cancel: the new key is revoked, then the old one leaves the rotation.  It is
\* not asked whether the old key still works.  What can go wrong for the owner:
\* the old key has ended or ends meanwhile, another request is under way, or
\* only the first statement is executed.
Clearing(o, at) ==
  doing[o].step = "clear" /\ \E k \in doing[o].key : row[k].rotationExpiresAt <= at

BeginCancel(o, k) ==
  /\ Has(k) /\ InRotation(k)
  /\ BeginRequest(o, ~Accepted(k) \/ \E p \in Owners : doing[p] # NotDoing)
  /\ doing' = [doing EXCEPT ![o] = [step |-> "drop", key |-> {k}, new |-> row[k].rotationOfId]]
  /\ UNCHANGED <<row, day, revoked>>

DropSuccessor(o) ==
  /\ doing[o].step = "drop"
  /\ \E n \in doing[o].new : row' = [row EXCEPT ![n].isActive = FALSE]
  /\ doing' = [doing EXCEPT ![o].step = "clear"]
  /\ dropped' = (dropped \/ ~\E k \in doing[o].key : Accepted(k))
  /\ UNCHANGED <<day, requests, revoked>>

\* Mutant: the old key stays in the rotation.
ClearRotationForgets(o) ==
  /\ doing[o].step = "clear"
  /\ doing' = [doing EXCEPT ![o] = NotDoing]
  /\ UNCHANGED <<row, day, requests, revoked, dropped>>

ClearRotation(o) ==
  /\ doing[o].step = "clear"
  /\ \E k \in doing[o].key :
       row' = [row EXCEPT ![k] = [@ EXCEPT !.rotationOfId = NoKey, !.rotationExpiresAt = 0]]
  /\ doing' = [doing EXCEPT ![o] = NotDoing]
  /\ UNCHANGED <<day, requests, revoked, dropped>>

\* The process dies, or a statement fails, in the middle of a request.
BreakOff(o) ==
  /\ doing[o] # NotDoing
  /\ doing' = [doing EXCEPT ![o] = NotDoing]
  /\ dropped' = (dropped \/ doing[o].step = "clear")
  /\ UNCHANGED <<row, day, requests, revoked>>

RevokeKey(o, k) ==
  /\ BeginRequest(o, TRUE) /\ Has(k)
  /\ row' = [row EXCEPT ![k].isActive = FALSE]
  /\ revoked' = revoked \cup {k}
  /\ UNCHANGED <<day, doing>>

-----------------------------------------------------------------------------
\* An accepted use is recorded.
UseKey(k) ==
  /\ Accepted(k)
  /\ row' = [row EXCEPT ![k].lastUsedAt = day]
  /\ UNCHANGED <<day, doing, requests, revoked, dropped>>

\* An old key presented after its grace period is deactivated.
UseOldKey(k) ==
  /\ Has(k) /\ InRotation(k) /\ ~Accepted(k)
  /\ row' = [row EXCEPT ![k].isActive = FALSE]
  /\ UNCHANGED <<day, doing, requests, revoked, dropped>>

\* runExpirySweep: old keys past their grace period, and keys unused for long.
Overdue == {k \in DOMAIN row : InRotation(k) /\ row[k].rotationExpiresAt <= day}
Stale   == {k \in DOMAIN row : /\ ~InRotation(k)
                               /\ row[k].lastUsedAt > 0 /\ row[k].lastUsedAt + Unused <= day}

Sweep ==
  /\ row' = [k \in DOMAIN row |->
               [row[k] EXCEPT !.isActive = @ /\ k \notin Overdue \cup Stale]]
  /\ dropped' = (dropped \/ Stale # {})
  /\ UNCHANGED <<day, doing, requests, revoked>>

NextDay ==
  /\ day < MaxDay
  /\ day' = day + 1
  /\ dropped' = (dropped \/ \E o \in Owners : Clearing(o, day + 1))
  /\ UNCHANGED <<row, doing, requests, revoked>>

ApiKeysNext ==
  \/ NextDay \/ Sweep
  \/ \E k \in Keys : UseKey(k) \/ UseOldKey(k)
  \/ \E o \in Owners :
       \/ MarkRotated(o) \/ DropSuccessor(o) \/ ClearRotation(o) \/ BreakOff(o)
       \/ \E k \in Keys :
            \/ CreateKey(o, k) \/ BeginRotation(o, k) \/ CreateSuccessor(o, k)
            \/ FinalizeRotation(o, k) \/ BeginCancel(o, k) \/ RevokeKey(o, k)

ApiKeysSpec == ApiKeysInit /\ [][ApiKeysNext]_apiKeysVars

ApiKeysTypeOK ==
  /\ DOMAIN row \subseteq Keys
  /\ \A k \in DOMAIN row : row[k].rotationOfId \subseteq Keys
  /\ day \in 1 .. MaxDay /\ requests \in 0 .. MaxRequests

\* Rotation is without downtime: in every state between its statements, cut
\* short or not, and through finalizing, cancelling and the end of the grace
\* period, the owner has a key that works.
RotationKeepsAKey ==
  DOMAIN row # {} /\ ~dropped => \E k \in Keys : Accepted(k)

\* "Irreversibly deactivates the key. Requests presenting it afterwards fail
\* with 401."
RevokedKeyIsRefused == \A k \in revoked : ~Accepted(k)

=============================================================================

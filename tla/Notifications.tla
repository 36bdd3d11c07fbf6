---------------------------- MODULE Notifications ----------------------------
(***************************************************************************)
(* The notifications of one user, type and resource: NotificationsService  *)
(* create and createMany over NotificationDedupStore.  The first event     *)
(* inside a window claims a Redis key (SET NX PX); the others bump the row *)
(* it led to.  create then asks the database as well, createMany does not. *)
(* Redis may fail, and then every claim succeeds, and a command may have   *)
(* taken effect whose reply was lost; the insert may fail; an event's      *)
(* process may stop; an admin may clear the keys.                          *)
(***************************************************************************)
EXTENDS Naturals

CONSTANTS
  Events,       \* events, which also name the rows they insert
  Window,       \* NOTIFICATION_DEDUP_WINDOW_MS
  MaxNow        \* bound on time

ASSUME NotificationsAssumption == Window \in Nat \ {0} /\ MaxNow \in Nat

VARIABLES
  redisUp,
  key,          \* the dedup key: at most one [owner, at, recorded]
  rowAt,        \* createdAt of the rows there are
  now,
  doingEvent,   \* the step of each event
  bulk,         \* events that come through createMany
  claimedAt,    \* when each event has claimed the window
  target,       \* the row each duplicate bumps, by what it has read
  bypassed      \* history: claims failed open ("outage"), or a key went before its
                \* time, "cleared" by an admin or "released" by another event

dedupVars == <<redisUp, key>>
eventVars == <<doingEvent, bulk, claimedAt, target>>
notificationsVars == <<dedupVars, rowAt, now, eventVars, bypassed>>

NotificationsInit ==
  /\ redisUp = TRUE /\ key = {}
  /\ rowAt = [e \in {} |-> 0]
  /\ now = 0
  /\ doingEvent = [e \in Events |-> "idle"]
  /\ bulk = [e \in Events |-> FALSE]
  /\ claimedAt = [e \in Events |-> 0]
  /\ target = [e \in Events |-> {}]
  /\ bypassed = {}

Rows == DOMAIN rowAt
Standing == {k \in key : now < k.at + Window}
Recent == {r \in Rows : rowAt[r] + Window >= now}
Newest == {r \in Recent : \A q \in Recent : rowAt[q] <= rowAt[r]}

MoveTo(e, s) == doingEvent' = [doingEvent EXCEPT ![e] = s]

-----------------------------------------------------------------------------
\* An event reaches create or createMany, and the user's preferences allow it.
Arrive(e, many) ==
  /\ doingEvent[e] = "idle"
  /\ bulk' = [bulk EXCEPT ![e] = many]
  /\ MoveTo(e, "claim")
  /\ UNCHANGED <<dedupVars, rowAt, now, claimedAt, target, bypassed>>

\* The key SET NX leaves.
KeyOf(e) == {[owner |-> e, at |-> now, recorded |-> {}]}

\* claim: without Redis every claim succeeds, and the SET may have arrived.
ClaimFails(e) ==
  /\ doingEvent[e] = "claim" /\ ~redisUp
  /\ \/ UNCHANGED key
     \/ Standing = {} /\ key' = KeyOf(e)
  /\ claimedAt' = [claimedAt EXCEPT ![e] = now]
  /\ bypassed' = bypassed \cup {"outage"}
  /\ MoveTo(e, IF bulk[e] THEN "insert" ELSE "guard")
  /\ UNCHANGED <<redisUp, rowAt, now, bulk, target>>

\* Mutant: the claim is taken whether or not the key exists.
ClaimTaken(e) ==
  /\ doingEvent[e] = "claim" /\ redisUp
  /\ key' = KeyOf(e)
  /\ claimedAt' = [claimedAt EXCEPT ![e] = now]
  /\ MoveTo(e, IF bulk[e] THEN "insert" ELSE "guard")
  /\ UNCHANGED <<redisUp, rowAt, now, bulk, target, bypassed>>

\* An expired key is no key.
Claim(e) ==
  /\ doingEvent[e] = "claim" /\ redisUp /\ Standing = {}
  /\ key' = KeyOf(e)
  /\ claimedAt' = [claimedAt EXCEPT ![e] = now]
  /\ MoveTo(e, IF bulk[e] THEN "insert" ELSE "guard")
  /\ UNCHANGED <<redisUp, rowAt, now, bulk, target, bypassed>>

\* The key stands: its value is read in a second step.
ClaimRefused(e) ==
  /\ doingEvent[e] = "claim" /\ redisUp /\ Standing # {}
  /\ MoveTo(e, "existing")
  /\ UNCHANGED <<dedupVars, rowAt, now, bulk, claimedAt, target, bypassed>>

\* The second step may find the key gone, or Redis, which counts as a claim.
ReadExisting(e) ==
  /\ doingEvent[e] = "existing"
  /\ IF redisUp
     THEN /\ target' = [target EXCEPT ![e] = UNION {k.recorded : k \in Standing}]
          /\ MoveTo(e, "bump")
          /\ UNCHANGED <<claimedAt, bypassed>>
     ELSE /\ claimedAt' = [claimedAt EXCEPT ![e] = now]
          /\ bypassed' = bypassed \cup {"outage"}
          /\ MoveTo(e, IF bulk[e] THEN "insert" ELSE "guard")
          /\ UNCHANGED target
  /\ UNCHANGED <<dedupVars, rowAt, now, bulk>>

\* create asks the database for a row inside the window, and bumps it.
AskDatabase(e) ==
  /\ doingEvent[e] = "guard"
  /\ IF Recent = {}
     THEN MoveTo(e, "insert") /\ UNCHANGED target
     ELSE /\ \E r \in Recent : target' = [target EXCEPT ![e] = {r}]
                  /\ MoveTo(e, "bump")
  /\ UNCHANGED <<dedupVars, rowAt, now, bulk, claimedAt, bypassed>>

\* bumpExisting updates the row it was given, or the newest in the window; when
\* there is none the event is answered with nothing.
Bump(e) ==
  /\ doingEvent[e] = "bump"
  /\ LET found == IF target[e] # {} THEN target[e]
                  ELSE Newest
     IN  IF found = {}
         THEN UNCHANGED rowAt
         ELSE \E r \in found : rowAt' = [rowAt EXCEPT ![r] = now]
  /\ MoveTo(e, "done")
  /\ UNCHANGED <<dedupVars, now, bulk, claimedAt, target, bypassed>>

InsertRow(e) ==
  /\ doingEvent[e] = "insert"
  /\ rowAt' = [r \in Rows \cup {e} |-> IF r = e THEN now ELSE rowAt[r]]
  /\ MoveTo(e, IF bulk[e] THEN "done" ELSE "record")
  /\ UNCHANGED <<dedupVars, now, bulk, claimedAt, target, bypassed>>

InsertFails(e) ==
  /\ doingEvent[e] = "insert"
  /\ MoveTo(e, "release")
  /\ UNCHANGED <<dedupVars, rowAt, now, bulk, claimedAt, target, bypassed>>

\* recordNotificationId keeps the time to live, and writes over any value (XX);
\* a failure of Redis is swallowed.
RecordId(e) ==
  /\ doingEvent[e] = "record"
  /\ \/ key' = {[k EXCEPT !.recorded = {e}] : k \in Standing}
     \/ ~redisUp /\ UNCHANGED key
  /\ MoveTo(e, "done")
  /\ UNCHANGED <<redisUp, rowAt, now, bulk, claimedAt, target, bypassed>>

\* release deletes the key, whoever has claimed it by now; a failure of Redis is
\* swallowed here too.
Release(e) ==
  /\ doingEvent[e] = "release"
  /\ \/ /\ key' = {}
        /\ bypassed' = bypassed \cup {"released" : k \in {j \in Standing : j.owner # e}}
     \/ ~redisUp /\ UNCHANGED <<key, bypassed>>
  /\ MoveTo(e, "failed")
  /\ UNCHANGED <<redisUp, rowAt, now, bulk, claimedAt, target>>

\* The process stops in the middle: the key stays until it expires.
EventStops(e) ==
  /\ doingEvent[e] \notin {"idle", "done", "failed"}
  /\ MoveTo(e, "failed")
  /\ UNCHANGED <<dedupVars, rowAt, now, bulk, claimedAt, target, bypassed>>

RedisChanges ==
  /\ redisUp' = ~redisUp
  /\ UNCHANGED <<key, rowAt, now, eventVars, bypassed>>

ClearKeys ==
  /\ redisUp /\ key # {}
  /\ key' = {} /\ bypassed' = bypassed \cup {"cleared"}
  /\ UNCHANGED <<redisUp, rowAt, now, eventVars>>

Wait ==
  /\ now < MaxNow
  /\ now' = now + 1
  /\ UNCHANGED <<dedupVars, rowAt, eventVars, bypassed>>

NotificationsNext ==
  \/ RedisChanges \/ ClearKeys \/ Wait
  \/ \E e \in Events :
       \/ \E many \in BOOLEAN : Arrive(e, many)
       \/ ClaimFails(e) \/ Claim(e) \/ ClaimRefused(e) \/ ReadExisting(e)
       \/ AskDatabase(e) \/ Bump(e) \/ InsertRow(e) \/ InsertFails(e)
       \/ RecordId(e) \/ Release(e) \/ EventStops(e)

NotificationsSpec == NotificationsInit /\ [][NotificationsNext]_notificationsVars

NotificationsTypeOK ==
  /\ redisUp \in BOOLEAN /\ now \in 0 .. MaxNow
  /\ bypassed \subseteq {"outage", "cleared", "released"}
  /\ key \subseteq [owner : Events, at : 0 .. MaxNow, recorded : SUBSET Events]
  /\ Rows \subseteq Events /\ \A r \in Rows : rowAt[r] \in 0 .. MaxNow
  /\ target \in [Events -> SUBSET Events] /\ bulk \in [Events -> BOOLEAN]
  /\ claimedAt \in [Events -> 0 .. MaxNow]

\* Two rows come from claims at least a window apart.
RowsApart ==
  \A r, q \in Rows :
    r # q => claimedAt[r] + Window <= claimedAt[q] \/ claimedAt[q] + Window <= claimedAt[r]

\* Two rows come from claims at least a window apart, unless Redis was out, an
\* admin cleared the keys, or a failed event released another one's key; and
\* collapsing drops nothing: when events have been answered and none has failed,
\* there is a row.
OneNotificationPerWindow ==
  /\ bypassed = {} => RowsApart
  /\ (\E e \in Events : doingEvent[e] = "done")
       /\ (\A e \in Events : doingEvent[e] \in {"idle", "done"}) => Rows # {}

=============================================================================

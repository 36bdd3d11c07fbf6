------------------------------- MODULE DraftSync -------------------------------
(***************************************************************************)
(* Offline send drafts of ignition-mobile: DraftSyncService                *)
(* (features/send/services/draft_sync_service.dart) over DraftStore        *)
(* (features/send/data/draft_store.dart), with the connectivity listener,  *)
(* the buttons of PendingSendsPage and the server behind POST              *)
(* /transactions, to which the app sends no Idempotency-Key.               *)
(*                                                                         *)
(* Everything between two awaits is one step.  Flows are the overlapping   *)
(* invocations of submitPending.  Whether the server accepts a draft is    *)
(* left open: a refusal is one of the failures MaxFaults bounds.  The      *)
(* order of the drafts in one flush is left open as well.                  *)
(***************************************************************************)
EXTENDS Integers, FiniteSets

CONSTANTS
  Drafts,
  Flows,      \* concurrent invocations of submitPending
  NoDraft,
  MaxFlaps,   \* bound: times the device loses its connection
  MaxFaults,  \* bound: refused or lost requests, lost replies, failed database calls
  MaxKills    \* bound: times the app is killed while it is busy

ASSUME DraftAssumption ==
  /\ NoDraft \notin Drafts
  /\ MaxFlaps \in Nat
  /\ MaxFaults \in Nat
  /\ MaxKills \in Nat

VARIABLES
  status,       \* the persisted status of every draft
  old,          \* drafts older than maxDraftAge
  online,       \* what the connectivity service reports
  event,        \* a call of submitPending is due: reconnected, or started online
  app,          \* "down", "opening", "expiring" (in start), "up" or "silent"
  stale,        \* the drafts cancelExpired has read and not yet updated
  busy,         \* _submitting
  flow,         \* where each invocation of submitPending is
  queue,        \* the drafts it has read and not yet submitted
  current,      \* the draft it is submitting
  cancelling,   \* drafts whose cancel has passed find and not yet updated
  received,     \* history: accepted POSTs per draft
  unconfirmed,  \* history: accepted POSTs of which the app kept no record
  interrupted,  \* history: drafts whose submission was cut short
  gone,         \* history: drafts that were cancelled when each flush read its list
  flaps, faults, kills

flowVars    == <<busy, flow, queue, current>>
historyVars == <<received, unconfirmed, interrupted, gone>>
boundVars   == <<flaps, faults, kills>>
vars == <<status, old, online, event, app, stale, cancelling, flowVars, historyVars, boundVars>>

Statuses    == {"absent", "pending", "submitting", "sent", "failed", "cancelled"}
Submittable == {"pending", "failed"}
Settled     == {"sent", "cancelled"}
\* The points of _submit after its first update.
Submitting  == {"post", "reply", "recordSent", "recordFailed"}
Points      == {"idle", "probe", "list", "next"} \cup Submitting

Init ==
  /\ status = [d \in Drafts |-> "absent"]
  /\ old = {}
  /\ online \in BOOLEAN
  /\ event = FALSE
  /\ app = "down"
  /\ stale = {}
  /\ busy = FALSE
  /\ flow = [f \in Flows |-> "idle"]
  /\ queue = [f \in Flows |-> {}]
  /\ current = [f \in Flows |-> NoDraft]
  /\ cancelling = {}
  /\ received = [d \in Drafts |-> 0]
  /\ unconfirmed = [d \in Drafts |-> 0]
  /\ interrupted = {}
  /\ gone = [f \in Flows |-> {}]
  /\ flaps = 0
  /\ faults = 0
  /\ kills = 0

Fault == faults < MaxFaults /\ faults' = faults + 1

Goto(f, point) == flow' = [flow EXCEPT ![f] = point]

SetStatus(d, new) == status' = [status EXCEPT ![d] = new]

-----------------------------------------------------------------------------
(* The device *)

GoOffline ==
  /\ online
  /\ flaps < MaxFlaps
  /\ online' = FALSE
  /\ flaps' = flaps + 1
  /\ UNCHANGED <<status, old, event, app, stale, cancelling, flowVars, historyVars, faults, kills>>

\* An app that has got as far as listening is told of every reconnection.
GoOnline ==
  /\ ~online
  /\ online' = TRUE
  /\ event' = (event \/ app = "up")
  /\ UNCHANGED <<status, old, app, stale, cancelling, flowVars, historyVars, boundVars>>

\* maxDraftAge passes.
Age(d) ==
  /\ status[d] # "absent"
  /\ d \notin old
  /\ old' = old \cup {d}
  /\ UNCHANGED <<status, online, event, app, stale, cancelling, flowVars, historyVars, boundVars>>

-----------------------------------------------------------------------------
(* start, and the end of the app *)

\* main() shows the pages before the deferred phases create the sync service.
LaunchApp ==
  /\ app = "down"
  /\ app' = "opening"
  /\ UNCHANGED <<status, old, online, event, stale, cancelling, flowVars, historyVars, boundVars>>

\* start calls cancelExpiredDrafts: the drafts to cancel are read first ...
StartApp ==
  /\ app = "opening"
  /\ app' = "expiring"
  /\ stale' = {d \in old : status[d] \in Submittable}
  /\ UNCHANGED <<status, old, online, event, cancelling, flowVars, historyVars, boundVars>>

\* ... and then updated one by one, whatever the pages and the flushes they
\* start have made of them meanwhile.
ExpireDraft(d) ==
  /\ app = "expiring"
  /\ d \in stale
  /\ stale' = stale \ {d}
  /\ SetStatus(d, "cancelled")
  /\ UNCHANGED <<old, online, event, app, cancelling, flowVars, historyVars, boundVars>>

\* The read or one of the updates throws, and start with it: runDeferred logs
\* that, and in this session nothing listens to the connectivity.
ExpireThrows ==
  /\ app = "expiring"
  /\ Fault
  /\ app' = "silent"
  /\ stale' = {}
  /\ UNCHANGED <<status, old, online, event, cancelling, flowVars, historyVars, flaps, kills>>

\* It then listens to connectivity and flushes at once when it is online.
Listen ==
  /\ app = "expiring"
  /\ stale = {}
  /\ app' = "up"
  /\ event' = online
  /\ UNCHANGED <<status, old, online, stale, cancelling, flowVars, historyVars, boundVars>>

Stop ==
  /\ app' = "down"
  /\ event' = FALSE
  /\ stale' = {}
  /\ cancelling' = {}
  /\ busy' = FALSE
  /\ flow' = [f \in Flows |-> "idle"]
  /\ queue' = [f \in Flows |-> {}]
  /\ current' = [f \in Flows |-> NoDraft]

\* The app is closed while it is not submitting anything.
QuitApp ==
  /\ app \in {"up", "silent"}
  /\ \A f \in Flows : flow[f] = "idle"
  /\ Stop
  /\ UNCHANGED <<status, old, online, historyVars, boundVars>>

\* Drafts that some flow is in the middle of submitting.
InFlight(points) == {current[f] : f \in {g \in Flows : flow[g] \in points}}

\* The app is killed: only the database survives.
KillApp ==
  /\ app # "down"
  /\ kills < MaxKills
  /\ kills' = kills + 1
  /\ Stop
  /\ interrupted' = interrupted \cup InFlight(Submitting)
  /\ unconfirmed' = [d \in Drafts |->
       unconfirmed[d] + (IF d \in InFlight({"reply", "recordSent"}) THEN 1 ELSE 0)]
  /\ UNCHANGED <<status, old, online, received, gone, flaps, faults>>

-----------------------------------------------------------------------------
(* submitPending *)

\* Mutant: the invocations are not coalesced.
EnterUncoalesced(f) ==
  /\ Goto(f, "probe")
  /\ busy' = TRUE

\* The flag is tested and set without an await in between; a call that finds it
\* set returns and is forgotten.
Enter(f) ==
  IF busy
  THEN UNCHANGED <<flow, busy>>
  ELSE Goto(f, "probe") /\ busy' = TRUE

\* The call that a reconnection or start has caused.
OnConnected(f) ==
  /\ event
  /\ flow[f] = "idle"
  /\ event' = FALSE
  /\ Enter(f)
  /\ UNCHANGED <<status, old, online, app, stale, cancelling, queue, current, historyVars, boundVars>>

\* The "Send now" button; it does nothing until the sync service exists.
SendNow(f) ==
  /\ app \notin {"down", "opening"}
  /\ flow[f] = "idle"
  /\ Enter(f)
  /\ UNCHANGED <<status, old, online, event, app, stale, cancelling, queue, current, historyVars, boundVars>>

\* The finally block.
Leave(f) == Goto(f, "idle") /\ busy' = FALSE

Probe(f) ==
  /\ flow[f] = "probe"
  /\ IF online THEN Goto(f, "list") /\ UNCHANGED busy ELSE Leave(f)
  /\ UNCHANGED <<status, old, online, event, app, stale, cancelling, queue, current, historyVars, boundVars>>

ReadList(f, drafts) ==
  /\ flow[f] = "list"
  /\ queue' = [queue EXCEPT ![f] = drafts]
  /\ gone' = [gone EXCEPT ![f] = {d \in Drafts : status[d] = "cancelled"}]
  /\ Goto(f, "next")
  /\ UNCHANGED <<status, old, online, event, app, stale, cancelling, busy, current, received, unconfirmed, interrupted, boundVars>>

\* Mutant: everything that was not sent is read.
ListUnsent(f) == ReadList(f, {d \in Drafts : status[d] \notin {"absent", "sent"}})

\* DraftStore.submittable.
List(f) == ReadList(f, {d \in Drafts : status[d] \in Submittable})

\* The next draft of the list, in whatever status it is by now.
Mark(f, d) ==
  /\ flow[f] = "next"
  /\ d \in queue[f]
  /\ queue' = [queue EXCEPT ![f] = @ \ {d}]
  /\ current' = [current EXCEPT ![f] = d]
  /\ SetStatus(d, "submitting")
  /\ Goto(f, "post")
  /\ UNCHANGED <<old, online, event, app, stale, cancelling, busy, historyVars, boundVars>>

\* That update throws: the rest of the list is given up.
MarkThrows(f) ==
  /\ flow[f] = "next"
  /\ queue[f] # {}
  /\ Fault
  /\ queue' = [queue EXCEPT ![f] = {}]
  /\ Leave(f)
  /\ UNCHANGED <<status, old, online, event, app, stale, cancelling, current, historyVars, flaps, kills>>

Finish(f) ==
  /\ flow[f] = "next"
  /\ queue[f] = {}
  /\ Leave(f)
  /\ UNCHANGED <<status, old, online, event, app, stale, cancelling, queue, current, historyVars, boundVars>>

\* The server accepts the payment; the answer is on its way.
Post(f) ==
  /\ flow[f] = "post"
  /\ online
  /\ received' = [received EXCEPT ![current[f]] = @ + 1]
  /\ Goto(f, "reply")
  /\ UNCHANGED <<status, old, online, event, app, stale, cancelling, busy, queue, current, unconfirmed, interrupted, gone, boundVars>>

\* The request does not get through, or the server refuses it.
PostFails(f) ==
  /\ flow[f] = "post"
  /\ \/ ~online /\ UNCHANGED faults
     \/ Fault
  /\ Goto(f, "recordFailed")
  /\ UNCHANGED <<status, old, online, event, app, stale, cancelling, busy, queue, current, historyVars, flaps, kills>>

Reply(f) ==
  /\ flow[f] = "reply"
  /\ Goto(f, "recordSent")
  /\ UNCHANGED <<status, old, online, event, app, stale, cancelling, busy, queue, current, historyVars, boundVars>>

Unconfirmed(f) == unconfirmed' = [unconfirmed EXCEPT ![current[f]] = @ + 1]

\* The answer is lost or times out, or the update to "sent" throws.
Unacknowledged(f) ==
  /\ flow[f] \in {"reply", "recordSent"}
  /\ \/ flow[f] = "reply" /\ ~online /\ UNCHANGED faults
     \/ Fault
  /\ Unconfirmed(f)
  /\ Goto(f, "recordFailed")
  /\ UNCHANGED <<status, old, online, event, app, stale, cancelling, busy, queue, current, received, interrupted, gone, flaps, kills>>

\* Back in the loop of submitPending.
Resume(f) == Goto(f, "next") /\ current' = [current EXCEPT ![f] = NoDraft]

\* Mutant: success is announced and not written.
RecordSentForgets(f) ==
  /\ flow[f] = "recordSent"
  /\ Resume(f)
  /\ UNCHANGED <<status, old, online, event, app, stale, cancelling, busy, queue, historyVars, boundVars>>

RecordSent(f) ==
  /\ flow[f] = "recordSent"
  /\ SetStatus(current[f], "sent")
  /\ Resume(f)
  /\ UNCHANGED <<old, online, event, app, stale, cancelling, busy, queue, historyVars, boundVars>>

\* Mutant: the catch block leaves the status alone.
RecordFailedOnlyLogs(f) ==
  /\ flow[f] = "recordFailed"
  /\ Resume(f)
  /\ UNCHANGED <<status, old, online, event, app, stale, cancelling, busy, queue, historyVars, boundVars>>

RecordFailed(f) ==
  /\ flow[f] = "recordFailed"
  /\ SetStatus(current[f], "failed")
  /\ Resume(f)
  /\ UNCHANGED <<old, online, event, app, stale, cancelling, busy, queue, historyVars, boundVars>>

\* The update in the catch block throws as well: the whole flush ends.
RecordFailedThrows(f) ==
  /\ flow[f] = "recordFailed"
  /\ Fault
  /\ Leave(f)
  /\ queue' = [queue EXCEPT ![f] = {}]
  /\ current' = [current EXCEPT ![f] = NoDraft]
  /\ interrupted' = interrupted \cup {current[f]}
  /\ UNCHANGED <<status, old, online, event, app, stale, cancelling, received, unconfirmed, gone, flaps, kills>>

-----------------------------------------------------------------------------
(* The user *)

\* PaymentReviewPage saves a draft.
SaveDraft(d) ==
  /\ app # "down"
  /\ status[d] = "absent"
  /\ SetStatus(d, "pending")
  /\ UNCHANGED <<old, online, event, app, stale, cancelling, flowVars, historyVars, boundVars>>

\* cancel(id) has found a draft that is not settled (a page opened before the
\* sync service exists lists such drafts and updates the store itself) ...
CancelFind(d) ==
  /\ app # "down"
  /\ status[d] \notin {"absent"} \cup Settled
  /\ d \notin cancelling
  /\ cancelling' = cancelling \cup {d}
  /\ UNCHANGED <<status, old, online, event, app, stale, flowVars, historyVars, boundVars>>

\* ... and cancels it, whatever has become of it.
CancelWrite(d) ==
  /\ d \in cancelling
  /\ cancelling' = cancelling \ {d}
  /\ SetStatus(d, "cancelled")
  /\ UNCHANGED <<old, online, event, app, stale, flowVars, historyVars, boundVars>>

-----------------------------------------------------------------------------
FlowStep(f) ==
  \/ OnConnected(f) \/ Probe(f) \/ List(f) \/ Finish(f)
  \/ \E d \in Drafts : Mark(f, d)
  \/ Post(f) \/ PostFails(f) \/ Reply(f) \/ RecordSent(f) \/ RecordFailed(f)

Starting == LaunchApp \/ StartApp \/ (\E d \in Drafts : ExpireDraft(d)) \/ Listen

Next ==
  \/ GoOffline \/ GoOnline \/ Starting \/ ExpireThrows \/ QuitApp \/ KillApp
  \/ \E f \in Flows :
       FlowStep(f) \/ SendNow(f) \/ Unacknowledged(f)
       \/ MarkThrows(f) \/ RecordFailedThrows(f)
  \/ \E d \in Drafts : Age(d) \/ SaveDraft(d) \/ CancelFind(d) \/ CancelWrite(d)

Spec == Init /\ [][Next]_vars

\* The app runs what it has begun, is started when it is down, and the device
\* comes back online.
FairSpec ==
  /\ Spec
  /\ \A f \in Flows : WF_vars(FlowStep(f))
  /\ \A d \in Drafts : WF_vars(CancelWrite(d))
  /\ WF_vars(Starting) /\ WF_vars(GoOnline)

\* In addition the user closes the app again and again, and days pass.
RestartSpec ==
  /\ FairSpec
  /\ WF_vars(QuitApp)
  /\ \A d \in Drafts : WF_vars(Age(d))

-----------------------------------------------------------------------------
TypeOK ==
  /\ status \in [Drafts -> Statuses]
  /\ old \in SUBSET Drafts
  /\ online \in BOOLEAN
  /\ event \in BOOLEAN
  /\ app \in {"down", "opening", "expiring", "up", "silent"}
  /\ stale \in SUBSET Drafts
  /\ busy \in BOOLEAN
  /\ flow \in [Flows -> Points]
  /\ queue \in [Flows -> SUBSET Drafts]
  /\ current \in [Flows -> Drafts \cup {NoDraft}]
  /\ \A f \in Flows : current[f] # NoDraft <=> flow[f] \in Submitting
  /\ cancelling \in SUBSET Drafts
  /\ received \in [Drafts -> Nat]
  /\ unconfirmed \in [Drafts -> Nat]
  /\ interrupted \in SUBSET Drafts
  /\ gone \in [Flows -> SUBSET Drafts]
  /\ flaps \in 0 .. MaxFlaps
  /\ faults \in 0 .. MaxFaults
  /\ kills \in 0 .. MaxKills

\* A payment reaches the server a second time only after the app failed to
\* record that it had been accepted: neither overlapping flushes, nor cancels,
\* expiry or restarts make the app send twice ("overlapping invocations are
\* coalesced").
NoNeedlessResend ==
  \A d \in Drafts : received[d] <= 1 + unconfirmed[d]

\* A draft is left in "submitting", which neither submittable() nor expired()
\* ever returns, only if its submission was cut short by a kill or a failed update.
NoOrphanSubmitting ==
  \A d \in Drafts :
    status[d] = "submitting" =>
      d \in interrupted \/ \E f \in Flows : flow[f] \in Submitting /\ current[f] = d

\* The drafts a flush is going to submit, or is submitting.
Taken(f) == queue[f] \cup (IF flow[f] \in Submitting THEN {current[f]} ELSE {})

\* A cancelled draft stays cancelled ("finalised"), unless it was cancelled
\* while a flush that had already read it was running.
CancelledStays ==
  [][\A d \in Drafts :
       status[d] = "cancelled" /\ status'[d] # "cancelled" =>
         \E f \in Flows : d \in Taken(f) \ gone[f]]_vars

\* Every draft is sent or cancelled in the end if the app is restarted often
\* enough, and if its submission is not cut short.
EveryDraftSettles ==
  \A d \in Drafts :
    status[d] # "absent" ~> (status[d] \in Settled \/ d \in interrupted)

\* "Throwing signals a failure so the draft stays queued for a later retry":
\* once the device is online for good, a failed draft is taken up again.
FailedDraftIsRetried ==
  \A d \in Drafts : status[d] = "failed" ~> status[d] # "failed"

=============================================================================

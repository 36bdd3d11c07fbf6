---------------------------- MODULE DraftSyncProofs ----------------------------
(***************************************************************************)
(* For every set of drafts and of overlapping flushes, and every number of *)
(* lost connections, failures and kills: no draft is sent again needlessly *)
(* or left in submitting unnoticed, and a cancelled draft is revived only  *)
(* by a flush that had read it before.                                     *)
(***************************************************************************)
EXTENDS DraftSync, TLAPS

\* A flush that has begun.
Active(f) == flow[f] # "idle"

\* The flag _submitting lets one flush run at a time.
OneFlow ==
  /\ \A f \in Flows : Active(f) => busy
  /\ \A f, g \in Flows : Active(f) /\ Active(g) => f = g

\* A flow has a list only while it works it off, and the draft at hand has
\* left that list.
QueueHeld ==
  /\ \A f \in Flows : queue[f] # {} => flow[f] \in {"next"} \cup Submitting
  /\ \A f \in Flows : current[f] \notin queue[f]

\* The draft at hand is in "submitting", or was cancelled behind the flow's back.
CurrentStatus ==
  \A f \in Flows :
    flow[f] \in Submitting => status[current[f]] \in {"submitting", "cancelled"}

\* Drafts that may be posted, now or after some retry.
MayBePosted(d) ==
  \/ status[d] \in {"absent", "pending", "failed"}
  \/ \E f \in Flows :
       \/ d \in queue[f]
       \/ flow[f] \in {"post", "recordFailed"} /\ current[f] = d

\* All accepted posts of a draft that may be posted again are unconfirmed.
PostedUnconfirmed == \A d \in Drafts : MayBePosted(d) => received[d] <= unconfirmed[d]

\* A flow has read no draft that was cancelled at that moment.
TakenNotGone == \A f \in Flows : Taken(f) \cap gone[f] = {}

\* The inductive invariants of the flushes and of what they send.
FlowInv == TypeOK /\ OneFlow /\ QueueHeld /\ CurrentStatus
SendInv == PostedUnconfirmed /\ NoNeedlessResend

-----------------------------------------------------------------------------
\* The shape of the flows holds initially.
LEMMA FlowInit == Init => FlowInv
<1> SUFFICES ASSUME Init PROVE FlowInv
  OBVIOUS
<1>1. online \in BOOLEAN /\ event \in BOOLEAN /\ busy \in BOOLEAN
  BY DEF Init
<1>2. TypeOK
  BY <1>1, DraftAssumption DEF Init, TypeOK, Statuses, Points, Submitting
<1>3. OneFlow /\ QueueHeld /\ CurrentStatus
  BY DraftAssumption DEF Init, OneFlow, QueueHeld, CurrentStatus, Active, Submitting
<1> QED BY <1>2, <1>3 DEF FlowInv

\* Every step preserves the shape of the flows.
LEMMA FlowInvStep == FlowInv /\ [Next]_vars => FlowInv'
<1> SUFFICES ASSUME FlowInv, [Next]_vars PROVE FlowInv'
  OBVIOUS
<1> USE DraftAssumption
    DEF FlowInv, TypeOK, OneFlow, QueueHeld, CurrentStatus, Active, Statuses, Points,
        Submitting, Goto, SetStatus, flowVars, historyVars, boundVars
<1>1. CASE GoOffline \/ GoOnline
  <2>1. flaps' \in 0 .. MaxFlaps
    BY <1>1 DEF GoOffline, GoOnline
  <2>2. online' \in BOOLEAN /\ event' \in BOOLEAN
    BY <1>1 DEF GoOffline, GoOnline
  <2> QED BY <1>1, <2>1, <2>2 DEF GoOffline, GoOnline
<1>2. CASE LaunchApp \/ StartApp \/ ExpireThrows \/ Listen
  BY <1>2 DEF LaunchApp, StartApp, ExpireThrows, Fault, Listen
<1>3. ASSUME NEW d \in Drafts, ExpireDraft(d) PROVE FlowInv'
  BY <1>3 DEF ExpireDraft
<1>4. CASE QuitApp
  BY <1>4 DEF QuitApp, Stop
<1>5. CASE KillApp
  <2>1. TypeOK'
    <3>1. kills' \in 0 .. MaxKills
      BY <1>5 DEF KillApp
    <3>2. unconfirmed' \in [Drafts -> Nat]
      BY <1>5 DEF KillApp
    <3>3. interrupted' \in SUBSET Drafts
      BY <1>5 DEF KillApp, InFlight
    <3> QED BY <1>5, <3>1, <3>2, <3>3 DEF KillApp, Stop
  <2>2. OneFlow'
    BY <1>5 DEF KillApp, Stop, InFlight
  <2>3. QueueHeld'
    BY <1>5 DEF KillApp, Stop, InFlight
  <2>4. CurrentStatus'
    BY <1>5 DEF KillApp, Stop, InFlight
  <2> QED BY <2>1, <2>2, <2>3, <2>4
<1>6. ASSUME NEW f \in Flows, OnConnected(f) \/ SendNow(f) PROVE FlowInv'
  <2>1. TypeOK'
    <3>1. event' \in BOOLEAN
      BY <1>6 DEF OnConnected, SendNow
    <3>5. faults' \in 0 .. MaxFaults
      BY <1>6 DEF OnConnected, SendNow
    <3>4. busy' \in BOOLEAN
      BY <1>6 DEF OnConnected, SendNow, Enter
    <3>2. flow' \in [Flows -> Points] /\ current' \in [Flows -> Drafts \cup {NoDraft}]
      BY <1>6 DEF OnConnected, SendNow, Enter
    <3>3. \A g \in Flows : current'[g] # NoDraft <=> flow'[g] \in Submitting
      BY <1>6 DEF OnConnected, SendNow, Enter
    <3> QED BY <1>6, <3>1, <3>2, <3>3, <3>4, <3>5 DEF OnConnected, SendNow, Enter
  <2>2. OneFlow'
    BY <1>6 DEF OnConnected, SendNow, Enter
  <2>3. QueueHeld'
    BY <1>6 DEF OnConnected, SendNow, Enter
  <2>4. CurrentStatus'
    BY <1>6 DEF OnConnected, SendNow, Enter
  <2> QED BY <2>1, <2>2, <2>3, <2>4
<1>7. ASSUME NEW f \in Flows, Probe(f) PROVE FlowInv'
  <2>1. TypeOK'
    <3>1. busy' \in BOOLEAN /\ event' \in BOOLEAN /\ faults' \in 0 .. MaxFaults
      BY <1>7 DEF Probe, Leave
    <3>2. flow' \in [Flows -> Points] /\ current' \in [Flows -> Drafts \cup {NoDraft}]
      BY <1>7 DEF Probe, Leave
    <3>3. \A g \in Flows : current'[g] # NoDraft <=> flow'[g] \in Submitting
      BY <1>7 DEF Probe, Leave
    <3> QED BY <1>7, <3>1, <3>2, <3>3 DEF Probe, Leave
  <2>2. OneFlow'
    BY <1>7 DEF Probe, Leave
  <2>3. QueueHeld'
    BY <1>7 DEF Probe, Leave
  <2>4. CurrentStatus'
    BY <1>7 DEF Probe, Leave
  <2> QED BY <2>1, <2>2, <2>3, <2>4
<1>8. ASSUME NEW f \in Flows, List(f) PROVE FlowInv'
  BY <1>8 DEF List, ReadList
<1>9. ASSUME NEW f \in Flows, Finish(f) PROVE FlowInv'
  <2>1. TypeOK'
    BY <1>9 DEF Finish, Leave
  <2>2. OneFlow'
    BY <1>9 DEF Finish, Leave
  <2>3. QueueHeld'
    BY <1>9 DEF Finish, Leave
  <2>4. CurrentStatus'
    BY <1>9 DEF Finish, Leave
  <2> QED BY <2>1, <2>2, <2>3, <2>4
<1>10. ASSUME NEW f \in Flows, NEW d \in Drafts, Mark(f, d) PROVE FlowInv'
  BY <1>10 DEF Mark
<1>11. ASSUME NEW f \in Flows, MarkThrows(f) PROVE FlowInv'
  <2>1. TypeOK'
    <3>1. busy' \in BOOLEAN /\ event' \in BOOLEAN
      BY <1>11 DEF MarkThrows, Leave
    <3>4. faults' \in 0 .. MaxFaults
      BY <1>11 DEF MarkThrows, Fault
    <3>2. flow' \in [Flows -> Points] /\ current' \in [Flows -> Drafts \cup {NoDraft}]
      BY <1>11 DEF MarkThrows, Leave, Fault
    <3>3. \A g \in Flows : current'[g] # NoDraft <=> flow'[g] \in Submitting
      BY <1>11 DEF MarkThrows, Leave, Fault
    <3> QED BY <1>11, <3>1, <3>2, <3>3, <3>4 DEF MarkThrows, Leave, Fault
  <2>2. OneFlow'
    BY <1>11 DEF MarkThrows, Leave, Fault
  <2>3. QueueHeld'
    BY <1>11 DEF MarkThrows, Leave, Fault
  <2>4. CurrentStatus'
    BY <1>11 DEF MarkThrows, Leave, Fault
  <2> QED BY <2>1, <2>2, <2>3, <2>4
<1>12. ASSUME NEW f \in Flows, Post(f) PROVE FlowInv'
  BY <1>12 DEF Post
<1>13. ASSUME NEW f \in Flows, PostFails(f) PROVE FlowInv'
  BY <1>13 DEF PostFails, Fault
<1>14. ASSUME NEW f \in Flows, Reply(f) PROVE FlowInv'
  BY <1>14 DEF Reply
<1>15. ASSUME NEW f \in Flows, Unacknowledged(f) PROVE FlowInv'
  BY <1>15 DEF Unacknowledged, Unconfirmed, Fault
<1>16. ASSUME NEW f \in Flows, RecordSent(f) \/ RecordFailed(f) PROVE FlowInv'
  BY <1>16 DEF RecordSent, RecordFailed, Resume
<1>17. ASSUME NEW f \in Flows, RecordFailedThrows(f) PROVE FlowInv'
  <2>1. TypeOK'
    <3>1. busy' \in BOOLEAN /\ event' \in BOOLEAN
      BY <1>17 DEF RecordFailedThrows, Leave
    <3>4. faults' \in 0 .. MaxFaults
      BY <1>17 DEF RecordFailedThrows, Fault
    <3>2. flow' \in [Flows -> Points] /\ current' \in [Flows -> Drafts \cup {NoDraft}]
      BY <1>17 DEF RecordFailedThrows, Leave, Fault
    <3>3. \A g \in Flows : current'[g] # NoDraft <=> flow'[g] \in Submitting
      BY <1>17 DEF RecordFailedThrows, Leave, Fault
    <3> QED BY <1>17, <3>1, <3>2, <3>3, <3>4 DEF RecordFailedThrows, Leave, Fault
  <2>2. OneFlow'
    BY <1>17 DEF RecordFailedThrows, Leave, Fault
  <2>3. QueueHeld'
    BY <1>17 DEF RecordFailedThrows, Leave, Fault
  <2>4. CurrentStatus'
    BY <1>17 DEF RecordFailedThrows, Leave, Fault
  <2> QED BY <2>1, <2>2, <2>3, <2>4
<1>18. ASSUME NEW d \in Drafts,
              Age(d) \/ SaveDraft(d) \/ CancelFind(d) \/ CancelWrite(d)
       PROVE  FlowInv'
  BY <1>18 DEF Age, SaveDraft, CancelFind, CancelWrite, Settled
<1>19. CASE UNCHANGED vars
  BY <1>19 DEF vars
<1> QED
  BY <1>1, <1>2, <1>3, <1>4, <1>5, <1>6, <1>7, <1>8, <1>9, <1>10, <1>11, <1>12,
     <1>13, <1>14, <1>15, <1>16, <1>17, <1>18, <1>19
  DEF Next, FlowStep, Starting

-----------------------------------------------------------------------------
\* No step leaves a draft in submitting without a flow at it, unless it cuts the
\* submission short.
LEMMA OrphanStep == FlowInv /\ NoOrphanSubmitting /\ [Next]_vars => NoOrphanSubmitting'
<1> SUFFICES ASSUME FlowInv /\ NoOrphanSubmitting, [Next]_vars PROVE NoOrphanSubmitting'
  OBVIOUS
<1> USE DraftAssumption
    DEF FlowInv, TypeOK, NoOrphanSubmitting, Submitting, Goto, SetStatus, flowVars,
        historyVars, boundVars
<1>1. CASE GoOffline \/ GoOnline
  BY <1>1 DEF GoOffline, GoOnline
<1>2. CASE LaunchApp \/ StartApp \/ ExpireThrows \/ Listen
  BY <1>2 DEF LaunchApp, StartApp, ExpireThrows, Fault, Listen
<1>3. ASSUME NEW d \in Drafts, ExpireDraft(d) PROVE NoOrphanSubmitting'
  BY <1>3 DEF ExpireDraft
<1>4. CASE QuitApp
  BY <1>4 DEF QuitApp, Stop
<1>5. CASE KillApp
  BY <1>5 DEF KillApp, Stop, InFlight
<1>6. ASSUME NEW f \in Flows, OnConnected(f) \/ SendNow(f) PROVE NoOrphanSubmitting'
  BY <1>6 DEF OnConnected, SendNow, Enter
<1>7. ASSUME NEW f \in Flows, Probe(f) PROVE NoOrphanSubmitting'
  BY <1>7 DEF Probe, Leave
<1>8. ASSUME NEW f \in Flows, List(f) PROVE NoOrphanSubmitting'
  BY <1>8 DEF List, ReadList, Submittable
<1>9. ASSUME NEW f \in Flows, Finish(f) PROVE NoOrphanSubmitting'
  BY <1>9 DEF Finish, Leave
<1>10. ASSUME NEW f \in Flows, NEW d \in Drafts, Mark(f, d) PROVE NoOrphanSubmitting'
  BY <1>10 DEF Mark
<1>11. ASSUME NEW f \in Flows, MarkThrows(f) PROVE NoOrphanSubmitting'
  BY <1>11 DEF MarkThrows, Leave
<1>12. ASSUME NEW f \in Flows, Post(f) PROVE NoOrphanSubmitting'
  BY <1>12 DEF Post
<1>13. ASSUME NEW f \in Flows, PostFails(f) PROVE NoOrphanSubmitting'
  BY <1>13 DEF PostFails
<1>14. ASSUME NEW f \in Flows, Reply(f) PROVE NoOrphanSubmitting'
  BY <1>14 DEF Reply
<1>15. ASSUME NEW f \in Flows, Unacknowledged(f) PROVE NoOrphanSubmitting'
  BY <1>15 DEF Unacknowledged, Unconfirmed
<1>16. ASSUME NEW f \in Flows, RecordSent(f) \/ RecordFailed(f) PROVE NoOrphanSubmitting'
  BY <1>16 DEF RecordSent, RecordFailed, Resume
<1>17. ASSUME NEW f \in Flows, RecordFailedThrows(f) PROVE NoOrphanSubmitting'
  BY <1>17 DEF RecordFailedThrows, Leave
<1>18. ASSUME NEW d \in Drafts,
              Age(d) \/ SaveDraft(d) \/ CancelFind(d) \/ CancelWrite(d)
       PROVE  NoOrphanSubmitting'
  BY <1>18 DEF Age, SaveDraft, CancelFind, CancelWrite, Settled
<1>19. CASE UNCHANGED vars
  BY <1>19 DEF vars
<1> QED
  BY <1>1, <1>2, <1>3, <1>4, <1>5, <1>6, <1>7, <1>8, <1>9, <1>10, <1>11, <1>12,
     <1>13, <1>14, <1>15, <1>16, <1>17, <1>18, <1>19
  DEF Next, FlowStep, Starting

-----------------------------------------------------------------------------
\* A draft that may be posted has only unconfirmed posts behind it.
LEMMA SendStep == FlowInv /\ SendInv /\ [Next]_vars => SendInv'
<1> SUFFICES ASSUME FlowInv /\ SendInv, [Next]_vars PROVE SendInv'
  OBVIOUS
<1> USE DraftAssumption
    DEF FlowInv, TypeOK, OneFlow, QueueHeld, CurrentStatus, Active, SendInv,
        PostedUnconfirmed, MayBePosted, NoNeedlessResend, Submitting, Goto, SetStatus,
        flowVars, historyVars, boundVars
<1>1. CASE GoOffline \/ GoOnline
  BY <1>1 DEF GoOffline, GoOnline
<1>2. CASE LaunchApp \/ StartApp \/ ExpireThrows \/ Listen
  BY <1>2 DEF LaunchApp, StartApp, ExpireThrows, Fault, Listen
<1>3. ASSUME NEW d \in Drafts, ExpireDraft(d) PROVE SendInv'
  BY <1>3 DEF ExpireDraft
<1>4. CASE QuitApp
  BY <1>4 DEF QuitApp, Stop
<1>5. CASE KillApp
  BY <1>5 DEF KillApp, Stop, InFlight
<1>6. ASSUME NEW f \in Flows, OnConnected(f) \/ SendNow(f) PROVE SendInv'
  BY <1>6 DEF OnConnected, SendNow, Enter
<1>7. ASSUME NEW f \in Flows, Probe(f) PROVE SendInv'
  BY <1>7 DEF Probe, Leave
<1>8. ASSUME NEW f \in Flows, List(f) PROVE SendInv'
  BY <1>8 DEF List, ReadList, Submittable
<1>9. ASSUME NEW f \in Flows, Finish(f) PROVE SendInv'
  BY <1>9 DEF Finish, Leave
<1>10. ASSUME NEW f \in Flows, NEW d \in Drafts, Mark(f, d) PROVE SendInv'
  BY <1>10 DEF Mark
<1>11. ASSUME NEW f \in Flows, MarkThrows(f) PROVE SendInv'
  BY <1>11 DEF MarkThrows, Leave
<1>12. ASSUME NEW f \in Flows, Post(f) PROVE SendInv'
  BY <1>12 DEF Post
<1>13. ASSUME NEW f \in Flows, PostFails(f) PROVE SendInv'
  BY <1>13 DEF PostFails
<1>14. ASSUME NEW f \in Flows, Reply(f) PROVE SendInv'
  BY <1>14 DEF Reply
<1>15. ASSUME NEW f \in Flows, Unacknowledged(f) PROVE SendInv'
  BY <1>15 DEF Unacknowledged, Unconfirmed
<1>16. ASSUME NEW f \in Flows, RecordSent(f) \/ RecordFailed(f) PROVE SendInv'
  BY <1>16 DEF RecordSent, RecordFailed, Resume
<1>17. ASSUME NEW f \in Flows, RecordFailedThrows(f) PROVE SendInv'
  BY <1>17 DEF RecordFailedThrows, Leave
<1>18. ASSUME NEW d \in Drafts,
              Age(d) \/ SaveDraft(d) \/ CancelFind(d) \/ CancelWrite(d)
       PROVE  SendInv'
  BY <1>18 DEF Age, SaveDraft, CancelFind, CancelWrite, Settled
<1>19. CASE UNCHANGED vars
  BY <1>19 DEF vars
<1> QED
  BY <1>1, <1>2, <1>3, <1>4, <1>5, <1>6, <1>7, <1>8, <1>9, <1>10, <1>11, <1>12,
     <1>13, <1>14, <1>15, <1>16, <1>17, <1>18, <1>19
  DEF Next, FlowStep, Starting

-----------------------------------------------------------------------------
\* What a flow takes was not cancelled when it read its list.
LEMMA GoneStep == FlowInv /\ TakenNotGone /\ [Next]_vars => TakenNotGone'
<1> SUFFICES ASSUME FlowInv /\ TakenNotGone, [Next]_vars PROVE TakenNotGone'
  OBVIOUS
<1> USE DraftAssumption
    DEF FlowInv, TypeOK, QueueHeld, TakenNotGone, Taken, Submitting, Goto, SetStatus,
        flowVars, historyVars, boundVars
<1>1. CASE GoOffline \/ GoOnline
  BY <1>1 DEF GoOffline, GoOnline
<1>2. CASE LaunchApp \/ StartApp \/ ExpireThrows \/ Listen
  BY <1>2 DEF LaunchApp, StartApp, ExpireThrows, Fault, Listen
<1>3. ASSUME NEW d \in Drafts, ExpireDraft(d) PROVE TakenNotGone'
  BY <1>3 DEF ExpireDraft
<1>4. CASE QuitApp
  BY <1>4 DEF QuitApp, Stop
<1>5. CASE KillApp
  BY <1>5 DEF KillApp, Stop, InFlight
<1>6. ASSUME NEW f \in Flows, OnConnected(f) \/ SendNow(f) PROVE TakenNotGone'
  BY <1>6 DEF OnConnected, SendNow, Enter
<1>7. ASSUME NEW f \in Flows, Probe(f) PROVE TakenNotGone'
  BY <1>7 DEF Probe, Leave
<1>8. ASSUME NEW f \in Flows, List(f) PROVE TakenNotGone'
  BY <1>8 DEF List, ReadList, Submittable
<1>9. ASSUME NEW f \in Flows, Finish(f) PROVE TakenNotGone'
  BY <1>9 DEF Finish, Leave
<1>10. ASSUME NEW f \in Flows, NEW d \in Drafts, Mark(f, d) PROVE TakenNotGone'
  BY <1>10 DEF Mark
<1>11. ASSUME NEW f \in Flows, MarkThrows(f) PROVE TakenNotGone'
  BY <1>11 DEF MarkThrows, Leave
<1>12. ASSUME NEW f \in Flows, Post(f) PROVE TakenNotGone'
  BY <1>12 DEF Post
<1>13. ASSUME NEW f \in Flows, PostFails(f) PROVE TakenNotGone'
  BY <1>13 DEF PostFails
<1>14. ASSUME NEW f \in Flows, Reply(f) PROVE TakenNotGone'
  BY <1>14 DEF Reply
<1>15. ASSUME NEW f \in Flows, Unacknowledged(f) PROVE TakenNotGone'
  BY <1>15 DEF Unacknowledged, Unconfirmed
<1>16. ASSUME NEW f \in Flows, RecordSent(f) \/ RecordFailed(f) PROVE TakenNotGone'
  BY <1>16 DEF RecordSent, RecordFailed, Resume
<1>17. ASSUME NEW f \in Flows, RecordFailedThrows(f) PROVE TakenNotGone'
  BY <1>17 DEF RecordFailedThrows, Leave
<1>18. ASSUME NEW d \in Drafts,
              Age(d) \/ SaveDraft(d) \/ CancelFind(d) \/ CancelWrite(d)
       PROVE  TakenNotGone'
  BY <1>18 DEF Age, SaveDraft, CancelFind, CancelWrite, Settled
<1>19. CASE UNCHANGED vars
  BY <1>19 DEF vars
<1> QED
  BY <1>1, <1>2, <1>3, <1>4, <1>5, <1>6, <1>7, <1>8, <1>9, <1>10, <1>11, <1>12,
     <1>13, <1>14, <1>15, <1>16, <1>17, <1>18, <1>19
  DEF Next, FlowStep, Starting

-----------------------------------------------------------------------------
\* Only a flow that took the draft before it was cancelled revives it.
LEMMA ReviveStep ==
  ASSUME FlowInv, TakenNotGone, [Next]_vars, NEW d \in Drafts,
         status[d] = "cancelled", status'[d] # "cancelled"
  PROVE  \E f \in Flows : d \in Taken(f) \ gone[f]
<1> USE DraftAssumption
    DEF FlowInv, TypeOK, TakenNotGone, Taken, Submitting, Goto, SetStatus
<1>1. ASSUME NEW f \in Flows, NEW e \in Drafts, Mark(f, e)
      PROVE  d \in Taken(f) \ gone[f]
  BY <1>1 DEF Mark
<1>2. ASSUME NEW f \in Flows, RecordSent(f) \/ RecordFailed(f)
      PROVE  d \in Taken(f) \ gone[f]
  BY <1>2 DEF RecordSent, RecordFailed, Resume
<1>3. ASSUME NEW e \in Drafts,
             ExpireDraft(e) \/ SaveDraft(e) \/ CancelWrite(e)
      PROVE  FALSE
  BY <1>3 DEF ExpireDraft, SaveDraft, CancelWrite
<1>4. \/ \E f \in Flows, e \in Drafts : Mark(f, e)
      \/ \E f \in Flows : RecordSent(f) \/ RecordFailed(f)
      \/ \E e \in Drafts : ExpireDraft(e) \/ SaveDraft(e) \/ CancelWrite(e)
      \/ UNCHANGED status
  BY DEF Next, FlowStep, Starting, vars, GoOffline, GoOnline, LaunchApp, StartApp,
         ExpireThrows, Listen,
         QuitApp, KillApp, OnConnected, SendNow, Probe, List, ReadList, Finish,
         MarkThrows, Post, PostFails, Reply, Unacknowledged, RecordFailedThrows,
         Age, CancelFind
<1> QED BY <1>1, <1>2, <1>3, <1>4

-----------------------------------------------------------------------------
\* The inductive invariant holds in every reachable state.
THEOREM DraftInvariance ==
  Spec => [](FlowInv /\ NoOrphanSubmitting /\ SendInv /\ TakenNotGone)
<1>1. Init => FlowInv /\ NoOrphanSubmitting /\ SendInv /\ TakenNotGone
  <2> SUFFICES ASSUME Init PROVE NoOrphanSubmitting /\ SendInv /\ TakenNotGone
    BY FlowInit
  <2> QED
    BY DEF Init, NoOrphanSubmitting, SendInv, PostedUnconfirmed, NoNeedlessResend,
           TakenNotGone, Taken, Submitting
<1>2. FlowInv /\ NoOrphanSubmitting /\ SendInv /\ TakenNotGone /\ [Next]_vars
        => (FlowInv /\ NoOrphanSubmitting /\ SendInv /\ TakenNotGone)'
  BY FlowInvStep, OrphanStep, SendStep, GoneStep
<1> QED BY <1>1, <1>2, PTL DEF Spec

\* The drafts, flows and flags stay in their types, and a flow has a draft at
\* hand exactly while it submits one.
THEOREM DraftTypeCorrect == Spec => []TypeOK
<1>1. FlowInv => TypeOK
  BY DEF FlowInv
<1> QED BY <1>1, DraftInvariance, PTL

\* The app sends a draft again only after it failed to record that the draft
\* had been accepted.
THEOREM SendsOnce == Spec => []NoNeedlessResend
<1>1. SendInv => NoNeedlessResend
  BY DEF SendInv
<1> QED BY <1>1, DraftInvariance, PTL

\* Only a kill or a failed update leaves a draft in submitting.
THEOREM NoOrphans == Spec => []NoOrphanSubmitting
<1> QED BY DraftInvariance, PTL

\* A cancelled draft is revived only by a flush that had taken it before.
THEOREM CancelledStaysCancelled == Spec => CancelledStays
<1>1. FlowInv /\ TakenNotGone /\ [Next]_vars =>
        [\A d \in Drafts :
           status[d] = "cancelled" /\ status'[d] # "cancelled" =>
             \E f \in Flows : d \in Taken(f) \ gone[f]]_vars
  BY ReviveStep
<1> QED BY <1>1, DraftInvariance, PTL DEF Spec, CancelledStays

=============================================================================

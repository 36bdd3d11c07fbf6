-------------------------------- MODULE WebQueue --------------------------------
(***************************************************************************)
(* Payments from the Send page of the web frontend: confirmed online they  *)
(* are posted at once, offline or after a network error they go into a     *)
(* queue in IndexedDB, which useTransactionQueueProcessor works off.  The  *)
(* hook is mounted by the layout and by the Send page, runs a pass when it *)
(* is mounted, when the device comes online, when the service worker or a  *)
(* retry asks for it, and again whenever a toast appears (its effect       *)
(* depends on the toast manager); retries set a timer.  So a pass may      *)
(* start at any time, and nothing keeps passes apart.                      *)
(***************************************************************************)
EXTENDS Naturals, FiniteSets

CONSTANTS
  Sends,        \* payments the user confirms
  Passes,       \* passes of processQueue under way at once
  MaxRetries,   \* MAX_RETRIES
  MaxClicks     \* bound on clicks on Retry

ASSUME WebQueueAssumption == MaxRetries \in Nat /\ MaxClicks \in Nat

VARIABLES
  stored,       \* the object store: of each queued payment its status and retries
  form,         \* where the confirmation of each payment is
  pass,         \* each pass: its step, the copies it has still to do, and the current one
  clicks,       \* clicks on Retry
  clicked,      \* of each payment, the clicks that have read the entry
  accepted,     \* posts of each payment the API has accepted: none, one or more (2)
  queued,       \* history: payments that were put into the queue
  unsure        \* history: payments accepted without the page recording it, or
                \* in the hands of two passes, or of two clicks, at once

webQueueVars == <<stored, form, pass, clicks, clicked, accepted, queued, unsure>>

NoPass == [step |-> "idle", todo |-> {}, current |-> {}]
Copy(s, n) == [send |-> s, retries |-> n]
Pending == {Copy(s, stored[s].retries) : s \in {r \in DOMAIN stored : stored[r].status = "pending"}}
Put(s, status, n) ==
  stored' = [r \in DOMAIN stored \cup {s} |->
               IF r = s THEN [status |-> status, retries |-> n] ELSE stored[r]]

WebQueueInit ==
  /\ stored = << >>
  /\ form = [s \in Sends |-> "review"]
  /\ pass = [f \in Passes |-> NoPass]
  /\ clicks = 0
  /\ clicked = [s \in Sends |-> 0]
  /\ accepted = [s \in Sends |-> 0]
  /\ queued = {} /\ unsure = {}

\* The API accepts a post, or accepts it and the answer is lost, or does not.
Outcomes == {"accepted", "lost", "failed"}

PostOf(s, outcome) ==
  /\ accepted' = [accepted EXCEPT ![s] = IF outcome # "failed" /\ @ < 2 THEN @ + 1 ELSE @]
  /\ unsure' = IF outcome = "lost" THEN unsure \cup {s} ELSE unsure

-----------------------------------------------------------------------------
\* handleConfirm: online the payment is posted.  It is queued when the device is
\* offline and when fetch fails; a refusal ends it.
Confirm(s) ==
  /\ form[s] = "review"
  /\ \E outcome \in Outcomes, next \in {"queueing", "closed"} :
       /\ outcome = "accepted" => next = "closed"
       /\ PostOf(s, outcome)
       /\ form' = [form EXCEPT ![s] = next]
  /\ UNCHANGED <<stored, pass, clicks, clicked, queued>>

QueueTransaction(s) ==
  /\ form[s] = "queueing"
  /\ form' = [form EXCEPT ![s] = "closed"]
  /\ \/ Put(s, "pending", 0) /\ queued' = queued \cup {s}
     \/ UNCHANGED <<stored, queued>>      \* IndexedDB fails, and the user is told
  /\ UNCHANGED <<pass, clicks, clicked, accepted, unsure>>

-----------------------------------------------------------------------------
\* What a pass has in hand: the payments of the list it has read.
InHand(f) == {c.send : c \in pass[f].todo \cup pass[f].current}

\* processQueue reads the pending entries.
StartPass(f) ==
  /\ pass[f] = NoPass /\ Pending # {}
  /\ pass' = [pass EXCEPT ![f] = [step |-> "post", todo |-> Pending, current |-> {}]]
  /\ unsure' = unsure \cup
       {s \in {c.send : c \in Pending} : \E g \in Passes : s \in InHand(g)}
  /\ UNCHANGED <<stored, form, clicks, clicked, accepted, queued>>

\* processTransaction posts one of them; the ids, and so the order, are random.
\* A post without an answer that says so has not succeeded.
PostQueued(f, c) ==
  /\ pass[f].step = "post" /\ c \in pass[f].todo
  /\ \E outcome \in Outcomes :
       /\ PostOf(c.send, outcome)
       /\ pass' = [pass EXCEPT ![f] = [step |-> IF outcome = "accepted" THEN "remove" ELSE "fail",
                                       todo |-> @.todo \ {c}, current |-> {c}]]
  /\ UNCHANGED <<stored, form, clicks, clicked, queued>>

\* On to the next copy.
Finish(f) ==
  pass' = [pass EXCEPT ![f] = IF @.todo = {} THEN NoPass
                              ELSE [@ EXCEPT !.step = "post", !.current = {}]]

\* Mutant: the entry is left for a later pass to clear.
RemoveNothing(f) ==
  /\ pass[f].step = "remove"
  /\ Finish(f)
  /\ UNCHANGED <<stored, form, clicks, clicked, accepted, queued, unsure>>

RemoveQueued(f) ==
  /\ pass[f].step = "remove"
  /\ stored' = [s \in DOMAIN stored \ {c.send : c \in pass[f].current} |-> stored[s]]
  /\ Finish(f)
  /\ UNCHANGED <<form, clicks, clicked, accepted, queued, unsure>>

\* A failing removal is caught with the failing posts.
RemoveFails(f) ==
  /\ pass[f].step = "remove"
  /\ pass' = [pass EXCEPT ![f].step = "fail"]
  /\ unsure' = unsure \cup {c.send : c \in pass[f].current}
  /\ UNCHANGED <<stored, form, clicks, clicked, accepted, queued>>

\* The copy is written back whole, with one retry more or as failed, whatever has
\* become of the entry.
WriteBack(f) ==
  /\ pass[f].step = "fail"
  /\ \E c \in pass[f].current :
       IF c.retries >= MaxRetries THEN Put(c.send, "failed", c.retries)
       ELSE Put(c.send, "pending", c.retries + 1)
  /\ Finish(f)
  /\ UNCHANGED <<form, clicks, clicked, accepted, queued, unsure>>

\* An exception here ends the whole pass.
WriteBackFails(f) ==
  /\ pass[f].step = "fail"
  /\ pass' = [pass EXCEPT ![f] = NoPass]
  /\ UNCHANGED <<stored, form, clicks, clicked, accepted, queued, unsure>>

-----------------------------------------------------------------------------
\* retryQueuedTransaction reads a failed entry, and then writes it as pending.
ReadForRetry(s) ==
  /\ clicks < MaxClicks
  /\ s \in DOMAIN stored /\ stored[s].status = "failed"
  /\ clicks' = clicks + 1
  /\ clicked' = [clicked EXCEPT ![s] = @ + 1]
  /\ UNCHANGED <<stored, form, pass, accepted, queued, unsure>>

WriteForRetry(s) ==
  /\ clicked[s] > 0
  /\ clicked' = [clicked EXCEPT ![s] = @ - 1]
  /\ Put(s, "pending", 0)
  /\ unsure' = IF s \in DOMAIN stored /\ stored[s].status = "failed" THEN unsure
               ELSE unsure \cup {s}
  /\ UNCHANGED <<form, pass, clicks, accepted, queued>>

\* The page is reloaded or closed: everything in memory is gone, timers too.
Reload ==
  /\ pass' = [f \in Passes |-> NoPass]
  /\ form' = [s \in Sends |-> IF form[s] = "queueing" THEN "closed" ELSE form[s]]
  /\ clicked' = [s \in Sends |-> 0]
  /\ unsure' = unsure \cup
       UNION {InHand(f) : f \in {g \in Passes : pass[g].step = "remove"}}
  /\ UNCHANGED <<stored, clicks, accepted, queued>>

WebQueueNext ==
  \/ Reload
  \/ \E s \in Sends : Confirm(s) \/ QueueTransaction(s) \/ ReadForRetry(s) \/ WriteForRetry(s)
  \/ \E f \in Passes :
       \/ StartPass(f) \/ \E c \in pass[f].todo : PostQueued(f, c)
       \/ RemoveQueued(f) \/ RemoveFails(f) \/ WriteBack(f) \/ WriteBackFails(f)

WebQueueSpec == WebQueueInit /\ [][WebQueueNext]_webQueueVars

WebQueueTypeOK ==
  /\ DOMAIN stored \subseteq Sends
  /\ \A s \in DOMAIN stored :
       stored[s] \in [status : {"pending", "failed"}, retries : 0 .. MaxRetries]
  /\ \A f \in Passes :
       /\ pass[f].step \in {"idle", "post", "remove", "fail"}
       /\ Cardinality(pass[f].current) <= 1
  /\ accepted \in [Sends -> 0 .. 2]

\* A queued payment is in the queue until it has been accepted, however passes,
\* clicks, failures and reloads interleave; and an accepted one is neither left
\* there nor posted again, unless the page could not record that it was accepted
\* or two passes had it in hand.  (The posts carry no idempotency key.)
QueuedSentOnce ==
  \A s \in Sends :
    /\ s \in queued => s \in DOMAIN stored \/ accepted[s] > 0
    /\ accepted[s] > 0 /\ s \in DOMAIN stored =>
         s \in unsure \/ \E f \in Passes :
           pass[f].step = "remove" /\ s \in {c.send : c \in pass[f].current}
    /\ accepted[s] > 1 => s \in unsure

=============================================================================

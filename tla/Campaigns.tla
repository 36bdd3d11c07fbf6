------------------------------ MODULE Campaigns ------------------------------
(***************************************************************************)
(* One campaign, the creator's deposit address, and the two services that  *)
(* write the campaign: StellarSseConsumerService, which follows the        *)
(* payments of the address on Horizon, and CampaignsService, by which the  *)
(* creator completes milestones.  One process; it may stop at any step.    *)
(*                                                                         *)
(* The claim before dispatch (cache.set) answers "true" whether or not the *)
(* key existed, so it lets every delivery through and is not a step here.  *)
(* The cursor is written without a TTL and so gets the minute that         *)
(* redis.module.ts gives to every key.                                     *)
(***************************************************************************)
EXTENDS Naturals, Sequences

CONSTANTS
  Payments,         \* amounts of Horizon records; 0 is one that is not relevant
  MaxPayments,      \* bound on records
  Milestones, Target,   \* the milestones and their target amounts
  Goal,
  Requests          \* the creator's requests

ASSUME CampaignsAssumption ==
  /\ Payments \subseteq Nat /\ MaxPayments \in Nat
  /\ Milestones # {} /\ Target \in [Milestones -> Nat] /\ Goal \in Nat \ {0}

VARIABLES
  horizon,      \* the records of the address, oldest first
  cursor,       \* horizon:cursor:<address>, 0 when there is none
  connected,
  position,     \* the last record the open stream has delivered
  handling,     \* the step of handlePayment
  raisedAmount, campaignStatus, milestone,
  request,      \* the milestone, step and what was read, of each request
  counted,      \* history: how often each record has been counted
  excused,      \* history: records whose handling failed, or that came after the
                \* campaign was complete
  skipped,      \* history: records that no stream has delivered
  repeated,     \* history: records counted without their cursor being stored
  expired,      \* history: a stored cursor has expired
  loose         \* history: something kept a request from seeing the last milestone

streamVars    == <<cursor, connected, position, handling>>
campaignRow   == <<raisedAmount, campaignStatus, milestone>>
streamHistory == <<counted, excused, skipped, repeated, expired>>
campaignsVars == <<horizon, streamVars, campaignRow, request, streamHistory, loose>>

NoRequest == [step |-> "idle", on |-> {}, others |-> {}]

CampaignsInit ==
  /\ horizon = << >>
  /\ cursor = 0 /\ connected = FALSE /\ position = 0 /\ handling = "idle"
  /\ raisedAmount = 0 /\ campaignStatus = "ACTIVE"
  /\ milestone = [m \in Milestones |-> "PENDING"]
  /\ request = [r \in Requests |-> NoRequest]
  /\ counted = [n \in 1 .. MaxPayments |-> 0]
  /\ excused = {} /\ skipped = {} /\ repeated = {} /\ expired = FALSE /\ loose = FALSE

Open(ms) == {m \in Milestones : ms[m] # "COMPLETED"}

Requesting == \E r \in Requests : request[r] # NoRequest

-----------------------------------------------------------------------------
\* A record of the address appears on Horizon.
Pay(amount) ==
  /\ Len(horizon) < MaxPayments
  /\ horizon' = Append(horizon, amount)
  /\ UNCHANGED <<streamVars, campaignRow, request, streamHistory, loose>>

\* consumeStream reads the cursor, "now" when there is none.
Connect ==
  LET from == IF cursor = 0 THEN Len(horizon) ELSE cursor
  IN  /\ ~connected
      /\ connected' = TRUE /\ position' = from
      /\ skipped' = IF cursor = 0
                     THEN skipped \cup {n \in 1 .. from : counted[n] = 0 /\ n \notin excused}
                     ELSE skipped
      /\ UNCHANGED <<horizon, cursor, handling, campaignRow, request, counted, excused, repeated,
                     expired, loose>>

\* The stream ends, by Horizon or by the idle watchdog; a payment that is being
\* handled is finished first.
Disconnect ==
  /\ connected /\ handling = "idle"
  /\ connected' = FALSE
  /\ UNCHANGED <<horizon, cursor, position, handling, campaignRow, request, streamHistory,
                 loose>>

\* handlePayment of the next record: an operation of another type or to another
\* address is passed over, and moves no cursor.
Receive ==
  /\ connected /\ handling = "idle" /\ position < Len(horizon)
  /\ position' = position + 1
  /\ handling' = IF horizon[position + 1] = 0 THEN "idle" ELSE "find"
  /\ UNCHANGED <<horizon, cursor, connected, campaignRow, request, streamHistory, loose>>

\* Mutant: the cursor moves before the payment is counted.
FindCampaignCursorFirst ==
  /\ handling = "find"
  /\ cursor' = position
  /\ handling' = IF campaignStatus = "ACTIVE" THEN "count" ELSE "store"
  /\ excused' = IF campaignStatus = "ACTIVE" THEN excused ELSE excused \cup {position}
  /\ UNCHANGED <<horizon, connected, position, campaignRow, request, counted, skipped, repeated,
                 expired, loose>>

\* Campaigns that are not ACTIVE any more are not found, and get nothing.
FindCampaign ==
  /\ handling = "find"
  /\ handling' = IF campaignStatus = "ACTIVE" THEN "count" ELSE "store"
  /\ excused' = IF campaignStatus = "ACTIVE" THEN excused ELSE excused \cup {position}
  /\ UNCHANGED <<horizon, cursor, connected, position, campaignRow, request, counted, skipped,
                 repeated, expired, loose>>

\* One transaction: the amount, the ACTIVE milestones it reaches, the goal.  A
\* campaign whose last milestone is reached here is not completed by that.
CountPayment ==
  LET raised  == raisedAmount + horizon[position]
      reached == {m \in Milestones : milestone[m] = "ACTIVE" /\ raised >= Target[m]}
  IN  /\ handling = "count"
      /\ raisedAmount' = raised
      /\ milestone' = [m \in Milestones |-> IF m \in reached THEN "COMPLETED" ELSE milestone[m]]
      /\ campaignStatus' = IF raised >= Goal THEN "COMPLETED" ELSE campaignStatus
      /\ counted' = [counted EXCEPT ![position] = @ + 1]
      /\ loose' = (loose \/ (reached # {} /\ (Open(milestone') = {} \/ Requesting)))
      /\ handling' = "store"
      /\ UNCHANGED <<horizon, cursor, connected, position, request, excused, skipped, repeated,
                     expired>>

\* After the notifications the cursor is stored.
SetCursor ==
  /\ handling = "store"
  /\ cursor' = position
  /\ handling' = "idle"
  /\ UNCHANGED <<horizon, connected, position, campaignRow, request, streamHistory, loose>>

\* What is left undone when the handling of a record stops at this step.
Unfinished(lost) ==
  /\ excused' = IF lost /\ handling \in {"find", "count"} THEN excused \cup {position}
                ELSE excused
  /\ repeated' = IF handling = "store" THEN repeated \cup {position} ELSE repeated
  /\ handling' = "idle"
  /\ UNCHANGED <<horizon, cursor, position, campaignRow, request, counted, skipped, expired,
                 loose>>

\* A statement fails: the loop takes it for a record it could not parse, and
\* goes on with the next one.
HandlerFails ==
  /\ handling # "idle"
  /\ Unfinished(TRUE)
  /\ UNCHANGED connected

Stop ==
  /\ connected
  /\ connected' = FALSE
  /\ Unfinished(FALSE)

CursorExpires ==
  /\ cursor # 0
  /\ cursor' = 0 /\ expired' = TRUE
  /\ UNCHANGED <<horizon, connected, position, handling, campaignRow, request, counted, excused,
                 skipped, repeated, loose>>

-----------------------------------------------------------------------------
\* Milestones are created PENDING, and nothing in the service activates one: it
\* happens in the database, if at all.
Activate(m) ==
  /\ milestone[m] = "PENDING"
  /\ milestone' = [milestone EXCEPT ![m] = "ACTIVE"]
  /\ UNCHANGED <<horizon, streamVars, raisedAmount, campaignStatus, request, streamHistory,
                 loose>>

\* completeMilestone reads the campaign with its milestones ...
ReadMilestones(r, m) ==
  /\ request[r] = NoRequest /\ milestone[m] # "COMPLETED"
  /\ request' = [request EXCEPT ![r] =
                   [step |-> "mark", on |-> {m}, others |-> Open(milestone) \ {m}]]
  /\ loose' = (loose \/ Requesting)
  /\ UNCHANGED <<horizon, streamVars, campaignRow, streamHistory>>

\* Mutant: the campaign is completed with its first milestone.
MarkAnyMilestone(r) ==
  /\ request[r].step = "mark"
  /\ milestone' = [m \in Milestones |-> IF m \in request[r].on THEN "COMPLETED" ELSE milestone[m]]
  /\ request' = [request EXCEPT ![r].step = "complete"]
  /\ UNCHANGED <<horizon, streamVars, raisedAmount, campaignStatus, streamHistory, loose>>

\* ... marks the milestone, and asks of the others what it has read.
MarkMilestone(r) ==
  /\ request[r].step = "mark"
  /\ milestone' = [m \in Milestones |-> IF m \in request[r].on THEN "COMPLETED" ELSE milestone[m]]
  /\ request' = [request EXCEPT ![r] = IF request[r].others = {}
                                       THEN [@ EXCEPT !.step = "complete"] ELSE NoRequest]
  /\ UNCHANGED <<horizon, streamVars, raisedAmount, campaignStatus, streamHistory, loose>>

CompleteCampaign(r) ==
  /\ request[r].step = "complete"
  /\ campaignStatus' = "COMPLETED"
  /\ request' = [request EXCEPT ![r] = NoRequest]
  /\ UNCHANGED <<horizon, streamVars, raisedAmount, milestone, streamHistory, loose>>

\* A statement fails, or the process stops, in the middle of a request.
RequestFails(r) ==
  /\ request[r] # NoRequest
  /\ request' = [request EXCEPT ![r] = NoRequest]
  /\ loose' = (loose \/ request[r].step = "complete")
  /\ UNCHANGED <<horizon, streamVars, campaignRow, streamHistory>>

-----------------------------------------------------------------------------
CampaignsNext ==
  \/ \E amount \in Payments : Pay(amount)
  \/ Connect \/ Disconnect \/ Receive \/ FindCampaign \/ CountPayment \/ SetCursor
  \/ HandlerFails \/ Stop \/ CursorExpires
  \/ \E m \in Milestones : Activate(m)
  \/ \E r \in Requests :
       \/ \E m \in Milestones : ReadMilestones(r, m)
       \/ MarkMilestone(r) \/ CompleteCampaign(r) \/ RequestFails(r)

CampaignsSpec == CampaignsInit /\ [][CampaignsNext]_campaignsVars

CampaignsTypeOK ==
  /\ horizon \in Seq(Payments) /\ Len(horizon) <= MaxPayments
  /\ cursor \in 0 .. Len(horizon) /\ position \in 0 .. Len(horizon)
  /\ connected \in BOOLEAN /\ handling \in {"idle", "find", "count", "store"}
  /\ raisedAmount \in Nat /\ campaignStatus \in {"ACTIVE", "COMPLETED"}
  /\ milestone \in [Milestones -> {"PENDING", "ACTIVE", "COMPLETED"}]
  /\ counted \in [1 .. MaxPayments -> Nat]
  /\ excused \cup skipped \cup repeated \subseteq 1 .. Len(horizon)
  /\ expired \in BOOLEAN

\* Every payment the stored cursor has passed has been counted, unless its
\* handling failed, the campaign was complete by then, or a stream started
\* without a cursor behind it; none is counted twice but those whose handling
\* stopped between the count and the cursor; and as long as no cursor has expired
\* a stream starts behind a payment only before the first cursor is stored.
PaymentsCounted ==
  \A n \in 1 .. Len(horizon) :
    /\ n <= cursor /\ horizon[n] # 0 => counted[n] > 0 \/ n \in excused \cup skipped
    /\ counted[n] > 1 => n \in repeated
    /\ n \in skipped /\ ~expired => \A m \in 1 .. n - 1 : counted[m] > 0 => m \in repeated

\* No payment is counted twice: the claim before dispatch is an "Atomic SET NX
\* de-duplication" that answers false "when it already existed"
\* (stellar-sse-consumer.service.ts:359-362).  It never answers false, so a
\* payment delivered again is counted again.
DeliveryCountedOnce == \A n \in 1 .. MaxPayments : counted[n] <= 1

\* The campaign is completed by its goal or by all its milestones, never before;
\* and when the last milestone is completed the campaign is, as long as requests
\* neither overlapped nor stopped half way and the last one was not reached by a
\* payment.
CampaignCompletes ==
  /\ campaignStatus = "COMPLETED" => raisedAmount >= Goal \/ Open(milestone) = {}
  /\ ~loose /\ Open(milestone) = {} /\ ~Requesting =>
       campaignStatus = "COMPLETED"

=============================================================================

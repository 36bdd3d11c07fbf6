-------------------------------- MODULE Sep24 --------------------------------
(***************************************************************************)
(* One SEP-24 transaction under Sep24Service: initiate, resuming it,       *)
(* getStatus with its poll of the anchor, and the anchor's callbacks.      *)
(* The anchor's side only moves forward; each move sends a callback, which *)
(* the network may delay, reorder and deliver again.  When the anchor      *)
(* cannot be reached the service makes an answer up by the time that has   *)
(* passed ("simulate status progression for development").  Statuses are   *)
(* numbered in the order of that progression.                              *)
(***************************************************************************)
EXTENDS Naturals

CONSTANTS
  Polls,        \* concurrent calls of getStatus, initiate and handleCallback
  Final,         \* the last status: 0 is "incomplete", Final "completed"
  MaxPolls      \* bound on calls

ASSUME Sep24Assumption == Final \in Nat \ {0} /\ MaxPolls \in Nat

Statuses == 0 .. Final

VARIABLES
  anchor,       \* the anchor's status of the transaction
  callbacks,    \* callbacks sent: the statuses they carry
  minutes,      \* minutes since startedAt, as far as simulateStatusUpdate counts
  sepStatus,    \* sep24Transaction.status
  lastCallbackAt,   \* whether a callback has been stored
  completedAt,  \* whether the completion time is set
  call,         \* what each call is doing, and what it has read
  calls,        \* calls begun
  applied,      \* history: the highest status a callback has applied
  disturbed     \* history: calls overlapped, a callback came late, or a
                \* resumption wrote another status than the stored one

sep24Row  == <<sepStatus, lastCallbackAt, completedAt>>
sep24Vars == <<anchor, callbacks, minutes, sep24Row, call, calls, applied, disturbed>>

NoCall == [does |-> "idle", seen |-> 0, got |-> 0]

Sep24Init ==
  /\ anchor = 0 /\ callbacks = {} /\ minutes = 0
  /\ sepStatus = 0 /\ lastCallbackAt = FALSE /\ completedAt = FALSE
  /\ call = [p \in Polls |-> NoCall]
  /\ calls = 0 /\ applied = 0 /\ disturbed = FALSE

AnchorMoves ==
  /\ anchor < Final
  /\ \E s \in anchor + 1 .. Final : anchor' = s /\ callbacks' = callbacks \cup {s}
  /\ UNCHANGED <<minutes, sep24Row, call, calls, applied, disturbed>>

MinutePasses ==
  /\ minutes < Final
  /\ minutes' = minutes + 1
  /\ UNCHANGED <<anchor, callbacks, sep24Row, call, calls, applied, disturbed>>

InCall == \E p \in Polls : call[p] # NoCall

\* Every call starts by reading the record.
BeginCall(p, what, late) ==
  /\ call[p] = NoCall /\ calls < MaxPolls
  /\ calls' = calls + 1
  /\ call' = [call EXCEPT ![p] = [what EXCEPT !.seen = sepStatus]]
  /\ disturbed' = (disturbed \/ InCall \/ late)
  /\ UNCHANGED <<anchor, callbacks, minutes, sep24Row, applied>>

\* getStatus polls the anchor only while no callback has ever arrived.
GetStatus(p) == ~lastCallbackAt /\ BeginCall(p, [NoCall EXCEPT !.does = "poll"], FALSE)

Resume(p) == BeginCall(p, [NoCall EXCEPT !.does = "resume"], FALSE)

Answer(p, s) ==
  /\ call' = [call EXCEPT ![p] = [does |-> IF @.does = "poll" THEN "update" ELSE "overwrite",
                                 seen |-> @.seen, got |-> s]]
  /\ UNCHANGED <<anchor, callbacks, minutes, sep24Row, calls, applied, disturbed>>

\* The anchor answers with its status at that moment ...
AnchorAnswers(p) == call[p].does \in {"poll", "resume"} /\ Answer(p, anchor)

\* ... or without one, and the status is taken to be the one that was read; ...
AnchorSilent(p) == call[p].does = "resume" /\ Answer(p, call[p].seen)

\* ... it refuses, and nothing is written; ...
AnchorRefuses(p) ==
  /\ call[p].does \in {"poll", "resume"}
  /\ call' = [call EXCEPT ![p] = NoCall]
  /\ UNCHANGED <<anchor, callbacks, minutes, sep24Row, calls, applied, disturbed>>

\* ... or cannot be reached: simulateStatusUpdate answers a poll by the time
\* that has passed, simulateAnchorResponse a resumption by "incomplete".
AnchorUnreachable(p) ==
  \/ call[p].does = "poll" /\ Answer(p, minutes)
  \/ call[p].does = "resume" /\ Answer(p, 0)

\* A poll writes a status that differs from the one it read.
UpdateStatus(p) ==
  LET changed == call[p].got # call[p].seen
  IN  /\ call[p].does = "update"
      /\ sepStatus' = IF changed THEN call[p].got ELSE sepStatus
      /\ completedAt' = (completedAt \/ (changed /\ call[p].got = Final))
      /\ call' = [call EXCEPT ![p] = NoCall]
      /\ UNCHANGED <<anchor, callbacks, minutes, lastCallbackAt, calls, applied, disturbed>>

\* initiate writes its status, different or not, and never a completion.
OverwriteStatus(p) ==
  /\ call[p].does = "overwrite"
  /\ sepStatus' = call[p].got
  /\ disturbed' = (disturbed \/ call[p].got # sepStatus)
  /\ call' = [call EXCEPT ![p] = NoCall]
  /\ UNCHANGED <<anchor, callbacks, minutes, lastCallbackAt, completedAt, calls, applied>>

\* handleCallback finds the record by the token and refuses another transaction's
\* id, which writes nothing; any valid status is taken, in whatever order
\* callbacks arrive.
HandleCallback(p, s) ==
  /\ s \in callbacks
  /\ BeginCall(p, [does |-> "callback", seen |-> 0, got |-> s], s < applied)

\* A callback without a status the service knows keeps the one that is read, ...
NoteCallback(p) == BeginCall(p, [NoCall EXCEPT !.does = "note"], FALSE)

\* ... so that it leaves its time only.
ApplyNote(p) ==
  /\ call[p].does = "note"
  /\ lastCallbackAt' = TRUE
  /\ call' = [call EXCEPT ![p] = NoCall]
  /\ UNCHANGED <<anchor, callbacks, minutes, sepStatus, completedAt, calls, applied, disturbed>>

\* Mutant: the status is stored only while no callback has been applied.
ApplyFirstCallback(p) ==
  /\ call[p].does = "callback"
  /\ applied' = IF call[p].got > applied THEN call[p].got ELSE applied
  /\ sepStatus' = IF lastCallbackAt THEN sepStatus ELSE call[p].got
  /\ completedAt' = (completedAt \/ call[p].got = Final)
  /\ lastCallbackAt' = TRUE
  /\ call' = [call EXCEPT ![p] = NoCall]
  /\ UNCHANGED <<anchor, callbacks, minutes, calls, disturbed>>

ApplyCallback(p) ==
  LET changed == call[p].got # call[p].seen
  IN  /\ call[p].does = "callback"
      /\ applied' = IF call[p].got > applied THEN call[p].got ELSE applied
      /\ sepStatus' = IF changed THEN call[p].got ELSE sepStatus
      /\ completedAt' = (completedAt \/ (changed /\ call[p].got = Final))
      /\ lastCallbackAt' = TRUE
      /\ call' = [call EXCEPT ![p] = NoCall]
      /\ UNCHANGED <<anchor, callbacks, minutes, calls, disturbed>>

Sep24Next ==
  \/ AnchorMoves \/ MinutePasses
  \/ \E p \in Polls :
       \/ GetStatus(p) \/ Resume(p)
       \/ AnchorAnswers(p) \/ AnchorSilent(p) \/ AnchorRefuses(p) \/ AnchorUnreachable(p)
       \/ UpdateStatus(p) \/ OverwriteStatus(p) \/ ApplyCallback(p)
       \/ NoteCallback(p) \/ ApplyNote(p)
       \/ \E s \in Statuses : HandleCallback(p, s)

Sep24Spec == Sep24Init /\ [][Sep24Next]_sep24Vars

Sep24TypeOK ==
  /\ anchor \in Statuses /\ callbacks \subseteq Statuses /\ minutes \in Statuses
  /\ sepStatus \in Statuses /\ applied \in Statuses
  /\ lastCallbackAt \in BOOLEAN /\ completedAt \in BOOLEAN
  /\ call \in [Polls -> [does : {"idle", "poll", "resume", "update", "overwrite", "callback", "note"},
                         seen : Statuses, got : Statuses]]
  /\ calls \in 0 .. MaxPolls

\* Once callbacks arrive the record follows the anchor: when the newest one has
\* been applied and no call is under way, the stored status is the anchor's,
\* whatever polls have made up before, and a completion has its time - as long
\* as calls did not overlap, callbacks did not overtake one another, and no
\* resumption wrote another status than the stored one.
StatusFollowsAnchor ==
  ~disturbed /\ ~InCall /\ anchor > 0 /\ applied = anchor =>
    sepStatus = anchor /\ (sepStatus = Final => completedAt)

=============================================================================

--------------------------- MODULE ServicesProofs ---------------------------
(***************************************************************************)
(* For every set of calls, readers, requests, payments, events and passes, *)
(* and every value of the bounds: what each service around payments        *)
(* promises. An undisturbed SEP-24 record follows the callbacks of the     *)
(* anchor; a cache serves nothing older than its TTL or than an answered   *)
(* change; a counter lets no more requests through than the limit; the     *)
(* campaign cursor passes no payment uncounted; one notification is sent   *)
(* per window; a queued payment is sent once; the address libraries route  *)
(* alike.                                                                  *)
(*                                                                         *)
(* The last part shows that the composed module runs each of them as it is *)
(* specified alone, so that each promise, and those of IdentityProofs,     *)
(* hold of the platform.                                                   *)
(***************************************************************************)
EXTENDS Services, IdentityProofs

-----------------------------------------------------------------------------
\* SEP-24 transactions

\* A call that has read the record and is not done.
Busy(p) == call[p].does # "idle"

\* A call that does nothing has left nothing behind.
IdleIsNoCall == \A p \in Polls : call[p].does = "idle" => call[p] = NoCall

\* Until calls overlap there is one at a time, so that the status it has read is
\* still the stored one.
OneCall ==
  /\ \A p, q \in Polls : Busy(p) /\ Busy(q) => p = q
  /\ \A p \in Polls : Busy(p) => call[p].seen = sepStatus

\* A poll runs only while no callback has been stored, and no callback is older
\* than those applied.
PollBeforeCallback ==
  \A p \in Polls :
    /\ call[p].does \in {"poll", "update"} => ~lastCallbackAt
    /\ call[p].does = "callback" => call[p].got >= applied

\* After a callback with a status the stored one is the newest applied.
CallbackStored ==
  /\ applied > 0 => sepStatus = applied
  /\ sepStatus = Final => completedAt

\* What holds as long as no call has overlapped another or come out of order.
Undisturbed == ~disturbed => OneCall /\ PollBeforeCallback /\ CallbackStored

\* The inductive invariant of SEP-24 transactions.
Sep24Inv ==
  /\ Sep24TypeOK
  /\ disturbed \in BOOLEAN
  /\ IdleIsNoCall
  /\ applied > 0 => lastCallbackAt
  /\ Undisturbed

-----------------------------------------------------------------------------
\* A call is idle exactly when it is NoCall.
LEMMA BusyIsInCall == IdleIsNoCall => (InCall <=> \E p \in Polls : Busy(p))
BY DEF IdleIsNoCall, InCall, Busy, NoCall

\* The invariant holds initially.
LEMMA Sep24InvInit == Sep24Init => Sep24Inv
<1> SUFFICES ASSUME Sep24Init PROVE Sep24Inv
  OBVIOUS
<1> USE Sep24Assumption DEF Sep24Init, NoCall, Statuses
<1>1. Sep24TypeOK
  <2>1. call \in [Polls -> [does : {"idle", "poll", "resume", "update", "overwrite", "callback", "note"},
                           seen : Statuses, got : Statuses]]
    OBVIOUS
  <2>2. anchor \in Statuses /\ callbacks \subseteq Statuses /\ minutes \in Statuses
    OBVIOUS
  <2>3. sepStatus \in Statuses /\ applied \in Statuses /\ calls \in 0 .. MaxPolls
    OBVIOUS
  <2>4. lastCallbackAt \in BOOLEAN /\ completedAt \in BOOLEAN
    BY Zenon
  <2> QED BY <2>1, <2>2, <2>3, <2>4, Zenon DEF Sep24TypeOK
<1>2. disturbed \in BOOLEAN
  BY Zenon
<1>3. applied > 0 => lastCallbackAt
  OBVIOUS
<1>4. IdleIsNoCall /\ Undisturbed
  BY DEF IdleIsNoCall, Undisturbed, OneCall, PollBeforeCallback, CallbackStored, Busy
<1> QED BY <1>1, <1>2, <1>3, <1>4, Zenon DEF Sep24Inv

\* Beginning a call preserves the invariant, for what the calls read or carry.
LEMMA BeginCallKeeps ==
  ASSUME Sep24Inv, NEW p \in Polls, NEW does \in {"poll", "resume", "callback", "note"},
         NEW got \in Statuses, NEW overdue \in BOOLEAN,
         BeginCall(p, [does |-> does, seen |-> 0, got |-> got], overdue),
         does = "poll" => ~lastCallbackAt,
         does = "callback" => (overdue <=> got < applied)
  PROVE  Sep24Inv'
<1> USE Sep24Assumption DEF Sep24Inv, BeginCall, sep24Row
<1>1. /\ call' = [call EXCEPT ![p] = [does |-> does, seen |-> sepStatus, got |-> got]]
      /\ call[p].does = "idle"
  <2>1. [[does |-> does, seen |-> 0, got |-> got] EXCEPT !.seen = sepStatus]
          = [does |-> does, seen |-> sepStatus, got |-> got]
    OBVIOUS
  <2>2. call[p] = NoCall
    OBVIOUS
  <2>3. call' = [call EXCEPT ![p] = [does |-> does, seen |-> sepStatus, got |-> got]]
    BY <2>1
  <2>4. call[p].does = "idle"
    BY <2>2 DEF NoCall
  <2> QED BY <2>3, <2>4
<1>2. Sep24TypeOK'
  <2>1. calls' \in 0 .. MaxPolls
    BY DEF Sep24TypeOK
  <2> QED BY <1>1, <2>1 DEF Sep24TypeOK, Statuses
<1>3. IdleIsNoCall'
  BY <1>1 DEF IdleIsNoCall, Sep24TypeOK, NoCall
<1>4. disturbed' \in BOOLEAN
  BY DEF InCall
<1>5. ASSUME ~disturbed' PROVE OneCall' /\ PollBeforeCallback' /\ CallbackStored'
  <2>1. ~disturbed /\ ~overdue /\ \A q \in Polls : ~Busy(q)
    BY <1>5, BusyIsInCall
  <2>2. OneCall'
    BY <1>1, <2>1 DEF OneCall, Busy, Sep24TypeOK
  <2>3. PollBeforeCallback'
    BY <1>1, <2>1 DEF Undisturbed, PollBeforeCallback, Sep24TypeOK, Statuses
  <2>4. CallbackStored'
    BY <2>1 DEF Undisturbed, CallbackStored
  <2> QED BY <2>2, <2>3, <2>4
<1> QED BY <1>2, <1>3, <1>4, <1>5 DEF Undisturbed

\* Every step preserves the invariant.
LEMMA Sep24InvStep == Sep24Inv /\ [Sep24Next]_sep24Vars => Sep24Inv'
<1> SUFFICES ASSUME Sep24Inv, [Sep24Next]_sep24Vars PROVE Sep24Inv'
  OBVIOUS
<1> USE Sep24Assumption
<1>1. CASE AnchorMoves \/ MinutePasses
  <2> USE <1>1 DEF Sep24Inv, AnchorMoves, MinutePasses, sep24Row
  <2>1. anchor' \in Statuses /\ callbacks' \subseteq Statuses /\ minutes' \in Statuses
    <3>1. CASE AnchorMoves
      <4>1. PICK s \in (anchor + 1) .. Final : anchor' = s /\ callbacks' = callbacks \cup {s}
        BY <3>1
      <4> QED BY <3>1, <4>1 DEF Sep24TypeOK, Statuses
    <3>2. CASE MinutePasses
      BY <3>2 DEF Sep24TypeOK, Statuses
    <3> QED BY <1>1, <3>1, <3>2
  <2>2. Sep24TypeOK'
    BY <2>1 DEF Sep24TypeOK
  <2>3. IdleIsNoCall' /\ Undisturbed'
    BY DEF IdleIsNoCall, Undisturbed, OneCall, PollBeforeCallback, CallbackStored, Busy
  <2> QED BY <2>2, <2>3
<1>2. ASSUME NEW p \in Polls, GetStatus(p) \/ Resume(p) PROVE Sep24Inv'
  <2>1. /\ [NoCall EXCEPT !.does = "poll"] = [does |-> "poll", seen |-> 0, got |-> 0]
        /\ [NoCall EXCEPT !.does = "resume"] = [does |-> "resume", seen |-> 0, got |-> 0]
        /\ 0 \in Statuses /\ FALSE \in BOOLEAN
    BY DEF NoCall, Statuses
  <2>2. CASE GetStatus(p)
    <3>1. BeginCall(p, [does |-> "poll", seen |-> 0, got |-> 0], FALSE) /\ ~lastCallbackAt
      BY <2>1, <2>2 DEF GetStatus
    <3> QED BY <2>1, <3>1, BeginCallKeeps
  <2>3. CASE Resume(p)
    <3>1. BeginCall(p, [does |-> "resume", seen |-> 0, got |-> 0], FALSE)
      BY <2>1, <2>3 DEF Resume
    <3> QED BY <2>1, <3>1, BeginCallKeeps
  <2> QED BY <1>2, <2>2, <2>3
<1>3. ASSUME NEW p \in Polls, NEW s \in Statuses, HandleCallback(p, s) PROVE Sep24Inv'
  <2>1. (s < applied) \in BOOLEAN
    OBVIOUS
  <2>2. BeginCall(p, [does |-> "callback", seen |-> 0, got |-> s], s < applied)
    BY <1>3 DEF HandleCallback
  <2> QED BY <2>1, <2>2, BeginCallKeeps
<1>4. ASSUME NEW p \in Polls,
             AnchorAnswers(p) \/ AnchorSilent(p) \/ AnchorUnreachable(p)
      PROVE  Sep24Inv'
  <2> USE DEF Sep24Inv
  <2>1. PICK s \in Statuses : Answer(p, s) /\ call[p].does \in {"poll", "resume"}
    BY <1>4 DEF AnchorAnswers, AnchorSilent, AnchorUnreachable, Sep24TypeOK, Statuses
  <2> DEFINE then == IF call[p].does = "poll" THEN "update" ELSE "overwrite"
  <2>2. /\ call' = [call EXCEPT ![p] =
                     [does |-> then, seen |-> call[p].seen, got |-> s]]
        /\ UNCHANGED <<anchor, callbacks, minutes, sep24Row, calls, applied, disturbed>>
    BY <2>1 DEF Answer
  <2>3. Sep24TypeOK'
    BY <2>1, <2>2 DEF Sep24TypeOK, sep24Row
  <2>4. IdleIsNoCall'
    BY <2>1, <2>2 DEF IdleIsNoCall, Sep24TypeOK, NoCall
  <2>5. Undisturbed'
    BY <2>1, <2>2 DEF Undisturbed, OneCall, PollBeforeCallback, CallbackStored, Busy,
                     Sep24TypeOK, sep24Row
  <2> QED BY <2>2, <2>3, <2>4, <2>5 DEF sep24Row
<1>5. ASSUME NEW p \in Polls, AnchorRefuses(p) PROVE Sep24Inv'
  <2> USE <1>5 DEF Sep24Inv, AnchorRefuses, sep24Row, NoCall
  <2>1. Sep24TypeOK'
    BY DEF Sep24TypeOK, Statuses
  <2>2. IdleIsNoCall' /\ Undisturbed'
    BY DEF IdleIsNoCall, Undisturbed, OneCall, PollBeforeCallback, CallbackStored, Busy,
           Sep24TypeOK
  <2> QED BY <2>1, <2>2
<1>6. ASSUME NEW p \in Polls, UpdateStatus(p) PROVE Sep24Inv'
  <2> USE <1>6 DEF Sep24Inv, UpdateStatus, NoCall
  <2>1. Sep24TypeOK'
    BY DEF Sep24TypeOK, Statuses
  <2>2. IdleIsNoCall'
    BY DEF IdleIsNoCall, Sep24TypeOK
  <2>3. ASSUME ~disturbed' PROVE OneCall' /\ PollBeforeCallback' /\ CallbackStored'
    BY <2>3 DEF Undisturbed, OneCall, PollBeforeCallback, CallbackStored, Busy, Sep24TypeOK
  <2> QED BY <2>1, <2>2, <2>3 DEF Undisturbed
<1>7. ASSUME NEW p \in Polls, OverwriteStatus(p) PROVE Sep24Inv'
  <2> USE <1>7 DEF Sep24Inv, OverwriteStatus, NoCall
  <2>1. Sep24TypeOK'
    BY DEF Sep24TypeOK, Statuses
  <2>2. IdleIsNoCall' /\ disturbed' \in BOOLEAN
    BY DEF IdleIsNoCall, Sep24TypeOK
  <2>3. ASSUME ~disturbed' PROVE OneCall' /\ PollBeforeCallback' /\ CallbackStored'
    BY <2>3 DEF Undisturbed, OneCall, PollBeforeCallback, CallbackStored, Busy, Sep24TypeOK
  <2> QED BY <2>1, <2>2, <2>3 DEF Undisturbed
<1>8. ASSUME NEW p \in Polls, ApplyCallback(p) PROVE Sep24Inv'
  <2> USE <1>8 DEF Sep24Inv, ApplyCallback, NoCall
  <2>1. Sep24TypeOK'
    BY DEF Sep24TypeOK, Statuses
  <2>2. IdleIsNoCall'
    BY DEF IdleIsNoCall, Sep24TypeOK
  <2>3. ASSUME ~disturbed' PROVE OneCall' /\ PollBeforeCallback' /\ CallbackStored'
    <3>1. call[p].got >= applied /\ call[p].seen = sepStatus
      BY <2>3 DEF Undisturbed, OneCall, PollBeforeCallback, Busy
    <3>2. applied' = call[p].got /\ sepStatus' = call[p].got
      BY <3>1 DEF Sep24TypeOK, Statuses
    <3>3. CallbackStored'
      BY <2>3, <3>1, <3>2 DEF Undisturbed, CallbackStored
    <3>4. \A q \in Polls : call'[q].does = "idle"
      BY <2>3 DEF Undisturbed, OneCall, Busy, Sep24TypeOK
    <3> QED BY <3>3, <3>4 DEF OneCall, PollBeforeCallback, Busy
  <2> QED BY <2>1, <2>2, <2>3 DEF Undisturbed
<1>9. ASSUME NEW p \in Polls, NoteCallback(p) PROVE Sep24Inv'
  <2>1. /\ [NoCall EXCEPT !.does = "note"] = [does |-> "note", seen |-> 0, got |-> 0]
        /\ 0 \in Statuses /\ FALSE \in BOOLEAN
    BY DEF NoCall, Statuses
  <2>2. BeginCall(p, [does |-> "note", seen |-> 0, got |-> 0], FALSE)
    BY <1>9, <2>1 DEF NoteCallback
  <2> QED BY <2>1, <2>2, BeginCallKeeps
<1>10. ASSUME NEW p \in Polls, ApplyNote(p) PROVE Sep24Inv'
  <2> USE <1>10 DEF Sep24Inv, ApplyNote, NoCall
  <2>1. Sep24TypeOK'
    BY DEF Sep24TypeOK, Statuses
  <2>2. IdleIsNoCall'
    BY DEF IdleIsNoCall, Sep24TypeOK
  <2>3. ASSUME ~disturbed' PROVE OneCall' /\ PollBeforeCallback' /\ CallbackStored'
    <3>1. \A q \in Polls : call'[q].does = "idle"
      BY <2>3 DEF Undisturbed, OneCall, Busy, Sep24TypeOK
    <3>2. CallbackStored'
      BY <2>3 DEF Undisturbed, CallbackStored
    <3> QED BY <3>1, <3>2 DEF OneCall, PollBeforeCallback, Busy
  <2> QED BY <2>1, <2>2, <2>3 DEF Undisturbed
<1>11. CASE UNCHANGED sep24Vars
  BY <1>11 DEF Sep24Inv, Sep24TypeOK, IdleIsNoCall, Undisturbed, OneCall, PollBeforeCallback,
              CallbackStored, Busy, sep24Vars, sep24Row
<1> QED BY <1>1, <1>2, <1>3, <1>4, <1>5, <1>6, <1>7, <1>8, <1>9, <1>10, <1>11 DEF Sep24Next

\* The invariant holds in every reachable state of Sep24Service.
THEOREM Sep24Invariant == Sep24Spec => []Sep24Inv
<1> QED BY Sep24InvInit, Sep24InvStep, PTL DEF Sep24Spec

\* Whatever polls have made up, once the newest callback has been applied and no
\* call is under way the stored status is the anchor's and a completion has its
\* time - for any number of calls that did not disturb one another.
THEOREM RecordFollowsAnchor == Sep24Spec => []StatusFollowsAnchor
<1>1. Sep24Inv => StatusFollowsAnchor
  BY DEF Sep24Inv, Sep24TypeOK, Statuses, Undisturbed, CallbackStored, StatusFollowsAnchor
<1> QED BY <1>1, Sep24Invariant, PTL

-----------------------------------------------------------------------------
\* Caches

\* A reader on its way to the cache has read what the database held after it
\* began, and is overtaken if a newer change has been seen to since.
FillsAreRecent ==
  \A r \in Readers :
    /\ filling[r].from <= moment
    /\ filling[r].step = "store" =>
         /\ filling[r].got <= current
         /\ filling[r].got < current => filling[r].from <= replacedAt[filling[r].got]
         /\ filling[r].got < told => r \in overtaken

\* A writer that has written a state older than one seen to since is overtaken.
UpdatesAreKnown ==
  /\ told <= current
  /\ \A w \in Writers :
       /\ updating[w] <= current
       /\ updating[w] # 0 /\ updating[w] < told => w \in overtaken

\* What is in the cache was in the database when its age began, and is as new as
\* what has been seen to, or was put there by an overtaken thread.
EntryIsRecent ==
  \A c \in cached :
    /\ c.at <= moment /\ c.state <= current
    /\ c.state < current /\ ~late => c.at <= replacedAt[c.state]
    /\ c.state < told => stale

\* The inductive invariant of the two caches.
CachesInv == CachesTypeOK /\ FillsAreRecent /\ UpdatesAreKnown /\ EntryIsRecent

-----------------------------------------------------------------------------
\* Nothing is cached and nobody is on the way.
LEMMA CachesStart == CachesInit => CachesInv
<1> SUFFICES ASSUME CachesInit
             PROVE  CachesInv
  OBVIOUS
<1> USE CachesAssumption DEF CachesInit
<1>1. CachesTypeOK
  <2>1. 0 \in 0 .. MaxChanges
    OBVIOUS
  <2>2. NoFill \in Fill
    BY <2>1 DEF NoFill, Fill
  <2>3. replacedAt \in [0 .. MaxChanges -> Nat] /\ updating \in [Writers -> 0 .. MaxChanges]
    BY <2>1
  <2>. QED
    BY <2>1, <2>2, <2>3 DEF CachesTypeOK
<1>2. FillsAreRecent
  <2> SUFFICES ASSUME NEW r \in Readers
               PROVE  filling[r].from <= moment /\ filling[r].step # "store"
    BY DEF FillsAreRecent
  <2>1. filling[r].from = 0 /\ filling[r].step = "idle"
    BY DEF NoFill
  <2>. QED
    BY <2>1
<1>3. UpdatesAreKnown /\ EntryIsRecent
  BY DEF UpdatesAreKnown, EntryIsRecent
<1>. QED
  BY <1>1, <1>2, <1>3 DEF CachesInv

\* Every step of a reader, a writer, the process and time preserves the invariant.
LEMMA CachesStep == CachesInv /\ [CachesNext]_cachesVars => CachesInv'
<1> SUFFICES ASSUME CachesInv, [CachesNext]_cachesVars
             PROVE  CachesInv'
  OBVIOUS
<1> USE CachesAssumption
    DEF CachesInv, CachesTypeOK, Fill, NoFill, FillsAreRecent, UpdatesAreKnown, EntryIsRecent
<1>1. ASSUME NEW r \in Readers, Miss(r)
      PROVE  CachesInv'
  BY <1>1 DEF Miss, databaseVars, cachesHistory
<1>2. ASSUME NEW r \in Readers, Query(r)
      PROVE  CachesInv'
  <2>1. CachesTypeOK'
    BY <1>2 DEF Query, databaseVars, cachesHistory
  <2>2. FillsAreRecent'
    BY <1>2 DEF Query, databaseVars, cachesHistory
  <2>3. UpdatesAreKnown'
    BY <1>2 DEF Query, databaseVars, cachesHistory
  <2>4. EntryIsRecent'
    BY <1>2 DEF Query, databaseVars, cachesHistory
  <2>. QED
    BY <2>1, <2>2, <2>3, <2>4
<1>3. ASSUME NEW r \in Readers, Store(r)
      PROVE  CachesInv'
  <2>1. CachesTypeOK'
    BY <1>3 DEF Store, Cache, databaseVars
  <2>2. FillsAreRecent'
    BY <1>3 DEF Store, Cache, databaseVars
  <2>3. UpdatesAreKnown'
    BY <1>3 DEF Store, Cache, databaseVars
  <2>4. EntryIsRecent'
    <3> SUFFICES ASSUME NEW c \in cached'
                 PROVE  /\ c.at <= moment' /\ c.state <= current'
                        /\ c.state < current' /\ ~late' => c.at <= replacedAt'[c.state]
                        /\ c.state < told' => stale'
      OBVIOUS
    <3>1. c.state = filling[r].got /\ filling[r].step = "store"
      BY <1>3 DEF Store, Cache
    <3>2. c.at = IF cacheOf = "settings" THEN filling[r].from ELSE moment
      BY <1>3 DEF Store, Cache
    <3>3. /\ late' <=> cacheOf = "dashboard" /\ filling[r].got < current
          /\ stale' <=> r \in overtaken
      BY <1>3 DEF Store, Cache
    <3>4. UNCHANGED <<current, replacedAt, moment, told>>
      BY <1>3 DEF Store, databaseVars
    <3>5. /\ filling[r].from \in Nat /\ moment \in Nat /\ current \in Nat /\ told \in Nat
          /\ filling[r].got \in Nat /\ told <= current
      OBVIOUS
    <3>6. /\ filling[r].from <= moment /\ filling[r].got <= current
          /\ filling[r].got < current => filling[r].from <= replacedAt[filling[r].got]
          /\ filling[r].got < told => r \in overtaken
      BY <3>1
    <3>7. cacheOf \in {"settings", "dashboard"}
      OBVIOUS
    <3> HIDE DEF CachesInv, CachesTypeOK, Fill, NoFill, FillsAreRecent, UpdatesAreKnown, EntryIsRecent
    <3>. QED
      BY <3>1, <3>2, <3>3, <3>4, <3>5, <3>6, <3>7
  <2>. QED
    BY <2>1, <2>2, <2>3, <2>4
<1>4. ASSUME NEW r \in Readers, StoreFails(r)
      PROVE  CachesInv'
  BY <1>4 DEF StoreFails, databaseVars
<1>5. ASSUME Change, UNCHANGED <<moment, cached, filling, cachesHistory>>, cacheOf' = cacheOf,
             updating' = updating \/ \E w \in Writers : updating' = [updating EXCEPT ![w] = current + 1]
      PROVE  CachesInv'
  <2>1. current' = current + 1 /\ current' \in 0 .. MaxChanges
    BY <1>5 DEF Change
  <2>2. CachesTypeOK'
    BY <1>5, <2>1 DEF Change, cachesHistory
  <2>3. replacedAt' = [replacedAt EXCEPT ![current] = moment]
    BY <1>5 DEF Change
  <2>4. FillsAreRecent'
    <3> SUFFICES ASSUME NEW r \in Readers
                 PROVE  /\ filling[r].from <= moment
                        /\ filling[r].step = "store" =>
                             /\ filling[r].got <= current + 1
                             /\ filling[r].from <= replacedAt'[filling[r].got]
                             /\ filling[r].got < told => r \in overtaken
      BY <1>5, <2>1 DEF cachesHistory
    <3>1. filling[r].got \in 0 .. MaxChanges /\ current \in 0 .. MaxChanges
      OBVIOUS
    <3>2. replacedAt'[filling[r].got] = IF filling[r].got = current THEN moment ELSE replacedAt[filling[r].got]
      BY <2>3, <3>1
    <3>3. /\ filling[r].from \in Nat /\ moment \in Nat /\ filling[r].from <= moment
          /\ filling[r].step = "store" =>
               /\ filling[r].got <= current
               /\ filling[r].got < current => filling[r].from <= replacedAt[filling[r].got]
               /\ filling[r].got < told => r \in overtaken
      OBVIOUS
    <3> HIDE DEF CachesInv, CachesTypeOK, Fill, NoFill, FillsAreRecent, UpdatesAreKnown, EntryIsRecent
    <3>. QED
      BY <3>1, <3>2, <3>3
  <2>5. UpdatesAreKnown'
    BY <1>5, <2>1 DEF cachesHistory
  <2>6. EntryIsRecent'
    BY <1>5, <2>1, <2>3 DEF cachesHistory
  <2>. QED
    BY <2>2, <2>4, <2>5, <2>6
<1>6. ASSUME NEW w \in Writers, Write(w)
      PROVE  CachesInv'
  BY <1>6, <1>5 DEF Write, Change
<1>7. ASSUME ChangeElsewhere
      PROVE  CachesInv'
  BY <1>7, <1>5 DEF ChangeElsewhere
<1>8. ASSUME NEW w \in Writers, ReplaceSettings(w)
      PROVE  CachesInv'
  <2>1. CachesTypeOK'
    BY <1>8 DEF ReplaceSettings, Cache, Tell, databaseVars
  <2>2. FillsAreRecent'
    BY <1>8 DEF ReplaceSettings, Cache, Tell, databaseVars
  <2>3. UpdatesAreKnown'
    BY <1>8 DEF ReplaceSettings, Cache, Tell, databaseVars
  <2>4. EntryIsRecent'
    <3> SUFFICES ASSUME NEW c \in cached'
                 PROVE  /\ c.at <= moment' /\ c.state <= current'
                        /\ c.state < current' /\ ~late' => c.at <= replacedAt'[c.state]
                        /\ c.state < told' => stale'
      OBVIOUS
    <3>1. c.state = updating[w] /\ c.at = moment /\ updating[w] # 0
      BY <1>8 DEF ReplaceSettings, Cache
    <3>2. (late' <=> updating[w] < current) /\ (stale' <=> w \in overtaken)
      BY <1>8 DEF ReplaceSettings, Cache
    <3>3. /\ told' = IF updating[w] > told THEN updating[w] ELSE told
          /\ UNCHANGED <<current, replacedAt, moment>>
      BY <1>8 DEF ReplaceSettings, Tell, databaseVars
    <3>4. /\ moment \in Nat /\ current \in Nat /\ told \in Nat /\ updating[w] \in Nat
          /\ updating[w] <= current
          /\ updating[w] # 0 /\ updating[w] < told => w \in overtaken
      OBVIOUS
    <3> HIDE DEF CachesInv, CachesTypeOK, Fill, NoFill, FillsAreRecent, UpdatesAreKnown, EntryIsRecent
    <3>. QED
      BY <3>1, <3>2, <3>3, <3>4
  <2>. QED
    BY <2>1, <2>2, <2>3, <2>4
<1>9. ASSUME NEW w \in Writers, Invalidate(w)
      PROVE  CachesInv'
  <2>1. CachesTypeOK'
    <3>1. updating' \in [Writers -> 0 .. MaxChanges] /\ told' \in 0 .. MaxChanges
      BY <1>9 DEF Invalidate, Tell
    <3>2. overtaken' \subseteq Readers \cup Writers
      BY <1>9 DEF Invalidate, Tell
    <3>3. cached' = {} /\ stale' = FALSE /\ late' = FALSE
      BY <1>9 DEF Invalidate
    <3>4. UNCHANGED <<cacheOf, current, replacedAt, moment, filling>>
      BY <1>9 DEF Invalidate, Tell, databaseVars
    <3>. QED
      BY <3>1, <3>2, <3>3, <3>4
  <2>2. FillsAreRecent'
    BY <1>9 DEF Invalidate, Tell, databaseVars
  <2>3. UpdatesAreKnown'
    BY <1>9 DEF Invalidate, Tell, databaseVars
  <2>4. EntryIsRecent'
    BY <1>9 DEF Invalidate, Tell, databaseVars
  <2>. QED
    BY <2>1, <2>2, <2>3, <2>4
<1>10. ASSUME NEW w \in Writers, InvalidateFails(w)
       PROVE  CachesInv'
  BY <1>10 DEF InvalidateFails, databaseVars
<1>11. ASSUME Reboot
       PROVE  CachesInv'
  BY <1>11 DEF Reboot, databaseVars
<1>12. ASSUME MomentPasses
       PROVE  CachesInv'
  BY <1>12 DEF MomentPasses, databaseVars, cachesHistory
<1>13. ASSUME UNCHANGED cachesVars
       PROVE  CachesInv'
  BY <1>13 DEF cachesVars, databaseVars, cachesHistory
<1>. QED
  BY <1>1, <1>2, <1>3, <1>4, <1>6, <1>7, <1>8, <1>9, <1>10, <1>11, <1>12, <1>13 DEF CachesNext

\* For any readers, writers, changes and TTL: what the settings cache answers was
\* in the database less than a TTL ago, what the dashboard cache answers was so
\* unless it was replaced on its way, and neither is older than an answered change
\* unless an overtaken call put it there.
THEOREM NothingOldIsServed == CachesSpec => []CachesAreRecent
<1>1. CachesInv => CachesAreRecent
  BY CachesAssumption DEF CachesInv, CachesTypeOK, EntryIsRecent, CachesAreRecent, Served
<1>. QED
  BY CachesStart, CachesStep, <1>1, PTL DEF CachesSpec

-----------------------------------------------------------------------------
\* Rate limit

\* A counter has at most one expiry, in the future; without a counter there is none.
CounterShape ==
  /\ \A u, v \in hitsUntil : u = v
  /\ \A u \in hitsUntil : instant < u
  /\ totalHits = 0 => here = {} /\ hitsUntil = {}

\* The requests of a counter have distinct counts, and those let through are within
\* the limit.
CountsAreDistinct ==
  /\ \A r, q \in here : total[r] = total[q] => r = q
  /\ \A r \in here :
       /\ total[r] \in 1 .. totalHits
       /\ asking[r] \in {"expire", "block", "passed", "refused", "unmetered", "abandoned"}
       /\ asking[r] = "passed" => total[r] <= Limit

\* A counter without an expiry waits for the last request it counted.
LastIsToExpire ==
  totalHits > 0 /\ hitsUntil = {} =>
    \E r \in here : total[r] = totalHits /\ asking[r] \in {"expire", "unmetered", "abandoned"}

\* Until an expiry comes late, each one is counted from the start of the counter.
ExpiresInTime ==
  /\ \A r \in Hits : countedAt[r] <= instant
  /\ totalHits > 0 /\ ~stretched =>
       /\ startedAt <= instant
       /\ hitsUntil = {} => startedAt = instant
       /\ \A u \in hitsUntil : u <= startedAt + Period
       /\ \A r \in Hits : asking[r] = "expire" /\ countedAt[r] = instant => startedAt = instant

\* The inductive invariant of the rate limit.
ThrottleInv ==
  ThrottleTypeOK /\ CounterShape /\ CountsAreDistinct /\ LastIsToExpire /\ ExpiresInTime

-----------------------------------------------------------------------------
\* Without keys there is nothing to show.
LEMMA ThrottleStart == ThrottleInit => ThrottleInv
<1> SUFFICES ASSUME ThrottleInit
             PROVE  ThrottleInv
  OBVIOUS
<1> USE DEF ThrottleInit
<1>1. ThrottleTypeOK
  BY DEF ThrottleTypeOK, Asking
<1>2. CounterShape /\ CountsAreDistinct /\ LastIsToExpire
  BY DEF CounterShape, CountsAreDistinct, LastIsToExpire
<1>3. ExpiresInTime
  BY DEF ExpiresInTime
<1>. QED
  BY <1>1, <1>2, <1>3 DEF ThrottleInv

\* A new count is larger than all before it, and its request goes on to set the
\* expiry when there is none, or does not hear of the count.
LEMMA CountKeeps ==
  ASSUME ThrottleInv, NEW r \in Hits, CountHit(r) \/ CountLost(r)
  PROVE  ThrottleInv'
<1> USE ThrottleAssumption DEF ThrottleInv, ThrottleTypeOK, Asking
<1>1. /\ asking[r] = "count" /\ r \notin here
      /\ asking' = [asking EXCEPT ![r] = asking'[r]]
      /\ \/ asking'[r] = "unmetered"
         \/ asking'[r] = IF totalHits = 0 \/ hitsUntil = {} THEN "expire"
                         ELSE Verdict(totalHits + 1)
  BY DEF CountHit, CountLost, Step, CountsAreDistinct
<1>2. /\ totalHits' = totalHits + 1 /\ total' = [total EXCEPT ![r] = totalHits + 1]
      /\ here' = here \cup {r} /\ countedAt' = [countedAt EXCEPT ![r] = instant]
      /\ startedAt' = IF totalHits = 0 THEN instant ELSE startedAt
      /\ (stretched' <=> stretched /\ totalHits # 0) /\ stretched' \in BOOLEAN
      /\ UNCHANGED <<instant, hitsUntil, blockUntil>>
  BY DEF CountHit, CountLost, Count
<1>3. /\ asking'[r] \in {"expire", "block", "passed", "unmetered"}
      /\ asking'[r] = "passed" => totalHits + 1 <= Limit
  BY <1>1 DEF Verdict
<1>4. ThrottleTypeOK'
  BY <1>1, <1>2, <1>3
<1>5. CounterShape'
  BY <1>2 DEF CounterShape
<1>6. CountsAreDistinct'
  BY <1>1, <1>2, <1>3 DEF CountsAreDistinct
<1>7. LastIsToExpire'
  BY <1>1, <1>2 DEF LastIsToExpire
<1>8. ExpiresInTime'
  <2>1. \A q \in Hits : countedAt'[q] <= instant'
    BY <1>2 DEF ExpiresInTime
  <2>2. CASE totalHits = 0
    BY <1>2, <2>1, <2>2 DEF ExpiresInTime, CounterShape
  <2>3. CASE totalHits # 0
    <3>1. asking'[r] = "expire" => hitsUntil = {}
      BY <1>1, <2>3 DEF Verdict
    <3>2. totalHits > 0 /\ startedAt' = startedAt /\ (stretched' <=> stretched)
      BY <1>2, <2>3
    <3>. QED
      BY <1>1, <1>2, <2>1, <3>1, <3>2 DEF ExpiresInTime
  <2>. QED
    BY <2>2, <2>3
<1>. QED
  BY <1>4, <1>5, <1>6, <1>7, <1>8

\* An expiry given in time is a period after the start of the counter.
LEMMA ExpireKeeps ==
  ASSUME ThrottleInv, NEW r \in Hits, ExpireCounter(r)
  PROVE  ThrottleInv'
<1> USE ThrottleAssumption DEF ThrottleInv, ThrottleTypeOK, Asking
<1>1. /\ asking[r] = "expire"
      /\ asking' = [asking EXCEPT ![r] = asking'[r]]
      /\ asking'[r] = Verdict(total[r])
  BY DEF ExpireCounter, Step
<1>2. /\ hitsUntil' = IF totalHits = 0 THEN {} ELSE {instant + Period}
      /\ (stretched' <=> stretched \/ countedAt[r] < instant) /\ stretched' \in BOOLEAN
      /\ UNCHANGED <<instant, totalHits, blockUntil, total, countedAt, here, startedAt>>
  BY DEF ExpireCounter
<1>3. asking'[r] \in {"block", "passed"} /\ (asking'[r] = "passed" => total[r] <= Limit)
  BY <1>1 DEF Verdict
<1>4. ThrottleTypeOK'
  BY <1>1, <1>2, <1>3
<1>5. CounterShape'
  BY <1>2 DEF CounterShape
<1>6. CountsAreDistinct'
  BY <1>1, <1>2, <1>3 DEF CountsAreDistinct
<1>7. LastIsToExpire'
  BY <1>2 DEF LastIsToExpire
<1>8. ExpiresInTime'
  BY <1>1, <1>2, <1>3 DEF ExpiresInTime
<1>. QED
  BY <1>4, <1>5, <1>6, <1>7, <1>8

\* A counter goes with all it counted when its expiry comes.
LEMMA TimeKeeps == ThrottleInv /\ InstantPasses => ThrottleInv'
<1> SUFFICES ASSUME ThrottleInv, InstantPasses
             PROVE  ThrottleInv'
  OBVIOUS
<1> USE ThrottleAssumption DEF ThrottleInv, ThrottleTypeOK, Asking
<1>1. CASE instant + 1 \in hitsUntil
  <2>1. /\ instant' = instant + 1 /\ totalHits' = 0 /\ here' = {} /\ hitsUntil' = {}
        /\ blockUntil' \subseteq blockUntil /\ stretched' \in BOOLEAN
        /\ UNCHANGED <<asking, total, countedAt, startedAt>>
    BY <1>1 DEF InstantPasses, CounterShape
  <2>. QED
    BY <2>1 DEF CounterShape, CountsAreDistinct, LastIsToExpire, ExpiresInTime
<1>2. CASE instant + 1 \notin hitsUntil
  <2>1. /\ instant' = instant + 1 /\ UNCHANGED <<totalHits, here, hitsUntil>>
        /\ blockUntil' \subseteq blockUntil
        /\ (stretched' <=> stretched \/ hitsUntil = {}) /\ stretched' \in BOOLEAN
        /\ UNCHANGED <<asking, total, countedAt, startedAt>>
    BY <1>2 DEF InstantPasses
  <2>2. CounterShape'
    BY <1>2, <2>1 DEF CounterShape
  <2>3. CountsAreDistinct' /\ LastIsToExpire'
    BY <2>1 DEF CountsAreDistinct, LastIsToExpire
  <2>4. ExpiresInTime'
    BY <2>1 DEF ExpiresInTime
  <2>. QED
    BY <2>1, <2>2, <2>3, <2>4
<1>. QED
  BY <1>1, <1>2

\* Every step of a request and of time preserves the invariant.
LEMMA ThrottleStep == ThrottleInv /\ [ThrottleNext]_throttleVars => ThrottleInv'
<1> SUFFICES ASSUME ThrottleInv, [ThrottleNext]_throttleVars
             PROVE  ThrottleInv'
  OBVIOUS
\* The remaining steps of a request change nothing but its place and the block.
<1>1. ASSUME NEW r \in Hits, LookForBlock(r) \/ CountFails(r) \/ Block(r) \/ Abandon(r)
      PROVE  ThrottleInv'
  <2> USE DEF ThrottleInv, ThrottleTypeOK, Asking
  <2>1. /\ asking' = [asking EXCEPT ![r] = asking'[r]]
        /\ asking[r] = "idle" => asking'[r] \in {"count", "refused"}
        /\ asking[r] # "idle" => asking'[r] \in {"refused", "unmetered", "abandoned"}
        /\ asking[r] = "expire" => asking'[r] = "abandoned"
        /\ asking[r] \in {"idle", "count", "expire", "block"}
    BY <1>1 DEF LookForBlock, CountFails, Block, Abandon, Step
  <2>2. UNCHANGED <<instant, totalHits, hitsUntil, total, countedAt, here, startedAt, stretched>>
    BY <1>1 DEF LookForBlock, CountFails, Block, Abandon, redisKeys, throttleHistory
  <2>3. ThrottleTypeOK'
    <3>1. instant + (IF BlockDuration > 0 THEN BlockDuration ELSE Period) \in Nat
      BY ThrottleAssumption
    <3>2. blockUntil' \in SUBSET Nat
      BY <1>1, <3>1 DEF LookForBlock, CountFails, Block, Abandon, redisKeys
    <3>. QED
      BY <2>1, <2>2, <3>2
  <2>4. CounterShape' /\ CountsAreDistinct'
    BY <2>1, <2>2 DEF CounterShape, CountsAreDistinct
  <2>5. LastIsToExpire'
    BY <2>1, <2>2 DEF LastIsToExpire, CountsAreDistinct
  <2>6. ExpiresInTime'
    BY <2>1, <2>2 DEF ExpiresInTime
  <2>. QED
    BY <2>3, <2>4, <2>5, <2>6
<1>2. ASSUME UNCHANGED throttleVars
      PROVE  ThrottleInv'
  BY <1>2 DEF throttleVars, redisKeys, throttleHistory, ThrottleInv, ThrottleTypeOK, CounterShape,
     CountsAreDistinct, LastIsToExpire, ExpiresInTime
<1>. QED
  BY <1>1, <1>2, CountKeeps, ExpireKeeps, TimeKeeps DEF ThrottleNext

\* For any requests, limit, period and block: a counter lets at most Limit requests
\* through, loses its expiry only with the last request it counted, and lives for
\* one period when its expiry is set in time.
THEOREM LimitIsKept == ThrottleSpec => []ThrottleHolds
<1>1. ThrottleInv => ThrottleHolds
  <2> SUFFICES ASSUME ThrottleInv
               PROVE  ThrottleHolds
    OBVIOUS
  <2> USE ThrottleAssumption DEF ThrottleInv, ThrottleTypeOK
  <2>1. totalHits > 0 /\ ~stretched => instant < startedAt + Period
    BY DEF ExpiresInTime, CounterShape
  <2>. QED
    BY <2>1 DEF ThrottleHolds, CountsAreDistinct, LastIsToExpire
<1>. QED
  BY ThrottleStart, ThrottleStep, <1>1, PTL DEF ThrottleSpec

-----------------------------------------------------------------------------
\* Campaigns

\* The records that the ledger has so far.
Horizon == 1 .. Len(horizon)

\* Only a connected stream handles a record.
StreamShape ==
  /\ handling # "idle" => connected /\ position \in Horizon
  /\ cursor <= position

\* Records that are behind the stored cursor or the open stream.
Behind(n) ==
  \/ n <= cursor
  \/ connected /\ n < position
  \/ connected /\ n = position /\ handling \in {"idle", "store"}

\* No relevant record falls behind uncounted and unexcused.
NoneSkipped ==
  \A n \in Horizon : Behind(n) /\ horizon[n] # 0 => counted[n] > 0 \/ n \in excused \cup skipped

\* A record that nobody has counted, or that the history names as counted again.
Uncounted(n) == counted[n] = 0 \/ n \in repeated

\* What is ahead of the stream, and of a cursor it may restart from, is fresh,
\* but for the record whose cursor is about to be stored.
AheadIsFresh ==
  /\ connected => \A n \in 1 .. MaxPayments : n > position => Uncounted(n)
  /\ cursor # 0 => \A n \in 1 .. MaxPayments :
       n > cursor => Uncounted(n) \/ (handling = "store" /\ n = position)
  /\ handling \in {"find", "count"} => Uncounted(position)
  /\ \A n \in 1 .. MaxPayments : n > Len(horizon) => counted[n] = 0

\* No record is counted twice but for those the history names.
NoneTwice == \A n \in Horizon : counted[n] > 1 => n \in repeated

\* What a stream started behind stays behind the streams and cursors after it.
SkippedBehind ==
  \A n \in skipped :
    /\ connected => n <= position /\ (handling # "idle" => n < position)
    /\ cursor # 0 => n <= cursor

\* Without a cursor, if none has expired, no count has been followed by its cursor;
\* so nothing before a payment that a stream started behind is counted for good.
CursorKept ==
  ~expired =>
    /\ cursor = 0 => \A n \in Horizon : Uncounted(n) \/ (handling = "store" /\ n = position)
    /\ \A n \in skipped : \A m \in 1 .. n - 1 : Uncounted(m)

\* The inductive invariant of campaign payments.
CountInv ==
  /\ CampaignsTypeOK /\ StreamShape /\ NoneSkipped /\ AheadIsFresh /\ NoneTwice
  /\ SkippedBehind /\ CursorKept

-----------------------------------------------------------------------------
\* Initially nothing is counted and nothing is behind.
LEMMA CountInvInit == CampaignsInit => CountInv
<1> SUFFICES ASSUME CampaignsInit PROVE CountInv
  OBVIOUS
<1> USE CampaignsAssumption DEF CampaignsInit
<1>1. CampaignsTypeOK
  <2>1. horizon \in Seq(Payments) /\ Len(horizon) = 0
    OBVIOUS
  <2>2. connected \in BOOLEAN /\ expired \in BOOLEAN
    BY Zenon
  <2> QED BY <2>1, <2>2 DEF CampaignsTypeOK
<1>2. StreamShape /\ NoneSkipped /\ AheadIsFresh /\ NoneTwice /\ SkippedBehind /\ CursorKept
  BY DEF StreamShape, NoneSkipped, AheadIsFresh, NoneTwice, SkippedBehind, CursorKept, Horizon,
         Uncounted
<1> QED BY <1>1, <1>2 DEF CountInv

\* A new record is ahead of everything.
LEMMA PayKeeps == ASSUME CountInv, NEW amount \in Payments, Pay(amount) PROVE CountInv'
<1> USE CampaignsAssumption DEF CountInv, Pay, streamVars, campaignRow, streamHistory
<1>1. /\ horizon \in Seq(Payments) /\ horizon' \in Seq(Payments)
      /\ Len(horizon') = Len(horizon) + 1 /\ Len(horizon) \in Nat
      /\ \A n \in Horizon : horizon'[n] = horizon[n]
  BY DEF CampaignsTypeOK, Horizon
<1>2. CampaignsTypeOK'
  BY <1>1 DEF CampaignsTypeOK
<1>3. StreamShape'
  BY <1>1 DEF CampaignsTypeOK, StreamShape, Horizon
<1>4. AheadIsFresh'
  <2>1. /\ connected' = connected /\ position' = position /\ cursor' = cursor
        /\ handling' = handling /\ counted' = counted /\ repeated' = repeated
    OBVIOUS
  <2>2. \A n \in 1 .. MaxPayments : n > Len(horizon') => n > Len(horizon)
    BY <1>1
  <2> QED BY <2>1, <2>2 DEF AheadIsFresh, Uncounted
<1>5. NoneTwice'
  <2>1. counted[Len(horizon) + 1] = 0
    BY <1>1 DEF CampaignsTypeOK, AheadIsFresh
  <2> QED BY <1>1, <2>1 DEF NoneTwice, Horizon
<1>6. NoneSkipped'
  BY <1>1 DEF CampaignsTypeOK, StreamShape, NoneSkipped, Behind, Horizon
<1>7. SkippedBehind'
  BY DEF SkippedBehind
<1>8. CursorKept'
  <2>1. counted[Len(horizon) + 1] = 0 /\ Horizon' = Horizon \cup {Len(horizon) + 1}
    BY <1>1 DEF CampaignsTypeOK, AheadIsFresh, Horizon
  <2>2. /\ cursor' = cursor /\ handling' = handling /\ position' = position
        /\ counted' = counted /\ skipped' = skipped /\ repeated' = repeated /\ expired' = expired
    OBVIOUS
  <2> QED BY <2>1, <2>2 DEF CursorKept, Uncounted
<1> QED BY <1>2, <1>3, <1>4, <1>5, <1>6, <1>7, <1>8

\* The stream starts behind nothing it would lose, or says so.
LEMMA ConnectKeeps == CountInv /\ Connect => CountInv'
<1> SUFFICES ASSUME CountInv, Connect PROVE CountInv'
  OBVIOUS
<1> USE CampaignsAssumption DEF CountInv, Connect, campaignRow
<1>1. Len(horizon) \in Nat /\ handling = "idle"
  BY DEF CampaignsTypeOK, StreamShape
<1>2. CampaignsTypeOK' /\ StreamShape' /\ NoneTwice'
  BY <1>1 DEF CampaignsTypeOK, StreamShape, NoneTwice, Horizon
<1>3. NoneSkipped'
  BY <1>1 DEF CampaignsTypeOK, NoneSkipped, Behind, Horizon
<1>4. AheadIsFresh'
  BY <1>1 DEF CampaignsTypeOK, AheadIsFresh, Uncounted
<1>5. SkippedBehind'
  BY <1>1 DEF CampaignsTypeOK, SkippedBehind
<1>6. CursorKept'
  <2>1. ~expired /\ cursor = 0 => \A n \in Horizon : Uncounted(n)
    BY <1>1 DEF CursorKept
  <2>2. \A n \in skipped' : n \in skipped \/ (cursor = 0 /\ n \in Horizon)
    <3>1. CASE cursor = 0
      BY <3>1 DEF Horizon
    <3>2. CASE cursor # 0
      BY <3>2
    <3> QED BY <3>1, <3>2
  <2>3. \A n \in Horizon : \A m \in 1 .. n - 1 : m \in Horizon
    BY <1>1 DEF Horizon
  <2> QED BY <1>1, <2>1, <2>2, <2>3 DEF CursorKept, Uncounted, Horizon
<1> QED BY <1>2, <1>3, <1>4, <1>5, <1>6

\* The record being handled is one of Horizon's, with an amount.
LEMMA RecordAtHand ==
  CampaignsTypeOK /\ StreamShape /\ handling # "idle" =>
    position \in Horizon /\ horizon[position] \in Nat
<1> SUFFICES ASSUME CampaignsTypeOK, StreamShape, handling # "idle"
             PROVE  position \in Horizon /\ horizon[position] \in Nat
  OBVIOUS
<1>1. position \in 1 .. Len(horizon) /\ horizon \in Seq(Payments)
  BY DEF CampaignsTypeOK, StreamShape, Horizon
<1>2. horizon[position] \in Payments
  BY <1>1
<1> QED BY <1>1, <1>2, CampaignsAssumption DEF Horizon

\* A counted record was fresh, so it is counted once or known to be repeated.
LEMMA CountPaymentKeeps == CountInv /\ CountPayment => CountInv'
<1> SUFFICES ASSUME CountInv, CountPayment PROVE CountInv'
  OBVIOUS
<1> USE CampaignsAssumption DEF CountInv, CountPayment
<1>1. /\ Len(horizon) \in Nat /\ position \in Horizon /\ position \in 1 .. MaxPayments
      /\ horizon[position] \in Nat
  BY RecordAtHand DEF CampaignsTypeOK, StreamShape, Horizon
<1>2. counted' \in [1 .. MaxPayments -> Nat]
  BY SMTT(30), <1>1 DEF CampaignsTypeOK
<1>3. CampaignsTypeOK'
  <2>1. raisedAmount' \in Nat /\ campaignStatus' \in {"ACTIVE", "COMPLETED"}
    BY SMTT(30), <1>1 DEF CampaignsTypeOK
  <2>2. milestone' \in [Milestones -> {"PENDING", "ACTIVE", "COMPLETED"}]
    BY DEF CampaignsTypeOK
  <2> QED BY <1>2, <2>1, <2>2 DEF CampaignsTypeOK
<1>4. StreamShape' /\ NoneSkipped'
  BY SMTT(30), <1>1 DEF CampaignsTypeOK, StreamShape, NoneSkipped, Behind, Horizon
<1>5. AheadIsFresh'
  BY SMTT(30), <1>1 DEF CampaignsTypeOK, StreamShape, AheadIsFresh, Uncounted, Horizon
<1>6. NoneTwice'
  BY <1>1 DEF CampaignsTypeOK, AheadIsFresh, NoneTwice, Uncounted, Horizon
<1>7. SkippedBehind'
  BY DEF SkippedBehind
<1>8. CursorKept'
  <2>1. \A n \in 1 .. MaxPayments : n # position => (Uncounted(n)' <=> Uncounted(n))
    BY <1>1 DEF CampaignsTypeOK, Uncounted
  <2>2. Horizon \subseteq 1 .. MaxPayments /\ skipped \subseteq Horizon
    BY <1>1 DEF CampaignsTypeOK, Horizon
  <2>3. \A n \in skipped : \A m \in 1 .. n - 1 : m \in 1 .. MaxPayments /\ m # position
    BY <1>1, <2>2 DEF SkippedBehind, StreamShape, Horizon
  <2>4. /\ cursor' = cursor /\ handling' = "store" /\ position' = position /\ Horizon' = Horizon
        /\ skipped' = skipped /\ expired' = expired
    BY DEF Horizon
  <2>5. ASSUME ~expired, cursor = 0, NEW n \in Horizon, n # position PROVE Uncounted(n)'
    BY <2>1, <2>2, <2>5 DEF CursorKept
  <2>6. ASSUME ~expired, NEW n \in skipped, NEW m \in 1 .. n - 1 PROVE Uncounted(m)'
    BY <2>1, <2>3, <2>6 DEF CursorKept
  <2> QED BY <2>4, <2>5, <2>6 DEF CursorKept
<1> QED BY <1>3, <1>4, <1>5, <1>6, <1>7, <1>8

\* A record whose handling stops is excused or will be counted again.
LEMMA UnfinishedKeeps ==
  ASSUME CountInv, NEW lost \in BOOLEAN, Unfinished(lost), handling # "idle" \/ ~lost,
         IF lost THEN UNCHANGED connected ELSE connected' = FALSE
  PROVE  CountInv'
<1> USE CampaignsAssumption DEF CountInv, Unfinished, campaignRow
<1>1. Len(horizon) \in Nat
  BY DEF CampaignsTypeOK
<1>2. CampaignsTypeOK'
  <2>1. excused' \cup skipped' \cup repeated' \subseteq 1 .. Len(horizon)
    BY DEF CampaignsTypeOK, StreamShape, Horizon
  <2>2. connected' \in BOOLEAN /\ expired' \in BOOLEAN
    BY Zenon DEF CampaignsTypeOK
  <2> QED BY <2>1, <2>2 DEF CampaignsTypeOK
<1>3. StreamShape' /\ NoneTwice'
  BY <1>1 DEF CampaignsTypeOK, StreamShape, NoneTwice, Horizon
<1>4. NoneSkipped'
  BY <1>1 DEF CampaignsTypeOK, StreamShape, NoneSkipped, Behind, Horizon
<1>5. AheadIsFresh'
  BY <1>1 DEF CampaignsTypeOK, StreamShape, AheadIsFresh, Uncounted, Horizon
<1>6. SkippedBehind'
  BY DEF SkippedBehind
<1>7. CursorKept'
  BY <1>1 DEF CampaignsTypeOK, StreamShape, CursorKept, Uncounted, Horizon
<1> QED BY <1>2, <1>3, <1>4, <1>5, <1>6, <1>7

\* Every step preserves what is known of the counts.
LEMMA CountInvStep == CountInv /\ [CampaignsNext]_campaignsVars => CountInv'
<1> SUFFICES ASSUME CountInv, [CampaignsNext]_campaignsVars PROVE CountInv'
  OBVIOUS
<1> USE CampaignsAssumption DEF CountInv
<1>1. CASE Disconnect \/ Receive
  <2> USE <1>1 DEF Disconnect, Receive, campaignRow, streamHistory
  <2>1. Len(horizon) \in Nat
    BY DEF CampaignsTypeOK
  <2>2. connected' \in BOOLEAN /\ handling' \in {"idle", "find", "count", "store"}
    BY DEF CampaignsTypeOK
  <2>3. position' \in 0 .. Len(horizon)
    BY <2>1 DEF CampaignsTypeOK
  <2>4. CampaignsTypeOK'
    BY <2>2, <2>3 DEF CampaignsTypeOK
  <2>5. StreamShape' /\ NoneTwice'
    BY <2>1 DEF CampaignsTypeOK, StreamShape, NoneTwice, Horizon
  <2>6. NoneSkipped'
    BY <2>1 DEF CampaignsTypeOK, StreamShape, NoneSkipped, Behind, Horizon
  <2>7. AheadIsFresh'
    BY <2>1 DEF CampaignsTypeOK, StreamShape, AheadIsFresh, Uncounted, Horizon
  <2>8. SkippedBehind'
    BY <2>1 DEF CampaignsTypeOK, SkippedBehind
  <2>9. CursorKept'
    BY DEF CursorKept, Uncounted, Horizon
  <2> QED BY <2>4, <2>5, <2>6, <2>7, <2>8, <2>9
<1>2. CASE FindCampaign \/ SetCursor
  <2> USE <1>2 DEF FindCampaign, SetCursor, campaignRow, streamHistory
  <2>1. Len(horizon) \in Nat /\ connected /\ position \in Horizon
    BY DEF CampaignsTypeOK, StreamShape
  <2>2. CampaignsTypeOK' /\ StreamShape' /\ NoneTwice'
    <3>1. cursor' \in 0 .. Len(horizon) /\ excused' \subseteq 1 .. Len(horizon)
      BY <2>1 DEF CampaignsTypeOK, Horizon
    <3>2. handling' \in {"idle", "find", "count", "store"}
      BY DEF CampaignsTypeOK
    <3>3. CampaignsTypeOK'
      BY <3>1, <3>2 DEF CampaignsTypeOK
    <3>4. StreamShape'
      <4>1. CASE FindCampaign
        BY <2>1, <4>1 DEF StreamShape, Horizon
      <4>2. CASE SetCursor
        BY <2>1, <4>2 DEF StreamShape, Horizon
      <4> QED BY <4>1, <4>2
    <3>5. NoneTwice'
      BY DEF NoneTwice, Horizon
    <3> QED BY <3>3, <3>4, <3>5
  <2>3. NoneSkipped'
    <3>1. CASE FindCampaign
      BY <2>1, <3>1 DEF CampaignsTypeOK, NoneSkipped, Behind, Horizon
    <3>2. CASE SetCursor
      BY <2>1, <3>2 DEF CampaignsTypeOK, StreamShape, NoneSkipped, Behind, Horizon
    <3> QED BY <3>1, <3>2
  <2>4. AheadIsFresh'
    BY <2>1 DEF CampaignsTypeOK, StreamShape, AheadIsFresh, Uncounted, Horizon
  <2>5. SkippedBehind'
    BY <2>1 DEF CampaignsTypeOK, SkippedBehind
  <2>6. CursorKept'
    <3>1. CASE FindCampaign
      BY <3>1 DEF CursorKept, Uncounted, Horizon
    <3>2. CASE SetCursor
      BY <2>1, <3>2 DEF CursorKept, Uncounted, Horizon
    <3> QED BY <3>1, <3>2
  <2> QED BY <2>2, <2>3, <2>4, <2>5, <2>6
<1>3. CASE HandlerFails
  BY <1>3, UnfinishedKeeps DEF HandlerFails
<1>4. CASE Stop
  BY <1>4, UnfinishedKeeps DEF Stop
<1>5. CASE CursorExpires
  <2> USE <1>5 DEF CursorExpires, campaignRow
  <2>1. expired' \in BOOLEAN
    BY Zenon
  <2>2. cursor' \in 0 .. Len(horizon)
    BY DEF CampaignsTypeOK
  <2>3. CampaignsTypeOK'
    BY <2>1, <2>2 DEF CampaignsTypeOK
  <2>4. StreamShape' /\ NoneSkipped' /\ AheadIsFresh' /\ NoneTwice'
    BY DEF CampaignsTypeOK, StreamShape, NoneSkipped, AheadIsFresh, NoneTwice, Behind, Uncounted,
           Horizon
  <2>5. SkippedBehind' /\ CursorKept'
    BY DEF SkippedBehind, CursorKept
  <2> QED BY <2>3, <2>4, <2>5
<1>6. ASSUME UNCHANGED <<horizon, streamVars, raisedAmount, streamHistory>>,
             campaignStatus' \in {"ACTIVE", "COMPLETED"},
             milestone' \in [Milestones -> {"PENDING", "ACTIVE", "COMPLETED"}]
      PROVE  CountInv'
  BY <1>6 DEF CampaignsTypeOK, StreamShape, NoneSkipped, AheadIsFresh, NoneTwice, SkippedBehind,
              CursorKept, Behind, Uncounted, Horizon, streamVars, streamHistory
<1>7. ASSUME NEW m \in Milestones, Activate(m) PROVE CountInv'
  BY <1>7, <1>6 DEF Activate, CampaignsTypeOK
<1>8. ASSUME NEW r \in Requests, NEW m \in Milestones, ReadMilestones(r, m) PROVE CountInv'
  BY <1>8, <1>6 DEF ReadMilestones, CampaignsTypeOK, campaignRow
<1>9. ASSUME NEW r \in Requests, MarkMilestone(r) \/ CompleteCampaign(r) \/ RequestFails(r)
      PROVE  CountInv'
  BY <1>9, <1>6 DEF MarkMilestone, CompleteCampaign, RequestFails, CampaignsTypeOK, campaignRow
<1>10. CASE UNCHANGED campaignsVars
  BY <1>10, <1>6 DEF campaignsVars, campaignRow, CampaignsTypeOK
<1> QED
  BY <1>1, <1>2, <1>3, <1>4, <1>5, <1>7, <1>8, <1>9, <1>10, PayKeeps, ConnectKeeps, CountPaymentKeeps
  DEF CampaignsNext

-----------------------------------------------------------------------------
\* What is known of the requests and of the state of the campaign.
RequestShape ==
  \A r \in Requests :
    /\ request[r] \in [step : {"idle", "mark", "complete"}, on : SUBSET Milestones,
                       others : SUBSET Milestones]
    /\ request[r].step = "idle" => request[r] = NoRequest
    /\ request[r].step = "complete" => Open(milestone) = {}
    /\ request[r].step = "mark" => Open(milestone) \subseteq request[r].on \cup request[r].others

\* A milestone never opens again, so that a request that saw no other one open
\* completes the campaign rightly.
CompletedRightly ==
  campaignStatus = "COMPLETED" => raisedAmount >= Goal \/ Open(milestone) = {}

\* A lone request sees exactly the milestones that are open.
LoneRequest ==
  ~loose =>
    /\ \A r, q \in Requests : request[r] # NoRequest /\ request[q] # NoRequest => r = q
    /\ \A r \in Requests : request[r].step = "mark" =>
         /\ request[r].on # {} /\ request[r].on \cap request[r].others = {}
         /\ request[r].on \cup request[r].others \subseteq Open(milestone)
    /\ Open(milestone) = {} =>
         campaignStatus = "COMPLETED" \/ \E r \in Requests : request[r].step = "complete"

\* The inductive invariant of milestones and of the completion of campaigns.
CompleteInv ==
  CampaignsTypeOK /\ request \in [Requests -> [step : {"idle", "mark", "complete"},
                                               on : SUBSET Milestones, others : SUBSET Milestones]]
    /\ loose \in BOOLEAN /\ RequestShape /\ CompletedRightly /\ LoneRequest

\* Initially every milestone is open and nobody asks.
LEMMA CompleteInvInit == CampaignsInit => CompleteInv
<1> SUFFICES ASSUME CampaignsInit PROVE CompleteInv
  OBVIOUS
<1>1. CampaignsTypeOK
  BY CountInvInit DEF CountInv
<1>2. Open(milestone) # {}
  BY CampaignsAssumption DEF CampaignsInit, Open
<1>3. \A r \in Requests : request[r] = NoRequest
  BY DEF CampaignsInit
<1>4. NoRequest \in [step : {"idle", "mark", "complete"}, on : SUBSET Milestones,
                     others : SUBSET Milestones]
  BY DEF NoRequest
<1>5. loose \in BOOLEAN
  BY Zenon DEF CampaignsInit
<1>6. request \in [Requests -> [step : {"idle", "mark", "complete"},
                                on : SUBSET Milestones, others : SUBSET Milestones]]
  BY <1>4 DEF CampaignsInit
<1>7. RequestShape /\ CompletedRightly /\ LoneRequest
  BY <1>2, <1>3, <1>4 DEF RequestShape, CompletedRightly, LoneRequest, NoRequest, CampaignsInit
<1> QED BY <1>1, <1>5, <1>6, <1>7 DEF CompleteInv

\* The payment that completes milestones takes them from no request it does not
\* make loose.
LEMMA CountCompletes ==
  ASSUME CompleteInv, CountPayment, CampaignsTypeOK', horizon[position] \in Nat
  PROVE  CompleteInv'
<1> USE CampaignsAssumption DEF CompleteInv
<1>1. /\ Open(milestone') \subseteq Open(milestone)
      /\ UNCHANGED request /\ raisedAmount' >= raisedAmount
      /\ campaignStatus = "COMPLETED" => campaignStatus' = "COMPLETED"
  BY SMTT(30) DEF CountPayment, Open, CampaignsTypeOK
<1>2. loose' \in BOOLEAN
  BY Zenon DEF CountPayment
<1>3. RequestShape'
  BY <1>1 DEF RequestShape
<1>4. CompletedRightly'
  <2>1. raisedAmount \in Nat /\ raisedAmount' \in Nat /\ raisedAmount' = raisedAmount + horizon[position]
    BY DEF CountPayment, CampaignsTypeOK
  <2>2. campaignStatus' = "COMPLETED" => raisedAmount' >= Goal \/ campaignStatus = "COMPLETED"
    BY <2>1 DEF CountPayment
  <2> QED BY <1>1, <2>1, <2>2 DEF CompletedRightly, Open
<1>5. ASSUME ~loose' PROVE LoneRequest'
  <2> DEFINE reached == {m \in Milestones : milestone[m] = "ACTIVE"
                                          /\ raisedAmount + horizon[position] >= Target[m]}
  <2>1. ~loose /\ (reached = {} \/ (Open(milestone') # {} /\ ~Requesting))
    BY <1>5 DEF CountPayment
  <2>2. CASE reached = {}
    <3>1. Open(milestone') = Open(milestone)
      BY <2>2 DEF CountPayment, Open, CampaignsTypeOK
    <3> QED BY <1>1, <2>1, <3>1 DEF LoneRequest
  <2>3. CASE Open(milestone') # {} /\ ~Requesting
    BY <1>1, <2>3 DEF LoneRequest, Requesting, NoRequest
  <2> QED BY <2>1, <2>2, <2>3
<1> QED BY <1>1, <1>2, <1>3, <1>4, <1>5 DEF LoneRequest

\* Every step preserves what is known of the requests.
LEMMA CompleteInvStep ==
  CountInv /\ CompleteInv /\ [CampaignsNext]_campaignsVars => CompleteInv'
<1> SUFFICES ASSUME CountInv, CompleteInv, [CampaignsNext]_campaignsVars PROVE CompleteInv'
  OBVIOUS
<1>0. CampaignsTypeOK'
  BY CountInvStep DEF CountInv
<1> USE CampaignsAssumption DEF CompleteInv
<1>1. CASE CountPayment
  <2>1. horizon[position] \in Nat
    BY <1>1, RecordAtHand DEF CountInv, CountPayment
  <2> QED BY <1>0, <1>1, <2>1, CountCompletes
<1>2. ASSUME NEW m \in Milestones, Activate(m) PROVE CompleteInv'
  <2>1. Open(milestone') = Open(milestone)
    BY <1>2 DEF Activate, Open, CampaignsTypeOK
  <2>2. CompletedRightly'
    BY <1>2, <2>1 DEF Activate, CompletedRightly, Open
  <2>3. RequestShape' /\ LoneRequest'
    BY <1>2, <2>1 DEF Activate, RequestShape, LoneRequest
  <2> QED BY <1>0, <1>2, <2>2, <2>3 DEF Activate
<1>3. ASSUME NEW r \in Requests, NEW m \in Milestones, ReadMilestones(r, m) PROVE CompleteInv'
  <2> DEFINE new == [step |-> "mark", on |-> {m}, others |-> Open(milestone) \ {m}]
  <2>1. /\ request' = [request EXCEPT ![r] = new] /\ request[r] = NoRequest
        /\ m \in Open(milestone) /\ UNCHANGED campaignRow /\ Open(milestone) \subseteq Milestones
    BY <1>3 DEF ReadMilestones, Open
  <2>2. new \in [step : {"idle", "mark", "complete"}, on : SUBSET Milestones,
                 others : SUBSET Milestones]
    BY <2>1
  <2>3. request' \in [Requests -> [step : {"idle", "mark", "complete"},
                                   on : SUBSET Milestones, others : SUBSET Milestones]]
    BY <2>1, <2>2
  <2>4. RequestShape'
    <3>1. ASSUME NEW q \in Requests, q # r PROVE request'[q] = request[q]
      BY <2>1, <3>1
    <3>2. request'[r] = new
      BY <2>1
    <3> QED BY <2>1, <2>2, <3>1, <3>2 DEF RequestShape, campaignRow
  <2>5. CompletedRightly' /\ loose' \in BOOLEAN
    BY <1>3, <2>1 DEF CompletedRightly, ReadMilestones, campaignRow, Requesting
  <2>6. ASSUME ~loose' PROVE LoneRequest'
    <3>1. ~loose /\ \A q \in Requests : request[q] = NoRequest
      BY <1>3, <2>6 DEF ReadMilestones, Requesting
    <3>2. \A q \in Requests : q # r => request'[q] = NoRequest
      BY <2>1, <3>1
    <3>3. request'[r] = new
      BY <2>1
    <3>4. /\ new.on = {m} /\ new.others = Open(milestone) \ {m} /\ NoRequest.step = "idle"
          /\ milestone' = milestone
      BY <2>1 DEF NoRequest, campaignRow
    <3>5. new.on \cup new.others = Open(milestone') /\ new.on \cap new.others = {}
      BY <2>1, <3>4 DEF Open
    <3>6. Open(milestone') # {}
      BY <2>1, <3>4 DEF Open
    <3> QED BY <3>2, <3>3, <3>4, <3>5, <3>6 DEF LoneRequest
  <2> QED BY <1>0, <2>3, <2>4, <2>5, <2>6 DEF LoneRequest
<1>4. ASSUME NEW r \in Requests, MarkMilestone(r) PROVE CompleteInv'
  <2>1. /\ request[r].step = "mark"
        /\ Open(milestone') = Open(milestone) \ request[r].on
        /\ UNCHANGED <<raisedAmount, campaignStatus, loose>>
    BY <1>4 DEF MarkMilestone, Open
  <2> DEFINE done == [request[r] EXCEPT !.step = "complete"]
  <2>2. request' = [request EXCEPT ![r] = IF request[r].others = {} THEN done ELSE NoRequest]
    BY <1>4 DEF MarkMilestone
  <2>3. /\ done \in [step : {"idle", "mark", "complete"}, on : SUBSET Milestones,
                     others : SUBSET Milestones]
        /\ NoRequest \in [step : {"idle", "mark", "complete"}, on : SUBSET Milestones,
                          others : SUBSET Milestones]
        /\ done.step = "complete" /\ NoRequest.step = "idle"
    BY DEF NoRequest
  <2>4. request' \in [Requests -> [step : {"idle", "mark", "complete"},
                                   on : SUBSET Milestones, others : SUBSET Milestones]]
    BY <2>2, <2>3
  <2>5. \A q \in Requests : q # r => request'[q] = request[q]
    BY <2>2
  <2>6. request[r].others = {} => request'[r] = done /\ Open(milestone') = {}
    BY <2>1, <2>2 DEF RequestShape
  <2>7. request[r].others # {} => request'[r] = NoRequest
    BY <2>2
  <2>8. RequestShape'
    BY <2>1, <2>3, <2>5, <2>6, <2>7 DEF RequestShape
  <2>9. CompletedRightly'
    BY <2>1 DEF CompletedRightly, Open
  <2>10. ASSUME ~loose' PROVE LoneRequest'
    <3>1. ~loose /\ request[r] # NoRequest
      BY <2>1, <2>10 DEF NoRequest
    <3>2. \A q \in Requests : q # r => request'[q] = NoRequest
      BY <2>5, <3>1 DEF LoneRequest
    <3>3. CASE request[r].others = {}
      BY <2>3, <2>6, <3>2, <3>3 DEF LoneRequest, NoRequest
    <3>4. CASE request[r].others # {}
      <4>1. Open(milestone') # {}
        BY <2>1, <3>1, <3>4 DEF LoneRequest
      <4> QED BY <2>7, <3>2, <3>4, <4>1 DEF LoneRequest, NoRequest
    <3> QED BY <3>3, <3>4
  <2> QED BY <1>0, <2>1, <2>4, <2>8, <2>9, <2>10 DEF LoneRequest
<1>5. ASSUME NEW r \in Requests, CompleteCampaign(r) \/ RequestFails(r) PROVE CompleteInv'
  <2>1. /\ request' = [request EXCEPT ![r] = NoRequest] /\ UNCHANGED <<milestone, raisedAmount>>
        /\ request[r] # NoRequest
    BY <1>5 DEF CompleteCampaign, RequestFails, campaignRow, NoRequest
  <2>2. NoRequest \in [step : {"idle", "mark", "complete"}, on : SUBSET Milestones,
                       others : SUBSET Milestones]
    BY DEF NoRequest
  <2>3. /\ request' \in [Requests -> [step : {"idle", "mark", "complete"},
                                      on : SUBSET Milestones, others : SUBSET Milestones]]
        /\ request'[r] = NoRequest
        /\ \A q \in Requests : q # r => request'[q] = request[q]
    BY <2>1, <2>2
  <2>4. RequestShape'
    BY <2>1, <2>2, <2>3 DEF RequestShape, NoRequest
  <2>5. CompletedRightly' /\ loose' \in BOOLEAN
    BY <1>5, <2>1 DEF CompletedRightly, RequestShape, CompleteCampaign, RequestFails, campaignRow,
                      Open
  <2>6. ASSUME ~loose' PROVE LoneRequest'
    <3>1. ~loose /\ \A q \in Requests : request'[q] = NoRequest
      BY <1>5, <2>1, <2>3, <2>6 DEF LoneRequest, CompleteCampaign, RequestFails
    <3>2. CASE CompleteCampaign(r)
      BY <3>1, <3>2, <2>1 DEF LoneRequest, CompleteCampaign, NoRequest
    <3>3. CASE RequestFails(r)
      <4>1. request[r].step = "mark"
        BY <3>3, <2>6, <2>1 DEF RequestFails, RequestShape
      <4>2. Open(milestone) # {}
        BY <3>1, <4>1 DEF LoneRequest
      <4> QED BY <2>1, <3>1, <4>2 DEF LoneRequest, NoRequest
    <3> QED BY <1>5, <3>2, <3>3
  <2> QED BY <1>0, <2>3, <2>4, <2>5, <2>6 DEF LoneRequest
<1>6. ASSUME UNCHANGED <<campaignRow, request, loose>> PROVE CompleteInv'
  BY <1>0, <1>6 DEF RequestShape, CompletedRightly, LoneRequest, campaignRow, Open
<1>7. CASE Connect \/ Disconnect \/ Receive \/ FindCampaign \/ SetCursor \/ HandlerFails \/ Stop
             \/ CursorExpires \/ (\E amount \in Payments : Pay(amount))
             \/ UNCHANGED campaignsVars
  BY <1>6, <1>7 DEF Connect, Disconnect, Receive, FindCampaign, SetCursor, HandlerFails, Stop,
                    CursorExpires, Pay, Unfinished, campaignsVars
<1> QED BY <1>1, <1>2, <1>3, <1>4, <1>5, <1>7 DEF CampaignsNext

-----------------------------------------------------------------------------
\* The count invariant holds in every reachable state of the two services.
THEOREM CountInvariant == CampaignsSpec => []CountInv
<1> QED BY CountInvInit, CountInvStep, PTL DEF CampaignsSpec

\* No payment the stored cursor has passed is missing from the campaign, and
\* none is counted twice, but for the cases the history variables name -
\* whatever fails, restarts or forgets its cursor in between.
THEOREM CursorCountsAll == CampaignsSpec => []PaymentsCounted
<1>1. CountInv => PaymentsCounted
  <2> SUFFICES ASSUME CountInv, NEW n \in Horizon
               PROVE  /\ n <= cursor /\ horizon[n] # 0 => counted[n] > 0 \/ n \in excused \cup skipped
                      /\ counted[n] > 1 => n \in repeated
                      /\ n \in skipped /\ ~expired =>
                           \A m \in 1 .. n - 1 : counted[m] > 0 => m \in repeated
    BY DEF PaymentsCounted, Horizon
  <2>1. n <= cursor /\ horizon[n] # 0 => counted[n] > 0 \/ n \in excused \cup skipped
    BY DEF CountInv, NoneSkipped, Behind
  <2>2. counted[n] > 1 => n \in repeated
    BY DEF CountInv, NoneTwice
  <2>3. n \in skipped /\ ~expired => \A m \in 1 .. n - 1 : counted[m] > 0 => m \in repeated
    BY DEF CountInv, CursorKept, Uncounted
  <2> QED BY <2>1, <2>2, <2>3
<1> QED BY <1>1, CountInvariant, PTL

\* A campaign is completed by its goal or its milestones and by nothing else,
\* and by its last milestone unless two requests crossed, one broke off, or a
\* payment completed it.
THEOREM CompletedWhenDone == CampaignsSpec => []CampaignCompletes
<1>1. CompleteInv => CampaignCompletes
  BY DEF CompleteInv, CompletedRightly, LoneRequest, CampaignCompletes, Requesting, NoRequest
<1>2. CampaignsSpec => []CompleteInv
  BY CompleteInvInit, CompleteInvStep, CountInvariant, PTL DEF CampaignsSpec
<1> QED BY <1>1, <1>2, PTL

-----------------------------------------------------------------------------
\* Notifications

\* The points at which the handling of an event can be.
EventSteps == {"idle", "claim", "existing", "guard", "bump", "insert", "record", "release", "done",
          "failed"}

\* Events that have claimed a window and have a row, or may yet insert one.
Claimed(e) == e \in Rows \/ doingEvent[e] \in {"guard", "insert"}

\* Only an event that is through with its insert has a row.
RowAfterInsert == \A e \in Rows : doingEvent[e] \in {"record", "done", "failed"}

\* Two claims are a window apart.
Apart(e, f) == claimedAt[e] + Window <= claimedAt[f] \/ claimedAt[f] + Window <= claimedAt[e]

\* The claims of events that have a row, or may yet insert one, are.
ClaimsApart == \A e, f \in Events : Claimed(e) /\ Claimed(f) /\ e # f => Apart(e, f)

\* While the window of a claim is open the key says so.
KeyHeld ==
  \A e \in Events : Claimed(e) /\ now < claimedAt[e] + Window =>
    \E k \in key : k.owner = e /\ k.at = claimedAt[e]

\* Redis holds one deduplication key at most.
OneKey == \A k, j \in key : k = j

\* The values of the variables and the claims of the events.
DedupShape ==
  /\ NotificationsTypeOK
  /\ doingEvent \in [Events -> EventSteps]
  /\ RowAfterInsert /\ OneKey
  /\ \A e \in Events : claimedAt[e] <= now

\* Until the key has been lost or bypassed, claims are a window apart.
DedupInv == DedupShape /\ (bypassed = {} => ClaimsApart /\ KeyHeld)

\* Events that may still insert a row, or have failed to.
Inserting == {e \in Events : doingEvent[e] \in {"guard", "insert", "release", "failed"}}

\* While there is no row, an event that was collapsed, and a key, are owed to
\* an event that may still insert one.
CollapsedOnto ==
  Rows = {} /\ (key # {} \/ \E e \in Events : doingEvent[e] \in {"existing", "bump", "record", "done"})
    => Inserting # {}

-----------------------------------------------------------------------------
\* Initially there is no key and no row.
LEMMA DedupInvInit == NotificationsInit => DedupInv /\ CollapsedOnto
<1> SUFFICES ASSUME NotificationsInit PROVE DedupInv /\ CollapsedOnto
  OBVIOUS
<1> USE NotificationsAssumption DEF NotificationsInit, Rows
<1>1. Rows = {} /\ key = {} /\ \A e \in Events : doingEvent[e] = "idle" /\ claimedAt[e] = 0
  OBVIOUS
<1>2. redisUp \in BOOLEAN /\ bypassed = {}
  BY Zenon
<1>3. /\ target \in [Events -> SUBSET Events] /\ bulk \in [Events -> BOOLEAN]
      /\ claimedAt \in [Events -> 0 .. MaxNow] /\ now \in 0 .. MaxNow
  OBVIOUS
<1>4. NotificationsTypeOK
  BY <1>1, <1>2, <1>3 DEF NotificationsTypeOK
<1>5. DedupShape
  BY <1>1, <1>4 DEF DedupShape, EventSteps, RowAfterInsert, OneKey
<1> QED BY <1>1, <1>5 DEF DedupInv, ClaimsApart, KeyHeld, Claimed, CollapsedOnto

\* A step that claims, inserts and releases nothing, moves no clock and keeps
\* the key, or what stands of it.
LEMMA QuietKeeps ==
  ASSUME DedupInv, NEW e \in Events, NEW s \in EventSteps \ {"guard", "insert"},
         MoveTo(e, s), NotificationsTypeOK', Rows' = Rows,
         e \in Rows => s \in {"done", "failed"},
         UNCHANGED <<now, claimedAt, bypassed>>,
         key' = key \/ key' = {[k EXCEPT !.recorded = {e}] : k \in Standing}
  PROVE  DedupInv'
<1> USE NotificationsAssumption
<1>1. \A f \in Events : Claimed(f)' => Claimed(f)
  BY DEF DedupInv, DedupShape, Claimed, MoveTo
<1>2. ASSUME NEW k \in key PROVE k \in [owner : Events, at : 0 .. MaxNow, recorded : SUBSET Events]
  BY <1>2 DEF DedupInv, DedupShape, NotificationsTypeOK
<1>3. \A k \in Standing :
        /\ k \in key
        /\ [k EXCEPT !.recorded = {e}].owner = k.owner /\ [k EXCEPT !.recorded = {e}].at = k.at
  BY <1>2 DEF Standing
<1>4. DedupShape'
  <2>1. doingEvent' \in [Events -> EventSteps]
    BY DEF DedupInv, DedupShape, MoveTo
  <2>2. RowAfterInsert'
    BY DEF DedupInv, DedupShape, RowAfterInsert, MoveTo, NotificationsTypeOK
  <2>3. OneKey'
    <3>1. \A k, j \in Standing : k = j
      BY <1>3 DEF DedupInv, DedupShape, OneKey
    <3>2. CASE key' = {[k EXCEPT !.recorded = {e}] : k \in Standing}
      BY <3>1, <3>2 DEF OneKey
    <3> QED BY <3>2 DEF DedupInv, DedupShape, OneKey
  <2> QED BY <2>1, <2>2, <2>3 DEF DedupInv, DedupShape
<1>5. ASSUME bypassed' = {} PROVE ClaimsApart' /\ KeyHeld'
  <2>1. ClaimsApart'
    BY <1>1, <1>5 DEF DedupInv, ClaimsApart, Apart
  <2>2. ASSUME NEW f \in Events, Claimed(f)', now < claimedAt[f] + Window
        PROVE  \E k \in key' : k.owner = f /\ k.at = claimedAt[f]
    <3>1. PICK k \in key : k.owner = f /\ k.at = claimedAt[f]
      BY <1>1, <1>5, <2>2 DEF DedupInv, KeyHeld
    <3>2. k \in Standing
      BY <2>2, <3>1 DEF Standing
    <3>3. CASE key' = key
      BY <3>1, <3>3
    <3>4. CASE key' = {[j EXCEPT !.recorded = {e}] : j \in Standing}
      BY <1>3, <3>1, <3>2, <3>4
    <3> QED BY <3>3, <3>4
  <2> QED BY <2>1, <2>2 DEF KeyHeld
<1> QED BY <1>4, <1>5 DEF DedupInv

\* Every step preserves the invariant.
LEMMA DedupInvStep == DedupInv /\ [NotificationsNext]_notificationsVars => DedupInv'
<1> SUFFICES ASSUME DedupInv, [NotificationsNext]_notificationsVars PROVE DedupInv'
  OBVIOUS
<1> USE NotificationsAssumption
<1>0. DedupShape /\ NotificationsTypeOK
  BY DEF DedupInv, DedupShape
<1>1. ASSUME NEW e \in Events, NEW many \in BOOLEAN, Arrive(e, many) PROVE DedupInv'
  <2>1. bulk' \in [Events -> BOOLEAN]
    BY <1>0, <1>1 DEF Arrive, NotificationsTypeOK
  <2>2. NotificationsTypeOK'
    BY <1>0, <1>1, <2>1 DEF Arrive, NotificationsTypeOK, dedupVars, Rows
  <2>3. Rows' = Rows /\ e \notin Rows /\ "claim" \in EventSteps \ {"guard", "insert"}
    BY <1>0, <1>1 DEF Arrive, Rows, DedupShape, RowAfterInsert, EventSteps
  <2> QED BY <1>1, <2>2, <2>3, QuietKeeps DEF Arrive, dedupVars
<1>2. ASSUME NEW e \in Events, ClaimFails(e) \/ (ReadExisting(e) /\ ~redisUp) PROVE DedupInv'
  <2>1. /\ UNCHANGED <<redisUp, rowAt, now, bulk, target>>
        /\ key' = key \/ key' = KeyOf(e)
        /\ bypassed' = bypassed \cup {"outage"}
        /\ claimedAt' = [claimedAt EXCEPT ![e] = now]
        /\ MoveTo(e, IF bulk[e] THEN "insert" ELSE "guard")
        /\ doingEvent[e] \in {"claim", "existing"}
    BY <1>2 DEF ClaimFails, ReadExisting, dedupVars
  <2>2. NotificationsTypeOK'
    <3>1. claimedAt' \in [Events -> 0 .. MaxNow] /\ bypassed' \subseteq {"outage", "cleared", "released"}
      BY <1>0, <2>1 DEF NotificationsTypeOK
    <3>2. key' \subseteq [owner : Events, at : 0 .. MaxNow, recorded : SUBSET Events]
      BY <1>0, <2>1 DEF NotificationsTypeOK, KeyOf
    <3> QED BY <1>0, <2>1, <3>1, <3>2 DEF NotificationsTypeOK, Rows
  <2>3. doingEvent' \in [Events -> EventSteps]
    BY <1>0, <2>1 DEF DedupShape, MoveTo, EventSteps
  <2>4. RowAfterInsert' /\ OneKey'
    BY <1>0, <2>1 DEF DedupShape, RowAfterInsert, OneKey, KeyOf, MoveTo, Rows, NotificationsTypeOK
  <2>5. \A f \in Events : claimedAt'[f] <= now'
    BY <1>0, <2>1 DEF DedupShape, NotificationsTypeOK
  <2>6. bypassed' # {}
    BY <2>1
  <2> QED BY <2>2, <2>3, <2>4, <2>5, <2>6 DEF DedupInv, DedupShape
<1>3. ASSUME NEW e \in Events, Claim(e) PROVE DedupInv'
  <2> DEFINE new == [owner |-> e, at |-> now, recorded |-> {}]
  <2>1. /\ UNCHANGED <<redisUp, rowAt, now, bulk, target, bypassed>> /\ key' = {new}
        /\ claimedAt' = [claimedAt EXCEPT ![e] = now]
        /\ MoveTo(e, IF bulk[e] THEN "insert" ELSE "guard")
        /\ doingEvent[e] = "claim" /\ Standing = {}
    BY <1>3 DEF Claim, KeyOf
  <2>2. NotificationsTypeOK'
    <3>1. claimedAt' \in [Events -> 0 .. MaxNow]
      BY <1>0, <2>1 DEF NotificationsTypeOK
    <3>2. key' \subseteq [owner : Events, at : 0 .. MaxNow, recorded : SUBSET Events]
      BY <1>0, <2>1 DEF NotificationsTypeOK
    <3> QED BY <1>0, <2>1, <3>1, <3>2 DEF NotificationsTypeOK, Rows
  <2>3. doingEvent' \in [Events -> EventSteps]
    BY <1>0, <2>1 DEF DedupShape, MoveTo, EventSteps
  <2>4. RowAfterInsert' /\ OneKey'
    BY <1>0, <2>1 DEF DedupShape, RowAfterInsert, OneKey, MoveTo, Rows, NotificationsTypeOK
  <2>5. \A f \in Events : claimedAt'[f] <= now'
    BY <1>0, <2>1 DEF DedupShape, NotificationsTypeOK
  <2>6. ASSUME bypassed' = {} PROVE ClaimsApart' /\ KeyHeld'
    <3>1. ASSUME NEW f \in Events, f # e, Claimed(f)'
          PROVE  Claimed(f) /\ claimedAt'[f] = claimedAt[f] /\ claimedAt[f] + Window <= now
      <4>1. Claimed(f) /\ claimedAt'[f] = claimedAt[f]
        BY <1>0, <2>1, <3>1 DEF Claimed, MoveTo, Rows, DedupShape, NotificationsTypeOK
      <4>2. ~(now < claimedAt[f] + Window)
        BY <2>1, <2>6, <4>1 DEF DedupInv, KeyHeld, Standing
      <4> QED BY <1>0, <4>1, <4>2 DEF NotificationsTypeOK
    <3>2. claimedAt'[e] = now
      BY <1>0, <2>1 DEF NotificationsTypeOK
    <3>3. ClaimsApart'
      <4> SUFFICES ASSUME NEW f \in Events, NEW g \in Events, Claimed(f)', Claimed(g)', f # g
                   PROVE  Apart(f, g)'
        BY DEF ClaimsApart
      <4>1. CASE f = e \/ g = e
        BY <3>1, <3>2, <4>1 DEF Apart
      <4>2. CASE f # e /\ g # e
        BY <2>1, <2>6, <3>1, <4>2 DEF Apart, DedupInv, ClaimsApart
      <4> QED BY <4>1, <4>2
    <3>4. KeyHeld'
      <4> SUFFICES ASSUME NEW f \in Events, Claimed(f)', now' < claimedAt'[f] + Window
                   PROVE  \E k \in key' : k.owner = f /\ k.at = claimedAt'[f]
        BY DEF KeyHeld
      <4>1. f = e
        BY <1>0, <2>1, <3>1 DEF NotificationsTypeOK
      <4> QED BY <2>1, <3>2, <4>1
    <3> QED BY <3>3, <3>4
  <2> QED BY <2>2, <2>3, <2>4, <2>5, <2>6 DEF DedupInv, DedupShape
<1>4. ASSUME NEW e \in Events, ClaimRefused(e) PROVE DedupInv'
  <2>1. NotificationsTypeOK' /\ Rows' = Rows
    BY <1>0, <1>4 DEF ClaimRefused, NotificationsTypeOK, dedupVars, Rows
  <2>2. e \notin Rows /\ "existing" \in EventSteps \ {"guard", "insert"}
    BY <1>0, <1>4 DEF ClaimRefused, DedupShape, RowAfterInsert, EventSteps
  <2> QED BY <1>4, <2>1, <2>2, QuietKeeps DEF ClaimRefused, dedupVars
<1>5. ASSUME NEW e \in Events, ReadExisting(e), redisUp PROVE DedupInv'
  <2>1. target' \in [Events -> SUBSET Events]
    BY <1>0, <1>5 DEF ReadExisting, NotificationsTypeOK, Standing
  <2>2. NotificationsTypeOK' /\ Rows' = Rows
    BY <1>0, <1>5, <2>1 DEF ReadExisting, NotificationsTypeOK, dedupVars, Rows
  <2>3. e \notin Rows /\ "bump" \in EventSteps \ {"guard", "insert"}
    BY <1>0, <1>5 DEF ReadExisting, DedupShape, RowAfterInsert, EventSteps
  <2> QED BY <1>5, <2>2, <2>3, QuietKeeps DEF ReadExisting, dedupVars
<1>6. ASSUME NEW e \in Events, AskDatabase(e) PROVE DedupInv'
  <2>1. UNCHANGED <<dedupVars, rowAt, now, bulk, claimedAt, bypassed>> /\ doingEvent[e] = "guard"
    BY <1>6 DEF AskDatabase
  <2>2. target' \in [Events -> SUBSET Events]
    BY <1>0, <1>6 DEF AskDatabase, NotificationsTypeOK, Recent
  <2>3. NotificationsTypeOK' /\ Rows' = Rows
    BY <1>0, <2>1, <2>2 DEF NotificationsTypeOK, dedupVars, Rows
  <2>4. e \notin Rows
    BY <1>0, <2>1 DEF DedupShape, RowAfterInsert
  <2>5. CASE MoveTo(e, "bump")
    <3>1. "bump" \in EventSteps \ {"guard", "insert"}
      BY DEF EventSteps
    <3> QED BY <2>1, <2>3, <2>4, <2>5, <3>1, QuietKeeps DEF dedupVars
  <2>6. CASE MoveTo(e, "insert")
    <3>1. \A f \in Events : Claimed(f)' <=> Claimed(f)
      BY <1>0, <2>1, <2>3, <2>6 DEF Claimed, MoveTo, DedupShape
    <3>2. doingEvent' \in [Events -> EventSteps]
      BY <1>0, <2>6 DEF DedupShape, MoveTo, EventSteps
    <3>3. RowAfterInsert'
      BY <1>0, <2>3, <2>4, <2>6 DEF DedupShape, RowAfterInsert, MoveTo, NotificationsTypeOK
    <3> QED BY <2>1, <2>3, <3>1, <3>2, <3>3
            DEF DedupInv, DedupShape, OneKey, ClaimsApart, Apart, KeyHeld, dedupVars
  <2> QED BY <1>6, <2>5, <2>6 DEF AskDatabase
<1>7. ASSUME NEW e \in Events, Bump(e) PROVE DedupInv'
  <2>1. /\ UNCHANGED <<dedupVars, now, bulk, claimedAt, target, bypassed>> /\ MoveTo(e, "done")
        /\ rowAt' = rowAt \/ \E r : rowAt' = [rowAt EXCEPT ![r] = now]
    BY <1>7 DEF Bump
  <2>2. Rows' = Rows /\ \A r \in Rows : rowAt'[r] \in 0 .. MaxNow
    BY <1>0, <2>1 DEF Rows, NotificationsTypeOK
  <2>3. NotificationsTypeOK' /\ "done" \in EventSteps \ {"guard", "insert"}
    BY <1>0, <2>1, <2>2 DEF NotificationsTypeOK, dedupVars, EventSteps
  <2> QED BY <2>1, <2>2, <2>3, QuietKeeps DEF dedupVars
<1>8. ASSUME NEW e \in Events, InsertRow(e) PROVE DedupInv'
  <2>1. /\ UNCHANGED <<dedupVars, now, bulk, claimedAt, target, bypassed>>
        /\ doingEvent[e] = "insert" /\ Rows' = Rows \cup {e}
        /\ \A r \in Rows' : rowAt'[r] = IF r = e THEN now ELSE rowAt[r]
        /\ MoveTo(e, IF bulk[e] THEN "done" ELSE "record")
    BY <1>8 DEF InsertRow, Rows
  <2>2. NotificationsTypeOK'
    BY <1>0, <2>1 DEF NotificationsTypeOK, dedupVars
  <2>3. \A f \in Events : Claimed(f)' <=> Claimed(f)
    BY <1>0, <2>1 DEF Claimed, MoveTo, DedupShape
  <2>4. doingEvent' \in [Events -> EventSteps]
    BY <1>0, <2>1 DEF DedupShape, MoveTo, EventSteps
  <2>5. RowAfterInsert'
    BY <1>0, <2>1 DEF DedupShape, RowAfterInsert, MoveTo, NotificationsTypeOK
  <2> QED BY <2>1, <2>2, <2>3, <2>4, <2>5
          DEF DedupInv, DedupShape, OneKey, ClaimsApart, Apart, KeyHeld, dedupVars
<1>9. ASSUME NEW e \in Events, InsertFails(e) \/ EventStops(e) PROVE DedupInv'
  <2>1. /\ UNCHANGED <<dedupVars, rowAt, now, bulk, claimedAt, target, bypassed>>
        /\ (MoveTo(e, "release") /\ e \notin Rows) \/ MoveTo(e, "failed")
    BY <1>0, <1>9 DEF InsertFails, EventStops, DedupShape, RowAfterInsert
  <2>2. NotificationsTypeOK' /\ Rows' = Rows
    BY <1>0, <2>1 DEF NotificationsTypeOK, dedupVars, Rows
  <2>3. {"release", "failed"} \subseteq EventSteps \ {"guard", "insert"}
    BY DEF EventSteps
  <2> QED BY <2>1, <2>2, <2>3, QuietKeeps DEF dedupVars
<1>10. ASSUME NEW e \in Events, RecordId(e) PROVE DedupInv'
  <2>1. /\ UNCHANGED <<redisUp, rowAt, now, bulk, claimedAt, target, bypassed>>
        /\ MoveTo(e, "done")
        /\ key' = key \/ key' = {[k EXCEPT !.recorded = {e}] : k \in Standing}
    BY <1>10 DEF RecordId
  <2>2. key' \subseteq [owner : Events, at : 0 .. MaxNow, recorded : SUBSET Events]
    BY <1>0, <2>1 DEF NotificationsTypeOK, Standing
  <2>3. NotificationsTypeOK' /\ Rows' = Rows /\ "done" \in EventSteps \ {"guard", "insert"}
    BY <1>0, <2>1, <2>2 DEF NotificationsTypeOK, Rows, EventSteps
  <2> QED BY <2>1, <2>3, QuietKeeps
<1>11. ASSUME NEW e \in Events, Release(e) PROVE DedupInv'
  <2>1. /\ UNCHANGED <<redisUp, rowAt, now, bulk, claimedAt, target>> /\ MoveTo(e, "failed")
        /\ \/ key' = {} /\ bypassed' = bypassed \cup {"released" : k \in {j \in Standing : j.owner # e}}
           \/ UNCHANGED <<key, bypassed>>
        /\ doingEvent[e] = "release"
    BY <1>11 DEF Release
  <2>2. NotificationsTypeOK'
    <3>1. bypassed' \subseteq {"outage", "cleared", "released"}
      <4>1. {"released" : k \in {j \in Standing : j.owner # e}} \subseteq {"released"}
        BY Zenon
      <4>2. bypassed' \subseteq bypassed \cup {"released"}
        BY <2>1, <4>1, Zenon
      <4> QED BY <1>0, <4>2 DEF NotificationsTypeOK
    <3>2. key' \subseteq key
      BY <2>1
    <3> QED BY <1>0, <2>1, <3>1, <3>2 DEF NotificationsTypeOK, Rows
  <2>3. doingEvent' \in [Events -> EventSteps] /\ doingEvent'[e] = "failed"
    BY <1>0, <2>1 DEF DedupShape, MoveTo, EventSteps
  <2>4. RowAfterInsert' /\ OneKey'
    BY <1>0, <2>1 DEF DedupShape, RowAfterInsert, OneKey, MoveTo, Rows, NotificationsTypeOK
  <2>5. ASSUME bypassed' = {} PROVE ClaimsApart' /\ KeyHeld'
    <3>1. \A f \in Events : Claimed(f)' => Claimed(f) /\ f # e
      BY <1>0, <2>1, <2>3 DEF Claimed, MoveTo, Rows, DedupShape, RowAfterInsert
    <3>2. ClaimsApart'
      BY <2>1, <2>5, <3>1 DEF DedupInv, ClaimsApart, Apart
    <3>3. ASSUME NEW f \in Events, Claimed(f)', now < claimedAt[f] + Window
          PROVE  \E k \in key' : k.owner = f /\ k.at = claimedAt[f]
      <4>1. PICK k \in key : k.owner = f /\ k.at = claimedAt[f]
        BY <2>1, <2>5, <3>1, <3>3 DEF DedupInv, KeyHeld
      <4>2. k \in Standing /\ k.owner # e
        BY <3>1, <3>3, <4>1 DEF Standing
      <4> QED BY <2>1, <2>5, <4>1, <4>2
    <3> QED BY <2>1, <3>2, <3>3 DEF KeyHeld
  <2> QED BY <1>0, <2>1, <2>2, <2>3, <2>4, <2>5 DEF DedupInv, DedupShape
<1>12. CASE RedisChanges \/ ClearKeys \/ UNCHANGED notificationsVars
  <2>1. /\ UNCHANGED <<rowAt, now, eventVars>> /\ key' \subseteq key
        /\ redisUp' \in BOOLEAN /\ bypassed' \subseteq {"outage", "cleared", "released"}
        /\ bypassed' = {} => bypassed = {} /\ UNCHANGED key
    BY <1>0, <1>12 DEF RedisChanges, ClearKeys, notificationsVars, dedupVars, NotificationsTypeOK
  <2>2. DedupShape'
    BY <1>0, <2>1 DEF DedupShape, NotificationsTypeOK, Rows, RowAfterInsert, OneKey, eventVars
  <2> QED BY <2>1, <2>2 DEF DedupInv, ClaimsApart, Apart, KeyHeld, Claimed, Rows, eventVars
<1>13. CASE Wait
  <2>1. /\ UNCHANGED <<redisUp, key, rowAt, eventVars, bypassed>>
        /\ now' = now + 1 /\ now' \in 0 .. MaxNow
    BY <1>0, <1>13 DEF Wait, dedupVars, NotificationsTypeOK
  <2>2. DedupShape'
    BY <1>0, <2>1 DEF DedupShape, NotificationsTypeOK, Rows, RowAfterInsert, OneKey, eventVars
  <2>3. ASSUME NEW f \in Events, now' < claimedAt[f] + Window PROVE now < claimedAt[f] + Window
    BY <1>0, <2>1, <2>3 DEF NotificationsTypeOK
  <2> QED BY <2>1, <2>2, <2>3
          DEF DedupInv, ClaimsApart, Apart, KeyHeld, Claimed, Rows, eventVars
<1> QED
  BY <1>1, <1>2, <1>3, <1>4, <1>5, <1>6, <1>7, <1>8, <1>9, <1>10, <1>11, <1>12, <1>13
  DEF NotificationsNext

\* Every step preserves that a collapsed event has a row, or an event that owes it.
LEMMA CollapsedOntoStep ==
  DedupInv /\ CollapsedOnto /\ [NotificationsNext]_notificationsVars => CollapsedOnto'
<1> SUFFICES ASSUME DedupInv, CollapsedOnto, [NotificationsNext]_notificationsVars
             PROVE  CollapsedOnto'
  OBVIOUS
<1>0. doingEvent \in [Events -> EventSteps]
  BY DEF DedupInv, DedupShape
<1> USE <1>0 DEF MoveTo
<1>1. ASSUME NEW e \in Events, (\E many \in BOOLEAN : Arrive(e, many)) \/ EventStops(e)
      PROVE  CollapsedOnto'
  BY <1>1 DEF Arrive, EventStops, CollapsedOnto, Inserting, Rows, dedupVars
<1>2. ASSUME NEW e \in Events, ClaimFails(e) \/ Claim(e) PROVE CollapsedOnto'
  BY <1>2 DEF ClaimFails, Claim, KeyOf, CollapsedOnto, Inserting
<1>3. ASSUME NEW e \in Events, ClaimRefused(e) PROVE CollapsedOnto'
  BY <1>3 DEF ClaimRefused, CollapsedOnto, Inserting, Rows, Standing, dedupVars
<1>4. ASSUME NEW e \in Events, ReadExisting(e) PROVE CollapsedOnto'
  BY <1>4 DEF ReadExisting, CollapsedOnto, Inserting, Rows, dedupVars
<1>5. ASSUME NEW e \in Events, AskDatabase(e) PROVE CollapsedOnto'
  BY <1>5 DEF AskDatabase, CollapsedOnto, Inserting, Rows, Recent, dedupVars
<1>6. ASSUME NEW e \in Events, Bump(e) PROVE CollapsedOnto'
  <2>1. Rows' = Rows /\ UNCHANGED key /\ doingEvent' = [doingEvent EXCEPT ![e] = "done"]
        /\ doingEvent[e] = "bump"
    BY <1>6 DEF Bump, Rows, dedupVars
  <2> QED BY <2>1 DEF CollapsedOnto, Inserting
<1>7. ASSUME NEW e \in Events, InsertRow(e) PROVE CollapsedOnto'
  BY <1>7 DEF InsertRow, CollapsedOnto, Rows
<1>8. ASSUME NEW e \in Events, InsertFails(e) \/ Release(e) PROVE CollapsedOnto'
  BY <1>8 DEF InsertFails, Release, CollapsedOnto, Inserting
<1>9. ASSUME NEW e \in Events, RecordId(e) PROVE CollapsedOnto'
  <2>1. Rows' = Rows /\ doingEvent' = [doingEvent EXCEPT ![e] = "done"] /\ doingEvent[e] = "record"
    BY <1>9 DEF RecordId, Rows
  <2> QED BY <2>1 DEF CollapsedOnto, Inserting
<1>10. CASE RedisChanges \/ ClearKeys \/ Wait \/ UNCHANGED notificationsVars
  BY <1>10 DEF RedisChanges, ClearKeys, Wait, notificationsVars, dedupVars, eventVars,
              CollapsedOnto, Inserting, Rows
<1> QED BY <1>1, <1>2, <1>3, <1>4, <1>5, <1>6, <1>7, <1>8, <1>9, <1>10
       DEF NotificationsNext

-----------------------------------------------------------------------------
\* The invariants hold in every reachable state of the notification service.
THEOREM DedupInvariant == NotificationsSpec => [](DedupInv /\ CollapsedOnto)
<1> QED BY DedupInvInit, DedupInvStep, CollapsedOntoStep, PTL DEF NotificationsSpec

\* Two rows come from claims at least a window apart unless Redis or a failed
\* event lost the key, and an event is never collapsed onto nothing.
THEOREM NotifiedOncePerWindow == NotificationsSpec => []OneNotificationPerWindow
<1>1. DedupInv /\ CollapsedOnto => OneNotificationPerWindow
  <2> SUFFICES ASSUME DedupInv, CollapsedOnto PROVE OneNotificationPerWindow
    OBVIOUS
  <2>1. Rows \subseteq Events
    BY DEF DedupInv, DedupShape, NotificationsTypeOK
  <2>2. bypassed = {} => RowsApart
    BY <2>1 DEF DedupInv, ClaimsApart, Claimed, Apart, RowsApart
  <2>3. (\E e \in Events : doingEvent[e] = "done")
          /\ (\A e \in Events : doingEvent[e] \in {"idle", "done"}) => Rows # {}
    BY DEF CollapsedOnto, Inserting
  <2> QED BY <2>2, <2>3 DEF OneNotificationPerWindow
<1> QED BY <1>1, DedupInvariant, PTL

-----------------------------------------------------------------------------
\* The payment queue of the web frontend

\* A copy of a queued payment, as a pass of processQueue has read it.
Copies == [send : Sends, retries : 0 .. MaxRetries]

\* A pass that has posted the payment and is about to remove it from the queue.
Removing(f, s) == pass[f].step = "remove" /\ s \in {c.send : c \in pass[f].current}

\* A pass is idle with nothing in hand, or posts, or has posted one copy and not yet
\* recorded what came of it; it never has two copies of a payment.
PassShape(p) ==
  /\ p.todo \subseteq Copies /\ p.current \subseteq Copies
  /\ \/ p = NoPass
     \/ p.step = "post" /\ p.current = {}
     \/ p.step \in {"remove", "fail"} /\ \E c \in Copies : p.current = {c}
  /\ \A c, d \in p.todo \cup p.current : c.send = d.send => c = d
  /\ p.current \cap p.todo = {}

\* The values of all variables.
WebShape ==
  /\ DOMAIN stored \subseteq Sends
  /\ \A s \in DOMAIN stored :
       stored[s] \in [status : {"pending", "failed"}, retries : 0 .. MaxRetries]
  /\ form \in [Sends -> {"review", "queueing", "closed"}]
  /\ pass \in [Passes -> [step : {"idle", "post", "remove", "fail"},
                          todo : SUBSET Copies, current : SUBSET Copies]]
  /\ \A f \in Passes : PassShape(pass[f])
  /\ clicked \in [Sends -> Nat] /\ accepted \in [Sends -> 0 .. 2]
  /\ queued \subseteq Sends /\ unsure \subseteq Sends

\* A payment that has not been confirmed, or not yet queued, is nowhere else.
Unqueued(s) ==
  form[s] # "closed" =>
    /\ s \notin DOMAIN stored /\ s \notin queued /\ clicked[s] = 0
    /\ \A f \in Passes : s \notin InHand(f)
    /\ form[s] = "review" => accepted[s] = 0

\* Nothing is removed that has not been accepted.
RemovesAccepted(s) == \A f \in Passes : Removing(f, s) => accepted[s] > 0

\* A payment that is not unsure is in the hands of one pass at most, which then
\* finds it pending and, until it has posted it with success, not accepted.
SureInHand(s) ==
  s \notin unsure =>
    /\ \A f, g \in Passes : s \in InHand(f) /\ s \in InHand(g) => f = g
    /\ \A f \in Passes : s \in InHand(f) =>
         /\ s \in DOMAIN stored /\ stored[s].status = "pending"
         /\ accepted[s] > 0 => Removing(f, s)

\* A queued payment is stored until it is accepted, and one that is accepted and
\* still stored is about to be removed, or is unsure; so is one accepted twice.
SentOnce(s) ==
  /\ s \in queued => s \in DOMAIN stored \/ accepted[s] > 0
  /\ accepted[s] > 0 /\ (s \in DOMAIN stored \/ form[s] = "queueing") =>
       s \in unsure \/ \E f \in Passes : Removing(f, s)
  /\ accepted[s] > 1 => s \in unsure

\* What holds of each payment.
PaymentInv(s) == Unqueued(s) /\ RemovesAccepted(s) /\ SureInHand(s) /\ SentOnce(s)

\* The inductive invariant of the payment queue.
WebInv == WebShape /\ \A s \in Sends : PaymentInv(s)

-----------------------------------------------------------------------------
\* What Put stores.
LEMMA PutStores ==
  ASSUME NEW s \in Sends, NEW status, NEW n, Put(s, status, n)
  PROVE  /\ DOMAIN stored' = DOMAIN stored \cup {s}
         /\ stored'[s] = [status |-> status, retries |-> n]
         /\ \A r \in DOMAIN stored : r # s => stored'[r] = stored[r]
BY DEF Put

\* Writing an entry of the queue keeps the queue in its type.
LEMMA PutShape ==
  ASSUME WebShape, NEW s \in Sends, NEW status \in {"pending", "failed"}, NEW n \in 0 .. MaxRetries,
         Put(s, status, n)
  PROVE  /\ DOMAIN stored' \subseteq Sends
         /\ \A r \in DOMAIN stored' :
              stored'[r] \in [status : {"pending", "failed"}, retries : 0 .. MaxRetries]
<1>1. [status |-> status, retries |-> n] \in [status : {"pending", "failed"}, retries : 0 .. MaxRetries]
  OBVIOUS
<1>2. /\ DOMAIN stored' = DOMAIN stored \cup {s}
      /\ stored'[s] = [status |-> status, retries |-> n]
      /\ \A r \in DOMAIN stored : r # s => stored'[r] = stored[r]
  BY PutStores
<1> QED BY <1>1, <1>2 DEF WebShape

\* A pass that is done with its copy no longer has the payment in hand.
LEMMA FinishDrops ==
  ASSUME WebShape, NEW f \in Passes, NEW c \in Copies, pass[f].current = {c}, Finish(f)
  PROVE  /\ pass' \in [Passes -> [step : {"idle", "post", "remove", "fail"},
                                  todo : SUBSET Copies, current : SUBSET Copies]]
         /\ \A g \in Passes : PassShape(pass'[g])
         /\ \A g \in Passes : InHand(g)' = IF g = f THEN InHand(g) \ {c.send} ELSE InHand(g)
         /\ \A g \in Passes : \A s : Removing(g, s)' <=> g # f /\ Removing(g, s)
<1> DEFINE rest == pass[f].todo
<1>1. /\ pass[f] \in [step : {"idle", "post", "remove", "fail"}, todo : SUBSET Copies,
                      current : SUBSET Copies]
      /\ PassShape(pass[f])
  BY DEF WebShape
<1>2. pass' = [pass EXCEPT ![f] = pass'[f]]
      /\ pass'[f] = IF rest = {} THEN NoPass ELSE [pass[f] EXCEPT !.step = "post", !.current = {}]
  BY DEF Finish, WebShape
<1>3. pass'[f] = [step |-> IF rest = {} THEN "idle" ELSE "post", todo |-> rest, current |-> {}]
  BY <1>1, <1>2 DEF NoPass
<1>4. /\ PassShape(pass'[f])
      /\ pass'[f] \in [step : {"idle", "post", "remove", "fail"}, todo : SUBSET Copies,
                       current : SUBSET Copies]
  BY <1>1, <1>3 DEF PassShape, NoPass
<1>5. InHand(f)' = {d.send : d \in rest}
  BY <1>3 DEF InHand
<1>6. {d.send : d \in rest} = {d.send : d \in rest \cup {c}} \ {c.send}
  BY <1>1 DEF PassShape
<1>7. \A s : ~Removing(f, s)'
  BY <1>3 DEF Removing
<1>8. ASSUME NEW g \in Passes, g # f PROVE pass'[g] = pass[g]
  BY <1>2, <1>8 DEF WebShape
<1> QED BY <1>2, <1>4, <1>5, <1>6, <1>7, <1>8 DEF WebShape, InHand, Removing

\* At first nothing is queued and no pass is under way.
LEMMA WebInvInit == WebQueueInit => WebInv
<1> SUFFICES ASSUME WebQueueInit PROVE WebInv
  OBVIOUS
<1> USE WebQueueAssumption DEF WebQueueInit
<1>1. WebShape
  BY DEF WebShape, PassShape, NoPass, Copies
<1>2. ASSUME NEW s \in Sends PROVE PaymentInv(s)
  BY DEF PaymentInv, Unqueued, RemovesAccepted, SureInHand, SentOnce, InHand, Removing, NoPass
<1> QED BY <1>1, <1>2 DEF WebInv

\* A post changes one count, and makes the payment unsure when its answer is lost.
LEMMA PostChanges ==
  ASSUME WebShape, NEW s \in Sends, NEW outcome \in Outcomes, PostOf(s, outcome)
  PROVE  /\ accepted' \in [Sends -> 0 .. 2] /\ unsure' \subseteq Sends
         /\ \A r \in Sends : r # s => accepted'[r] = accepted[r] /\ (r \in unsure' <=> r \in unsure)
         /\ s \in unsure => s \in unsure'
         /\ outcome = "failed" => accepted'[s] = accepted[s]
         /\ outcome = "lost" => s \in unsure' /\ accepted'[s] > 0
         /\ outcome = "accepted" => /\ accepted'[s] > 0 /\ (s \in unsure' <=> s \in unsure)
                                    /\ accepted[s] = 0 => accepted'[s] = 1
BY DEF PostOf, WebShape, Outcomes

\* The user confirms: the payment is posted, and either sent, refused or about
\* to be queued.
LEMMA ConfirmKeeps == ASSUME WebInv, NEW s \in Sends, Confirm(s) PROVE WebInv'
<1>1. PICK outcome \in Outcomes, next \in {"queueing", "closed"} :
        /\ outcome = "accepted" => next = "closed"
        /\ PostOf(s, outcome)
        /\ form' = [form EXCEPT ![s] = next]
  BY DEF Confirm
<1>2. form[s] = "review" /\ UNCHANGED <<stored, pass, clicks, clicked, queued>>
  BY DEF Confirm
<1>3. WebShape
  BY DEF WebInv
<1>4. /\ accepted' \in [Sends -> 0 .. 2] /\ unsure' \subseteq Sends
      /\ \A r \in Sends : r # s => accepted'[r] = accepted[r] /\ (r \in unsure' <=> r \in unsure)
      /\ outcome = "failed" => accepted'[s] = accepted[s]
      /\ outcome = "lost" => s \in unsure' /\ accepted'[s] > 0
      /\ outcome = "accepted" => /\ accepted'[s] > 0
                                 /\ accepted[s] = 0 => accepted'[s] = 1
  BY <1>1, <1>3, PostChanges
<1>5. form' \in [Sends -> {"review", "queueing", "closed"}] /\ form'[s] = next
      /\ \A r \in Sends : r # s => form'[r] = form[r]
  BY <1>1, <1>3 DEF WebShape
<1>6. WebShape'
  BY <1>2, <1>3, <1>4, <1>5 DEF WebShape
<1>7. ASSUME NEW f \in Passes PROVE InHand(f)' = InHand(f) /\ \A r : Removing(f, r)' <=> Removing(f, r)
  BY <1>2 DEF InHand, Removing
<1>8. ASSUME NEW r \in Sends, r # s PROVE PaymentInv(r)'
  BY <1>2, <1>4, <1>5, <1>7, <1>8 DEF WebInv, PaymentInv, Unqueued, RemovesAccepted, SureInHand, SentOnce
<1>9. PaymentInv(s)'
  <2>1. PaymentInv(s) /\ accepted[s] = 0 /\ s \notin DOMAIN stored /\ s \notin queued /\ clicked[s] = 0
        /\ \A f \in Passes : s \notin InHand(f)
    BY <1>2 DEF WebInv, PaymentInv, Unqueued
  <2>2. \A f \in Passes : ~Removing(f, s)
    BY <2>1 DEF Removing, InHand
  <2>3. Outcomes = {"accepted", "lost", "failed"}
    BY DEF Outcomes
  <2> QED BY <1>1, <1>2, <1>4, <1>5, <1>7, <2>1, <2>2, <2>3
          DEF PaymentInv, Unqueued, RemovesAccepted, SureInHand, SentOnce
<1> QED BY <1>6, <1>8, <1>9 DEF WebInv

\* queueTransaction stores a payment whose post has failed.
LEMMA QueueKeeps == ASSUME WebInv, NEW s \in Sends, QueueTransaction(s) PROVE WebInv'
<1> USE WebQueueAssumption
<1>1. /\ form[s] = "queueing" /\ form' = [form EXCEPT ![s] = "closed"]
      /\ UNCHANGED <<pass, clicks, clicked, accepted, unsure>>
      /\ \/ Put(s, "pending", 0) /\ queued' = queued \cup {s}
         \/ UNCHANGED <<stored, queued>>
  BY DEF QueueTransaction
<1>3. WebShape
  BY DEF WebInv
<1>5. form' \in [Sends -> {"review", "queueing", "closed"}] /\ form'[s] = "closed"
      /\ \A r \in Sends : r # s => form'[r] = form[r]
  BY <1>1, <1>3 DEF WebShape
<1>7. ASSUME NEW f \in Passes PROVE InHand(f)' = InHand(f) /\ \A r : Removing(f, r)' <=> Removing(f, r)
  BY <1>1 DEF InHand, Removing
<1>8. PaymentInv(s) /\ s \notin DOMAIN stored /\ s \notin queued /\ clicked[s] = 0
      /\ \A f \in Passes : s \notin InHand(f) /\ ~Removing(f, s)
  BY <1>1 DEF WebInv, PaymentInv, Unqueued, Removing, InHand
<1>9. CASE Put(s, "pending", 0) /\ queued' = queued \cup {s}
  <2>1. DOMAIN stored' = DOMAIN stored \cup {s} /\ \A r \in DOMAIN stored : r # s => stored'[r] = stored[r]
    BY <1>9, PutStores
  <2>2. WebShape'
    BY <1>1, <1>3, <1>5, <1>9, PutShape DEF WebShape
  <2>3. ASSUME NEW r \in Sends, r # s PROVE PaymentInv(r)'
    BY <1>1, <1>5, <1>7, <1>9, <2>1, <2>3 DEF WebInv, PaymentInv, Unqueued, RemovesAccepted, SureInHand, SentOnce
  <2>4. PaymentInv(s)'
    BY <1>1, <1>5, <1>7, <1>8, <1>9, <2>1 DEF PaymentInv, Unqueued, RemovesAccepted, SureInHand, SentOnce
  <2> QED BY <2>2, <2>3, <2>4 DEF WebInv
<1>10. CASE UNCHANGED <<stored, queued>>
  <2>2. WebShape'
    BY <1>1, <1>3, <1>5, <1>10 DEF WebShape
  <2>3. ASSUME NEW r \in Sends, r # s PROVE PaymentInv(r)'
    BY <1>1, <1>5, <1>7, <1>10, <2>3 DEF WebInv, PaymentInv, Unqueued, RemovesAccepted, SureInHand, SentOnce
  <2>4. PaymentInv(s)'
    BY <1>1, <1>5, <1>7, <1>8, <1>10 DEF PaymentInv, Unqueued, RemovesAccepted, SureInHand, SentOnce
  <2> QED BY <2>2, <2>3, <2>4 DEF WebInv
<1> QED BY <1>1, <1>9, <1>10

\* retryTransaction reads an entry to retry it.
LEMMA RetryReadKeeps == ASSUME WebInv, NEW s \in Sends, ReadForRetry(s) PROVE WebInv'
<1>1. /\ s \in DOMAIN stored /\ clicked' = [clicked EXCEPT ![s] = @ + 1]
      /\ UNCHANGED <<stored, form, pass, accepted, queued, unsure>>
  BY DEF ReadForRetry
<1>2. \A f \in Passes : InHand(f)' = InHand(f) /\ \A r : Removing(f, r)' <=> Removing(f, r)
  BY <1>1 DEF InHand, Removing
<1>3. WebShape'
  BY <1>1 DEF WebInv, WebShape
<1>4. \A r \in Sends : form[r] # "closed" => clicked'[r] = clicked[r]
  BY <1>1 DEF WebInv, WebShape, PaymentInv, Unqueued
<1>5. ASSUME NEW r \in Sends PROVE PaymentInv(r)'
  BY <1>1, <1>2, <1>4 DEF WebInv, PaymentInv, Unqueued, RemovesAccepted, SureInHand, SentOnce
<1> QED BY <1>3, <1>5 DEF WebInv

\* retryTransaction writes the entry it has read, pending again.
LEMMA RetryWriteKeeps == ASSUME WebInv, NEW s \in Sends, WriteForRetry(s) PROVE WebInv'
<1> USE WebQueueAssumption
<1>1. /\ clicked[s] > 0 /\ clicked' = [clicked EXCEPT ![s] = @ - 1]
      /\ Put(s, "pending", 0)
      /\ unsure' = IF s \in DOMAIN stored /\ stored[s].status = "failed" THEN unsure
                   ELSE unsure \cup {s}
      /\ UNCHANGED <<form, pass, clicks, accepted, queued>>
  BY DEF WriteForRetry
<1>2. \A f \in Passes : InHand(f)' = InHand(f) /\ \A r : Removing(f, r)' <=> Removing(f, r)
  BY <1>1 DEF InHand, Removing
<1>3. /\ DOMAIN stored' = DOMAIN stored \cup {s} /\ stored'[s].status = "pending"
      /\ \A r \in DOMAIN stored : r # s => stored'[r] = stored[r]
  <2>1. /\ DOMAIN stored' = DOMAIN stored \cup {s}
        /\ stored'[s] = [status |-> "pending", retries |-> 0]
        /\ \A r \in DOMAIN stored : r # s => stored'[r] = stored[r]
    BY <1>1, PutStores
  <2> QED BY <2>1
<1>4. WebShape'
  <2>1. clicked' \in [Sends -> Nat]
    BY <1>1 DEF WebInv, WebShape
  <2> QED BY <1>1, <2>1, PutShape DEF WebInv, WebShape
<1>5. form[s] = "closed" /\ \A r \in Sends : r # s => clicked'[r] = clicked[r]
  BY <1>1 DEF WebInv, WebShape, PaymentInv, Unqueued
<1>6. ASSUME NEW r \in Sends, r # s PROVE PaymentInv(r)'
  BY <1>1, <1>2, <1>3, <1>5, <1>6
     DEF WebInv, PaymentInv, Unqueued, RemovesAccepted, SureInHand, SentOnce
<1>7. PaymentInv(s)'
  BY <1>1, <1>2, <1>3, <1>5
     DEF WebInv, PaymentInv, Unqueued, RemovesAccepted, SureInHand, SentOnce
<1> QED BY <1>4, <1>6, <1>7 DEF WebInv

\* processQueue reads the pending entries; who has one of them in hand already
\* makes it unsure.
LEMMA StartKeeps == ASSUME WebInv, NEW f \in Passes, StartPass(f) PROVE WebInv'
<1> DEFINE p == [step |-> "post", todo |-> Pending, current |-> {}]
           Taken == {c.send : c \in Pending}
<1>1. /\ pass[f] = NoPass /\ pass' = [pass EXCEPT ![f] = p]
      /\ unsure' = unsure \cup {s \in Taken : \E g \in Passes : s \in InHand(g)}
      /\ UNCHANGED <<stored, form, clicks, clicked, accepted, queued>>
  BY DEF StartPass
<1>2. /\ Pending \subseteq Copies /\ Taken = {s \in DOMAIN stored : stored[s].status = "pending"}
      /\ \A c, d \in Pending : c.send = d.send => c = d
  <2> DEFINE Listed == {s \in DOMAIN stored : stored[s].status = "pending"}
  <2>1. Pending = {[send |-> s, retries |-> stored[s].retries] : s \in Listed}
    BY DEF Pending, Copy
  <2>2. Listed \subseteq Sends /\ \A s \in Listed : stored[s].retries \in 0 .. MaxRetries
    BY DEF WebInv, WebShape
  <2>3. ASSUME NEW c \in Pending PROVE c \in Copies /\ c.send \in Listed
                                       /\ c = [send |-> c.send, retries |-> stored[c.send].retries]
    <3> HIDE DEF Listed
    <3>1. PICK s \in Listed : c = [send |-> s, retries |-> stored[s].retries]
      BY <2>1
    <3> QED BY <2>2, <3>1 DEF Copies
  <2>4. ASSUME NEW s \in Listed PROVE \E c \in Pending : c.send = s
    <3> HIDE DEF Listed
    <3>1. [send |-> s, retries |-> stored[s].retries] \in Pending
      BY <2>1
    <3>2. [send |-> s, retries |-> stored[s].retries].send = s
      OBVIOUS
    <3> QED BY <3>1, <3>2
  <2>5. Taken = Listed
    <3> HIDE DEF Listed
    <3> QED BY <2>3, <2>4
  <2>6. \A c, d \in Pending : c.send = d.send => c = d
    BY <2>3, Zenon
  <2> QED BY <2>3, <2>5, <2>6
<1>3. WebShape'
  <2>1. p \in [step : {"idle", "post", "remove", "fail"}, todo : SUBSET Copies, current : SUBSET Copies]
    BY <1>2
  <2>2. PassShape(p)
    BY <1>2 DEF PassShape
  <2>3. unsure' \subseteq Sends
    BY <1>1, <1>2 DEF WebInv, WebShape
  <2> HIDE DEF p
  <2> QED BY <1>1, <2>1, <2>2, <2>3 DEF WebInv, WebShape
<1>4. /\ InHand(f) = {} /\ InHand(f)' = Taken
      /\ \A s : ~Removing(f, s) /\ ~Removing(f, s)'
      /\ \A g \in Passes : g # f => InHand(g)' = InHand(g) /\ \A s : Removing(g, s)' <=> Removing(g, s)
  <2>1. pass'[f] = p /\ \A g \in Passes : g # f => pass'[g] = pass[g]
    BY <1>1 DEF WebInv, WebShape
  <2> QED BY <1>1, <2>1 DEF InHand, Removing, NoPass
<1> HIDE DEF p, Taken
<1>5. ASSUME NEW s \in Sends PROVE PaymentInv(s)'
  <2>1. PaymentInv(s) 
    BY DEF WebInv
  <2>2. CASE s \notin Taken
    BY <1>1, <1>4, <2>1, <2>2 DEF PaymentInv, Unqueued, RemovesAccepted, SureInHand, SentOnce
  <2>3. CASE s \in Taken /\ s \in unsure'
    BY <1>1, <1>2, <1>4, <2>1, <2>3 DEF PaymentInv, Unqueued, RemovesAccepted, SureInHand, SentOnce
  <2>4. CASE s \in Taken /\ s \notin unsure'
    <3>1. s \notin unsure /\ \A g \in Passes : s \notin InHand(g) /\ ~Removing(g, s)
      BY <1>1, <2>4 DEF InHand, Removing
    <3>2. s \in DOMAIN stored /\ stored[s].status = "pending" /\ ~(accepted[s] > 0)
      BY <1>2, <2>1, <2>4, <3>1 DEF PaymentInv, SentOnce
    <3> QED BY <1>1, <1>2, <1>4, <2>1, <2>4, <3>1, <3>2 DEF PaymentInv, Unqueued, RemovesAccepted, SureInHand, SentOnce
  <2> QED BY <2>2, <2>3, <2>4
<1> QED BY <1>3, <1>5 DEF WebInv

\* processQueue posts one copy: the payment is accepted, refused, or its answer
\* is lost.
LEMMA PostKeeps ==
  ASSUME WebInv, NEW f \in Passes, NEW c \in pass[f].todo, PostQueued(f, c) PROVE WebInv'
<1>1. PICK outcome \in Outcomes :
        /\ PostOf(c.send, outcome)
        /\ pass' = [pass EXCEPT ![f] = [step |-> IF outcome = "accepted" THEN "remove" ELSE "fail",
                                        todo |-> @.todo \ {c}, current |-> {c}]]
  BY DEF PostQueued
<1>2. pass[f].step = "post" /\ UNCHANGED <<stored, form, clicks, clicked, queued>>
  BY DEF PostQueued
<1> DEFINE s == c.send
           p == [step |-> IF outcome = "accepted" THEN "remove" ELSE "fail",
                 todo |-> pass[f].todo \ {c}, current |-> {c}]
<1>3. /\ WebShape /\ PassShape(pass[f]) /\ c \in Copies /\ s \in Sends /\ pass[f].current = {}
      /\ pass[f].todo \subseteq Copies
  BY <1>2 DEF WebInv, WebShape, PassShape, Copies, NoPass
<1>4. /\ accepted' \in [Sends -> 0 .. 2] /\ unsure' \subseteq Sends
      /\ \A r \in Sends : r # s => accepted'[r] = accepted[r] /\ (r \in unsure' <=> r \in unsure)
      /\ s \in unsure => s \in unsure'
      /\ outcome = "failed" => accepted'[s] = accepted[s]
      /\ outcome = "lost" => s \in unsure' /\ accepted'[s] > 0
      /\ outcome = "accepted" => /\ accepted'[s] > 0 /\ (s \in unsure' <=> s \in unsure)
                                 /\ accepted[s] = 0 => accepted'[s] = 1
  BY <1>1, <1>3, PostChanges
<1>5. pass' = [pass EXCEPT ![f] = p] /\ pass'[f] = p
  BY <1>1 DEF WebInv, WebShape
<1>6. WebShape'
  <2>1. p \in [step : {"idle", "post", "remove", "fail"}, todo : SUBSET Copies, current : SUBSET Copies]
    BY <1>3
  <2>2. PassShape(p)
    BY <1>3 DEF PassShape
  <2> HIDE DEF p
  <2> QED BY <1>2, <1>3, <1>4, <1>5, <2>1, <2>2 DEF WebShape
<1>7. /\ s \in InHand(f) /\ InHand(f)' = InHand(f)
      /\ \A r : ~Removing(f, r)
      /\ \A r : Removing(f, r)' <=> outcome = "accepted" /\ r = s
      /\ \A g \in Passes : g # f => InHand(g)' = InHand(g) /\ \A r : Removing(g, r)' <=> Removing(g, r)
  BY <1>2, <1>3, <1>5 DEF InHand, Removing, WebShape
<1> HIDE DEF s, p
<1>8. ASSUME NEW r \in Sends, r # s PROVE PaymentInv(r)'
  BY <1>2, <1>4, <1>7, <1>8 DEF WebInv, PaymentInv, Unqueued, RemovesAccepted, SureInHand, SentOnce
<1>9. PaymentInv(s)'
  <2>1. PaymentInv(s) /\ s \in Sends /\ accepted \in [Sends -> 0 .. 2]
    BY <1>3 DEF WebInv, WebShape
  <2>2. form[s] = "closed"
    BY <1>7, <2>1 DEF PaymentInv, Unqueued
  <2>3. Unqueued(s)' /\ RemovesAccepted(s)'
    BY <1>1, <1>2, <1>4, <1>7, <2>1, <2>2 DEF PaymentInv, Unqueued, RemovesAccepted, Outcomes
  <2>4. CASE s \in unsure'
    BY <1>1, <1>2, <1>4, <1>7, <2>1, <2>2, <2>3, <2>4 DEF PaymentInv, SureInHand, SentOnce, Outcomes
  <2>5. CASE s \notin unsure'
    <3>1. accepted[s] = 0 /\ outcome # "lost" /\ s \in DOMAIN stored /\ stored[s].status = "pending"
      BY <1>4, <1>7, <2>1, <2>5 DEF PaymentInv, SureInHand
    <3>2. \A g \in Passes : s \in InHand(g) => g = f
      BY <1>4, <1>7, <2>1, <2>5 DEF PaymentInv, SureInHand
    <3> QED BY <1>1, <1>2, <1>4, <1>7, <2>1, <2>2, <2>3, <2>5, <3>1, <3>2 DEF PaymentInv, SureInHand, SentOnce, Outcomes
  <2> QED BY <2>3, <2>4, <2>5 DEF PaymentInv
<1> QED BY <1>6, <1>8, <1>9 DEF WebInv

\* The copy a pass has posted.
LEMMA CurrentCopy ==
  ASSUME WebInv, NEW f \in Passes, pass[f].step \in {"remove", "fail"}
  PROVE  \E c \in Copies : /\ pass[f].current = {c} /\ c.send \in Sends /\ c.send \in InHand(f)
                           /\ \A s : Removing(f, s) <=> pass[f].step = "remove" /\ s = c.send
BY DEF WebInv, WebShape, PassShape, NoPass, InHand, Removing, Copies

\* processQueue removes the entry that was accepted.
LEMMA RemoveKeeps == ASSUME WebInv, NEW f \in Passes, RemoveQueued(f) PROVE WebInv'
<1>1. /\ pass[f].step = "remove" /\ Finish(f)
      /\ stored' = [s \in DOMAIN stored \ {c.send : c \in pass[f].current} |-> stored[s]]
      /\ UNCHANGED <<form, clicks, clicked, accepted, queued, unsure>>
  BY DEF RemoveQueued
<1>2. PICK c \in Copies : /\ pass[f].current = {c} /\ c.send \in Sends /\ c.send \in InHand(f)
                          /\ \A s : Removing(f, s) <=> s = c.send
  BY <1>1, CurrentCopy
<1> DEFINE s == c.send
<1>3. /\ pass' \in [Passes -> [step : {"idle", "post", "remove", "fail"},
                               todo : SUBSET Copies, current : SUBSET Copies]]
      /\ \A g \in Passes : PassShape(pass'[g])
      /\ \A g \in Passes : InHand(g)' = IF g = f THEN InHand(g) \ {s} ELSE InHand(g)
      /\ \A g \in Passes : \A r : Removing(g, r)' <=> g # f /\ Removing(g, r)
  BY <1>1, <1>2, FinishDrops DEF WebInv
<1>4. DOMAIN stored' = DOMAIN stored \ {s} /\ \A r \in DOMAIN stored' : stored'[r] = stored[r]
  BY <1>1, <1>2
<1>5. WebShape'
  BY <1>1, <1>3, <1>4 DEF WebInv, WebShape
<1> HIDE DEF s
<1>6. ASSUME NEW r \in Sends, r # s PROVE PaymentInv(r)'
  BY <1>1, <1>2, <1>3, <1>4, <1>6 DEF s, WebInv, PaymentInv, Unqueued, RemovesAccepted, SureInHand, SentOnce
<1>7. PaymentInv(s)'
  <2>1. PaymentInv(s) /\ accepted[s] > 0 /\ form[s] = "closed"
    BY <1>2 DEF s, WebInv, WebShape, PaymentInv, RemovesAccepted, Unqueued
  <2> QED BY <1>1, <1>2, <1>3, <1>4, <2>1 DEF s, PaymentInv, Unqueued, RemovesAccepted, SureInHand, SentOnce
<1> QED BY <1>5, <1>6, <1>7 DEF WebInv

\* The removal fails: the accepted payment stays in the queue, and is unsure.
LEMMA RemoveFailsKeeps == ASSUME WebInv, NEW f \in Passes, RemoveFails(f) PROVE WebInv'
<1>1. /\ pass[f].step = "remove" /\ pass' = [pass EXCEPT ![f].step = "fail"]
      /\ unsure' = unsure \cup {c.send : c \in pass[f].current}
      /\ UNCHANGED <<stored, form, clicks, clicked, accepted, queued>>
  BY DEF RemoveFails
<1>2. PICK c \in Copies : /\ pass[f].current = {c} /\ c.send \in Sends /\ c.send \in InHand(f)
                          /\ \A s : Removing(f, s) <=> s = c.send
  BY <1>1, CurrentCopy
<1> DEFINE p == [step |-> "fail", todo |-> pass[f].todo, current |-> pass[f].current]
<1>3. pass' = [pass EXCEPT ![f] = p] /\ pass'[f] = p
  <2>1. [pass[f] EXCEPT !.step = "fail"] = p
    BY DEF WebInv, WebShape
  <2>2. pass' = [pass EXCEPT ![f] = [pass[f] EXCEPT !.step = "fail"]]
    BY <1>1
  <2> HIDE DEF p
  <2> QED BY <2>1, <2>2 DEF WebInv, WebShape
<1>4. WebShape'
  <2>1. p \in [step : {"idle", "post", "remove", "fail"}, todo : SUBSET Copies, current : SUBSET Copies]
    BY DEF WebInv, WebShape
  <2>2. PassShape(p)
    BY <1>1, <1>2 DEF WebInv, WebShape, PassShape, NoPass
  <2>3. unsure' \subseteq Sends
    BY <1>1, <1>2 DEF WebInv, WebShape
  <2> HIDE DEF p
  <2> QED BY <1>1, <1>3, <2>1, <2>2, <2>3 DEF WebInv, WebShape
<1>5. /\ \A g \in Passes : InHand(g)' = InHand(g)
      /\ \A g \in Passes : \A r : Removing(g, r)' <=> g # f /\ Removing(g, r)
  BY <1>3 DEF InHand, Removing, WebInv, WebShape
<1>6. ASSUME NEW r \in Sends PROVE PaymentInv(r)'
  BY <1>1, <1>2, <1>5 DEF WebInv, PaymentInv, Unqueued, RemovesAccepted, SureInHand, SentOnce
<1> QED BY <1>4, <1>6 DEF WebInv

\* processQueue writes back an entry that was not accepted, with one more retry.
LEMMA WriteBackKeeps == ASSUME WebInv, NEW f \in Passes, WriteBack(f) PROVE WebInv'
<1> USE WebQueueAssumption
<1>1. pass[f].step = "fail" /\ Finish(f) /\ UNCHANGED <<form, clicks, clicked, accepted, queued, unsure>>
  BY DEF WriteBack
<1>2. PICK c \in Copies : /\ pass[f].current = {c} /\ c.send \in Sends /\ c.send \in InHand(f)
                          /\ \A s : ~Removing(f, s)
  BY <1>1, CurrentCopy
<1> DEFINE s == c.send
<1>3. /\ pass' \in [Passes -> [step : {"idle", "post", "remove", "fail"},
                               todo : SUBSET Copies, current : SUBSET Copies]]
      /\ \A g \in Passes : PassShape(pass'[g])
      /\ \A g \in Passes : InHand(g)' = IF g = f THEN InHand(g) \ {s} ELSE InHand(g)
      /\ \A g \in Passes : \A r : Removing(g, r)' <=> g # f /\ Removing(g, r)
  BY <1>1, <1>2, FinishDrops DEF WebInv
<1>4. PICK status \in {"pending", "failed"}, n \in 0 .. MaxRetries : Put(s, status, n)
  <2>1. IF c.retries >= MaxRetries THEN Put(s, "failed", c.retries) ELSE Put(s, "pending", c.retries + 1)
    BY <1>2 DEF WriteBack
  <2>2. c.retries \in 0 .. MaxRetries
    BY DEF Copies
  <2> QED BY <2>1, <2>2
<1>5. DOMAIN stored' = DOMAIN stored \cup {s} /\ \A r \in DOMAIN stored : r # s => stored'[r] = stored[r]
  BY <1>2, <1>4, PutStores
<1>6. WebShape'
  BY <1>1, <1>2, <1>3, <1>4, PutShape DEF WebInv, WebShape
<1> HIDE DEF s
<1>7. ASSUME NEW r \in Sends, r # s PROVE PaymentInv(r)'
  BY <1>1, <1>2, <1>3, <1>5, <1>7 DEF WebInv, PaymentInv, Unqueued, RemovesAccepted, SureInHand, SentOnce
<1>8. PaymentInv(s)'
  <2>1. /\ PaymentInv(s) /\ form[s] = "closed"
        /\ s \notin unsure => ~(accepted[s] > 0) /\ \A g \in Passes : s \in InHand(g) => g = f
    BY <1>2 DEF s, WebInv, WebShape, PaymentInv, Unqueued, SureInHand
  <2> QED BY <1>1, <1>2, <1>3, <1>5, <2>1 DEF s, PaymentInv, Unqueued, RemovesAccepted, SureInHand, SentOnce
<1> QED BY <1>6, <1>7, <1>8 DEF WebInv

\* The writing back fails: the entry stays as it was stored.
LEMMA BreakKeeps == ASSUME WebInv, NEW f \in Passes, WriteBackFails(f) PROVE WebInv'
<1>1. /\ pass[f].step = "fail" /\ pass' = [pass EXCEPT ![f] = NoPass]
      /\ UNCHANGED <<stored, form, clicks, clicked, accepted, queued, unsure>>
  BY DEF WriteBackFails
<1>2. PassShape(NoPass) /\ NoPass \in [step : {"idle", "post", "remove", "fail"}, todo : SUBSET Copies, current : SUBSET Copies]
  BY DEF NoPass, PassShape
<1>3. WebShape'
  BY <1>1, <1>2 DEF WebInv, WebShape
<1>4. /\ \A g \in Passes : InHand(g)' = IF g = f THEN {} ELSE InHand(g)
      /\ \A g \in Passes : \A r : Removing(g, r)' <=> Removing(g, r)
  BY <1>1 DEF InHand, Removing, NoPass, WebInv, WebShape
<1>5. ASSUME NEW r \in Sends PROVE PaymentInv(r)'
  BY <1>1, <1>4 DEF WebInv, PaymentInv, Unqueued, RemovesAccepted, SureInHand, SentOnce
<1> QED BY <1>3, <1>5 DEF WebInv

\* The page is reloaded: the passes are gone, and what they had in hand is
\* unsure.
LEMMA ReloadKeeps == ASSUME WebInv, Reload PROVE WebInv'
<1>1. /\ pass' = [f \in Passes |-> NoPass]
      /\ form' = [s \in Sends |-> IF form[s] = "queueing" THEN "closed" ELSE form[s]]
      /\ clicked' = [s \in Sends |-> 0]
      /\ unsure' = unsure \cup UNION {InHand(f) : f \in {g \in Passes : pass[g].step = "remove"}}
      /\ UNCHANGED <<stored, clicks, accepted, queued>>
  BY DEF Reload
<1>2. PassShape(NoPass) /\ NoPass \in [step : {"idle", "post", "remove", "fail"}, todo : SUBSET Copies, current : SUBSET Copies]
  BY DEF NoPass, PassShape
<1>3. \A f \in Passes : InHand(f)' = {} /\ \A r : ~Removing(f, r)'
  BY <1>1 DEF InHand, Removing, NoPass
<1>4. /\ \A f \in Passes : InHand(f) \subseteq Sends
      /\ \A f \in Passes : \A r : Removing(f, r) => r \in unsure'
  BY <1>1 DEF WebInv, WebShape, InHand, Removing, Copies
<1>5. WebShape'
  <2>1. unsure' \subseteq Sends
    BY <1>1, <1>4 DEF WebInv, WebShape
  <2> QED BY <1>1, <1>2, <2>1 DEF WebInv, WebShape
<1>6. ASSUME NEW r \in Sends PROVE PaymentInv(r)'
  BY <1>1, <1>3, <1>4 DEF WebInv, WebShape, PaymentInv, Unqueued, RemovesAccepted, SureInHand, SentOnce
<1> QED BY <1>5, <1>6 DEF WebInv

\* Every step of the queue keeps its invariant.
LEMMA WebStep == WebInv /\ [WebQueueNext]_webQueueVars => WebInv'
<1> SUFFICES ASSUME WebInv, [WebQueueNext]_webQueueVars PROVE WebInv'
  OBVIOUS
<1>1. CASE UNCHANGED webQueueVars
  BY <1>1 DEF webQueueVars, WebInv, WebShape, PaymentInv, Unqueued, RemovesAccepted, SureInHand, SentOnce, Removing, InHand
<1>2. CASE WebQueueNext
  BY <1>2, ReloadKeeps, ConfirmKeeps, QueueKeeps, RetryReadKeeps, RetryWriteKeeps, StartKeeps, PostKeeps, RemoveKeeps, RemoveFailsKeeps, WriteBackKeeps, BreakKeeps DEF WebQueueNext
<1> QED BY <1>1, <1>2

\* Every variable of the payment queue has its type; a pass has one copy in hand
\* at most.
THEOREM QueueTyped == WebQueueSpec => []WebQueueTypeOK
<1>1. WebInv => WebQueueTypeOK
  <2> SUFFICES ASSUME WebInv PROVE WebQueueTypeOK
    OBVIOUS
  <2>1. ASSUME NEW f \in Passes PROVE Cardinality(pass[f].current) <= 1
    <3>1. PassShape(pass[f])
      BY DEF WebInv, WebShape
    <3>2. CASE pass[f].current = {}
      BY <3>2, FS_EmptySet
    <3>3. CASE \E c \in Copies : pass[f].current = {c}
      <4>1. PICK c \in Copies : pass[f].current = {c}
        BY <3>3
      <4>2. Cardinality({c}) = 1
        BY FS_Singleton
      <4> QED BY <4>1, <4>2
    <3> QED BY <3>1, <3>2, <3>3 DEF PassShape, NoPass
  <2> QED BY <2>1 DEF WebInv, WebShape, WebQueueTypeOK
<1> QED BY <1>1, WebInvInit, WebStep, PTL DEF WebQueueSpec

\* A queued payment is not lost before it has been accepted, and is accepted
\* once, unless an answer was lost or two passes overlapped, which the history
\* names (queueTransaction, processQueue, retryTransaction).
THEOREM QueuedIsSentOnce == WebQueueSpec => []QueuedSentOnce
<1>1. WebInv => QueuedSentOnce
  BY DEF WebInv, PaymentInv, SentOnce, Removing, QueuedSentOnce
<1> QED BY <1>1, WebInvInit, WebStep, PTL DEF WebQueueSpec

-----------------------------------------------------------------------------
\* Address libraries

\* What the policy makes of a memo alone.
MemoPolicy(i) ==
  LET s == i.memoValue
  IN  IF Is(i, {"id", "text"}) /\ Numeric(s) THEN Number(s.number)
      ELSE IF Is(i, {"text"}) /\ s.length \in 1 .. MaxText THEN Text(s)
      ELSE IF Is(i, {"hash", "return"}) /\ s.hex64 THEN Hash(s)
      ELSE NoId

\* An address that passes its checksum, its length and its spare bits.
Sound(d) == d.checked /\ d.whole /\ d.exact

\* The kinds of id are told apart by their form.
LEMMA FormsDiffer ==
  ASSUME NEW x
  PROVE  /\ Number(x).form = "number" /\ Text(x).form = "text" /\ Hash(x).form = "hash"
         /\ NoId.form = "none"
         /\ Number(x) # NoId /\ Text(x) # NoId /\ Hash(x) # NoId
<1>1. /\ Number(x).form = "number" /\ Text(x).form = "text" /\ Hash(x).form = "hash"
      /\ NoId.form = "none"
  BY DEF Number, Text, Hash, NoId
<1> QED BY <1>1

\* The parts of an input, and what a memo of each kind can be.
LEMMA InputParts ==
  ASSUME NEW i \in RoutingInput
  PROVE  /\ i.memoType \in MemoTypes
         /\ i.memoValue.length \in Nat /\ i.memoValue.number \in Nat
         /\ i.memoValue.digits \in BOOLEAN /\ i.memoValue.hex64 \in BOOLEAN
         /\ i.memoValue.length = 0 => ~i.memoValue.digits
         /\ i.memoValue.hex64 => i.memoValue.length > MaxText
         /\ i.destination \in Address
         /\ i.sourceAccount \in {{}} \cup {{a} : a \in Address}
BY RoutingAssumption DEF RoutingInput, MemoValue

\* A G address: core-ts and core-go follow the policy, core-dart does for numbers.
LEMMA MemoIds ==
  ASSUME NEW i \in RoutingInput
  PROVE  /\ TSMemoId(i) = MemoPolicy(i)
         /\ GoMemoId(i) = MemoPolicy(i)
         /\ DartMemoId(i) = MemoPolicy(i) \/ MemoPolicy(i).form \in {"text", "hash"}
<1> DEFINE s == i.memoValue
<1>1. /\ i.memoType \in MemoTypes
      /\ s.length \in Nat /\ s.digits \in BOOLEAN /\ s.hex64 \in BOOLEAN
      /\ s.length = 0 => ~s.digits
      /\ s.hex64 => s.length > MaxText
  BY InputParts
<1>2. MaxText \in Nat
  BY RoutingAssumption
<1>3. TSMemoId(i) = GoMemoId(i)
  BY DEF TSMemoId, GoMemoId, TSNumeric, GoNumeric
<1> USE DEF TSMemoId, MemoPolicy, DartMemoId, Is, TSNumeric, DartNumeric
<1>4. CASE i.memoType \in {"none", "unknown"}
  BY <1>3, <1>4
<1>5. CASE i.memoType = "id"
  BY <1>3, <1>5 
<1>6. CASE i.memoType = "text"
  <2>1. CASE Numeric(s)
    <3>1. s.length > 0
      BY <1>1, <2>1 DEF Numeric
    <3> QED BY <1>3, <1>6, <2>1, <3>1
  <2>2. CASE ~Numeric(s)
    <3>1. s.length \in 1 .. MaxText => MemoPolicy(i).form = "text"
      BY <1>6, <2>2, FormsDiffer
    <3>2. s.length > 0 /\ s.length <= MaxText <=> s.length \in 1 .. MaxText
      BY <1>1, <1>2
    <3> QED BY <1>3, <1>6, <2>2, <3>1, <3>2
  <2> QED BY <2>1, <2>2
<1>7. CASE i.memoType \in {"hash", "return"}
  <2>1. s.hex64 => s.length > 0
    BY <1>1, <1>2
  <2>2. s.hex64 => MemoPolicy(i).form = "hash"
    BY <1>7, FormsDiffer
  <2> QED BY <1>3, <1>7, <2>1, <2>2
<1> QED BY <1>1, <1>4, <1>5, <1>6, <1>7 DEF MemoTypes

\* The policy: a sound G address with what the memo says, a sound M address with
\* the id it carries, and nowhere for the others.
LEMMA PolicyParts ==
  ASSUME NEW i \in RoutingInput
  PROVE  LET d == i.destination
         IN  /\ d.prefix = "G" /\ Sound(d) => 
                  Policy(i) = FromMemo({d.account}, MemoPolicy(i)) /\ Policy(i).id = MemoPolicy(i)
             /\ d.prefix = "M" /\ Sound(d) => Policy(i) = Result({d.account}, Number(d.id), "muxed")
             /\ ~(d.prefix \in {"G", "M"} /\ Sound(d)) => Policy(i) = Nowhere
<1> DEFINE d == i.destination
<1>1. ASSUME d.prefix = "G", Sound(d) 
      PROVE  Policy(i) = FromMemo({d.account}, MemoPolicy(i)) /\ Policy(i).id = MemoPolicy(i)
  BY <1>1 DEF Sound, Policy, MemoPolicy, FromMemo, Result
<1>2. ASSUME d.prefix = "M", Sound(d) 
      PROVE  Policy(i) = Result({d.account}, Number(d.id), "muxed")
  BY <1>2, FormsDiffer DEF Sound, Policy
<1>3. ASSUME ~(d.prefix \in {"G", "M"} /\ Sound(d)) PROVE Policy(i) = Nowhere
  BY <1>3 DEF Sound, Policy
<1> QED BY <1>1, <1>2, <1>3

\* The parts of an address; what is no address has no checksum.
LEMMA AddressParts ==
  ASSUME NEW d \in Address
  PROVE  /\ d.prefix \in {"G", "M", "C", "other"}
         /\ d.checked \in BOOLEAN /\ d.whole \in BOOLEAN /\ d.exact \in BOOLEAN
         /\ d.prefix = "other" => ~d.checked
BY DEF Address

\* core-ts follows the policy on every input.
LEMMA TSFollows == ASSUME NEW i \in RoutingInput PROVE TSExtract(i) = Policy(i)
<1> DEFINE d == i.destination
<1>1. d.prefix \in {"G", "M", "C", "other"}
  BY InputParts, AddressParts
<1> USE InputParts, MemoIds, PolicyParts DEF TSExtract, TSParse, TSRoutable
<1>2. CASE d.prefix = "G" /\ Sound(d)
  BY <1>2 DEF Sound
<1>3. CASE d.prefix = "M" /\ Sound(d)
  BY <1>3 DEF Sound
<1>4. CASE ~(d.prefix \in {"G", "M"} /\ Sound(d))
  BY <1>4 DEF Sound
<1> QED BY <1>2, <1>3, <1>4

\* core-go parts from the policy only when it was asked about a contract or was
\* given no length.
LEMMA GoFollows ==
  ASSUME NEW i \in RoutingInput, GoExtract(i) # Policy(i)
  PROVE  FromContract(i) \/ NoLengthAsked(i)
<1> DEFINE d == i.destination
<1> SUFFICES ASSUME ~FromContract(i), ~NoLengthAsked(i) PROVE GoExtract(i) = Policy(i)
  OBVIOUS
<1>1. /\ d.prefix \in {"G", "M", "C", "other"}
      /\ d.prefix = "other" => ~d.checked
      /\ d.prefix = "G" => d.whole
  BY InputParts, AddressParts DEF NoLengthAsked
<1>2. \A a \in i.sourceAccount : GoParse(a) # "C"
  BY DEF FromContract, GoParse, GoDetect
<1> USE MemoIds, PolicyParts, <1>2 DEF GoExtract, GoParse, GoDetect
<1>3. CASE d.prefix = "G" /\ Sound(d)
  BY <1>3 DEF Sound
<1>4. CASE d.prefix = "M" /\ Sound(d)
  BY <1>4 DEF Sound
<1>5. CASE ~(d.prefix \in {"G", "M"} /\ Sound(d))
  BY <1>1, <1>5 DEF Sound
<1> QED BY <1>3, <1>4, <1>5

\* core-dart parts from the policy only in the cases the module names.
LEMMA DartFollows ==
  ASSUME NEW i \in RoutingInput, DartExtract(i) # Policy(i)
  PROVE  FromContract(i) \/ SpareBits(i) \/ MuxedWithMemo(i) \/ WordAsId(i)
<1> DEFINE d == i.destination
<1> SUFFICES ASSUME ~FromContract(i), ~SpareBits(i), ~MuxedWithMemo(i), ~WordAsId(i)
             PROVE  DartExtract(i) = Policy(i)
  OBVIOUS
<1>1. /\ d.prefix \in {"G", "M", "C", "other"}
      /\ d.prefix = "other" => ~d.checked
      /\ d.exact
      /\ d.prefix = "M" => Is(i, {"none"})
  BY InputParts, AddressParts DEF SpareBits, MuxedWithMemo
<1>2. \A a \in i.sourceAccount : DartDetect(a) # "C"
  BY DEF FromContract, DartDetect
<1> USE MemoIds, PolicyParts, <1>2 DEF DartExtract, DartDetect, WordAsId
<1>3. CASE d.prefix = "G" /\ Sound(d)
  BY <1>3 DEF Sound
<1>4. CASE d.prefix = "M" /\ Sound(d)
  BY <1>1, <1>4 DEF Sound
<1>5. CASE ~(d.prefix \in {"G", "M"} /\ Sound(d))
  BY <1>1, <1>5 DEF Sound
<1> QED BY <1>3, <1>4, <1>5

\* The state of the address libraries is typed: one extraction by each of them.
THEOREM RoutingTyped == RoutingSpec => []RoutingTypeOK
<1>1. RoutingInit => RoutingTypeOK
  BY DEF RoutingInit, RoutingTypeOK
<1>2. RoutingTypeOK /\ [RoutingNext]_routingVars => RoutingTypeOK'
  BY DEF RoutingTypeOK, RoutingNext, Extract, routingVars
<1>3. QED
  BY <1>1, <1>2, PTL DEF RoutingSpec

\* core-ts, core-go and core-dart send a payment to the same account with the same
\* deposit id as the routing policy does, outside the named cases in which they are
\* known to part, for every length of address, memo and number.
THEOREM LibrariesAlwaysAgree == RoutingSpec => []LibrariesAgree
<1>1. RoutingTypeOK => LibrariesAgree
  BY TSFollows, GoFollows, DartFollows DEF RoutingTypeOK, LibrariesAgree
<1>2. QED
  BY RoutingTyped, <1>1, PTL

-----------------------------------------------------------------------------
\* The platform

\* What each service sees of a step of the platform: a step of its own, or none.
ServiceSteps ==
  /\ [SessionsNext]_sessionsVars
  /\ [AccountsNext]_accountsVars
  /\ [ApiKeysNext]_apiKeysVars
  /\ [Sep24Next]_sep24Vars
  /\ [CampaignsNext]_campaignsVars
  /\ [NotificationsNext]_notificationsVars
  /\ [CachesNext]_cachesVars
  /\ [ThrottleNext]_throttleVars
  /\ [WebQueueNext]_webQueueVars
  /\ [RoutingNext]_routingVars

\* A step of one service leaves the state of the others alone.
LEMMA EachSeesItsOwn == [ServicesNext]_servicesVars => ServiceSteps
<1> SUFFICES ASSUME [ServicesNext]_servicesVars PROVE ServiceSteps
  OBVIOUS
<1>1. CASE /\ Only("sessions", <<accountsVars, apiKeysVars, sep24Vars, campaignsVars, notificationsVars, cachesVars, throttleVars, webQueueVars, routingVars>>)
           /\ SessionsNext
  BY <1>1 DEF Only, ServiceSteps
<1>2. CASE /\ Only("accounts", <<sessionsVars, apiKeysVars, sep24Vars, campaignsVars, notificationsVars, cachesVars, throttleVars, webQueueVars, routingVars>>)
           /\ AccountsNext
  BY <1>2 DEF Only, ServiceSteps
<1>3. CASE /\ Only("api-keys", <<sessionsVars, accountsVars, sep24Vars, campaignsVars, notificationsVars, cachesVars, throttleVars, webQueueVars, routingVars>>)
           /\ ApiKeysNext
  BY <1>3 DEF Only, ServiceSteps
<1>4. CASE /\ Only("sep24", <<sessionsVars, accountsVars, apiKeysVars, campaignsVars, notificationsVars, cachesVars, throttleVars, webQueueVars, routingVars>>)
           /\ Sep24Next
  BY <1>4 DEF Only, ServiceSteps
<1>5. CASE /\ Only("campaigns", <<sessionsVars, accountsVars, apiKeysVars, sep24Vars, notificationsVars, cachesVars, throttleVars, webQueueVars, routingVars>>)
           /\ CampaignsNext
  BY <1>5 DEF Only, ServiceSteps
<1>6. CASE /\ Only("notifications", <<sessionsVars, accountsVars, apiKeysVars, sep24Vars, campaignsVars, cachesVars, throttleVars, webQueueVars, routingVars>>)
           /\ NotificationsNext
  BY <1>6 DEF Only, ServiceSteps
<1>7. CASE /\ Only("caches", <<sessionsVars, accountsVars, apiKeysVars, sep24Vars, campaignsVars, notificationsVars, throttleVars, webQueueVars, routingVars>>)
           /\ CachesNext
  BY <1>7 DEF Only, ServiceSteps
<1>8. CASE /\ Only("throttle", <<sessionsVars, accountsVars, apiKeysVars, sep24Vars, campaignsVars, notificationsVars, cachesVars, webQueueVars, routingVars>>)
           /\ ThrottleNext
  BY <1>8 DEF Only, ServiceSteps
<1>9. CASE /\ Only("web-queue", <<sessionsVars, accountsVars, apiKeysVars, sep24Vars, campaignsVars, notificationsVars, cachesVars, throttleVars, routingVars>>)
           /\ WebQueueNext
  BY <1>9 DEF Only, ServiceSteps
<1>10. CASE /\ Only("routing", <<sessionsVars, accountsVars, apiKeysVars, sep24Vars, campaignsVars, notificationsVars, cachesVars, throttleVars, webQueueVars>>)
           /\ RoutingNext
  BY <1>10 DEF Only, ServiceSteps
<1>11. CASE UNCHANGED servicesVars
  BY <1>11 DEF servicesVars, ServiceSteps
<1> QED BY <1>1, <1>2, <1>3, <1>4, <1>5, <1>6, <1>7, <1>8, <1>9, <1>10, <1>11 DEF ServicesNext

\* A behaviour of the platform is a behaviour of each of its services, so that what
\* is proved of a service alone holds where they run side by side.
THEOREM ServicesRunSideBySide ==
  ServicesSpec =>
    /\ SessionsSpec
    /\ AccountsSpec
    /\ ApiKeysSpec
    /\ Sep24Spec
    /\ CampaignsSpec
    /\ NotificationsSpec
    /\ CachesSpec
    /\ ThrottleSpec
    /\ WebQueueSpec
    /\ RoutingSpec
<1>1. ServicesInit =>
        /\ SessionsInit
        /\ AccountsInit
        /\ ApiKeysInit
        /\ Sep24Init
        /\ CampaignsInit
        /\ NotificationsInit
        /\ CachesInit
        /\ ThrottleInit
        /\ WebQueueInit
        /\ RoutingInit
  BY DEF ServicesInit
<1>2. [ServicesNext]_servicesVars =>
        /\ [SessionsNext]_sessionsVars
        /\ [AccountsNext]_accountsVars
        /\ [ApiKeysNext]_apiKeysVars
        /\ [Sep24Next]_sep24Vars
        /\ [CampaignsNext]_campaignsVars
        /\ [NotificationsNext]_notificationsVars
        /\ [CachesNext]_cachesVars
        /\ [ThrottleNext]_throttleVars
        /\ [WebQueueNext]_webQueueVars
        /\ [RoutingNext]_routingVars
  BY EachSeesItsOwn DEF ServiceSteps
<1> QED
  BY <1>1, <1>2, PTL DEF ServicesSpec, SessionsSpec, AccountsSpec, ApiKeysSpec, Sep24Spec, CampaignsSpec, NotificationsSpec, CachesSpec, ThrottleSpec, WebQueueSpec, RoutingSpec

\* Every service keeps its types.
THEOREM ServicesTyped == ServicesSpec => []ServicesTypeOK
<1>1. Sep24Inv => Sep24TypeOK
  BY DEF Sep24Inv
<1>2. CountInv => CampaignsTypeOK
  BY DEF CountInv
<1>3. DedupInv /\ CollapsedOnto => NotificationsTypeOK
  BY DEF DedupInv, DedupShape
<1>4. CachesSpec => []CachesTypeOK
  <2>1. CachesInv => CachesTypeOK
    BY DEF CachesInv
  <2> QED BY <2>1, CachesStart, CachesStep, PTL DEF CachesSpec
<1>5. ThrottleSpec => []ThrottleTypeOK
  <2>1. ThrottleInv => ThrottleTypeOK
    BY DEF ThrottleInv
  <2> QED BY <2>1, ThrottleStart, ThrottleStep, PTL DEF ThrottleSpec
<1>6. /\ SessionsTypeOK /\ AccountsTypeOK /\ ApiKeysTypeOK /\ Sep24TypeOK /\ CampaignsTypeOK
      /\ NotificationsTypeOK /\ CachesTypeOK /\ ThrottleTypeOK /\ WebQueueTypeOK /\ RoutingTypeOK
      => ServicesTypeOK
  BY DEF ServicesTypeOK
<1> QED
  BY <1>1, <1>2, <1>3, <1>4, <1>5, <1>6, ServicesRunSideBySide, SessionsTyped, AccountsTyped,
     KeysAreTyped, Sep24Invariant, CountInvariant, DedupInvariant, QueueTyped, RoutingTyped,
     PTL

\* Where the services run side by side, each keeps its promise: what the run of the
\* composed module checks on a small instance, for every value of the constants.
THEOREM ServicesKeepTheirPromises ==
  ServicesSpec =>
    /\ []LogoutHolds /\ []IndexCoversSessions /\ []OneLoginPerChallenge
    /\ []LockoutCounts /\ []PasswordNotReused
    /\ []RotationKeepsAKey
    /\ []StatusFollowsAnchor
    /\ []PaymentsCounted /\ []CampaignCompletes
    /\ []OneNotificationPerWindow
    /\ []CachesAreRecent
    /\ []ThrottleHolds
    /\ []QueuedSentOnce
    /\ []LibrariesAgree
BY ServicesRunSideBySide, RevokedStaysRevoked, IndexIsComplete, ChallengeUsedOnce, LockoutCounted,
   NoPasswordReused, RotationLeavesAKey, RecordFollowsAnchor, CursorCountsAll, CompletedWhenDone,
   NotifiedOncePerWindow, NothingOldIsServed, LimitIsKept, QueuedIsSentOnce, LibrariesAlwaysAgree, PTL

=============================================================================

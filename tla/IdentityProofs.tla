--------------------------- MODULE IdentityProofs ---------------------------
(***************************************************************************)
(* For every number of calls, sessions, keys, attempts and moments: what   *)
(* login and sessions (SessionsService, AuthService), password accounts    *)
(* (UsersService) and API keys (ApiKeysService) promise, although every    *)
(* request reads Redis or a row in one step and writes it in another.      *)
(*                                                                         *)
(* Each part states what the requests under way have read and may still    *)
(* write, and shows that every step keeps it. The history variables of the *)
(* modules (lossy, contested, mixed, crossed, dropped) say when requests   *)
(* have overlapped in a way the code does not guard against; what is       *)
(* promised only of other behaviours is in an implication from them.       *)
(***************************************************************************)
EXTENDS Sessions, Accounts, ApiKeys, FiniteSetTheorems, WellFoundedInduction, TLAPS

-----------------------------------------------------------------------------
\* Login and sessions

\* The points at which a thread of a request can be, whatever it does; those of
\* a login, of a refresh, of a guarded request and of the touch that the guard
\* starts.
Steps == {"idle", "consume", "create", "addRead", "addWrite", "issue", "mint", "minted", "rotate",
          "reuse", "blacklist", "lookup", "list", "delete", "dropRead", "dropWrite", "unrefresh",
          "deleteAll", "deleteIndex", "touch", "write", "done"}

LoginSteps   == {"consume", "create", "addRead", "addWrite", "issue", "mint", "minted", "done"}
RefreshSteps == {"rotate", "reuse", "mint", "minted", "done"}
GuardedSteps == {"blacklist", "lookup", "list", "delete", "dropRead", "dropWrite", "unrefresh",
                 "deleteAll", "deleteIndex", "done"}
TouchSteps   == {"idle", "touch", "write", "delete", "dropRead", "dropWrite", "done"}

\* The requests that pass SessionGuard, or are refused by it.
Guarded == {"logout", "revoke", "revokeAll", "plain", "refused"}

\* A session record, as createSession writes it and touch rewrites it.
SessionRecord == [expiresAt : Nat, lastSeenAt : 0 .. MaxTime]

\* The values of what Redis holds, of the threads and of the history.
CacheTyped ==
  /\ challenge \in 0 .. issued /\ issued \in 0 .. MaxNonces /\ clock \in 0 .. MaxTime
  /\ DOMAIN session \subseteq Calls
  /\ \A s \in DOMAIN session : session[s] \in SessionRecord
  /\ index \subseteq Calls /\ blacklist \subseteq Calls
  /\ refresh \subseteq [token : Calls, family : Calls]
  /\ \A q, r \in refresh : q = r

ThreadsTyped ==
  /\ kind \in [Calls -> {"none", "login", "refresh"} \cup Guarded]
  /\ pc \in [Threads -> Steps] /\ on \in [Threads -> Calls]
  /\ copy \in [Threads -> SessionRecord] /\ listed \in [Threads -> SUBSET Calls]
  /\ nonce \in [Calls -> 0 .. MaxNonces]

HistoryTyped ==
  /\ ended \subseteq Calls /\ revivable \subseteq Calls
  /\ lossy \in BOOLEAN /\ contested \subseteq 0 .. MaxNonces /\ out \in BOOLEAN

\* Where the threads of a call can be.
CallShape(c) ==
  /\ kind[c] = "none" => /\ pc[Handler(c)] = "idle" /\ pc[Touch(c)] = "idle"
                         /\ on[Handler(c)] = c
  /\ kind[c] = "login" => /\ pc[Handler(c)] \in LoginSteps /\ pc[Touch(c)] = "idle"
                          /\ on[Handler(c)] = c /\ nonce[c] \in 1 .. issued
  /\ kind[c] = "refresh" => pc[Handler(c)] \in RefreshSteps /\ pc[Touch(c)] = "idle"
  /\ kind[c] \in Guarded => pc[Handler(c)] \in GuardedSteps /\ pc[Touch(c)] \in TouchSteps

StateTyped == CacheTyped /\ ThreadsTyped /\ HistoryTyped

\* The values of all variables, and where the threads of each call are.
SessionsShape == StateTyped /\ \A c \in Calls : CallShape(c)

\* A step of a thread that has been started.
Moves ==
  {<<"consume", "create">>, <<"create", "addRead">>, <<"addRead", "addWrite">>,
   <<"addWrite", "issue">>, <<"issue", "mint">>, <<"mint", "minted">>,
   <<"rotate", "mint">>, <<"reuse", "done">>,
   <<"touch", "write">>, <<"touch", "delete">>, <<"touch", "done">>, <<"write", "done">>,
   <<"lookup", "delete">>, <<"lookup", "done">>, <<"blacklist", "delete">>,
   <<"delete", "dropRead">>, <<"dropRead", "dropWrite">>,
   <<"dropWrite", "unrefresh">>, <<"dropWrite", "done">>, <<"unrefresh", "done">>,
   <<"list", "deleteAll">>, <<"deleteAll", "deleteIndex">>, <<"deleteIndex", "done">>}

\* A thread goes to its next point, and starts and renames nothing.
Moved(t, step) ==
  /\ Go(t, step) /\ <<pc[t], step>> \in Moves
  /\ step = "unrefresh" => t = Handler(t[1])
  /\ UNCHANGED <<kind, on, nonce, issued>>

\* The logins that have written their session.
Made == {c \in Calls : kind[c] = "login"
                       /\ pc[Handler(c)] \in {"addRead", "addWrite", "issue", "mint", "minted"}}

\* The points at which a thread is about to use the session it is on.
Handling == {"touch", "write", "blacklist", "delete", "dropRead", "dropWrite", "addRead", "addWrite"}

\* Only sessions that a login has written are stored, indexed, listed or used.
Origins ==
  /\ DOMAIN session \cup index \cup ended \subseteq Made
  /\ \A t \in Threads : listed[t] \subseteq Made
  /\ \A t \in Threads : pc[t] \in Handling => on[t] \in Made

\* A session that has been ended is gone unless a touch has read it before;
\* while a login has neither ended nor been revived, it is stored; after "sign
\* out everywhere" there is no refresh record; who still has index entries to
\* remove has deleted the sessions first.
Revoked ==
  /\ ended \cap DOMAIN session \subseteq revivable
  /\ Held \subseteq DOMAIN session \cup revivable
  /\ out => refresh = {}
  /\ \A t \in Threads : pc[t] \in {"dropRead", "dropWrite"} => on[t] \in ended
  /\ \A c \in Calls : pc[Handler(c)] = "deleteIndex" => listed[Handler(c)] \subseteq ended

\* Until two threads overlap on the index, one at most is between reading it and
\* writing it, and the list it has read is the one that is stored.
OneIndexing ==
  ~lossy =>
    /\ \A t, u \in Threads : Indexing(t) /\ Indexing(u) => t = u
    /\ \A t \in Threads : Indexing(t) => listed[t] = index

\* A login that has been given the challenge.
LoggingIn(c) == kind[c] = "login" /\ pc[Handler(c)] # "done"

\* A login past verifyChallenge has its challenge deleted, and two logins with
\* one challenge have crossed between reading it and deleting it.
Challenges ==
  /\ \A c \in Calls : LoggingIn(c) /\ pc[Handler(c)] # "consume" => challenge # nonce[c]
  /\ \A c, d \in Calls :
       c # d /\ LoggingIn(c) /\ LoggingIn(d) /\ nonce[c] = nonce[d] => nonce[c] \in contested

\* The inductive invariant of login and sessions.
SessionsInv ==
  SessionsShape /\ Origins /\ Revoked /\ OneIndexing /\ IndexCoversSessions /\ Challenges

\* The two threads of each call.
LEMMA ThreadFacts ==
  /\ \A c \in Calls : /\ Handler(c) \in Threads /\ Touch(c) \in Threads
                      /\ Handler(c)[1] = c /\ Touch(c)[1] = c
  /\ \A c, d : Handler(c) # Touch(d)
  /\ \A c, d : Handler(c) = Handler(d) => c = d
  /\ \A c, d : Touch(c) = Touch(d) => c = d
  /\ \A t \in Threads : t[1] \in Calls /\ (t = Handler(t[1]) \/ t = Touch(t[1]))
BY DEF Handler, Touch, Threads

\* Before the first request nothing is stored and no thread has started.
LEMMA SessionsShapeInit == SessionsInit => SessionsShape
<1> SUFFICES ASSUME SessionsInit PROVE SessionsShape
  OBVIOUS
<1> USE SessionsAssumption, ThreadFacts DEF SessionsInit
<1>1. lossy \in BOOLEAN /\ out \in BOOLEAN
  BY Zenon
<1>2. StateTyped
  BY <1>1 DEF StateTyped, CacheTyped, ThreadsTyped, HistoryTyped, SessionRecord, Record, Guarded, Steps
<1>3. ASSUME NEW c \in Calls PROVE CallShape(c)
  BY DEF CallShape, Guarded
<1> QED BY <1>2, <1>3 DEF SessionsShape

\* Writing a session adds it to those there are.
LEMMA SessionWritten ==
  ASSUME NEW s, NEW r, WriteSession(s, r)
  PROVE  /\ DOMAIN session' = DOMAIN session \cup {s} /\ session'[s] = r
         /\ \A q \in DOMAIN session : q # s => session'[q] = session[q]
BY DEF WriteSession

\* Issuing or expiring a challenge, losing the index and the clock change the
\* cache within its type and leave all threads where they are.
LEMMA CacheStepShape ==
  ASSUME SessionsShape, IssueChallenge \/ ExpireChallenge \/ ExpireIndex \/ Tick
  PROVE  SessionsShape'
<1> USE SessionsAssumption DEF cacheVars, sessionHistory, threadVars
<1>1. CacheTyped' /\ issued <= issued'
  BY DEF IssueChallenge, ExpireChallenge, ExpireIndex, Tick, SessionsShape, StateTyped, CacheTyped
<1>2. UNCHANGED threadVars
  BY DEF IssueChallenge, ExpireChallenge, ExpireIndex, Tick
<1>3. HistoryTyped'
  <2>1. lossy' \in BOOLEAN
    BY Zenon DEF IssueChallenge, ExpireChallenge, ExpireIndex, Tick, SessionsShape, StateTyped, HistoryTyped
  <2>2. UNCHANGED <<ended, revivable, contested, out>>
    BY DEF IssueChallenge, ExpireChallenge, ExpireIndex, Tick
  <2> QED BY <2>1, <2>2 DEF SessionsShape, StateTyped, HistoryTyped
<1>4. ThreadsTyped' /\ \A c \in Calls : CallShape(c)'
  BY <1>1, <1>2 DEF SessionsShape, StateTyped, CacheTyped, ThreadsTyped, CallShape
<1> QED BY <1>1, <1>3, <1>4 DEF SessionsShape, StateTyped

\* What a thread's step leaves of the other threads and of the calls.
LEMMA MovedShape ==
  ASSUME SessionsShape, NEW t \in Threads, NEW step, Moved(t, step)
  PROVE  /\ pc' \in [Threads -> Steps] /\ kind' = kind /\ on' = on /\ nonce' = nonce /\ issued' = issued
         /\ pc'[t] = step /\ \A u \in Threads : u # t => pc'[u] = pc[u]
         /\ \A c \in Calls : CallShape(c)'
<1> USE ThreadFacts DEF Moved, Go
<1>1. pc \in [Threads -> Steps]
  BY DEF SessionsShape, StateTyped, ThreadsTyped
<1>2. step \in Steps
  BY DEF Moves, Steps
<1>3. /\ pc' \in [Threads -> Steps]
      /\ pc'[t] = step /\ \A u \in Threads : u # t => pc'[u] = pc[u]
  BY <1>1, <1>2
<1>4. ASSUME NEW c \in Calls PROVE CallShape(c)'
  <2>1. CallShape(c)
    BY DEF SessionsShape
  <2>2. CASE t # Handler(c) /\ t # Touch(c)
    BY <2>1, <2>2, <1>3 DEF CallShape
  <2>3. CASE t = Handler(c)
    <3>1. kind[c] # "none"
      BY <2>1, <2>3 DEF CallShape, Moves
    <3>2. kind[c] = "login" => step \in LoginSteps
      BY <2>1, <2>3 DEF CallShape, Moves, LoginSteps
    <3>3. kind[c] = "refresh" => step \in RefreshSteps
      BY <2>1, <2>3 DEF CallShape, Moves, RefreshSteps
    <3>4. kind[c] \in Guarded => step \in GuardedSteps
      BY <2>1, <2>3 DEF CallShape, Moves, GuardedSteps
    <3> QED BY <2>1, <2>3, <3>1, <3>2, <3>3, <3>4, <1>3 DEF CallShape
  <2>4. CASE t = Touch(c)
    <3>1. kind[c] \notin {"none", "login", "refresh"}
      BY <2>1, <2>4 DEF CallShape, Moves
    <3>2. kind[c] \in Guarded => step \in TouchSteps
      <4>1. step # "unrefresh"
        BY <2>4
      <4> QED BY <2>1, <2>4, <4>1 DEF CallShape, Moves, TouchSteps
    <3> QED BY <2>1, <2>4, <3>1, <3>2, <1>3 DEF CallShape
  <2> QED BY <2>2, <2>3, <2>4
<1> QED BY <1>3, <1>4

\* A login that has written its session keeps having written it.
LEMMA MadeKept ==
  ASSUME SessionsShape, NEW t \in Threads, NEW step, Moved(t, step)
  PROVE  Made \subseteq Made'
<1>1. ASSUME NEW c \in Made PROVE c \in Made'
  <2>1. CASE t = Handler(c)
    BY <2>1, MovedShape, ThreadFacts DEF Made, Moved, Moves
  <2>2. CASE t # Handler(c)
    BY <2>2, MovedShape, ThreadFacts DEF Made
  <2> QED BY <2>1, <2>2
<1> QED BY <1>1

\* A step that stores, indexes, ends and lists only sessions that have been
\* written keeps the origin of all sessions.
LEMMA OriginsKept ==
  ASSUME SessionsInv, NEW t \in Threads, NEW step, Moved(t, step),
         pc[t] \notin {"lookup", "create"} \/ step \notin Handling,
         DOMAIN session' \subseteq Made', index' \subseteq Made, ended' \subseteq Made,
         \A u \in Threads : listed'[u] \subseteq Made
  PROVE  Origins'
<1>1. SessionsShape /\ Origins
  BY DEF SessionsInv
<1>2. Made \subseteq Made'
  BY <1>1, MadeKept
<1>3. ASSUME NEW u \in Threads, pc'[u] \in Handling PROVE on'[u] \in Made'
  <2>1. CASE u # t
    BY <1>1, <1>2, <1>3, <2>1, MovedShape DEF Origins
  <2>2. CASE u = t
    <3>1. step \in Handling
      BY <1>1, <1>3, <2>2, MovedShape
    <3>2. pc[t] \in Handling
      BY <3>1 DEF Moved, Moves, Handling
    <3> QED BY <1>1, <1>2, <2>2, <3>2, MovedShape DEF Origins
  <2> QED BY <2>1, <2>2
<1> QED BY <1>2, <1>3 DEF Origins

\* A step that ends and revives nothing keeps the ended sessions away, as long
\* as what it stores has not been ended.
LEMMA RevokedKept ==
  ASSUME SessionsInv, NEW t \in Threads, NEW step, Moved(t, step),
         step \notin {"dropRead", "deleteIndex", "write"},
         ended' = ended, revivable' = revivable,
         DOMAIN session \subseteq DOMAIN session',
         DOMAIN session' \cap ended \subseteq DOMAIN session \cup revivable,
         out' => refresh' = {},
         \A c \in Calls : pc'[Handler(c)] = "deleteIndex" => listed'[Handler(c)] = listed[Handler(c)]
  PROVE  Revoked'
<1>1. SessionsShape /\ Revoked
  BY DEF SessionsInv
<1>2. /\ pc'[t] = step /\ \A u \in Threads : u # t => pc'[u] = pc[u]
      /\ on' = on
  BY <1>1, MovedShape
<1>3. Held' \subseteq Held
  BY <1>2, ThreadFacts DEF Held
<1>4. ASSUME NEW u \in Threads, pc'[u] \in {"dropRead", "dropWrite"} PROVE on'[u] \in ended'
  <2>1. pc[u] \in {"dropRead", "dropWrite"}
    BY <1>2, <1>4 DEF Moved, Moves
  <2> QED BY <2>1, <1>1, <1>2 DEF Revoked
<1>5. ASSUME NEW c \in Calls, pc'[Handler(c)] = "deleteIndex" PROVE listed'[Handler(c)] \subseteq ended'
  BY <1>1, <1>2, <1>5, ThreadFacts DEF Revoked
<1> QED BY <1>1, <1>3, <1>4, <1>5 DEF Revoked

\* A step that leaves the index and what has been read of it alone keeps the
\* index complete, as long as the sessions it stores are about to be indexed.
LEMMA IndexKept ==
  ASSUME SessionsInv, NEW t \in Threads, NEW step, Moved(t, step),
         step \notin {"addWrite", "dropWrite", "issue"},
         lossy' = lossy, index' = index, revivable \subseteq revivable',
         \A u \in Threads : Indexing(u) => listed'[u] = listed[u],
         \A s \in DOMAIN session' \ revivable' :
           s \in DOMAIN session \/ pc'[Handler(s)] = "addRead"
  PROVE  OneIndexing' /\ IndexCoversSessions'
<1>1. SessionsShape /\ OneIndexing /\ IndexCoversSessions /\ DOMAIN session \subseteq Calls
  BY DEF SessionsInv, SessionsShape, StateTyped, CacheTyped
<1>2. /\ pc'[t] = step /\ \A u \in Threads : u # t => pc'[u] = pc[u]
      /\ kind' = kind
  BY <1>1, MovedShape
<1>3. ASSUME NEW u \in Threads, Indexing(u)' PROVE Indexing(u)
  BY <1>2, <1>3 DEF Indexing
<1>4. OneIndexing'
  BY <1>1, <1>3 DEF OneIndexing
<1>5. IndexCoversSessions'
  <2> SUFFICES ASSUME ~lossy', NEW s \in DOMAIN session' \ revivable', kind'[s] = "login",
                      pc'[Handler(s)] \in {"issue", "mint", "minted"}
               PROVE  s \in index'
    BY DEF IndexCoversSessions
  <2>1. s \in DOMAIN session \ revivable /\ s \in Calls
    BY <1>1
  <2>2. pc[Handler(s)] \in {"issue", "mint", "minted"}
    <3>1. CASE t # Handler(s)
      BY <3>1, <2>1, <1>2, ThreadFacts
    <3>2. CASE t = Handler(s)
      <4>1. CallShape(s) /\ kind[s] = "login"
        BY <2>1, <1>1, <1>2 DEF SessionsShape
      <4>2. pc[t] \in LoginSteps /\ step \in {"mint", "minted"}
        BY <3>2, <4>1, <1>2 DEF CallShape
      <4> QED BY <3>2, <4>2 DEF Moved, Moves, LoginSteps
    <3> QED BY <3>1, <3>2
  <2> QED BY <1>1, <1>2, <2>1, <2>2 DEF IndexCoversSessions
<1> QED BY <1>4, <1>5

\* A step that deletes the challenge or leaves it alone keeps the challenges.
LEMMA ChallengesKept ==
  ASSUME SessionsInv, NEW t \in Threads, NEW step, Moved(t, step), contested' = contested,
         (challenge' = challenge /\ step # "create") \/ challenge' = 0
  PROVE  Challenges'
<1>1. SessionsShape /\ Challenges
  BY DEF SessionsInv
<1>2. /\ pc'[t] = step /\ \A u \in Threads : u # t => pc'[u] = pc[u]
      /\ kind' = kind /\ nonce' = nonce
  BY <1>1, MovedShape
<1>3. ASSUME NEW c \in Calls, LoggingIn(c)' PROVE LoggingIn(c) /\ nonce[c] \in 1 .. issued
  <2>1. kind[c] = "login" /\ pc'[Handler(c)] # "done"
    BY <1>2, <1>3 DEF LoggingIn
  <2>2. pc[Handler(c)] # "done"
    BY <1>2, <2>1, ThreadFacts DEF Moved, Moves
  <2>3. CallShape(c)
    BY <1>1 DEF SessionsShape
  <2> QED BY <2>1, <2>2, <2>3 DEF LoggingIn, CallShape
<1>4. ASSUME NEW c \in Calls, LoggingIn(c)', pc'[Handler(c)] # "consume" PROVE challenge' # nonce'[c]
  <2>1. CASE challenge' = 0
    <3>1. issued \in Nat
      BY <1>1, SessionsAssumption DEF SessionsShape, StateTyped, CacheTyped
    <3> QED BY <2>1, <1>2, <1>3, <1>4, <3>1
  <2>2. CASE challenge' = challenge /\ step # "create"
    <3>1. pc[Handler(c)] # "consume"
      BY <1>2, <1>4, <2>2, ThreadFacts DEF Moved, Moves
    <3> QED BY <1>1, <1>2, <1>3, <1>4, <2>2, <3>1 DEF Challenges
  <2> QED BY <2>1, <2>2
<1>5. ASSUME NEW c \in Calls, NEW d \in Calls, c # d, LoggingIn(c)', LoggingIn(d)', nonce'[c] = nonce'[d]
      PROVE  nonce'[c] \in contested'
  BY <1>1, <1>2, <1>3, <1>5 DEF Challenges
<1> QED BY <1>4, <1>5 DEF Challenges

\* The parts of the invariant about the values of variables, when little changes.
LEMMA TypesKept ==
  ASSUME SessionsInv, NEW t \in Threads, NEW step, Moved(t, step), CacheTyped', HistoryTyped',
         copy' \in [Threads -> SessionRecord], listed' \in [Threads -> SUBSET Calls]
  PROVE  SessionsShape'
<1>1. SessionsShape
  BY DEF SessionsInv
<1>2. ThreadsTyped'
  BY <1>1, MovedShape DEF SessionsShape, StateTyped, ThreadsTyped
<1> QED BY <1>1, <1>2, MovedShape DEF SessionsShape, StateTyped

\* Taking the challenge.
LEMMA ConsumeKeeps ==
  ASSUME SessionsInv, NEW c \in Calls, ConsumeChallenge(c)
  PROVE  SessionsInv'
<1> DEFINE t == Handler(c)
<1>0. t \in Threads /\ SessionsShape /\ Origins /\ Revoked
  BY ThreadFacts DEF SessionsInv
<1>1. Moved(t, "create") /\ pc[t] = "consume"
  BY DEF ConsumeChallenge, Moved, Moves
<1>2. /\ challenge' = 0
      /\ UNCHANGED <<session, index, refresh, blacklist, issued, clock, copy, listed>>
      /\ UNCHANGED <<ended, revivable, lossy, contested, out>>
  BY DEF ConsumeChallenge, sessionHistory
<1> HIDE DEF t
<1>3. SessionsShape'
  <2>1. CacheTyped'
    BY <1>0, <1>2, SessionsAssumption DEF SessionsShape, StateTyped, CacheTyped
  <2>2. HistoryTyped'
    BY <1>0, <1>2 DEF SessionsShape, StateTyped, HistoryTyped
  <2>3. copy' \in [Threads -> SessionRecord] /\ listed' \in [Threads -> SUBSET Calls]
    BY <1>0, <1>2 DEF SessionsShape, StateTyped, ThreadsTyped
  <2> QED BY <1>0, <1>1, <2>1, <2>2, <2>3, TypesKept
<1>4. Origins'
  <2>1. Made \subseteq Made'
    BY <1>0, <1>1, MadeKept
  <2> QED BY <1>0, <1>1, <1>2, <2>1, OriginsKept DEF Origins, Handling
<1>5. Revoked'
  BY <1>0, <1>1, <1>2, RevokedKept DEF Revoked
<1>6. OneIndexing' /\ IndexCoversSessions'
  BY <1>0, <1>1, <1>2, IndexKept
<1>7. Challenges'
  BY <1>0, <1>1, <1>2, ChallengesKept
<1> QED BY <1>3, <1>4, <1>5, <1>6, <1>7 DEF SessionsInv

\* A login writes its session.
LEMMA CreateKeeps ==
  ASSUME SessionsInv, NEW c \in Calls, CreateSession(c)
  PROVE  SessionsInv'
<1> DEFINE t == Handler(c)
<1>0. t \in Threads /\ SessionsShape /\ Origins /\ Revoked
  BY ThreadFacts DEF SessionsInv
<1>1. Moved(t, "addRead") /\ pc[t] = "create"
  BY DEF CreateSession, Moved, Moves
<1>2. /\ WriteSession(c, Record(clock))
      /\ UNCHANGED <<challenge, index, refresh, blacklist, issued, clock, copy, listed>>
      /\ UNCHANGED <<ended, revivable, lossy, contested, out>>
  BY DEF CreateSession, sessionHistory
<1>a. /\ DOMAIN session' = DOMAIN session \cup {c} /\ session'[c] = Record(clock)
      /\ \A q \in DOMAIN session : q # c => session'[q] = session[q]
  BY <1>2, SessionWritten
<1>b. kind[c] = "login" /\ on[t] = c
  BY <1>0, <1>1 DEF SessionsShape, CallShape, t, RefreshSteps, GuardedSteps, StateTyped, ThreadsTyped
<1>c. c \in Made' /\ c \notin Made
  BY <1>0, <1>1, <1>b, MovedShape DEF Made, t
<1>3. SessionsShape'
  <2>1. CacheTyped'
    <3>0. CacheTyped
      BY <1>0 DEF SessionsShape, StateTyped
    <3>1. Record(clock) \in SessionRecord
      BY <3>0, SessionsAssumption DEF CacheTyped, Record, SessionRecord
    <3>2. DOMAIN session' \subseteq Calls
      BY <3>0, <1>a DEF CacheTyped
    <3>3. \A s \in DOMAIN session' : session'[s] \in SessionRecord
      BY <3>0, <3>1, <1>a DEF CacheTyped
    <3> QED BY <3>0, <3>2, <3>3, <1>2 DEF CacheTyped
  <2>2. HistoryTyped'
    BY <1>0, <1>2 DEF SessionsShape, StateTyped, HistoryTyped
  <2>3. copy' \in [Threads -> SessionRecord] /\ listed' \in [Threads -> SUBSET Calls]
    BY <1>0, <1>2 DEF SessionsShape, StateTyped, ThreadsTyped
  <2> QED BY <1>0, <1>1, <2>1, <2>2, <2>3, TypesKept
<1> HIDE DEF t
<1>4. Origins'
  <2>1. Made \subseteq Made'
    BY <1>0, <1>1, MadeKept
  <2>2. ASSUME NEW u \in Threads, pc'[u] \in Handling PROVE on'[u] \in Made'
    <3>1. CASE u = t
      BY <1>0, <1>1, <1>b, <1>c, <3>1, MovedShape
    <3>2. CASE u # t
      BY <1>0, <1>1, <3>2, <2>1, <2>2, MovedShape DEF Origins
    <3> QED BY <3>1, <3>2
  <2> QED BY <1>0, <1>2, <1>a, <1>c, <2>1, <2>2 DEF Origins
<1>5. Revoked'
  <2>1. DOMAIN session' \cap ended \subseteq DOMAIN session \cup revivable
    BY <1>0, <1>a, <1>c DEF Origins
  <2> QED BY <1>0, <1>1, <1>2, <1>a, <2>1, RevokedKept DEF Revoked
<1>6. OneIndexing' /\ IndexCoversSessions'
  <2>1. pc'[Handler(c)] = "addRead"
    BY <1>0, <1>1, MovedShape DEF t
  <2> QED BY <1>0, <1>1, <1>2, <1>a, <2>1, IndexKept
<1>7. Challenges'
  BY <1>0, <1>1, <1>2, ChallengesKept
<1> QED BY <1>3, <1>4, <1>5, <1>6, <1>7 DEF SessionsInv

\* A touch writes the session it holds.
LEMMA TouchWriteKeeps ==
  ASSUME SessionsInv, NEW c \in Calls, TouchWrite(c)
  PROVE  SessionsInv'
<1> DEFINE t == Touch(c)
           s == on[t]
           r == [expiresAt |-> IF Persistence THEN clock + Ttl ELSE copy[t].expiresAt,
                 lastSeenAt |-> clock]
<1>0. t \in Threads /\ SessionsShape /\ Origins /\ Revoked
  BY ThreadFacts DEF SessionsInv
<1>1. Moved(t, "done") /\ pc[t] = "write"
  BY DEF TouchWrite, Moved, Moves
<1>2. /\ WriteSession(s, r)
      /\ UNCHANGED <<challenge, index, refresh, blacklist, issued, clock, copy, listed>>
      /\ UNCHANGED <<ended, revivable, lossy, contested, out>>
  BY DEF TouchWrite, sessionHistory
<1> HIDE DEF r
<1>a. /\ DOMAIN session' = DOMAIN session \cup {s} /\ session'[s] = r
      /\ \A q \in DOMAIN session : q # s => session'[q] = session[q]
  <2> HIDE DEF s
  <2> QED BY <1>2, SessionWritten
<1>b. s \in Made /\ s \in DOMAIN session \cup revivable
  BY <1>0, <1>1 DEF Origins, Handling, Revoked, Held
<1>3. SessionsShape'
  <2>1. CacheTyped'
    <3>0. CacheTyped /\ ThreadsTyped
      BY <1>0 DEF SessionsShape, StateTyped
    <3>1. r \in SessionRecord
      BY <3>0, <1>0, SessionsAssumption DEF CacheTyped, ThreadsTyped, SessionRecord, r
    <3>2. DOMAIN session' \subseteq Calls
      BY <3>0, <1>a, <1>b DEF CacheTyped, Made
    <3>3. \A q \in DOMAIN session' : session'[q] \in SessionRecord
      BY <3>0, <3>1, <1>a DEF CacheTyped
    <3> QED BY <3>0, <3>2, <3>3, <1>2 DEF CacheTyped
  <2>2. HistoryTyped'
    BY <1>0, <1>2 DEF SessionsShape, StateTyped, HistoryTyped
  <2>3. copy' \in [Threads -> SessionRecord] /\ listed' \in [Threads -> SUBSET Calls]
    BY <1>0, <1>2 DEF SessionsShape, StateTyped, ThreadsTyped
  <2> QED BY <1>0, <1>1, <2>1, <2>2, <2>3, TypesKept
<1> HIDE DEF t, s
<1>4. Origins'
  <2>1. Made \subseteq Made'
    BY <1>0, <1>1, MadeKept
  <2> QED BY <1>0, <1>1, <1>2, <1>a, <1>b, <2>1, OriginsKept DEF Origins
<1>5. Revoked'
  BY <1>0, <1>1, <1>2, <1>a, <1>b, RevokedKept DEF Revoked
<1>6. OneIndexing' /\ IndexCoversSessions'
  BY <1>0, <1>1, <1>2, <1>a, <1>b, IndexKept
<1>7. Challenges'
  BY <1>0, <1>1, <1>2, ChallengesKept
<1> QED BY <1>3, <1>4, <1>5, <1>6, <1>7 DEF SessionsInv

\* The steps that write the refresh record.
LEMMA RefreshKeeps ==
  ASSUME SessionsInv, NEW c \in Calls,
         RevokeOldToken(c) \/ Mint(c) \/ RotateDelete(c) \/ DetectReuse(c) \/ RevokeRefreshToken(c)
  PROVE  SessionsInv'
<1>0. SessionsShape /\ Origins /\ Revoked
  BY DEF SessionsInv
<1> DEFINE t == Handler(c)
<1>1. t \in Threads
  BY ThreadFacts
<1>2. /\ UNCHANGED <<challenge, session, index, blacklist, issued, clock, kind, on, copy, listed, nonce>>
      /\ UNCHANGED <<ended, revivable, lossy, contested>>
  BY DEF RevokeOldToken, Mint, RotateDelete, DetectReuse, RevokeRefreshToken, sessionHistory
<1>3. \/ refresh' = {}
      \/ refresh' = {[token |-> c, family |-> on[t]]} /\ out' = FALSE
  BY DEF RevokeOldToken, Mint, RotateDelete, DetectReuse, RevokeRefreshToken
<1>4. out' \in BOOLEAN
  <2>1. out \in BOOLEAN
    BY <1>0 DEF SessionsShape, StateTyped, HistoryTyped
  <2>2. out' = out \/ out' = FALSE \/ out' = ~Minting
    BY DEF RevokeOldToken, Mint, RotateDelete, DetectReuse, RevokeRefreshToken, sessionHistory
  <2> QED BY Zenon, <2>1, <2>2
<1>5. PICK step \in {"mint", "minted", "done"} : Moved(t, step)
  <2>1. \/ pc[t] = "issue" /\ Go(t, "mint")
        \/ pc[t] = "mint" /\ Go(t, "minted")
        \/ pc[t] = "rotate" /\ Go(t, "mint")
        \/ pc[t] = "reuse" /\ Go(t, "done")
        \/ pc[t] = "unrefresh" /\ Go(t, "done")
    BY Zenon DEF RevokeOldToken, Mint, RotateDelete, DetectReuse, RevokeRefreshToken
  <2> QED BY <1>2, <2>1 DEF Moved, Moves
<1>6. SessionsShape'
  <2>1. CacheTyped'
    <3>1. on[t] \in Calls
      BY <1>0, <1>1 DEF SessionsShape, StateTyped, ThreadsTyped
    <3>2. refresh' \subseteq [token : Calls, family : Calls] /\ \A q, r \in refresh' : q = r
      BY <1>3, <3>1
    <3> QED BY <1>0, <1>2, <3>2 DEF SessionsShape, StateTyped, CacheTyped
  <2>2. HistoryTyped'
    BY <1>0, <1>2, <1>4 DEF SessionsShape, StateTyped, HistoryTyped
  <2>3. copy' \in [Threads -> SessionRecord] /\ listed' \in [Threads -> SUBSET Calls]
    BY <1>0, <1>2 DEF SessionsShape, StateTyped, ThreadsTyped
  <2> QED BY <1>1, <1>5, <2>1, <2>2, <2>3, TypesKept
<1> HIDE DEF t
<1>7. Origins'
  <2>1. Made \subseteq Made'
    BY <1>0, <1>1, <1>5, MadeKept
  <2> QED BY <1>0, <1>1, <1>2, <1>5, <2>1, OriginsKept DEF Origins, Handling
<1>8. Revoked'
  <2>1. out' => refresh' = {}
    BY <1>3
  <2> QED BY <1>0, <1>1, <1>2, <1>5, <2>1, RevokedKept DEF Revoked
<1>9. OneIndexing' /\ IndexCoversSessions'
  BY <1>0, <1>1, <1>2, <1>5, IndexKept
<1>10. Challenges'
  BY <1>0, <1>1, <1>2, <1>5, ChallengesKept
<1> QED BY <1>6, <1>7, <1>8, <1>9, <1>10 DEF SessionsInv

\* The steps that change nothing but what their thread knows, or the blacklist.
LEMMA ReadingKeeps ==
  ASSUME SessionsInv, NEW c \in Calls,
         TouchRead(c) \/ Lookup(c) \/ Blacklist(c) \/ ListAll(c)
  PROVE  SessionsInv'
<1>0. SessionsShape /\ Origins /\ Revoked
  BY DEF SessionsInv
<1>1. PICK t \in Threads, step \in {"write", "delete", "done", "deleteAll"} :
        /\ Moved(t, step)
        /\ pc[t] \in {"touch", "lookup", "blacklist", "list"}
        /\ pc[t] = "lookup" /\ step = "delete" => Live(on[t])
        /\ step = "write" => Live(on[t])
        /\ step = "write" => t = Touch(c)
  <2>1. CASE TouchRead(c)
    <3>1. PICK step \in {"write", "delete", "done"} : Go(Touch(c), step) /\ (step = "write" => Live(on[Touch(c)]))
      BY <2>1 DEF TouchRead, Valid
    <3>2. Moved(Touch(c), step) /\ pc[Touch(c)] = "touch"
      BY <2>1, <3>1 DEF TouchRead, Moved, Moves
    <3> QED BY <3>1, <3>2, ThreadFacts
  <2>2. CASE Lookup(c)
    <3>1. PICK step \in {"delete", "done"} : Go(Handler(c), step) /\ (step = "delete" => Live(on[Handler(c)]))
      BY <2>2 DEF Lookup
    <3>2. Moved(Handler(c), step) /\ pc[Handler(c)] = "lookup"
      BY <2>2, <3>1 DEF Lookup, Moved, Moves
    <3> QED BY <3>1, <3>2, ThreadFacts
  <2>3. CASE Blacklist(c)
    <3>1. Moved(Handler(c), "delete") /\ pc[Handler(c)] = "blacklist"
      BY <2>3 DEF Blacklist, Moved, Moves
    <3> QED BY <3>1, ThreadFacts
  <2>4. CASE ListAll(c)
    <3>1. Moved(Handler(c), "deleteAll") /\ pc[Handler(c)] = "list"
      BY <2>4 DEF ListAll, Moved, Moves
    <3> QED BY <3>1, ThreadFacts
  <2> QED BY <2>1, <2>2, <2>3, <2>4
<1>2. /\ UNCHANGED <<challenge, session, index, refresh, issued, clock>>
      /\ UNCHANGED <<ended, revivable, lossy, contested, out>>
  BY DEF TouchRead, Lookup, Blacklist, ListAll, cacheVars, sessionHistory
<1>3. blacklist' \subseteq Calls
  BY <1>0, ThreadFacts DEF TouchRead, Lookup, Blacklist, ListAll, cacheVars, SessionsShape, StateTyped,
     CacheTyped, ThreadsTyped
<1>4. copy' \in [Threads -> SessionRecord]
  <2>1. copy' = copy \/ copy' = [copy EXCEPT ![Touch(c)] = IF Live(on[Touch(c)]) THEN session[on[Touch(c)]] ELSE @]
    BY DEF TouchRead, Lookup, Blacklist, ListAll
  <2>2. copy \in [Threads -> SessionRecord]
    BY <1>0 DEF SessionsShape, StateTyped, ThreadsTyped
  <2>3. Live(on[Touch(c)]) => session[on[Touch(c)]] \in SessionRecord
    BY <1>0 DEF Live, SessionsShape, StateTyped, CacheTyped
  <2> QED BY <2>1, <2>2, <2>3
<1>5. /\ listed' \in [Threads -> SUBSET Calls]
      /\ \A u \in Threads : listed'[u] # listed[u] => pc[u] = "list" /\ listed'[u] = index
  BY <1>0, ThreadFacts DEF TouchRead, Lookup, Blacklist, ListAll, SessionsShape, StateTyped,
     CacheTyped, ThreadsTyped
<1>6. SessionsShape'
  <2>1. CacheTyped'
    BY <1>0, <1>2, <1>3 DEF SessionsShape, StateTyped, CacheTyped
  <2>2. HistoryTyped'
    BY <1>0, <1>2 DEF SessionsShape, StateTyped, HistoryTyped
  <2> QED BY <1>1, <1>4, <1>5, <2>1, <2>2, TypesKept
<1>7. Origins'
  <2>1. Made \subseteq Made'
    BY <1>0, <1>1, MadeKept
  <2>2. ASSUME NEW u \in Threads, pc'[u] \in Handling PROVE on'[u] \in Made'
    <3>1. CASE u = t
      <4>1. step \in Handling
        BY <1>0, <1>1, <2>2, <3>1, MovedShape
      <4>2. Live(on[t]) \/ pc[t] \in Handling
        BY <1>1, <4>1 DEF Moved, Moves, Handling
      <4> QED BY <1>0, <1>1, <3>1, <2>1, <4>2, MovedShape DEF Origins, Live
    <3>2. CASE u # t
      BY <1>0, <1>1, <3>2, <2>1, <2>2, MovedShape DEF Origins
    <3> QED BY <3>1, <3>2
  <2> QED BY <1>0, <1>2, <1>5, <2>1, <2>2 DEF Origins
<1>8. Revoked'
  <2>1. CASE step # "write"
    <3>1. \A d \in Calls : pc'[Handler(d)] = "deleteIndex" => listed'[Handler(d)] = listed[Handler(d)]
      BY <1>0, <1>1, <1>5, MovedShape, ThreadFacts
    <3> QED BY <1>0, <1>1, <1>2, <2>1, <3>1, RevokedKept DEF Revoked
  <2>2. CASE step = "write"
    <3>1. t = Touch(c) /\ Live(on[t])
      BY <1>1, <2>2
    <3>2. /\ pc'[t] = "write" /\ \A u \in Threads : u # t => pc'[u] = pc[u]
          /\ on' = on
      BY <1>0, <1>1, <2>2, MovedShape
    <3>3. Held' \subseteq Held \cup {on[t]}
      BY <3>1, <3>2, ThreadFacts DEF Held
    <3>4. \A u \in Threads : pc'[u] \in {"dropRead", "dropWrite"} => on'[u] \in ended'
      BY <1>0, <1>2, <3>2 DEF Revoked
    <3>5. \A d \in Calls : pc'[Handler(d)] = "deleteIndex" => listed'[Handler(d)] \subseteq ended'
      BY <1>0, <1>2, <1>5, <3>2, ThreadFacts DEF Revoked
    <3> QED BY <1>0, <1>2, <3>1, <3>3, <3>4, <3>5 DEF Revoked, Live
  <2> QED BY <2>1, <2>2
<1>9. OneIndexing' /\ IndexCoversSessions'
  <2>1. \A u \in Threads : Indexing(u) => listed'[u] = listed[u]
    BY <1>5 DEF Indexing
  <2> QED BY <1>0, <1>1, <1>2, <2>1, IndexKept
<1>10. Challenges'
  BY <1>0, <1>1, <1>2, ChallengesKept
<1> QED BY <1>6, <1>7, <1>8, <1>9, <1>10 DEF SessionsInv

\* Deleting sessions, by one request or by "sign out everywhere".
LEMMA DeleteKeeps ==
  ASSUME SessionsInv, NEW t \in Threads, NEW gone, NEW step, Moved(t, step),
         DeleteSessions(gone), gone \subseteq Made,
         \/ step = "dropRead" /\ gone = {on[t]}
         \/ step = "deleteIndex" /\ gone = listed[t],
         UNCHANGED <<challenge, index, refresh, blacklist, issued, clock, copy, listed>>,
         UNCHANGED <<lossy, contested, out>>
  PROVE  SessionsInv'
<1>0. SessionsShape /\ Origins /\ Revoked
  BY DEF SessionsInv
<1>1. /\ DOMAIN session' = DOMAIN session \ gone
      /\ \A s \in DOMAIN session' : session'[s] = session[s]
      /\ ended' = ended \cup gone /\ revivable' = revivable \cup (gone \cap Held)
  BY DEF DeleteSessions
<1>2. gone \subseteq Calls
  BY DEF Made
<1>3. SessionsShape'
  <2>1. CacheTyped'
    BY <1>0, <1>1 DEF SessionsShape, StateTyped, CacheTyped
  <2>2. HistoryTyped'
    BY <1>0, <1>1, <1>2 DEF SessionsShape, StateTyped, HistoryTyped
  <2>3. copy' \in [Threads -> SessionRecord] /\ listed' \in [Threads -> SUBSET Calls]
    BY <1>0 DEF SessionsShape, StateTyped, ThreadsTyped
  <2> QED BY <2>1, <2>2, <2>3, TypesKept
<1>s. /\ pc'[t] = step /\ \A u \in Threads : u # t => pc'[u] = pc[u]
      /\ on' = on
  BY <1>0, MovedShape
<1>4. Origins'
  <2>1. Made \subseteq Made'
    BY <1>0, MadeKept
  <2>2. pc[t] \notin {"lookup", "create"}
    BY DEF Moved, Moves
  <2>3. DOMAIN session' \subseteq Made' /\ index' \subseteq Made /\ ended' \subseteq Made
    BY <1>0, <1>1, <2>1 DEF Origins
  <2>4. \A u \in Threads : listed'[u] \subseteq Made
    BY <1>0 DEF Origins
  <2> QED BY <2>2, <2>3, <2>4, OriginsKept
<1>5. Revoked'
  <2>1. Held' \subseteq Held
    BY <1>s, ThreadFacts DEF Held
  <2>2. ASSUME NEW u \in Threads, pc'[u] \in {"dropRead", "dropWrite"} PROVE on'[u] \in ended'
    <3>1. CASE u = t
      BY <2>2, <3>1, <1>1, <1>s
    <3>2. CASE u # t
      BY <1>0, <1>1, <1>s, <2>2, <3>2 DEF Revoked
    <3> QED BY <3>1, <3>2
  <2>3. ASSUME NEW c \in Calls, pc'[Handler(c)] = "deleteIndex" PROVE listed'[Handler(c)] \subseteq ended'
    <3>1. CASE Handler(c) = t
      BY <2>3, <3>1, <1>1, <1>s
    <3>2. CASE Handler(c) # t
      BY <1>0, <1>1, <1>s, <2>3, <3>2, ThreadFacts DEF Revoked
    <3> QED BY <3>1, <3>2
  <2> QED BY <1>0, <1>1, <2>1, <2>2, <2>3 DEF Revoked
<1>6. OneIndexing' /\ IndexCoversSessions'
  BY <1>1, IndexKept
<1>7. Challenges'
  BY ChallengesKept
<1> QED BY <1>3, <1>4, <1>5, <1>6, <1>7 DEF SessionsInv

\* deleteSession of one session, after the guard or the lookup has let it
\* through.
LEMMA RevokeKeeps ==
  ASSUME SessionsInv, NEW t \in Threads, Revoke(t)
  PROVE  SessionsInv'
<1>1. Moved(t, "dropRead") /\ on[t] \in Made
  BY DEF Revoke, Moved, Moves, SessionsInv, Origins, Handling
<1> QED BY <1>1, DeleteKeeps DEF Revoke

\* deleteAllSessions: the sessions that the index listed are deleted, and then
\* the index itself is.
LEMMA DeleteAllKeeps ==
  ASSUME SessionsInv, NEW c \in Calls, DeleteAll(c)
  PROVE  SessionsInv'
<1>1. Moved(Handler(c), "deleteIndex") /\ Handler(c) \in Threads /\ listed[Handler(c)] \subseteq Made
  BY ThreadFacts DEF DeleteAll, Moved, Moves, SessionsInv, Origins
<1> QED BY <1>1, DeleteKeeps DEF DeleteAll

\* Reading the index into a thread.
LEMMA ReadIndexKeeps ==
  ASSUME SessionsInv, NEW t \in Threads, ReadIndex(t)
  PROVE  SessionsInv'
<1> DEFINE step == IF pc[t] = "addRead" THEN "addWrite" ELSE "dropWrite"
<1>0. SessionsShape /\ Origins /\ Revoked /\ OneIndexing /\ IndexCoversSessions
  BY DEF SessionsInv
<1>1. Moved(t, step) /\ pc[t] \in {"addRead", "dropRead"} /\ step \in {"addWrite", "dropWrite"}
  BY DEF ReadIndex, Moved, Moves
<1>2. /\ UNCHANGED <<challenge, session, index, refresh, blacklist, issued, clock, copy>>
      /\ UNCHANGED <<ended, revivable, contested, out>>
      /\ listed' = [listed EXCEPT ![t] = index]
  BY DEF ReadIndex, cacheVars
<1>3. lossy' \in BOOLEAN /\ (~lossy' => ~lossy /\ \A u \in Threads : ~Indexing(u))
  BY Zenon DEF ReadIndex
<1> HIDE DEF step
<1>4. listed' \in [Threads -> SUBSET Calls] /\ listed'[t] = index /\ \A u \in Threads : u # t => listed'[u] = listed[u]
  BY <1>0, <1>2 DEF SessionsShape, StateTyped, ThreadsTyped, CacheTyped
<1>5. SessionsShape'
  <2>1. CacheTyped'
    BY <1>0, <1>2 DEF SessionsShape, StateTyped, CacheTyped
  <2>2. HistoryTyped'
    BY <1>0, <1>2, <1>3 DEF SessionsShape, StateTyped, HistoryTyped
  <2>3. copy' \in [Threads -> SessionRecord]
    BY <1>0, <1>2 DEF SessionsShape, StateTyped, ThreadsTyped
  <2> QED BY <1>1, <1>4, <2>1, <2>2, <2>3, TypesKept
<1>s. /\ pc'[t] = step /\ \A u \in Threads : u # t => pc'[u] = pc[u]
      /\ on' = on /\ kind' = kind
  BY <1>0, <1>1, MovedShape
<1>6. Origins'
  <2>1. Made \subseteq Made'
    BY <1>0, <1>1, MadeKept
  <2>2. \A u \in Threads : listed'[u] \subseteq Made
    BY <1>0, <1>4 DEF Origins
  <2> QED BY <1>0, <1>1, <1>2, <2>1, <2>2, OriginsKept DEF Origins
<1>7. Revoked'
  <2>1. \A d \in Calls : pc'[Handler(d)] = "deleteIndex" => listed'[Handler(d)] = listed[Handler(d)]
    BY <1>1, <1>4, <1>s, ThreadFacts
  <2> QED BY <1>0, <1>1, <1>2, <2>1, RevokedKept DEF Revoked
<1>8. OneIndexing'
  <2> SUFFICES ASSUME ~lossy' PROVE /\ \A u, v \in Threads : Indexing(u)' /\ Indexing(v)' => u = v
                                   /\ \A u \in Threads : Indexing(u)' => listed'[u] = index'
    BY DEF OneIndexing
  <2>1. \A u \in Threads : Indexing(u)' => u = t
    BY <1>3, <1>s DEF Indexing
  <2> QED BY <2>1, <1>2, <1>4
<1>9. IndexCoversSessions'
  <2> SUFFICES ASSUME ~lossy', NEW s \in DOMAIN session' \ revivable', kind'[s] = "login",
                      pc'[Handler(s)] \in {"issue", "mint", "minted"}
               PROVE  s \in index'
    BY DEF IndexCoversSessions
  <2>1. s \in Calls
    BY <1>5 DEF SessionsShape, StateTyped, CacheTyped
  <2>2. pc[Handler(s)] \in {"issue", "mint", "minted"}
    BY <2>1, <1>1, <1>s, ThreadFacts
  <2> QED BY <2>2, <1>0, <1>2, <1>3, <1>s DEF IndexCoversSessions
<1>10. Challenges'
  BY <1>0, <1>1, <1>2, ChallengesKept
<1> QED BY <1>5, <1>6, <1>7, <1>8, <1>9, <1>10 DEF SessionsInv

\* Writing the index from what a thread has read, or deleting it.
LEMMA WriteIndexKeeps ==
  ASSUME SessionsInv, NEW t \in Threads, NEW step, Moved(t, step), step \in {"issue", "unrefresh", "done"},
         index' \subseteq Made, lossy' \in BOOLEAN,
         ~lossy' => \/ Indexing(t) /\ ~lossy /\ step = "issue" /\ index \cup {on[t]} \subseteq index'
                    \/ Indexing(t) /\ ~lossy /\ step # "issue" /\ index \subseteq index' \cup revivable \cup (Calls \ DOMAIN session)
                    \/ /\ ~lossy /\ step # "issue" /\ \A u \in Threads : ~Indexing(u)
                       /\ index \cap DOMAIN session \subseteq revivable,
         step = "issue" => pc[t] = "addWrite",
         UNCHANGED <<challenge, session, refresh, blacklist, issued, clock, copy, listed>>,
         UNCHANGED <<ended, revivable, contested, out>>
  PROVE  SessionsInv'
<1>0. SessionsShape /\ Origins /\ Revoked /\ OneIndexing /\ IndexCoversSessions
  BY DEF SessionsInv
<1>s. /\ pc'[t] = step /\ \A u \in Threads : u # t => pc'[u] = pc[u]
      /\ on' = on /\ kind' = kind
  BY <1>0, MovedShape
<1>1. SessionsShape'
  <2>1. CacheTyped'
    BY <1>0 DEF SessionsShape, StateTyped, CacheTyped, Made
  <2>2. HistoryTyped'
    BY <1>0 DEF SessionsShape, StateTyped, HistoryTyped
  <2>3. copy' \in [Threads -> SessionRecord] /\ listed' \in [Threads -> SUBSET Calls]
    BY <1>0 DEF SessionsShape, StateTyped, ThreadsTyped
  <2> QED BY <2>1, <2>2, <2>3, TypesKept
<1>2. Origins'
  <2>1. Made \subseteq Made'
    BY <1>0, MadeKept
  <2> QED BY <1>0, <2>1, OriginsKept DEF Origins, Handling
<1>3. Revoked'
  BY <1>0, RevokedKept DEF Revoked
<1>4. OneIndexing'
  <2> SUFFICES ASSUME ~lossy', NEW u \in Threads, Indexing(u)' PROVE FALSE
    BY DEF OneIndexing
  <2>1. u # t /\ Indexing(u)
    BY <1>s DEF Indexing
  <2> QED BY <2>1, <1>0 DEF OneIndexing
<1>5. IndexCoversSessions'
  <2> SUFFICES ASSUME ~lossy', NEW s \in DOMAIN session' \ revivable', kind'[s] = "login",
                      pc'[Handler(s)] \in {"issue", "mint", "minted"}
               PROVE  s \in index'
    BY DEF IndexCoversSessions
  <2>1. s \in Calls /\ kind[s] = "login" /\ CallShape(s)
    BY <1>0, <1>1, <1>s DEF SessionsShape, StateTyped, CacheTyped
  <2>2. CASE t # Handler(s)
    <3>1. s \in index
      BY <2>1, <2>2, <1>0, <1>s, ThreadFacts DEF IndexCoversSessions
    <3> QED BY <3>1
  <2>3. CASE t = Handler(s)
    <3>1. step = "issue"
      BY <2>3, <1>s
    <3>2. on[t] = s
      BY <2>1, <2>3 DEF CallShape
    <3> QED BY <3>1, <3>2
  <2> QED BY <2>2, <2>3
<1>6. Challenges'
  BY ChallengesKept
<1> QED BY <1>1, <1>2, <1>3, <1>4, <1>5, <1>6 DEF SessionsInv

\* Writing back the index that createSession or deleteSession has read, with the
\* session added or removed.
LEMMA IndexWritesKeep ==
  ASSUME SessionsInv, NEW t \in Threads, AddToIndex(t) \/ RemoveFromIndex(t)
  PROVE  SessionsInv'
<1>0. /\ Origins /\ Revoked /\ OneIndexing /\ lossy \in BOOLEAN
      /\ index \subseteq Calls /\ DOMAIN session \subseteq Calls
  BY DEF SessionsInv, SessionsShape, StateTyped, HistoryTyped, CacheTyped
<1>1. Indexing(t) /\ on[t] \in Made /\ listed[t] \subseteq Made
  BY <1>0 DEF AddToIndex, RemoveFromIndex, Indexing, Origins, Handling
<1>2. ~lossy => listed[t] = index
  BY <1>0, <1>1 DEF OneIndexing
<1>3. CASE AddToIndex(t)
  <2>1. Moved(t, "issue") /\ pc[t] = "addWrite"
    BY <1>3 DEF AddToIndex, Moved, Moves
  <2>2. /\ index' = listed[t] \cup {on[t]}
        /\ UNCHANGED <<challenge, session, refresh, blacklist, issued, clock, copy, listed>>
        /\ UNCHANGED <<ended, revivable, contested, out, lossy>>
    BY <1>3 DEF AddToIndex, sessionHistory
  <2> QED BY <2>1, <2>2, <1>0, <1>1, <1>2, WriteIndexKeeps
<1>4. CASE RemoveFromIndex(t)
  <2>1. PICK step \in {"unrefresh", "done"} : Moved(t, step) /\ pc[t] = "dropWrite"
    BY <1>4 DEF RemoveFromIndex, Moved, Moves
  <2>2. /\ index' = listed[t] \ {on[t]}
        /\ UNCHANGED <<challenge, session, refresh, blacklist, issued, clock, copy, listed>>
        /\ UNCHANGED <<ended, revivable, contested, out, lossy>>
    BY <1>4 DEF RemoveFromIndex, sessionHistory
  <2>3. on[t] \in revivable \/ on[t] \notin DOMAIN session
    BY <1>0, <2>1 DEF Revoked
  <2>4. ~lossy => index \subseteq index' \cup revivable \cup (Calls \ DOMAIN session)
    BY <1>0, <1>2, <2>2, <2>3
  <2> QED BY <2>1, <2>2, <2>4, <1>0, <1>1, WriteIndexKeeps
<1> QED BY <1>3, <1>4

\* The last step of deleteAllSessions: the index is deleted after its sessions.
LEMMA DeleteIndexKeeps ==
  ASSUME SessionsInv, NEW c \in Calls, DeleteIndex(c)
  PROVE  SessionsInv'
<1> DEFINE t == Handler(c)
<1>0. t \in Threads /\ Origins /\ Revoked /\ lossy \in BOOLEAN
  BY ThreadFacts DEF SessionsInv, SessionsShape, StateTyped, HistoryTyped
<1>1. Moved(t, "done") /\ pc[t] = "deleteIndex"
  BY DEF DeleteIndex, Moved, Moves
<1>2. /\ index' = {}
      /\ UNCHANGED <<challenge, session, refresh, blacklist, issued, clock, copy, listed>>
      /\ UNCHANGED <<ended, revivable, contested, out>>
  BY DEF DeleteIndex
<1>3. /\ lossy' \in BOOLEAN
      /\ ~lossy' => ~lossy /\ index = listed[t] /\ \A u \in Threads : ~Indexing(u)
  BY Zenon DEF DeleteIndex
<1>4. listed[t] \cap DOMAIN session \subseteq revivable
  BY <1>0, <1>1 DEF Revoked
<1> HIDE DEF t
<1>5. ~lossy' => /\ ~lossy /\ \A u \in Threads : ~Indexing(u)
                 /\ index \cap DOMAIN session \subseteq revivable
  BY <1>3, <1>4
<1> QED BY <1>0, <1>1, <1>2, <1>3, <1>5, WriteIndexKeeps

\* A call that begins.
LEMMA EntryKeeps ==
  ASSUME SessionsInv, NEW c \in Calls, kind[c] = "none",
         ThreadsTyped', CallShape(c)', contested' \subseteq 0 .. MaxNonces, Challenges',
         \A d \in Calls : d # c => kind'[d] = kind[d] /\ nonce'[d] = nonce[d],
         \A t \in Threads : t[1] # c => pc'[t] = pc[t] /\ on'[t] = on[t],
         {pc'[Handler(c)], pc'[Touch(c)]} \subseteq
           {"idle", "consume", "rotate", "reuse", "blacklist", "lookup", "list", "delete", "touch", "done"},
         pc'[Handler(c)] \in Handling => on'[Handler(c)] \in Made,
         pc'[Touch(c)] \in Handling => on'[Touch(c)] \in Made,
         UNCHANGED <<cacheVars, issued, clock, copy, listed, ended, revivable, lossy, out>>
  PROVE  SessionsInv'
<1>0. SessionsShape /\ Origins /\ Revoked /\ OneIndexing /\ IndexCoversSessions
  BY DEF SessionsInv
<1>1. UNCHANGED <<challenge, session, index, refresh, blacklist>>
  BY DEF cacheVars
<1>a. \A d \in Calls : d # c => /\ pc'[Handler(d)] = pc[Handler(d)] /\ on'[Handler(d)] = on[Handler(d)]
                                /\ pc'[Touch(d)] = pc[Touch(d)] /\ on'[Touch(d)] = on[Touch(d)]
  BY ThreadFacts
<1>2. SessionsShape'
  <2>1. CacheTyped'
    BY <1>0, <1>1 DEF SessionsShape, StateTyped, CacheTyped
  <2>2. HistoryTyped'
    BY <1>0, <1>1 DEF SessionsShape, StateTyped, HistoryTyped
  <2>3. ASSUME NEW d \in Calls, d # c PROVE CallShape(d)'
    <3>1. CallShape(d)
      BY <1>0 DEF SessionsShape
    <3> QED BY <1>a, <2>3, <3>1 DEF CallShape
  <2> QED BY <2>1, <2>2, <2>3 DEF SessionsShape, StateTyped
<1>3. Made \subseteq Made'
  BY <1>a DEF Made
<1>4. Origins'
  <2>1. ASSUME NEW t \in Threads, pc'[t] \in Handling PROVE on'[t] \in Made'
    <3>1. CASE t[1] # c
      BY <1>0, <1>3, <2>1, <3>1 DEF Origins
    <3>2. CASE t[1] = c
      BY <1>3, <2>1, <3>2, ThreadFacts
    <3> QED BY <3>1, <3>2
  <2> QED BY <1>0, <1>1, <1>3, <2>1 DEF Origins
<1>5. Revoked'
  <2>1. Held' \subseteq Held
    BY <1>a DEF Held
  <2>2. ASSUME NEW t \in Threads, pc'[t] \in {"dropRead", "dropWrite"} PROVE on'[t] \in ended'
    <3>1. t[1] # c
      BY <2>2, ThreadFacts
    <3> QED BY <3>1, <1>0, <2>2 DEF Revoked
  <2>3. ASSUME NEW d \in Calls, pc'[Handler(d)] = "deleteIndex" PROVE listed'[Handler(d)] \subseteq ended'
    BY <1>0, <1>a, <2>3 DEF Revoked
  <2> QED BY <1>0, <1>1, <2>1, <2>2, <2>3 DEF Revoked
<1>6. OneIndexing'
  <2>1. ASSUME NEW t \in Threads, Indexing(t)' PROVE Indexing(t)
    BY <2>1, ThreadFacts DEF Indexing
  <2> QED BY <1>0, <1>1, <2>1 DEF OneIndexing
<1>7. IndexCoversSessions'
  <2> SUFFICES ASSUME ~lossy', NEW s \in DOMAIN session' \ revivable', kind'[s] = "login",
                      pc'[Handler(s)] \in {"issue", "mint", "minted"}
               PROVE  s \in index'
    BY DEF IndexCoversSessions
  <2>1. s \in Calls
    BY <1>2 DEF SessionsShape, StateTyped, CacheTyped
  <2> QED BY <2>1, <1>0, <1>1, <1>a DEF IndexCoversSessions
<1> QED BY <1>2, <1>4, <1>5, <1>6, <1>7 DEF SessionsInv

\* A login begins: it is refused, or it has read the challenge that is stored.
LEMMA LoginKeeps ==
  ASSUME SessionsInv, NEW c \in Calls, NEW n \in 1 .. MaxNonces, Login(c, n)
  PROVE  SessionsInv'
<1> DEFINE step == IF challenge = n THEN "consume" ELSE "done"
<1>0. SessionsShape /\ Challenges /\ ThreadsTyped /\ issued \in Nat /\ Handler(c) \in Threads
  BY ThreadFacts, SessionsAssumption DEF SessionsInv, SessionsShape, StateTyped, CacheTyped
<1>1. /\ kind[c] = "none" /\ n \in 1 .. issued
      /\ kind' = [kind EXCEPT ![c] = "login"]
      /\ nonce' = [nonce EXCEPT ![c] = n]
      /\ pc' = [pc EXCEPT ![Handler(c)] = step]
      /\ contested' = contested \cup
           {m \in {n} : \E d \in Calls : nonce[d] = m /\ pc[Handler(d)] = "consume"}
      /\ UNCHANGED <<cacheVars, issued, clock, on, copy, listed, ended, revivable, lossy, out>>
  BY DEF Login, Go
<1>2. step \in {"consume", "done"} /\ (step = "consume" <=> challenge = n)
  OBVIOUS
<1> HIDE DEF step
<1>3. /\ pc'[Handler(c)] = step /\ \A t \in Threads : t # Handler(c) => pc'[t] = pc[t]
      /\ kind'[c] = "login" /\ \A d \in Calls : d # c => kind'[d] = kind[d]
      /\ nonce'[c] = n /\ \A d \in Calls : d # c => nonce'[d] = nonce[d]
  BY <1>0, <1>1 DEF ThreadsTyped
<1>4. CallShape(c) /\ Touch(c) \in Threads /\ Touch(c) # Handler(c)
  BY <1>0, ThreadFacts DEF SessionsShape
<1>5. ThreadsTyped'
  BY <1>0, <1>1, <1>2 DEF ThreadsTyped, Steps
<1>6. CallShape(c)'
  BY <1>1, <1>2, <1>3, <1>4 DEF CallShape, LoginSteps, Guarded
<1>7. contested' \subseteq 0 .. MaxNonces
  <2>1. contested \subseteq 0 .. MaxNonces
    BY <1>0 DEF SessionsShape, StateTyped, HistoryTyped
  <2>2. contested' \subseteq contested \cup {n}
    BY <1>1
  <2>3. n \in 0 .. MaxNonces
    BY SessionsAssumption
  <2> QED BY <2>1, <2>2, <2>3
<1>8. Challenges'
  <2>1. ASSUME NEW d \in Calls, d # c, LoggingIn(d)'
        PROVE  LoggingIn(d) /\ pc'[Handler(d)] = pc[Handler(d)] /\ nonce'[d] = nonce[d]
    BY <1>3, <2>1, ThreadFacts DEF LoggingIn
  <2>2. challenge' = challenge /\ contested \subseteq contested'
    BY <1>1 DEF cacheVars
  <2>3. ASSUME NEW d \in Calls, LoggingIn(d)', pc'[Handler(d)] # "consume" PROVE challenge' # nonce'[d]
    <3>1. CASE d = c
      BY <1>2, <1>3, <2>3, <3>1 DEF LoggingIn
    <3>2. CASE d # c
      BY <1>0, <2>1, <2>2, <2>3, <3>2 DEF Challenges
    <3> QED BY <3>1, <3>2
  <2>4. ASSUME NEW d \in Calls, d # c, LoggingIn(c)', LoggingIn(d)', nonce'[d] = n PROVE n \in contested'
    <3>1. challenge = n
      BY <1>2, <1>3, <2>4 DEF LoggingIn
    <3>2. LoggingIn(d) /\ nonce[d] = n
      BY <2>1, <2>4
    <3>3. pc[Handler(d)] = "consume"
      BY <1>0, <3>1, <3>2 DEF Challenges
    <3> QED BY <1>1, <3>2, <3>3
  <2>5. ASSUME NEW d \in Calls, NEW e \in Calls, d # e, LoggingIn(d)', LoggingIn(e)', nonce'[d] = nonce'[e]
        PROVE  nonce'[d] \in contested'
    <3>1. CASE d # c /\ e # c
      BY <1>0, <2>1, <2>2, <2>5, <3>1 DEF Challenges
    <3>2. CASE d = c \/ e = c
      BY <1>3, <2>4, <2>5, <3>2
    <3> QED BY <3>1, <3>2
  <2> QED BY <2>3, <2>5 DEF Challenges
<1>9. pc'[Touch(c)] = "idle" /\ \A t \in Threads : t[1] # c => pc'[t] = pc[t] /\ on'[t] = on[t]
  BY <1>1, <1>3, <1>4, ThreadFacts DEF CallShape
<1> QED BY <1>1, <1>2, <1>3, <1>5, <1>6, <1>7, <1>8, <1>9, EntryKeeps DEF Handling

\* What the challenges need of a call that is no login.
LEMMA NoLogin ==
  ASSUME SessionsInv, NEW c \in Calls, kind'[c] # "login",
         \A d \in Calls : d # c => kind'[d] = kind[d],
         \A t \in Threads : t[1] # c => pc'[t] = pc[t],
         UNCHANGED <<challenge, nonce, contested>>
  PROVE  Challenges'
<1>1. ASSUME NEW d \in Calls, LoggingIn(d)' PROVE LoggingIn(d) /\ pc'[Handler(d)] = pc[Handler(d)]
  BY <1>1, ThreadFacts DEF LoggingIn
<1> QED BY <1>1 DEF SessionsInv, Challenges

\* A refresh begins with a token that has been minted: it is rotated, found
\* reused, or refused.
LEMMA RefreshTokensKeeps ==
  ASSUME SessionsInv, NEW c \in Calls, NEW d \in Calls, RefreshTokens(c, d)
  PROVE  SessionsInv'
<1>0. SessionsShape /\ ThreadsTyped /\ CallShape(c) /\ contested \subseteq 0 .. MaxNonces
  BY DEF SessionsInv, SessionsShape, StateTyped, HistoryTyped
<1>1. PICK step \in {"rotate", "reuse", "done"} :
        /\ kind[c] = "none" /\ Minted(d)
        /\ kind' = [kind EXCEPT ![c] = "refresh"]
        /\ on' = [on EXCEPT ![Handler(c)] = on[Handler(d)]]
        /\ pc' = [pc EXCEPT ![Handler(c)] = step]
        /\ UNCHANGED <<cacheVars, issued, clock, copy, listed, nonce, sessionHistory>>
  BY DEF RefreshTokens, Go
<1>2. /\ pc'[Handler(c)] = step /\ \A t \in Threads : t # Handler(c) => pc'[t] = pc[t] /\ on'[t] = on[t]
      /\ kind'[c] = "refresh" /\ \A e \in Calls : e # c => kind'[e] = kind[e]
  BY <1>0, <1>1, ThreadFacts DEF ThreadsTyped
<1>3. ThreadsTyped'
  BY <1>0, <1>1, ThreadFacts DEF ThreadsTyped, Steps
<1>4. CallShape(c)' /\ pc'[Touch(c)] = "idle"
  BY <1>0, <1>1, <1>2, ThreadFacts DEF CallShape, RefreshSteps, Guarded
<1>5. Challenges'
  BY <1>1, <1>2, ThreadFacts, NoLogin DEF cacheVars, sessionHistory
<1>6. UNCHANGED <<cacheVars, issued, clock, copy, listed, ended, revivable, lossy, out>> /\ contested' = contested
  BY <1>1 DEF sessionHistory
<1> QED BY <1>0, <1>1, <1>2, <1>3, <1>4, <1>5, <1>6, ThreadFacts, EntryKeeps DEF Handling

\* A guarded request begins: the guard refuses it, or lets it through and starts
\* a touch in the background.
LEMMA GuardKeeps ==
  ASSUME SessionsInv, NEW c \in Calls, NEW s \in Calls, NEW target \in Calls,
         NEW k \in {"logout", "revoke", "revokeAll", "plain"},
         k = "revoke" \/ target = s, Guard(c, s, k, target)
  PROVE  SessionsInv'
<1>0. SessionsShape /\ ThreadsTyped /\ CallShape(c) /\ contested \subseteq 0 .. MaxNonces
  BY DEF SessionsInv, SessionsShape, StateTyped, HistoryTyped
<1>t. Handler(c) \in Threads /\ Touch(c) \in Threads /\ Handler(c) # Touch(c)
  BY ThreadFacts
<1>1. PICK given \in {k, "refused"}, step \in {"blacklist", "lookup", "list", "delete", "done"},
           touch \in {"touch", "idle"}, about \in {s, target}, touched \in Calls :
        /\ kind[c] = "none" /\ s \in Made
        /\ kind' = [kind EXCEPT ![c] = given]
        /\ pc' = [pc EXCEPT ![Touch(c)] = touch, ![Handler(c)] = step]
        /\ on' = [on EXCEPT ![Touch(c)] = touched, ![Handler(c)] = about]
        /\ touch = "touch" => touched = s
        /\ step \in {"blacklist", "delete"} => about = s
  <2>1. kind[c] = "none" /\ s \in Made
    BY DEF Guard, Minted, Made
  <2>2. pc[Touch(c)] = "idle" /\ on[Touch(c)] \in Calls
    BY <1>0, <1>t, <2>1 DEF CallShape, ThreadsTyped
  <2>3. CASE Valid(s)
    <3>1. kind' = [kind EXCEPT ![c] = k] /\ on' = [on EXCEPT ![Touch(c)] = s, ![Handler(c)] = target]
      BY <2>3 DEF Guard
    <3>2. PICK step \in {"blacklist", "lookup", "list", "done"} :
            /\ pc' = [pc EXCEPT ![Touch(c)] = "touch", ![Handler(c)] = step]
            /\ step = "blacklist" => k = "logout"
      <4>1. CASE k = "logout"
        BY <2>3, <4>1 DEF Guard
      <4>2. CASE k = "revoke"
        BY <2>3, <4>2 DEF Guard
      <4>3. CASE k = "revokeAll"
        BY <2>3, <4>3 DEF Guard
      <4>4. CASE k = "plain"
        BY <2>3, <4>4 DEF Guard
      <4> QED BY <4>1, <4>2, <4>3, <4>4
    <3> QED BY <2>1, <3>1, <3>2
  <2>4. CASE ~Valid(s)
    <3>1. PICK step \in {"delete", "done"} :
            /\ kind' = [kind EXCEPT ![c] = "refused"] /\ on' = [on EXCEPT ![Handler(c)] = s]
            /\ pc' = [pc EXCEPT ![Handler(c)] = step]
      BY <2>4 DEF Guard, Go
    <3>2. pc' = [pc EXCEPT ![Touch(c)] = "idle", ![Handler(c)] = step]
      BY <1>0, <1>t, <2>2, <3>1 DEF ThreadsTyped
    <3>3. on' = [on EXCEPT ![Touch(c)] = on[Touch(c)], ![Handler(c)] = s]
      BY <1>0, <1>t, <2>2, <3>1 DEF ThreadsTyped
    <3> QED BY <2>1, <2>2, <3>1, <3>2, <3>3
  <2> QED BY <2>3, <2>4
<1>2. /\ pc'[Handler(c)] = step /\ pc'[Touch(c)] = touch
      /\ on'[Handler(c)] = about /\ on'[Touch(c)] = touched
      /\ \A t \in Threads : t[1] # c => pc'[t] = pc[t] /\ on'[t] = on[t]
      /\ kind'[c] = given /\ \A e \in Calls : e # c => kind'[e] = kind[e]
  BY <1>0, <1>1, <1>t, ThreadFacts DEF ThreadsTyped
<1>6. UNCHANGED <<cacheVars, issued, clock, copy, listed, nonce, ended, revivable, lossy, out, contested>>
  BY DEF Guard, sessionHistory
<1>3. ThreadsTyped'
  BY <1>0, <1>1, <1>6, <1>t DEF ThreadsTyped, Steps, Guarded
<1>4. CallShape(c)'
  BY <1>1, <1>2 DEF CallShape, GuardedSteps, TouchSteps, Guarded
<1>5. Challenges'
  <2>1. kind'[c] # "login" /\ UNCHANGED <<challenge, nonce, contested>>
    BY <1>1, <1>2, <1>6 DEF cacheVars
  <2> QED BY <1>2, <2>1, NoLogin
<1>7. /\ step \in Handling => about \in Made
      /\ touch \in Handling => touched \in Made
  BY <1>1 DEF Handling
<1>8. \A e \in Calls : e # c => kind'[e] = kind[e] /\ nonce'[e] = nonce[e]
  BY <1>2, <1>6
<1>9. contested' \subseteq 0 .. MaxNonces
  BY <1>0, <1>6
<1>10. {pc'[Handler(c)], pc'[Touch(c)]} \subseteq
         {"idle", "consume", "rotate", "reuse", "blacklist", "lookup", "list", "delete", "touch", "done"}
  BY <1>2
<1>11. UNCHANGED <<cacheVars, issued, clock, copy, listed, ended, revivable, lossy, out>>
  BY <1>6
<1>12. \A t \in Threads : t[1] # c => pc'[t] = pc[t] /\ on'[t] = on[t]
  BY <1>2
<1> QED BY <1>1, <1>2, <1>3, <1>4, <1>5, <1>7, <1>8, <1>9, <1>10, <1>11, <1>12, EntryKeeps

\* The challenge, the index and the clock on their own.
LEMMA CacheKeeps ==
  ASSUME SessionsInv, IssueChallenge \/ ExpireChallenge \/ ExpireIndex \/ Tick
  PROVE  SessionsInv'
<1>0. SessionsShape /\ Origins /\ Revoked /\ OneIndexing /\ IndexCoversSessions /\ Challenges
  BY DEF SessionsInv
<1>1. SessionsShape'
  BY <1>0, CacheStepShape
<1>2. /\ UNCHANGED <<session, refresh, kind, pc, on, copy, listed, nonce>>
      /\ UNCHANGED <<ended, revivable, contested, out>>
      /\ index' = index \/ (index' = {} /\ lossy')
      /\ lossy' = lossy \/ lossy'
  BY DEF IssueChallenge, ExpireChallenge, ExpireIndex, Tick, cacheVars, threadVars, sessionHistory
<1>3. challenge' \in {challenge, 0, issued + 1}
  BY DEF IssueChallenge, ExpireChallenge, ExpireIndex, Tick, cacheVars
<1>4. ~lossy' => ~lossy /\ index' = index
  BY Zenon DEF IssueChallenge, ExpireChallenge, ExpireIndex, Tick, cacheVars, sessionHistory
<1>5. Origins'
  BY <1>0, <1>2 DEF Origins, Made
<1>6. Revoked'
  BY <1>0, <1>2 DEF Revoked, Held
<1>7. OneIndexing'
  BY <1>0, <1>2, <1>4 DEF OneIndexing, Indexing
<1>8. IndexCoversSessions'
  BY <1>0, <1>2, <1>4 DEF IndexCoversSessions
<1>9. Challenges'
  <2>1. issued \in Nat
    BY <1>0, SessionsAssumption DEF SessionsShape, StateTyped, CacheTyped
  <2>2. \A c \in Calls : LoggingIn(c) => nonce[c] \in 1 .. issued
    BY <1>0 DEF SessionsShape, CallShape, LoggingIn
  <2>3. \A c \in Calls : LoggingIn(c)' => LoggingIn(c)
    BY <1>2 DEF LoggingIn
  <2> QED BY <1>0, <1>2, <1>3, <2>1, <2>2, <2>3 DEF Challenges
<1> QED BY <1>1, <1>5, <1>6, <1>7, <1>8, <1>9 DEF SessionsInv

\* The inductive invariant holds before the first request.
LEMMA SessionsInvInit == SessionsInit => SessionsInv
<1> SUFFICES ASSUME SessionsInit PROVE SessionsInv
  OBVIOUS
<1>1. SessionsShape
  BY SessionsShapeInit
<1>2. \A t \in Threads : pc[t] = "idle" /\ listed[t] = {}
  BY DEF SessionsInit
<1>3. \A c \in Calls : kind[c] = "none" /\ pc[Handler(c)] = "idle" /\ pc[Touch(c)] = "idle"
  BY <1>2, ThreadFacts DEF SessionsInit
<1>4. /\ Origins /\ OneIndexing /\ IndexCoversSessions /\ Challenges
  BY <1>2, <1>3 DEF SessionsInit, Origins, OneIndexing, IndexCoversSessions, Challenges, Handling, Indexing, LoggingIn
<1>5. Revoked
  <2>1. Held = {}
    BY <1>3 DEF Held
  <2> QED BY <1>2, <1>3, <2>1 DEF Revoked, SessionsInit
<1> QED BY <1>1, <1>4, <1>5 DEF SessionsInv

\* Every step of every thread keeps the inductive invariant.
LEMMA SessionsInvStep == SessionsInv /\ [SessionsNext]_sessionsVars => SessionsInv'
<1> SUFFICES ASSUME SessionsInv, [SessionsNext]_sessionsVars PROVE SessionsInv'
  OBVIOUS
<1>1. CASE IssueChallenge \/ ExpireChallenge \/ ExpireIndex \/ Tick
  BY <1>1, CacheKeeps
<1>2. ASSUME NEW t \in Threads, Threaded(t) PROVE SessionsInv'
  BY <1>2, ReadIndexKeeps, IndexWritesKeep, RevokeKeeps DEF Threaded
<1>3. ASSUME NEW c \in Calls, NEW n \in 1 .. MaxNonces, Login(c, n) PROVE SessionsInv'
  BY <1>3, LoginKeeps
<1>4. ASSUME NEW c \in Calls,
             \/ ConsumeChallenge(c) \/ CreateSession(c) \/ TouchWrite(c) \/ DeleteAll(c) \/ DeleteIndex(c)
      PROVE  SessionsInv'
  BY <1>4, ConsumeKeeps, CreateKeeps, TouchWriteKeeps, DeleteAllKeeps, DeleteIndexKeeps
<1>5. ASSUME NEW c \in Calls,
             \/ RevokeOldToken(c) \/ Mint(c) \/ RotateDelete(c) \/ DetectReuse(c) \/ RevokeRefreshToken(c)
      PROVE  SessionsInv'
  BY <1>5, RefreshKeeps
<1>6. ASSUME NEW c \in Calls, TouchRead(c) \/ Lookup(c) \/ Blacklist(c) \/ ListAll(c)
      PROVE  SessionsInv'
  BY <1>6, ReadingKeeps
<1>7. ASSUME NEW c \in Calls, NEW d \in Calls, RefreshTokens(c, d) PROVE SessionsInv'
  BY <1>7, RefreshTokensKeeps
<1>8. ASSUME NEW c \in Calls, NEW d \in Calls, NEW k \in {"logout", "revokeAll", "plain"}, Guard(c, d, k, d)
      PROVE  SessionsInv'
  BY <1>8, GuardKeeps
<1>9. ASSUME NEW c \in Calls, NEW d \in Calls, NEW s \in Calls, Guard(c, d, "revoke", s)
      PROVE  SessionsInv'
  BY <1>9, GuardKeeps
<1>10. CASE UNCHANGED sessionsVars
  BY <1>10 DEF sessionsVars, cacheVars, threadVars, sessionHistory, SessionsInv, SessionsShape, StateTyped,
     CacheTyped, ThreadsTyped, HistoryTyped, CallShape, Origins, Made, Revoked, Held, OneIndexing, Indexing,
     IndexCoversSessions, Challenges, LoggingIn
<1> QED BY <1>1, <1>2, <1>3, <1>4, <1>5, <1>6, <1>7, <1>8, <1>9, <1>10 DEF SessionsNext

\* At most one refresh record follows from any two being the same.
LEMMA OneRecord ==
  ASSUME NEW S, \A q, r \in S : q = r
  PROVE  Cardinality(S) <= 1
<1>1. CASE S = {}
  BY <1>1, FS_EmptySet
<1>2. CASE S # {}
  <2>1. PICK r : S = {r}
    BY <1>2
  <2> QED BY <2>1, FS_Singleton
<1> QED BY <1>1, <1>2

\* Every variable of login and sessions has its type, and Redis never holds two
\* refresh records of the user: one SET replaces the other.
THEOREM SessionsTyped == SessionsSpec => []SessionsTypeOK
<1>1. SessionsInv => SessionsTypeOK
  BY OneRecord DEF SessionsInv, SessionsShape, StateTyped, CacheTyped, ThreadsTyped, SessionRecord, SessionsTypeOK
<1> QED BY <1>1, SessionsInvInit, SessionsInvStep, PTL DEF SessionsSpec

\* A session that logout, revocation or "sign out everywhere" has deleted is not
\* stored again, except by a touch that had read it before it was deleted; no
\* request comes back to life in any other order of the steps (logout,
\* revokeSession, touch).
THEOREM RevokedStaysRevoked == SessionsSpec => []LogoutHolds
<1>1. SessionsInv => LogoutHolds
  BY DEF SessionsInv, Revoked, LogoutHolds
<1> QED BY <1>1, SessionsInvInit, SessionsInvStep, PTL DEF SessionsSpec

\* Every session that can still be used is in the index of its user, or its
\* login is about to put it there, or a named overlap or expiry of the index has
\* lost it: "sign out everywhere" finds it (createSession, deleteSession,
\* deleteAllSessions).
THEOREM IndexIsComplete == SessionsSpec => []IndexCoversSessions
<1>1. SessionsInv => IndexCoversSessions
  BY DEF SessionsInv
<1> QED BY <1>1, SessionsInvInit, SessionsInvStep, PTL DEF SessionsSpec

\* One challenge logs in once, except for logins that cross between reading the
\* challenge and deleting it (verifyChallenge).
THEOREM ChallengeUsedOnce == SessionsSpec => []OneLoginPerChallenge
<1>1. SessionsInv => OneLoginPerChallenge
  BY DEF SessionsInv, Challenges, LoggingIn, OneLoginPerChallenge
<1> QED BY <1>1, SessionsInvInit, SessionsInvStep, PTL DEF SessionsSpec

-----------------------------------------------------------------------------
\* Password accounts

\* Requests that have read the row and not yet written it, of either kind.
Writes(c)  == at[c] \in {"fail", "succeed", "unlock"}
Changes(c) == at[c] \in {"history", "commit"}

\* The values of all variables; a request that changes the password holds the
\* one it wants.
AccountsShape ==
  /\ AccountsTypeOK
  /\ time \in 0 .. MaxClock
  /\ passwordHistory \in Seq(Passwords)
  /\ at \in [Attempts -> {"idle", "done", "fail", "succeed", "unlock", "history", "commit"}]
  /\ read \in [Attempts -> Nat]
  /\ wanted \in [Attempts -> SUBSET Passwords]
  /\ \A c \in Attempts : Changes(c) => \E p \in Passwords : wanted[c] = {p}
  /\ wrong \in Nat /\ streak \in Nat /\ mixed \in BOOLEAN /\ crossed \in BOOLEAN

\* No count that was read exceeds the wrong passwords there were.  Until requests
\* overlap one at a time is between reading and writing, so that what it has read
\* is still what the row holds.
OneWriter ==
  /\ \A c, d \in Attempts : Writes(c) /\ Writes(d) => c = d
  /\ \A c \in Attempts : at[c] = "fail" => read[c] = loginAttempts

\* What is known of a count that a login has read, and of the stored count.
LockoutInv ==
  /\ \A c \in Attempts : read[c] <= wrong
  /\ ~mixed => OneWriter
  /\ LockoutCounts

\* Until changes overlap, the password about to be committed is in no entry of
\* the history.
OneChange ==
  /\ \A c, d \in Attempts : Changes(c) /\ Changes(d) => c = d
  /\ \A c \in Attempts : at[c] = "commit" =>
       \A i \in 1 .. Len(passwordHistory) : passwordHistory[i] \notin wanted[c]

\* The password that is about to be stored, and those that are.
ReuseInv ==
  /\ ~crossed => OneChange
  /\ PasswordNotReused

-----------------------------------------------------------------------------
\* What setting the password and changing it have in common.
BeginsChange(c, new) ==
  /\ at[c] = "idle"
  /\ at' = [at EXCEPT ![c] = "history"]
  /\ wanted' = [wanted EXCEPT ![c] = {new}]
  /\ crossed' = (crossed \/ \E d \in Attempts : Changes(d))
  /\ UNCHANGED <<userRow, time, read, wrong, streak, mixed>>

\* setupAccount and changePassword begin alike: both read the history first.
LEMMA ChangeBegins ==
  ASSUME NEW c, NEW new, ReadForSetup(c, new) \/ ReadForChange(c, new)
  PROVE  BeginsChange(c, new)
BY DEF ReadForSetup, ReadForChange, BeginsChange, Changing, Changes

\* Every step keeps the values of the variables in their types: prune keeps a
\* sequence of passwords, of at most HistoryLimit.
LEMMA AccountsShapeStep == AccountsShape /\ [AccountsNext]_accountsVars => AccountsShape'
<1> SUFFICES ASSUME AccountsShape, [AccountsNext]_accountsVars PROVE AccountsShape'
  OBVIOUS
<1> USE AccountsAssumption DEF AccountsShape, AccountsTypeOK, Changes
<1>1. CASE PassTime
  BY <1>1 DEF PassTime, userRow
<1>2. ASSUME NEW c \in Attempts, NEW right \in BOOLEAN, ReadForLogin(c, right) PROVE AccountsShape'
  BY <1>2 DEF ReadForLogin, userRow, Writing, Locked
<1>3. ASSUME NEW c \in Attempts, FailLogin(c) PROVE AccountsShape'
  BY <1>3 DEF FailLogin
<1>4. ASSUME NEW c \in Attempts, SucceedLogin(c) \/ Unlock(c) PROVE AccountsShape'
  <2>1. Reset(c)
    BY <1>4 DEF SucceedLogin, Unlock
  <2> QED BY <2>1 DEF Reset
<1>5. ASSUME NEW c \in Attempts, ReadForUnlock(c) PROVE AccountsShape'
  BY <1>5 DEF ReadForUnlock, userRow, Writing
<1>6. ASSUME NEW c \in Attempts, NEW new \in Passwords, ReadForSetup(c, new) \/ ReadForChange(c, new)
      PROVE AccountsShape'
  <2>1. BeginsChange(c, new)
    BY <1>6, ChangeBegins
  <2> QED BY <2>1 DEF BeginsChange, userRow
<1>7. ASSUME NEW c \in Attempts, AssertPasswordNotReused(c) PROVE AccountsShape'
  BY <1>7 DEF AssertPasswordNotReused, userRow
<1>8. ASSUME NEW c \in Attempts, CommitPassword(c) PROVE AccountsShape'
  <2> USE <1>8 DEF CommitPassword
  <2>1. PICK new \in Passwords : wanted[c] = {new}
    OBVIOUS
  <2>2. passwordHistory' = Prune(<<new>> \o passwordHistory)
    BY <2>1
  <2>3. <<new>> \o passwordHistory \in Seq(Passwords)
    OBVIOUS
  <2>4. passwordHistory' \in Seq(Passwords) /\ Len(passwordHistory') <= HistoryLimit
    BY <2>2, <2>3 DEF Prune
  <2> QED BY <2>1, <2>4
<1>9. CASE UNCHANGED accountsVars
  BY <1>9 DEF accountsVars, userRow
<1> QED BY <1>1, <1>2, <1>3, <1>4, <1>5, <1>6, <1>7, <1>8, <1>9 DEF AccountsNext

\* Every step keeps the counts: a failed login writes one more than it has read,
\* and until requests overlap it has read what is stored.
LEMMA LockoutStep ==
  AccountsShape /\ LockoutInv /\ [AccountsNext]_accountsVars => LockoutInv'
<1> SUFFICES ASSUME AccountsShape, LockoutInv, [AccountsNext]_accountsVars PROVE LockoutInv'
  OBVIOUS
<1> USE AccountsAssumption
        DEF AccountsShape, AccountsTypeOK, LockoutInv, LockoutCounts, OneWriter, Writes
<1>1. CASE PassTime
  BY <1>1 DEF PassTime, userRow
<1>2. ASSUME NEW c \in Attempts, NEW right \in BOOLEAN, ReadForLogin(c, right) PROVE LockoutInv'
  BY <1>2 DEF ReadForLogin, userRow, Writing, Locked
<1>3. ASSUME NEW c \in Attempts, FailLogin(c) PROVE LockoutInv'
  BY <1>3 DEF FailLogin
<1>4. ASSUME NEW c \in Attempts, SucceedLogin(c) \/ Unlock(c) PROVE LockoutInv'
  <2>1. Reset(c) /\ at[c] \in {"succeed", "unlock"}
    BY <1>4 DEF SucceedLogin, Unlock
  <2> QED BY <2>1 DEF Reset
<1>5. ASSUME NEW c \in Attempts, ReadForUnlock(c) PROVE LockoutInv'
  BY <1>5 DEF ReadForUnlock, userRow, Writing
<1>6. ASSUME NEW c \in Attempts, NEW new \in Passwords, ReadForSetup(c, new) \/ ReadForChange(c, new)
      PROVE LockoutInv'
  <2>1. BeginsChange(c, new)
    BY <1>6, ChangeBegins
  <2> QED BY <2>1 DEF BeginsChange, userRow
<1>7. ASSUME NEW c \in Attempts, AssertPasswordNotReused(c) PROVE LockoutInv'
  BY <1>7 DEF AssertPasswordNotReused, userRow
<1>8. ASSUME NEW c \in Attempts, CommitPassword(c) PROVE LockoutInv'
  BY <1>8 DEF CommitPassword
<1>9. CASE UNCHANGED accountsVars
  BY <1>9 DEF accountsVars, userRow
<1> QED BY <1>1, <1>2, <1>3, <1>4, <1>5, <1>6, <1>7, <1>8, <1>9 DEF AccountsNext

\* Whatever is pruned, the newest entry is the first.
LEMMA PruneKeeps ==
  ASSUME NEW new \in Passwords, NEW h \in Seq(Passwords)
  PROVE  LET p == Prune(<<new>> \o h)
         IN  /\ p \in Seq(Passwords) /\ Len(p) \in 1 .. (Len(h) + 1)
             /\ p[1] = new
             /\ \A i \in 2 .. Len(p) : p[i] = h[i - 1]
BY AccountsAssumption DEF Prune

\* Every step keeps the passwords apart: one that passes assertPasswordNotReused
\* is in no entry of the history, and until changes overlap it still is in none
\* when it is stored.
LEMMA ReuseStep ==
  AccountsShape /\ ReuseInv /\ [AccountsNext]_accountsVars => ReuseInv'
<1> SUFFICES ASSUME AccountsShape, ReuseInv, [AccountsNext]_accountsVars PROVE ReuseInv'
  OBVIOUS
<1> USE AccountsAssumption
        DEF AccountsShape, ReuseInv, PasswordNotReused, OneChange, Changes
<1>0. CASE passwordHash' = passwordHash /\ passwordHistory' = passwordHistory
  <2>1. PasswordNotReused' \/ (~crossed' /\ crossed)
    BY <1>0
  <2>1a. crossed => crossed'
    BY DEF AccountsNext, PassTime, ReadForLogin, FailLogin, SucceedLogin, Unlock, Reset, ReadForUnlock, ReadForSetup, ReadForChange, AssertPasswordNotReused, CommitPassword, accountsVars
  <2>2. ASSUME ~crossed' PROVE OneChange'
    <3>1. CASE PassTime
      BY <1>0, <2>2, <3>1 DEF PassTime
    <3>2. ASSUME NEW c \in Attempts, NEW right \in BOOLEAN, ReadForLogin(c, right) PROVE OneChange'
      BY <1>0, <2>2, <3>2 DEF ReadForLogin
    <3>3. ASSUME NEW c \in Attempts, FailLogin(c) \/ SucceedLogin(c) \/ Unlock(c) PROVE OneChange'
      BY <1>0, <2>2, <3>3 DEF FailLogin, SucceedLogin, Unlock, Reset
    <3>4. ASSUME NEW c \in Attempts, ReadForUnlock(c) PROVE OneChange'
      BY <1>0, <2>2, <3>4 DEF ReadForUnlock
    <3>5. ASSUME NEW c \in Attempts, NEW new \in Passwords, ReadForSetup(c, new) \/ ReadForChange(c, new)
          PROVE OneChange'
      <4>1. BeginsChange(c, new)
        BY <3>5, ChangeBegins
      <4> QED BY <1>0, <2>2, <4>1 DEF BeginsChange
    <3>6. ASSUME NEW c \in Attempts, AssertPasswordNotReused(c) PROVE OneChange'
      BY <1>0, <2>2, <3>6 DEF AssertPasswordNotReused
    <3>7. ASSUME NEW c \in Attempts, CommitPassword(c) PROVE OneChange'
      BY <1>0, <2>2, <3>7 DEF CommitPassword
    <3>8. CASE UNCHANGED accountsVars
      BY <2>2, <3>8 DEF accountsVars, userRow
    <3> QED BY <3>1, <3>2, <3>3, <3>4, <3>5, <3>6, <3>7, <3>8 DEF AccountsNext
  <2> QED BY <2>1, <2>1a, <2>2
<1>1. ASSUME NEW c \in Attempts, CommitPassword(c) PROVE ReuseInv'
  <2>1. PICK new \in Passwords : wanted[c] = {new}
    BY <1>1 DEF CommitPassword
  <2>2. /\ passwordHistory' = Prune(<<new>> \o passwordHistory) /\ passwordHash' = {new}
        /\ UNCHANGED <<wanted, crossed>> /\ at' = [at EXCEPT ![c] = "done"] /\ at[c] = "commit"
    BY <1>1, <2>1 DEF CommitPassword
  <2> DEFINE h == passwordHistory'
  <2>3. /\ h \in Seq(Passwords) /\ Len(h) \in 1 .. (Len(passwordHistory) + 1)
        /\ h[1] = new /\ \A i \in 2 .. Len(h) : h[i] = passwordHistory[i - 1]
    BY <2>2, PruneKeeps
  <2>4. passwordHash' = {h[i] : i \in DOMAIN h \cap {1}}
    BY <2>2, <2>3
  <2>5. ASSUME ~crossed PROVE IsInjective(h)
    <3>1. \A i \in 1 .. Len(passwordHistory) : passwordHistory[i] # new
      BY <2>1, <2>2, <2>5
    <3>2. \A i, j \in 1 .. Len(passwordHistory) :
            passwordHistory[i] = passwordHistory[j] => i = j
      BY <2>5 DEF IsInjective
    <3>3. ASSUME NEW i \in DOMAIN h, NEW j \in DOMAIN h, h[i] = h[j] PROVE i = j
      <4>1. DOMAIN h = 1 .. Len(h) /\ i \in 1 .. Len(h) /\ j \in 1 .. Len(h)
        BY <2>3
      <4>2. ASSUME NEW k \in 2 .. Len(h) PROVE h[k] # new /\ k - 1 \in 1 .. Len(passwordHistory)
        BY <2>3, <3>1
      <4>3. CASE i = 1 \/ j = 1
        BY <2>3, <3>3, <4>1, <4>2, <4>3
      <4>4. CASE i # 1 /\ j # 1
        <5>1. i \in 2 .. Len(h) /\ j \in 2 .. Len(h)
          BY <4>1, <4>4
        <5>2. passwordHistory[i - 1] = passwordHistory[j - 1]
          BY <2>3, <3>3, <5>1
        <5>3. i - 1 = j - 1
          BY <3>2, <4>2, <5>1, <5>2
        <5> QED BY <5>1, <5>3
      <4> QED BY <4>3, <4>4
    <3> QED BY <3>3 DEF IsInjective
  <2>6. ~crossed => OneChange'
    BY <2>2
  <2> QED BY <2>2, <2>4, <2>5, <2>6
<1>2. \/ passwordHash' = passwordHash /\ passwordHistory' = passwordHistory
      \/ \E c \in Attempts : CommitPassword(c)
  BY DEF AccountsNext, PassTime, ReadForLogin, FailLogin, SucceedLogin, Unlock, Reset,
         ReadForUnlock, ReadForSetup, ReadForChange, AssertPasswordNotReused, accountsVars, userRow
<1> QED BY <1>0, <1>1, <1>2

\* A fresh account has no attempts, no history and nothing under way.
LEMMA AccountsStart == AccountsInit => AccountsShape /\ LockoutInv /\ ReuseInv
<1> SUFFICES ASSUME AccountsInit PROVE AccountsShape /\ LockoutInv /\ ReuseInv
  OBVIOUS
<1> USE AccountsAssumption DEF AccountsInit
<1>1. AccountsShape
  <2>1. mixed \in BOOLEAN /\ crossed \in BOOLEAN
    BY Zenon
  <2> QED BY <2>1 DEF AccountsShape, AccountsTypeOK, Changes
<1>2. LockoutInv
  BY DEF LockoutInv, LockoutCounts, OneWriter, Writes
<1>3. ReuseInv
  <2>1. passwordHash = {passwordHistory[i] : i \in DOMAIN passwordHistory \cap {1}}
    BY DOMAIN passwordHistory = {}
  <2>2. IsInjective(passwordHistory)
    BY DEF IsInjective
  <2> QED BY <2>1, <2>2 DEF ReuseInv, PasswordNotReused, OneChange, Changes
<1> QED BY <1>1, <1>2, <1>3

\* Every variable of password accounts has its type; the history of passwords
\* never exceeds its limit.
THEOREM AccountsTyped == AccountsSpec => []AccountsTypeOK
<1>1. AccountsShape => AccountsTypeOK
  BY DEF AccountsShape
<1> QED BY <1>1, AccountsStart, AccountsShapeStep, PTL DEF AccountsSpec

\* Until requests overlap, the stored count is the number of wrong passwords
\* since the last success, and the account is locked as soon as there are
\* MaxAttempts of them; whatever overlaps, the count never exceeds the wrong
\* passwords there were (recordFailedLogin).
THEOREM LockoutCounted == AccountsSpec => []LockoutCounts
<1>1. LockoutInv => LockoutCounts
  BY DEF LockoutInv
<1> QED BY <1>1, AccountsStart, AccountsShapeStep, LockoutStep, PTL DEF AccountsSpec

\* The current password is the newest entry of the history, and until two
\* changes overlap no password is in the history twice (assertPasswordNotReused,
\* changePassword).
THEOREM NoPasswordReused == AccountsSpec => []PasswordNotReused
<1>1. ReuseInv => PasswordNotReused
  BY DEF ReuseInv
<1> QED BY <1>1, AccountsStart, AccountsShapeStep, ReuseStep, PTL DEF AccountsSpec

-----------------------------------------------------------------------------
\* API keys

\* The columns of a key, and what a request of its owner is doing.
Columns == [isActive : BOOLEAN, rotationOfId : SUBSET Keys, rotationExpiresAt : Nat,
            lastUsedAt : Nat]

Deeds == [step : {"idle", "create", "mark", "drop", "clear"}, key : SUBSET Keys,
          new : SUBSET Keys]

\* Of a request, the one key it is about and, once it has one, the other.
DeedShape(d, made) ==
  \/ d = NotDoing
  \/ /\ d.step # "idle"
     /\ \E k \in made : d.key = {k}
     /\ IF d.step = "create" THEN d.new = {} ELSE \E n \in made : d.new = {n}

\* The values of all variables: a key is succeeded by a key that exists.
KeysTyped ==
  /\ ApiKeysTypeOK
  /\ \A k \in DOMAIN row :
       /\ row[k] \in Columns
       /\ row[k].rotationOfId = {} \/ \E n \in DOMAIN row : row[k].rotationOfId = {n}
  /\ doing \in [Owners -> Deeds]
  /\ \A o \in Owners : DeedShape(doing[o], DOMAIN row)
  /\ revoked \subseteq Keys /\ dropped \in BOOLEAN

\* Each key was made after the one it succeeds or will succeed.
InOrder(age, last) ==
  /\ last \in Nat /\ age \in [DOMAIN row -> 1 .. last]
  /\ \A k \in DOMAIN row : \A s \in row[k].rotationOfId : age[k] < age[s]
  /\ \A o \in Owners : doing[o].step = "mark" =>
       \A k \in doing[o].key, s \in doing[o].new : age[k] < age[s]

\* No key succeeds two, whether it does already or is about to.
OnePredecessor(gone) ==
  /\ \A j, k \in DOMAIN row : row[j].rotationOfId \cap row[k].rotationOfId # {} => j = k
  /\ \A o \in Owners : doing[o].step = "mark" =>
       /\ doing[o].new \cap gone = {}
       /\ \A k \in DOMAIN row : row[k].rotationOfId \cap doing[o].new = {}
       /\ \A p \in Owners : doing[p].step = "mark" /\ p # o => doing[p].new \cap doing[o].new = {}

\* A cancellation runs alone, and once it has revoked the new key the old one is
\* in its grace period.
CancelsAlone(gone) ==
  \A o \in Owners : doing[o].step \in {"drop", "clear"} =>
    /\ \A p \in Owners : p # o => doing[p] = NotDoing
    /\ \A k \in doing[o].key :
         /\ row[k].rotationOfId = doing[o].new
         /\ doing[o].step = "clear" => row[k].rotationExpiresAt > day

\* Of the keys gone, those a cancellation has revoked, only the one that is being
\* cleared is still in a rotation of a key that is left.
GoneAreCleared(gone) ==
  /\ gone \subseteq DOMAIN row
  /\ \A k \in DOMAIN row \ gone : row[k].rotationOfId \cap gone # {} =>
       \E o \in Owners : doing[o].step = "clear" /\ doing[o].key = {k}

\* A key that no cancellation can take away any more.
Kept(j, gone) ==
  /\ j \in DOMAIN row \ gone
  /\ \A o \in Owners : doing[o].step = "mark" => j \notin doing[o].new
  /\ \A k \in DOMAIN row : j \in row[k].rotationOfId => row[k].rotationExpiresAt <= day

\* There is one, and one after every key that was deactivated.
KeptAfter(age, gone) ==
  /\ DOMAIN row # {} => \E j \in DOMAIN row : Kept(j, gone)
  /\ \A k \in DOMAIN row \ gone : ~row[k].isActive =>
       \E j \in DOMAIN row : Kept(j, gone) /\ age[k] < age[j]

\* The keys form successions: they have an order of age, in which successors
\* come last, and of them the ones that a cancellation has revoked are known.
Succession(age, last, gone) ==
  /\ InOrder(age, last) /\ OnePredecessor(gone) /\ CancelsAlone(gone)
  /\ GoneAreCleared(gone) /\ KeptAfter(age, gone)

\* The inductive invariant of API keys; the order of the keys and the set of
\* those revoked by a cancellation are witnesses, not variables.
KeysInv ==
  /\ KeysTyped
  /\ ~dropped => \E age, last, gone : Succession(age, last, gone)

-----------------------------------------------------------------------------
\* A key that is inserted is new, and is in no rotation.
LEMMA InsertedRow ==
  ASSUME KeysTyped, NEW k \in Keys, ~Has(k), row' = InsertKey(k)
  PROVE  /\ DOMAIN row' = DOMAIN row \cup {k} /\ row'[k] = NewRow /\ NewRow \in Columns
         /\ NewRow.rotationOfId = {}
         /\ \A j \in DOMAIN row : row'[j] = row[j]
         /\ DOMAIN row' \subseteq Keys
         /\ \A j \in DOMAIN row' :
              /\ row'[j] \in Columns
              /\ row'[j].rotationOfId = {} \/ \E n \in DOMAIN row' : row'[j].rotationOfId = {n}
         /\ \A d : DeedShape(d, DOMAIN row) => DeedShape(d, DOMAIN row')
<1>1. DOMAIN row' = DOMAIN row \cup {k} /\ row'[k] = NewRow /\ \A j \in DOMAIN row : row'[j] = row[j]
  BY DEF InsertKey, Has
<1>2. NewRow \in Columns /\ NewRow.rotationOfId = {}
  BY DEF NewRow, Columns, NoKey
<1>3. ASSUME NEW j \in DOMAIN row'
      PROVE  /\ row'[j] \in Columns
             /\ row'[j].rotationOfId = {} \/ \E n \in DOMAIN row' : row'[j].rotationOfId = {n}
  BY <1>1, <1>2 DEF KeysTyped
<1>4. ASSUME NEW d, DeedShape(d, DOMAIN row) PROVE DeedShape(d, DOMAIN row')
  BY <1>1, <1>4 DEF DeedShape
<1> QED BY <1>1, <1>2, <1>3, <1>4 DEF KeysTyped, ApiKeysTypeOK

\* What holds of the rows when a step changes columns of rows that exist.
LEMMA UpdateShape ==
  ASSUME KeysTyped, DOMAIN row' = DOMAIN row,
         \A k \in DOMAIN row :
           /\ row'[k] \in Columns
           /\ row'[k].rotationOfId = {} \/ \E n \in DOMAIN row : row'[k].rotationOfId = {n}
  PROVE  /\ DOMAIN row' \subseteq Keys
         /\ \A k \in DOMAIN row' : row'[k].rotationOfId \subseteq Keys
         /\ \A k \in DOMAIN row' :
              /\ row'[k] \in Columns
              /\ row'[k].rotationOfId = {} \/ \E n \in DOMAIN row' : row'[k].rotationOfId = {n}
BY DEF KeysTyped, ApiKeysTypeOK, Columns


\* What the updates of a row leave in its columns.
LEMMA RowUpdates ==
  ASSUME NEW r \in Columns, NEW b \in BOOLEAN, NEW d \in Nat
  PROVE  /\ [r EXCEPT !.isActive = b]
              = [isActive |-> b, rotationOfId |-> r.rotationOfId,
                 rotationExpiresAt |-> r.rotationExpiresAt, lastUsedAt |-> r.lastUsedAt]
         /\ [r EXCEPT !.lastUsedAt = d]
              = [isActive |-> r.isActive, rotationOfId |-> r.rotationOfId,
                 rotationExpiresAt |-> r.rotationExpiresAt, lastUsedAt |-> d]
BY DEF Columns

\* What ending a rotation leaves in the columns of the old key.
LEMMA FinalUpdate ==
  ASSUME NEW r \in Columns, NEW b \in BOOLEAN, NEW d \in Nat
  PROVE  [r EXCEPT !.isActive = b, !.rotationExpiresAt = d]
           = [isActive |-> b, rotationOfId |-> r.rotationOfId,
              rotationExpiresAt |-> d, lastUsedAt |-> r.lastUsedAt]
<1> DEFINE q == [r EXCEPT !.isActive = b]
<1>1. q \in Columns /\ q.isActive = b /\ q.rotationOfId = r.rotationOfId /\ q.lastUsedAt = r.lastUsedAt
  BY DEF Columns
<1>2. [r EXCEPT !.isActive = b, !.rotationExpiresAt = d] = [q EXCEPT !.rotationExpiresAt = d]
  OBVIOUS
<1> HIDE DEF q
<1>3. [q EXCEPT !.rotationExpiresAt = d]
        = [isActive |-> q.isActive, rotationOfId |-> q.rotationOfId,
           rotationExpiresAt |-> d, lastUsedAt |-> q.lastUsedAt]
  BY <1>1 DEF Columns
<1> QED BY <1>1, <1>2, <1>3

\* What marking or clearing a rotation leaves in the columns of the old key.
LEMMA RotationUpdate ==
  ASSUME NEW r \in Columns, NEW d \in Nat, NEW n \in SUBSET Keys
  PROVE  [r EXCEPT !.rotationOfId = n, !.rotationExpiresAt = d]
           = [isActive |-> r.isActive, rotationOfId |-> n,
              rotationExpiresAt |-> d, lastUsedAt |-> r.lastUsedAt]
<1> DEFINE q == [r EXCEPT !.rotationOfId = n]
<1>1. q \in Columns /\ q.isActive = r.isActive /\ q.rotationOfId = n /\ q.lastUsedAt = r.lastUsedAt
  BY DEF Columns
<1>2. [r EXCEPT !.rotationOfId = n, !.rotationExpiresAt = d] = [q EXCEPT !.rotationExpiresAt = d]
  OBVIOUS
<1> HIDE DEF q
<1>3. [q EXCEPT !.rotationExpiresAt = d]
        = [isActive |-> q.isActive, rotationOfId |-> q.rotationOfId,
           rotationExpiresAt |-> d, lastUsedAt |-> q.lastUsedAt]
  BY <1>1 DEF Columns
<1> QED BY <1>1, <1>2, <1>3

\* A request that begins is counted, up to the bound on requests.
LEMMA BeginTyped ==
  ASSUME KeysTyped, NEW o \in Owners, NEW harm \in BOOLEAN, BeginRequest(o, harm)
  PROVE  requests' \in 0 .. MaxRequests /\ dropped' \in BOOLEAN
BY ApiKeysAssumption DEF BeginRequest, KeysTyped, ApiKeysTypeOK

\* The sweep deactivates overdue and stale keys and leaves all rotations alone.
LEMMA SweepRows ==
  ASSUME KeysTyped, Sweep
  PROVE  /\ DOMAIN row' = DOMAIN row
         /\ \A k \in DOMAIN row :
              /\ row'[k] \in Columns
              /\ row'[k].rotationOfId = row[k].rotationOfId
              /\ row'[k].rotationExpiresAt = row[k].rotationExpiresAt
              /\ row'[k].isActive <=> row[k].isActive /\ k \notin Overdue \cup Stale
<1>1. DOMAIN row' = DOMAIN row
      /\ \A k \in DOMAIN row :
           row'[k] = [row[k] EXCEPT !.isActive = row[k].isActive /\ k \notin Overdue \cup Stale]
  BY DEF Sweep
<1>2. ASSUME NEW k \in DOMAIN row
      PROVE  /\ row'[k] \in Columns
             /\ row'[k].rotationOfId = row[k].rotationOfId
             /\ row'[k].rotationExpiresAt = row[k].rotationExpiresAt
             /\ row'[k].isActive <=> row[k].isActive /\ k \notin Overdue \cup Stale
  <2> DEFINE b == row[k].isActive /\ k \notin Overdue \cup Stale
  <2>1. b \in BOOLEAN /\ row[k] \in Columns
    BY DEF KeysTyped, Columns
  <2>2. row'[k] = [row[k] EXCEPT !.isActive = b]
    BY <1>1
  <2> HIDE DEF b
  <2>3. row'[k] = [isActive |-> b, rotationOfId |-> row[k].rotationOfId,
                   rotationExpiresAt |-> row[k].rotationExpiresAt, lastUsedAt |-> row[k].lastUsedAt]
    BY <2>1, <2>2, RowUpdates
  <2>4. /\ row'[k].rotationOfId = row[k].rotationOfId
        /\ row'[k].rotationExpiresAt = row[k].rotationExpiresAt
        /\ row'[k].isActive = b /\ row'[k] \in Columns
    BY <2>1, <2>3 DEF Columns
  <2> QED BY <2>4 DEF b
<1> QED BY <1>1, <1>2

\* The other steps write one row at most; the columns of that row are given.
Updates(k, active, of, expires) ==
  /\ k \in DOMAIN row /\ DOMAIN row' = DOMAIN row
  /\ \A j \in DOMAIN row : j # k => row'[j] = row[j]
  /\ row'[k] \in Columns
  /\ row'[k].isActive = active /\ row'[k].rotationOfId = of
  /\ row'[k].rotationExpiresAt = expires

\* An assignment to columns of one row is an update of that row alone.
LEMMA RowsWritten ==
  ASSUME KeysTyped, NEW k \in DOMAIN row, NEW b \in BOOLEAN, NEW d \in Nat, NEW n \in SUBSET Keys
  PROVE  /\ row' = [row EXCEPT ![k].isActive = b] =>
              Updates(k, b, row[k].rotationOfId, row[k].rotationExpiresAt)
         /\ row' = [row EXCEPT ![k].lastUsedAt = d] =>
              Updates(k, row[k].isActive, row[k].rotationOfId, row[k].rotationExpiresAt)
         /\ row' = [row EXCEPT ![k] = [@ EXCEPT !.isActive = b, !.rotationExpiresAt = d]] =>
              Updates(k, b, row[k].rotationOfId, d)
         /\ row' = [row EXCEPT ![k] = [@ EXCEPT !.rotationOfId = n, !.rotationExpiresAt = d]] =>
              Updates(k, row[k].isActive, n, d)
<1>1. row[k] \in Columns
  BY DEF KeysTyped
<1>2. ASSUME NEW r \in Columns, row' = [row EXCEPT ![k] = r]
      PROVE  Updates(k, r.isActive, r.rotationOfId, r.rotationExpiresAt)
  BY <1>2 DEF Updates
<1>3. ASSUME row' = [row EXCEPT ![k].isActive = b]
      PROVE  Updates(k, b, row[k].rotationOfId, row[k].rotationExpiresAt)
  <2> DEFINE r == [isActive |-> b, rotationOfId |-> row[k].rotationOfId,
                   rotationExpiresAt |-> row[k].rotationExpiresAt, lastUsedAt |-> row[k].lastUsedAt]
  <2>1. row' = [row EXCEPT ![k] = r]
    BY <1>1, <1>3, RowUpdates
  <2>2. r \in Columns
    BY <1>1 DEF Columns
  <2> QED BY <1>2, <2>1, <2>2
<1>4. ASSUME row' = [row EXCEPT ![k].lastUsedAt = d]
      PROVE  Updates(k, row[k].isActive, row[k].rotationOfId, row[k].rotationExpiresAt)
  <2> DEFINE r == [isActive |-> row[k].isActive, rotationOfId |-> row[k].rotationOfId,
                   rotationExpiresAt |-> row[k].rotationExpiresAt, lastUsedAt |-> d]
  <2>1. row' = [row EXCEPT ![k] = r]
    BY <1>1, <1>4, RowUpdates
  <2>2. r \in Columns
    BY <1>1 DEF Columns
  <2> QED BY <1>2, <2>1, <2>2
<1>5. ASSUME row' = [row EXCEPT ![k] = [@ EXCEPT !.isActive = b, !.rotationExpiresAt = d]]
      PROVE  Updates(k, b, row[k].rotationOfId, d)
  <2> DEFINE r == [isActive |-> b, rotationOfId |-> row[k].rotationOfId,
                   rotationExpiresAt |-> d, lastUsedAt |-> row[k].lastUsedAt]
  <2>1. [row[k] EXCEPT !.isActive = b, !.rotationExpiresAt = d] = r
    BY <1>1, FinalUpdate
  <2>2. r \in Columns
    BY <1>1 DEF Columns
  <2>3. row' = [row EXCEPT ![k] = [row[k] EXCEPT !.isActive = b, !.rotationExpiresAt = d]]
    BY <1>5, Zenon
  <2> HIDE DEF r
  <2>4. row' = [row EXCEPT ![k] = r]
    BY <2>1, <2>3
  <2>5. Updates(k, r.isActive, r.rotationOfId, r.rotationExpiresAt)
    BY <1>2, <2>2, <2>4
  <2> QED BY <2>5 DEF r
<1>6. ASSUME row' = [row EXCEPT ![k] = [@ EXCEPT !.rotationOfId = n, !.rotationExpiresAt = d]]
      PROVE  Updates(k, row[k].isActive, n, d)
  <2> DEFINE r == [isActive |-> row[k].isActive, rotationOfId |-> n,
                   rotationExpiresAt |-> d, lastUsedAt |-> row[k].lastUsedAt]
  <2>1. [row[k] EXCEPT !.rotationOfId = n, !.rotationExpiresAt = d] = r
    BY <1>1, RotationUpdate
  <2>2. r \in Columns
    BY <1>1 DEF Columns
  <2>3. row' = [row EXCEPT ![k] = [row[k] EXCEPT !.rotationOfId = n, !.rotationExpiresAt = d]]
    BY <1>6, Zenon
  <2> HIDE DEF r
  <2>4. row' = [row EXCEPT ![k] = r]
    BY <2>1, <2>3
  <2>5. Updates(k, r.isActive, r.rotationOfId, r.rotationExpiresAt)
    BY <1>2, <2>2, <2>4
  <2> QED BY <2>5 DEF r
<1> QED BY <1>3, <1>4, <1>5, <1>6


\* The part of them that is about the rows.
RowsTyped ==
  /\ DOMAIN row \subseteq Keys
  /\ \A k \in DOMAIN row :
       /\ row[k] \in Columns
       /\ row[k].rotationOfId = {} \/ \E n \in DOMAIN row : row[k].rotationOfId = {n}

\* The types of the keys, with those of the rows apart.
LEMMA TypedParts ==
  KeysTyped <=> /\ RowsTyped
                /\ day \in 1 .. MaxDay /\ requests \in 0 .. MaxRequests
                /\ doing \in [Owners -> Deeds] /\ \A o \in Owners : DeedShape(doing[o], DOMAIN row)
                /\ revoked \subseteq Keys /\ dropped \in BOOLEAN
BY DEF KeysTyped, RowsTyped, ApiKeysTypeOK, Columns

\* An update of one row keeps the types when the row it points to exists.
LEMMA UpdatesTyped ==
  ASSUME KeysTyped, NEW k, NEW active, NEW of, NEW expires, Updates(k, active, of, expires),
         of = {} \/ \E n \in DOMAIN row : of = {n}
  PROVE  RowsTyped' /\ DOMAIN row' = DOMAIN row
BY DEF KeysTyped, ApiKeysTypeOK, Updates, RowsTyped, DeedShape

\* The rows a request is about exist, and so do its keys' successors.
LEMMA DeedKeys ==
  ASSUME KeysTyped, NEW o \in Owners, doing[o].step # "idle"
  PROVE  /\ \E k \in DOMAIN row : doing[o].key = {k}
         /\ IF doing[o].step = "create" THEN doing[o].new = {}
            ELSE \E n \in DOMAIN row : doing[o].new = {n}
BY DEF KeysTyped, DeedShape, NotDoing

\* Doing nothing is a deed.
LEMMA IdleKeysTyped == NotDoing \in Deeds /\ (\A made : DeedShape(NotDoing, made)) /\ NotDoing.step = "idle"
BY DEF NotDoing, Deeds, DeedShape, NoKey

\* What the steps that write one row leave in its columns.
LEMMA UpdatesOf ==
  ASSUME KeysTyped, NEW o, NEW k \in Keys
  PROVE  /\ UseKey(k) => Updates(k, row[k].isActive, row[k].rotationOfId, row[k].rotationExpiresAt)
         /\ UseOldKey(k) \/ RevokeKey(o, k) =>
              Updates(k, FALSE, row[k].rotationOfId, row[k].rotationExpiresAt)
         /\ FinalizeRotation(o, k) => Updates(k, FALSE, row[k].rotationOfId, day)
<1> USE ApiKeysAssumption
<1>1. /\ k \in DOMAIN row => row[k].rotationOfId \in SUBSET Keys /\ row[k].rotationExpiresAt \in Nat
      /\ day \in Nat
  BY DEF KeysTyped, Columns, ApiKeysTypeOK
<1>2. ASSUME UseKey(k)
      PROVE Updates(k, row[k].isActive, row[k].rotationOfId, row[k].rotationExpiresAt)
  <2>1. k \in DOMAIN row /\ row' = [row EXCEPT ![k].lastUsedAt = day]
    BY <1>2 DEF UseKey, Accepted, Has
  <2> QED BY <1>1, <2>1, RowsWritten
<1>3. ASSUME UseOldKey(k) \/ RevokeKey(o, k)
      PROVE Updates(k, FALSE, row[k].rotationOfId, row[k].rotationExpiresAt)
  <2>1. k \in DOMAIN row /\ row' = [row EXCEPT ![k].isActive = FALSE]
    BY <1>3 DEF UseOldKey, RevokeKey, Has
  <2> QED BY <1>1, <2>1, RowsWritten
<1>4. ASSUME FinalizeRotation(o, k) PROVE Updates(k, FALSE, row[k].rotationOfId, day)
  <2>1. k \in DOMAIN row /\ row' = [row EXCEPT ![k] = [@ EXCEPT !.isActive = FALSE, !.rotationExpiresAt = day]]
    BY <1>4 DEF FinalizeRotation, Has
  <2> QED BY <1>1, <2>1, RowsWritten
<1> QED BY <1>2, <1>3, <1>4

\* What the steps of rotating and of cancelling a rotation leave in the columns
\* of the one row they write.
LEMMA UpdatesInRotation ==
  ASSUME KeysTyped, NEW o \in Owners
  PROVE  /\ MarkRotated(o) => \E k, n \in DOMAIN row :
              /\ doing[o].key = {k} /\ doing[o].new = {n}
              /\ Updates(k, row[k].isActive, {n}, day + Grace)
         /\ DropSuccessor(o) => \E k, n \in DOMAIN row :
              /\ doing[o].key = {k} /\ doing[o].new = {n}
              /\ Updates(n, FALSE, row[n].rotationOfId, row[n].rotationExpiresAt)
         /\ ClearRotation(o) => \E k, n \in DOMAIN row :
              /\ doing[o].key = {k} /\ doing[o].new = {n}
              /\ Updates(k, row[k].isActive, {}, 0)
<1> USE ApiKeysAssumption
<1>1. day + Grace \in Nat /\ 0 \in Nat /\ {} \in SUBSET Keys /\ DOMAIN row \subseteq Keys
  BY DEF KeysTyped, ApiKeysTypeOK
<1>2. ASSUME doing[o].step \in {"mark", "drop", "clear"}
      PROVE  \E k, n \in DOMAIN row : doing[o].key = {k} /\ doing[o].new = {n}
  BY <1>2, DeedKeys
<1>3. ASSUME MarkRotated(o)
      PROVE  \E k, n \in DOMAIN row : /\ doing[o].key = {k} /\ doing[o].new = {n}
                                      /\ Updates(k, row[k].isActive, {n}, day + Grace)
  <2>1. PICK k, n \in DOMAIN row : doing[o].key = {k} /\ doing[o].new = {n}
    BY <1>2, <1>3 DEF MarkRotated
  <2>2. row' = [row EXCEPT ![k] = [@ EXCEPT !.rotationOfId = {n}, !.rotationExpiresAt = day + Grace]]
    BY <1>3, <2>1 DEF MarkRotated
  <2>3. {n} \in SUBSET Keys
    BY <1>1
  <2>4. Updates(k, row[k].isActive, {n}, day + Grace)
    BY <1>1, <2>2, <2>3, RowsWritten
  <2> QED BY <2>1, <2>4
<1>4. ASSUME DropSuccessor(o)
      PROVE  \E k, n \in DOMAIN row : /\ doing[o].key = {k} /\ doing[o].new = {n}
                                      /\ Updates(n, FALSE, row[n].rotationOfId, row[n].rotationExpiresAt)
  <2>1. PICK k, n \in DOMAIN row : doing[o].key = {k} /\ doing[o].new = {n}
    BY <1>2, <1>4 DEF DropSuccessor
  <2>2. row' = [row EXCEPT ![n].isActive = FALSE]
    BY <1>4, <2>1 DEF DropSuccessor
  <2>3. Updates(n, FALSE, row[n].rotationOfId, row[n].rotationExpiresAt)
    BY <1>1, <2>2, RowsWritten
  <2> QED BY <2>1, <2>3
<1>5. ASSUME ClearRotation(o)
      PROVE  \E k, n \in DOMAIN row : /\ doing[o].key = {k} /\ doing[o].new = {n}
                                      /\ Updates(k, row[k].isActive, {}, 0)
  <2>1. PICK k, n \in DOMAIN row : doing[o].key = {k} /\ doing[o].new = {n}
    BY <1>2, <1>5 DEF ClearRotation
  <2>2. row' = [row EXCEPT ![k] = [@ EXCEPT !.rotationOfId = {}, !.rotationExpiresAt = 0]]
    BY <1>5, <2>1 DEF ClearRotation, NoKey
  <2>3. Updates(k, row[k].isActive, {}, 0)
    BY <1>1, <2>2, RowsWritten
  <2> QED BY <2>1, <2>3
<1> QED BY <1>3, <1>4, <1>5

\* Every step keeps the types of the keys.
LEMMA KeysTypedStep == KeysTyped /\ [ApiKeysNext]_apiKeysVars => KeysTyped'
<1> SUFFICES ASSUME KeysTyped, [ApiKeysNext]_apiKeysVars PROVE KeysTyped'
  OBVIOUS
<1> USE ApiKeysAssumption
<1> DEFINE Others == /\ day' \in 1 .. MaxDay /\ requests' \in 0 .. MaxRequests
                     /\ revoked' \subseteq Keys /\ dropped' \in BOOLEAN
           Doings == doing' \in [Owners -> Deeds] /\ \A o \in Owners : DeedShape(doing'[o], DOMAIN row')
<1>0. /\ RowsTyped /\ day \in 1 .. MaxDay /\ requests \in 0 .. MaxRequests
      /\ doing \in [Owners -> Deeds] /\ \A o \in Owners : DeedShape(doing[o], DOMAIN row)
      /\ revoked \subseteq Keys /\ dropped \in BOOLEAN
  BY TypedParts
<1>a. RowsTyped' /\ Others /\ Doings => KeysTyped'
  BY DEF KeysTyped, RowsTyped, ApiKeysTypeOK, Columns
<1>b. row' = row => RowsTyped' /\ DOMAIN row' = DOMAIN row
  BY <1>0 DEF RowsTyped, DeedShape
<1>c. ASSUME NEW k \in DOMAIN row PROVE row[k].rotationOfId = {} \/ \E n \in DOMAIN row : row[k].rotationOfId = {n}
  BY <1>0 DEF RowsTyped
<1>d. ASSUME NEW o \in Owners, doing' = [doing EXCEPT ![o] = NotDoing], DOMAIN row' = DOMAIN row 
      PROVE Doings
  BY <1>0, <1>d, IdleKeysTyped
<1>e. ASSUME doing' = doing, DOMAIN row' = DOMAIN row PROVE Doings
  BY <1>0, <1>e
<1> HIDE DEF Doings
<1>1. CASE NextDay
  BY <1>0, <1>1, <1>a, <1>b, <1>e DEF NextDay
<1>2. CASE Sweep
  <2>1. Others /\ doing' = doing
    BY <1>0, <1>2 DEF Sweep
  <2>2. RowsTyped' /\ DOMAIN row' = DOMAIN row
    BY <1>0, <1>2, SweepRows DEF RowsTyped, DeedShape
  <2> QED BY <1>a, <1>e, <2>1, <2>2
<1>3. ASSUME NEW k \in Keys, UseKey(k) \/ UseOldKey(k) PROVE KeysTyped'
  <2>1. Others /\ doing' = doing /\ k \in DOMAIN row
    BY <1>0, <1>3 DEF UseKey, UseOldKey, Accepted, Has
  <2>2. RowsTyped' /\ DOMAIN row' = DOMAIN row
    <3>1. CASE UseKey(k)
      <4>1. Updates(k, row[k].isActive, row[k].rotationOfId, row[k].rotationExpiresAt)
        BY <3>1, UpdatesOf
      <4> QED BY <1>c, <2>1, <4>1, UpdatesTyped
    <3>2. CASE UseOldKey(k)
      <4>1. Updates(k, FALSE, row[k].rotationOfId, row[k].rotationExpiresAt)
        BY <3>2, UpdatesOf
      <4> QED BY <1>c, <2>1, <4>1, UpdatesTyped
    <3> QED BY <1>3, <3>1, <3>2
  <2> QED BY <1>a, <1>e, <2>1, <2>2
<1>4. ASSUME NEW o \in Owners, NEW k \in Keys, CreateKey(o, k) PROVE KeysTyped'
  <2>1. BeginRequest(o, FALSE) /\ ~Has(k) /\ row' = InsertKey(k) /\ UNCHANGED <<day, doing, revoked>>
    BY <1>4 DEF CreateKey
  <2>2. Others
    BY <1>0, <2>1, BeginTyped
  <2>3. RowsTyped' /\ \A d : DeedShape(d, DOMAIN row) => DeedShape(d, DOMAIN row')
    BY <2>1, InsertedRow DEF RowsTyped
  <2> QED BY <1>0, <1>a, <2>1, <2>2, <2>3 DEF Doings
<1>5. ASSUME NEW o \in Owners, NEW k \in Keys, BeginRotation(o, k) PROVE KeysTyped'
  <2>1. BeginRequest(o, FALSE) /\ k \in DOMAIN row /\ UNCHANGED <<row, day, revoked>>
        /\ doing' = [doing EXCEPT ![o] = [step |-> "create", key |-> {k}, new |-> {}]]
    BY <1>5 DEF BeginRotation, Rotatable, Has, NoKey
  <2>2. Others
    BY <1>0, <2>1, BeginTyped
  <2>3. Doings
    <3> DEFINE d == [step |-> "create", key |-> {k}, new |-> {}]
    <3>1. d \in Deeds /\ DeedShape(d, DOMAIN row)
      BY <2>1 DEF Deeds, DeedShape
    <3> HIDE DEF d
    <3> QED BY <1>0, <1>b, <2>1, <3>1 DEF Doings, d
  <2> QED BY <1>a, <1>b, <2>1, <2>2, <2>3
<1>6. ASSUME NEW o \in Owners, NEW n \in Keys, CreateSuccessor(o, n) PROVE KeysTyped'
  <2>1. ~Has(n) /\ row' = InsertKey(n) /\ UNCHANGED <<day, requests, revoked, dropped>>
        /\ doing[o].step = "create"
        /\ doing' = [doing EXCEPT ![o] = [step |-> "mark", key |-> doing[o].key, new |-> {n}]]
    BY <1>6 DEF CreateSuccessor
  <2>2. RowsTyped' /\ DOMAIN row' = DOMAIN row \cup {n} /\ \A d : DeedShape(d, DOMAIN row) => DeedShape(d, DOMAIN row')
    BY <2>1, InsertedRow DEF RowsTyped
  <2>3. Doings
    <3> DEFINE d == [step |-> "mark", key |-> doing[o].key, new |-> {n}]
    <3>1. d \in Deeds
      BY <1>0 DEF Deeds
    <3>2. DeedShape(d, DOMAIN row')
      <4>1. PICK k \in DOMAIN row : doing[o].key = {k}
        BY <2>1, DeedKeys
      <4> QED BY <2>1, <2>2, <4>1 DEF DeedShape
    <3> HIDE DEF d
    <3> QED BY <1>0, <2>1, <2>2, <3>1, <3>2 DEF Doings, d
  <2> QED BY <1>0, <1>a, <2>1, <2>2, <2>3
<1>7. ASSUME NEW o \in Owners, MarkRotated(o) PROVE KeysTyped'
  <2>1. Others /\ doing' = [doing EXCEPT ![o] = NotDoing]
    BY <1>0, <1>7 DEF MarkRotated
  <2>2. PICK k, n \in DOMAIN row : Updates(k, row[k].isActive, {n}, day + Grace)
    BY <1>7, UpdatesInRotation
  <2>3. RowsTyped' /\ DOMAIN row' = DOMAIN row
    BY <2>2, UpdatesTyped
  <2> QED BY <1>a, <1>d, <2>1, <2>3
<1>8. ASSUME NEW o \in Owners, NEW k \in Keys, FinalizeRotation(o, k) \/ RevokeKey(o, k) PROVE KeysTyped'
  <2>1. PICK harm \in BOOLEAN : BeginRequest(o, harm)
    BY <1>8 DEF FinalizeRotation, RevokeKey
  <2>2. k \in DOMAIN row /\ UNCHANGED <<day, doing>> /\ revoked' \subseteq Keys
    BY <1>0, <1>8 DEF FinalizeRotation, RevokeKey, Has
  <2>3. Others
    BY <1>0, <2>1, <2>2, BeginTyped
  <2>4. RowsTyped' /\ DOMAIN row' = DOMAIN row
    <3>1. PICK e : Updates(k, FALSE, row[k].rotationOfId, e)
      BY <1>8, UpdatesOf
    <3> QED BY <1>c, <2>2, <3>1, UpdatesTyped
  <2> QED BY <1>a, <1>e, <2>2, <2>3, <2>4
<1>9. ASSUME NEW o \in Owners, NEW k \in Keys, BeginCancel(o, k) PROVE KeysTyped'
  <2>1. /\ k \in DOMAIN row /\ row[k].rotationOfId # {} /\ UNCHANGED <<row, day, revoked>>
        /\ doing' = [doing EXCEPT ![o] = [step |-> "drop", key |-> {k}, new |-> row[k].rotationOfId]]
        /\ \E harm \in BOOLEAN : BeginRequest(o, harm)
    BY <1>9 DEF BeginCancel, InRotation, Has, NoKey
  <2>2. Others
    BY <1>0, <2>1, BeginTyped
  <2>3. Doings
    <3> DEFINE d == [step |-> "drop", key |-> {k}, new |-> row[k].rotationOfId]
    <3>1. d \in Deeds /\ DeedShape(d, DOMAIN row)
      BY <1>0, <1>c, <2>1 DEF Deeds, DeedShape, RowsTyped, Columns
    <3> HIDE DEF d
    <3> QED BY <1>0, <1>b, <2>1, <3>1 DEF Doings, d
  <2> QED BY <1>a, <1>b, <2>1, <2>2, <2>3
<1>10. ASSUME NEW o \in Owners, DropSuccessor(o) PROVE KeysTyped'
  <2>1. Others /\ doing' = [doing EXCEPT ![o].step = "clear"] /\ doing[o].step = "drop"
    BY <1>0, <1>10 DEF DropSuccessor
  <2>2. PICK k, n \in DOMAIN row : /\ doing[o].key = {k} /\ doing[o].new = {n}
                                   /\ Updates(n, FALSE, row[n].rotationOfId, row[n].rotationExpiresAt)
    BY <1>10, UpdatesInRotation
  <2>3. RowsTyped' /\ DOMAIN row' = DOMAIN row
    BY <1>c, <2>2, UpdatesTyped DEF Updates
  <2>4. Doings
    <3> DEFINE d == [step |-> "clear", key |-> {k}, new |-> {n}]
    <3>1. d \in Deeds /\ DeedShape(d, DOMAIN row)
      BY <1>0, <2>2 DEF Deeds, DeedShape, RowsTyped
    <3>2. [doing[o] EXCEPT !.step = "clear"] = d
      <4>1. doing[o] \in Deeds
        BY <1>0
      <4> QED BY <2>2, <4>1 DEF Deeds
    <3> HIDE DEF d
    <3>3. doing' = [doing EXCEPT ![o] = d]
      BY <2>1, <3>2
    <3> QED BY <1>0, <2>3, <3>1, <3>3 DEF Doings
  <2> QED BY <1>a, <2>1, <2>3, <2>4
<1>11. ASSUME NEW o \in Owners, ClearRotation(o) PROVE KeysTyped'
  <2>1. Others /\ doing' = [doing EXCEPT ![o] = NotDoing]
    BY <1>0, <1>11 DEF ClearRotation
  <2>2. PICK k \in DOMAIN row : Updates(k, row[k].isActive, {}, 0)
    BY <1>11, UpdatesInRotation
  <2>3. RowsTyped' /\ DOMAIN row' = DOMAIN row
    BY <2>2, UpdatesTyped
  <2> QED BY <1>a, <1>d, <2>1, <2>3
<1>12. ASSUME NEW o \in Owners, BreakOff(o) PROVE KeysTyped'
  BY <1>0, <1>12, <1>a, <1>b, <1>d DEF BreakOff
<1>13. CASE UNCHANGED apiKeysVars
  BY <1>0, <1>13, <1>a, <1>b, <1>e DEF apiKeysVars
<1> QED BY <1>1, <1>2, <1>3, <1>4, <1>5, <1>6, <1>7, <1>8, <1>9, <1>10, <1>11, <1>12, <1>13 DEF ApiKeysNext


-----------------------------------------------------------------------------
\* A key in a rotation that no cancellation is clearing has its successor left.
LEMMA SuccessorLeft ==
  ASSUME KeysTyped, NEW age, NEW last, NEW gone, Succession(age, last, gone),
         NEW k \in DOMAIN row \ gone, row[k].rotationOfId # {},
         \A o \in Owners : doing[o].step = "clear" => k \notin doing[o].key
  PROVE  \E s \in DOMAIN row \ gone :
           /\ row[k].rotationOfId = {s} /\ age[k] < age[s]
           /\ \A o \in Owners : doing[o].step = "mark" => s \notin doing[o].new
           /\ \A j \in DOMAIN row : s \in row[j].rotationOfId => j = k
<1>1. PICK s \in DOMAIN row : row[k].rotationOfId = {s}
  BY DEF KeysTyped
<1>2. s \notin gone
  BY <1>1 DEF Succession, GoneAreCleared
<1>3. age[k] < age[s]
  BY <1>1 DEF Succession, InOrder
<1>4. \A o \in Owners : doing[o].step = "mark" => s \notin doing[o].new
  BY <1>1 DEF Succession, OnePredecessor
<1>5. \A j \in DOMAIN row : s \in row[j].rotationOfId => j = k
  BY <1>1 DEF Succession, OnePredecessor
<1> QED BY <1>1, <1>2, <1>3, <1>4, <1>5

\* Steps that leave the requests and the rotations as they are: nothing gets back
\* into its grace period, and what is deactivated is past it.
LEMMA CalmKeeps ==
  ASSUME KeysTyped, NEW age, NEW last, NEW gone, Succession(age, last, gone),
         doing' = doing, DOMAIN row' = DOMAIN row,
         \A k \in DOMAIN row :
           /\ row'[k].rotationOfId = row[k].rotationOfId
           /\ row[k].rotationExpiresAt <= day => row'[k].rotationExpiresAt <= day'
           /\ row[k].isActive /\ ~row'[k].isActive =>
                /\ row[k].rotationOfId # {} /\ row'[k].rotationExpiresAt <= day'
                /\ \A o \in Owners : doing[o].step = "clear" => k \notin doing[o].key,
         \A o \in Owners : doing[o].step = "clear" =>
           \A k \in doing[o].key : row'[k].rotationExpiresAt > day'
  PROVE  Succession(age, last, gone)'
<1>0. \A k \in DOMAIN row : row'[k].rotationOfId = row[k].rotationOfId
  OBVIOUS
<1>1. InOrder(age, last)' /\ OnePredecessor(gone)' /\ GoneAreCleared(gone)'
  BY <1>0 DEF Succession, InOrder, OnePredecessor, GoneAreCleared
<1>2. CancelsAlone(gone)'
  <2>1. \A o \in Owners : doing[o].step \in {"drop", "clear"} => doing[o].key \subseteq DOMAIN row
    BY DeedKeys
  <2> QED BY <2>1 DEF Succession, CancelsAlone
<1>3. \A j \in DOMAIN row : Kept(j, gone) => Kept(j, gone)'
  BY DEF Kept
<1>4. ASSUME NEW k \in DOMAIN row \ gone, ~row'[k].isActive
      PROVE  \E j \in DOMAIN row : Kept(j, gone)' /\ age[k] < age[j]
  <2>1. CASE ~row[k].isActive
    BY <1>3, <2>1 DEF Succession, KeptAfter
  <2>2. CASE row[k].isActive
    <3>1. /\ row[k].rotationOfId # {} /\ row'[k].rotationExpiresAt <= day'
          /\ \A o \in Owners : doing[o].step = "clear" => k \notin doing[o].key
      BY <1>4, <2>2
    <3>2. PICK s \in DOMAIN row \ gone :
            /\ row[k].rotationOfId = {s} /\ age[k] < age[s]
            /\ \A o \in Owners : doing[o].step = "mark" => s \notin doing[o].new
            /\ \A j \in DOMAIN row : s \in row[j].rotationOfId => j = k
      BY <3>1, SuccessorLeft
    <3>3. Kept(s, gone)'
      BY <1>0, <3>1, <3>2 DEF Kept
    <3> QED BY <3>2, <3>3
  <2> QED BY <2>1, <2>2
<1>5. KeptAfter(age, gone)'
  BY <1>3, <1>4 DEF Succession, KeptAfter
<1> QED BY <1>1, <1>2, <1>5 DEF Succession

\* As long as no harm is noted, a request begins while its owner does nothing
\* else and while no cancellation is under way.
LEMMA RequestsBegin ==
  ASSUME NEW o \in Owners, NEW harm \in BOOLEAN, BeginRequest(o, harm), ~dropped'
  PROVE  /\ ~dropped /\ ~harm /\ doing[o] = NotDoing
         /\ \A p \in Owners : doing[p].step \notin {"drop", "clear"}
BY DEF BeginRequest

\* Using a key, finalising a rotation, the sweep and the passing of a day keep
\* the succession: what they deactivate is past its grace period.
LEMMA CalmSteps ==
  ASSUME KeysTyped, NEW age, NEW last, NEW gone, Succession(age, last, gone), ~dropped',
         \/ NextDay \/ Sweep
         \/ \E k \in Keys : UseKey(k) \/ UseOldKey(k)
         \/ \E o \in Owners, k \in Keys : FinalizeRotation(o, k)
  PROVE  Succession(age, last, gone)'
<1> USE ApiKeysAssumption
<1>0. /\ day \in Nat /\ \A j \in DOMAIN row : row[j].rotationExpiresAt \in Nat
      /\ \A p \in Owners : doing[p].step = "clear" =>
           \A j \in doing[p].key : j \in DOMAIN row /\ row[j].rotationExpiresAt > day
  <2>1. \A p \in Owners : doing[p].step = "clear" => doing[p].key \subseteq DOMAIN row
    BY DeedKeys
  <2> QED BY <2>1 DEF KeysTyped, ApiKeysTypeOK, Columns, Succession, CancelsAlone
<1>1. CASE NextDay
  <2>1. row' = row /\ doing' = doing /\ day' = day + 1
        /\ \A p \in Owners : ~Clearing(p, day + 1)
    BY <1>1 DEF NextDay
  <2>2. \A p \in Owners : doing[p].step = "clear" =>
          \A j \in doing[p].key : row'[j].rotationExpiresAt > day'
    BY <1>0, <2>1 DEF Clearing
  <2>3. \A j \in DOMAIN row : row[j].rotationExpiresAt <= day => row'[j].rotationExpiresAt <= day'
    BY <1>0, <2>1
  <2> QED BY <2>1, <2>2, <2>3, CalmKeeps
<1>2. CASE Sweep
  <2>1. doing' = doing /\ day' = day /\ Stale = {}
    BY <1>2 DEF Sweep
  <2>2. /\ DOMAIN row' = DOMAIN row
        /\ \A j \in DOMAIN row :
             /\ row'[j].rotationOfId = row[j].rotationOfId
             /\ row'[j].rotationExpiresAt = row[j].rotationExpiresAt
             /\ row'[j].isActive <=> row[j].isActive /\ j \notin Overdue
    BY <1>2, <2>1, SweepRows
  <2>3. \A j \in Overdue : row[j].rotationOfId # {} /\ row[j].rotationExpiresAt <= day
    BY DEF Overdue, InRotation, NoKey
  <2>4. \A j \in Overdue : \A p \in Owners : doing[p].step = "clear" => j \notin doing[p].key
    BY <1>0, <2>3
  <2> QED BY <1>0, <2>1, <2>2, <2>3, <2>4, CalmKeeps
<1>3. ASSUME NEW k \in Keys, UseKey(k) PROVE Succession(age, last, gone)'
  <2>1. Updates(k, row[k].isActive, row[k].rotationOfId, row[k].rotationExpiresAt) /\ UNCHANGED <<day, doing>>
    BY <1>3, UpdatesOf DEF UseKey
  <2>2. DOMAIN row' = DOMAIN row /\ \A j \in DOMAIN row :
             /\ row'[j].rotationOfId = row[j].rotationOfId
             /\ row'[j].rotationExpiresAt = row[j].rotationExpiresAt
             /\ row'[j].isActive = row[j].isActive
    BY <2>1 DEF Updates
  <2> QED BY <1>0, <2>1, <2>2, CalmKeeps
<1>4. ASSUME NEW k \in Keys, UseOldKey(k) PROVE Succession(age, last, gone)'
  <2>1. Updates(k, FALSE, row[k].rotationOfId, row[k].rotationExpiresAt) /\ UNCHANGED <<day, doing>>
    BY <1>4, UpdatesOf DEF UseOldKey
  <2>2. DOMAIN row' = DOMAIN row /\ k \in DOMAIN row /\ \A j \in DOMAIN row :
             /\ row'[j].rotationOfId = row[j].rotationOfId
             /\ row'[j].rotationExpiresAt = row[j].rotationExpiresAt
             /\ j # k => row'[j].isActive = row[j].isActive
    BY <2>1 DEF Updates
  <2>3. row[k].rotationOfId # {} /\ row[k].rotationExpiresAt <= day
    BY <1>0, <1>4, <2>2 DEF UseOldKey, Accepted, InRotation, Has, NoKey
  <2>4. \A p \in Owners : doing[p].step = "clear" => k \notin doing[p].key
    BY <1>0, <2>3
  <2> QED BY <1>0, <2>1, <2>2, <2>3, <2>4, CalmKeeps
<1>5. ASSUME NEW o \in Owners, NEW k \in Keys, FinalizeRotation(o, k)
      PROVE  Succession(age, last, gone)'
  <2>1. /\ Updates(k, FALSE, row[k].rotationOfId, day) /\ UNCHANGED <<day, doing>>
        /\ row[k].rotationOfId # {}
    BY <1>5, UpdatesOf DEF FinalizeRotation, InRotation, NoKey
  <2>2. \A p \in Owners : doing[p].step \notin {"drop", "clear"}
    BY <1>5, RequestsBegin DEF FinalizeRotation
  <2>3. DOMAIN row' = DOMAIN row /\ \A j \in DOMAIN row :
             /\ row'[j].rotationOfId = row[j].rotationOfId
             /\ j # k => row'[j].isActive = row[j].isActive
             /\ j # k => row'[j].rotationExpiresAt = row[j].rotationExpiresAt
             /\ j = k => row'[j].rotationExpiresAt = day
    BY <2>1 DEF Updates
  <2> QED BY <1>0, <2>1, <2>2, <2>3, CalmKeeps
<1> QED BY <1>1, <1>2, <1>3, <1>4, <1>5

\* A request that is broken off between two statements leaves what it has
\* written; a cancellation that has revoked the new key and not cleared the old
\* one is noted.
LEMMA BreakRotationKeeps ==
  ASSUME KeysTyped, NEW age, NEW last, NEW gone, Succession(age, last, gone), ~dropped',
         NEW o \in Owners, BreakOff(o)
  PROVE  Succession(age, last, gone)'
<1>1. UNCHANGED <<row, day>> /\ doing' = [doing EXCEPT ![o] = NotDoing] /\ doing[o].step # "clear"
  BY DEF BreakOff
<1>2. /\ doing'[o] = NotDoing /\ doing'[o].step = "idle"
      /\ \A p \in Owners : p # o => doing'[p] = doing[p]
  BY <1>1, IdleKeysTyped DEF KeysTyped
<1>3. InOrder(age, last)' /\ OnePredecessor(gone)'
  BY <1>1, <1>2 DEF Succession, InOrder, OnePredecessor
<1>4. CancelsAlone(gone)'
  BY <1>1, <1>2 DEF Succession, CancelsAlone
<1>5. GoneAreCleared(gone)'
  BY <1>1, <1>2 DEF Succession, GoneAreCleared
<1>6. KeptAfter(age, gone)'
  BY <1>1, <1>2 DEF Succession, KeptAfter, Kept
<1> QED BY <1>3, <1>4, <1>5, <1>6 DEF Succession

\* A rotation begins: the key it is about has been read, and nothing written.
LEMMA BeginRotationKeeps ==
  ASSUME KeysTyped, NEW age, NEW last, NEW gone, Succession(age, last, gone), ~dropped',
         NEW o \in Owners, NEW k \in Keys, BeginRotation(o, k)
  PROVE  Succession(age, last, gone)'
<1>1. /\ UNCHANGED <<row, day>>
      /\ doing' = [doing EXCEPT ![o] = [step |-> "create", key |-> {k}, new |-> NoKey]]
      /\ \A p \in Owners : doing[p].step \notin {"drop", "clear"}
  BY RequestsBegin DEF BeginRotation
<1>2. /\ doing'[o].step = "create"
      /\ \A p \in Owners : p # o => doing'[p] = doing[p]
      /\ \A p \in Owners : doing'[p].step \notin {"drop", "clear"}
  BY <1>1 DEF KeysTyped
<1>3. InOrder(age, last)' /\ OnePredecessor(gone)'
  BY <1>1, <1>2 DEF Succession, InOrder, OnePredecessor
<1>4. CancelsAlone(gone)'
  BY <1>2 DEF CancelsAlone
<1>5. GoneAreCleared(gone)'
  BY <1>1, <1>2 DEF Succession, GoneAreCleared
<1>6. KeptAfter(age, gone)'
  BY <1>1, <1>2 DEF Succession, KeptAfter, Kept
<1> QED BY <1>3, <1>4, <1>5, <1>6 DEF Succession

\* A cancellation begins: it has read a key in its grace period and knows its
\* successor.
LEMMA BeginCancelKeeps ==
  ASSUME KeysTyped, NEW age, NEW last, NEW gone, Succession(age, last, gone), ~dropped',
         NEW o \in Owners, NEW k \in Keys, BeginCancel(o, k)
  PROVE  Succession(age, last, gone)'
<1>1. /\ UNCHANGED <<row, day>>
      /\ doing' = [doing EXCEPT ![o] = [step |-> "drop", key |-> {k}, new |-> row[k].rotationOfId]]
      /\ \A p \in Owners : doing[p] = NotDoing
  <2>1. BeginRequest(o, ~Accepted(k) \/ \E p \in Owners : doing[p] # NotDoing)
    BY DEF BeginCancel
  <2>2. \A p \in Owners : doing[p] = NotDoing
    BY <2>1 DEF BeginRequest
  <2> QED BY <2>2 DEF BeginCancel
<1>2. /\ doing'[o].step = "drop" /\ doing'[o].key = {k} /\ doing'[o].new = row[k].rotationOfId
      /\ \A p \in Owners : p # o => doing'[p] = NotDoing /\ doing'[p].step = "idle"
      /\ \A p \in Owners : doing[p].step = "idle"
  BY <1>1, IdleKeysTyped DEF KeysTyped
<1>3. InOrder(age, last)' /\ OnePredecessor(gone)'
  BY <1>1, <1>2 DEF Succession, InOrder, OnePredecessor
<1>4. CancelsAlone(gone)'
  BY <1>1, <1>2 DEF CancelsAlone
<1>5. GoneAreCleared(gone)'
  BY <1>1, <1>2 DEF Succession, GoneAreCleared
<1>6. KeptAfter(age, gone)'
  BY <1>1, <1>2 DEF Succession, KeptAfter, Kept
<1> QED BY <1>3, <1>4, <1>5, <1>6 DEF Succession

\* A key that is made is younger than all there are.
LEMMA InsertKeeps ==
  ASSUME KeysTyped, NEW age, NEW last, NEW gone, Succession(age, last, gone), ~dropped',
         NEW o \in Owners, NEW n \in Keys, CreateKey(o, n) \/ CreateSuccessor(o, n)
  PROVE  \E a, l : Succession(a, l, gone)'
<1>0. PICK a : a = [j \in DOMAIN row \cup {n} |-> IF j \in DOMAIN row THEN age[j] ELSE last + 1]
  OBVIOUS
<1>1. ~Has(n) /\ row' = InsertKey(n) /\ day' = day
  BY DEF CreateKey, CreateSuccessor
<1>2. /\ DOMAIN row' = DOMAIN row \cup {n} /\ n \notin DOMAIN row
      /\ row'[n].rotationOfId = {} /\ row'[n].isActive
      /\ \A j \in DOMAIN row : row'[j] = row[j]
  BY <1>1, InsertedRow DEF Has, NewRow
<1>3. /\ last \in Nat /\ \A j \in DOMAIN row : age[j] \in 1 .. last
      /\ last + 1 \in Nat /\ a \in [DOMAIN row' -> 1 .. last + 1]
      /\ a[n] = last + 1 /\ \A j \in DOMAIN row : a[j] = age[j] /\ age[j] < a[n]
  BY <1>0, <1>2 DEF Succession, InOrder
<1>4. \A j \in DOMAIN row : row[j].rotationOfId \subseteq DOMAIN row
  BY DEF KeysTyped
<1>5. gone \subseteq DOMAIN row
  BY DEF Succession, GoneAreCleared
<1>6. \A p \in Owners : doing[p].step # "idle" =>
        doing[p].key \subseteq DOMAIN row /\ doing[p].new \subseteq DOMAIN row
  BY DeedKeys
<1>7. CASE CreateKey(o, n)
  <2>1. doing' = doing /\ \A p \in Owners : doing[p].step \notin {"drop", "clear"}
    BY <1>7, RequestsBegin DEF CreateKey
  <2>2. InOrder(a, last + 1)'
    <3>1. \A k \in DOMAIN row' : \A s \in row'[k].rotationOfId : a[k] < a[s]
      BY <1>2, <1>3, <1>4 DEF Succession, InOrder
    <3>2. \A p \in Owners : doing'[p].step = "mark" =>
            \A k \in doing'[p].key, s \in doing'[p].new : a[k] < a[s]
      BY <1>3, <1>6, <2>1 DEF Succession, InOrder
    <3> QED BY <1>3, <3>1, <3>2 DEF InOrder
  <2>3. OnePredecessor(gone)' /\ CancelsAlone(gone)' /\ GoneAreCleared(gone)'
    BY <1>2, <1>4, <1>5, <1>6, <2>1 DEF Succession, OnePredecessor, CancelsAlone, GoneAreCleared
  <2>4. Kept(n, gone)'
    BY <1>2, <1>4, <1>5, <1>6, <2>1 DEF Kept
  <2>5. \A j \in DOMAIN row : Kept(j, gone) => Kept(j, gone)'
    BY <1>1, <1>2, <1>4, <1>5, <1>6, <2>1 DEF Kept
  <2>6. KeptAfter(a, gone)'
    <3>1. \E j \in DOMAIN row' : Kept(j, gone)'
      BY <1>2, <2>4
    <3>2. ASSUME NEW k \in DOMAIN row' \ gone, ~row'[k].isActive
          PROVE  \E j \in DOMAIN row' : Kept(j, gone)' /\ a[k] < a[j]
      <4>1. PICK j \in DOMAIN row : Kept(j, gone) /\ age[k] < age[j]
        BY <1>2, <3>2 DEF Succession, KeptAfter
      <4> QED BY <1>2, <1>3, <2>5, <3>2, <4>1
    <3> QED BY <3>1, <3>2 DEF KeptAfter
  <2> QED BY <2>2, <2>3, <2>6 DEF Succession
<1>8. CASE CreateSuccessor(o, n)
  <2>1. /\ doing[o].step = "create"
        /\ doing' = [doing EXCEPT ![o] = [step |-> "mark", key |-> doing[o].key, new |-> {n}]]
    BY <1>8 DEF CreateSuccessor
  <2>2. /\ doing'[o].step = "mark" /\ doing'[o].key = doing[o].key /\ doing'[o].new = {n}
        /\ \A p \in Owners : p # o => doing'[p] = doing[p]
    BY <2>1 DEF KeysTyped
  <2>3. PICK h \in DOMAIN row : doing[o].key = {h}
    BY <2>1, DeedKeys
  <2>a. \A p \in Owners : doing[p].step \notin {"drop", "clear"}
    BY <2>1 DEF Succession, CancelsAlone, NotDoing
  <2>4. InOrder(a, last + 1)'
    <3>1. \A k \in DOMAIN row' : \A s \in row'[k].rotationOfId : a[k] < a[s]
      BY <1>2, <1>3, <1>4 DEF Succession, InOrder
    <3>2. \A p \in Owners : doing'[p].step = "mark" =>
            \A k \in doing'[p].key, s \in doing'[p].new : a[k] < a[s]
      BY <1>3, <1>6, <2>2, <2>3 DEF Succession, InOrder
    <3> QED BY <1>3, <3>1, <3>2 DEF InOrder
  <2>5. OnePredecessor(gone)' /\ CancelsAlone(gone)' /\ GoneAreCleared(gone)'
    BY <1>2, <1>4, <1>5, <1>6, <2>2, <2>a DEF Succession, OnePredecessor, CancelsAlone, GoneAreCleared
  <2>6. \A j \in DOMAIN row : Kept(j, gone) => Kept(j, gone)'
    BY <1>1, <1>2, <1>4, <1>5, <1>6, <2>2 DEF Kept
  <2>7. KeptAfter(a, gone)'
    <3>1. \E j \in DOMAIN row' : Kept(j, gone)'
      BY <1>2, <2>3, <2>6 DEF Succession, KeptAfter
    <3>2. ASSUME NEW k \in DOMAIN row' \ gone, ~row'[k].isActive
          PROVE  \E j \in DOMAIN row' : Kept(j, gone)' /\ a[k] < a[j]
      <4>1. PICK j \in DOMAIN row : Kept(j, gone) /\ age[k] < age[j]
        BY <1>2, <3>2 DEF Succession, KeptAfter
      <4> QED BY <1>2, <1>3, <2>6, <3>2, <4>1
    <3> QED BY <3>1, <3>2 DEF KeptAfter
  <2> QED BY <2>4, <2>5, <2>7 DEF Succession
<1> QED BY <1>7, <1>8

\* rotateKey writes the old row: the key made last succeeds it, and it is in its
\* grace period from now on.
LEMMA MarkKeeps ==
  ASSUME KeysTyped, NEW age, NEW last, NEW gone, Succession(age, last, gone), ~dropped',
         NEW o \in Owners, MarkRotated(o)
  PROVE  Succession(age, last, gone)'
<1>1. /\ doing[o].step = "mark" /\ doing' = [doing EXCEPT ![o] = NotDoing] /\ day' = day
  BY DEF MarkRotated
<1>2. PICK k, n \in DOMAIN row :
        /\ doing[o].key = {k} /\ doing[o].new = {n}
        /\ Updates(k, row[k].isActive, {n}, day + Grace)
  BY UpdatesInRotation
<1>3. /\ DOMAIN row' = DOMAIN row /\ \A j \in DOMAIN row : j # k => row'[j] = row[j]
      /\ row'[k].rotationOfId = {n} /\ row'[k].isActive = row[k].isActive
  BY <1>2 DEF Updates
<1>4. /\ doing'[o].step = "idle" /\ \A p \in Owners : p # o => doing'[p] = doing[p]
      /\ \A p \in Owners : doing[p].step \notin {"drop", "clear"}
  BY <1>1, IdleKeysTyped DEF KeysTyped, Succession, CancelsAlone
<1>5. InOrder(age, last)'
  BY <1>1, <1>2, <1>3, <1>4 DEF Succession, InOrder
<1>6. OnePredecessor(gone)'
  BY <1>1, <1>2, <1>3, <1>4 DEF Succession, OnePredecessor
<1>7. CancelsAlone(gone)'
  BY <1>4 DEF CancelsAlone
<1>8. GoneAreCleared(gone)'
  BY <1>1, <1>2, <1>3, <1>4 DEF Succession, GoneAreCleared, OnePredecessor
<1>9. \A j \in DOMAIN row : Kept(j, gone) => Kept(j, gone)'
  BY <1>1, <1>2, <1>3, <1>4 DEF Kept
<1>10. KeptAfter(age, gone)'
  BY <1>3, <1>9 DEF Succession, KeptAfter
<1> QED BY <1>5, <1>6, <1>7, <1>8, <1>10 DEF Succession

\* cancelRotation revokes the new key: the old one is in its grace period, so
\* that a key that no cancellation can take is left.
LEMMA DropKeeps ==
  ASSUME KeysTyped, NEW age, NEW last, NEW gone, Succession(age, last, gone), ~dropped',
         NEW o \in Owners, DropSuccessor(o)
  PROVE  \E g : Succession(age, last, g)'
<1>1. /\ doing[o].step = "drop" /\ doing' = [doing EXCEPT ![o].step = "clear"] /\ day' = day
      /\ \E k \in doing[o].key : Accepted(k)
  BY DEF DropSuccessor
<1>2. PICK k, n \in DOMAIN row :
        /\ doing[o].key = {k} /\ doing[o].new = {n}
        /\ Updates(n, FALSE, row[n].rotationOfId, row[n].rotationExpiresAt)
  BY UpdatesInRotation
<1> DEFINE g == gone \cup {n}
<1>3. /\ DOMAIN row' = DOMAIN row
      /\ \A j \in DOMAIN row : /\ row'[j].rotationOfId = row[j].rotationOfId
                               /\ row'[j].rotationExpiresAt = row[j].rotationExpiresAt
                               /\ j # n => row'[j] = row[j]
  BY <1>2 DEF Updates
<1>4. /\ doing'[o].step = "clear" /\ doing'[o].key = {k} /\ doing'[o].new = {n}
      /\ \A p \in Owners : p # o => doing'[p] = doing[p] /\ doing[p].step = "idle"
  <2>1. doing[o] \in Deeds /\ doing \in [Owners -> Deeds]
    BY DEF KeysTyped
  <2>2. \A p \in Owners : p # o => doing[p].step = "idle"
    BY <1>1, IdleKeysTyped DEF Succession, CancelsAlone
  <2> QED BY <1>1, <1>2, <2>1, <2>2 DEF Deeds
<1>5. row[k].rotationOfId = {n} /\ row[k].rotationExpiresAt > day
  <2>1. row[k].rotationOfId = {n}
    BY <1>1, <1>2 DEF Succession, CancelsAlone
  <2> QED BY <1>1, <1>2, <2>1 DEF Accepted, InRotation, NoKey
<1>6. InOrder(age, last)'
  BY <1>3, <1>4 DEF Succession, InOrder
<1>7. OnePredecessor(g)'
  BY <1>3, <1>4 DEF Succession, OnePredecessor
<1>8. CancelsAlone(g)'
  BY <1>1, <1>3, <1>4, <1>5, IdleKeysTyped DEF Succession, CancelsAlone
<1>9. GoneAreCleared(g)'
  <2>1. ASSUME NEW j \in DOMAIN row \ g, row[j].rotationOfId \cap g # {} PROVE j = k
    <3>1. \A p \in Owners : doing[p].step # "clear"
      BY <1>1, <1>4
    <3>2. n \in row[j].rotationOfId
      BY <2>1, <3>1 DEF Succession, GoneAreCleared
    <3> QED BY <1>5, <3>2 DEF Succession, OnePredecessor
  <2> QED BY <1>2, <1>3, <1>4, <2>1 DEF Succession, GoneAreCleared
<1>10. ASSUME NEW j \in DOMAIN row, Kept(j, gone) PROVE Kept(j, g)'
  <2>1. day \in Nat /\ row[k].rotationExpiresAt \in Nat
    BY DEF KeysTyped, ApiKeysTypeOK, Columns
  <2>2. j # n
    BY <1>5, <1>10, <2>1 DEF Kept
  <2> QED BY <1>1, <1>3, <1>4, <1>10, <2>2 DEF Kept
<1>11. KeptAfter(age, g)'
  BY <1>3, <1>10 DEF Succession, KeptAfter
<1> QED BY <1>6, <1>7, <1>8, <1>9, <1>11 DEF Succession

\* cancelRotation clears the old row: its successor has been revoked, and it is
\* in use for good again.
LEMMA ClearKeeps ==
  ASSUME KeysTyped, NEW age, NEW last, NEW gone, Succession(age, last, gone), ~dropped',
         NEW o \in Owners, ClearRotation(o)
  PROVE  Succession(age, last, gone)'
<1>1. /\ doing[o].step = "clear" /\ doing' = [doing EXCEPT ![o] = NotDoing] /\ day' = day
  BY DEF ClearRotation
<1>2. PICK k, n \in DOMAIN row :
        /\ doing[o].key = {k} /\ doing[o].new = {n}
        /\ Updates(k, row[k].isActive, {}, 0)
  BY UpdatesInRotation
<1>3. /\ DOMAIN row' = DOMAIN row /\ \A j \in DOMAIN row : j # k => row'[j] = row[j]
      /\ row'[k].rotationOfId = {} /\ row'[k].isActive = row[k].isActive
  BY <1>2 DEF Updates
<1>4. \A p \in Owners : doing'[p].step = "idle" /\ (p # o => doing[p].step = "idle")
  BY <1>1, IdleKeysTyped DEF KeysTyped, Succession, CancelsAlone
<1>5. InOrder(age, last)' /\ OnePredecessor(gone)' /\ CancelsAlone(gone)'
  BY <1>3, <1>4 DEF Succession, InOrder, OnePredecessor, CancelsAlone
<1>6. GoneAreCleared(gone)'
  BY <1>2, <1>3, <1>4 DEF Succession, GoneAreCleared
<1>7. \A j \in DOMAIN row : Kept(j, gone) => Kept(j, gone)'
  BY <1>1, <1>3, <1>4 DEF Kept
<1>8. KeptAfter(age, gone)'
  BY <1>3, <1>7 DEF Succession, KeptAfter
<1> QED BY <1>5, <1>6, <1>8 DEF Succession

-----------------------------------------------------------------------------
\* Without keys the succession is empty.
LEMMA KeysInvInit == ApiKeysInit => KeysInv
<1> SUFFICES ASSUME ApiKeysInit PROVE KeysInv
  OBVIOUS
<1> USE ApiKeysAssumption DEF ApiKeysInit
<1>1. DOMAIN row = {} /\ \A o \in Owners : doing[o].step = "idle"
  BY IdleKeysTyped
<1>2. KeysTyped
  <2>1. dropped \in BOOLEAN
    BY Zenon
  <2>2. doing \in [Owners -> Deeds] /\ \A o \in Owners : DeedShape(doing[o], DOMAIN row)
    BY IdleKeysTyped
  <2> QED BY <1>1, <2>1, <2>2 DEF KeysTyped, ApiKeysTypeOK
<1>3. Succession([k \in {} |-> 1], 0, {})
  BY <1>1 DEF Succession, InOrder, OnePredecessor, CancelsAlone, GoneAreCleared, KeptAfter
<1> QED BY <1>2, <1>3 DEF KeysInv

\* Every step keeps the inductive invariant.
LEMMA KeysInvStep == KeysInv /\ [ApiKeysNext]_apiKeysVars => KeysInv'
<1> SUFFICES ASSUME KeysInv, [ApiKeysNext]_apiKeysVars PROVE KeysInv'
  OBVIOUS
<1>1. KeysTyped /\ KeysTyped'
  BY KeysTypedStep DEF KeysInv
<1> SUFFICES ASSUME ~dropped' PROVE \E age, last, gone : Succession(age, last, gone)'
  BY <1>1 DEF KeysInv
<1>2. ~dropped
  BY DEF ApiKeysNext, NextDay, Sweep, UseKey, UseOldKey, MarkRotated, DropSuccessor, ClearRotation,
         BreakOff, CreateKey, BeginRotation, CreateSuccessor, FinalizeRotation, BeginCancel,
         RevokeKey, BeginRequest, apiKeysVars
<1>3. PICK age, last, gone : Succession(age, last, gone)
  BY <1>2 DEF KeysInv
<1>4. CASE NextDay \/ Sweep
  BY <1>1, <1>3, <1>4, CalmSteps
<1>5. ASSUME NEW k \in Keys, UseKey(k) \/ UseOldKey(k) PROVE Succession(age, last, gone)'
  BY <1>1, <1>3, <1>5, CalmSteps
<1>6. ASSUME NEW o \in Owners, MarkRotated(o) \/ DropSuccessor(o) \/ ClearRotation(o) \/ BreakOff(o)
      PROVE  \E a, l, g : Succession(a, l, g)'
  BY <1>1, <1>3, <1>6, MarkKeeps, DropKeeps, ClearKeeps, BreakRotationKeeps
<1>7. ASSUME NEW o \in Owners, NEW k \in Keys,
             \/ CreateKey(o, k) \/ BeginRotation(o, k) \/ CreateSuccessor(o, k)
             \/ FinalizeRotation(o, k) \/ BeginCancel(o, k) 
      PROVE  \E a, l, g : Succession(a, l, g)'
  BY <1>1, <1>3, <1>7, InsertKeeps, BeginRotationKeeps, BeginCancelKeeps, CalmSteps
<1>8. ASSUME NEW o \in Owners, NEW k \in Keys, RevokeKey(o, k) PROVE FALSE
  BY <1>8, RequestsBegin DEF RevokeKey
<1>9. CASE UNCHANGED apiKeysVars
  <2>1. row' = row /\ doing' = doing /\ day' = day
    BY <1>9 DEF apiKeysVars
  <2>2. Succession(age, last, gone)'
    BY <1>3, <2>1 DEF Succession, InOrder, OnePredecessor, CancelsAlone, GoneAreCleared, KeptAfter, Kept
  <2> QED BY <2>2
<1> QED BY <1>3, <1>4, <1>5, <1>6, <1>7, <1>8, <1>9 DEF ApiKeysNext

\* The youngest key left.
LEMMA YoungestLeft ==
  ASSUME NEW last \in Nat, NEW T, NEW age, \A k \in T : age[k] \in 1 .. last, T # {}
  PROVE  \E y \in T : \A k \in T : age[k] <= age[y]
<1> DEFINE Ages == {last - age[k] : k \in T}
<1>1. Ages \subseteq Nat /\ Ages # {}
  OBVIOUS
<1>2. PICK m \in Ages : \A n \in Ages : ~(<<n, m>> \in OpToRel(<, Nat))
  BY <1>1, NatLessThanWellFounded, WFMin
<1>3. PICK y \in T : m = last - age[y]
  OBVIOUS
<1>4. ASSUME NEW k \in T PROVE age[k] <= age[y]
  <2>1. last - age[k] \in Ages /\ last - age[k] \in Nat /\ m \in Nat
    BY <1>1
  <2>2. ~(last - age[k] < m)
    BY <1>2, <2>1 DEF OpToRel
  <2> QED BY <1>3, <2>1, <2>2
<1> QED BY <1>4

\* The youngest key that no cancellation has revoked is accepted: had it been
\* deactivated, there would be a younger one.
LEMMA SomeKeyAccepted == KeysInv => RotationKeepsAKey
<1> SUFFICES ASSUME KeysTyped, NEW age, NEW last, NEW gone, Succession(age, last, gone), DOMAIN row # {}
             PROVE  \E k \in Keys : Accepted(k)
  BY DEF KeysInv, RotationKeepsAKey
<1>1. PICK y \in DOMAIN row \ gone : \A k \in DOMAIN row \ gone : age[k] <= age[y]
  <2>1. DOMAIN row \ gone # {}
    BY DEF Succession, KeptAfter, Kept
  <2>2. last \in Nat /\ \A k \in DOMAIN row \ gone : age[k] \in 1 .. last
    BY DEF Succession, InOrder
  <2> QED BY <2>1, <2>2, YoungestLeft
<1>2. \A k \in DOMAIN row : age[k] \in Nat
  BY DEF Succession, InOrder
<1>3. CASE InRotation(y)
  <2>1. PICK s \in DOMAIN row : row[y].rotationOfId = {s} /\ age[y] < age[s]
    BY <1>3 DEF InRotation, NoKey, KeysTyped, Succession, InOrder
  <2>2. s \in gone
    BY <1>1, <1>2, <2>1
  <2>3. PICK o \in Owners : doing[o].step = "clear" /\ doing[o].key = {y}
    BY <2>1, <2>2 DEF Succession, GoneAreCleared
  <2>4. row[y].rotationExpiresAt > day
    BY <2>3 DEF Succession, CancelsAlone
  <2> QED BY <1>3, <2>4 DEF Accepted, Has, KeysTyped, ApiKeysTypeOK
<1>4. CASE ~InRotation(y)
  <2>1. row[y].isActive
    BY <1>1, <1>2 DEF Succession, KeptAfter, Kept
  <2> QED BY <1>4, <2>1 DEF Accepted, Has, KeysTyped, ApiKeysTypeOK
<1> QED BY <1>3, <1>4

\* Every variable of API keys has its type.
THEOREM KeysAreTyped == ApiKeysSpec => []ApiKeysTypeOK
<1>1. KeysInv => ApiKeysTypeOK
  BY DEF KeysInv, KeysTyped
<1> QED BY <1>1, KeysInvInit, KeysInvStep, PTL DEF ApiKeysSpec

\* Unless a named request has dropped it, an owner who has made keys always has
\* one that is accepted, whatever is rotated, cancelled, finalised, swept,
\* revoked and broken off in between, for any number of keys (rotateKey,
\* cancelRotation, finalizeRotation).
THEOREM RotationLeavesAKey == ApiKeysSpec => []RotationKeepsAKey
BY SomeKeyAccepted, KeysInvInit, KeysInvStep, PTL DEF ApiKeysSpec

=============================================================================

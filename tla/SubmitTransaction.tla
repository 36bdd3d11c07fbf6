--------------------------- MODULE SubmitTransaction ---------------------------
(***************************************************************************)
(* POST /transactions of ignition-api: the Idempotency-Key claim protocol  *)
(* of IdempotencyService (transactions/idempotency.service.ts) composed    *)
(* with TransactionsService.submitTransaction and persistTransaction       *)
(* (transactions/transactions.service.ts).                                 *)
(*                                                                         *)
(* Each element of Requests is one HTTP request, run by some instance of   *)
(* the service.  Everything between two awaits is one step; every await on *)
(* Redis or on the database is a point where other requests, a crash of    *)
(* the process or a failed round trip may come in between.                 *)
(***************************************************************************)
EXTENDS Integers, FiniteSets

CONSTANTS
  Requests,          \* the HTTP requests; a row is named by the request that inserted it
  Keys,              \* Idempotency-Key values (digests of them)
  Hashes,            \* stellarTxHash values
  NoKey, NoHash,     \* the header or the dto field is absent
  NoRow,             \* no response yet
  MaxClaimAttempts,  \* IdempotencyService.MAX_CLAIM_ATTEMPTS
  MaxCrashes,        \* bound: processes that die in the middle of a request
  Failing,           \* the stores whose round trips may fail
  MaxFaults,         \* bound: round trips to a failing store that fail
  MaxExpiries        \* bound: times the 24-hour TTL of each key runs out

ASSUME ConstantsAssumption ==
  /\ NoKey \notin Keys
  /\ NoHash \notin Hashes
  /\ NoRow \notin Requests
  /\ MaxClaimAttempts \in Nat \ {0}
  /\ MaxCrashes \in Nat
  /\ Failing \subseteq {"redis", "database"}
  /\ MaxFaults \in Nat
  /\ MaxExpiries \in Nat

VARIABLES
  store,    \* the Redis record of every key
  rows,     \* the inserted rows of the transactions table
  pc,       \* where each request is
  key,      \* the key and the hash each request carries
  hash,
  attempt,  \* claim attempts made, 1 .. MaxClaimAttempts
  saw,      \* sawInFlight
  result,   \* the row the response of the request describes
  answer,   \* how the request was answered
  crashed,  \* requests whose process died
  faults,   \* failed round trips so far
  ttl,      \* history: how often the record of each key has expired
  epoch     \* history: the value of ttl when the request claimed or replayed

requestVars == <<pc, key, hash, attempt, saw, result, answer, epoch>>
vars == <<store, rows, requestVars, crashed, faults, ttl>>

Absent      == [state |-> "absent", response |-> NoRow]
InFlight    == [state |-> "in_flight", response |-> NoRow]
Complete(x) == [state |-> "complete", response |-> x]
Records     == [state : {"absent", "in_flight", "complete"}, response : Requests \cup {NoRow}]

\* The control points that lie inside the try block of a claimed request.
HoldingPoints == {"check", "create", "refetch", "complete", "release"}
Points  == {"idle", "claim", "read", "wait", "done"} \cup HoldingPoints
Ok      == {"created", "existing", "replayed"}
Answers == Ok \cup {"none", "conflict", "unavailable", "error"}

Keyed(r) == key[r] # NoKey
Holds(r) == Keyed(r) /\ pc[r] \in HoldingPoints
Live(r)  == r \notin crashed
\* The request that wrote the current in-flight record of its key, dead or alive.
Owner(r) == Holds(r) /\ epoch[r] = ttl[key[r]]

At(r, point) == r \notin crashed /\ pc[r] = point
Goto(r, point) == pc' = [pc EXCEPT ![r] = point]

Init ==
  /\ store = [k \in Keys |-> Absent]
  /\ rows = {}
  /\ pc = [r \in Requests |-> "idle"]
  /\ key = [r \in Requests |-> NoKey]
  /\ hash = [r \in Requests |-> NoHash]
  /\ attempt = [r \in Requests |-> 1]
  /\ saw = [r \in Requests |-> FALSE]
  /\ result = [r \in Requests |-> NoRow]
  /\ answer = [r \in Requests |-> "none"]
  /\ crashed = {}
  /\ faults = 0
  /\ ttl = [k \in Keys |-> 0]
  /\ epoch = [r \in Requests |-> 0]

-----------------------------------------------------------------------------
\* The end of a request: a status code and, for a success, the row it reports.
Respond(r, kind, x) ==
  /\ Goto(r, "done")
  /\ answer' = [answer EXCEPT ![r] = kind]
  /\ result' = [result EXCEPT ![r] = x]

\* A request arrives.  Without a key it goes straight to persistTransaction.
Submit(r, k, h) ==
  /\ At(r, "idle")
  /\ key' = [key EXCEPT ![r] = k]
  /\ hash' = [hash EXCEPT ![r] = h]
  /\ Goto(r, IF k = NoKey THEN "check" ELSE "claim")
  /\ UNCHANGED <<store, rows, attempt, saw, result, answer, epoch, crashed, faults, ttl>>

\* Mutant: SET without NX overwrites the record of another request.
ClaimWinWithoutNX(r) ==
  /\ At(r, "claim")
  /\ store' = [store EXCEPT ![key[r]] = InFlight]
  /\ epoch' = [epoch EXCEPT ![r] = ttl[key[r]]]
  /\ Goto(r, "check")
  /\ UNCHANGED <<rows, key, hash, attempt, saw, result, answer, crashed, faults, ttl>>

\* SET key in_flight PX ttl NX answers OK: the request owns the key.
ClaimWin(r) ==
  /\ At(r, "claim")
  /\ store[key[r]] = Absent
  /\ store' = [store EXCEPT ![key[r]] = InFlight]
  /\ epoch' = [epoch EXCEPT ![r] = ttl[key[r]]]
  /\ Goto(r, "check")
  /\ UNCHANGED <<rows, key, hash, attempt, saw, result, answer, crashed, faults, ttl>>

\* SET ... NX answers null: somebody else's record is there.
ClaimLose(r) ==
  /\ At(r, "claim")
  /\ store[key[r]] # Absent
  /\ Goto(r, "read")
  /\ UNCHANGED <<store, rows, key, hash, attempt, saw, result, answer, epoch, crashed, faults, ttl>>

\* The record is gone: claim again while attempts remain, otherwise refuse with
\* 409 when an in-flight record was seen and with 503 when none was.
TryAgain(r, seen) ==
  IF attempt[r] < MaxClaimAttempts
  THEN /\ attempt' = [attempt EXCEPT ![r] = @ + 1]
       /\ Goto(r, "claim")
       /\ UNCHANGED <<result, answer>>
  ELSE /\ Respond(r, IF seen THEN "conflict" ELSE "unavailable", NoRow)
       /\ UNCHANGED attempt

ReadVanished(r) ==
  /\ At(r, "read")
  /\ store[key[r]] = Absent
  /\ TryAgain(r, saw[r])
  /\ UNCHANGED <<store, rows, key, hash, saw, epoch, crashed, faults, ttl>>

ReadInFlight(r) ==
  /\ At(r, "read")
  /\ store[key[r]] = InFlight
  /\ saw' = [saw EXCEPT ![r] = TRUE]
  /\ Goto(r, "wait")
  /\ UNCHANGED <<store, rows, key, hash, attempt, result, answer, epoch, crashed, faults, ttl>>

\* The first read, or a later poll, finds the stored response and replays it.
Replay(r) ==
  /\ At(r, "read") \/ At(r, "wait")
  /\ store[key[r]].state = "complete"
  /\ Respond(r, "replayed", store[key[r]].response)
  /\ epoch' = [epoch EXCEPT ![r] = ttl[key[r]]]
  /\ UNCHANGED <<store, rows, key, hash, attempt, saw, crashed, faults, ttl>>

PollReleased(r) ==
  /\ At(r, "wait")
  /\ store[key[r]] = Absent
  /\ TryAgain(r, TRUE)
  /\ UNCHANGED <<store, rows, key, hash, saw, epoch, crashed, faults, ttl>>

\* Mutant: a waiter that gives up drops the claim it does not own.
WaitTimeoutReleases(r) ==
  /\ At(r, "wait")
  /\ store' = [store EXCEPT ![key[r]] = Absent]
  /\ Respond(r, "conflict", NoRow)
  /\ UNCHANGED <<rows, key, hash, attempt, saw, epoch, crashed, faults, ttl>>

\* Mutant: the deadline is only looked at when the record has gone.
WaitTimeoutOnlyReleased(r) ==
  /\ At(r, "wait")
  /\ store[key[r]] = Absent
  /\ Respond(r, "conflict", NoRow)
  /\ UNCHANGED <<store, rows, key, hash, attempt, saw, epoch, crashed, faults, ttl>>

\* waitTimeoutMs has passed; it may do so whatever the last poll saw.
WaitTimeout(r) ==
  /\ At(r, "wait")
  /\ Respond(r, "conflict", NoRow)
  /\ UNCHANGED <<store, rows, key, hash, attempt, saw, epoch, crashed, faults, ttl>>

-----------------------------------------------------------------------------
\* persistTransaction has a result: a claimed request stores it first.
Succeed(r, kind, x) ==
  IF Keyed(r)
  THEN /\ Goto(r, "complete")
       /\ answer' = answer
       /\ result' = [result EXCEPT ![r] = x]
  ELSE Respond(r, kind, x)

\* Mutant: the catch block forgets the release.
AbortWithoutRelease(r) == Respond(r, "error", NoRow)

\* persistTransaction throws: a claimed request drops its claim first.
Abort(r) ==
  IF Keyed(r)
  THEN Goto(r, "release") /\ UNCHANGED <<answer, result>>
  ELSE Respond(r, "error", NoRow)

\* A wallet, asset or address check rejects the payload.
Reject(r) ==
  /\ At(r, "check")
  /\ Abort(r)
  /\ UNCHANGED <<store, rows, key, hash, attempt, saw, epoch, crashed, faults, ttl>>

\* The row that carries the request's hash, if there is one.
Matches(r) == {x \in rows : hash[r] # NoHash /\ hash[x] = hash[r]}

CheckHit(r) ==
  /\ At(r, "check")
  /\ \E x \in Matches(r) : Succeed(r, "existing", x)
  /\ UNCHANGED <<store, rows, key, hash, attempt, saw, epoch, crashed, faults, ttl>>

CheckMiss(r) ==
  /\ At(r, "check")
  /\ Matches(r) = {}
  /\ Goto(r, "create")
  /\ UNCHANGED <<store, rows, key, hash, attempt, saw, result, answer, epoch, crashed, faults, ttl>>

\* Mutant: stellar_tx_hash has no unique index.
CreateUnchecked(r) ==
  /\ At(r, "create")
  /\ rows' = rows \cup {r}
  /\ Succeed(r, "created", r)
  /\ UNCHANGED <<store, key, hash, attempt, saw, epoch, crashed, faults, ttl>>

\* INSERT; the unique index on stellar_tx_hash lets it through.
Create(r) ==
  /\ At(r, "create")
  /\ Matches(r) = {}
  /\ rows' = rows \cup {r}
  /\ Succeed(r, "created", r)
  /\ UNCHANGED <<store, key, hash, attempt, saw, epoch, crashed, faults, ttl>>

\* INSERT fails with P2002: another request inserted the hash after the pre-check.
CreateP2002(r) ==
  /\ At(r, "create")
  /\ Matches(r) # {}
  /\ Goto(r, "refetch")
  /\ UNCHANGED <<store, rows, key, hash, attempt, saw, result, answer, epoch, crashed, faults, ttl>>

\* No code path deletes a row, so the second lookup always finds it.
Refetch(r) ==
  /\ At(r, "refetch")
  /\ \E x \in Matches(r) : Succeed(r, "existing", x)
  /\ UNCHANGED <<store, rows, key, hash, attempt, saw, epoch, crashed, faults, ttl>>

\* Mutant: the release stands in a finally block.
StoreResponseFinallyReleases(r) ==
  /\ At(r, "complete")
  /\ store' = [store EXCEPT ![key[r]] = Absent]
  /\ Respond(r, IF result[r] = r THEN "created" ELSE "existing", result[r])
  /\ UNCHANGED <<rows, key, hash, attempt, saw, epoch, crashed, faults, ttl>>

\* complete(): an unconditional SET with a fresh TTL, then the response is sent.
StoreResponse(r) ==
  /\ At(r, "complete")
  /\ store' = [store EXCEPT ![key[r]] = Complete(result[r])]
  /\ Respond(r, IF result[r] = r THEN "created" ELSE "existing", result[r])
  /\ UNCHANGED <<rows, key, hash, attempt, saw, epoch, crashed, faults, ttl>>

\* release(): an unconditional DEL, then the error is rethrown.
Release(r) ==
  /\ At(r, "release")
  /\ store' = [store EXCEPT ![key[r]] = Absent]
  /\ Respond(r, "error", NoRow)
  /\ UNCHANGED <<rows, key, hash, attempt, saw, epoch, crashed, faults, ttl>>

-----------------------------------------------------------------------------
\* Failures.  A failed round trip may or may not have taken effect.
Fault(at) == at \in Failing /\ faults < MaxFaults /\ faults' = faults + 1

\* claim() is called outside the try block: its failure releases nothing.
ClaimFault(r) ==
  /\ At(r, "claim")
  /\ Fault("redis")
  /\ \/ UNCHANGED store
     \/ store[key[r]] = Absent /\ store' = [store EXCEPT ![key[r]] = InFlight]
  /\ Respond(r, "error", NoRow)
  /\ UNCHANGED <<rows, key, hash, attempt, saw, epoch, crashed, ttl>>

ReadFault(r) ==
  /\ At(r, "read") \/ At(r, "wait")
  /\ Fault("redis")
  /\ Respond(r, "error", NoRow)
  /\ UNCHANGED <<store, rows, key, hash, attempt, saw, epoch, crashed, ttl>>

LookupFault(r) ==
  /\ At(r, "check") \/ At(r, "refetch")
  /\ Fault("database")
  /\ Abort(r)
  /\ UNCHANGED <<store, rows, key, hash, attempt, saw, epoch, crashed, ttl>>

CreateFault(r) ==
  /\ At(r, "create")
  /\ Fault("database")
  /\ \/ UNCHANGED rows
     \/ Matches(r) = {} /\ rows' = rows \cup {r}
  /\ Abort(r)
  /\ UNCHANGED <<store, key, hash, attempt, saw, epoch, crashed, ttl>>

CompleteFault(r) ==
  /\ At(r, "complete")
  /\ Fault("redis")
  /\ \/ UNCHANGED store
     \/ store' = [store EXCEPT ![key[r]] = Complete(result[r])]
  /\ Goto(r, "release")
  /\ UNCHANGED <<rows, key, hash, attempt, saw, result, answer, epoch, crashed, ttl>>

ReleaseFault(r) ==
  /\ At(r, "release")
  /\ Fault("redis")
  /\ \/ UNCHANGED store
     \/ store' = [store EXCEPT ![key[r]] = Absent]
  /\ Respond(r, "error", NoRow)
  /\ UNCHANGED <<rows, key, hash, attempt, saw, epoch, crashed, ttl>>

\* The process dies; the request is never answered and its claim stays.
Crash(r) ==
  /\ Live(r)
  /\ pc[r] \notin {"idle", "done"}
  /\ Cardinality(crashed) < MaxCrashes
  /\ crashed' = crashed \cup {r}
  /\ UNCHANGED <<store, rows, requestVars, faults, ttl>>

\* 24 hours pass for a record.  No request runs that long, so a record that a
\* live request holds does not expire.
Expire(k) ==
  /\ store[k] # Absent
  /\ ttl[k] < MaxExpiries
  /\ \A r \in Requests : Live(r) /\ Holds(r) => key[r] # k
  /\ store' = [store EXCEPT ![k] = Absent]
  /\ ttl' = [ttl EXCEPT ![k] = @ + 1]
  /\ UNCHANGED <<rows, requestVars, crashed, faults>>

-----------------------------------------------------------------------------
ClaimStep(r) ==
  \/ ClaimWin(r)     \/ ClaimLose(r) \/ ReadVanished(r) \/ ReadInFlight(r)
  \/ Replay(r)       \/ PollReleased(r) \/ WaitTimeout(r)

PersistStep(r) ==
  \/ Reject(r)  \/ CheckHit(r)      \/ CheckMiss(r) \/ Create(r)
  \/ CreateP2002(r) \/ Refetch(r)   \/ StoreResponse(r) \/ Release(r)

FaultStep(r) ==
  \/ ClaimFault(r)  \/ ReadFault(r)     \/ LookupFault(r)
  \/ CreateFault(r) \/ CompleteFault(r) \/ ReleaseFault(r)

Next ==
  \/ \E r \in Requests :
       \/ \E k \in Keys \cup {NoKey}, h \in Hashes \cup {NoHash} : Submit(r, k, h)
       \/ ClaimStep(r)
       \/ PersistStep(r)
       \/ FaultStep(r)
       \/ Crash(r)
  \/ \E k \in Keys : Expire(k)

Spec == Init /\ [][Next]_vars

\* A process that has not died runs its request to the end.
Fairness == \A r \in Requests : WF_vars(ClaimStep(r) \/ PersistStep(r))

FairSpec == Spec /\ Fairness

-----------------------------------------------------------------------------
\* The request that inserted a row under a key in the present TTL window.
Performed(k) ==
  LET inserters == {r \in rows : key[r] = k /\ epoch[r] = ttl[k]}
  IN  IF inserters = {} THEN NoRow ELSE CHOOSE r \in inserters : TRUE

\* The refinement mapping: what the caller of POST /transactions can observe.
Abstract == INSTANCE IdempotentExecution WITH
  bound     <- key,
  performed <- [k \in Keys |-> Performed(k)],
  outcome   <- [k \in Keys |-> store[k].response],
  reply     <- [r \in Requests |-> IF answer[r] \in Ok THEN result[r] ELSE NoRow]

TypeOK ==
  /\ store \in [Keys -> Records]
  /\ rows \in SUBSET Requests
  /\ pc \in [Requests -> Points]
  /\ key \in [Requests -> Keys \cup {NoKey}]
  /\ hash \in [Requests -> Hashes \cup {NoHash}]
  /\ attempt \in [Requests -> 1 .. MaxClaimAttempts]
  /\ saw \in [Requests -> BOOLEAN]
  /\ result \in [Requests -> Requests \cup {NoRow}]
  /\ answer \in [Requests -> Answers]
  /\ crashed \in SUBSET Requests
  /\ faults \in 0 .. MaxFaults
  /\ ttl \in [Keys -> 0 .. MaxExpiries]
  /\ epoch \in [Requests -> 0 .. MaxExpiries]

\* Two requests that refer to the same record: the same key, and no expiry between.
SameRecord(a, b) == Keyed(a) /\ key[a] = key[b] /\ epoch[a] = epoch[b]

\* As long as no round trip to Redis or the database fails, the rows inserted
\* under one key within one TTL window are at most one, whatever the
\* interleaving of the requests, and whichever of their processes die
\* (submitTransaction: "cannot both insert").
OneInsertPerKey ==
  faults = 0 => \A a, b \in rows : SameRecord(a, b) => a = b

\* The same without the condition on faults, which is how submitTransaction
\* documents it: "two concurrent requests carrying the same key cannot both
\* insert".  It is checked with only Redis failing and without hashes, and is
\* refuted by the SET of complete() failing after the INSERT: the catch block
\* releases the key and the second request, claiming it, inserts too.  (With the
\* database failing, an INSERT that commits although its answer is lost does the
\* same one step earlier, and no complete() runs.)
CannotBothInsert == \A a, b \in rows : SameRecord(a, b) => a = b

\* As long as no round trip fails, all requests with one key that succeed within
\* one TTL window report the same row, even when their payloads differ.
SameKeySameAnswer ==
  faults = 0 =>
    \A a, b \in Requests :
      answer[a] \in Ok /\ answer[b] \in Ok /\ SameRecord(a, b) => result[a] = result[b]

\* Requests that carry the same stellarTxHash and were executed, not replayed,
\* report one and the same row, and that row carries the hash: the pre-check
\* and the P2002 path agree in every interleaving, failures included.
SameHashSameRow ==
  \A a, b \in Requests :
    /\ {answer[a], answer[b]} \subseteq {"created", "existing"}
    /\ hash[a] = hash[b]
    /\ hash[a] # NoHash
    => /\ result[a] = result[b]
       /\ result[a] \in rows
       /\ hash[result[a]] = hash[a]

\* As long as no round trip fails, every in-flight record belongs to a request
\* that is still executing or whose process died while executing: no error path
\* leaves a key claimed by nobody ("a single validation error would poison the
\* key for 24h").
NoPoisonedKey ==
  faults = 0 =>
    \A k \in Keys : store[k] = InFlight => \E r \in Requests : Owner(r) /\ key[r] = k

\* As long as no round trip fails, a stored response changes only by expiring:
\* complete() and release() are unconditional, yet a late one never touches the
\* record of another request.
ReplayIsStable ==
  [][faults' = 0 =>
       \A k \in Keys :
         store[k].state = "complete" /\ store'[k] # store[k] => ttl'[k] # ttl[k]]_vars

\* When no round trip fails (the run sets MaxFaults to 0), submitTransaction
\* implements the promise of IdempotentExecution whatever crashes and whatever
\* expires: the work of a key is performed once and every success reports it
\* ("one executes and stores its response, the other replays that stored
\* response without re-executing").
ImplementsIdempotentExecution == Abstract!Spec

\* Every request whose process lives is answered, also when the holder of its
\* key has died and the key stays in flight for ever: the poll loop is bounded.
EveryRequestAnswered ==
  \A r \in Requests : pc[r] # "idle" ~> (pc[r] = "done" \/ r \in crashed)

=============================================================================

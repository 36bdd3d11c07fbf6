------------------------------- MODULE Throttle -------------------------------
(***************************************************************************)
(* The rate limit of one client: ThrottlerBehindProxyGuard over            *)
(* ThrottlerRedisStorage.increment.  A request looks for a block, counts   *)
(* itself in the client's counter, gives the counter its expiry if it has  *)
(* none, and sets a block when the count is over the limit; each is a      *)
(* round trip, and the pipeline of INCR and PTTL is taken for one.  When   *)
(* that pipeline fails the request is let through; another round trip that *)
(* fails, or a process that stops, ends the request unanswered.            *)
(***************************************************************************)
EXTENDS Naturals

CONSTANTS
  Hits,         \* requests of the client
  Limit, Period,    \* limit and ttl of the throttler
  BlockDuration,    \* blockDuration; 0 when it is not configured
  MaxInstant    \* bound on time

ASSUME ThrottleAssumption ==
  /\ Limit \in Nat \ {0} /\ Period \in Nat \ {0}
  /\ BlockDuration \in Nat /\ MaxInstant \in Nat

VARIABLES
  instant,
  totalHits,    \* the counter, 0 when there is no key
  hitsUntil,    \* when the counter expires, a set of at most one
  blockUntil,   \* when the block expires, a set of at most one
  asking,       \* the step of each request
  total,        \* what each request was counted as
  countedAt,    \* history: and when
  here,         \* history: requests counted in the present counter
  startedAt,    \* history: when the counter came to be
  stretched     \* history: the counter was given its expiry late

redisKeys == <<totalHits, hitsUntil, blockUntil>>
throttleHistory == <<countedAt, here, startedAt, stretched>>
throttleVars == <<instant, redisKeys, asking, total, throttleHistory>>

ThrottleInit ==
  /\ instant = 0
  /\ totalHits = 0 /\ hitsUntil = {} /\ blockUntil = {}
  /\ asking = [r \in Hits |-> "idle"] /\ total = [r \in Hits |-> 0]
  /\ countedAt = [r \in Hits |-> 0]
  /\ here = {} /\ startedAt = 0 /\ stretched = FALSE

Step(r, s) == asking' = [asking EXCEPT ![r] = s]

-----------------------------------------------------------------------------
LookForBlock(r) ==
  /\ asking[r] = "idle"
  /\ Step(r, IF blockUntil = {} THEN "count" ELSE "refused")
  /\ UNCHANGED <<instant, redisKeys, total, throttleHistory>>

\* What follows once the counter has its expiry.
Verdict(n) == IF n > Limit THEN "block" ELSE "passed"

\* INCR, and what the history says of it.
Count(r) ==
  /\ totalHits' = totalHits + 1
  /\ total' = [total EXCEPT ![r] = totalHits + 1]
  /\ here' = here \cup {r} /\ countedAt' = [countedAt EXCEPT ![r] = instant]
  /\ startedAt' = IF totalHits = 0 THEN instant ELSE startedAt
  /\ stretched' = (stretched /\ totalHits # 0)
  /\ UNCHANGED <<instant, hitsUntil, blockUntil>>

\* Mutant: only the first request of a counter sets its expiry.
CountFirstOnly(r) ==
  /\ asking[r] = "count"
  /\ Step(r, IF totalHits = 0 THEN "expire" ELSE Verdict(totalHits + 1))
  /\ Count(r)

CountHit(r) ==
  /\ asking[r] = "count"
  /\ Step(r, IF totalHits = 0 \/ hitsUntil = {} THEN "expire" ELSE Verdict(totalHits + 1))
  /\ Count(r)

\* A pipeline resolves even when its commands fail.  The count is undefined then,
\* which is neither the first nor above the limit.
CountFails(r) ==
  /\ asking[r] = "count"
  /\ Step(r, "unmetered")
  /\ UNCHANGED <<instant, redisKeys, total, throttleHistory>>

\* Redis has counted, and its reply is lost.
CountLost(r) ==
  /\ asking[r] = "count"
  /\ Step(r, "unmetered")
  /\ Count(r)

\* PEXPIRE says nothing of a key that is gone.
ExpireCounter(r) ==
  /\ asking[r] = "expire"
  /\ hitsUntil' = IF totalHits = 0 THEN {} ELSE {instant + Period}
  /\ Step(r, Verdict(total[r]))
  /\ stretched' = (stretched \/ countedAt[r] < instant)
  /\ UNCHANGED <<instant, totalHits, blockUntil, total, countedAt, here, startedAt>>

Block(r) ==
  /\ asking[r] = "block"
  /\ blockUntil' = {instant + (IF BlockDuration > 0 THEN BlockDuration ELSE Period)}
  /\ Step(r, "refused")
  /\ UNCHANGED <<instant, totalHits, hitsUntil, total, throttleHistory>>

\* The request ends without an answer of the limiter.
Abandon(r) ==
  /\ asking[r] \in {"count", "expire", "block"}
  /\ Step(r, "abandoned")
  /\ UNCHANGED <<instant, redisKeys, total, throttleHistory>>

InstantPasses ==
  LET gone == instant + 1 \in hitsUntil
  IN  /\ instant < MaxInstant
      /\ instant' = instant + 1
      /\ totalHits' = IF gone THEN 0 ELSE totalHits
      /\ here' = IF gone THEN {} ELSE here
      /\ hitsUntil' = hitsUntil \ {instant + 1}
      /\ blockUntil' = blockUntil \ {instant + 1}
      /\ stretched' = (stretched \/ hitsUntil = {})
      /\ UNCHANGED <<asking, total, countedAt, startedAt>>

ThrottleNext ==
  \/ \E r \in Hits :
       \/ LookForBlock(r) \/ CountHit(r) \/ CountFails(r) \/ CountLost(r)
       \/ ExpireCounter(r) \/ Block(r) \/ Abandon(r)
  \/ InstantPasses

-----------------------------------------------------------------------------
ThrottleSpec == ThrottleInit /\ [][ThrottleNext]_throttleVars

Asking ==
  {"idle", "count", "expire", "block", "passed", "refused", "unmetered", "abandoned"}

\* The variables have the shapes their comments give.
ThrottleTypeOK ==
  /\ instant \in Nat /\ totalHits \in Nat /\ startedAt \in Nat
  /\ hitsUntil \in SUBSET Nat /\ blockUntil \in SUBSET Nat
  /\ asking \in [Hits -> Asking] /\ total \in [Hits -> Nat] /\ countedAt \in [Hits -> Nat]
  /\ here \subseteq Hits /\ stretched \in BOOLEAN

\* A counter holds for one period and lets at most Limit of the requests it counted
\* through, as no two of them have the same count; others pass only when their
\* count was not heard.  It is without an expiry only while a request is about to
\* set one, or when the last one it counted was abandoned or not heard; and it lives
\* longer than a period only when the expiry came late.
ThrottleHolds ==
  /\ \A r, q \in here : total[r] = total[q] => r = q
  /\ \A r \in here : total[r] \in 1 .. totalHits /\ (asking[r] = "passed" => total[r] <= Limit)
  /\ totalHits > 0 =>
       /\ hitsUntil = {} =>
            \E r \in here : asking[r] = "expire" \/ (asking[r] \in {"abandoned", "unmetered"} /\ total[r] = totalHits)
       /\ ~stretched => instant < startedAt + Period

=============================================================================

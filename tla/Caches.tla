------------------------------- MODULE Caches --------------------------------
(***************************************************************************)
(* Two caches in front of the database.  SettingsService keeps the settings*)
(* in the memory of its process, with the time at which the query began,   *)
(* and an update replaces them; UsersService keeps a user's dashboard in   *)
(* Redis with a TTL, and initiatePayment deletes it after its INSERT.  Both*)
(* are filled by readers that miss.  What the database holds is a number:  *)
(* how often it has changed.  The scheduled warming of dashboards is left  *)
(* out: its job carries no user and fails at once.                         *)
(***************************************************************************)
EXTENDS Naturals

CONSTANTS
  Readers,      \* concurrent calls of getSettings, or of getDashboard
  Writers,      \* concurrent calls of updateSettings, or of initiatePayment
  CacheTtl,     \* cacheTtl, or DASHBOARD_CACHE_TTL_MS
  MaxChanges,   \* bound on changes of the database
  MaxMoment     \* bound on time

ASSUME CachesAssumption ==
  /\ CacheTtl \in Nat \ {0} /\ MaxChanges \in Nat /\ MaxMoment \in Nat
  /\ Readers \cap Writers = {}

VARIABLES
  cacheOf,      \* "settings" or "dashboard"; never changes
  current,      \* the state of the database
  replacedAt,   \* when each earlier state was replaced
  moment,
  cached,       \* at most one [state, at]
  filling,      \* the step of each reader, when it began and what it has read
  updating,     \* the state each writer has written, 0 when it has none
  told,         \* history: the newest state whose writer has seen to the cache
  overtaken,    \* history: threads that were past the database at that time
  stale,        \* history: the entry was put there by one of them
  late          \* history: the entry was replaced before it was put there

databaseVars  == <<current, replacedAt>>
cachesHistory == <<told, overtaken, stale, late>>
cachesVars == <<cacheOf, databaseVars, moment, cached, filling, updating, cachesHistory>>

NoFill == [step |-> "idle", from |-> 0, got |-> 0]

CachesInit ==
  /\ cacheOf \in {"settings", "dashboard"}
  /\ current = 0 /\ replacedAt = [s \in 0 .. MaxChanges |-> 0]
  /\ moment = 0
  /\ cached = {}
  /\ filling = [r \in Readers |-> NoFill]
  /\ updating = [w \in Writers |-> 0]
  /\ told = 0 /\ overtaken = {} /\ stale = FALSE /\ late = FALSE

Served == {c \in cached : moment < c.at + CacheTtl}

-----------------------------------------------------------------------------
\* A reader misses: the settings are looked up in memory, the dashboard in Redis,
\* where a failure counts as a miss.
Miss(r) ==
  /\ filling[r] = NoFill
  /\ cacheOf = "settings" => Served = {}
  /\ filling' = [filling EXCEPT ![r] = [step |-> "query", from |-> moment, got |-> 0]]
  /\ UNCHANGED <<cacheOf, databaseVars, moment, cached, updating, cachesHistory>>

Query(r) ==
  /\ filling[r].step = "query"
  /\ filling' = [filling EXCEPT ![r].step = "store", ![r].got = current]
  /\ UNCHANGED <<cacheOf, databaseVars, moment, cached, updating, cachesHistory>>

Cache(state, at, thread) ==
  /\ cached' = {[state |-> state, at |-> at]}
  /\ stale' = (thread \in overtaken)

\* Mutant: the age of the settings counts from the answer of the query.
StoreStampedLate(r) ==
  /\ filling[r].step = "store"
  /\ Cache(filling[r].got, moment, r)
  /\ late' = (cacheOf = "dashboard" /\ filling[r].got < current)
  /\ filling' = [filling EXCEPT ![r] = NoFill]
  /\ overtaken' = overtaken \ {r}
  /\ UNCHANGED <<cacheOf, databaseVars, moment, updating, told>>

\* lastCacheUpdate is taken before the query; the TTL of Redis runs from the SET.
Store(r) ==
  /\ filling[r].step = "store"
  /\ Cache(filling[r].got, IF cacheOf = "settings" THEN filling[r].from ELSE moment, r)
  /\ late' = (cacheOf = "dashboard" /\ filling[r].got < current)
  /\ filling' = [filling EXCEPT ![r] = NoFill]
  /\ overtaken' = overtaken \ {r}
  /\ UNCHANGED <<cacheOf, databaseVars, moment, updating, told>>

\* A failed SET is logged, and the reader answers all the same.
StoreFails(r) ==
  /\ cacheOf = "dashboard" /\ filling[r].step = "store"
  /\ filling' = [filling EXCEPT ![r] = NoFill]
  /\ overtaken' = overtaken \ {r}
  /\ UNCHANGED <<cacheOf, databaseVars, moment, cached, updating, told, stale, late>>

-----------------------------------------------------------------------------
Change ==
  /\ current < MaxChanges
  /\ current' = current + 1
  /\ replacedAt' = [replacedAt EXCEPT ![current] = moment]

Write(w) ==
  /\ updating[w] = 0
  /\ Change
  /\ updating' = [updating EXCEPT ![w] = current + 1]
  /\ UNCHANGED <<cacheOf, moment, cached, filling, cachesHistory>>

\* Another process updates the settings, or a worker a transaction of the user.
ChangeElsewhere ==
  /\ Change
  /\ UNCHANGED <<cacheOf, moment, cached, filling, updating, cachesHistory>>

\* The writer is done with the cache.
Tell(w) ==
  /\ told' = IF updating[w] > told THEN updating[w] ELSE told
  /\ overtaken' = {r \in Readers : filling[r].step = "store"}
                  \cup {v \in Writers \ {w} : updating[v] # 0}
  /\ updating' = [updating EXCEPT ![w] = 0]
  /\ UNCHANGED <<cacheOf, databaseVars, moment, filling>>

\* updateSettings replaces the cache by the row it has got back.
ReplaceSettings(w) ==
  /\ cacheOf = "settings" /\ updating[w] # 0
  /\ Cache(updating[w], moment, w)
  /\ late' = (updating[w] < current)
  /\ Tell(w)

Invalidate(w) ==
  /\ cacheOf = "dashboard" /\ updating[w] # 0
  /\ cached' = {} /\ stale' = FALSE /\ late' = FALSE
  /\ Tell(w)

InvalidateFails(w) ==
  /\ cacheOf = "dashboard" /\ updating[w] # 0
  /\ updating' = [updating EXCEPT ![w] = 0]
  /\ overtaken' = overtaken \ {w}
  /\ UNCHANGED <<cacheOf, databaseVars, moment, cached, filling, told, stale, late>>

\* The process starts again; Redis keeps its entry.
Reboot ==
  /\ cached' = IF cacheOf = "settings" THEN {} ELSE cached
  /\ filling' = [r \in Readers |-> NoFill]
  /\ updating' = [w \in Writers |-> 0]
  /\ overtaken' = {}
  /\ UNCHANGED <<cacheOf, databaseVars, moment, told, stale, late>>

MomentPasses ==
  /\ moment < MaxMoment
  /\ moment' = moment + 1
  /\ UNCHANGED <<cacheOf, databaseVars, cached, filling, updating, cachesHistory>>

CachesNext ==
  \/ \E r \in Readers : Miss(r) \/ Query(r) \/ Store(r) \/ StoreFails(r)
  \/ \E w \in Writers : Write(w) \/ ReplaceSettings(w) \/ Invalidate(w) \/ InvalidateFails(w)
  \/ ChangeElsewhere \/ Reboot \/ MomentPasses

-----------------------------------------------------------------------------
CachesSpec == CachesInit /\ [][CachesNext]_cachesVars

Fill == [step : {"idle", "query", "store"}, from : Nat, got : 0 .. MaxChanges]

\* The variables have the shapes their comments give.
CachesTypeOK ==
  /\ cacheOf \in {"settings", "dashboard"}
  /\ current \in 0 .. MaxChanges /\ replacedAt \in [0 .. MaxChanges -> Nat] /\ moment \in Nat
  /\ cached \in SUBSET [state : 0 .. MaxChanges, at : Nat]
  /\ filling \in [Readers -> Fill]
  /\ updating \in [Writers -> 0 .. MaxChanges]
  /\ told \in 0 .. MaxChanges /\ overtaken \subseteq Readers \cup Writers
  /\ stale \in BOOLEAN /\ late \in BOOLEAN

\* What a cache answers was in the database less than the TTL ago, unless it
\* was replaced on its way into the cache; and it is as new as every change
\* whose writer has answered, unless it was put there by a call that had read
\* or written the database before that answer.
CachesAreRecent ==
  \A c \in Served :
    /\ c.state < current /\ ~late => moment < replacedAt[c.state] + CacheTtl
    /\ c.state < told => stale

=============================================================================

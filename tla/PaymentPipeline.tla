---------------------------- MODULE PaymentPipeline ----------------------------
(***************************************************************************)
(* The life of a row of the transactions table of ignition-api, from the   *)
(* request that inserts it to its last status, and everybody who writes    *)
(* that status.                                                            *)
(*                                                                         *)
(* Payments are rows of POST /payments/:walletId: initiatePayment checks   *)
(* the rolling limits, inserts a PENDING row without a hash and adds a job *)
(* to the Bull queue "payments", which PaymentProcessor works off.         *)
(* Submitted are rows of POST /transactions that carry a stellarTxHash:    *)
(* HorizonPollingScheduler and HorizonPollingProcessor follow them on the  *)
(* Stellar ledger.  StaleTransactionMonitorService sweeps both.            *)
(*                                                                         *)
(* All rows leave one wallet and lie in one window of its rolling limits.  *)
(* An element of Payments is one request and names the row it inserts.     *)
(***************************************************************************)
EXTENDS Integers, FiniteSets, FiniteSetsExt

CONSTANTS
  Payments,            \* requests to initiatePayment
  Submitted,           \* rows inserted by submitTransaction
  Amount,              \* the amount of each payment
  Limit,               \* the tighter of dailyLimit and monthlyLimit
  MaxAttempts,         \* attempts of a payment job (DEFAULT_BACKOFF_SETTINGS)
  MaxStalls,           \* how often Bull restarts a stalled job (its maxStalledCount)
  MaxHorizonAttempts,  \* attempts of a Horizon check job
  MaxFaults            \* bound: failed round trips and processes that die

ASSUME PipelineAssumption ==
  /\ IsFiniteSet(Payments)
  /\ Payments \cap Submitted = {}
  /\ Amount \in [Payments -> Nat \ {0}]
  /\ Limit \in Nat
  /\ MaxAttempts \in Nat \ {0}
  /\ MaxStalls \in Nat
  /\ MaxHorizonAttempts \in Nat \ {0}
  /\ MaxFaults \in Nat

Transactions == Payments \cup Submitted

VARIABLES
  status,       \* the status column of every row, "absent" before the INSERT
  old,          \* rows older than STALE_TX_PENDING_TIMEOUT_MINUTES
  request,      \* where each initiatePayment call is
  job,          \* the Bull job of each payment
  tries,        \* attempts of the job that failed
  stalls,       \* times the job was found stalled
  deadLetters,  \* updates started by onJobFailed that have not landed
  swept,        \* the rows failStalePending has read and will update
  ledger,       \* what Horizon knows of each submitted transaction
  listed,       \* rows a scan of the scheduler has read and not yet enqueued
  check,        \* the Bull job horizon-check-<id>
  checks,       \* attempts of that job that failed
  faults,       \* failures so far
  lost,         \* history: payments of which a dead-letter update failed
  overlooked    \* history: a limit check could not see a row that counts

paymentVars == <<request, job, tries, stalls, deadLetters, lost, overlooked>>
horizonVars == <<ledger, listed, check, checks>>
vars == <<status, old, swept, faults, paymentVars, horizonVars>>

Statuses == {"absent", "PENDING", "PROCESSING", "COMPLETED", "FAILED"}
Open     == {"PENDING", "PROCESSING"}
Final    == {"COMPLETED", "FAILED"}
Requests == {"idle", "insert", "enqueue", "queued", "refused", "broken"}

\* "waiting" is in the queue or taken by a worker that has written nothing yet,
\* "marked" has written PROCESSING, "acking" has written COMPLETED.
Running == {"waiting", "marked", "acking"}
Jobs    == {"none", "completed", "failed"} \cup Running
Checks  == {"none", "waiting", "found", "failed"}

Init ==
  /\ status = [t \in Transactions |-> "absent"]
  /\ old = {}
  /\ request = [p \in Payments |-> "idle"]
  /\ job = [p \in Payments |-> "none"]
  /\ tries = [p \in Payments |-> 0]
  /\ stalls = [p \in Payments |-> 0]
  /\ deadLetters = [p \in Payments |-> 0]
  /\ swept = {}
  /\ ledger = [t \in Submitted |-> "unknown"]
  /\ listed = {}
  /\ check = [t \in Submitted |-> "none"]
  /\ checks = [t \in Submitted |-> 0]
  /\ faults = 0
  /\ lost = {}
  /\ overlooked = FALSE

Fault == faults < MaxFaults /\ faults' = faults + 1

SetStatus(t, new) == status' = [status EXCEPT ![t] = new]


-----------------------------------------------------------------------------
(* PaymentsService.initiatePayment *)

Outgoing(S) == MapThenSumSet(LAMBDA p : Amount[p], {p \in Payments : status[p] \in S})

\* Mutant: only settled rows count.
CountedSpendSettled == Outgoing({"COMPLETED"})

\* The aggregate of validateTransactionLimits: PENDING and COMPLETED rows only.
CountedSpend == Outgoing({"PENDING", "COMPLETED"})

\* Rows the aggregate of p misses: inserts of calls that have passed the check
\* and not yet inserted, and rows a worker is processing.
Unseen(p) ==
  {q \in Payments : (q # p /\ request[q] = "insert") \/ status[q] = "PROCESSING"}

\* The wallet is in order; the limits are read and compared.
CheckLimits(p) ==
  /\ request[p] = "idle"
  /\ request' = [request EXCEPT ![p] =
       IF CountedSpend + Amount[p] <= Limit THEN "insert" ELSE "refused"]
  /\ overlooked' = (overlooked \/ Unseen(p) # {})
  /\ UNCHANGED <<status, old, swept, faults, job, tries, stalls, deadLetters, lost, horizonVars>>

InsertPending(p) ==
  /\ request[p] = "insert"
  /\ SetStatus(p, "PENDING")
  /\ request' = [request EXCEPT ![p] = "enqueue"]
  /\ UNCHANGED <<old, swept, faults, job, tries, stalls, deadLetters, lost, overlooked, horizonVars>>

Enqueue(p) ==
  /\ request[p] = "enqueue"
  /\ job' = [job EXCEPT ![p] = "waiting"]
  /\ request' = [request EXCEPT ![p] = "queued"]
  /\ UNCHANGED <<status, old, swept, faults, tries, stalls, deadLetters, lost, overlooked, horizonVars>>

\* The call fails or its process dies: what it was doing happened or did not,
\* and nothing is undone.
RequestBreaks(p) ==
  /\ request[p] \in {"insert", "enqueue"}
  /\ Fault
  /\ request' = [request EXCEPT ![p] = "broken"]
  /\ \/ UNCHANGED <<status, job>>
     \/ request[p] = "insert" /\ SetStatus(p, "PENDING") /\ UNCHANGED job
     \/ request[p] = "enqueue" /\ job' = [job EXCEPT ![p] = "waiting"] /\ UNCHANGED status
  /\ UNCHANGED <<old, swept, tries, stalls, deadLetters, lost, overlooked, horizonVars>>

-----------------------------------------------------------------------------
(* PaymentProcessor on the queue "payments".  The submission to Stellar is a   *)
(* placeholder in the code: only the two updates can fail.                     *)

\* The first update.  It is unguarded: it also revives a row marked FAILED.
MarkProcessing(p) ==
  /\ job[p] = "waiting"
  /\ SetStatus(p, "PROCESSING")
  /\ job' = [job EXCEPT ![p] = "marked"]
  /\ overlooked' = (overlooked \/ status[p] = "FAILED")
  /\ UNCHANGED <<old, request, swept, faults, tries, stalls, deadLetters, lost, horizonVars>>

\* The second update, unguarded as well.
MarkCompleted(p) ==
  /\ job[p] = "marked"
  /\ SetStatus(p, "COMPLETED")
  /\ job' = [job EXCEPT ![p] = "acking"]
  /\ overlooked' = (overlooked \/ status[p] = "FAILED")
  /\ UNCHANGED <<old, request, swept, faults, tries, stalls, deadLetters, lost, horizonVars>>

\* handlePayment has returned and Bull removes the job.
JobCompletes(p) ==
  /\ job[p] = "acking"
  /\ job' = [job EXCEPT ![p] = "completed"]
  /\ UNCHANGED <<status, old, request, swept, faults, tries, stalls, deadLetters, lost, overlooked, horizonVars>>

\* Mutant: Bull gives up on a job without the event.
GiveUpSilently(p) ==
  /\ job' = [job EXCEPT ![p] = "failed"]
  /\ UNCHANGED deadLetters

\* Bull gives up on a job and emits "failed": onJobFailed starts an update.
GiveUp(p) ==
  /\ job' = [job EXCEPT ![p] = "failed"]
  /\ deadLetters' = [deadLetters EXCEPT ![p] = @ + 1]

\* An update throws, whether or not it took effect.  Bull emits "failed" after
\* every failed attempt, so onJobFailed also runs when a retry will follow.
AttemptFails(p) ==
  /\ job[p] \in {"waiting", "marked"}
  /\ Fault
  /\ tries' = [tries EXCEPT ![p] = @ + 1]
  /\ \/ UNCHANGED <<status, overlooked>>
     \/ /\ SetStatus(p, IF job[p] = "waiting" THEN "PROCESSING" ELSE "COMPLETED")
        /\ overlooked' = (overlooked \/ status[p] = "FAILED")
  /\ IF tries[p] + 1 < MaxAttempts
     THEN /\ job' = [job EXCEPT ![p] = "waiting"]
          /\ deadLetters' = [deadLetters EXCEPT ![p] = @ + 1]
     ELSE GiveUp(p)
  /\ UNCHANGED <<old, request, swept, stalls, lost, horizonVars>>

\* The worker dies with the job: Bull finds it stalled and restarts it, up to
\* MaxStalls times.
Stalls(p) ==
  /\ job[p] \in Running
  /\ Fault
  /\ IF stalls[p] < MaxStalls
     THEN /\ stalls' = [stalls EXCEPT ![p] = @ + 1]
          /\ job' = [job EXCEPT ![p] = "waiting"]
          /\ UNCHANGED deadLetters
     ELSE GiveUp(p) /\ UNCHANGED stalls
  /\ UNCHANGED <<status, old, request, swept, tries, lost, overlooked, horizonVars>>

\* Mutant: onJobFailed only logs.
LandDeadLetterOnlyLogs(p) ==
  /\ deadLetters[p] > 0
  /\ deadLetters' = [deadLetters EXCEPT ![p] = @ - 1]
  /\ UNCHANGED <<status, old, request, job, swept, faults, tries, stalls, lost, overlooked, horizonVars>>

\* An update of onJobFailed reaches the database, possibly after the retry has
\* already written something else.
LandDeadLetter(p) ==
  /\ deadLetters[p] > 0
  /\ deadLetters' = [deadLetters EXCEPT ![p] = @ - 1]
  /\ SetStatus(p, "FAILED")
  /\ UNCHANGED <<old, request, job, swept, faults, tries, stalls, lost, overlooked, horizonVars>>

\* The update is best effort: its failure is logged, nothing retries it.
LoseDeadLetter(p) ==
  /\ deadLetters[p] > 0
  /\ Fault
  /\ deadLetters' = [deadLetters EXCEPT ![p] = @ - 1]
  /\ lost' = lost \cup {p}
  /\ UNCHANGED <<status, old, request, job, swept, tries, stalls, overlooked, horizonVars>>

-----------------------------------------------------------------------------
(* StaleTransactionMonitorService.sweep.  Its other half, requeueStaleProcessing, *)
(* adds a Horizon check without a hash for a stale PROCESSING row: only payments  *)
(* are ever PROCESSING, they have no hash, and the check returns at once.         *)

Age(t) ==
  /\ status[t] # "absent"
  /\ t \notin old
  /\ old' = old \cup {t}
  /\ UNCHANGED <<status, swept, faults, paymentVars, horizonVars>>

SweepRead ==
  /\ swept = {}
  /\ swept' = {t \in old : status[t] = "PENDING"}
  /\ swept' # {}
  /\ UNCHANGED <<status, old, faults, paymentVars, horizonVars>>

\* updateMany by id: whatever the rows have become in the meantime.
SweepWrite ==
  /\ swept # {}
  /\ status' = [t \in Transactions |-> IF t \in swept THEN "FAILED" ELSE status[t]]
  /\ swept' = {}
  /\ UNCHANGED <<old, faults, paymentVars, horizonVars>>

SweepBreaks ==
  /\ swept # {}
  /\ Fault
  /\ swept' = {}
  /\ UNCHANGED <<status, old, paymentVars, horizonVars>>

-----------------------------------------------------------------------------
(* Submitted rows, HorizonPollingScheduler and HorizonPollingProcessor *)

\* persistTransaction inserts the row (module SubmitTransaction).
SubmitRow(t) ==
  /\ status[t] = "absent"
  /\ SetStatus(t, "PENDING")
  /\ UNCHANGED <<old, swept, faults, paymentVars, horizonVars>>

\* The Stellar network decides; a transaction may also never be seen.
LedgerCloses(t) ==
  /\ ledger[t] = "unknown"
  /\ \E outcome \in {"success", "failure"} : ledger' = [ledger EXCEPT ![t] = outcome]
  /\ UNCHANGED <<status, old, swept, faults, paymentVars, listed, check, checks>>

Scan ==
  /\ listed' = listed \cup {t \in Submitted : status[t] \in Open}
  /\ listed' # listed
  /\ UNCHANGED <<status, old, swept, faults, paymentVars, ledger, check, checks>>

\* A job of that id, even one that has failed for good, suppresses the new one.
EnqueueCheck(t) ==
  /\ t \in listed
  /\ listed' = listed \ {t}
  /\ check' = [check EXCEPT ![t] = IF @ = "none" THEN "waiting" ELSE @]
  /\ UNCHANGED <<status, old, swept, faults, paymentVars, ledger, checks>>

\* An attempt throws; removeOnFail is false, so an exhausted job stays.
CheckThrows(t) ==
  /\ checks' = [checks EXCEPT ![t] = @ + 1]
  /\ check' = [check EXCEPT ![t] =
       IF checks[t] + 1 < MaxHorizonAttempts THEN "waiting" ELSE "failed"]
  /\ UNCHANGED <<status, old, swept, paymentVars, ledger, listed>>

CheckNotFound(t) ==
  /\ check[t] = "waiting"
  /\ ledger[t] = "unknown"
  /\ CheckThrows(t)
  /\ UNCHANGED faults

CheckBreaks(t) ==
  /\ check[t] \in {"waiting", "found"}
  /\ Fault
  /\ CheckThrows(t)

CheckFound(t) ==
  /\ check[t] = "waiting"
  /\ ledger[t] # "unknown"
  /\ check' = [check EXCEPT ![t] = "found"]
  /\ UNCHANGED <<status, old, swept, faults, paymentVars, ledger, listed, checks>>

\* Mutant: the update has no condition on the status.
FinaliseStatusUnguarded(t) ==
  /\ check[t] = "found"
  /\ SetStatus(t, IF ledger[t] = "success" THEN "COMPLETED" ELSE "FAILED")
  /\ check' = [check EXCEPT ![t] = "none"]
  /\ checks' = [checks EXCEPT ![t] = 0]
  /\ UNCHANGED <<old, swept, faults, paymentVars, ledger, listed>>

\* Mutant: being found on Horizon is taken for success.
FinaliseStatusAnyResult(t) ==
  /\ check[t] = "found"
  /\ IF status[t] \in Open THEN SetStatus(t, "COMPLETED") ELSE UNCHANGED status
  /\ check' = [check EXCEPT ![t] = "none"]
  /\ checks' = [checks EXCEPT ![t] = 0]
  /\ UNCHANGED <<old, swept, faults, paymentVars, ledger, listed>>

\* updateMany guarded by the status; the job is then removed.
FinaliseStatus(t) ==
  /\ check[t] = "found"
  /\ IF status[t] \in Open
     THEN SetStatus(t, IF ledger[t] = "success" THEN "COMPLETED" ELSE "FAILED")
     ELSE UNCHANGED status
  /\ check' = [check EXCEPT ![t] = "none"]
  /\ checks' = [checks EXCEPT ![t] = 0]
  /\ UNCHANGED <<old, swept, faults, paymentVars, ledger, listed>>

-----------------------------------------------------------------------------
RequestStep(p) == CheckLimits(p) \/ InsertPending(p) \/ Enqueue(p)
WorkerStep(p)  == MarkProcessing(p) \/ MarkCompleted(p) \/ JobCompletes(p)
SweepStep      == SweepRead \/ SweepWrite
CheckStep(t)   == CheckNotFound(t) \/ CheckFound(t) \/ FinaliseStatus(t)

PaymentFault(p) ==
  RequestBreaks(p) \/ AttemptFails(p) \/ Stalls(p) \/ LoseDeadLetter(p)

Next ==
  \/ \E p \in Payments :
       RequestStep(p) \/ WorkerStep(p) \/ LandDeadLetter(p) \/ PaymentFault(p)
  \/ \E t \in Submitted :
       \/ SubmitRow(t) \/ LedgerCloses(t) \/ EnqueueCheck(t)
       \/ CheckStep(t) \/ CheckBreaks(t)
  \/ \E t \in Transactions : Age(t)
  \/ Scan \/ SweepStep \/ SweepBreaks

Spec == Init /\ [][Next]_vars

\* Calls run to their end, the queues are worked off, the cron jobs run and
\* time passes.  Nothing is assumed of the network or of new requests.
Fairness ==
  /\ \A p \in Payments :
       /\ WF_vars(InsertPending(p) \/ Enqueue(p))
       /\ WF_vars(WorkerStep(p))
       /\ WF_vars(LandDeadLetter(p))
  /\ \A t \in Submitted : WF_vars(EnqueueCheck(t)) /\ WF_vars(CheckStep(t))
  /\ \A t \in Transactions : WF_vars(Age(t))
  /\ WF_vars(Scan) /\ WF_vars(SweepStep)

FairSpec == Spec /\ Fairness

-----------------------------------------------------------------------------
TypeOK ==
  /\ status \in [Transactions -> Statuses]
  /\ old \in SUBSET Transactions
  /\ request \in [Payments -> Requests]
  /\ job \in [Payments -> Jobs]
  /\ tries \in [Payments -> 0 .. MaxAttempts]
  /\ stalls \in [Payments -> 0 .. MaxStalls]
  /\ deadLetters \in [Payments -> Nat]
  /\ swept \in SUBSET Transactions
  /\ ledger \in [Submitted -> {"unknown", "success", "failure"}]
  /\ listed \in SUBSET Submitted
  /\ check \in [Submitted -> Checks]
  /\ checks \in [Submitted -> 0 .. MaxHorizonAttempts]
  /\ faults \in 0 .. MaxFaults
  /\ lost \in SUBSET Payments
  /\ overlooked \in BOOLEAN

\* A payment is left in PROCESSING, where nothing looks at it again, only if a
\* dead-letter update was lost: otherwise a job that will write it, or an update
\* of onJobFailed, is still under way ("so it is never stuck in
\* PENDING/PROCESSING").
NoStuckProcessing ==
  \A p \in Payments :
    status[p] = "PROCESSING" => job[p] \in Running \/ deadLetters[p] > 0 \/ p \in lost

\* A submitted row says COMPLETED only if the ledger says so, and FAILED against
\* the ledger only if it was old enough for the stale sweep, in every
\* interleaving of sweep, scan, check and late confirmation.
LedgerAgreement ==
  \A t \in Submitted :
    /\ status[t] = "COMPLETED" => ledger[t] = "success"
    /\ status[t] = "FAILED" => ledger[t] = "failure" \/ t \in old

\* A submitted row that has reached a final status is never changed again,
\* except to FAILED by a sweep that read it before it was final: a late Horizon
\* answer does not overwrite "a status that was already finalised through
\* another path".
FinalStatusStable ==
  [][\A t \in Submitted :
       status[t] \in Final /\ status'[t] # status[t]
         => status'[t] = "FAILED" /\ t \in swept]_vars

\* The payments of a wallet that have not failed stay within its limit, unless
\* a check overlapped another call's insert or a row in PROCESSING, or a row
\* already written off as FAILED came back through a retry: these are all the
\* ways past validateTransactionLimits.
LimitHolds ==
  overlooked \/ Outgoing({"PENDING", "PROCESSING", "COMPLETED"}) <= Limit

\* Every inserted row reaches a final status, if at most MaxStalls + 1 things
\* fail: a job lost between INSERT and add is swept, exhausted and stalled jobs
\* are written off by onJobFailed, and a transaction that never reaches the
\* ledger times out.
EveryRowFinalised ==
  \A t \in Transactions : status[t] # "absent" ~> status[t] \in Final

=============================================================================

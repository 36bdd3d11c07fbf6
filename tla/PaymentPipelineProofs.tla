------------------------- MODULE PaymentPipelineProofs -------------------------
(***************************************************************************)
(* For every set of payments and submitted rows, all amounts, limits and   *)
(* numbers of attempts, restarts and failures: a payment is left in        *)
(* PROCESSING only when a dead-letter update was lost, the status of a     *)
(* submitted row agrees with the ledger and is final once it is final, up  *)
(* to the stale sweep, and a wallet spends no more than its limit, up to   *)
(* the ways past the check that are named.                                 *)
(*                                                                         *)
(* For the limit, payments that have passed the check and have no row yet  *)
(* count as well: what is reserved by them and by the rows stays within    *)
(* the limit.                                                              *)
(***************************************************************************)
EXTENDS PaymentPipeline, TLAPS, Sums

\* A job that can still fail has an attempt left; a job not yet added has
\* spent none.
AttemptsLeft ==
  \A p \in Payments :
    /\ job[p] \in Running => tries[p] < MaxAttempts
    /\ job[p] = "none" => tries[p] = 0
    /\ request[p] \in {"idle", "insert", "enqueue"} => job[p] = "none"

\* The same of the Horizon checks.
ChecksLeft ==
  \A t \in Submitted :
    /\ check[t] \in {"waiting", "found"} => checks[t] < MaxHorizonAttempts
    /\ check[t] = "none" => checks[t] = 0

\* The types, and the counters that they bound.
Typed == TypeOK /\ AttemptsLeft /\ ChecksLeft

\* After its second update a job never finds its row in PROCESSING again.
DoneNotProcessing ==
  \A p \in Payments : job[p] \in {"acking", "completed"} => status[p] # "PROCESSING"

\* A row is found on the ledger only after the ledger has decided.
FoundIsDecided == \A t \in Submitted : check[t] = "found" => ledger[t] # "unknown"

\* The sweep has read old rows only.
SweptIsOld == swept \subseteq old

\* The inductive invariants of jobs and of Horizon checks.
StuckInv  == DoneNotProcessing /\ NoStuckProcessing
LedgerInv == FoundIsDecided /\ SweptIsOld /\ LedgerAgreement

-----------------------------------------------------------------------------
\* The types and the counters they bound hold initially.
LEMMA TypedInit == Init => Typed
<1> SUFFICES ASSUME Init PROVE Typed
  OBVIOUS
<1> USE PipelineAssumption DEF Init
<1>1. TypeOK
  <2>1. /\ status \in [Transactions -> Statuses]
        /\ request \in [Payments -> Requests]
        /\ job \in [Payments -> Jobs]
        /\ ledger \in [Submitted -> {"unknown", "success", "failure"}]
        /\ check \in [Submitted -> Checks]
    BY DEF Statuses, Requests, Jobs, Checks
  <2>2. /\ tries \in [Payments -> 0 .. MaxAttempts]
        /\ stalls \in [Payments -> 0 .. MaxStalls]
        /\ deadLetters \in [Payments -> Nat]
        /\ checks \in [Submitted -> 0 .. MaxHorizonAttempts]
        /\ faults \in 0 .. MaxFaults
    OBVIOUS
  <2>3. /\ old \in SUBSET Transactions
        /\ swept \in SUBSET Transactions
        /\ listed \in SUBSET Submitted
        /\ lost \in SUBSET Payments
        /\ overlooked \in BOOLEAN
    OBVIOUS
  <2> QED BY <2>1, <2>2, <2>3 DEF TypeOK
<1>2. AttemptsLeft
  BY DEF AttemptsLeft, Running
<1>3. ChecksLeft
  BY DEF ChecksLeft
<1> QED BY <1>1, <1>2, <1>3 DEF Typed

\* Every step of the pipeline preserves the types and the counters they bound.
LEMMA TypedStep == Typed /\ [Next]_vars => Typed'
<1> SUFFICES ASSUME Typed, [Next]_vars PROVE Typed'
  OBVIOUS
<1> USE PipelineAssumption
    DEF Typed, TypeOK, AttemptsLeft, ChecksLeft, Transactions, Statuses, Requests,
        Jobs, Running, Checks, SetStatus, paymentVars, horizonVars
<1>1. ASSUME NEW p \in Payments, RequestStep(p) PROVE Typed'
  <2>1. CASE CheckLimits(p)
    BY <2>1 DEF CheckLimits
  <2>2. CASE InsertPending(p)
    BY <2>2 DEF InsertPending
  <2>3. CASE Enqueue(p)
    BY <2>3 DEF Enqueue
  <2> QED BY <1>1, <2>1, <2>2, <2>3 DEF RequestStep
<1>2. ASSUME NEW p \in Payments, WorkerStep(p) PROVE Typed'
  <2>1. CASE MarkProcessing(p)
    BY <2>1 DEF MarkProcessing
  <2>2. CASE MarkCompleted(p)
    BY <2>2 DEF MarkCompleted
  <2>3. CASE JobCompletes(p)
    BY <2>3 DEF JobCompletes
  <2> QED BY <1>2, <2>1, <2>2, <2>3 DEF WorkerStep
<1>3. ASSUME NEW p \in Payments, LandDeadLetter(p) PROVE Typed'
  BY <1>3 DEF LandDeadLetter
<1>4. ASSUME NEW p \in Payments, PaymentFault(p) PROVE Typed'
  <2>1. CASE RequestBreaks(p)
    BY <2>1 DEF RequestBreaks, Fault
  <2>2. CASE AttemptFails(p)
    <3>1. tries[p] + 1 \in 0 .. MaxAttempts /\ faults' \in 0 .. MaxFaults
      BY <2>2 DEF AttemptFails, Fault
    <3>2. status' \in [Transactions -> Statuses] /\ overlooked' \in BOOLEAN
      BY <2>2 DEF AttemptFails
    <3>3. job' \in [Payments -> Jobs] /\ deadLetters' \in [Payments -> Nat]
      BY <2>2 DEF AttemptFails, GiveUp
    <3>4. TypeOK'
      BY <2>2, <3>1, <3>2, <3>3 DEF AttemptFails
    <3>5. AttemptsLeft'
      BY <2>2, <3>1 DEF AttemptFails, GiveUp
    <3>6. ChecksLeft'
      BY <2>2 DEF AttemptFails
    <3> QED BY <3>4, <3>5, <3>6
  <2>3. CASE Stalls(p)
    BY <2>3 DEF Stalls, GiveUp, Fault
  <2>4. CASE LoseDeadLetter(p)
    BY <2>4 DEF LoseDeadLetter, Fault
  <2> QED BY <1>4, <2>1, <2>2, <2>3, <2>4 DEF PaymentFault
<1>5. ASSUME NEW t \in Submitted, SubmitRow(t) PROVE Typed'
  BY <1>5 DEF SubmitRow
<1>6. ASSUME NEW t \in Submitted, LedgerCloses(t) PROVE Typed'
  BY <1>6 DEF LedgerCloses
<1>7. ASSUME NEW t \in Submitted, EnqueueCheck(t) PROVE Typed'
  BY <1>7 DEF EnqueueCheck
<1>8. ASSUME NEW t \in Submitted, CheckStep(t) PROVE Typed'
  <2>1. CASE CheckNotFound(t)
    BY <2>1 DEF CheckNotFound, CheckThrows
  <2>2. CASE CheckFound(t)
    BY <2>2 DEF CheckFound
  <2>3. CASE FinaliseStatus(t)
    BY <2>3 DEF FinaliseStatus, Open
  <2> QED BY <1>8, <2>1, <2>2, <2>3 DEF CheckStep
<1>9. ASSUME NEW t \in Submitted, CheckBreaks(t) PROVE Typed'
  BY <1>9 DEF CheckBreaks, CheckThrows, Fault
<1>10. ASSUME NEW t \in Transactions, Age(t) PROVE Typed'
  BY <1>10 DEF Age
<1>11. CASE Scan
  BY <1>11 DEF Scan
<1>12. CASE SweepStep
  <2>1. CASE SweepRead
    BY <2>1 DEF SweepRead
  <2>2. CASE SweepWrite
    BY <2>2 DEF SweepWrite
  <2> QED BY <1>12, <2>1, <2>2 DEF SweepStep
<1>13. CASE SweepBreaks
  BY <1>13 DEF SweepBreaks, Fault
<1>14. CASE UNCHANGED vars
  BY <1>14 DEF vars
<1> QED
  BY <1>1, <1>2, <1>3, <1>4, <1>5, <1>6, <1>7, <1>8, <1>9, <1>10, <1>11, <1>12, <1>13, <1>14
  DEF Next

-----------------------------------------------------------------------------
\* No step leaves a payment in PROCESSING with nobody to write it, unless a
\* dead-letter update is lost in that step.
LEMMA StuckStep == Typed /\ StuckInv /\ [Next]_vars => StuckInv'
<1> SUFFICES ASSUME Typed, StuckInv, [Next]_vars PROVE StuckInv'
  OBVIOUS
<1> USE PipelineAssumption
    DEF Typed, TypeOK, AttemptsLeft, StuckInv, DoneNotProcessing, NoStuckProcessing,
        Transactions, Running, SetStatus, paymentVars, horizonVars
<1>1. ASSUME NEW p \in Payments, RequestStep(p) PROVE StuckInv'
  <2>1. CASE CheckLimits(p)
    BY <2>1 DEF CheckLimits
  <2>2. CASE InsertPending(p)
    BY <2>2 DEF InsertPending
  <2>3. CASE Enqueue(p)
    BY <2>3 DEF Enqueue
  <2> QED BY <1>1, <2>1, <2>2, <2>3 DEF RequestStep
<1>2. ASSUME NEW p \in Payments, WorkerStep(p) PROVE StuckInv'
  <2>1. CASE MarkProcessing(p)
    BY <2>1 DEF MarkProcessing
  <2>2. CASE MarkCompleted(p)
    BY <2>2 DEF MarkCompleted
  <2>3. CASE JobCompletes(p)
    BY <2>3 DEF JobCompletes
  <2> QED BY <1>2, <2>1, <2>2, <2>3 DEF WorkerStep
<1>3. ASSUME NEW p \in Payments, LandDeadLetter(p) PROVE StuckInv'
  BY <1>3 DEF LandDeadLetter
<1>4. ASSUME NEW p \in Payments, PaymentFault(p) PROVE StuckInv'
  <2>1. CASE RequestBreaks(p)
    BY <2>1 DEF RequestBreaks
  <2>2. CASE AttemptFails(p)
    <3>1. CASE tries[p] + 1 < MaxAttempts
      BY <2>2, <3>1 DEF AttemptFails
    <3>2. CASE ~(tries[p] + 1 < MaxAttempts)
      BY <2>2, <3>2 DEF AttemptFails, GiveUp
    <3> QED BY <3>1, <3>2
  <2>3. CASE Stalls(p)
    BY <2>3 DEF Stalls, GiveUp
  <2>4. CASE LoseDeadLetter(p)
    BY <2>4 DEF LoseDeadLetter
  <2> QED BY <1>4, <2>1, <2>2, <2>3, <2>4 DEF PaymentFault
<1>5. ASSUME NEW t \in Submitted, SubmitRow(t) PROVE StuckInv'
  BY <1>5 DEF SubmitRow
<1>6. ASSUME NEW t \in Submitted,
             LedgerCloses(t) \/ EnqueueCheck(t) \/ CheckBreaks(t)
      PROVE  StuckInv'
  BY <1>6 DEF LedgerCloses, EnqueueCheck, CheckBreaks, CheckThrows
<1>7. ASSUME NEW t \in Submitted, CheckStep(t) PROVE StuckInv'
  <2>1. CASE CheckNotFound(t) \/ CheckFound(t)
    BY <2>1 DEF CheckNotFound, CheckFound, CheckThrows
  <2>2. CASE FinaliseStatus(t)
    BY <2>2 DEF FinaliseStatus
  <2> QED BY <1>7, <2>1, <2>2 DEF CheckStep
<1>8. CASE (\E t \in Transactions : Age(t)) \/ Scan \/ SweepRead \/ SweepBreaks
  BY <1>8 DEF Age, Scan, SweepRead, SweepBreaks
<1>9. CASE SweepWrite
  BY <1>9 DEF SweepWrite
<1>10. CASE UNCHANGED vars
  BY <1>10 DEF vars
<1> QED
  BY <1>1, <1>2, <1>3, <1>4, <1>5, <1>6, <1>7, <1>8, <1>9, <1>10 DEF Next, SweepStep

-----------------------------------------------------------------------------
\* What the steps of payments, which write the status of no submitted row,
\* leave alone.
LEMMA PaymentsLeaveSubmitted ==
  ASSUME Typed, NEW p \in Payments,
         RequestStep(p) \/ WorkerStep(p) \/ LandDeadLetter(p) \/ PaymentFault(p)
  PROVE  /\ \A t \in Submitted : status'[t] = status[t]
         /\ UNCHANGED <<old, swept, ledger, listed, check, checks>>
<1> USE PipelineAssumption
    DEF Typed, TypeOK, Transactions, SetStatus, paymentVars, horizonVars
<1>1. CASE RequestStep(p)
  BY <1>1 DEF RequestStep, CheckLimits, InsertPending, Enqueue
<1>2. CASE WorkerStep(p)
  BY <1>2 DEF WorkerStep, MarkProcessing, MarkCompleted, JobCompletes
<1>3. CASE LandDeadLetter(p)
  BY <1>3 DEF LandDeadLetter
<1>4. CASE PaymentFault(p)
  BY <1>4 DEF PaymentFault, RequestBreaks, AttemptFails, Stalls, LoseDeadLetter
<1> QED BY <1>1, <1>2, <1>3, <1>4

\* Every step keeps the submitted rows in agreement with the ledger.
LEMMA LedgerStep == Typed /\ LedgerInv /\ [Next]_vars => LedgerInv'
<1> SUFFICES ASSUME Typed, LedgerInv, [Next]_vars PROVE LedgerInv'
  OBVIOUS
<1> USE PipelineAssumption
    DEF LedgerInv, FoundIsDecided, SweptIsOld, LedgerAgreement
<1>1. ASSUME NEW p \in Payments,
             RequestStep(p) \/ WorkerStep(p) \/ LandDeadLetter(p) \/ PaymentFault(p)
      PROVE  LedgerInv'
  BY <1>1, PaymentsLeaveSubmitted
<1> USE DEF Typed, TypeOK, Transactions, SetStatus, paymentVars, horizonVars
<1>2. ASSUME NEW t \in Submitted, SubmitRow(t) PROVE LedgerInv'
  BY <1>2 DEF SubmitRow
<1>3. ASSUME NEW t \in Submitted, LedgerCloses(t) PROVE LedgerInv'
  BY <1>3 DEF LedgerCloses
<1>4. ASSUME NEW t \in Submitted, EnqueueCheck(t) \/ CheckBreaks(t) PROVE LedgerInv'
  BY <1>4 DEF EnqueueCheck, CheckBreaks, CheckThrows
<1>5. ASSUME NEW t \in Submitted, CheckStep(t) PROVE LedgerInv'
  <2>1. CASE CheckNotFound(t)
    BY <2>1 DEF CheckNotFound, CheckThrows
  <2>2. CASE CheckFound(t)
    BY <2>2 DEF CheckFound
  <2>3. CASE FinaliseStatus(t)
    BY <2>3 DEF FinaliseStatus
  <2> QED BY <1>5, <2>1, <2>2, <2>3 DEF CheckStep
<1>6. CASE (\E t \in Transactions : Age(t)) \/ Scan
  BY <1>6 DEF Age, Scan
<1>7. CASE SweepStep
  BY <1>7 DEF SweepStep, SweepRead, SweepWrite
<1>8. CASE SweepBreaks
  BY <1>8 DEF SweepBreaks
<1>9. CASE UNCHANGED vars
  BY <1>9 DEF vars
<1> QED
  BY <1>1, <1>2, <1>3, <1>4, <1>5, <1>6, <1>7, <1>8, <1>9 DEF Next

\* Only the sweep touches a submitted row that is final.
LEMMA FinalStep ==
  ASSUME Typed, [Next]_vars, NEW t \in Submitted,
         status[t] \in Final, status'[t] # status[t]
  PROVE  status'[t] = "FAILED" /\ t \in swept
<1> USE PipelineAssumption
    DEF Typed, TypeOK, Transactions, SetStatus, Final, paymentVars, horizonVars
<1>1. ASSUME NEW p \in Payments,
             RequestStep(p) \/ WorkerStep(p) \/ LandDeadLetter(p) \/ PaymentFault(p)
      PROVE  FALSE
  BY <1>1, PaymentsLeaveSubmitted
<1>2. ASSUME NEW s \in Submitted,
             \/ SubmitRow(s) \/ LedgerCloses(s) \/ EnqueueCheck(s)
             \/ CheckStep(s) \/ CheckBreaks(s)
      PROVE  FALSE
  BY <1>2 DEF SubmitRow, LedgerCloses, EnqueueCheck, CheckStep, CheckNotFound,
              CheckFound, FinaliseStatus, CheckBreaks, CheckThrows, Open
<1>3. CASE SweepWrite
  BY <1>3 DEF SweepWrite
<1>4. CASE (\E s \in Transactions : Age(s)) \/ Scan \/ SweepRead \/ SweepBreaks
  BY <1>4 DEF Age, Scan, SweepRead, SweepBreaks
<1>5. CASE UNCHANGED vars
  BY <1>5 DEF vars
<1> QED
  BY <1>1, <1>2, <1>3, <1>4, <1>5 DEF Next, SweepStep

-----------------------------------------------------------------------------
\* The inductive invariant holds in every reachable state.
THEOREM PipelineInvariance == Spec => [](Typed /\ StuckInv /\ LedgerInv)
<1>1. Init => Typed /\ StuckInv /\ LedgerInv
  <2> SUFFICES ASSUME Init PROVE StuckInv /\ LedgerInv
    BY TypedInit
  <2> QED
    BY DEF Init, StuckInv, DoneNotProcessing, NoStuckProcessing, LedgerInv,
           FoundIsDecided, SweptIsOld, LedgerAgreement, Transactions
<1>2. Typed /\ StuckInv /\ LedgerInv /\ [Next]_vars => (Typed /\ StuckInv /\ LedgerInv)'
  BY TypedStep, StuckStep, LedgerStep
<1> QED BY <1>1, <1>2, PTL DEF Spec

\* The rows, jobs and counters of the pipeline stay in their types: a job is
\* never attempted or restarted more often than Bull is told.
THEOREM PipelineTypeCorrect == Spec => []TypeOK
<1>1. Typed => TypeOK
  BY DEF Typed
<1> QED BY <1>1, PipelineInvariance, PTL

\* A payment is left in PROCESSING only if a dead-letter update of onJobFailed
\* was lost.
THEOREM NeverStuck == Spec => []NoStuckProcessing
<1>1. StuckInv => NoStuckProcessing
  BY DEF StuckInv
<1> QED BY <1>1, PipelineInvariance, PTL

\* COMPLETED and FAILED agree with the ledger, up to the stale sweep.
THEOREM AgreesWithLedger == Spec => []LedgerAgreement
<1>1. LedgerInv => LedgerAgreement
  BY DEF LedgerInv
<1> QED BY <1>1, PipelineInvariance, PTL

\* A final status of a submitted row is changed by the stale sweep only.
THEOREM FinalStays == Spec => FinalStatusStable
<1>1. Typed /\ [Next]_vars =>
        [\A t \in Submitted :
           status[t] \in Final /\ status'[t] # status[t]
             => status'[t] = "FAILED" /\ t \in swept]_vars
  BY FinalStep
<1> QED BY <1>1, PipelineInvariance, PTL DEF Spec, FinalStatusStable

-----------------------------------------------------------------------------
\* Who has a job, or is about to get one, has a row.
JobHasRow ==
  \A p \in Payments : job[p] # "none" \/ request[p] = "enqueue" => status[p] # "absent"

\* The statuses that count against the limit.
Live == {"PENDING", "PROCESSING", "COMPLETED"}

\* Payments that count, and those that have passed the check and will.
Reserved == {p \in Payments : status[p] \in Live \/ request[p] = "insert"}

\* What is reserved stays within the limit until the history names a way past
\* it.
ReservedWithinLimit == overlooked \/ Total(Amount, Reserved) <= Limit

\* The inductive invariant of the limit.
LimitInv == JobHasRow /\ ReservedWithinLimit

-----------------------------------------------------------------------------
\* Fewer payments spend less.
LEMMA SpendsLess ==
  ASSUME NEW S, NEW T, T \subseteq Payments, S \subseteq T
  PROVE  /\ Total(Amount, S) \in Nat /\ Total(Amount, T) \in Nat
         /\ Total(Amount, S) <= Total(Amount, T)
<1>1. IsFiniteSet(T) /\ IsFiniteSet(S)
  BY PipelineAssumption, FS_Subset
<1>2. (\A p \in T : Amount[p] \in Nat) /\ (\A p \in S : Amount[p] \in Nat /\ Amount[p] <= Amount[p])
  BY PipelineAssumption
<1> QED BY <1>1, <1>2, TotalMonotone, TotalNat

\* One more payment spends at most its amount more.
LEMMA SpendsMore ==
  ASSUME NEW T, T \subseteq Payments, NEW p \in Payments
  PROVE  Total(Amount, T \cup {p}) <= Total(Amount, T) + Amount[p]
<1>1. IsFiniteSet(T) /\ Amount[p] \in Nat /\ \A q \in T : Amount[q] \in Nat
  BY PipelineAssumption, FS_Subset
<1>2. Total(Amount, T) \in Nat
  BY <1>1, TotalNat
<1>3. CASE p \in T
  <2>1. T \cup {p} = T
    BY <1>3
  <2> HIDE <1>3
  <2>2. Total(Amount, T \cup {p}) = Total(Amount, T)
    BY <2>1
  <2> QED BY <1>1, <1>2, <2>2
<1>4. CASE p \notin T
  <2>1. Total(Amount, T \cup {p}) = Amount[p] + Total(Amount, T)
    BY <1>1, <1>4, TotalAdd
  <2> QED BY <1>1, <1>2, <2>1
<1> QED BY <1>3, <1>4

\* A step that reserves nothing keeps the reservations within the limit.
LEMMA ReservedShrinks ==
  ASSUME ReservedWithinLimit, Reserved' \subseteq Reserved, overlooked' \/ ~overlooked
  PROVE  ReservedWithinLimit'
<1>1. Reserved \subseteq Payments
  BY DEF Reserved
<1> DEFINE S == Reserved'
           T == Reserved
<1>2. S \subseteq T /\ T \subseteq Payments
  BY <1>1
<1> HIDE DEF S, T
<1>3. Total(Amount, S) \in Nat /\ Total(Amount, T) \in Nat /\ Total(Amount, S) <= Total(Amount, T)
  BY <1>2, SpendsLess
<1>4. Total(Amount, T) <= Limit => Total(Amount, S) <= Limit
  BY <1>3, PipelineAssumption
<1> QED BY <1>4 DEF ReservedWithinLimit, S, T

\* The check reserves an amount only within the limit.
LEMMA CheckReserves ==
  ASSUME Typed, LimitInv, NEW p \in Payments, CheckLimits(p)
  PROVE  LimitInv'
<1> USE PipelineAssumption
<1>1. /\ request[p] = "idle" /\ UNCHANGED <<status, job>> /\ request \in [Payments -> Requests]
      /\ request' = [request EXCEPT ![p] = IF CountedSpend + Amount[p] <= Limit
                                           THEN "insert" ELSE "refused"]
      /\ overlooked' = (overlooked \/ Unseen(p) # {}) /\ overlooked \in BOOLEAN
  BY DEF CheckLimits, Typed, TypeOK
<1>2. JobHasRow'
  BY <1>1 DEF LimitInv, JobHasRow
<1>3. CASE CountedSpend + Amount[p] <= Limit /\ ~overlooked'
  <2> DEFINE C == {q \in Payments : status[q] \in {"PENDING", "COMPLETED"}}
  <2>1. CountedSpend = Total(Amount, C)
    BY DEF CountedSpend, Outgoing, Total, MapThenSumSet, MapThenFoldSet
  <2>2. Unseen(p) = {}
    BY <1>1, <1>3
  <2>3. Reserved' \subseteq C \cup {p}
    BY <1>1, <2>2 DEF Reserved, Unseen, Live
  <2>4. C \subseteq Payments /\ C \cup {p} \subseteq Payments
    OBVIOUS
  <2> DEFINE R == Reserved'
  <2> HIDE DEF C
  <2>5. Total(Amount, C \cup {p}) <= Limit /\ Total(Amount, C \cup {p}) \in Nat
    <3>1. /\ Total(Amount, C) \in Nat /\ Total(Amount, C \cup {p}) \in Nat /\ Amount[p] \in Nat
      BY <2>4, SpendsLess
    <3>2. Total(Amount, C \cup {p}) <= Total(Amount, C) + Amount[p]
      BY <2>4, SpendsMore
    <3> QED BY <1>3, <2>1, <3>1, <3>2
  <2>6. R \subseteq C \cup {p}
    BY <2>3
  <2> HIDE DEF R
  <2> DEFINE D == C \cup {p}
  <2>7. Total(Amount, R) \in Nat /\ Total(Amount, R) <= Total(Amount, D)
    <3>1. D \subseteq Payments /\ R \subseteq D
      BY <2>4, <2>6
    <3> HIDE DEF D
    <3> QED BY <3>1, SpendsLess
  <2>8. Total(Amount, R) <= Limit
    BY <2>5, <2>7
  <2> QED BY <1>2, <2>8 DEF LimitInv, ReservedWithinLimit, R
<1>4. CASE overlooked'
  BY <1>2, <1>4 DEF LimitInv, ReservedWithinLimit
<1>5. CASE ~(CountedSpend + Amount[p] <= Limit)
  <2>1. Reserved' \subseteq Reserved
    BY <1>1, <1>5 DEF Reserved
  <2> QED BY <1>1, <1>2, <2>1, ReservedShrinks DEF LimitInv
<1> QED BY <1>3, <1>4, <1>5

\* No step exceeds the limit, unless it is one the check cannot see.
LEMMA LimitStep == Typed /\ LimitInv /\ [Next]_vars => LimitInv'
<1> SUFFICES ASSUME Typed, LimitInv, [Next]_vars PROVE LimitInv'
  OBVIOUS
<1> USE PipelineAssumption
<1>0. /\ status \in [Transactions -> Statuses] /\ request \in [Payments -> Requests]
      /\ job \in [Payments -> Jobs] /\ overlooked \in BOOLEAN
      /\ \A p \in Payments : request[p] \in {"idle", "insert", "enqueue"} => job[p] = "none"
  BY DEF Typed, TypeOK, AttemptsLeft
<1>1. ASSUME JobHasRow', Reserved' \subseteq Reserved, overlooked' = overlooked
      PROVE  LimitInv'
  BY <1>0, <1>1, ReservedShrinks DEF LimitInv
<1>2. ASSUME NEW p \in Payments, NEW s \in Live,
             status' = [status EXCEPT ![p] = s], request' = request,
             overlooked' = (overlooked \/ status[p] = "FAILED"),
             job[p] \in Running,
             \A q \in Payments : q # p => job'[q] = job[q]
      PROVE  LimitInv'
  <2>1. status[p] # "absent"
    BY <1>2 DEF LimitInv, JobHasRow, Running
  <2>2. /\ status'[p] = s /\ s # "absent"
        /\ \A q \in Payments : q # p => status'[q] = status[q]
    BY <1>0, <1>2 DEF Live, Transactions
  <2>3. JobHasRow'
    BY <1>2, <2>2 DEF LimitInv, JobHasRow
  <2>4. CASE status[p] = "FAILED"
    BY <1>2, <2>3, <2>4 DEF LimitInv, ReservedWithinLimit
  <2>5. CASE status[p] # "FAILED"
    <3>1. status[p] \in Live
      BY <1>0, <2>1, <2>5 DEF Statuses, Live, Transactions
    <3>2. Reserved' \subseteq Reserved
      BY <1>2, <2>2, <3>1 DEF Reserved
    <3> QED BY <1>0, <1>1, <1>2, <2>3, <2>5, <3>2
  <2> QED BY <2>4, <2>5
<1>3. ASSUME NEW p \in Payments, RequestStep(p) PROVE LimitInv'
  <2>1. CASE CheckLimits(p)
    BY <2>1, CheckReserves
  <2>2. CASE InsertPending(p)
    <3>1. JobHasRow'
      BY <1>0, <2>2 DEF InsertPending, SetStatus, LimitInv, JobHasRow, Transactions
    <3>2. Reserved' \subseteq Reserved
      BY <1>0, <2>2 DEF InsertPending, SetStatus, Reserved, Live, Transactions
    <3> QED BY <1>1, <2>2, <3>1, <3>2 DEF InsertPending
  <2>3. CASE Enqueue(p)
    <3>1. JobHasRow'
      BY <1>0, <2>3 DEF Enqueue, LimitInv, JobHasRow
    <3>2. Reserved' \subseteq Reserved
      BY <1>0, <2>3 DEF Enqueue, Reserved
    <3> QED BY <1>1, <2>3, <3>1, <3>2 DEF Enqueue
  <2> QED BY <1>3, <2>1, <2>2, <2>3 DEF RequestStep
<1>4. ASSUME NEW p \in Payments, WorkerStep(p) PROVE LimitInv'
  <2>1. CASE MarkProcessing(p) \/ MarkCompleted(p)
    BY <1>0, <1>2, <2>1 DEF MarkProcessing, MarkCompleted, SetStatus, Live, Running
  <2>2. CASE JobCompletes(p)
    <3>1. JobHasRow'
      BY <1>0, <2>2 DEF JobCompletes, LimitInv, JobHasRow
    <3>2. Reserved' \subseteq Reserved
      BY <2>2 DEF JobCompletes, Reserved
    <3> QED BY <1>1, <2>2, <3>1, <3>2 DEF JobCompletes
  <2> QED BY <1>4, <2>1, <2>2 DEF WorkerStep
<1>5. ASSUME NEW p \in Payments, LandDeadLetter(p) PROVE LimitInv'
  <2>1. JobHasRow'
    BY <1>0, <1>5 DEF LandDeadLetter, SetStatus, LimitInv, JobHasRow, Transactions
  <2>2. Reserved' \subseteq Reserved
    BY <1>0, <1>5 DEF LandDeadLetter, SetStatus, Reserved, Live, Transactions
  <2> QED BY <1>1, <1>5, <2>1, <2>2 DEF LandDeadLetter
<1>6. ASSUME NEW p \in Payments, PaymentFault(p) PROVE LimitInv'
  <2>1. CASE RequestBreaks(p)
    <3>1. JobHasRow'
      BY <1>0, <2>1 DEF RequestBreaks, SetStatus, LimitInv, JobHasRow, Transactions
    <3>2. Reserved' \subseteq Reserved
      BY <1>0, <2>1 DEF RequestBreaks, SetStatus, Reserved, Live, Transactions
    <3> QED BY <1>1, <2>1, <3>1, <3>2 DEF RequestBreaks
  <2>2. CASE AttemptFails(p)
    <3>1. /\ job[p] \in {"waiting", "marked"} /\ request' = request
          /\ \A q \in Payments : q # p => job'[q] = job[q]
      BY <1>0, <2>2 DEF AttemptFails, GiveUp
    <3>2. CASE UNCHANGED <<status, overlooked>>
      <4>1. JobHasRow'
        BY <3>1, <3>2 DEF LimitInv, JobHasRow
      <4>2. Reserved' \subseteq Reserved
        BY <3>1, <3>2 DEF Reserved
      <4> QED BY <1>1, <3>2, <4>1, <4>2
    <3>3. CASE ~UNCHANGED <<status, overlooked>>
      BY <1>2, <2>2, <3>1, <3>3 DEF AttemptFails, SetStatus, Live, Running
    <3> QED BY <3>2, <3>3
  <2>3. CASE Stalls(p) \/ LoseDeadLetter(p)
    <3>1. UNCHANGED <<status, request, overlooked>>
      BY <2>3 DEF Stalls, LoseDeadLetter
    <3>2. JobHasRow'
      BY <1>0, <2>3, <3>1 DEF Stalls, LoseDeadLetter, GiveUp, Running, LimitInv, JobHasRow
    <3>3. Reserved' \subseteq Reserved
      BY <3>1 DEF Reserved
    <3> QED BY <1>1, <3>1, <3>2, <3>3
  <2> QED BY <1>6, <2>1, <2>2, <2>3 DEF PaymentFault
<1>7. ASSUME UNCHANGED paymentVars,
             \A p \in Payments : status'[p] = status[p] \/ status'[p] = "FAILED"
      PROVE  LimitInv'
  <2>1. JobHasRow'
    BY <1>7 DEF paymentVars, LimitInv, JobHasRow
  <2>2. Reserved' \subseteq Reserved
    BY <1>7 DEF paymentVars, Reserved, Live
  <2> QED BY <1>1, <1>7, <2>1, <2>2 DEF paymentVars
<1>8. ASSUME NEW t \in Submitted,
             \/ SubmitRow(t) \/ LedgerCloses(t) \/ EnqueueCheck(t)
             \/ CheckStep(t) \/ CheckBreaks(t)
      PROVE  LimitInv'
  <2>1. UNCHANGED paymentVars
    BY <1>8 DEF SubmitRow, LedgerCloses, EnqueueCheck, CheckStep, CheckNotFound, CheckFound,
       FinaliseStatus, CheckBreaks, CheckThrows
  <2>2. \A p \in Payments : status'[p] = status[p]
    BY <1>0, <1>8 DEF SubmitRow, LedgerCloses, EnqueueCheck, CheckStep, CheckNotFound, CheckFound,
       FinaliseStatus, CheckBreaks, CheckThrows, SetStatus, Transactions
  <2> QED BY <1>7, <2>1, <2>2
<1>9. CASE (\E t \in Transactions : Age(t)) \/ Scan \/ SweepRead \/ SweepBreaks
  BY <1>7, <1>9 DEF Age, Scan, SweepRead, SweepBreaks
<1>10. CASE SweepWrite
  BY <1>7, <1>10 DEF SweepWrite, Transactions
<1>11. CASE UNCHANGED vars
  BY <1>7, <1>11 DEF vars
<1> QED
  BY <1>3, <1>4, <1>5, <1>6, <1>8, <1>9, <1>10, <1>11 DEF Next, SweepStep

\* The payments of a wallet that have not failed stay within its limit, unless a
\* check could not see a row that counts, or a row written off as FAILED came
\* back (validateTransactionLimits, for any finite number of payments and any
\* amounts).
THEOREM LimitKept == Spec => []LimitHolds
<1>1. Init => LimitInv
  <2> SUFFICES ASSUME Init PROVE LimitInv
    OBVIOUS
  <2>1. Reserved = {} /\ JobHasRow
    BY DEF Init, Reserved, Live, JobHasRow, Transactions
  <2> QED BY <2>1, TotalEmpty, PipelineAssumption DEF LimitInv, ReservedWithinLimit
<1>2. LimitInv => LimitHolds
  <2> SUFFICES ASSUME LimitInv, ~overlooked
               PROVE  Outgoing({"PENDING", "PROCESSING", "COMPLETED"}) <= Limit
    BY DEF LimitHolds
  <2> DEFINE S == {p \in Payments : status[p] \in Live}
             T == Reserved
  <2>1. Outgoing({"PENDING", "PROCESSING", "COMPLETED"}) = Total(Amount, S)
    BY DEF Outgoing, Live, Total, MapThenSumSet, MapThenFoldSet
  <2>2. S \subseteq T /\ T \subseteq Payments
    BY DEF Reserved
  <2>3. Total(Amount, T) <= Limit
    BY DEF LimitInv, ReservedWithinLimit
  <2> HIDE DEF S, T
  <2>4. Total(Amount, S) \in Nat /\ Total(Amount, T) \in Nat /\ Total(Amount, S) <= Total(Amount, T)
    BY <2>2, SpendsLess
  <2> QED BY <2>1, <2>3, <2>4, PipelineAssumption
<1> QED BY <1>1, <1>2, LimitStep, PipelineInvariance, PTL DEF Spec

=============================================================================

------------------------ MODULE SubmitTransactionProofs ------------------------
(***************************************************************************)
(* For every set of requests, keys and hashes and every number of crashes, *)
(* failed round trips and expiries: the claim protocol lets at most one    *)
(* request insert, and all of them report that row, as long as no round    *)
(* trip fails; and the protocol implements IdempotentExecution.            *)
(*                                                                         *)
(* The argument follows the owner of a record: the request that claimed it *)
(* and has not expired, dead or alive, until it completes or releases.     *)
(***************************************************************************)
EXTENDS SubmitTransaction, TLAPS

\* A request that holds its key and lives owns the record; an owner has a
\* record, is the only one, and has a window that has been.
LiveHoldersOwn == \A r \in Requests : Live(r) /\ Holds(r) => epoch[r] = ttl[key[r]]
OwnersHaveRecord == \A r \in Requests : Owner(r) => store[key[r]] # Absent
OneOwner == \A a, b \in Requests : Owner(a) /\ Owner(b) /\ key[a] = key[b] => a = b
EpochBound == \A r \in Requests : Keyed(r) => epoch[r] <= ttl[key[r]]
\* Idle requests have done nothing yet.
IdleIsFresh ==
  \A r \in Requests : pc[r] = "idle" => r \notin rows /\ answer[r] = "none" /\ ~Keyed(r) /\ epoch[r] = 0

\* Requests are answered when they are done, insert after their pre-check, and
\* have a key where the claim protocol takes them.
NotDoneNotAnswered == \A r \in Requests : pc[r] # "done" => answer[r] = "none"
BeforeCreateNoRow ==
  \A r \in Requests :
    pc[r] \in {"claim", "read", "wait", "check", "create", "refetch"} => r \notin rows
ClaimPointsKeyed ==
  \A r \in Requests :
    pc[r] \in {"claim", "read", "wait", "complete", "release"} => Keyed(r)

\* What the record of the current window says when no round trip has failed.
CompleteHasNoOwner ==
  faults = 0 =>
    \A r \in Requests : Owner(r) => store[key[r]] = InFlight
RowIsRecorded ==
  faults = 0 =>
    \A a \in rows :
      Keyed(a) /\ epoch[a] = ttl[key[a]] =>
        \/ Owner(a) /\ pc[a] = "complete" /\ result[a] = a
        \/ store[key[a]] = Complete(a)
AnswerIsRecorded ==
  faults = 0 =>
    \A r \in Requests :
      Keyed(r) /\ answer[r] \in Ok /\ epoch[r] = ttl[key[r]] =>
        store[key[r]] = Complete(result[r])

\* The parts of the inductive invariant: the types, who owns which record, and
\* what the records say.
Typed == TypeOK /\ ClaimPointsKeyed

Ownership ==
  /\ LiveHoldersOwn
  /\ OwnersHaveRecord
  /\ OneOwner
  /\ EpochBound
  /\ IdleIsFresh
  /\ NotDoneNotAnswered
  /\ BeforeCreateNoRow

Recorded ==
  /\ CompleteHasNoOwner
  /\ RowIsRecorded
  /\ AnswerIsRecorded
  /\ OneInsertPerKey
  /\ SameKeySameAnswer

IInv == Typed /\ Ownership /\ Recorded

\* The unique index, and what a response that names a hash refers to.
UniqueHash == \A a, b \in rows : hash[a] # NoHash /\ hash[a] = hash[b] => a = b
ResultMatches ==
  \A r \in Requests :
    /\ pc[r] = "complete" \/ answer[r] \in {"created", "existing"}
    /\ hash[r] # NoHash
    => result[r] \in rows /\ hash[result[r]] = hash[r]

HashInv == UniqueHash /\ ResultMatches

-----------------------------------------------------------------------------
\* The state predicates of TypeOK hold in every reachable state.
LEMMA TypeStep == Typed /\ [Next]_vars => Typed'
<1> SUFFICES ASSUME Typed, [Next]_vars PROVE Typed'
  OBVIOUS
<1> USE ConstantsAssumption
    DEF Typed, TypeOK, ClaimPointsKeyed, Records, Absent, InFlight, Complete, Points, HoldingPoints, Answers, Ok,
        At, Goto, Respond, Live, Keyed, Fault, requestVars, vars
<1>1. ASSUME NEW r \in Requests, NEW k \in Keys \cup {NoKey}, NEW h \in Hashes \cup {NoHash},
             Submit(r, k, h)
      PROVE Typed'
  BY <1>1 DEF Submit
<1>2. ASSUME NEW r \in Requests, ClaimWin(r) PROVE Typed'
  BY <1>2 DEF ClaimWin
<1>3. ASSUME NEW r \in Requests, ClaimLose(r) PROVE Typed'
  BY <1>3 DEF ClaimLose
<1>4. ASSUME NEW r \in Requests, ReadVanished(r) PROVE Typed'
  BY SMTT(40), <1>4 DEF ReadVanished, TryAgain
<1>5. ASSUME NEW r \in Requests, ReadInFlight(r) PROVE Typed'
  BY <1>5 DEF ReadInFlight
<1>6. ASSUME NEW r \in Requests, Replay(r) PROVE Typed'
  BY <1>6 DEF Replay
<1>7. ASSUME NEW r \in Requests, PollReleased(r) PROVE Typed'
  BY SMTT(40), <1>7 DEF PollReleased, TryAgain
<1>8. ASSUME NEW r \in Requests, WaitTimeout(r) PROVE Typed'
  BY <1>8 DEF WaitTimeout
<1>9. ASSUME NEW r \in Requests, Reject(r) PROVE Typed'
  BY SMTT(30), <1>9 DEF Reject, Abort
<1>10. ASSUME NEW r \in Requests, CheckHit(r) PROVE Typed'
  BY SMTT(30), <1>10 DEF CheckHit, Succeed, Matches
<1>11. ASSUME NEW r \in Requests, CheckMiss(r) PROVE Typed'
  BY <1>11 DEF CheckMiss
<1>12. ASSUME NEW r \in Requests, Create(r) PROVE Typed'
  BY <1>12 DEF Create, Succeed
<1>13. ASSUME NEW r \in Requests, CreateP2002(r) PROVE Typed'
  BY <1>13 DEF CreateP2002
<1>14. ASSUME NEW r \in Requests, Refetch(r) PROVE Typed'
  BY <1>14 DEF Refetch, Succeed, Matches
<1>15. ASSUME NEW r \in Requests, StoreResponse(r) PROVE Typed'
  BY <1>15 DEF StoreResponse
<1>16. ASSUME NEW r \in Requests, Release(r) PROVE Typed'
  BY <1>16 DEF Release
<1>17. ASSUME NEW r \in Requests, ClaimFault(r) PROVE Typed'
  BY <1>17 DEF ClaimFault
<1>18. ASSUME NEW r \in Requests, ReadFault(r) PROVE Typed'
  BY <1>18 DEF ReadFault
<1>19. ASSUME NEW r \in Requests, LookupFault(r) PROVE Typed'
  BY SMTT(30), <1>19 DEF LookupFault, Abort
<1>20. ASSUME NEW r \in Requests, CreateFault(r) PROVE Typed'
  BY <1>20 DEF CreateFault, Abort
<1>21. ASSUME NEW r \in Requests, CompleteFault(r) PROVE Typed'
  <2>1. store' \in [Keys -> Records]
    BY <1>21 DEF CompleteFault
  <2>2. QED
    BY <1>21, <2>1 DEF CompleteFault
<1>22. ASSUME NEW r \in Requests, ReleaseFault(r) PROVE Typed'
  BY <1>22 DEF ReleaseFault
<1>23. ASSUME NEW r \in Requests, Crash(r) PROVE Typed'
  BY <1>23 DEF Crash
<1>24. ASSUME NEW k \in Keys, Expire(k) PROVE Typed'
  BY <1>24 DEF Expire
<1>25. CASE UNCHANGED vars
  BY <1>25
<1>26. QED
  BY <1>1, <1>2, <1>3, <1>4, <1>5, <1>6, <1>7, <1>8, <1>9, <1>10, <1>11, <1>12, <1>13, <1>14, <1>15, <1>16, <1>17, <1>18, <1>19, <1>20, <1>21, <1>22, <1>23, <1>24, <1>25 DEF Next, ClaimStep, PersistStep, FaultStep

\* Who owns a record is preserved by every step.
LEMMA OwnershipStep == Typed /\ Ownership /\ [Next]_vars => Ownership'
<1> SUFFICES ASSUME Typed /\ Ownership, [Next]_vars PROVE Ownership'
  OBVIOUS
<1> USE ConstantsAssumption
    DEF Typed, TypeOK, ClaimPointsKeyed, Records, Absent, InFlight, Complete, Points, HoldingPoints, Answers,
        Ok, At, Goto, Respond, Live, Holds, Keyed, Owner, Fault, requestVars, vars,
        Ownership, LiveHoldersOwn, OwnersHaveRecord, OneOwner, EpochBound, IdleIsFresh,
        NotDoneNotAnswered, BeforeCreateNoRow
<1>0. Typed'
  BY TypeStep DEF IInv
<1>1. ASSUME NEW r \in Requests, NEW k \in Keys \cup {NoKey}, NEW h \in Hashes \cup {NoHash},
             Submit(r, k, h)
      PROVE Ownership'
  BY <1>0, <1>1 DEF Submit
<1>2. ASSUME NEW r \in Requests, ClaimWin(r) PROVE Ownership'
  BY <1>0, <1>2 DEF ClaimWin
<1>3. ASSUME NEW r \in Requests, ClaimLose(r) PROVE Ownership'
  BY <1>0, <1>3 DEF ClaimLose
<1>4. ASSUME NEW r \in Requests, ReadVanished(r) PROVE Ownership'
  <2>1. LiveHoldersOwn'
    BY <1>0, <1>4 DEF ReadVanished, TryAgain
  <2>2. OwnersHaveRecord'
    BY <1>0, <1>4 DEF ReadVanished, TryAgain
  <2>3. OneOwner'
    BY <1>0, <1>4 DEF ReadVanished, TryAgain
  <2>4. EpochBound'
    BY <1>0, <1>4 DEF ReadVanished, TryAgain
  <2>5. IdleIsFresh'
    BY <1>0, <1>4 DEF ReadVanished, TryAgain
  <2>6. NotDoneNotAnswered'
    BY <1>0, <1>4 DEF ReadVanished, TryAgain
  <2>7. BeforeCreateNoRow'
    BY <1>0, <1>4 DEF ReadVanished, TryAgain
  <2>8. QED
    BY <2>1, <2>2, <2>3, <2>4, <2>5, <2>6, <2>7 DEF Ownership
<1>5. ASSUME NEW r \in Requests, ReadInFlight(r) PROVE Ownership'
  BY <1>0, <1>5 DEF ReadInFlight
<1>6. ASSUME NEW r \in Requests, Replay(r) PROVE Ownership'
  BY <1>0, <1>6 DEF Replay
<1>7. ASSUME NEW r \in Requests, PollReleased(r) PROVE Ownership'
  <2>1. LiveHoldersOwn'
    BY <1>0, <1>7 DEF PollReleased, TryAgain
  <2>2. OwnersHaveRecord'
    BY <1>0, <1>7 DEF PollReleased, TryAgain
  <2>3. OneOwner'
    BY <1>0, <1>7 DEF PollReleased, TryAgain
  <2>4. EpochBound'
    BY <1>0, <1>7 DEF PollReleased, TryAgain
  <2>5. IdleIsFresh'
    BY <1>0, <1>7 DEF PollReleased, TryAgain
  <2>6. NotDoneNotAnswered'
    BY <1>0, <1>7 DEF PollReleased, TryAgain
  <2>7. BeforeCreateNoRow'
    BY <1>0, <1>7 DEF PollReleased, TryAgain
  <2>8. QED
    BY <2>1, <2>2, <2>3, <2>4, <2>5, <2>6, <2>7 DEF Ownership
<1>8. ASSUME NEW r \in Requests, WaitTimeout(r) PROVE Ownership'
  BY <1>0, <1>8 DEF WaitTimeout
<1>9. ASSUME NEW r \in Requests, Reject(r) PROVE Ownership'
  <2>1. LiveHoldersOwn'
    BY <1>0, <1>9 DEF Reject, Abort
  <2>2. OwnersHaveRecord'
    BY <1>0, <1>9 DEF Reject, Abort
  <2>3. OneOwner'
    BY <1>0, <1>9 DEF Reject, Abort
  <2>4. EpochBound'
    BY <1>0, <1>9 DEF Reject, Abort
  <2>5. IdleIsFresh'
    BY <1>0, <1>9 DEF Reject, Abort
  <2>6. NotDoneNotAnswered'
    BY <1>0, <1>9 DEF Reject, Abort
  <2>7. BeforeCreateNoRow'
    BY <1>0, <1>9 DEF Reject, Abort
  <2>8. QED
    BY <2>1, <2>2, <2>3, <2>4, <2>5, <2>6, <2>7 DEF Ownership
<1>10. ASSUME NEW r \in Requests, CheckHit(r) PROVE Ownership'
  <2>1. LiveHoldersOwn'
    BY <1>0, <1>10 DEF CheckHit, Succeed, Matches
  <2>2. OwnersHaveRecord'
    BY <1>0, <1>10 DEF CheckHit, Succeed, Matches
  <2>3. OneOwner'
    BY <1>0, <1>10 DEF CheckHit, Succeed, Matches
  <2>4. EpochBound'
    BY <1>0, <1>10 DEF CheckHit, Succeed, Matches
  <2>5. IdleIsFresh'
    BY <1>0, <1>10 DEF CheckHit, Succeed, Matches
  <2>6. NotDoneNotAnswered'
    BY <1>0, <1>10 DEF CheckHit, Succeed, Matches
  <2>7. BeforeCreateNoRow'
    BY <1>0, <1>10 DEF CheckHit, Succeed, Matches
  <2>8. QED
    BY <2>1, <2>2, <2>3, <2>4, <2>5, <2>6, <2>7 DEF Ownership
<1>11. ASSUME NEW r \in Requests, CheckMiss(r) PROVE Ownership'
  BY <1>0, <1>11 DEF CheckMiss
<1>12. ASSUME NEW r \in Requests, Create(r) PROVE Ownership'
  <2>1. LiveHoldersOwn'
    BY <1>0, <1>12 DEF Create, Succeed
  <2>2. OwnersHaveRecord'
    BY <1>0, <1>12 DEF Create, Succeed
  <2>3. OneOwner'
    BY <1>0, <1>12 DEF Create, Succeed
  <2>4. EpochBound'
    BY <1>0, <1>12 DEF Create, Succeed
  <2>5. IdleIsFresh'
    BY <1>0, <1>12 DEF Create, Succeed
  <2>6. NotDoneNotAnswered'
    BY <1>0, <1>12 DEF Create, Succeed
  <2>7. BeforeCreateNoRow'
    BY <1>0, <1>12 DEF Create, Succeed
  <2>8. QED
    BY <2>1, <2>2, <2>3, <2>4, <2>5, <2>6, <2>7 DEF Ownership
<1>13. ASSUME NEW r \in Requests, CreateP2002(r) PROVE Ownership'
  BY <1>0, <1>13 DEF CreateP2002
<1>14. ASSUME NEW r \in Requests, Refetch(r) PROVE Ownership'
  <2>1. LiveHoldersOwn'
    BY <1>0, <1>14 DEF Refetch, Succeed, Matches
  <2>2. OwnersHaveRecord'
    BY <1>0, <1>14 DEF Refetch, Succeed, Matches
  <2>3. OneOwner'
    BY <1>0, <1>14 DEF Refetch, Succeed, Matches
  <2>4. EpochBound'
    BY <1>0, <1>14 DEF Refetch, Succeed, Matches
  <2>5. IdleIsFresh'
    BY <1>0, <1>14 DEF Refetch, Succeed, Matches
  <2>6. NotDoneNotAnswered'
    BY <1>0, <1>14 DEF Refetch, Succeed, Matches
  <2>7. BeforeCreateNoRow'
    BY <1>0, <1>14 DEF Refetch, Succeed, Matches
  <2>8. QED
    BY <2>1, <2>2, <2>3, <2>4, <2>5, <2>6, <2>7 DEF Ownership
<1>15. ASSUME NEW r \in Requests, StoreResponse(r) PROVE Ownership'
  BY <1>0, <1>15 DEF StoreResponse
<1>16. ASSUME NEW r \in Requests, Release(r) PROVE Ownership'
  BY <1>0, <1>16 DEF Release
<1>17. ASSUME NEW r \in Requests, ClaimFault(r) PROVE Ownership'
  BY <1>0, <1>17 DEF ClaimFault
<1>18. ASSUME NEW r \in Requests, ReadFault(r) PROVE Ownership'
  BY <1>0, <1>18 DEF ReadFault
<1>19. ASSUME NEW r \in Requests, LookupFault(r) PROVE Ownership'
  <2>1. LiveHoldersOwn'
    BY <1>0, <1>19 DEF LookupFault, Abort
  <2>2. OwnersHaveRecord'
    BY <1>0, <1>19 DEF LookupFault, Abort
  <2>3. OneOwner'
    BY <1>0, <1>19 DEF LookupFault, Abort
  <2>4. EpochBound'
    BY <1>0, <1>19 DEF LookupFault, Abort
  <2>5. IdleIsFresh'
    BY <1>0, <1>19 DEF LookupFault, Abort
  <2>6. NotDoneNotAnswered'
    BY <1>0, <1>19 DEF LookupFault, Abort
  <2>7. BeforeCreateNoRow'
    BY <1>0, <1>19 DEF LookupFault, Abort
  <2>8. QED
    BY <2>1, <2>2, <2>3, <2>4, <2>5, <2>6, <2>7 DEF Ownership
<1>20. ASSUME NEW r \in Requests, CreateFault(r) PROVE Ownership'
  <2>1. LiveHoldersOwn'
    BY <1>0, <1>20 DEF CreateFault, Abort
  <2>2. OwnersHaveRecord'
    BY <1>0, <1>20 DEF CreateFault, Abort
  <2>3. OneOwner'
    BY <1>0, <1>20 DEF CreateFault, Abort
  <2>4. EpochBound'
    BY <1>0, <1>20 DEF CreateFault, Abort
  <2>5. IdleIsFresh'
    BY <1>0, <1>20 DEF CreateFault, Abort
  <2>6. NotDoneNotAnswered'
    BY <1>0, <1>20 DEF CreateFault, Abort
  <2>7. BeforeCreateNoRow'
    BY <1>0, <1>20 DEF CreateFault, Abort
  <2>8. QED
    BY <2>1, <2>2, <2>3, <2>4, <2>5, <2>6, <2>7 DEF Ownership
<1>21. ASSUME NEW r \in Requests, CompleteFault(r) PROVE Ownership'
  BY <1>0, <1>21 DEF CompleteFault
<1>22. ASSUME NEW r \in Requests, ReleaseFault(r) PROVE Ownership'
  BY <1>0, <1>22 DEF ReleaseFault
<1>23. ASSUME NEW r \in Requests, Crash(r) PROVE Ownership'
  BY <1>0, <1>23 DEF Crash
<1>24. ASSUME NEW k \in Keys, Expire(k) PROVE Ownership'
  BY <1>0, <1>24 DEF Expire
<1>25. CASE UNCHANGED vars
  BY <1>0, <1>25
<1>26. QED
  BY <1>1, <1>2, <1>3, <1>4, <1>5, <1>6, <1>7, <1>8, <1>9, <1>10, <1>11, <1>12, <1>13, <1>14, <1>15, <1>16, <1>17, <1>18, <1>19, <1>20, <1>21, <1>22, <1>23, <1>24, <1>25 DEF Next, ClaimStep, PersistStep, FaultStep

\* What the record says is preserved by every step.
LEMMA RecordedStep == IInv /\ [Next]_vars => Recorded'
<1> SUFFICES ASSUME IInv, [Next]_vars PROVE Recorded'
  OBVIOUS
<1> USE ConstantsAssumption
    DEF Typed, TypeOK, ClaimPointsKeyed, Records, Absent, InFlight, Complete, Points, HoldingPoints, Answers,
        Ok, At, Goto, Respond, Live, Holds, Keyed, Owner, Fault, requestVars, vars,
        IInv, Ownership, LiveHoldersOwn, OwnersHaveRecord, OneOwner, EpochBound, IdleIsFresh,
        NotDoneNotAnswered, BeforeCreateNoRow,
        Recorded, CompleteHasNoOwner, RowIsRecorded, AnswerIsRecorded, OneInsertPerKey,
        SameKeySameAnswer, SameRecord
<1>0. Typed'
  BY TypeStep DEF IInv
<1>1. ASSUME NEW r \in Requests, NEW k \in Keys \cup {NoKey}, NEW h \in Hashes \cup {NoHash},
             Submit(r, k, h)
      PROVE Recorded'
  BY <1>0, <1>1 DEF Submit
<1>2. ASSUME NEW r \in Requests, ClaimWin(r) PROVE Recorded'
  <2>1. CompleteHasNoOwner'
    BY <1>0, <1>2 DEF ClaimWin
  <2>2. RowIsRecorded'
    <3>1. RowIsRecorded /\ BeforeCreateNoRow
      BY DEF IInv
    <3> HIDE DEF IInv, Typed, Ownership, Recorded, LiveHoldersOwn, OwnersHaveRecord, OneOwner, EpochBound,
             IdleIsFresh, NotDoneNotAnswered, BeforeCreateNoRow, CompleteHasNoOwner, RowIsRecorded,
             AnswerIsRecorded, OneInsertPerKey, SameKeySameAnswer
    <3>2. SUFFICES ASSUME faults = 0, NEW a \in rows, Keyed(a), epoch'[a] = ttl[key[a]]
                   PROVE (Owner(a)' /\ pc'[a] = "complete" /\ result'[a] = a)
                         \/ store'[key[a]] = Complete(a)
      BY <1>2 DEF ClaimWin, RowIsRecorded
    <3>3. a # r
      BY <1>2, <3>1 DEF ClaimWin, BeforeCreateNoRow
    <3>4. epoch[a] = ttl[key[a]]
      BY <1>2, <3>2, <3>3 DEF ClaimWin, IInv, Typed
    <3>5. (Owner(a) /\ pc[a] = "complete" /\ result[a] = a) \/ store[key[a]] = Complete(a)
      BY <3>1, <3>2, <3>4 DEF RowIsRecorded
    <3>6. key[a] \in Keys /\ (Owner(a) => store[key[a]] # Absent)
      BY <3>2 DEF IInv, Ownership, OwnersHaveRecord, Typed
    <3>7. key[a] # key[r]
      BY <1>2, <3>5, <3>6 DEF ClaimWin
    <3>8. QED
      BY <1>2, <3>3, <3>5, <3>6, <3>7 DEF ClaimWin, IInv, Typed
  <2>3. AnswerIsRecorded'
    BY <1>0, <1>2 DEF ClaimWin
  <2>4. OneInsertPerKey'
    BY <1>0, <1>2 DEF ClaimWin
  <2>5. SameKeySameAnswer'
    <3>1. answer[r] = "none"
      BY <1>2 DEF ClaimWin
    <3>2. \A a \in Requests : answer[a] \in Ok => epoch'[a] = epoch[a]
      BY <1>2, <3>1 DEF ClaimWin
    <3>3. QED
      BY <1>2, <3>2 DEF ClaimWin
  <2>6. QED
    BY <2>1, <2>2, <2>3, <2>4, <2>5 DEF Recorded
<1>3. ASSUME NEW r \in Requests, ClaimLose(r) PROVE Recorded'
  BY <1>0, <1>3 DEF ClaimLose
<1>4. ASSUME NEW r \in Requests, ReadVanished(r) PROVE Recorded'
  <2>1. CompleteHasNoOwner'
    BY <1>0, <1>4 DEF ReadVanished, TryAgain
  <2>2. RowIsRecorded'
    BY <1>0, <1>4 DEF ReadVanished, TryAgain
  <2>3. AnswerIsRecorded'
    BY <1>0, <1>4 DEF ReadVanished, TryAgain
  <2>4. OneInsertPerKey'
    BY <1>0, <1>4 DEF ReadVanished, TryAgain
  <2>5. SameKeySameAnswer'
    BY <1>0, <1>4 DEF ReadVanished, TryAgain
  <2>6. QED
    BY <2>1, <2>2, <2>3, <2>4, <2>5 DEF Recorded
<1>5. ASSUME NEW r \in Requests, ReadInFlight(r) PROVE Recorded'
  BY <1>0, <1>5 DEF ReadInFlight
<1>6. ASSUME NEW r \in Requests, Replay(r) PROVE Recorded'
  <2>1. CompleteHasNoOwner'
    BY <1>0, <1>6 DEF Replay
  <2>2. RowIsRecorded'
    BY <1>0, <1>6 DEF Replay
  <2>3. AnswerIsRecorded'
    BY <1>0, <1>6 DEF Replay
  <2>4. OneInsertPerKey'
    BY <1>0, <1>6 DEF Replay
  <2>5. SameKeySameAnswer'
    <3> SUFFICES ASSUME faults = 0, NEW b \in Requests, b # r,
                        answer[b] \in Ok, key[b] = key[r], Keyed(r), epoch[b] = ttl[key[r]]
                 PROVE result[b] = store[key[r]].response
      BY <1>6 DEF Replay
    <3>1. store[key[b]] = Complete(result[b])
      BY DEF IInv
    <3>2. QED
      BY <3>1
  <2>6. QED
    BY <2>1, <2>2, <2>3, <2>4, <2>5 DEF Recorded
<1>7. ASSUME NEW r \in Requests, PollReleased(r) PROVE Recorded'
  <2>1. CompleteHasNoOwner'
    BY <1>0, <1>7 DEF PollReleased, TryAgain
  <2>2. RowIsRecorded'
    BY <1>0, <1>7 DEF PollReleased, TryAgain
  <2>3. AnswerIsRecorded'
    BY <1>0, <1>7 DEF PollReleased, TryAgain
  <2>4. OneInsertPerKey'
    BY <1>0, <1>7 DEF PollReleased, TryAgain
  <2>5. SameKeySameAnswer'
    BY <1>0, <1>7 DEF PollReleased, TryAgain
  <2>6. QED
    BY <2>1, <2>2, <2>3, <2>4, <2>5 DEF Recorded
<1>8. ASSUME NEW r \in Requests, WaitTimeout(r) PROVE Recorded'
  BY <1>0, <1>8 DEF WaitTimeout
<1>9. ASSUME NEW r \in Requests, Reject(r) PROVE Recorded'
  <2>1. CompleteHasNoOwner'
    BY <1>0, <1>9 DEF Reject, Abort
  <2>2. RowIsRecorded'
    BY <1>0, <1>9 DEF Reject, Abort
  <2>3. AnswerIsRecorded'
    <3>1. CASE Keyed(r)
      BY <1>0, <1>9, <3>1 DEF Reject, Abort
    <3>2. CASE ~Keyed(r)
      BY <1>0, <1>9, <3>2 DEF Reject, Abort
    <3>3. QED
      BY <3>1, <3>2
  <2>4. OneInsertPerKey'
    BY <1>0, <1>9 DEF Reject, Abort
  <2>5. SameKeySameAnswer'
    BY SMTT(30), <1>0, <1>9 DEF Reject, Abort
  <2>6. QED
    BY <2>1, <2>2, <2>3, <2>4, <2>5 DEF Recorded
<1>10. ASSUME NEW r \in Requests, CheckHit(r) PROVE Recorded'
  <2>1. CompleteHasNoOwner'
    BY <1>0, <1>10 DEF CheckHit, Succeed, Matches
  <2>2. RowIsRecorded'
    BY <1>0, <1>10 DEF CheckHit, Succeed, Matches
  <2>3. AnswerIsRecorded'
    <3>1. AnswerIsRecorded
      BY DEF IInv
    <3> HIDE DEF IInv, Typed, Ownership, Recorded, LiveHoldersOwn, OwnersHaveRecord, OneOwner, EpochBound,
             IdleIsFresh, NotDoneNotAnswered, BeforeCreateNoRow, CompleteHasNoOwner, RowIsRecorded,
             AnswerIsRecorded, OneInsertPerKey, SameKeySameAnswer
    <3>2. \A x \in Requests \ {r} : answer'[x] = answer[x] /\ result'[x] = result[x]
      BY <1>10 DEF CheckHit, Succeed, Matches, IInv, Typed
    <3>3. Keyed(r) => answer'[r] = answer[r]
      BY <1>10 DEF CheckHit, Succeed, IInv, Typed
    <3>4. answer[r] = "none"
      BY <1>10 DEF CheckHit, Succeed, Matches, IInv, Ownership, NotDoneNotAnswered
    <3>5. QED
      BY <1>10, <3>1, <3>2, <3>3, <3>4 DEF CheckHit, AnswerIsRecorded
  <2>4. OneInsertPerKey'
    BY <1>0, <1>10 DEF CheckHit, Succeed, Matches
  <2>5. SameKeySameAnswer'
    BY SMTT(30), <1>0, <1>10 DEF CheckHit, Succeed, Matches
  <2>6. QED
    BY <2>1, <2>2, <2>3, <2>4, <2>5 DEF Recorded
<1>11. ASSUME NEW r \in Requests, CheckMiss(r) PROVE Recorded'
  BY <1>0, <1>11 DEF CheckMiss
<1>12. ASSUME NEW r \in Requests, Create(r) PROVE Recorded'
  <2>1. CompleteHasNoOwner'
    BY <1>0, <1>12 DEF Create, Succeed
  <2>2. RowIsRecorded'
    BY <1>0, <1>12 DEF Create, Succeed
  <2>3. AnswerIsRecorded'
    BY <1>0, <1>12 DEF Create, Succeed
  <2>4. OneInsertPerKey'
    <3>1. RowIsRecorded /\ CompleteHasNoOwner /\ OneInsertPerKey /\ LiveHoldersOwn /\ OneOwner
      BY DEF IInv
    <3> HIDE DEF IInv, Typed, Ownership, Recorded, LiveHoldersOwn, OwnersHaveRecord, OneOwner, EpochBound,
             IdleIsFresh, NotDoneNotAnswered, BeforeCreateNoRow, CompleteHasNoOwner, RowIsRecorded,
             AnswerIsRecorded, OneInsertPerKey, SameKeySameAnswer
    <3>2. SUFFICES ASSUME faults = 0, NEW b \in rows, key[b] = key[r], Keyed(r), epoch[b] = epoch[r]
                   PROVE FALSE
      BY <1>12, <3>1 DEF Create, Succeed, OneInsertPerKey
    <3>3. Owner(r) /\ store[key[r]] = InFlight
      BY <1>12, <3>1, <3>2 DEF Create, LiveHoldersOwn, CompleteHasNoOwner
    <3>4. Owner(b) /\ pc[b] = "complete"
      <4>1. Keyed(b) /\ epoch[b] = ttl[key[b]] /\ store[key[b]] # Complete(b)
        BY <3>2, <3>3
      <4>2. QED
        BY <3>1, <3>2, <4>1 DEF RowIsRecorded
    <3>5. b = r
      BY <3>1, <3>2, <3>3, <3>4 DEF OneOwner, IInv, Typed
    <3>6. QED
      BY <1>12, <3>4, <3>5 DEF Create
  <2>5. SameKeySameAnswer'
    BY SMTT(30), <1>0, <1>12 DEF Create, Succeed
  <2>6. QED
    BY <2>1, <2>2, <2>3, <2>4, <2>5 DEF Recorded
<1>13. ASSUME NEW r \in Requests, CreateP2002(r) PROVE Recorded'
  BY <1>0, <1>13 DEF CreateP2002
<1>14. ASSUME NEW r \in Requests, Refetch(r) PROVE Recorded'
  <2>1. CompleteHasNoOwner'
    BY <1>0, <1>14 DEF Refetch, Succeed, Matches
  <2>2. RowIsRecorded'
    BY <1>0, <1>14 DEF Refetch, Succeed, Matches
  <2>3. AnswerIsRecorded'
    <3>1. AnswerIsRecorded
      BY DEF IInv
    <3> HIDE DEF IInv, Typed, Ownership, Recorded, LiveHoldersOwn, OwnersHaveRecord, OneOwner, EpochBound,
             IdleIsFresh, NotDoneNotAnswered, BeforeCreateNoRow, CompleteHasNoOwner, RowIsRecorded,
             AnswerIsRecorded, OneInsertPerKey, SameKeySameAnswer
    <3>2. \A x \in Requests \ {r} : answer'[x] = answer[x] /\ result'[x] = result[x]
      BY <1>14 DEF Refetch, Succeed, Matches, IInv, Typed
    <3>3. Keyed(r) => answer'[r] = answer[r]
      BY <1>14 DEF Refetch, Succeed, IInv, Typed
    <3>4. answer[r] = "none"
      BY <1>14 DEF Refetch, Succeed, Matches, IInv, Ownership, NotDoneNotAnswered
    <3>5. QED
      BY <1>14, <3>1, <3>2, <3>3, <3>4 DEF Refetch, AnswerIsRecorded
  <2>4. OneInsertPerKey'
    BY <1>0, <1>14 DEF Refetch, Succeed, Matches
  <2>5. SameKeySameAnswer'
    BY SMTT(30), <1>0, <1>14 DEF Refetch, Succeed, Matches
  <2>6. QED
    BY <2>1, <2>2, <2>3, <2>4, <2>5 DEF Recorded
<1>15. ASSUME NEW r \in Requests, StoreResponse(r) PROVE Recorded'
  <2>1. CompleteHasNoOwner'
    BY <1>0, <1>15 DEF StoreResponse
  <2>2. RowIsRecorded'
    <3>1. RowIsRecorded /\ CompleteHasNoOwner /\ LiveHoldersOwn /\ OneOwner /\ Typed
      BY DEF IInv
    <3> HIDE DEF IInv, Typed, Ownership, Recorded, LiveHoldersOwn, OwnersHaveRecord, OneOwner, EpochBound,
             IdleIsFresh, NotDoneNotAnswered, BeforeCreateNoRow, CompleteHasNoOwner, RowIsRecorded,
             AnswerIsRecorded, OneInsertPerKey, SameKeySameAnswer
    <3>2. SUFFICES ASSUME faults = 0, NEW a \in rows, Keyed(a), epoch[a] = ttl[key[a]]
                   PROVE (Owner(a)' /\ pc'[a] = "complete" /\ result'[a] = a)
                         \/ store'[key[a]] = Complete(a)
      BY <1>15 DEF StoreResponse, RowIsRecorded
    <3>3. Owner(r) /\ store[key[r]] = InFlight /\ key[r] \in Keys
      BY <1>15, <3>1, <3>2 DEF StoreResponse, LiveHoldersOwn, CompleteHasNoOwner, Typed
    <3>4. (Owner(a) /\ pc[a] = "complete" /\ result[a] = a) \/ store[key[a]] = Complete(a)
      BY <3>1, <3>2 DEF RowIsRecorded
    <3>5. CASE key[a] = key[r]
      <4>1. a = r /\ result[a] = a
        BY <3>1, <3>3, <3>4, <3>5 DEF OneOwner, Typed
      <4>2. QED
        BY <1>15, <3>1, <3>3, <4>1 DEF StoreResponse, Typed
    <3>6. CASE key[a] # key[r]
      BY <1>15, <3>1, <3>2, <3>3, <3>4, <3>6 DEF StoreResponse, Typed
    <3>7. QED
      BY <3>5, <3>6
  <2>3. AnswerIsRecorded'
    BY <1>0, <1>15 DEF StoreResponse
  <2>4. OneInsertPerKey'
    BY <1>0, <1>15 DEF StoreResponse
  <2>5. SameKeySameAnswer'
    <3>1. AnswerIsRecorded /\ CompleteHasNoOwner /\ LiveHoldersOwn /\ SameKeySameAnswer /\ Typed
      BY DEF IInv
    <3> HIDE DEF IInv, Typed, Ownership, Recorded, LiveHoldersOwn, OwnersHaveRecord, OneOwner, EpochBound,
             IdleIsFresh, NotDoneNotAnswered, BeforeCreateNoRow, CompleteHasNoOwner, RowIsRecorded,
             AnswerIsRecorded, OneInsertPerKey, SameKeySameAnswer
    <3>2. Keyed(r) /\ (faults = 0 => store[key[r]] = InFlight) /\ epoch[r] = ttl[key[r]]
      BY <1>15, <3>1 DEF StoreResponse, LiveHoldersOwn, CompleteHasNoOwner, Typed
    <3>3. faults = 0 => \A b \in Requests : answer[b] \in Ok => ~SameRecord(r, b) /\ ~SameRecord(b, r)
      <4> SUFFICES ASSUME faults = 0, NEW b \in Requests, answer[b] \in Ok,
                          Keyed(b), key[b] = key[r], epoch[b] = epoch[r]
                   PROVE FALSE
        BY <3>2
      <4>1. store[key[b]] = Complete(result[b])
        BY <3>1, <3>2 DEF AnswerIsRecorded
      <4>2. QED
        BY <3>2, <4>1
    <3>4. QED
      BY <1>15, <3>1, <3>3 DEF StoreResponse, SameKeySameAnswer, Typed
  <2>6. QED
    BY <2>1, <2>2, <2>3, <2>4, <2>5 DEF Recorded
<1>16. ASSUME NEW r \in Requests, Release(r) PROVE Recorded'
  <2>1. CompleteHasNoOwner'
    BY <1>0, <1>16 DEF Release
  <2>2. RowIsRecorded'
    <3>1. RowIsRecorded /\ CompleteHasNoOwner /\ LiveHoldersOwn /\ OneOwner /\ Typed
      BY DEF IInv
    <3> HIDE DEF IInv, Typed, Ownership, Recorded, LiveHoldersOwn, OwnersHaveRecord, OneOwner, EpochBound,
             IdleIsFresh, NotDoneNotAnswered, BeforeCreateNoRow, CompleteHasNoOwner, RowIsRecorded,
             AnswerIsRecorded, OneInsertPerKey, SameKeySameAnswer
    <3>2. SUFFICES ASSUME faults = 0, NEW a \in rows, Keyed(a), epoch[a] = ttl[key[a]]
                   PROVE (Owner(a)' /\ pc'[a] = "complete" /\ result'[a] = a)
                         \/ store'[key[a]] = Complete(a)
      BY <1>16 DEF Release, RowIsRecorded
    <3>3. Owner(r) /\ store[key[r]] = InFlight /\ key[r] \in Keys
      BY <1>16, <3>1, <3>2 DEF Release, LiveHoldersOwn, CompleteHasNoOwner, Typed
    <3>4. (Owner(a) /\ pc[a] = "complete" /\ result[a] = a) \/ store[key[a]] = Complete(a)
      BY <3>1, <3>2 DEF RowIsRecorded
    <3>5. a # r
      BY <1>16, <3>3, <3>4 DEF Release
    <3>6. key[a] # key[r]
      BY <3>1, <3>2, <3>3, <3>4, <3>5 DEF OneOwner, Typed
    <3>7. QED
      BY <1>16, <3>1, <3>2, <3>3, <3>4, <3>5, <3>6 DEF Release, Typed
  <2>3. AnswerIsRecorded'
    BY <1>0, <1>16 DEF Release
  <2>4. OneInsertPerKey'
    BY <1>0, <1>16 DEF Release
  <2>5. SameKeySameAnswer'
    BY <1>0, <1>16 DEF Release
  <2>6. QED
    BY <2>1, <2>2, <2>3, <2>4, <2>5 DEF Recorded
<1>17. ASSUME NEW r \in Requests, ClaimFault(r) PROVE Recorded'
  BY <1>0, <1>17 DEF ClaimFault
<1>18. ASSUME NEW r \in Requests, ReadFault(r) PROVE Recorded'
  BY <1>0, <1>18 DEF ReadFault
<1>19. ASSUME NEW r \in Requests, LookupFault(r) PROVE Recorded'
  BY <1>0, <1>19 DEF LookupFault, Abort
<1>20. ASSUME NEW r \in Requests, CreateFault(r) PROVE Recorded'
  BY <1>0, <1>20 DEF CreateFault, Abort
<1>21. ASSUME NEW r \in Requests, CompleteFault(r) PROVE Recorded'
  BY <1>0, <1>21 DEF CompleteFault
<1>22. ASSUME NEW r \in Requests, ReleaseFault(r) PROVE Recorded'
  BY <1>0, <1>22 DEF ReleaseFault
<1>23. ASSUME NEW r \in Requests, Crash(r) PROVE Recorded'
  BY <1>0, <1>23 DEF Crash
<1>24. ASSUME NEW k \in Keys, Expire(k) PROVE Recorded'
  BY <1>0, <1>24 DEF Expire
<1>25. CASE UNCHANGED vars
  BY <1>0, <1>25
<1>26. QED
  BY <1>1, <1>2, <1>3, <1>4, <1>5, <1>6, <1>7, <1>8, <1>9, <1>10, <1>11, <1>12, <1>13, <1>14, <1>15, <1>16, <1>17, <1>18, <1>19, <1>20, <1>21, <1>22, <1>23, <1>24, <1>25 DEF Next, ClaimStep, PersistStep, FaultStep

\* The unique index keeps rows and responses consistent.
LEMMA HashStep == Typed /\ Ownership /\ HashInv /\ [Next]_vars => HashInv'
<1> SUFFICES ASSUME Typed /\ Ownership /\ HashInv, [Next]_vars PROVE HashInv'
  OBVIOUS
<1> USE ConstantsAssumption
    DEF Typed, TypeOK, ClaimPointsKeyed, Records, Absent, InFlight, Complete, Points, HoldingPoints, Answers,
        Ok, At, Goto, Respond, Live, Holds, Keyed, Owner, Fault, requestVars, vars, Matches,
        Ownership, IdleIsFresh, NotDoneNotAnswered, BeforeCreateNoRow, HashInv, UniqueHash, ResultMatches
<1>0. Typed'
  BY TypeStep DEF IInv
<1>1. ASSUME NEW r \in Requests, NEW k \in Keys \cup {NoKey}, NEW h \in Hashes \cup {NoHash},
             Submit(r, k, h)
      PROVE HashInv'
  BY <1>0, <1>1 DEF Submit
<1>2. ASSUME NEW r \in Requests, ClaimWin(r) PROVE HashInv'
  BY <1>0, <1>2 DEF ClaimWin
<1>3. ASSUME NEW r \in Requests, ClaimLose(r) PROVE HashInv'
  BY <1>0, <1>3 DEF ClaimLose
<1>4. ASSUME NEW r \in Requests, ReadVanished(r) PROVE HashInv'
  BY <1>0, <1>4 DEF ReadVanished, TryAgain
<1>5. ASSUME NEW r \in Requests, ReadInFlight(r) PROVE HashInv'
  BY <1>0, <1>5 DEF ReadInFlight
<1>6. ASSUME NEW r \in Requests, Replay(r) PROVE HashInv'
  BY <1>0, <1>6 DEF Replay
<1>7. ASSUME NEW r \in Requests, PollReleased(r) PROVE HashInv'
  BY <1>0, <1>7 DEF PollReleased, TryAgain
<1>8. ASSUME NEW r \in Requests, WaitTimeout(r) PROVE HashInv'
  BY <1>0, <1>8 DEF WaitTimeout
<1>9. ASSUME NEW r \in Requests, Reject(r) PROVE HashInv'
  BY <1>0, <1>9 DEF Reject, Abort
<1>10. ASSUME NEW r \in Requests, CheckHit(r) PROVE HashInv'
  BY <1>0, <1>10 DEF CheckHit, Succeed, Matches
<1>11. ASSUME NEW r \in Requests, CheckMiss(r) PROVE HashInv'
  BY <1>0, <1>11 DEF CheckMiss
<1>12. ASSUME NEW r \in Requests, Create(r) PROVE HashInv'
  BY <1>0, <1>12 DEF Create, Succeed
<1>13. ASSUME NEW r \in Requests, CreateP2002(r) PROVE HashInv'
  BY <1>0, <1>13 DEF CreateP2002
<1>14. ASSUME NEW r \in Requests, Refetch(r) PROVE HashInv'
  BY <1>0, <1>14 DEF Refetch, Succeed, Matches
<1>15. ASSUME NEW r \in Requests, StoreResponse(r) PROVE HashInv'
  BY <1>0, <1>15 DEF StoreResponse
<1>16. ASSUME NEW r \in Requests, Release(r) PROVE HashInv'
  BY <1>0, <1>16 DEF Release
<1>17. ASSUME NEW r \in Requests, ClaimFault(r) PROVE HashInv'
  BY <1>0, <1>17 DEF ClaimFault
<1>18. ASSUME NEW r \in Requests, ReadFault(r) PROVE HashInv'
  BY <1>0, <1>18 DEF ReadFault
<1>19. ASSUME NEW r \in Requests, LookupFault(r) PROVE HashInv'
  BY <1>0, <1>19 DEF LookupFault, Abort
<1>20. ASSUME NEW r \in Requests, CreateFault(r) PROVE HashInv'
  BY <1>0, <1>20 DEF CreateFault, Abort
<1>21. ASSUME NEW r \in Requests, CompleteFault(r) PROVE HashInv'
  BY <1>0, <1>21 DEF CompleteFault
<1>22. ASSUME NEW r \in Requests, ReleaseFault(r) PROVE HashInv'
  BY <1>0, <1>22 DEF ReleaseFault
<1>23. ASSUME NEW r \in Requests, Crash(r) PROVE HashInv'
  BY <1>0, <1>23 DEF Crash
<1>24. ASSUME NEW k \in Keys, Expire(k) PROVE HashInv'
  BY <1>0, <1>24 DEF Expire
<1>25. CASE UNCHANGED vars
  BY <1>0, <1>25
<1>26. QED
  BY <1>1, <1>2, <1>3, <1>4, <1>5, <1>6, <1>7, <1>8, <1>9, <1>10, <1>11, <1>12, <1>13, <1>14, <1>15, <1>16, <1>17, <1>18, <1>19, <1>20, <1>21, <1>22, <1>23, <1>24, <1>25 DEF Next, ClaimStep, PersistStep, FaultStep

\* An in-flight record keeps its owner.
LEMMA PoisonStep == IInv /\ NoPoisonedKey /\ [Next]_vars => NoPoisonedKey'
<1> SUFFICES ASSUME IInv /\ NoPoisonedKey, [Next]_vars PROVE NoPoisonedKey'
  OBVIOUS
<1> USE ConstantsAssumption
    DEF Typed, TypeOK, ClaimPointsKeyed, Records, Absent, InFlight, Complete, Points, HoldingPoints, Answers,
        Ok, At, Goto, Respond, Live, Holds, Keyed, Owner, Fault, requestVars, vars,
        IInv, Ownership, LiveHoldersOwn, OneOwner, NoPoisonedKey
<1>0. Typed'
  BY TypeStep DEF IInv
<1>1. ASSUME NEW r \in Requests, NEW k \in Keys \cup {NoKey}, NEW h \in Hashes \cup {NoHash},
             Submit(r, k, h)
      PROVE NoPoisonedKey'
  BY <1>0, <1>1 DEF Submit
<1>2. ASSUME NEW r \in Requests, ClaimWin(r) PROVE NoPoisonedKey'
  BY <1>0, <1>2 DEF ClaimWin
<1>3. ASSUME NEW r \in Requests, ClaimLose(r) PROVE NoPoisonedKey'
  BY <1>0, <1>3 DEF ClaimLose
<1>4. ASSUME NEW r \in Requests, ReadVanished(r) PROVE NoPoisonedKey'
  BY <1>0, <1>4 DEF ReadVanished, TryAgain
<1>5. ASSUME NEW r \in Requests, ReadInFlight(r) PROVE NoPoisonedKey'
  BY <1>0, <1>5 DEF ReadInFlight
<1>6. ASSUME NEW r \in Requests, Replay(r) PROVE NoPoisonedKey'
  BY <1>0, <1>6 DEF Replay
<1>7. ASSUME NEW r \in Requests, PollReleased(r) PROVE NoPoisonedKey'
  BY <1>0, <1>7 DEF PollReleased, TryAgain
<1>8. ASSUME NEW r \in Requests, WaitTimeout(r) PROVE NoPoisonedKey'
  BY <1>0, <1>8 DEF WaitTimeout
<1>9. ASSUME NEW r \in Requests, Reject(r) PROVE NoPoisonedKey'
  BY <1>0, <1>9 DEF Reject, Abort
<1>10. ASSUME NEW r \in Requests, CheckHit(r) PROVE NoPoisonedKey'
  BY <1>0, <1>10 DEF CheckHit, Succeed, Matches
<1>11. ASSUME NEW r \in Requests, CheckMiss(r) PROVE NoPoisonedKey'
  BY <1>0, <1>11 DEF CheckMiss
<1>12. ASSUME NEW r \in Requests, Create(r) PROVE NoPoisonedKey'
  BY <1>0, <1>12 DEF Create, Succeed
<1>13. ASSUME NEW r \in Requests, CreateP2002(r) PROVE NoPoisonedKey'
  BY <1>0, <1>13 DEF CreateP2002
<1>14. ASSUME NEW r \in Requests, Refetch(r) PROVE NoPoisonedKey'
  BY <1>0, <1>14 DEF Refetch, Succeed, Matches
<1>15. ASSUME NEW r \in Requests, StoreResponse(r) PROVE NoPoisonedKey'
  BY SMTT(30), <1>0, <1>15 DEF StoreResponse
<1>16. ASSUME NEW r \in Requests, Release(r) PROVE NoPoisonedKey'
  BY <1>0, <1>16 DEF Release
<1>17. ASSUME NEW r \in Requests, ClaimFault(r) PROVE NoPoisonedKey'
  BY <1>0, <1>17 DEF ClaimFault
<1>18. ASSUME NEW r \in Requests, ReadFault(r) PROVE NoPoisonedKey'
  BY <1>0, <1>18 DEF ReadFault
<1>19. ASSUME NEW r \in Requests, LookupFault(r) PROVE NoPoisonedKey'
  BY <1>0, <1>19 DEF LookupFault, Abort
<1>20. ASSUME NEW r \in Requests, CreateFault(r) PROVE NoPoisonedKey'
  BY <1>0, <1>20 DEF CreateFault, Abort
<1>21. ASSUME NEW r \in Requests, CompleteFault(r) PROVE NoPoisonedKey'
  BY <1>0, <1>21 DEF CompleteFault
<1>22. ASSUME NEW r \in Requests, ReleaseFault(r) PROVE NoPoisonedKey'
  BY <1>0, <1>22 DEF ReleaseFault
<1>23. ASSUME NEW r \in Requests, Crash(r) PROVE NoPoisonedKey'
  BY <1>0, <1>23 DEF Crash
<1>24. ASSUME NEW k \in Keys, Expire(k) PROVE NoPoisonedKey'
  BY <1>0, <1>24 DEF Expire
<1>25. CASE UNCHANGED vars
  BY <1>0, <1>25
<1>26. QED
  BY <1>1, <1>2, <1>3, <1>4, <1>5, <1>6, <1>7, <1>8, <1>9, <1>10, <1>11, <1>12, <1>13, <1>14, <1>15, <1>16, <1>17, <1>18, <1>19, <1>20, <1>21, <1>22, <1>23, <1>24, <1>25 DEF Next, ClaimStep, PersistStep, FaultStep

-----------------------------------------------------------------------------
\* The initial state satisfies every part of the inductive invariant.
LEMMA InitInv == Init => IInv /\ HashInv /\ NoPoisonedKey
<1> SUFFICES ASSUME Init PROVE IInv /\ HashInv /\ NoPoisonedKey
  OBVIOUS
<1> USE ConstantsAssumption
    DEF Init, Records, Absent, InFlight, Complete, Points, HoldingPoints, Answers, Ok,
        Holds, Keyed, Owner
<1>1. Typed
  BY DEF Typed, TypeOK, ClaimPointsKeyed
<1>2. Ownership
  BY DEF Ownership, LiveHoldersOwn, OwnersHaveRecord, OneOwner, EpochBound, IdleIsFresh,
         NotDoneNotAnswered, BeforeCreateNoRow
<1>3. Recorded
  BY DEF Recorded, CompleteHasNoOwner, RowIsRecorded, AnswerIsRecorded, OneInsertPerKey,
         SameKeySameAnswer
<1>4. HashInv /\ NoPoisonedKey
  BY DEF HashInv, UniqueHash, ResultMatches, NoPoisonedKey
<1>5. QED
  BY <1>1, <1>2, <1>3, <1>4 DEF IInv

\* The whole inductive invariant holds in every reachable state.
THEOREM Invariance == Spec => [](IInv /\ HashInv /\ NoPoisonedKey)
<1>1. IInv /\ HashInv /\ NoPoisonedKey /\ [Next]_vars => (IInv /\ HashInv /\ NoPoisonedKey)'
  BY TypeStep, OwnershipStep, RecordedStep, HashStep, PoisonStep DEF IInv
<1>2. QED
  BY InitInv, <1>1, PTL DEF Spec

\* Every variable has its type: IdempotencyService and persistTransaction never
\* leave the control points and record shapes the module names.
THEOREM TypeCorrect == Spec => []TypeOK
<1>1. IInv => TypeOK
  BY DEF IInv, Typed
<1>2. QED
  BY Invariance, <1>1, PTL

\* One key inserts at most one row per TTL window while no round trip fails: the
\* claim made by SET NX is exclusive for as long as it matters.
THEOREM OneInsert == Spec => []OneInsertPerKey
<1>1. IInv => OneInsertPerKey
  BY DEF IInv, Recorded
<1>2. QED
  BY Invariance, <1>1, PTL

\* All successful requests with one key report the same row while no round trip
\* fails: what is stored is what the executing request answered.
THEOREM SameAnswer == Spec => []SameKeySameAnswer
<1>1. IInv => SameKeySameAnswer
  BY DEF IInv, Recorded
<1>2. QED
  BY Invariance, <1>1, PTL

\* Executed requests with one stellarTxHash report one row, failures included:
\* the pre-check, the unique index and the P2002 path agree.
THEOREM HashDeduplicates == Spec => []SameHashSameRow
<1>1. TypeOK /\ HashInv => SameHashSameRow
  BY DEF TypeOK, HashInv, UniqueHash, ResultMatches, SameHashSameRow
<1>2. QED
  BY Invariance, TypeCorrect, <1>1, PTL

\* No error path leaves a key claimed by nobody while no round trip fails.
THEOREM KeysAreNotPoisoned == Spec => []NoPoisonedKey
BY Invariance, PTL

\* A stored response is only ever dropped by its TTL while no round trip fails:
\* the unconditional SET and DEL of complete() and release() hit nothing else.
THEOREM StoredResponseIsStable == Spec => ReplayIsStable
<1> DEFINE Stable ==
      faults' = 0 =>
        \A k \in Keys : store[k].state = "complete" /\ store'[k] # store[k] => ttl'[k] # ttl[k]
<1>1. IInv /\ [Next]_vars => [Stable]_vars
  <2> SUFFICES ASSUME IInv, [Next]_vars, faults' = 0,
                      NEW k \in Keys, store[k].state = "complete", store'[k] # store[k]
               PROVE ttl'[k] # ttl[k]
    OBVIOUS
  <2> USE ConstantsAssumption
      DEF IInv, Typed, TypeOK, ClaimPointsKeyed, Records, Absent, InFlight, Complete, HoldingPoints,
          At, Goto, Respond, Live, Holds, Keyed, Owner, Fault, requestVars, vars
  <2>1. ASSUME NEW r \in Requests, NEW l \in Keys \cup {NoKey}, NEW h \in Hashes \cup {NoHash},
               Submit(r, l, h)
        PROVE FALSE
    BY <2>1 DEF Submit
  <2>2. ASSUME NEW r \in Requests, ClaimStep(r) PROVE FALSE
    <3>1. CASE ClaimWin(r)
      BY <3>1 DEF ClaimWin
    <3>2. CASE ~ClaimWin(r)
      BY <2>2, <3>2 DEF ClaimStep, ClaimLose, ReadVanished, ReadInFlight, Replay, PollReleased,
                        WaitTimeout
    <3>3. QED
      BY <3>1, <3>2
  <2>3. ASSUME NEW r \in Requests, PersistStep(r) PROVE FALSE
    <3>1. CASE StoreResponse(r) \/ Release(r)
      <4>1. store[key[r]] = InFlight
        BY <3>1 DEF StoreResponse, Release, Recorded, CompleteHasNoOwner, Ownership, LiveHoldersOwn
      <4>2. QED
        BY <3>1, <4>1 DEF StoreResponse, Release
    <3>2. CASE ~(StoreResponse(r) \/ Release(r))
      BY <2>3, <3>2 DEF PersistStep, Reject, CheckHit, CheckMiss, Create, CreateP2002, Refetch
    <3>3. QED
      BY <3>1, <3>2
  <2>4. ASSUME NEW r \in Requests, FaultStep(r) PROVE FALSE
    BY <2>4 DEF FaultStep, ClaimFault, ReadFault, LookupFault, CreateFault, CompleteFault,
                ReleaseFault
  <2>5. ASSUME NEW r \in Requests, Crash(r) PROVE FALSE
    BY <2>5 DEF Crash
  <2>6. ASSUME NEW l \in Keys, Expire(l) PROVE ttl'[k] # ttl[k]
    BY <2>6 DEF Expire
  <2>7. CASE UNCHANGED vars
    BY <2>7
  <2>8. QED
    BY <2>1, <2>2, <2>3, <2>4, <2>5, <2>6, <2>7 DEF Next
<1>2. QED
  BY Invariance, <1>1, PTL DEF Spec, ReplayIsStable

-----------------------------------------------------------------------------
\* A stored response names a row, and only a finished record has one; a request
\* about to store its response has one to store.
ResponsesAreRows ==
  /\ \A k \in Keys : IF store[k].state = "complete" THEN store[k].response \in Requests
                                                    ELSE store[k].response = NoRow
  /\ \A r \in Requests : pc[r] = "complete" => result[r] \in Requests

\* Every step keeps stored responses rows.
LEMMA ResponseStep == Typed /\ ResponsesAreRows /\ [Next]_vars => ResponsesAreRows'
<1> SUFFICES ASSUME Typed, ResponsesAreRows, [Next]_vars PROVE ResponsesAreRows'
  OBVIOUS
<1> USE ConstantsAssumption
    DEF Typed, TypeOK, ClaimPointsKeyed, Records, Absent, InFlight, Complete, Points, HoldingPoints, Answers, Ok,
        At, Goto, Respond, Live, Keyed, Fault, requestVars, vars, ResponsesAreRows
<1>1. ASSUME NEW r \in Requests, NEW k \in Keys \cup {NoKey}, NEW h \in Hashes \cup {NoHash},
             Submit(r, k, h)
      PROVE ResponsesAreRows'
  BY <1>1 DEF Submit
<1>2. ASSUME NEW r \in Requests, ClaimStep(r) PROVE ResponsesAreRows'
  <2>1. CASE ClaimWin(r)
    BY <2>1 DEF ClaimWin
  <2>2. CASE ReadVanished(r) \/ PollReleased(r)
    BY <2>2 DEF ReadVanished, PollReleased, TryAgain
  <2>3. CASE ClaimLose(r) \/ ReadInFlight(r)
    BY <2>3 DEF ClaimLose, ReadInFlight
  <2>4. CASE Replay(r)
    BY <2>4 DEF Replay
  <2>5. CASE WaitTimeout(r)
    BY <2>5 DEF WaitTimeout
  <2>6. QED
    BY <1>2, <2>1, <2>2, <2>3, <2>4, <2>5 DEF ClaimStep
<1>3. ASSUME NEW r \in Requests, PersistStep(r) PROVE ResponsesAreRows'
  <2>1. CASE Reject(r)
    BY <2>1 DEF Reject, Abort
  <2>2. CASE CheckHit(r) \/ Refetch(r)
    BY <2>2 DEF CheckHit, Refetch, Succeed, Matches
  <2>3. CASE Create(r)
    BY <2>3 DEF Create, Succeed
  <2>4. CASE CheckMiss(r) \/ CreateP2002(r)
    BY <2>4 DEF CheckMiss, CreateP2002
  <2>5. CASE StoreResponse(r)
    BY <2>5 DEF StoreResponse
  <2>6. CASE Release(r)
    BY <2>6 DEF Release
  <2>7. QED
    BY <1>3, <2>1, <2>2, <2>3, <2>4, <2>5, <2>6 DEF PersistStep
<1>4. ASSUME NEW r \in Requests, FaultStep(r) PROVE ResponsesAreRows'
  <2>1. CASE ClaimFault(r)
    <3>1. CASE UNCHANGED store
      BY <2>1, <3>1 DEF ClaimFault
    <3>2. CASE store' = [store EXCEPT ![key[r]] = InFlight]
      BY <2>1, <3>2 DEF ClaimFault
    <3>3. QED
      BY <2>1, <3>1, <3>2 DEF ClaimFault
  <2>2. CASE ReadFault(r)
    BY <2>2 DEF ReadFault
  <2>3. CASE LookupFault(r) \/ CreateFault(r)
    BY <2>3 DEF LookupFault, CreateFault, Abort
  <2>4. CASE CompleteFault(r)
    BY <2>4 DEF CompleteFault
  <2>5. CASE ReleaseFault(r)
    BY <2>5 DEF ReleaseFault
  <2>6. QED
    BY <1>4, <2>1, <2>2, <2>3, <2>4, <2>5 DEF FaultStep
<1>5. ASSUME NEW r \in Requests, Crash(r) PROVE ResponsesAreRows'
  BY <1>5 DEF Crash
<1>6. ASSUME NEW k \in Keys, Expire(k) PROVE ResponsesAreRows'
  BY <1>6 DEF Expire
<1>7. CASE UNCHANGED vars
  BY <1>7
<1>8. QED
  BY <1>1, <1>2, <1>3, <1>4, <1>5, <1>6, <1>7 DEF Next

\* The rows inserted under a key in its present window.
Inserters(k) == {r \in rows : key[r] = k /\ epoch[r] = ttl[k]}

\* The row of a key is its inserter, when it has one.
LEMMA PerformedInserters ==
  ASSUME NEW k \in Keys
  PROVE  /\ Inserters(k) = {} => Performed(k) = NoRow
         /\ Inserters(k) # {} => Performed(k) \in Inserters(k)
<1>1. Performed(k) = IF Inserters(k) = {} THEN NoRow ELSE CHOOSE r \in Inserters(k) : TRUE
  BY DEF Performed, Inserters
<1>2. Inserters(k) # {} => (CHOOSE r \in Inserters(k) : TRUE) \in Inserters(k)
  OBVIOUS
<1>3. QED
  BY <1>1, <1>2

\* As long as the inserters of a key stay the same, so does its row.
LEMMA PerformedStays ==
  ASSUME NEW k \in Keys, Inserters(k)' = Inserters(k)
  PROVE  Performed(k)' = Performed(k)
<1>1. Performed(k) = IF Inserters(k) = {} THEN NoRow ELSE CHOOSE r \in Inserters(k) : TRUE
  BY DEF Performed, Inserters
<1>2. Performed(k)' = IF Inserters(k)' = {} THEN NoRow ELSE CHOOSE r \in Inserters(k)' : TRUE
  BY DEF Performed, Inserters
<1>3. QED
  BY <1>1, <1>2

\* The state functions the refinement mapping gives to IdempotentExecution.
PerformedOf == [k \in Keys |-> Performed(k)]
OutcomeOf == [k \in Keys |-> store[k].response]
ReplyOf == [r \in Requests |-> IF answer[r] \in Ok THEN result[r] ELSE NoRow]

\* A step that moves neither a row, nor a key or a window, nor a stored response,
\* nor a reported row is a stutter of the promise.
LEMMA Stutters ==
  ASSUME key' = key,
         \A k \in Keys : Inserters(k)' = Inserters(k),
         OutcomeOf' = OutcomeOf,
         ReplyOf' = ReplyOf
  PROVE  UNCHANGED Abstract!vars
<1>1. \A k \in Keys : Performed(k)' = Performed(k)
  BY PerformedStays
<1>2. PerformedOf' = PerformedOf
  BY <1>1 DEF PerformedOf
<1>3. QED
  BY <1>2 DEF Abstract!vars, PerformedOf, OutcomeOf, ReplyOf

\* What the refinement steps need of the state.
PromiseInv == IInv /\ ResponsesAreRows

\* A request that has not inserted its row is nobody's inserter, and what it does
\* to its own window is not seen.
LEMMA OutsiderKeepsInserters ==
  ASSUME NEW r \in Requests, Typed, r \notin rows, rows' = rows,
         ttl' = ttl,
         \A a \in Requests \ {r} : key'[a] = key[a] /\ epoch'[a] = epoch[a]
  PROVE  \A k \in Keys : Inserters(k)' = Inserters(k)
<1> SUFFICES ASSUME NEW k \in Keys PROVE Inserters(k)' = Inserters(k)
  OBVIOUS
<1>1. \A a \in rows : a \in Requests \ {r}
  BY DEF Typed, TypeOK
<1>2. QED
  BY <1>1 DEF Inserters

\* The steps of the claim protocol: they stutter, or replay a published outcome.
LEMMA ClaimRefines ==
  ASSUME NEW r \in Requests, PromiseInv, ClaimStep(r)
  PROVE  [Abstract!Next]_(Abstract!vars)
<1> USE DEF At, Goto
<1>1. /\ r \notin rows
      /\ answer[r] = "none"
      /\ key[r] \in Keys
  BY DEF PromiseInv, IInv, Typed, TypeOK, ClaimPointsKeyed, Ownership, BeforeCreateNoRow,
         NotDoneNotAnswered, ClaimStep, ClaimWin, ClaimLose, ReadVanished, ReadInFlight, Replay,
         PollReleased, WaitTimeout, Keyed
<1>2. rows' = rows /\ ttl' = ttl /\ key' = key
  BY DEF ClaimStep, ClaimWin, ClaimLose, ReadVanished, ReadInFlight, Replay,
         PollReleased, WaitTimeout
<1>3. \A a \in Requests \ {r} : key'[a] = key[a] /\ epoch'[a] = epoch[a]
  BY DEF ClaimStep, ClaimWin, ClaimLose, ReadVanished, ReadInFlight, Replay,
         PollReleased, WaitTimeout, PromiseInv, IInv, Typed, TypeOK
<1>4. \A k \in Keys : Inserters(k)' = Inserters(k)
  BY <1>1, <1>2, <1>3, OutsiderKeepsInserters DEF PromiseInv, IInv
<1>5. ASSUME ~Replay(r) PROVE OutcomeOf' = OutcomeOf /\ ReplyOf' = ReplyOf
  <2>1. \A k \in Keys : store'[k].response = store[k].response
    <3>1. CASE store' = store
      BY <3>1
    <3>2. CASE ClaimWin(r)
      BY <1>1, <3>2 DEF ClaimWin, PromiseInv, IInv, Typed, TypeOK, Absent, InFlight
    <3>3. QED
      BY <1>5, <3>1, <3>2 DEF ClaimStep, ClaimLose, ReadVanished, ReadInFlight, PollReleased,
                              WaitTimeout
  <2>2. \A a \in Requests : a # r => answer'[a] = answer[a] /\ result'[a] = result[a]
    BY <1>5 DEF ClaimStep, ClaimWin, ClaimLose, ReadVanished, ReadInFlight,
       PollReleased, WaitTimeout, TryAgain, Respond, PromiseInv, IInv, Typed, TypeOK
  <2>3. answer'[r] \notin Ok
    BY <1>1, <1>5 DEF ClaimStep, ClaimWin, ClaimLose, ReadVanished, ReadInFlight,
       PollReleased, WaitTimeout, TryAgain, Respond, PromiseInv, IInv, Typed, TypeOK, Ok
  <2>4. answer[r] \notin Ok
    BY <1>1 DEF Ok
  <2>5. QED
    BY <2>1, <2>2, <2>3, <2>4 DEF OutcomeOf, ReplyOf
<1>6. CASE ~Replay(r)
  BY <1>2, <1>4, <1>5, <1>6, Stutters
<1>7. CASE Replay(r)
  <2>1. store' = store
    BY <1>7 DEF Replay
  <2>2. PerformedOf' = PerformedOf /\ OutcomeOf' = OutcomeOf
    BY <1>4, <2>1, PerformedStays DEF PerformedOf, OutcomeOf
  <2>3. OutcomeOf[key[r]] \in Requests
    BY <1>1, <1>7 DEF Replay, OutcomeOf, PromiseInv, ResponsesAreRows
  <2>4. ReplyOf' = [ReplyOf EXCEPT ![r] = OutcomeOf[key[r]]]
    BY <1>1, <1>7 DEF Replay, Respond, ReplyOf, OutcomeOf, Ok, PromiseInv, IInv, Typed, TypeOK
  <2>5. PICK k \in Keys : k = key[r]
    BY <1>1
  <2>6. Abstract!Replay(r, k)
    BY <1>1, <1>2, <2>2, <2>3, <2>4, <2>5, ConstantsAssumption
       DEF Abstract!Replay, PerformedOf, OutcomeOf, ReplyOf
  <2>7. QED
    BY <2>6 DEF Abstract!Next
<1>8. QED
  BY <1>6, <1>7

\* The step that inserts a row performs the work of the key, if there is one, and
\* is the reply of a request without a key.
LEMMA CreateRefines ==
  ASSUME NEW r \in Requests, PromiseInv, faults = 0, Create(r)
  PROVE  [Abstract!Next]_(Abstract!vars)
<1> USE ConstantsAssumption DEF At, Goto, PromiseInv, IInv, Typed, TypeOK, Create
<1>1. /\ r \in Requests
      /\ pc[r] = "create"
      /\ r \notin rows
      /\ answer[r] = "none"
      /\ rows' = rows \cup {r}
  BY DEF Ownership, BeforeCreateNoRow, NotDoneNotAnswered
<1>2. store' = store /\ key' = key /\ ttl' = ttl /\ epoch' = epoch
  OBVIOUS
<1>3. OutcomeOf' = OutcomeOf
  BY <1>2 DEF OutcomeOf
<1>4. \A k \in Keys : k # key[r] => Performed(k)' = Performed(k)
  <2>1. \A k \in Keys : k # key[r] => Inserters(k)' = Inserters(k)
    BY <1>1, <1>2 DEF Inserters
  <2>2. QED
    BY <2>1, PerformedStays
<1>5. CASE key[r] = NoKey
  <2>1. ReplyOf' = [ReplyOf EXCEPT ![r] = r]
    BY <1>1, <1>5 DEF Succeed, Respond, Keyed, ReplyOf, Ok
  <2>2. PerformedOf' = PerformedOf
    BY <1>4, <1>5 DEF PerformedOf
  <2>3. Abstract!ReplyUnkeyed(r, r)
    BY <1>2, <1>3, <1>5, <2>1, <2>2 DEF Abstract!ReplyUnkeyed, PerformedOf, OutcomeOf, ReplyOf
  <2>4. QED
    BY <2>3 DEF Abstract!Next
<1>6. CASE key[r] # NoKey
  <2>1. PICK k \in Keys : k = key[r]
    BY <1>6
  <2>2. ReplyOf' = ReplyOf
    BY <1>1, <1>6 DEF Succeed, Keyed, ReplyOf, Ok
  <2>3. /\ Owner(r)
        /\ store[k] = InFlight
        /\ epoch[r] = ttl[k]
    BY <1>1, <1>6, <2>1 DEF Ownership, LiveHoldersOwn, Live, Holds, HoldingPoints, Keyed, Owner,
                            Recorded, CompleteHasNoOwner
  <2>4. Inserters(k) = {}
    <3> SUFFICES ASSUME NEW a \in Inserters(k) PROVE FALSE
      OBVIOUS
    <3>1. a \in rows /\ a \in Requests /\ Keyed(a) /\ key[a] = k /\ epoch[a] = ttl[key[a]]
      BY DEF Inserters, Keyed
    <3>2. Owner(a) /\ pc[a] = "complete"
      <4>1. store[key[a]] # Complete(a)
        BY <2>3, <3>1 DEF InFlight, Complete
      <4>2. RowIsRecorded
        BY DEF Recorded
      <4>3. QED
        BY <3>1, <4>1, <4>2 DEF RowIsRecorded
    <3>3. QED
      BY <1>1, <2>1, <2>3, <3>1, <3>2 DEF Ownership, OneOwner
  <2>5. Inserters(k)' = {r}
    <3>1. \A a : a \in Inserters(k)' <=> a \in Inserters(k) \/ a = r
      BY <1>1, <1>2, <2>1, <2>3 DEF Inserters
    <3>2. QED
      BY <2>4, <3>1
  <2>6. Performed(k) = NoRow
    BY <2>4, PerformedInserters
  <2>7. Performed(k)' = r
    <3>1. Performed(k)' = IF Inserters(k)' = {} THEN NoRow ELSE CHOOSE a \in Inserters(k)' : TRUE
      BY DEF Performed, Inserters
    <3>2. QED
      BY <2>5, <3>1
  <2>8. PerformedOf[k] = NoRow
    BY <2>6 DEF PerformedOf
  <2>9. PerformedOf' = [PerformedOf EXCEPT ![k] = r]
    BY <1>4, <2>1, <2>7 DEF PerformedOf
  <2>10. Abstract!Perform(r, k)
    BY <1>2, <1>3, <2>1, <2>2, <2>8, <2>9 DEF Abstract!Perform, PerformedOf, OutcomeOf, ReplyOf
  <2>11. QED
    BY <2>10 DEF Abstract!Next
<1>7. QED
  BY <1>5, <1>6

\* Storing the response publishes it: nobody else has, and the work done under the
\* key, if any, was this request's.
LEMMA StoreRefines ==
  ASSUME NEW r \in Requests, PromiseInv, faults = 0, StoreResponse(r)
  PROVE  [Abstract!Next]_(Abstract!vars)
<1> USE ConstantsAssumption DEF At, Goto, PromiseInv, IInv, Typed, TypeOK, StoreResponse
<1>1. /\ pc[r] = "complete"
      /\ key[r] \in Keys
      /\ answer[r] = "none"
      /\ result[r] \in Requests
  BY DEF ClaimPointsKeyed, Keyed, Ownership, NotDoneNotAnswered, ResponsesAreRows
<1>2. rows' = rows /\ key' = key /\ ttl' = ttl /\ epoch' = epoch
  OBVIOUS
<1>3. PICK k \in Keys : k = key[r]
  BY <1>1
<1>4. PICK x \in Requests : x = result[r]
  BY <1>1
<1>5. Owner(r) /\ store[k] = InFlight
  BY <1>1, <1>3 DEF Ownership, LiveHoldersOwn, Live, Holds, HoldingPoints, Keyed, Owner,
                    Recorded, CompleteHasNoOwner
<1>6. PerformedOf' = PerformedOf
  <2>1. \A l \in Keys : Inserters(l)' = Inserters(l)
    BY <1>2 DEF Inserters
  <2>2. QED
    BY <2>1, PerformedStays DEF PerformedOf
<1>7. Performed(k) \in {NoRow, x}
  <2>1. CASE Inserters(k) = {}
    BY <2>1, PerformedInserters
  <2>2. CASE Inserters(k) # {}
    <3>1. PICK a \in Inserters(k) : a = Performed(k)
      BY <2>2, PerformedInserters
    <3>2. a \in rows /\ a \in Requests /\ Keyed(a) /\ key[a] = k /\ epoch[a] = ttl[key[a]]
      BY DEF Inserters, Keyed
    <3>3. Owner(a) /\ result[a] = a
      <4>1. store[key[a]] # Complete(a)
        BY <1>5, <3>2 DEF InFlight, Complete
      <4>2. RowIsRecorded
        BY DEF Recorded
      <4>3. QED
        BY <3>2, <4>1, <4>2 DEF RowIsRecorded
    <3>4. a = r
      BY <1>3, <1>5, <3>2, <3>3 DEF Ownership, OneOwner
    <3>5. QED
      BY <1>4, <3>1, <3>3, <3>4
  <2>3. QED
    BY <2>1, <2>2
<1>8. OutcomeOf[k] = NoRow /\ PerformedOf[k] \in {NoRow, x}
  BY <1>5, <1>7 DEF OutcomeOf, PerformedOf, InFlight
<1>9. OutcomeOf' = [OutcomeOf EXCEPT ![k] = x]
  <2>1. \A l \in Keys : store'[l].response = IF l = k THEN x ELSE store[l].response
    BY <1>1, <1>3, <1>4 DEF Complete
  <2>2. QED
    BY <2>1 DEF OutcomeOf
<1>10. ReplyOf' = [ReplyOf EXCEPT ![r] = x]
  BY <1>1, <1>4 DEF Respond, ReplyOf, Ok
<1>11. Abstract!Publish(r, k, x)
  BY <1>2, <1>3, <1>6, <1>8, <1>9, <1>10 DEF Abstract!Publish, PerformedOf, OutcomeOf, ReplyOf
<1>12. QED
  BY <1>11 DEF Abstract!Next

\* The other steps inside the try block: a request without a key that finds the
\* row of its hash is answered with it, the rest is not seen.
LEMMA PersistRefines ==
  ASSUME NEW r \in Requests, PromiseInv, faults = 0, PersistStep(r)
  PROVE  [Abstract!Next]_(Abstract!vars)
<1> USE ConstantsAssumption DEF At, Goto, PromiseInv, IInv, Typed, TypeOK
<1>1. CASE Create(r)
  BY <1>1, CreateRefines
<1>2. CASE StoreResponse(r)
  BY <1>2, StoreRefines
<1>3. CASE ~Create(r) /\ ~StoreResponse(r)
  <2>1. rows' = rows /\ key' = key /\ ttl' = ttl /\ epoch' = epoch
    BY <1>3 DEF PersistStep, Reject, CheckHit, CheckMiss, CreateP2002, Refetch, Release
  <2>2. answer[r] = "none"
    BY <1>3 DEF PersistStep, Reject, CheckHit, CheckMiss, CreateP2002, Refetch, Release,
                Ownership, NotDoneNotAnswered
  <2>3. \A k \in Keys : Inserters(k)' = Inserters(k)
    BY <2>1 DEF Inserters
  <2>4. OutcomeOf' = OutcomeOf
    <3>1. CASE store' = store
      BY <3>1 DEF OutcomeOf
    <3>2. CASE Release(r)
      <4>1. key[r] \in Keys
        BY <3>2 DEF Release, ClaimPointsKeyed, Keyed
      <4>2. store[key[r]] = InFlight
        BY <3>2, <4>1 DEF Release, Ownership, LiveHoldersOwn, Live, Holds, HoldingPoints, Keyed,
                          Owner, Recorded, CompleteHasNoOwner
      <4>3. \A k \in Keys : store'[k].response = store[k].response
        BY <3>2, <4>1, <4>2 DEF Release, Absent, InFlight
      <4>4. QED
        BY <4>3 DEF OutcomeOf
    <3>3. QED
      BY <1>3, <3>1, <3>2 DEF PersistStep, Reject, CheckHit, CheckMiss, CreateP2002, Refetch
  <2>5. CASE Reject(r) \/ CheckMiss(r) \/ CreateP2002(r) \/ Release(r)
    <3>1. ReplyOf' = ReplyOf
      BY <2>2, <2>5 DEF Reject, Abort, CheckMiss, CreateP2002, Release, Respond, ReplyOf, Ok
    <3>2. QED
      BY <2>1, <2>3, <2>4, <3>1, Stutters
  <2>6. CASE (CheckHit(r) \/ Refetch(r)) /\ Keyed(r)
    <3>1. ReplyOf' = ReplyOf
      BY <2>2, <2>6 DEF CheckHit, Refetch, Succeed, ReplyOf, Ok
    <3>2. QED
      BY <2>1, <2>3, <2>4, <3>1, Stutters
  <2>7. CASE (CheckHit(r) \/ Refetch(r)) /\ ~Keyed(r)
    <3>1. PICK x \in Requests : Respond(r, "existing", x)
      BY <2>7 DEF CheckHit, Refetch, Succeed, Matches
    <3>2. ReplyOf' = [ReplyOf EXCEPT ![r] = x]
      BY <3>1 DEF Respond, ReplyOf, Ok
    <3>3. PerformedOf' = PerformedOf
      BY <2>3, PerformedStays DEF PerformedOf
    <3>4. Abstract!ReplyUnkeyed(r, x)
      BY <2>1, <2>4, <2>7, <3>2, <3>3 DEF Abstract!ReplyUnkeyed, Keyed, PerformedOf, OutcomeOf, ReplyOf
    <3>5. QED
      BY <3>4 DEF Abstract!Next
  <2>8. QED
    BY <1>3, <2>5, <2>6, <2>7 DEF PersistStep
<1>4. QED
  BY <1>1, <1>2, <1>3

\* Every step of submitTransaction is a step of the promise, or a stutter of it,
\* as long as no round trip fails.
LEMMA StepRefines ==
  ASSUME faults = 0, faults' = 0, PromiseInv, [Next]_vars
  PROVE  [Abstract!Next]_(Abstract!vars)
<1> USE ConstantsAssumption DEF At, Goto
<1>1. ASSUME NEW r \in Requests, NEW k \in Keys \cup {NoKey}, NEW h \in Hashes \cup {NoHash},
             Submit(r, k, h)
      PROVE  [Abstract!Next]_(Abstract!vars)
  <2>1. key[r] = NoKey /\ r \notin rows
    BY <1>1 DEF Submit, PromiseInv, IInv, Ownership, IdleIsFresh, Keyed
  <2>2. key' = [key EXCEPT ![r] = k]
    BY <1>1 DEF Submit
  <2>3. OutcomeOf' = OutcomeOf /\ ReplyOf' = ReplyOf
    BY <1>1 DEF Submit, OutcomeOf, ReplyOf
  <2>4. \A l \in Keys : Inserters(l)' = Inserters(l)
    <3>1. \A a \in Requests \ {r} : key'[a] = key[a] /\ epoch'[a] = epoch[a]
      BY <1>1, <2>2 DEF Submit, PromiseInv, IInv, Typed, TypeOK
    <3>2. QED
      BY <1>1, <2>1, <3>1, OutsiderKeepsInserters DEF Submit, PromiseInv, IInv
  <2>5. CASE k = NoKey
    <3>1. key' = key
      BY <2>1, <2>2, <2>5 DEF PromiseInv, IInv, Typed, TypeOK
    <3>2. QED
      BY <2>3, <2>4, <3>1, Stutters
  <2>6. CASE k \in Keys
    <3>1. PerformedOf' = PerformedOf
      BY <2>4, PerformedStays DEF PerformedOf
    <3>2. Abstract!Arrive(r, k)
      BY <2>1, <2>2, <2>3, <3>1 DEF Abstract!Arrive, PerformedOf, OutcomeOf, ReplyOf
    <3>3. QED
      BY <2>6, <3>2 DEF Abstract!Next
  <2>7. QED
    BY <2>5, <2>6
<1>2. ASSUME NEW r \in Requests, ClaimStep(r) PROVE [Abstract!Next]_(Abstract!vars)
  BY <1>2, ClaimRefines
<1>3. ASSUME NEW r \in Requests, PersistStep(r) PROVE [Abstract!Next]_(Abstract!vars)
  BY <1>3, PersistRefines
<1>4. ASSUME NEW r \in Requests, FaultStep(r) PROVE FALSE
  BY <1>4 DEF FaultStep, ClaimFault, ReadFault, LookupFault, CreateFault, CompleteFault,
                    ReleaseFault, Fault
<1>5. ASSUME NEW r \in Requests, Crash(r) PROVE [Abstract!Next]_(Abstract!vars)
  <2>1. UNCHANGED <<store, rows, requestVars, ttl>>
    BY <1>5 DEF Crash
  <2>2. QED
    BY <2>1, Stutters DEF requestVars, Inserters, OutcomeOf, ReplyOf
<1>6. ASSUME NEW k \in Keys, Expire(k) PROVE [Abstract!Next]_(Abstract!vars)
  <2>1. /\ UNCHANGED <<rows, key, epoch, answer, result>>
        /\ store' = [store EXCEPT ![k] = Absent]
        /\ ttl' = [ttl EXCEPT ![k] = @ + 1]
    BY <1>6 DEF Expire, requestVars
  <2>2. \A l \in Keys : l # k => Performed(l)' = Performed(l)
    <3>1. \A l \in Keys : l # k => Inserters(l)' = Inserters(l)
      BY <2>1 DEF Inserters, PromiseInv, IInv, Typed, TypeOK
    <3>2. QED
      BY <3>1, PerformedStays
  <2>3. Performed(k)' = NoRow
    <3>1. Inserters(k)' = {}
      <4>1. \A r \in rows : key[r] = k => epoch[r] < ttl'[k]
        BY <2>1 DEF PromiseInv, IInv, Ownership, EpochBound, Keyed, Typed, TypeOK
      <4>2. epoch \in [Requests -> Nat] /\ ttl' \in [Keys -> Nat] /\ rows \subseteq Requests
        BY <2>1 DEF PromiseInv, IInv, Typed, TypeOK
      <4>3. QED
        BY <2>1, <4>1, <4>2 DEF Inserters
    <3>2. QED
      BY <3>1 DEF Performed, Inserters
  <2>4. PerformedOf' = [PerformedOf EXCEPT ![k] = NoRow]
    BY <2>2, <2>3 DEF PerformedOf
  <2>5. OutcomeOf' = [OutcomeOf EXCEPT ![k] = NoRow]
    BY <2>1 DEF OutcomeOf, Absent, PromiseInv, IInv, Typed, TypeOK
  <2>6. ReplyOf' = ReplyOf
    BY <2>1 DEF ReplyOf
  <2>7. Abstract!Forget(k)
    BY <2>1, <2>4, <2>5, <2>6 DEF Abstract!Forget, PerformedOf, OutcomeOf, ReplyOf
  <2>8. QED
    BY <2>7 DEF Abstract!Next
<1>7. CASE UNCHANGED vars
  BY <1>7, Stutters DEF vars, requestVars, Inserters, OutcomeOf, ReplyOf
<1>8. QED
  BY <1>1, <1>2, <1>3, <1>4, <1>5, <1>6, <1>7 DEF Next

\* In every behaviour in which no round trip fails, submitTransaction implements the
\* promise of IdempotentExecution, for every number of requests, keys, crashes and
\* expiries: "one executes and stores its response, the other replays that stored
\* response without re-executing".
THEOREM ImplementsPromise == Spec /\ [](faults = 0) => ImplementsIdempotentExecution
<1>1. Init => ResponsesAreRows
  BY DEF Init, ResponsesAreRows, Absent
<1>2. IInv /\ ResponsesAreRows /\ [Next]_vars => ResponsesAreRows'
  BY ResponseStep DEF IInv
<1>3. Init => Abstract!Init
  <2> SUFFICES ASSUME Init PROVE Abstract!Init
    OBVIOUS
  <2>1. \A k \in Keys : Performed(k) = NoRow
    BY DEF Init, Performed
  <2>2. QED
    BY <2>1 DEF Init, Abstract!Init, Absent, Ok
<1>4. faults = 0 /\ (faults = 0)' /\ PromiseInv /\ [Next]_vars => [Abstract!Next]_(Abstract!vars)
  BY StepRefines
<1>5. QED
  BY Invariance, <1>1, <1>2, <1>3, <1>4, PTL
     DEF Spec, PromiseInv, ImplementsIdempotentExecution, Abstract!Spec

=============================================================================

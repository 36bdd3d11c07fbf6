-------------------------- MODULE IdempotentExecution --------------------------
(***************************************************************************)
(* What an Idempotency-Key promises the caller of POST /transactions,      *)
(* without Redis, polling, crashes or error paths: within one window of a  *)
(* key the work is performed at most once, one outcome is published, and   *)
(* whoever gets a successful reply gets that outcome.  Refusals (409, 503, *)
(* errors) change nothing here.  SubmitTransaction implements this module. *)
(***************************************************************************)
CONSTANTS Requests, Keys, NoKey, NoRow

VARIABLES
  bound,      \* the key each request carries, NoKey until one is known
  performed,  \* the request that did the work of each key in its present window
  outcome,    \* the outcome published for each key in its present window
  reply       \* the outcome each request was answered with

vars == <<bound, performed, outcome, reply>>

Init ==
  /\ bound = [r \in Requests |-> NoKey]
  /\ performed = [k \in Keys |-> NoRow]
  /\ outcome = [k \in Keys |-> NoRow]
  /\ reply = [r \in Requests |-> NoRow]

Arrive(r, k) ==
  /\ bound[r] = NoKey
  /\ bound' = [bound EXCEPT ![r] = k]
  /\ UNCHANGED <<performed, outcome, reply>>

\* The work of a key is done once in a window.
Perform(r, k) ==
  /\ bound[r] = k
  /\ performed[k] = NoRow
  /\ performed' = [performed EXCEPT ![k] = r]
  /\ UNCHANGED <<bound, outcome, reply>>

\* The outcome of a key is published once in a window, by the request that is
\* answered with it; if the work was done under this key, it is that work's.
Publish(r, k, x) ==
  /\ bound[r] = k
  /\ outcome[k] = NoRow
  /\ performed[k] \in {NoRow, x}
  /\ outcome' = [outcome EXCEPT ![k] = x]
  /\ reply' = [reply EXCEPT ![r] = x]
  /\ UNCHANGED <<bound, performed>>

Replay(r, k) ==
  /\ bound[r] = k
  /\ outcome[k] # NoRow
  /\ reply' = [reply EXCEPT ![r] = outcome[k]]
  /\ UNCHANGED <<bound, performed, outcome>>

\* A request without a key is answered with whatever it did.
ReplyUnkeyed(r, x) ==
  /\ bound[r] = NoKey
  /\ reply' = [reply EXCEPT ![r] = x]
  /\ UNCHANGED <<bound, performed, outcome>>

\* The window of a key ends.
Forget(k) ==
  /\ performed' = [performed EXCEPT ![k] = NoRow]
  /\ outcome' = [outcome EXCEPT ![k] = NoRow]
  /\ UNCHANGED <<bound, reply>>

Next ==
  \/ \E r \in Requests, k \in Keys :
       \/ Arrive(r, k) \/ Perform(r, k) \/ Replay(r, k)
       \/ \E x \in Requests : Publish(r, k, x)
  \/ \E r, x \in Requests : ReplyUnkeyed(r, x)
  \/ \E k \in Keys : Forget(k)

Spec == Init /\ [][Next]_vars

=============================================================================

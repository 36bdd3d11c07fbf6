------------------------------ MODULE MCDraftSync ------------------------------
(***************************************************************************)
(* Model values for TLC.  Two drafts, so that one is being sent while the  *)
(* other waits in the list of the flush, and two invocations.              *)
(***************************************************************************)
EXTENDS DraftSync, TLC

DraftSymmetry == Permutations(Drafts) \cup Permutations(Flows)

=============================================================================

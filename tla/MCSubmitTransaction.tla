------------------------- MODULE MCSubmitTransaction -------------------------
(***************************************************************************)
(* Model values for TLC.  Three requests are enough for a holder, a waiter *)
(* and a third request that claims what the holder released or what        *)
(* expired; one key and one hash beside "none" give every collision.  The  *)
(* requests are interchangeable, so the safety runs use their symmetry.    *)
(***************************************************************************)
EXTENDS SubmitTransaction, TLC

RequestSymmetry == Permutations(Requests) \cup Permutations(Keys)

=============================================================================

--------------------------- MODULE MCPaymentPipeline ---------------------------
(***************************************************************************)
(* Values for TLC.  Payments of 2 and 3 against a limit of 4: each passes  *)
(* alone, together they do not.                                            *)
(***************************************************************************)
EXTENDS PaymentPipeline, TLC

CONSTANTS p1, p2

MCAmount == [p \in Payments |-> IF p = p1 THEN 2 ELSE 3]

=============================================================================

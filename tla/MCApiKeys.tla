------------------------------ MODULE MCApiKeys ------------------------------
(***************************************************************************)
(* One user's keys and requests, for what the revoke endpoint's            *)
(* documentation says of a revoked key.                                    *)
(***************************************************************************)
EXTENDS ApiKeys

=============================================================================

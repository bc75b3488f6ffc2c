------------------------------ MODULE MCGateway ------------------------------
(* A bounded instance of Gateway. *)
EXTENDS Gateway
=============================================================================

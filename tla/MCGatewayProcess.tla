-------------------------- MODULE MCGatewayProcess --------------------------
(***************************************************************************)
(* gpt-5-mini with the timeouts and the backoff of the source, in tenths   *)
(* of a second, and the largest number of attempts whose route stays       *)
(* within the lease.                                                       *)
(***************************************************************************)
EXTENDS GatewayProcess

MCModel == <<"openai", "gpt-5-mini">>
=============================================================================

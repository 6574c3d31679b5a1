----------------------------- MODULE MCPipeline ------------------------------
(***************************************************************************)
(* Two events, two workers and a channel of one: the channel can be full,  *)
(* and the workers can be kept in Enqueue together.  A batch of two leaves *)
(* by size, by the ticker and by Shutdown; two attempts, so that a request *)
(* can fail, fail again and be delivered all the same.                     *)
(***************************************************************************)
EXTENDS Pipeline

=============================================================================

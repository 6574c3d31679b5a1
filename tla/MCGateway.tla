------------------------------ MODULE MCGateway ------------------------------
(***************************************************************************)
(* Instances of Gateway for TLC.  Gateway.cfg: an intercepted request and  *)
(* one from the playground, a kernel map of one entry, so that it can be   *)
(* full, and every fault of Docker, of the kernel and of the controller.   *)
(* PartialInit.cfg and RecycledPid.cfg leave one fault each.               *)
(***************************************************************************)
EXTENDS Gateway

=============================================================================

------------------------- MODULE MCTelemetryEngine -------------------------
(***************************************************************************)
(* Instances of TelemetryEngine for TLC: more events than the channel      *)
(* holds, so that some are dropped, one of them an event that does not     *)
(* marshal, and two workers, so that one can leave while the other still   *)
(* works.                                                                  *)
(***************************************************************************)
EXTENDS TelemetryEngine

=============================================================================

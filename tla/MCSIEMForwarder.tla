--------------------------- MODULE MCSIEMForwarder ---------------------------
(***************************************************************************)
(* An instance of SIEMForwarder for TLC: batches of two, two attempts, two *)
(* workers that may outlive the engine's drain.  With four events both     *)
(* workers can be flushing a full batch while the ticker or Shutdown looks *)
(* at the next one, and an event can arrive after Shutdown has taken what  *)
(* was left.                                                               *)
(***************************************************************************)
EXTENDS SIEMForwarder

=============================================================================

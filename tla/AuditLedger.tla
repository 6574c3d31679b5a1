----------------------------- MODULE AuditLedger -----------------------------
(***************************************************************************)
(* What the telemetry pipeline promises the rest of the gateway: a ledger  *)
(* of audit events.  An event is accepted or refused for good; an accepted *)
(* one is recorded, once, in the local log, and delivered (received by the *)
(* collector or kept in the dead-letter file).  Closing the ledger cleanly *)
(* first seals the log, with every event that was due in it, and then      *)
(* delivers all that is recorded; giving up closes it at any point.        *)
(*                                                                         *)
(* Nothing here speaks of channels, workers, batches, retries or files:    *)
(* the Pipeline module shows that the code implements it.                  *)
(***************************************************************************)
CONSTANTS
    Events,
    Unrecordable  \* events that have no line to be written

VARIABLES
    accepted, refused,    \* the answer each event got
    due,                  \* accepted before closing was announced
    recorded, delivered,
    phase                 \* "open", "closing", "sealed", "closed" or "abandoned"

ledger == <<accepted, refused, due, recorded, delivered, phase>>

Init ==
    /\ accepted = {} /\ refused = {} /\ due = {}
    /\ recorded = {} /\ delivered = {}
    /\ phase = "open"

Accept(e) ==
    /\ e \notin accepted \cup refused
    /\ accepted' = accepted \cup {e}
    /\ due' = IF phase = "open" THEN due \cup {e} ELSE due
    /\ UNCHANGED <<refused, recorded, delivered, phase>>

Refuse(e) ==
    /\ e \notin accepted \cup refused
    /\ refused' = refused \cup {e}
    /\ UNCHANGED <<accepted, due, recorded, delivered, phase>>

Record(e) ==
    /\ phase \in {"open", "closing"}
    /\ e \in accepted \ (recorded \cup Unrecordable)
    /\ recorded' = recorded \cup {e}
    /\ UNCHANGED <<accepted, refused, due, delivered, phase>>

\* A batch arrives.  Until the ledger is abandoned, only recorded events do; once
\* it is closed, nothing does.
Deliver ==
    /\ phase # "closed"
    /\ \E S \in SUBSET (accepted \ Unrecordable) :
          /\ phase # "abandoned" => S \subseteq recorded
          /\ delivered' = delivered \cup S
    /\ UNCHANGED <<accepted, refused, due, recorded, phase>>

BeginClose ==
    /\ phase = "open"
    /\ phase' = "closing"
    /\ UNCHANGED <<accepted, refused, due, recorded, delivered>>

Seal ==
    /\ phase = "closing"
    /\ due \ Unrecordable \subseteq recorded
    /\ phase' = "sealed"
    /\ UNCHANGED <<accepted, refused, due, recorded, delivered>>

Close ==
    /\ phase = "sealed"
    /\ recorded \subseteq delivered
    /\ phase' = "closed"
    /\ UNCHANGED <<accepted, refused, due, recorded, delivered>>

Abandon ==
    /\ phase = "closing"
    /\ phase' = "abandoned"
    /\ UNCHANGED <<accepted, refused, due, recorded, delivered>>

Next ==
    \/ \E e \in Events : Accept(e) \/ Refuse(e) \/ Record(e)
    \/ Deliver \/ BeginClose \/ Seal \/ Close \/ Abandon

Spec == Init /\ [][Next]_ledger

=============================================================================

----------------------------- MODULE MCIntegrity -----------------------------
(***************************************************************************)
(* An instance of Integrity for TLC: one ordinary breach, two tamper       *)
(* attempts and one call that passes; rings and the event channel hold one *)
(* entry each, so that they can be full; the monitor and the stream can    *)
(* reach the kill switch together.                                         *)
(***************************************************************************)
EXTENDS Integrity

\* Call 3 is seen only with all five tracepoints, call 2 with three, 1 and 4 with two.
MCCalls ==
    {[id |-> 1, call |-> "connect", arg |-> "other_ip"],
     [id |-> 2, call |-> "ptrace", arg |-> "attach"],
     [id |-> 3, call |-> "execve", arg |-> "bin_sh"],
     [id |-> 4, call |-> "openat", arg |-> "tmp"]}

=============================================================================

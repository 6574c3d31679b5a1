------------------------------ MODULE Integrity ------------------------------
(***************************************************************************)
(* How tampering ends the process.  eBPF probes (firewall.bpf.c,           *)
(* antitamper.bpf.c) judge the system calls of locked processes and put    *)
(* breaches into two ring buffers; StreamKernelAlerts and                  *)
(* StreamAntiTamperAlerts (controller.go) count them, and the second one   *)
(* calls the kill switch.  So does the MemoryIntegrityMonitor              *)
(* (memcheck.go) when the executable's hash changes.  main.go starts them. *)
(*                                                                         *)
(* The kernel is external.  A system call is abstracted to the class of    *)
(* arguments the probes tell apart; calls of processes that are not in     *)
(* locked_sandboxes are ignored by every probe and left out.  main ends    *)
(* only through log.Fatalf, so its deferred calls never run.               *)
(***************************************************************************)
EXTENDS KillSwitch

CONSTANTS
    Calls,        \* system calls of locked processes: records [id, call, arg]
    RingSize,     \* how many records a ring buffer holds
    TamperEvent   \* the event NewMemoryTamperEvent makes

ASSUME IntegrityAssumption ==
    /\ Callers = {"tamper", "checker"}
    /\ IsFiniteSet(Calls)
    /\ \A c \in Calls :
          /\ c.call \in {"dns", "connect", "openat", "ptrace", "mprotect", "execve"}
          /\ c.call = "openat" => c.arg \in {"contains_etc", "contains_dotdot",
                 "contains_key", "app", "tmp", "dev_null", "relative", "other_absolute"}
    /\ RingSize \in Nat \ {0}
    /\ TamperEvent \in Events \ (Malformed \cup {KillEvent})

Streams == {"kernel", "tamper"}

VARIABLES
    boot,      \* main: "wire", "attach", "monitor", "up"
    callback,  \* killSwitchCb is set
    probes,    \* how many tracepoints are attached, in the order of the code
    made,      \* the breaches so far
    ring,      \* the two ring buffers
    lost,      \* breaches that found their ring full
    stream,    \* where each stream stands
    counts,    \* the Blocked... counters, by breach type
    changed,   \* the executable no longer has the baseline hash
    checker,   \* where the monitor's goroutine stands
    tampers    \* m.tamperDetected

kernel == <<made, ring, lost>>
streams == <<stream, counts>>
monitor == <<changed, checker, tampers>>
start == <<boot, callback, probes>>
integrityVars == <<allVars, start, kernel, streams, monitor>>

IntegrityInit ==
    /\ KillInit
    /\ boot = "wire" /\ callback = FALSE /\ probes = 0
    /\ made = {} /\ ring = [s \in Streams |-> << >>] /\ lost = 0
    /\ stream = [s \in Streams |-> "off"]
    /\ counts = [k \in 1..5 |-> 0]
    /\ changed = FALSE /\ checker = "off" /\ tampers = 0

-----------------------------------------------------------------------------
(***************************************************************************)
(* The probes' verdicts: 0 passes.                                         *)
(***************************************************************************)
DnsVerdict(domain) == IF domain = "whitelisted" THEN 0 ELSE 1

ConnectVerdict(addr) == IF addr \in {"not_inet", "localhost", "allowed_ip"} THEN 0 ELSE 1

OpenatVerdict(path) ==
    CASE path \in {"contains_etc", "contains_dotdot", "contains_key"} -> 2
      [] path \in {"app", "tmp", "dev_null", "relative"}               -> 0
      [] path = "other_absolute"                                       -> 2

PtraceVerdict(request) == IF request = "attach" THEN 3 ELSE 0

MprotectVerdict(prot) == IF {"write", "exec"} \subseteq prot THEN 4 ELSE 0

ExecveVerdict(file) == IF file \in {"bin_sh", "bin_bash", "usr_bin_bash"} THEN 5 ELSE 0

BreachType(c) ==
    CASE c.call = "dns"      -> DnsVerdict(c.arg)
      [] c.call = "connect"  -> ConnectVerdict(c.arg)
      [] c.call = "openat"   -> OpenatVerdict(c.arg)
      [] c.call = "ptrace"   -> PtraceVerdict(c.arg)
      [] c.call = "mprotect" -> MprotectVerdict(c.arg)
      [] c.call = "execve"   -> ExecveVerdict(c.arg)

Breaches == {c \in Calls : BreachType(c) # 0}

RingOf(c) == IF BreachType(c) \in 1..2 THEN "kernel" ELSE "tamper"

\* The tracepoint that watches the call is attached.
Watched(c) ==
    probes >= CASE c.call = "ptrace"   -> 3
                [] c.call = "mprotect" -> 4
                [] c.call = "execve"   -> 5
                [] OTHER               -> 2

\* Mutant: the record overwrites an older one when the ring is full.
BreachOverwrites(c) ==
    /\ boot = "up" /\ Watched(c) /\ c \in Breaches \ made
    /\ made' = made \cup {c}
    /\ ring' = [ring EXCEPT ![RingOf(c)] =
                   IF Len(@) < RingSize THEN Append(@, c) ELSE Append(Tail(@), c)]
    /\ UNCHANGED <<allVars, start, lost, streams, monitor>>

\* A locked process makes a call a probe objects to.  The record goes into the ring
\* if there is room; emit_and_kill and bpf_ringbuf_output drop it otherwise.
Breach(c) ==
    /\ boot = "up" /\ Watched(c) /\ c \in Breaches \ made
    /\ made' = made \cup {c}
    /\ \/ /\ Len(ring[RingOf(c)]) < RingSize
          /\ ring' = [ring EXCEPT ![RingOf(c)] = Append(@, c)]
          /\ UNCHANGED lost
       \/ /\ Len(ring[RingOf(c)]) >= RingSize
          /\ lost' = lost + 1
          /\ UNCHANGED ring
    /\ UNCHANGED <<allVars, start, streams, monitor>>

-----------------------------------------------------------------------------
(***************************************************************************)
(* main: set the callback, attach the probes (any number of tracepoints,   *)
(* in order, before one fails) and start the streams whose probes are all  *)
(* there, start the monitor if the baseline can be computed.               *)
(***************************************************************************)

\* Mutant: the callback is not registered.
SetKillSwitchCallbackNot ==
    /\ boot = "wire" /\ boot' = "attach"
    /\ UNCHANGED <<allVars, callback, probes, kernel, streams, monitor>>

SetKillSwitchCallback ==
    /\ boot = "wire" /\ boot' = "attach"
    /\ callback' = TRUE
    /\ UNCHANGED <<allVars, probes, kernel, streams, monitor>>

AttachProbes ==
    /\ boot = "attach" /\ boot' = "monitor"
    /\ probes' \in 0..5
    /\ stream' = [s \in Streams |->
          IF probes' >= (IF s = "kernel" THEN 2 ELSE 5) THEN "read" ELSE "off"]
    /\ UNCHANGED <<allVars, callback, kernel, counts, monitor>>

StartMonitor ==
    /\ boot = "monitor" /\ boot' = "up"
    /\ checker' \in {"off", "wait"}
    /\ UNCHANGED <<allVars, callback, probes, kernel, streams, changed, tampers>>

-----------------------------------------------------------------------------
(***************************************************************************)
(* The streams: read a record, count it under its type; the anti-tamper    *)
(* stream then calls the kill switch.  A read error is retried.            *)
(***************************************************************************)
StreamAlert(s) ==
    /\ stream[s] = "read" /\ ring[s] # << >>
    /\ ring' = [ring EXCEPT ![s] = Tail(@)]
    /\ counts' = [counts EXCEPT ![BreachType(Head(ring[s]))] = @ + 1]
    /\ stream' = [stream EXCEPT ![s] = IF s = "tamper" THEN "invoke" ELSE "read"]
    /\ UNCHANGED <<allVars, start, made, lost, monitor>>

\* invokeKillSwitch: Trigger does not return; without a callback the stream goes on.
InvokeKillSwitch ==
    /\ stream["tamper"] = "invoke"
    /\ IF callback
         THEN Trigger("tamper") /\ stream' = [stream EXCEPT !["tamper"] = "triggered"]
         ELSE UNCHANGED allVars /\ stream' = [stream EXCEPT !["tamper"] = "read"]
    /\ UNCHANGED <<start, kernel, counts, monitor>>

StreamStep == (\E s \in Streams : StreamAlert(s)) \/ InvokeKillSwitch

-----------------------------------------------------------------------------
(***************************************************************************)
(* The monitor: each tick hashes the executable, which may fail.  On a     *)
(* mismatch it counts, submits the tamper event and calls the kill switch. *)
(***************************************************************************)
ExecutableChanges ==
    /\ boot = "up" /\ ~changed /\ changed' = TRUE
    /\ UNCHANGED <<allVars, start, kernel, streams, checker, tampers>>

Tick ==
    /\ checker = "wait" /\ checker' = "hash"
    /\ UNCHANGED <<allVars, start, kernel, streams, changed, tampers>>

HashFailsOrMatches ==
    /\ checker = "hash" /\ checker' = "wait"
    /\ UNCHANGED <<allVars, start, kernel, streams, changed, tampers>>

HashDiffers ==
    /\ checker = "hash" /\ changed
    /\ tampers' = tampers + 1
    /\ checker' = "submit"
    /\ UNCHANGED <<allVars, start, kernel, streams, changed>>

SubmitTamperEvent ==
    /\ checker = "submit"
    /\ CountSubmitted(TamperEvent) \/ Offer(TamperEvent)
    /\ UNCHANGED <<killVars, start, kernel, streams, monitor>>

TriggerFromChecker ==
    /\ checker = "submit" /\ sub[TamperEvent] \in {"queued", "dropped"}
    /\ Trigger("checker")
    /\ checker' = "triggered"
    /\ UNCHANGED <<start, kernel, streams, changed, tampers>>

CheckerStep == Tick \/ HashFailsOrMatches \/ HashDiffers \/ SubmitTamperEvent
               \/ TriggerFromChecker

-----------------------------------------------------------------------------
\* The rest of the process: handlers submit events, the engine's pool works.
Others ==
    /\ \/ boot = "up" /\ \E e \in Events \ {KillEvent, TamperEvent} :
                             CountSubmitted(e) \/ Offer(e)
       \/ \E w \in Workers : WorkerStep(w)
    /\ UNCHANGED <<killVars, start, kernel, streams, monitor>>

KillStep(c) == TriggerStep(c) /\ UNCHANGED <<start, kernel, streams, monitor>>

MainStep == SetKillSwitchCallback \/ AttachProbes \/ StartMonitor

IntegrityNext ==
    /\ ~exited
    /\ \/ MainStep \/ StreamStep \/ CheckerStep
       \/ \E c \in Callers : KillStep(c)
       \/ ExecutableChanges \/ \E c \in Calls : Breach(c)
       \/ Others

(***************************************************************************)
(* The goroutines of the process are scheduled and the ticker ticks.  A    *)
(* hash may fail again and again but not for ever.  A worker may hang in a *)
(* SIEM request for as long as it likes, and nobody has to make a call.    *)
(***************************************************************************)
IntegritySpec ==
    /\ IntegrityInit
    /\ [][IntegrityNext]_integrityVars
    /\ WF_integrityVars(~exited /\ StreamStep)
    /\ WF_integrityVars(~exited /\ CheckerStep)
    /\ SF_integrityVars(~exited /\ HashDiffers)
    /\ \A c \in Callers : WF_integrityVars(~exited /\ KillStep(c))

-----------------------------------------------------------------------------
(***************************************************************************)
(* Properties                                                              *)
(***************************************************************************)

\* Every variable of the engine, the kill switch, the streams (controller.go:48-76)
\* and the monitor (memcheck.go:45-58) has its type.
IntegrityTypeOK ==
    /\ KillTypeOK
    /\ boot \in {"wire", "attach", "monitor", "up"}
    /\ callback \in BOOLEAN /\ probes \in 0..5 /\ changed \in BOOLEAN
    /\ made \subseteq Calls /\ lost \in Nat /\ tampers \in Nat
    /\ ring \in [Streams -> Seq(Breaches)] /\ \A s \in Streams : Len(ring[s]) <= RingSize
    /\ stream \in [Streams -> {"off", "read", "invoke", "triggered"}]
    /\ counts \in [1..5 -> Nat]
    /\ checker \in {"off", "wait", "hash", "submit", "triggered"}

Total == counts[1] + counts[2] + counts[3] + counts[4] + counts[5]

\* How many records wait in the rings.
Waiting(r) == Len(r["kernel"]) + Len(r["tamper"])

\* Every breach a probe saw is counted once, waits in a ring, or was dropped by the
\* kernel because the ring was full
\* (antitamper.bpf.c:91-103, firewall.bpf.c:222-301, controller.go:282-310, 414-459).
BreachesAccounted ==
    Cardinality(made) = Total + lost + Waiting(ring)

\* A detection ends the process, even if every worker hangs: a tamper record that a
\* running stream finds in its ring (controller.go:414-472), and a changed executable
\* that a running monitor checks (memcheck.go:129-170).
DetectionEndsProcess ==
    /\ (stream["tamper"] # "off" /\ ring["tamper"] # << >>) ~> exited
    /\ (checker # "off" /\ changed) ~> exited

=============================================================================

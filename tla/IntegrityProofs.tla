--------------------------- MODULE IntegrityProofs ---------------------------
(***************************************************************************)
(* For any number of events, workers, system calls and any channel size:   *)
(* in the whole of Integrity, one goroutine gets through Trigger and the   *)
(* process ends only with the finding written, or with the reason why not. *)
(***************************************************************************)
EXTENDS Integrity, TelemetryEngineProofs

(***************************************************************************)
(* The inductive invariant adds to the engine's DrainInv what binds the    *)
(* kill switch to it: its body is entered only with once taken; Shutdown   *)
(* is called after the finding's Submit has returned, so a finding on the  *)
(* channel was enqueued before stopCh was closed; and a finding that was   *)
(* not enqueued was counted as a drop.                                     *)
(***************************************************************************)
SubmitReturned == sub[KillEvent] \in {"queued", "dropped"}

KillInv ==
    /\ kpc \in [Callers -> {"idle", "once", "submit", "shutdown"}]
    /\ onceBusy \in BOOLEAN /\ exited \in BOOLEAN
    /\ FiresOnce
    /\ \A c \in Callers : kpc[c] \in {"submit", "shutdown"} => onceBusy
    /\ \A c \in Callers : kpc[c] = "shutdown" => SubmitReturned
    /\ stopCh \/ spc = "running"
    /\ sub[KillEvent] = "queued" => KillEvent \in early
    /\ sub[KillEvent] = "dropped" => dropped > 0
    /\ exited => spc = "done"

-----------------------------------------------------------------------------

\* Before main wires the callback (main.go:433-440) nobody has called Trigger.
LEMMA KillInitEstablishes == IntegrityInit => TypeOK /\ DrainInv /\ KillInv
<1> SUFFICES ASSUME IntegrityInit PROVE TypeOK /\ DrainInv /\ KillInv
  OBVIOUS
<1>1. Init /\ KillInit
  BY DEF IntegrityInit, KillInit
<1>2. onceBusy \in BOOLEAN /\ exited \in BOOLEAN
  BY <1>1, Zenon DEF KillInit
<1>3. sub[KillEvent] = "new" /\ stopCh = FALSE /\ spc = "running" /\ exited = FALSE
  BY <1>1, KillAssumption DEF Init, KillInit
<1>4. /\ kpc \in [Callers -> {"idle", "once", "submit", "shutdown"}]
      /\ \A c \in Callers : kpc[c] = "idle"
  BY <1>1 DEF KillInit
<1>5. FiresOnce
  BY <1>3, <1>4 DEF FiresOnce
<1>6. KillInv
  BY <1>2, <1>3, <1>4, <1>5 DEF KillInv
<1> QED
  BY <1>1, <1>6, TypeOKInit, DrainInit

(***************************************************************************)
(* How the rest of the process, which never submits the finding and never  *)
(* calls Shutdown, gets past the invariant.                                *)
(***************************************************************************)

\* A step that leaves Trigger alone, and of the engine what KillInv speaks of.
LEMMA KillFrame ==
  ASSUME KillInv, ~exited,
         UNCHANGED <<kpc, onceBusy, exited, stopCh, spc>>,
         sub'[KillEvent] = sub[KillEvent],
         KillEvent \in early => KillEvent \in early',
         dropped > 0 => dropped' > 0
  PROVE  KillInv'
  BY DEF KillInv, FiresOnce, SubmitReturned

\* Submit of an event (engine.go:105-115) other than the finding.
LEMMA SubmitOther ==
  ASSUME TypeOK, NEW e \in Events, e # KillEvent, CountSubmitted(e) \/ Offer(e)
  PROVE  /\ UNCHANGED <<stopCh, spc>> /\ sub'[KillEvent] = sub[KillEvent]
         /\ KillEvent \in early => KillEvent \in early'
         /\ dropped > 0 => dropped' > 0
<1>1. CASE CountSubmitted(e)
  BY <1>1, KillAssumption DEF CountSubmitted, TypeOK
<1>2. CASE Enqueue(e)
  BY <1>2, KillAssumption DEF Enqueue, TypeOK, counters
<1>3. CASE QueueFull(e)
  BY <1>3, KillAssumption DEF QueueFull, TypeOK, counters
<1>4. CASE CountDropped(e)
  BY <1>4, KillAssumption DEF CountDropped, TypeOK
<1> QED
  BY <1>1, <1>2, <1>3, <1>4 DEF Offer

\* A worker of the pool (engine.go:170-220).
LEMMA WorkerOther ==
  ASSUME NEW w \in Workers, WorkerStep(w)
  PROVE  UNCHANGED <<stopCh, spc, sub, early, dropped>>
  BY DEF WorkerStep, Receive, SeeStop, Leave, CountProcessed, WriteLog, Forward, counters

\* Trigger is called (killswitch.go:66-69): the caller has yet to enter once.
LEMMA TriggerPreserves ==
  ASSUME KillInv, ~exited, NEW c \in Callers, Trigger(c)
  PROVE  KillInv'
<1>1. /\ kpc[c] = "idle" /\ kpc' = [kpc EXCEPT ![c] = "once"]
      /\ UNCHANGED <<onceBusy, exited, stopCh, spc, sub, early, dropped>>
  BY DEF Trigger, Move, vars, counters
<1>2. /\ kpc' \in [Callers -> {"idle", "once", "submit", "shutdown"}]
      /\ \A d \in Callers : kpc'[d] \in {"submit", "shutdown"} => kpc'[d] = kpc[d]
  BY <1>1 DEF KillInv
<1>3. FiresOnce'
  BY <1>1, <1>2 DEF KillInv, FiresOnce
<1> QED
  BY <1>1, <1>2, <1>3 DEF KillInv, SubmitReturned

(***************************************************************************)
(* The steps of the body of Trigger (killswitch.go:70-98).                 *)
(***************************************************************************)

\* once is taken by a caller that finds it free, so no other is in the body.
LEMMA OnceDoPreserves ==
  ASSUME KillInv, ~exited, NEW c \in Callers, OnceDo(c)
  PROVE  KillInv'
<1>1. /\ ~onceBusy /\ onceBusy' = TRUE /\ kpc' = [kpc EXCEPT ![c] = "submit"]
      /\ UNCHANGED <<exited, stopCh, spc, sub, early, dropped>>
  BY DEF OnceDo, Move, vars, counters
<1>2. \A d \in Callers : kpc[d] \notin {"submit", "shutdown"}
  BY <1>1 DEF KillInv
<1>3. /\ kpc' \in [Callers -> {"idle", "once", "submit", "shutdown"}]
      /\ kpc'[c] = "submit"
      /\ \A d \in Callers : d # c => kpc'[d] = kpc[d]
  BY <1>1 DEF KillInv
<1>4. FiresOnce'
  BY <1>1, <1>2, <1>3 DEF KillInv, FiresOnce
<1>5. onceBusy' \in BOOLEAN
  BY <1>1, Zenon
<1> QED
  BY <1>1, <1>2, <1>3, <1>4, <1>5 DEF KillInv, SubmitReturned

\* The finding is submitted while the engine runs: after Shutdown has begun its Submit
\* has returned.
LEMMA SubmitKillPreserves ==
  ASSUME TypeOK, KillInv, ~exited, NEW c \in Callers, SubmitKillEvent(c)
  PROVE  KillInv'
<1>1. /\ UNCHANGED <<kpc, onceBusy, exited, stopCh, spc>>
      /\ CountSubmitted(KillEvent) \/ Offer(KillEvent)
  BY DEF SubmitKillEvent, killVars, CountSubmitted, Offer, Enqueue, QueueFull,
         CountDropped
<1>2. ~SubmitReturned
  BY <1>1 DEF CountSubmitted, Offer, Enqueue, QueueFull, CountDropped, SubmitReturned
<1>3. ~stopCh /\ \A d \in Callers : kpc[d] # "shutdown"
  BY <1>2 DEF KillInv, FiresOnce, SubmitReturned
<1>4. FiresOnce'
  BY <1>1, <1>3 DEF KillInv, FiresOnce
<1>5. sub'[KillEvent] = "queued" => KillEvent \in early'
  BY <1>1, <1>3, KillAssumption
  DEF CountSubmitted, Offer, Enqueue, QueueFull, CountDropped, TypeOK
<1>6. sub'[KillEvent] = "dropped" => dropped' > 0
  BY <1>1, KillAssumption
  DEF CountSubmitted, Offer, Enqueue, QueueFull, CountDropped, TypeOK
<1> QED
  BY <1>1, <1>3, <1>4, <1>5, <1>6 DEF KillInv, SubmitReturned

\* Shutdown is reached with the finding's Submit behind it.
LEMMA SubmitReturnsPreserves ==
  ASSUME KillInv, ~exited, NEW c \in Callers, SubmitReturns(c)
  PROVE  KillInv'
<1>1. /\ kpc[c] = "submit" /\ SubmitReturned /\ kpc' = [kpc EXCEPT ![c] = "shutdown"]
      /\ UNCHANGED <<onceBusy, exited, stopCh, spc, sub, early, dropped>>
  BY DEF SubmitReturns, Move, vars, counters, SubmitReturned
<1>2. /\ kpc' \in [Callers -> {"idle", "once", "submit", "shutdown"}]
      /\ \A d \in Callers : kpc'[d] \in {"submit", "shutdown"}
                               => kpc[d] \in {"submit", "shutdown"}
  BY <1>1 DEF KillInv
<1>3. FiresOnce'
  BY <1>1, <1>2 DEF KillInv, FiresOnce
<1> QED
  BY <1>1, <1>2, <1>3 DEF KillInv, SubmitReturned

\* Only the kill switch closes stopCh (killswitch.go:92), and only then.
LEMMA ShutdownEnginePreserves ==
  ASSUME KillInv, ~exited, NEW c \in Callers, ShutdownEngine(c)
  PROVE  KillInv'
<1>1. /\ kpc[c] = "shutdown"
      /\ CloseStop \/ ShutdownStep
      /\ UNCHANGED <<kpc, onceBusy, exited, sub, early, dropped>>
  BY DEF ShutdownEngine, killVars, CloseStop, ShutdownStep, Drained, GraceExceeded,
         CloseLog, ShutdownForwarder, counters
<1>2. SubmitReturned
  BY <1>1 DEF KillInv
<1>3. stopCh'
  BY <1>1 DEF KillInv, CloseStop, ShutdownStep, Drained, GraceExceeded, CloseLog,
              ShutdownForwarder
<1>4. FiresOnce'
  BY <1>1, <1>2 DEF KillInv, FiresOnce, SubmitReturned
<1> QED
  BY <1>1, <1>3, <1>4 DEF KillInv, SubmitReturned

\* os.Exit (killswitch.go:98) comes after Shutdown has returned.
LEMMA ExitPreserves ==
  ASSUME KillInv, NEW c \in Callers, Exit(c)
  PROVE  KillInv'
<1>1. /\ spc = "done" /\ exited' = TRUE
      /\ UNCHANGED <<kpc, onceBusy, stopCh, spc, sub, early, dropped>>
  BY DEF Exit, vars, counters
<1>2. exited' \in BOOLEAN
  BY <1>1, Zenon
<1> QED
  BY <1>1, <1>2 DEF KillInv, FiresOnce, SubmitReturned

-----------------------------------------------------------------------------

\* Whatever the process does, the engine makes one of its own steps or none
\* (killswitch.go:89-92, engine.go:105-157).
LEMMA EngineSteps == [IntegrityNext]_integrityVars => [Next]_vars
<1>1. CASE UNCHANGED integrityVars
  BY <1>1 DEF integrityVars, allVars
<1>2. CASE MainStep
  BY <1>2 DEF MainStep, SetKillSwitchCallback, AttachProbes, StartMonitor, allVars
<1>3. CASE StreamStep
  BY <1>3 DEF StreamStep, StreamAlert, InvokeKillSwitch, Trigger, allVars
<1>4. CASE CheckerStep
  <2>1. TamperEvent \in Events
    BY IntegrityAssumption
  <2> QED
    BY <1>4, <2>1 DEF CheckerStep, Tick, HashFailsOrMatches, HashDiffers,
              SubmitTamperEvent, TriggerFromChecker, Trigger, allVars, Next
<1>5. ASSUME NEW c \in Callers, KillStep(c) PROVE [Next]_vars
  BY <1>5, KillAssumption
  DEF KillStep, TriggerStep, OnceDo, SubmitKillEvent, SubmitReturns, ShutdownEngine,
      Exit, Next
<1>6. CASE ExecutableChanges \/ \E c \in Calls : Breach(c)
  BY <1>6 DEF ExecutableChanges, Breach, allVars
<1>7. CASE Others
  BY <1>7 DEF Others, Next
<1> QED
  BY <1>1, <1>2, <1>3, <1>4, <1>5, <1>6, <1>7 DEF IntegrityNext

\* Every step of the process keeps the invariant.
LEMMA IntegrityNextPreserves ==
  ASSUME TypeOK, KillInv, [IntegrityNext]_integrityVars
  PROVE  KillInv'
<1>1. ASSUME UNCHANGED allVars PROVE KillInv'
  BY <1>1 DEF allVars, killVars, vars, counters, KillInv, FiresOnce, SubmitReturned
<1>2. CASE UNCHANGED integrityVars
  BY <1>1, <1>2 DEF integrityVars
<1> SUFFICES ASSUME ~exited, IntegrityNext PROVE KillInv'
  BY <1>2 DEF IntegrityNext
<1>3. CASE MainStep
  BY <1>1, <1>3 DEF MainStep, SetKillSwitchCallback, AttachProbes, StartMonitor
<1>4. CASE StreamStep
  <2>1. "tamper" \in Callers
    BY IntegrityAssumption
  <2> QED
    BY <1>1, <1>4, <2>1, TriggerPreserves DEF StreamStep, StreamAlert, InvokeKillSwitch
<1>5. CASE CheckerStep
  <2>1. CASE Tick \/ HashFailsOrMatches \/ HashDiffers
    BY <1>1, <2>1 DEF Tick, HashFailsOrMatches, HashDiffers
  <2>2. CASE SubmitTamperEvent
    <3>1. /\ CountSubmitted(TamperEvent) \/ Offer(TamperEvent)
          /\ UNCHANGED <<kpc, onceBusy, exited>>
      BY <2>2 DEF SubmitTamperEvent, killVars
    <3>2. TamperEvent \in Events /\ TamperEvent # KillEvent
      BY IntegrityAssumption
    <3> QED
      BY <3>1, <3>2, SubmitOther, KillFrame
  <2>3. CASE TriggerFromChecker
    BY <2>3, IntegrityAssumption, TriggerPreserves DEF TriggerFromChecker
  <2> QED
    BY <1>5, <2>1, <2>2, <2>3 DEF CheckerStep
<1>6. CASE \E c \in Callers : KillStep(c)
  BY <1>6, OnceDoPreserves, SubmitKillPreserves, SubmitReturnsPreserves,
     ShutdownEnginePreserves, ExitPreserves DEF KillStep, TriggerStep
<1>7. CASE ExecutableChanges \/ \E c \in Calls : Breach(c)
  BY <1>1, <1>7 DEF ExecutableChanges, Breach
<1>8. CASE Others
  <2>1. UNCHANGED <<kpc, onceBusy, exited>>
    BY <1>8 DEF Others, killVars
  <2>2. CASE \E e \in Events \ {KillEvent, TamperEvent} : CountSubmitted(e) \/ Offer(e)
    BY <2>1, <2>2, SubmitOther, KillFrame
  <2>3. CASE \E w \in Workers : WorkerStep(w)
    BY <2>1, <2>3, WorkerOther, KillFrame
  <2> QED
    BY <1>8, <2>2, <2>3 DEF Others
<1> QED
  BY <1>3, <1>4, <1>5, <1>6, <1>7, <1>8 DEF IntegrityNext

-----------------------------------------------------------------------------

\* The invariants of the engine and of the kill switch hold together (killswitch.go:66-99,
\* engine.go:105-220).
LEMMA KillInvariance == IntegritySpec => [](TypeOK /\ DrainInv /\ KillInv)
<1>1. TypeOK /\ DrainInv /\ KillInv /\ [IntegrityNext]_integrityVars
        => (TypeOK /\ DrainInv /\ KillInv)'
  BY EngineSteps, TypeOKNext, DrainNext, IntegrityNextPreserves
<1> QED
  BY <1>1, KillInitEstablishes, PTL DEF IntegritySpec

\* Only one caller of Trigger fires, and never stops the pool before its finding's
\* Submit has returned (killswitch.go:66-92).
THEOREM OneTriggerFires == IntegritySpec => []FiresOnce
<1>1. KillInv => FiresOnce
  BY DEF KillInv
<1> QED
  BY <1>1, KillInvariance, PTL

\* With a log file, the process ends only after the finding was written, or dropped
\* from a full channel, or after the grace period (killswitch.go:88-98).
THEOREM ExitExplained ==
  ASSUME LocalLog
  PROVE  IntegritySpec => []FindingOutOrExcused
<1>1. TypeOK /\ DrainInv /\ KillInv => FindingOutOrExcused
  <2> SUFFICES ASSUME TypeOK, DrainInv, KillInv, exited, outcome # "grace",
                      sub[KillEvent] # "dropped"
               PROVE  Contains(log, KillEvent)
    BY DEF FindingOutOrExcused, KillInv
  <2>1. outcome = "drained" /\ PoolDone
    BY DEF DrainInv, KillInv, TypeOK
  <2>2. KillEvent \in early \ Malformed
    BY KillAssumption DEF KillInv, FiresOnce
  <2>3. \A w \in Workers : wpc[w] = "exited"
    BY <2>1 DEF PoolDone
  <2>4. ~Contains(queue, KillEvent) /\ ~Unwritten(KillEvent)
    BY <2>2, <2>3, EngineAssumption DEF DrainInv, Unwritten
  <2> QED
    BY <2>2, <2>4 DEF DrainInv
<1> QED
  BY <1>1, KillInvariance, PTL

-----------------------------------------------------------------------------
(***************************************************************************)
(* From a probe's verdict to the kill switch.  The probes know five kinds  *)
(* of breaches, and each breach of the process is in one place: counted by *)
(* its stream, in a ring, or lost by the kernel.                           *)
(***************************************************************************)
AlertInv ==
    /\ boot \in {"wire", "attach", "monitor", "up"}
    /\ callback \in BOOLEAN /\ probes \in 0..5 /\ changed \in BOOLEAN
    /\ made \subseteq Calls /\ lost \in Nat /\ tampers \in Nat
    /\ ring \in [Streams -> Seq(Breaches)] /\ \A s \in Streams : Len(ring[s]) <= RingSize
    /\ stream \in [Streams -> {"off", "read", "invoke", "triggered"}]
    /\ counts \in [1..5 -> Nat]
    /\ checker \in {"off", "wait", "hash", "submit", "triggered"}
    /\ BreachesAccounted

\* What a probe objects to is of one of the types the streams have counters for
\* (firewall.bpf.c:222-301, antitamper.bpf.c:91-180).
LEMMA BreachTypes == \A c \in Breaches : BreachType(c) \in 1..5
<1> SUFFICES ASSUME NEW c \in Calls, BreachType(c) # 0 PROVE BreachType(c) \in 1..5
  BY DEF Breaches
<1>1. c.call \in {"dns", "connect", "openat", "ptrace", "mprotect", "execve"}
  BY IntegrityAssumption
<1>2. CASE c.call = "openat"
  <2>1. BreachType(c) = OpenatVerdict(c.arg)
    BY <1>2 DEF BreachType
  <2>2. c.arg \in {"contains_etc", "contains_dotdot", "contains_key", "app", "tmp", "dev_null",
                   "relative", "other_absolute"}
    BY <1>2, IntegrityAssumption
  <2>3. OpenatVerdict(c.arg) \in {0, 2}
    BY <2>2 DEF OpenatVerdict
  <2> QED
    BY <2>1, <2>3
<1>3. CASE c.call = "dns"
  BY <1>3 DEF BreachType, DnsVerdict
<1>4. CASE c.call = "connect"
  BY <1>4 DEF BreachType, ConnectVerdict
<1>5. CASE c.call = "ptrace"
  BY <1>5 DEF BreachType, PtraceVerdict
<1>6. CASE c.call = "mprotect"
  BY <1>6 DEF BreachType, MprotectVerdict
<1>7. CASE c.call = "execve"
  BY <1>7 DEF BreachType, ExecveVerdict
<1> QED
  BY <1>1, <1>2, <1>3, <1>4, <1>5, <1>6, <1>7

\* One more of a type is one more in all.
LEMMA TotalIncrement ==
  ASSUME counts \in [1..5 -> Nat], NEW k \in 1..5, counts' = [counts EXCEPT ![k] = @ + 1]
  PROVE  Total' = Total + 1 /\ Total \in Nat /\ counts' \in [1..5 -> Nat]
<1>1. /\ counts' \in [1..5 -> Nat] /\ counts'[k] = counts[k] + 1
      /\ \A j \in 1..5 : j # k => counts'[j] = counts[j]
  OBVIOUS
<1>2. \A j \in 1..5 : counts[j] \in Nat
  OBVIOUS
<1>3. k = 1 \/ k = 2 \/ k = 3 \/ k = 4 \/ k = 5
  OBVIOUS
<1> QED
  BY <1>1, <1>2, <1>3 DEF Total

\* A record more or less in one ring is one more or less in both together.
LEMMA RingMoves ==
  ASSUME NEW r \in [Streams -> Seq(Breaches)], NEW q \in [Streams -> Seq(Breaches)],
         NEW s \in Streams, NEW d \in Int, Len(q[s]) = Len(r[s]) + d,
         \A t \in Streams \ {s} : q[t] = r[t]
  PROVE  Waiting(r) \in Nat /\ Waiting(q) \in Nat /\ Waiting(q) = Waiting(r) + d
<1> DEFINE rk == Len(r["kernel"])
           rt == Len(r["tamper"])
           qk == Len(q["kernel"])
           qt == Len(q["tamper"])
<1>1. "kernel" \in Streams /\ "tamper" \in Streams /\ (s = "kernel" \/ s = "tamper")
  BY DEF Streams
<1>2. rk \in Nat /\ rt \in Nat /\ qk \in Nat /\ qt \in Nat
  BY <1>1
<1>3. (qk = rk + d /\ qt = rt) \/ (qt = rt + d /\ qk = rk)
  BY <1>1
<1>4. Waiting(r) = rk + rt /\ Waiting(q) = qk + qt
  BY DEF Waiting
<1> HIDE DEF rk, rt, qk, qt
<1> QED
  BY <1>2, <1>3, <1>4

\* Nothing has been made before main starts (main.go:414-434).
LEMMA AlertInit == IntegrityInit => AlertInv
<1> SUFFICES ASSUME IntegrityInit PROVE AlertInv
  OBVIOUS
<1>1. callback \in BOOLEAN /\ changed \in BOOLEAN
  BY Zenon DEF IntegrityInit
<1>2. /\ ring = [s \in Streams |-> << >>] /\ counts = [k \in 1..5 |-> 0] /\ made = {}
      /\ lost = 0 /\ Cardinality({}) = 0
  BY FS_EmptySet DEF IntegrityInit
<1>3. \A s \in Streams : ring[s] = << >> /\ Len(ring[s]) = 0
  BY <1>2
<1>4. ring \in [Streams -> Seq(Breaches)] /\ \A s \in Streams : Len(ring[s]) <= RingSize
  BY <1>2, <1>3, IntegrityAssumption
<1>5. Total = 0
  BY <1>2 DEF Total
<1>6. BreachesAccounted
  BY <1>2, <1>3, <1>5 DEF BreachesAccounted, Streams, Waiting
<1> QED
  BY <1>1, <1>2, <1>4, <1>6 DEF IntegrityInit, AlertInv

\* A breach goes into its ring or is lost (antitamper.bpf.c:91-103).
LEMMA BreachPreserves ==
  ASSUME AlertInv, NEW c \in Calls, Breach(c)
  PROVE  AlertInv'
<1> DEFINE s == RingOf(c)
<1>1. /\ c \in Breaches \ made /\ made' = made \cup {c}
      /\ UNCHANGED <<start, streams, monitor>>
      /\ \/ Len(ring[s]) < RingSize /\ ring' = [ring EXCEPT ![s] = Append(@, c)] /\ UNCHANGED lost
         \/ lost' = lost + 1 /\ UNCHANGED ring
  BY DEF Breach
<1>2. s \in Streams
  BY DEF RingOf, Streams
<1> HIDE DEF s
<1>3. Cardinality(made') = Cardinality(made) + 1 /\ Cardinality(made) \in Nat
  <2>1. IsFiniteSet(made)
    BY IntegrityAssumption, FS_Subset DEF AlertInv
  <2> QED
    BY <1>1, <2>1, FS_AddElement, FS_CardinalityType
<1>4. \A t \in Streams : ring[t] \in Seq(Breaches) /\ Len(ring[t]) \in Nat
  BY DEF AlertInv
<1>5. Waiting(ring) \in Nat /\ lost \in Nat
  BY <1>4 DEF AlertInv, Streams, Waiting
<1>6. /\ ring' \in [Streams -> Seq(Breaches)] /\ \A t \in Streams : Len(ring'[t]) <= RingSize
      /\ lost' \in Nat
      /\ Waiting(ring') \in Nat
      /\ lost' + Waiting(ring') = lost + Waiting(ring) + 1
  <2>1. CASE Len(ring[s]) < RingSize /\ ring' = [ring EXCEPT ![s] = Append(@, c)] /\ UNCHANGED lost
    <3>1. /\ Append(ring[s], c) \in Seq(Breaches)
          /\ Len(Append(ring[s], c)) = Len(ring[s]) + 1
      BY <1>1, <1>2, <1>4
    <3>2. /\ ring' \in [Streams -> Seq(Breaches)]
          /\ Len(ring'[s]) = Len(ring[s]) + 1
          /\ \A t \in Streams \ {s} : ring'[t] = ring[t]
      BY <1>2, <2>1, <3>1 DEF AlertInv
    <3>3. Len(ring[s]) \in Nat /\ RingSize \in Nat
      BY <1>2, <1>4, IntegrityAssumption
    <3>4. \A t \in Streams : Len(ring'[t]) <= RingSize
      BY <2>1, <3>2, <3>3 DEF AlertInv
    <3>5. Waiting(ring') = Waiting(ring) + 1 /\ Waiting(ring') \in Nat
      <4>1. ring \in [Streams -> Seq(Breaches)] /\ 1 \in Int
        BY DEF AlertInv
      <4> QED
        BY <1>2, <3>2, <4>1, RingMoves
    <3> QED
      BY <2>1, <3>2, <3>4, <1>5, <3>5 DEF AlertInv
  <2>2. CASE lost' = lost + 1 /\ UNCHANGED ring
    BY <1>5, <2>2 DEF AlertInv
  <2> QED
    BY <1>1, <2>1, <2>2
<1>7. Total' = Total /\ Total \in Nat
  BY <1>1 DEF Total, streams, AlertInv
<1>8. BreachesAccounted'
  <2>1. Cardinality(made) = Total + lost + Waiting(ring)
    BY DEF AlertInv, BreachesAccounted
  <2>2. Cardinality(made') = Total' + lost' + Waiting(ring')
    BY <1>3, <1>5, <1>6, <1>7, <2>1
  <2> QED
    BY <2>2 DEF BreachesAccounted
<1> QED
  BY <1>1, <1>6, <1>8 DEF AlertInv, start, streams, monitor, Breaches

\* A record is read and counted under its type (controller.go:282-310, 414-459).
LEMMA StreamAlertPreserves ==
  ASSUME AlertInv, NEW s \in Streams, StreamAlert(s)
  PROVE  AlertInv'
<1> DEFINE k == BreachType(Head(ring[s]))
<1>1. /\ ring[s] # << >> /\ ring' = [ring EXCEPT ![s] = Tail(@)]
      /\ counts' = [counts EXCEPT ![k] = @ + 1]
      /\ stream' = [stream EXCEPT ![s] = IF s = "tamper" THEN "invoke" ELSE "read"]
      /\ UNCHANGED <<start, made, lost, monitor>>
  BY DEF StreamAlert
<1>2. \A t \in Streams : ring[t] \in Seq(Breaches) /\ Len(ring[t]) \in Nat
  BY DEF AlertInv
<1>3. /\ Head(ring[s]) \in Breaches /\ Tail(ring[s]) \in Seq(Breaches)
      /\ Len(Tail(ring[s])) = Len(ring[s]) - 1
  BY <1>1, <1>2
<1>4. k \in 1..5
  BY <1>3, BreachTypes
<1> HIDE DEF k
<1>5. Total' = Total + 1 /\ Total \in Nat /\ counts' \in [1..5 -> Nat]
  BY <1>1, <1>4, TotalIncrement DEF AlertInv
<1>6. /\ ring' \in [Streams -> Seq(Breaches)]
      /\ Len(ring'[s]) = Len(ring[s]) - 1
      /\ \A t \in Streams \ {s} : ring'[t] = ring[t]
  BY <1>1, <1>3 DEF AlertInv
<1>7. \A t \in Streams : Len(ring'[t]) <= RingSize
  <2> DEFINE n == Len(ring[s])
  <2>1. n \in Nat /\ RingSize \in Nat /\ n <= RingSize
    BY <1>2, IntegrityAssumption DEF AlertInv
  <2>2. Len(ring'[s]) = n - 1
    BY <1>6
  <2> HIDE DEF n
  <2>3. Len(ring'[s]) <= RingSize
    BY <2>1, <2>2
  <2> QED
    BY <1>6, <2>3 DEF AlertInv
<1>8. BreachesAccounted'
  <2>1. Len(ring'[s]) = Len(ring[s]) + (-1)
    BY <1>2, <1>6
  <2>2. Waiting(ring) \in Nat /\ Waiting(ring') \in Nat /\ Waiting(ring') = Waiting(ring) + (-1)
    <3>1. ring \in [Streams -> Seq(Breaches)] /\ -1 \in Int
      BY DEF AlertInv
    <3> QED
      BY <1>6, <2>1, <3>1, RingMoves
  <2>3. made' = made /\ lost' = lost /\ lost \in Nat
    BY <1>1 DEF AlertInv
  <2>4. Cardinality(made) = Total + lost + Waiting(ring)
    BY DEF AlertInv, BreachesAccounted
  <2>5. Cardinality(made') = Total' + lost' + Waiting(ring')
    BY <1>5, <2>2, <2>3, <2>4
  <2> QED
    BY <2>5 DEF BreachesAccounted
<1>9. stream' \in [Streams -> {"off", "read", "invoke", "triggered"}]
  BY <1>1 DEF AlertInv
<1> QED
  BY <1>1, <1>5, <1>6, <1>7, <1>8, <1>9 DEF AlertInv, start, monitor

\* Every step of the process keeps the invariant.
LEMMA AlertNext ==
  ASSUME AlertInv, [IntegrityNext]_integrityVars
  PROVE  AlertInv'
<1> USE DEF start, kernel, streams, monitor
<1>1. ASSUME UNCHANGED <<kernel, counts>>, AlertInv PROVE BreachesAccounted'
  BY <1>1 DEF AlertInv, BreachesAccounted, Total, Waiting
<1>2. ASSUME UNCHANGED <<start, kernel, streams, monitor>> PROVE AlertInv'
  BY <1>1, <1>2 DEF AlertInv
<1>3. CASE UNCHANGED integrityVars
  BY <1>2, <1>3 DEF integrityVars
<1>4. CASE SetKillSwitchCallback
  <2>1. callback' \in BOOLEAN
    BY <1>4, Zenon DEF SetKillSwitchCallback
  <2> QED
    BY <1>1, <1>4, <2>1 DEF SetKillSwitchCallback, AlertInv
<1>5. CASE AttachProbes
  <2>1. stream' \in [Streams -> {"off", "read", "invoke", "triggered"}]
    BY <1>5 DEF AttachProbes
  <2> QED
    BY <1>1, <1>5, <2>1 DEF AttachProbes, AlertInv
<1>6. CASE StartMonitor
  BY <1>1, <1>6 DEF StartMonitor, AlertInv
<1>7. CASE StreamStep
  <2>1. CASE InvokeKillSwitch
    <3>1. stream' \in [Streams -> {"off", "read", "invoke", "triggered"}]
      BY <2>1 DEF InvokeKillSwitch, AlertInv
    <3> QED
      BY <1>1, <2>1, <3>1 DEF InvokeKillSwitch, AlertInv
  <2> QED
    BY <1>7, <2>1, StreamAlertPreserves DEF StreamStep
<1>8. CASE CheckerStep
  BY <1>1, <1>2, <1>8 DEF CheckerStep, Tick, HashFailsOrMatches, HashDiffers,
     SubmitTamperEvent, TriggerFromChecker, AlertInv
<1>9. CASE ExecutableChanges
  <2>1. changed' \in BOOLEAN
    BY <1>9, Zenon DEF ExecutableChanges
  <2> QED
    BY <1>1, <1>9, <2>1 DEF ExecutableChanges, AlertInv
<1>10. CASE \E c \in Calls : Breach(c)
  BY <1>10, BreachPreserves
<1>11. CASE Others \/ \E c \in Callers : KillStep(c)
  BY <1>2, <1>11 DEF Others, KillStep
<1> QED
  BY <1>3, <1>4, <1>5, <1>6, <1>7, <1>8, <1>9, <1>10, <1>11 DEF IntegrityNext, MainStep

LEMMA AlertInvariance == IntegritySpec => []AlertInv
<1>1. AlertInv /\ [IntegrityNext]_integrityVars => AlertInv'
  BY AlertNext
<1> QED
  BY <1>1, AlertInit, PTL DEF IntegritySpec

\* Engine, kill switch, streams and monitor keep their types in one process
\* (controller.go:48-76, memcheck.go:45-58, killswitch.go:22-27).
THEOREM IntegrityTypeCorrect == IntegritySpec => []IntegrityTypeOK
<1>1. TypeOK /\ KillInv /\ AlertInv => IntegrityTypeOK
  BY DEF KillInv, AlertInv, KillTypeOK, IntegrityTypeOK
<1> QED
  BY <1>1, KillInvariance, AlertInvariance, PTL

\* No breach is counted twice or forgotten on its way through the rings
\* (antitamper.bpf.c:91-103, firewall.bpf.c:222-301, controller.go:282-310, 414-459).
THEOREM EveryBreachAccounted == IntegritySpec => []BreachesAccounted
<1>1. AlertInv => BreachesAccounted
  BY DEF AlertInv
<1> QED
  BY <1>1, AlertInvariance, PTL

-----------------------------------------------------------------------------
(***************************************************************************)
(* A detection holds whoever made it.  The kernel stream reads the types   *)
(* 1 and 2 only, the anti-tamper stream 3, 4 and 5, because each probe has *)
(* its ring; main registers the callback before it starts a stream; and    *)
(* neither detector goes back to its loop from the kill switch.            *)
(***************************************************************************)
\* What a ring may hold.
InRing(s) == {c \in Breaches : RingOf(c) = s}

HoldInv ==
    /\ ring \in [Streams -> Seq(Breaches)]
    /\ \A s \in Streams : ring[s] \in Seq(InRing(s))
    /\ stream \in [Streams -> {"off", "read", "invoke", "triggered"}]
    /\ stream["kernel"] \in {"off", "read"}
    /\ counts \in [1..5 -> Nat]
    /\ boot \in {"wire", "attach", "monitor", "up"}
    /\ boot # "wire" => callback = TRUE
    /\ boot \in {"wire", "attach"} => stream["tamper"] = "off"
    /\ boot \in {"wire", "attach", "monitor"} => checker = "off"
    /\ stream["tamper"] \in {"off", "read"} => counts[3] = 0 /\ counts[4] = 0 /\ counts[5] = 0
    /\ checker \in {"off", "wait", "hash"} => tampers = 0
    /\ checker \in {"off", "wait", "hash", "submit", "triggered"}

\* A breach of an anti-tamper type that was counted has its stream at the kill switch,
\* and so has the monitor a mismatch it counted: neither goes on as if nothing had been
\* found (controller.go:414-472, memcheck.go:129-170).
DetectionHolds ==
    /\ (counts[3] # 0 \/ counts[4] # 0 \/ counts[5] # 0)
           => stream["tamper"] \in {"invoke", "triggered"}
    /\ tampers # 0 => checker \in {"submit", "triggered"}

LEMMA HoldInit == IntegrityInit => HoldInv
<1> SUFFICES ASSUME IntegrityInit PROVE HoldInv
  OBVIOUS
<1>1. \A s \in Streams : ring[s] = << >>
  BY DEF IntegrityInit
<1>2. ring \in [Streams -> Seq(Breaches)] /\ \A s \in Streams : ring[s] \in Seq(InRing(s))
  BY <1>1 DEF IntegrityInit
<1> QED
  BY <1>2 DEF IntegrityInit, HoldInv, Streams

\* Each record goes into the ring of its probe.
LEMMA BreachHolds ==
  ASSUME HoldInv, NEW c \in Calls, Breach(c)
  PROVE  HoldInv'
<1> DEFINE s == RingOf(c)
<1>1. /\ c \in Breaches
      /\ UNCHANGED <<start, streams, monitor>>
      /\ \/ ring' = [ring EXCEPT ![s] = Append(@, c)]
         \/ UNCHANGED ring
  BY DEF Breach
<1>2. s \in Streams /\ c \in InRing(s)
  BY <1>1 DEF RingOf, Streams, InRing
<1> HIDE DEF s
<1>3. ring' \in [Streams -> Seq(Breaches)] /\ \A t \in Streams : ring'[t] \in Seq(InRing(t))
  <2>1. CASE ring' = [ring EXCEPT ![s] = Append(@, c)]
    <3>1. Append(ring[s], c) \in Seq(InRing(s)) /\ Append(ring[s], c) \in Seq(Breaches)
      BY <1>1, <1>2 DEF HoldInv
    <3>2. ring'[s] = Append(ring[s], c) /\ \A t \in Streams \ {s} : ring'[t] = ring[t]
      BY <1>2, <2>1 DEF HoldInv
    <3>3. ring' \in [Streams -> Seq(Breaches)]
      BY <1>2, <2>1, <3>1 DEF HoldInv
    <3> QED
      BY <3>1, <3>2, <3>3 DEF HoldInv
  <2>2. CASE UNCHANGED ring
    BY <2>2 DEF HoldInv
  <2> QED
    BY <1>1, <2>1, <2>2
<1> QED
  BY <1>1, <1>3 DEF HoldInv, InRing, Breaches, start, streams, monitor

\* The kernel stream counts no anti-tamper type, and the anti-tamper stream goes to
\* the kill switch with what it counts.
LEMMA StreamAlertHolds ==
  ASSUME HoldInv, NEW s \in Streams, StreamAlert(s)
  PROVE  HoldInv'
<1> DEFINE k == BreachType(Head(ring[s]))
<1>1. /\ stream[s] = "read" /\ ring[s] # << >> /\ ring' = [ring EXCEPT ![s] = Tail(@)]
      /\ counts' = [counts EXCEPT ![k] = @ + 1]
      /\ stream' = [stream EXCEPT ![s] = IF s = "tamper" THEN "invoke" ELSE "read"]
      /\ UNCHANGED <<start, monitor>>
  BY DEF StreamAlert
<1>2. ring[s] \in Seq(InRing(s)) /\ ring[s] \in Seq(Breaches)
  BY DEF HoldInv
<1>3. /\ Head(ring[s]) \in InRing(s)
      /\ Tail(ring[s]) \in Seq(InRing(s)) /\ Tail(ring[s]) \in Seq(Breaches)
  BY <1>1, <1>2
<1>4. k \in 1..5 /\ (s = "kernel" => k \in 1..2)
  BY <1>3, BreachTypes DEF InRing, RingOf
<1> HIDE DEF k
<1>5. ring' \in [Streams -> Seq(Breaches)] /\ \A t \in Streams : ring'[t] \in Seq(InRing(t))
  <2>1. ring'[s] = Tail(ring[s]) /\ \A t \in Streams \ {s} : ring'[t] = ring[t]
    BY <1>1 DEF HoldInv
  <2>2. ring' \in [Streams -> Seq(Breaches)]
    BY <1>1, <1>3 DEF HoldInv
  <2> QED
    BY <1>3, <2>1, <2>2 DEF HoldInv
<1>6. counts' \in [1..5 -> Nat] /\ \A j \in 1..5 : j # k => counts'[j] = counts[j]
  BY <1>1, <1>4 DEF HoldInv
<1>7. CASE s = "kernel"
  <2>1. stream' = stream /\ stream["tamper"] \in {"off", "read", "invoke", "triggered"}
    BY <1>1, <1>7 DEF HoldInv, Streams
  <2>2. counts'[3] = counts[3] /\ counts'[4] = counts[4] /\ counts'[5] = counts[5]
    BY <1>4, <1>6, <1>7
  <2> QED
    BY <1>1, <1>5, <1>6, <2>1, <2>2 DEF HoldInv, InRing, Breaches, start, monitor
<1>8. CASE s = "tamper"
  <2>1. /\ stream' \in [Streams -> {"off", "read", "invoke", "triggered"}]
        /\ stream'["tamper"] = "invoke" /\ stream'["kernel"] = stream["kernel"]
    BY <1>1, <1>8 DEF HoldInv, Streams
  <2>2. boot \notin {"wire", "attach"}
    BY <1>1, <1>8 DEF HoldInv
  <2> QED
    BY <1>1, <1>5, <1>6, <2>1, <2>2 DEF HoldInv, InRing, Breaches, start, monitor
<1> QED
  BY <1>7, <1>8 DEF Streams

LEMMA HoldNext ==
  ASSUME HoldInv, AlertInv, [IntegrityNext]_integrityVars
  PROVE  HoldInv'
<1> USE DEF start, kernel, streams, monitor
<1>1. ASSUME UNCHANGED <<kernel, counts>>,
             stream' \in [Streams -> {"off", "read", "invoke", "triggered"}]
      PROVE  /\ ring' \in [Streams -> Seq(Breaches)]
             /\ \A s \in Streams : ring'[s] \in Seq(InRing(s))
             /\ counts' \in [1..5 -> Nat]
  BY <1>1 DEF HoldInv
<1>2. ASSUME UNCHANGED <<start, kernel, streams, monitor>> PROVE HoldInv'
  BY <1>2 DEF HoldInv
<1>3. CASE UNCHANGED integrityVars
  BY <1>2, <1>3 DEF integrityVars
<1>4. CASE SetKillSwitchCallback
  BY <1>4 DEF SetKillSwitchCallback, HoldInv
<1>5. CASE AttachProbes
  <2>1. /\ stream' \in [Streams -> {"off", "read", "invoke", "triggered"}]
        /\ stream'["kernel"] \in {"off", "read"}
    BY <1>5 DEF AttachProbes, Streams
  <2>2. counts[3] = 0 /\ counts[4] = 0 /\ counts[5] = 0
    BY <1>5 DEF AttachProbes, HoldInv
  <2> QED
    BY <1>5, <2>1, <2>2 DEF AttachProbes, HoldInv
<1>6. CASE StartMonitor
  <2>1. checker = "off" /\ tampers = 0
    BY <1>6 DEF StartMonitor, HoldInv
  <2> QED
    BY <1>6, <2>1 DEF StartMonitor, HoldInv
<1>7. CASE StreamStep
  <2>1. CASE InvokeKillSwitch
    <3>1. stream["tamper"] = "invoke" /\ boot \notin {"wire", "attach"} /\ callback = TRUE
      BY <2>1 DEF InvokeKillSwitch, HoldInv
    <3>2. /\ stream' = [stream EXCEPT !["tamper"] = "triggered"]
          /\ UNCHANGED <<start, kernel, counts, monitor>>
      BY <2>1, <3>1 DEF InvokeKillSwitch
    <3>3. /\ stream' \in [Streams -> {"off", "read", "invoke", "triggered"}]
          /\ stream'["tamper"] = "triggered" /\ stream'["kernel"] = stream["kernel"]
      BY <3>2 DEF HoldInv, Streams
    <3> QED
      BY <3>1, <3>2, <3>3 DEF HoldInv
  <2> QED
    BY <1>7, <2>1, StreamAlertHolds DEF StreamStep
<1>8. CASE CheckerStep
  <2>1. CASE Tick \/ HashFailsOrMatches \/ HashDiffers
    BY <2>1 DEF Tick, HashFailsOrMatches, HashDiffers, HoldInv
  <2>2. CASE SubmitTamperEvent
    BY <1>2, <2>2 DEF SubmitTamperEvent
  <2>3. CASE TriggerFromChecker
    BY <2>3 DEF TriggerFromChecker, HoldInv
  <2> QED
    BY <1>8, <2>1, <2>2, <2>3 DEF CheckerStep
<1>9. CASE ExecutableChanges
  BY <1>9 DEF ExecutableChanges, HoldInv
<1>10. CASE \E c \in Calls : Breach(c)
  BY <1>10, BreachHolds
<1>11. CASE Others \/ \E c \in Callers : KillStep(c)
  BY <1>2, <1>11 DEF Others, KillStep
<1> QED
  BY <1>3, <1>4, <1>5, <1>6, <1>7, <1>8, <1>9, <1>10, <1>11 DEF IntegrityNext, MainStep

\* A detection is never passed over (controller.go:414-472, memcheck.go:129-170,
\* main.go:414-434).
THEOREM NoDetectionPassedOver == IntegritySpec => []DetectionHolds
<1>1. HoldInv /\ AlertInv /\ [IntegrityNext]_integrityVars => HoldInv'
  BY HoldNext
<1>2. HoldInv => DetectionHolds
  BY DEF HoldInv, DetectionHolds, Streams
<1> QED
  BY <1>1, <1>2, HoldInit, AlertInvariance, PTL DEF IntegritySpec

=============================================================================

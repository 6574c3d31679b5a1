---------------------------- MODULE GatewayProofs ----------------------------
(***************************************************************************)
(* For any set of requests, PIDs and any capacity of the kernel's map,     *)
(* whatever docker and the kernel do: locks, containers, scratch           *)
(* directories, counters and events of a request are settled when it is    *)
(* answered.                                                               *)
(***************************************************************************)
EXTENDS Gateway, FiniteSetTheorems, SequenceTheorems, TLAPS

(***************************************************************************)
(* The inductive invariant.  Request says what a request has at each point *)
(* of its way: no container and no PID before docker run, the PID that     *)
(* docker inspect answered when the hook runs, nothing left to clean up    *)
(* behind each deferred function.  Trail is the same for its events.       *)
(* Locks ties the kernel's map to the requests under way: an entry is one  *)
(* that a request will remove, and the entry of a request that waits is    *)
(* there unless another one with the same PID has removed it.              *)
(***************************************************************************)
Before == {"new", "rejected", "verified", "scratch", "run"}

After == {"sweep", "unlock", "deactivate", "report", "done"}

Request(r) ==
    /\ pc[r] # "new" => initErr # "pending"
    /\ pc[r] \in Before => container[r] = "none" /\ hostPID[r] = 0
    /\ pc[r] \in {"inspect", "hook", "wait", "remove"} => container[r] # "none"
    /\ container[r] # "none" => hostPID[r] \in PIDs
    /\ pc[r] \in Before \cup {"inspect", "hook"} => targetPID[r] = 0
    /\ pc[r] = "hook" => inspected[r] = hostPID[r] /\ hostPID[r] \in PIDs
    /\ targetPID[r] \in {0, hostPID[r]}
    /\ pc[r] = "wait" => targetPID[r] # 0
    /\ pc[r] \in After \cup {"remove"} => failed[r] \/ targetPID[r] # 0
    /\ pc[r] \in After => (container[r] = "running" => r \in stalled)
    /\ pc[r] \in After \ {"sweep"} =>
          (scratch[r] # "none" => scratch[r] = "sealed" /\ ~Root)

Refused(r) ==
    /\ \/ audit[r] = <<"validation_fail">>
       \/ /\ audit[r] = <<"unwritable">>
          /\ "odd key" \in input[r] /\ "script" \notin input[r]
    /\ input[r] = {"odd key"} => audit[r] = <<"unwritable">>

Trail(r) ==
    /\ pc[r] = "new" => audit[r] = << >> /\ input[r] = {}
    /\ pc[r] = "rejected" => input[r] = {} \/ Refused(r)
    /\ pc[r] \notin {"new", "rejected", "done"} =>
          audit[r] = <<"attestation", "tool_call">> /\ input[r] = {}
    /\ pc[r] = "done" =>
          /\ input[r] = {}
          /\ \/ audit[r] = <<"attestation", "tool_call", "launch_failure">>
             \/ /\ audit[r] = <<"attestation", "tool_call", "launch_success">>
                /\ targetPID[r] # 0

Alone(r) == \A q \in Requests \ {r} : hostPID[q] # hostPID[r]

Locks ==
    /\ locked # {} => initErr = "nil"
    /\ NoStaleLock
    /\ \A r \in Requests :
          pc[r] = "wait" /\ initErr = "nil" /\ Alone(r) => targetPID[r] \in locked

Events == {"attestation", "tool_call", "validation_fail", "unwritable", "launch_success",
           "launch_failure"}

GateInv ==
    /\ TypeOK /\ audit \in [Requests -> Seq(Events)]
    /\ \A r \in Requests : Request(r)
    /\ \A r \in Requests \ Playground : Trail(r)
    /\ Locks

-----------------------------------------------------------------------------

\* A tuple of two with one more.
LEMMA Append3 ==
  ASSUME NEW a, NEW b, NEW c
  PROVE  <<a, b>> \o <<c>> = <<a, b, c>>
<1> DEFINE S == {a, b, c}
<1>1. <<a, b>> \in Seq(S) /\ <<c>> \in Seq(S) /\ <<a, b, c>> \in Seq(S)
  OBVIOUS
<1>2. /\ <<a, b>> \o <<c>> \in Seq(S) /\ Len(<<a, b>> \o <<c>>) = 3
      /\ \A i \in 1 .. 3 : (<<a, b>> \o <<c>>)[i] = IF i <= 2 THEN <<a, b>>[i] ELSE <<c>>[i - 2]
  <2> HIDE DEF S
  <2> QED
  BY <1>1, ConcatProperties
<1>3. \A i \in 1 .. 3 : (<<a, b>> \o <<c>>)[i] = <<a, b, c>>[i]
  BY <1>2
<1>4. Len(<<a, b, c>>) = 3
  OBVIOUS
<1> HIDE DEF S
<1> QED
  BY <1>1, <1>2, <1>3, <1>4, SeqEqual

\* The first two elements of a sequence.
LEMMA FirstTwo ==
  ASSUME NEW a, NEW b, NEW s, s[1] = a, s[2] = b
  PROVE  SubSeq(s, 1, 2) = <<a, b>>
<1> DEFINE S == {a, b}
<1>1. /\ SubSeq(s, 1, 2) \in Seq(S) /\ Len(SubSeq(s, 1, 2)) = 2
      /\ \A i \in 1 .. 2 : SubSeq(s, 1, 2)[i] = s[i]
  <2>1. \A i \in 1 .. 2 : s[i] \in S
    OBVIOUS
  <2> HIDE DEF S
  <2> QED
    BY <2>1, SubSeqProperties
<1>2. <<a, b>> \in Seq(S) /\ Len(<<a, b>>) = 2 /\ \A i \in 1 .. 2 : <<a, b>>[i] = s[i]
  OBVIOUS
<1> HIDE DEF S
<1> QED
  BY <1>1, <1>2, SeqEqual

\* When main starts nothing is under way (main.go:79-106).
LEMMA GateInit == Init => GateInv
<1> SUFFICES ASSUME Init PROVE GateInv
  OBVIOUS
<1>1. lockedMap \in BOOLEAN
  BY Zenon DEF Init
<1>2. TypeOK
  BY <1>1 DEF Init, TypeOK, InSandbox
<1>3. audit \in [Requests -> Seq(Events)] /\ \A r \in Requests : Request(r) /\ Trail(r)
  BY DEF Init, Request, Trail, Before, After
<1>4. Locks
  BY DEF Init, Locks, NoStaleLock
<1> QED
  BY <1>2, <1>3, <1>4 DEF GateInv

\* A step of one request leaves the others where they are.
LEMMA OthersKeep ==
  ASSUME GateInv, NEW r \in Requests, UNCHANGED controller, stalled \subseteq stalled',
         \A q \in Requests \ {r} :
            /\ pc'[q] = pc[q] /\ targetPID'[q] = targetPID[q] /\ inspected'[q] = inspected[q]
            /\ scratch'[q] = scratch[q] /\ container'[q] = container[q]
            /\ hostPID'[q] = hostPID[q] /\ failed'[q] = failed[q]
            /\ audit'[q] = audit[q] /\ input'[q] = input[q],
         TypeOK', audit' \in [Requests -> Seq(Events)],
         Locks', Request(r)', r \notin Playground => Trail(r)'
  PROVE  GateInv'
<1>1. ASSUME NEW q \in Requests \ {r} PROVE Request(q)'
  <2>1. Request(q)
    BY DEF GateInv
  <2> QED
    BY <2>1 DEF Request, controller
<1>2. \A q \in Requests \ (Playground \cup {r}) : Trail(q)'
  BY DEF GateInv, Trail, Refused
<1> QED
  BY <1>1, <1>2 DEF GateInv

\* The map stays as it is, and so do the PIDs; a request that leaves a place where it has
\* an entry to remove goes to another one.
LEMMA LocksKeep ==
  ASSUME GateInv, NEW r \in Requests, UNCHANGED <<initErr, locked, targetPID, hostPID>>,
         \A q \in Requests \ {r} : pc'[q] = pc[q],
         pc[r] \in {"wait", "remove", "sweep", "unlock"} =>
            pc'[r] \in {"remove", "sweep", "unlock"},
         pc'[r] # "wait"
  PROVE  Locks'
<1>1. NoStaleLock'
  BY DEF GateInv, Locks, NoStaleLock
<1>2. \A q \in Requests : pc'[q] = "wait" => q # r /\ pc[q] = "wait"
  OBVIOUS
<1>3. \A q \in Requests : Alone(q)' <=> Alone(q)
  BY DEF Alone
<1> QED
  BY <1>1, <1>2, <1>3 DEF GateInv, Locks

-----------------------------------------------------------------------------

\* InitNativeController (controller.go:60-141) is over before a request comes.
LEMMA StartupPreserves ==
  ASSUME GateInv, LoadCollection \/ AttachTracepoints
  PROVE  GateInv'
<1>1. /\ UNCHANGED <<verified, locked, active, pc, targetPID, inspected, scratch, box, failed,
                     audit, input>>
      /\ initErr = "pending" /\ initErr' \in {"pending", "nil", "error"}
  BY DEF LoadCollection, AttachTracepoints
<1>2. lockedMap' \in BOOLEAN
  BY DEF LoadCollection, AttachTracepoints, GateInv, TypeOK
<1>3. \A r \in Requests : pc[r] = "new"
  BY <1>1 DEF GateInv, Request
<1>4. locked = {}
  BY <1>1 DEF GateInv, Locks
<1>5. TypeOK'
  BY <1>1, <1>2 DEF GateInv, TypeOK, box
<1>6. \A r \in Requests : Request(r)'
  BY <1>1, <1>3 DEF GateInv, Request, box
<1>7. \A r \in Requests \ Playground : Trail(r)'
  BY <1>1 DEF GateInv, Trail, Refused
<1>8. Locks'
  BY <1>1, <1>3, <1>4 DEF Locks, NoStaleLock
<1> QED
  BY <1>1, <1>5, <1>6, <1>7, <1>8 DEF GateInv

\* An event is appended to the request's own, unless it is from the playground
\* (main.go:191-252, 370-376).
LEMMA EmitAppends ==
  ASSUME audit \in [Requests -> Seq(Events)], NEW r \in Requests,
         NEW kinds \in Seq(Events), Emit(r, kinds)
  PROVE  /\ audit' \in [Requests -> Seq(Events)]
         /\ \A q \in Requests \ {r} : audit'[q] = audit[q]
         /\ r \notin Playground => audit'[r] = audit[r] \o kinds
<1>1. audit[r] \in Seq(Events) /\ audit[r] \o kinds \in Seq(Events)
  BY ConcatProperties
<1> QED
  BY <1>1 DEF Emit

\* The checks before the sandbox (main.go:108-251, 320-357): what they leave alone.
Checked(r) ==
    /\ UNCHANGED <<lockedMap, initErr, locked, targetPID, inspected, scratch, container,
                   hostPID, network, stalled, failed>>
    /\ initErr # "pending"
    /\ verified' \in Nat /\ active' \in Int
    /\ input' \in [Requests -> SUBSET Objections]
    /\ audit' \in [Requests -> Seq(Events)]
    /\ \A q \in Requests \ {r} : audit'[q] = audit[q] /\ input'[q] = input[q]

\* They reject a request, with its event, or let it in with two.
LEMMA CheckedKeeps ==
  ASSUME GateInv, NEW r \in Requests, Checked(r), pc[r] \in {"new", "verified"},
         NEW l \in {"rejected", "verified", "scratch"}, Goto(r, l),
         r \notin Playground => Trail(r)'
  PROVE  GateInv'
<1>0. TypeOK /\ Request(r)
  BY DEF GateInv
<1>1. pc'[r] = l /\ \A q \in Requests \ {r} : pc'[q] = pc[q]
  BY <1>0 DEF Goto, TypeOK
<1>2. TypeOK'
  <2>1. pc' \in [Requests -> InSandbox \cup {"new", "rejected", "verified", "report", "done"}]
    BY <1>0 DEF TypeOK, InSandbox, Goto
  <2> QED
    BY <1>0, <2>1 DEF TypeOK, Checked
<1>3. Request(r)'
  BY <1>0, <1>1 DEF Request, Before, After, Checked
<1>4. Locks'
  BY <1>1, LocksKeep DEF Checked
<1> QED
  BY <1>1, <1>2, <1>3, <1>4, OthersKeep DEF Checked, controller

LEMMA ChecksPreserve ==
  ASSUME GateInv, NEW r \in Requests,
         Malformed(r) \/ RefuseInput(r) \/ RefuseManifest(r) \/ Accept(r) \/ Activate(r)
  PROVE  GateInv'
<1> USE DEF env, box, controller
<1>0. /\ TypeOK /\ Request(r) /\ (r \notin Playground => Trail(r))
      /\ audit \in [Requests -> Seq(Events)]
  BY DEF GateInv
<1>a. \A l : Goto(r, l) => pc'[r] = l
  BY <1>0 DEF Goto, TypeOK
<1>1. CASE Malformed(r)
  <2>1. Checked(r)
    BY <1>0, <1>1 DEF Malformed, Checked, TypeOK, Serving
  <2>2. r \notin Playground => Trail(r)'
    BY <1>0, <1>1, <1>a DEF Malformed, Trail
  <2> QED
    BY <1>1, <2>1, <2>2, CheckedKeeps DEF Malformed
<1>2. CASE RefuseInput(r)
  <2>1. PICK o \in (IF r \in Playground THEN {{"script"}} ELSE (SUBSET Objections) \ {{}}) :
          /\ input' = [input EXCEPT ![r] = o]
          /\ \E reason \in scrubInput(o) : Emit(r, <<NewValidationFailEvent(reason, TRUE)>>)
    BY <1>2 DEF RefuseInput
  <2>2. PICK reason \in scrubInput(o) : Emit(r, <<NewValidationFailEvent(reason, TRUE)>>)
    BY <2>1
  <2> DEFINE kind == NewValidationFailEvent(reason, TRUE)
  <2>3. o \in SUBSET Objections /\ o # {}
    BY <2>1 DEF Objections
  <2>4. /\ kind \in {"validation_fail", "unwritable"}
        /\ kind = "unwritable" <=> reason = "odd key"
    BY DEF NewValidationFailEvent
  <2>5. <<kind>> \in Seq(Events)
    <3> HIDE DEF kind
    <3>1. kind \in Events
      BY <2>4 DEF Events
    <3> QED
      BY <3>1
  <2>6. /\ audit' \in [Requests -> Seq(Events)]
        /\ \A q \in Requests \ {r} : audit'[q] = audit[q]
        /\ r \notin Playground => audit'[r] = audit[r] \o <<kind>>
    <3> HIDE DEF kind
    <3>1. Emit(r, <<kind>>)
      BY <2>2 DEF kind
    <3> QED
      BY <1>0, <2>5, <3>1, EmitAppends
  <2>7. input' \in [Requests -> SUBSET Objections] /\ input'[r] = o
        /\ \A q \in Requests \ {r} : input'[q] = input[q]
    BY <1>0, <2>1, <2>3 DEF TypeOK
  <2>8. Checked(r)
    BY <1>0, <1>2, <2>6, <2>7 DEF RefuseInput, Checked, TypeOK, Serving
  <2>9. ASSUME r \notin Playground PROVE Trail(r)'
    <3>1. pc'[r] = "rejected" /\ audit[r] = << >>
      BY <1>0, <1>2, <1>a, <2>9 DEF RefuseInput, Trail
    <3> HIDE DEF kind
    <3>2. audit'[r] = <<kind>>
      BY <2>6, <2>9, <3>1
    <3>3. /\ kind = "unwritable" => "odd key" \in o /\ "script" \notin o
          /\ o = {"odd key"} => kind = "unwritable"
      BY <2>2, <2>4 DEF scrubInput
    <3>4. Refused(r)'
      BY <2>4, <2>7, <3>2, <3>3 DEF Refused
    <3> QED
      BY <3>1, <3>4 DEF Trail
  <2> QED
    BY <1>2, <2>8, <2>9, CheckedKeeps DEF RefuseInput
<1>3. CASE RefuseManifest(r)
  <2>1. PICK raw \in BOOLEAN : Emit(r, <<NewValidationFailEvent("manifest", raw)>>)
    BY <1>3 DEF RefuseManifest
  <2>2. <<NewValidationFailEvent("manifest", raw)>> \in Seq(Events)
    BY DEF NewValidationFailEvent, Events
  <2>3. Checked(r)
    BY <1>0, <1>3, <2>1, <2>2, EmitAppends DEF RefuseManifest, Checked, TypeOK, Serving
  <2>4. r \notin Playground => Trail(r)'
    BY <1>0, <1>3, <1>a DEF RefuseManifest, Trail
  <2> QED
    BY <1>3, <2>3, <2>4, CheckedKeeps DEF RefuseManifest
<1>4. CASE Accept(r)
  <2>1. <<"attestation", "tool_call">> \in Seq(Events)
    BY DEF Events
  <2>2. /\ audit' \in [Requests -> Seq(Events)]
        /\ \A q \in Requests \ {r} : audit'[q] = audit[q]
        /\ r \notin Playground => audit'[r] = audit[r] \o <<"attestation", "tool_call">>
    BY <1>0, <1>4, <2>1, EmitAppends DEF Accept
  <2>3. Checked(r)
    BY <1>0, <1>4, <2>2 DEF Accept, Checked, TypeOK, Serving
  <2>4. ASSUME r \notin Playground PROVE Trail(r)'
    <3>1. pc'[r] = "verified" /\ audit[r] = << >> /\ input'[r] = {}
      BY <1>0, <1>4, <1>a, <2>4 DEF Accept, Trail
    <3>2. audit'[r] = <<"attestation", "tool_call">>
      BY <2>2, <2>4, <3>1
    <3> QED
      BY <3>1, <3>2 DEF Trail
  <2> QED
    BY <1>4, <2>3, <2>4, CheckedKeeps DEF Accept
<1>5. CASE Activate(r)
  <2>1. Checked(r)
    BY <1>0, <1>5 DEF Activate, Checked, TypeOK, Request
  <2>2. r \notin Playground => Trail(r)'
    BY <1>0, <1>5, <1>a DEF Activate, Trail
  <2> QED
    BY <1>5, <2>1, <2>2, CheckedKeeps DEF Activate
<1> QED
  BY <1>1, <1>2, <1>3, <1>4, <1>5

-----------------------------------------------------------------------------

\* A step inside the sandbox reports nothing.
LEMMA SandboxStepKeeps ==
  ASSUME GateInv, NEW r \in Requests, NEW l \in InSandbox \cup {"report"},
         pc[r] \in InSandbox, Goto(r, l), UNCHANGED <<controller, input, audit>>,
         stalled \subseteq stalled',
         \A q \in Requests \ {r} :
            /\ targetPID'[q] = targetPID[q] /\ inspected'[q] = inspected[q]
            /\ scratch'[q] = scratch[q] /\ container'[q] = container[q]
            /\ hostPID'[q] = hostPID[q] /\ failed'[q] = failed[q],
         TypeOK', Locks', Request(r)'
  PROVE  GateInv'
<1>0. /\ TypeOK /\ (r \notin Playground => Trail(r)) /\ audit \in [Requests -> Seq(Events)]
  BY DEF GateInv
<1>1. pc'[r] = l /\ \A q \in Requests \ {r} : pc'[q] = pc[q]
  BY <1>0 DEF Goto, TypeOK
<1>2. r \notin Playground => Trail(r)'
  BY <1>0, <1>1 DEF Trail, InSandbox
<1> QED
  BY <1>0, <1>1, <1>2, OthersKeep

\* PrepareScratch (sandbox.go:39-62): a failure leaves RemoveScratch to do.
LEMMA PrepareScratchPreserves ==
  ASSUME GateInv, NEW r \in Requests, PrepareScratch(r)
  PROVE  GateInv'
<1> USE DEF env, box, controller
<1>0. TypeOK /\ Request(r)
  BY DEF GateInv
<1>1. PICK l \in {"run", "sweep"} : Goto(r, l) /\ (l = "sweep" => Fail(r, "sweep"))
  BY DEF PrepareScratch, Fail
<1>2. pc'[r] = l /\ \A q \in Requests \ {r} : pc'[q] = pc[q]
  BY <1>0, <1>1 DEF Goto, TypeOK
<1>3. /\ scratch' \in [Requests -> {"none", "made", "sealed"}]
      /\ failed' \in [Requests -> BOOLEAN]
      /\ \A q \in Requests \ {r} : scratch'[q] = scratch[q] /\ failed'[q] = failed[q]
      /\ l = "sweep" => failed'[r]
  BY <1>0, <1>1 DEF PrepareScratch, Fail, TypeOK
<1>4. TypeOK'
  <2>1. pc' \in [Requests -> InSandbox \cup {"new", "rejected", "verified", "report", "done"}]
    BY <1>0, <1>1 DEF TypeOK, InSandbox, Goto
  <2> QED
    BY <1>0, <1>3, <2>1 DEF TypeOK, PrepareScratch
<1>5. Request(r)'
  BY <1>0, <1>2, <1>3 DEF Request, Before, After, PrepareScratch
<1>6. Locks'
  BY <1>2, LocksKeep DEF PrepareScratch
<1> QED
  BY <1>1, <1>3, <1>4, <1>5, <1>6, SandboxStepKeeps DEF PrepareScratch, InSandbox

\* DockerRun (sandbox.go:64-126): the PID is one that no other request waits with, or
\* that one is not alone any more.
LEMMA DockerRunPreserves ==
  ASSUME GateInv, NEW r \in Requests, DockerRun(r)
  PROVE  GateInv'
<1> USE DEF env, box, controller
<1>0. TypeOK /\ Request(r) /\ pc[r] = "run"
  BY DEF GateInv, DockerRun
<1>1. PICK l \in {"inspect", "sweep"} :
         /\ Goto(r, l)
         /\ l = "sweep" => Fail(r, "sweep")
         /\ l = "inspect" => UNCHANGED failed
         /\ \/ Start(r) /\ (l = "sweep" => r \in stalled')
            \/ l = "sweep" /\ UNCHANGED box
  <2>1. CASE Start(r) /\ Goto(r, "inspect") /\ UNCHANGED failed
    BY <2>1
  <2>2. CASE Fail(r, "sweep") /\ UNCHANGED box
    BY <2>2 DEF Fail
  <2>3. CASE Start(r) /\ Fail(r, "sweep") /\ stalled' = stalled \cup {r}
    BY <2>3 DEF Fail
  <2> QED
    BY <2>1, <2>2, <2>3 DEF DockerRun
<1>2. pc'[r] = l /\ \A q \in Requests \ {r} : pc'[q] = pc[q]
  BY <1>0, <1>1 DEF Goto, TypeOK
<1>3. /\ failed' \in [Requests -> BOOLEAN]
      /\ \A q \in Requests \ {r} : failed'[q] = failed[q]
      /\ l = "sweep" => failed'[r]
  BY <1>0, <1>1 DEF Fail, TypeOK
<1>4. stalled \subseteq stalled' /\ stalled' \subseteq Requests
  BY <1>0 DEF DockerRun, TypeOK
<1>5. /\ container' \in [Requests -> {"none", "running", "exited", "removed"}]
      /\ hostPID' \in [Requests -> PIDs \cup {0}]
      /\ network' \in [Requests -> {"none", "bridge"}]
      /\ \A q \in Requests \ {r} : container'[q] = container[q] /\ hostPID'[q] = hostPID[q]
      /\ \/ container'[r] = "running" /\ hostPID'[r] \in PIDs /\ (l = "sweep" => r \in stalled')
         \/ l = "sweep" /\ container'[r] = "none" /\ hostPID'[r] = 0
  <2>1. CASE Start(r) /\ (l = "sweep" => r \in stalled')
    <3>1. PICK p \in PIDs : hostPID' = [hostPID EXCEPT ![r] = p]
      BY <2>1 DEF Start, FreePIDs
    <3> QED
      BY <1>0, <2>1, <3>1 DEF Start, TypeOK
  <2>2. CASE l = "sweep" /\ UNCHANGED box
    BY <1>0, <2>2 DEF TypeOK, Request, Before
  <2> QED
    BY <1>1, <2>1, <2>2
<1>6. TypeOK'
  <2>1. pc' \in [Requests -> InSandbox \cup {"new", "rejected", "verified", "report", "done"}]
    BY <1>0, <1>1 DEF TypeOK, InSandbox, Goto
  <2> QED
    BY <1>0, <1>3, <1>4, <1>5, <2>1 DEF TypeOK, DockerRun
<1>7. targetPID[r] = 0 /\ hostPID[r] = 0 /\ initErr # "pending"
  BY <1>0 DEF Request, Before
<1>8. Request(r)'
  BY <1>0, <1>2, <1>3, <1>5, <1>7 DEF Request, Before, After, DockerRun
<1>9. Locks'
  <2>1. UNCHANGED <<initErr, locked, targetPID>>
    BY DEF DockerRun
  <2>2. NoStaleLock'
    BY <1>0, <1>2, <2>1 DEF GateInv, Locks, NoStaleLock
  <2>3. ASSUME NEW q \in Requests, pc'[q] = "wait", initErr = "nil", Alone(q)'
        PROVE  targetPID[q] \in locked
    <3>1. q # r /\ pc[q] = "wait" /\ Request(q)
      BY <1>1, <1>2, <2>3 DEF GateInv
    <3>2. hostPID[q] # 0
      BY <3>1 DEF Request
    <3>3. Alone(q)
      BY <1>5, <1>7, <2>3, <3>1, <3>2 DEF Alone
    <3> QED
      BY <2>3, <3>1, <3>3 DEF GateInv, Locks
  <2> QED
    BY <2>1, <2>2, <2>3 DEF GateInv, Locks
<1> QED
  BY <1>0, <1>1, <1>3, <1>4, <1>5, <1>6, <1>8, <1>9, SandboxStepKeeps DEF DockerRun, InSandbox

\* DockerInspect (sandbox.go:128-144).
LEMMA DockerInspectPreserves ==
  ASSUME GateInv, NEW r \in Requests, DockerInspect(r)
  PROVE  GateInv'
<1> USE DEF env, box, controller
<1>0. TypeOK /\ Request(r) /\ pc[r] = "inspect"
  BY DEF GateInv, DockerInspect
<1>1. PICK l \in {"hook", "remove"} : Goto(r, l)
  BY DEF DockerInspect, Fail
<1>2. pc'[r] = l /\ \A q \in Requests \ {r} : pc'[q] = pc[q]
  BY <1>0, <1>1 DEF Goto, TypeOK
<1>3. /\ failed' \in [Requests -> BOOLEAN] /\ inspected' \in [Requests -> PIDs \cup {0}]
      /\ \A q \in Requests \ {r} : failed'[q] = failed[q] /\ inspected'[q] = inspected[q]
      /\ l = "hook" => inspected'[r] = hostPID[r]
      /\ l = "remove" => failed'[r]
  <2>1. CASE Goto(r, "hook") /\ inspected' = [inspected EXCEPT ![r] = hostPID[r]] /\ UNCHANGED failed
    BY <1>0, <1>2, <2>1 DEF Goto, TypeOK
  <2>2. CASE Fail(r, "remove") /\ UNCHANGED inspected
    BY <1>0, <1>2, <2>2 DEF Goto, Fail, TypeOK
  <2> QED
    BY <2>1, <2>2 DEF DockerInspect
<1>4. TypeOK'
  <2>1. pc' \in [Requests -> InSandbox \cup {"new", "rejected", "verified", "report", "done"}]
    BY <1>0, <1>1 DEF TypeOK, InSandbox, Goto
  <2> QED
    BY <1>0, <1>3, <2>1 DEF TypeOK, DockerInspect
<1>5. Request(r)'
  BY <1>0, <1>2, <1>3 DEF Request, Before, After, DockerInspect
<1>6. Locks'
  BY <1>0, <1>2, LocksKeep DEF DockerInspect
<1> QED
  BY <1>0, <1>1, <1>3, <1>4, <1>5, <1>6, SandboxStepKeeps DEF DockerInspect, InSandbox

\* The hook (main.go:252-256, controller.go:143-190): the entry it makes is the request's
\* to remove, whether it waits next or fails.
LEMMA RegisterPreserves ==
  ASSUME GateInv, NEW r \in Requests, RegisterSandboxPID(r)
  PROVE  GateInv'
<1> USE DEF env, box, controller
<1>0. TypeOK /\ Request(r) /\ pc[r] = "hook"
  BY DEF GateInv, RegisterSandboxPID
<1>1. PICK l \in {"wait", "remove"} :
         /\ Goto(r, l)
         /\ \/ l = "wait" /\ initErr # "nil" /\ UNCHANGED <<locked, failed>>
            \/ l = "wait" /\ locked' = locked \cup {inspected[r]} /\ UNCHANGED failed
                 /\ initErr = "nil"
            \/ l = "remove" /\ Fail(r, "remove") /\ UNCHANGED locked
  <2> DEFINE entries == locked \cup {inspected[r]}
  <2>1. CASE initErr # "nil" /\ Goto(r, "wait") /\ UNCHANGED <<locked, failed>>
    BY <2>1
  <2>2. CASE initErr = "nil" /\ locked' = entries /\ Goto(r, "wait") /\ UNCHANGED failed
    BY <2>2
  <2>3. CASE Fail(r, "remove") /\ UNCHANGED locked
    BY <2>3 DEF Fail
  <2> QED
    BY <2>1, <2>2, <2>3 DEF RegisterSandboxPID
<1>2. pc'[r] = l /\ \A q \in Requests \ {r} : pc'[q] = pc[q]
  BY <1>0, <1>1 DEF Goto, TypeOK
<1>3. inspected[r] = hostPID[r] /\ hostPID[r] \in PIDs
  BY <1>0 DEF Request
<1>4. /\ targetPID' \in [Requests -> PIDs \cup {0}] /\ targetPID'[r] = hostPID[r]
      /\ \A q \in Requests \ {r} : targetPID'[q] = targetPID[q]
  BY <1>0, <1>3 DEF RegisterSandboxPID, TypeOK
<1>5. /\ failed' \in [Requests -> BOOLEAN]
      /\ \A q \in Requests \ {r} : failed'[q] = failed[q]
      /\ l = "remove" => failed'[r]
  BY <1>0, <1>1 DEF Fail, TypeOK
<1>6. TypeOK'
  <2>1. pc' \in [Requests -> InSandbox \cup {"new", "rejected", "verified", "report", "done"}]
    BY <1>0, <1>1 DEF TypeOK, InSandbox, Goto
  <2>2. locked' \subseteq PIDs
    BY <1>0, <1>1, <1>3 DEF TypeOK
  <2> QED
    BY <1>0, <1>4, <1>5, <2>1, <2>2 DEF TypeOK, RegisterSandboxPID
<1>7. hostPID[r] # 0
  BY <1>3, GatewayAssumption
<1>8. Request(r)'
  BY <1>0, <1>2, <1>4, <1>5, <1>7 DEF Request, Before, After, RegisterSandboxPID
<1>9. Locks'
  <2>1. /\ UNCHANGED <<initErr, hostPID>>
        /\ locked \subseteq locked' /\ locked' \subseteq locked \cup {hostPID[r]}
        /\ locked' # locked => l = "wait" /\ initErr = "nil"
        /\ l = "wait" /\ initErr = "nil" => hostPID[r] \in locked'
    BY <1>1, <1>3 DEF RegisterSandboxPID
  <2>2. locked' # {} => initErr' = "nil"
    BY <2>1 DEF GateInv, Locks
  <2>3. NoStaleLock'
    <3> SUFFICES ASSUME NEW p \in locked'
                 PROVE  \E q \in Requests : targetPID'[q] = p
                           /\ pc'[q] \in {"wait", "remove", "sweep", "unlock"}
      BY DEF NoStaleLock
    <3>1. CASE p \in locked
      BY <1>0, <1>2, <1>4, <3>1 DEF GateInv, Locks, NoStaleLock
    <3>2. CASE p \notin locked
      BY <1>2, <1>4, <2>1, <3>2
    <3> QED
      BY <3>1, <3>2
  <2>4. ASSUME NEW q \in Requests, pc'[q] = "wait", initErr' = "nil", Alone(q)'
        PROVE  targetPID'[q] \in locked'
    <3>1. CASE q = r
      BY <1>2, <1>4, <2>1, <2>4, <3>1
    <3>2. CASE q # r
      <4>1. pc[q] = "wait" /\ initErr = "nil" /\ Alone(q)
        BY <1>2, <2>1, <2>4, <3>2 DEF Alone
      <4> QED
        BY <1>4, <2>1, <3>2, <4>1 DEF GateInv, Locks
    <3> QED
      BY <3>1, <3>2
  <2> QED
    BY <2>2, <2>3, <2>4 DEF Locks
<1> QED
  BY <1>0, <1>1, <1>4, <1>5, <1>6, <1>8, <1>9, SandboxStepKeeps DEF RegisterSandboxPID, InSandbox

\* DockerWait, the deferred DockerRemove and RemoveScratch (sandbox.go:48-49, 121-126,
\* 146-185): each leaves one thing less.
LEMMA CleanupPreserves ==
  ASSUME GateInv, NEW r \in Requests, DockerWait(r) \/ DockerRemove(r) \/ RemoveScratch(r)
  PROVE  GateInv'
<1> USE DEF env, box, controller
<1>0. TypeOK /\ Request(r) /\ pc[r] \in {"wait", "remove", "sweep"}
  BY DEF GateInv, DockerWait, DockerRemove, RemoveScratch
<1>1. PICK l \in {"remove", "sweep", "unlock"} :
         /\ Goto(r, l)
         /\ \/ l = "remove" /\ DockerWait(r)
            \/ l = "sweep" /\ DockerRemove(r)
            \/ l = "unlock" /\ RemoveScratch(r)
  BY DEF DockerWait, DockerRemove, RemoveScratch
<1>2. pc'[r] = l /\ \A q \in Requests \ {r} : pc'[q] = pc[q]
  BY <1>0, <1>1 DEF Goto, TypeOK
<1>3. /\ UNCHANGED <<lockedMap, initErr, verified, input, locked, active, targetPID, inspected,
                     hostPID, network, failed, audit>>
      /\ stalled \subseteq stalled' /\ stalled' \subseteq Requests
  BY <1>0 DEF DockerWait, DockerRemove, RemoveScratch, TypeOK
<1>4. /\ container' \in [Requests -> {"none", "running", "exited", "removed"}]
      /\ \A q \in Requests \ {r} : container'[q] = container[q]
      /\ l # "sweep" => UNCHANGED <<container, stalled>>
      /\ container'[r] \in {container[r], "removed"}
      /\ l = "sweep" => container'[r] = "removed" \/ r \in stalled'
  BY <1>0, <1>1 DEF DockerWait, DockerRemove, RemoveScratch, TypeOK
<1>5. /\ scratch' \in [Requests -> {"none", "made", "sealed"}]
      /\ \A q \in Requests \ {r} : scratch'[q] = scratch[q]
      /\ l = "unlock" => (scratch'[r] # "none" => scratch'[r] = "sealed" /\ ~Root)
  BY <1>0, <1>1 DEF DockerWait, DockerRemove, RemoveScratch, TypeOK
<1>6. TypeOK'
  <2>1. pc' \in [Requests -> InSandbox \cup {"new", "rejected", "verified", "report", "done"}]
    BY <1>0, <1>1 DEF TypeOK, InSandbox, Goto
  <2> QED
    BY <1>0, <1>3, <1>4, <1>5, <2>1 DEF TypeOK
<1>7. Request(r)'
  <2>1. CASE l = "remove"
    BY <1>0, <1>1, <1>2, <1>3, <1>4, <2>1 DEF Request, Before, After, DockerWait
  <2>2. CASE l = "sweep"
    BY <1>0, <1>1, <1>2, <1>3, <1>4, <2>2 DEF Request, Before, After, DockerRemove
  <2>3. CASE l = "unlock"
    BY <1>0, <1>1, <1>2, <1>3, <1>4, <1>5, <2>3 DEF Request, Before, After, RemoveScratch
  <2> QED
    BY <2>1, <2>2, <2>3
<1>8. Locks'
  BY <1>0, <1>2, <1>3, LocksKeep
<1> QED
  BY <1>0, <1>1, <1>3, <1>4, <1>5, <1>6, <1>7, <1>8, SandboxStepKeeps DEF InSandbox

\* RemoveSandboxPID (main.go:258-261, controller.go:192-225): the request's own entry goes;
\* a request that waits with the same PID is not alone.
LEMMA UnlockPreserves ==
  ASSUME GateInv, NEW r \in Requests, RemoveSandboxPID(r)
  PROVE  GateInv'
<1> USE DEF env, box, controller
<1>0. TypeOK /\ Request(r) /\ pc[r] = "unlock"
  BY DEF GateInv, RemoveSandboxPID
<1>1. /\ Goto(r, "deactivate")
      /\ UNCHANGED <<lockedMap, initErr, verified, input, active, targetPID, inspected,
                     scratch, container, hostPID, network, stalled, failed, audit>>
      /\ locked' \in {locked, locked \ {targetPID[r]}}
      /\ targetPID[r] > 0 /\ initErr = "nil" => locked' = locked \ {targetPID[r]}
  BY DEF RemoveSandboxPID
<1>2. pc'[r] = "deactivate" /\ \A q \in Requests \ {r} : pc'[q] = pc[q]
  BY <1>0, <1>1 DEF Goto, TypeOK
<1>3. targetPID[r] \notin locked'
  <2>1. CASE locked = {}
    BY <1>1, <2>1
  <2>2. CASE targetPID[r] = 0
    BY <1>0, <1>1, <2>2, GatewayAssumption DEF TypeOK
  <2>3. CASE locked # {} /\ targetPID[r] # 0
    <3>1. initErr = "nil" /\ targetPID[r] \in Nat \ {0}
      BY <1>0, <2>3, GatewayAssumption DEF GateInv, Locks, TypeOK
    <3> QED
      BY <1>1, <3>1
  <2> QED
    BY <2>1, <2>2, <2>3
<1>4. TypeOK'
  <2>1. pc' \in [Requests -> InSandbox \cup {"new", "rejected", "verified", "report", "done"}]
    BY <1>0, <1>1 DEF TypeOK, InSandbox, Goto
  <2> QED
    BY <1>0, <1>1, <2>1 DEF TypeOK
<1>5. Request(r)'
  BY <1>0, <1>1, <1>2 DEF Request, Before, After
<1>6. Locks'
  <2>1. locked' \subseteq locked
    BY <1>1
  <2>2. NoStaleLock'
    BY <1>1, <1>2, <1>3, <2>1 DEF GateInv, Locks, NoStaleLock
  <2>3. ASSUME NEW q \in Requests, pc'[q] = "wait", initErr = "nil", Alone(q)'
        PROVE  targetPID[q] \in locked'
    <3>1. q # r /\ pc[q] = "wait" /\ Alone(q) /\ Request(q)
      BY <1>1, <1>2, <2>3 DEF Alone, GateInv
    <3>2. targetPID[q] \in locked
      BY <2>3, <3>1 DEF GateInv, Locks
    <3>3. targetPID[q] # targetPID[r]
      BY <1>0, <3>1 DEF Request, Alone
    <3> QED
      BY <1>1, <3>2, <3>3
  <2> QED
    BY <1>1, <2>1, <2>2, <2>3 DEF GateInv, Locks
<1> QED
  BY <1>0, <1>1, <1>4, <1>5, <1>6, SandboxStepKeeps DEF InSandbox

\* Deactivate (main.go:262, 366).
LEMMA DeactivatePreserves ==
  ASSUME GateInv, NEW r \in Requests, Deactivate(r)
  PROVE  GateInv'
<1> USE DEF env, box, controller
<1>0. TypeOK /\ Request(r)
  BY DEF GateInv
<1>1. /\ pc[r] = "deactivate" /\ Goto(r, "report") /\ active' = active - 1
      /\ UNCHANGED <<lockedMap, initErr, verified, input, locked, targetPID, inspected,
                     scratch, container, hostPID, network, stalled, failed, audit>>
  BY DEF Deactivate
<1>2. pc'[r] = "report" /\ \A q \in Requests \ {r} : pc'[q] = pc[q]
  BY <1>0, <1>1 DEF Goto, TypeOK
<1>3. TypeOK'
  <2>1. pc' \in [Requests -> InSandbox \cup {"new", "rejected", "verified", "report", "done"}]
    BY <1>0, <1>1 DEF TypeOK, Goto
  <2> QED
    BY <1>0, <1>1, <2>1 DEF TypeOK
<1>4. Request(r)'
  BY <1>0, <1>1, <1>2 DEF Request, Before, After
<1>5. Locks'
  BY <1>1, <1>2, LocksKeep
<1> QED
  BY <1>1, <1>3, <1>4, <1>5, SandboxStepKeeps DEF InSandbox

\* Respond (main.go:263-283): the third event, a success only if the hook was called.
LEMMA RespondPreserves ==
  ASSUME GateInv, NEW r \in Requests, Respond(r)
  PROVE  GateInv'
<1> USE DEF env, box, controller
<1>0. /\ TypeOK /\ Request(r) /\ (r \notin Playground => Trail(r))
      /\ audit \in [Requests -> Seq(Events)]
  BY DEF GateInv
<1>1. /\ pc[r] = "report" /\ Goto(r, "done")
      /\ Emit(r, <<NewSandboxLaunchEvent(failed[r])>>)
      /\ UNCHANGED <<lockedMap, initErr, verified, input, locked, active, targetPID, inspected,
                     scratch, container, hostPID, network, stalled, failed>>
  BY DEF Respond
<1>2. pc'[r] = "done" /\ \A q \in Requests \ {r} : pc'[q] = pc[q]
  BY <1>0, <1>1 DEF Goto, TypeOK
<1> DEFINE kind == NewSandboxLaunchEvent(failed[r])
<1>3. kind = IF failed[r] THEN "launch_failure" ELSE "launch_success"
  BY DEF NewSandboxLaunchEvent
<1>4. /\ audit' \in [Requests -> Seq(Events)]
      /\ \A q \in Requests \ {r} : audit'[q] = audit[q]
      /\ r \notin Playground => audit'[r] = audit[r] \o <<kind>>
  <2>1. Emit(r, <<kind>>)
    BY <1>1
  <2> HIDE DEF kind
  <2>2. kind \in Events
    BY <1>3 DEF Events
  <2>3. <<kind>> \in Seq(Events)
    BY <2>2
  <2> QED
    BY <1>0, <2>1, <2>3, EmitAppends
<1>5. TypeOK'
  <2>1. pc' \in [Requests -> InSandbox \cup {"new", "rejected", "verified", "report", "done"}]
    BY <1>0, <1>1 DEF TypeOK, Goto
  <2> QED
    BY <1>0, <1>1, <2>1 DEF TypeOK
<1>6. Request(r)'
  BY <1>0, <1>1, <1>2 DEF Request, Before, After
<1>7. Locks'
  BY <1>1, <1>2, LocksKeep
<1>8. ASSUME r \notin Playground PROVE Trail(r)'
  <2> HIDE DEF kind
  <2>1. audit[r] = <<"attestation", "tool_call">> /\ input[r] = {}
    BY <1>0, <1>1, <1>8 DEF Trail
  <2>2. audit'[r] = <<"attestation", "tool_call", kind>>
    BY <1>4, <1>8, <2>1, Append3
  <2>3. failed[r] \/ targetPID[r] # 0
    BY <1>0, <1>1 DEF Request, After
  <2> QED
    BY <1>1, <1>2, <1>3, <2>1, <2>2, <2>3 DEF Trail
<1> QED
  BY <1>0, <1>1, <1>2, <1>4, <1>5, <1>6, <1>7, <1>8, OthersKeep

\* A container ends, and keeps its PID.
LEMMA ContainerEndsPreserves ==
  ASSUME GateInv, NEW r \in Requests, ContainerEnds(r)
  PROVE  GateInv'
<1> USE DEF env, box, controller
<1>0. /\ TypeOK /\ Request(r) /\ (r \notin Playground => Trail(r))
      /\ audit \in [Requests -> Seq(Events)]
  BY DEF GateInv
<1>1. /\ container[r] = "running" /\ container' = [container EXCEPT ![r] = "exited"]
      /\ UNCHANGED <<lockedMap, initErr, verified, input, locked, active, pc, targetPID,
                     inspected, scratch, hostPID, network, stalled, failed, audit>>
  BY DEF ContainerEnds
<1>2. container'[r] = "exited" /\ \A q \in Requests \ {r} : container'[q] = container[q]
  BY <1>0, <1>1 DEF TypeOK
<1>3. TypeOK'
  BY <1>0, <1>1 DEF TypeOK
<1>4. Request(r)'
  BY <1>0, <1>1, <1>2 DEF Request, Before, After
<1>5. Locks'
  BY <1>1 DEF GateInv, Locks, NoStaleLock, Alone
<1>6. r \notin Playground => Trail(r)'
  BY <1>0, <1>1 DEF Trail, Refused
<1> QED
  BY <1>0, <1>1, <1>2, <1>3, <1>4, <1>5, <1>6, OthersKeep

-----------------------------------------------------------------------------

\* Every step keeps the invariant.
LEMMA GateStep == GateInv /\ [Next]_vars => GateInv'
<1> SUFFICES ASSUME GateInv, [Next]_vars PROVE GateInv'
  OBVIOUS
<1>1. CASE LoadCollection \/ AttachTracepoints
  BY <1>1, StartupPreserves
<1>2. ASSUME NEW r \in Requests,
             Malformed(r) \/ RefuseInput(r) \/ RefuseManifest(r) \/ Accept(r) \/ Activate(r)
      PROVE  GateInv'
  BY <1>2, ChecksPreserve
<1>3. ASSUME NEW r \in Requests, HandlerStep(r), ~Activate(r) PROVE GateInv'
  BY <1>3, PrepareScratchPreserves, DockerRunPreserves, DockerInspectPreserves,
     RegisterPreserves, CleanupPreserves, UnlockPreserves, DeactivatePreserves,
     RespondPreserves DEF HandlerStep
<1>4. ASSUME NEW r \in Requests, ContainerEnds(r) PROVE GateInv'
  BY <1>4, ContainerEndsPreserves
<1>5. CASE UNCHANGED vars
  <2>1. UNCHANGED <<lockedMap, initErr, verified, input, locked, active, pc, targetPID,
                    inspected, scratch, container, hostPID, network, stalled, failed, audit>>
    BY <1>5 DEF vars, env, controller, box
  <2>2. TypeOK'
    BY <2>1 DEF GateInv, TypeOK
  <2>3. \A r \in Requests : Request(r)'
    BY <2>1 DEF GateInv, Request
  <2>4. \A r \in Requests \ Playground : Trail(r)'
    BY <2>1 DEF GateInv, Trail, Refused
  <2>5. Locks'
    BY <2>1 DEF GateInv, Locks, NoStaleLock, Alone
  <2> QED
    BY <2>1, <2>2, <2>3, <2>4, <2>5 DEF GateInv
<1> QED
  BY <1>1, <1>2, <1>3, <1>4, <1>5 DEF Next

LEMMA GateInvariant == Spec => []GateInv
<1>1. GateInv /\ [Next]_vars => GateInv'
  BY GateStep
<1> QED
  BY GateInit, <1>1, PTL DEF Spec

\* Every variable keeps its type (main.go:79-106, controller.go:48-58).
THEOREM GatewayTypeCorrect == Spec => []TypeOK
<1>1. GateInv => TypeOK
  BY DEF GateInv
<1> QED
  BY GateInvariant, <1>1, PTL

\* Each entry of the kernel's map belongs to a request that still removes it, whichever way
\* Execute returns (main.go:252-261, controller.go:143-225).
THEOREM MapIsCleaned == Spec => []NoStaleLock
<1>1. GateInv => NoStaleLock
  BY DEF GateInv, Locks
<1> QED
  BY GateInvariant, <1>1, PTL

\* A running container that a handler waits for is locked, unless its PID was another
\* request's (main.go:252-256, sandbox.go:146-158).
THEOREM WaitedIsLocked == Spec => []LockedWhileWaited
<1>1. GateInv => LockedWhileWaited
  <2> SUFFICES ASSUME GateInv, NEW r \in Requests, initErr = "nil", pc[r] = "wait",
                      \A q \in Requests \ {r} : hostPID[q] # hostPID[r]
               PROVE  hostPID[r] \in locked
    BY DEF LockedWhileWaited
  <2>1. targetPID[r] = hostPID[r]
    BY DEF GateInv, Request
  <2>2. targetPID[r] \in locked
    BY DEF GateInv, Locks, Alone
  <2> QED
    BY <2>1, <2>2
<1> QED
  BY GateInvariant, <1>1, PTL

\* No container and no scratch directory outlives its request but for the two excuses
\* (sandbox.go:48-49, 121-126).
THEOREM RequestCleansUp == Spec => []NothingLeftBehind
<1>1. GateInv => NothingLeftBehind
  BY DEF GateInv, Request, NothingLeftBehind, After
<1> QED
  BY GateInvariant, <1>1, PTL

\* A container runs only after its two events, the trail ends with what became of it, and
\* an objection leaves one event and no container (main.go:108-158, 191-283).
THEOREM TrailIsComplete == Spec => []AuditTrail
<1>1. ASSUME GateInv, NEW r \in Requests \ Playground
      PROVE  /\ container[r] # "none" => SubSeq(audit[r], 1, 2) = <<"attestation", "tool_call">>
             /\ pc[r] = "done" => /\ Len(audit[r]) = 3
                                  /\ audit[r][3] = "launch_success" => targetPID[r] > 0
             /\ input[r] # {} => container[r] = "none" /\ Refused(r)
  <2>1. TypeOK /\ Request(r) /\ Trail(r)
    BY <1>1 DEF GateInv
  <2>2. container[r] # "none" => pc[r] \notin Before
    BY <2>1 DEF Request
  <2>3. ASSUME container[r] # "none"
        PROVE  SubSeq(audit[r], 1, 2) = <<"attestation", "tool_call">>
    <3>1. pc[r] \notin {"new", "rejected"}
      BY <2>2, <2>3 DEF Before
    <3>2. \/ audit[r] = <<"attestation", "tool_call">>
          \/ audit[r] = <<"attestation", "tool_call", "launch_failure">>
          \/ audit[r] = <<"attestation", "tool_call", "launch_success">>
      BY <2>1, <3>1 DEF Trail
    <3>3. audit[r][1] = "attestation" /\ audit[r][2] = "tool_call"
      BY <3>2
    <3> QED
      BY <3>3, FirstTwo
  <2>4. ASSUME pc[r] = "done"
        PROVE  Len(audit[r]) = 3 /\ (audit[r][3] = "launch_success" => targetPID[r] > 0)
    <3>1. targetPID[r] \in PIDs \cup {0}
      BY <2>1 DEF TypeOK
    <3>2. CASE audit[r] = <<"attestation", "tool_call", "launch_failure">>
      BY <3>2
    <3>3. CASE audit[r] = <<"attestation", "tool_call", "launch_success">> /\ targetPID[r] # 0
      <4>1. targetPID[r] > 0
        <5>1. targetPID[r] # 0
          BY <3>3
        <5>2. PIDs \subseteq Nat
          BY GatewayAssumption
        <5>3. targetPID[r] \in PIDs
          BY <3>1, <5>1
        <5>4. targetPID[r] \in Nat
          BY <5>2, <5>3
        <5> QED
          BY <5>1, <5>4
      <4>2. Len(audit[r]) = 3
        BY <3>3
      <4> QED
        BY <4>1, <4>2
    <3> QED
      BY <2>1, <2>4, <3>2, <3>3 DEF Trail
  <2>5. ASSUME input[r] # {} PROVE container[r] = "none" /\ Refused(r)
    <3>1. pc[r] = "rejected"
      BY <2>1, <2>5 DEF Trail
    <3> QED
      BY <2>1, <2>5, <3>1 DEF Trail, Request, Before
  <2> QED
    BY <2>3, <2>4, <2>5
<1>2. GateInv => AuditTrail
  BY <1>1 DEF AuditTrail, Refused
<1> QED
  BY GateInvariant, <1>2, PTL

-----------------------------------------------------------------------------

(***************************************************************************)
(* The counters are atomic and agree with the handlers under way, as long  *)
(* as these are finitely many.                                             *)
(***************************************************************************)
Entered == {r \in Requests : pc[r] \in InSandbox}

Admitted == {r \in Requests : pc[r] \notin {"new", "rejected"}}

\* What a step of one request does to the two sets.
LEMMA CountsMove ==
  ASSUME IsFiniteSet(Requests), CountsExact, active \in Int, verified \in Nat,
         NEW r \in Requests,
         \A q \in Requests \ {r} : pc'[q] = pc[q],
         active' - active = (IF r \in Entered' THEN 1 ELSE 0) - (IF r \in Entered THEN 1 ELSE 0),
         r \in Admitted => r \in Admitted',
         verified' - verified = IF r \in Admitted' \ Admitted THEN 1 ELSE 0,
         active' \in Int, verified' \in Int
  PROVE  CountsExact'
<1>1. IsFiniteSet(Entered) /\ IsFiniteSet(Admitted)
  BY FS_Subset DEF Entered, Admitted
<1>2. Cardinality(Entered) \in Nat /\ Cardinality(Admitted) \in Nat
  BY <1>1, FS_CardinalityType
<1>3. active = Cardinality(Entered) /\ verified = Cardinality(Admitted)
  BY DEF CountsExact, Entered, Admitted
<1>4. active' = Cardinality(Entered')
  <2>1. CASE r \in Entered <=> r \in Entered'
    <3>1. Entered' = Entered
      BY <2>1 DEF Entered
    <3> QED
      BY <1>3, <2>1, <3>1
  <2>2. CASE r \in Entered' /\ r \notin Entered
    <3>1. Entered' = Entered \cup {r}
      BY <2>2 DEF Entered
    <3>2. Cardinality(Entered \cup {r}) = Cardinality(Entered) + 1
      BY <1>1, <2>2, FS_AddElement
    <3> QED
      BY <1>2, <1>3, <2>2, <3>1, <3>2
  <2>3. CASE r \notin Entered' /\ r \in Entered
    <3>1. Entered' = Entered \ {r}
      BY <2>3 DEF Entered
    <3>2. Cardinality(Entered \ {r}) = Cardinality(Entered) - 1
      BY <1>1, <2>3, FS_RemoveElement
    <3> QED
      BY <1>2, <1>3, <2>3, <3>1, <3>2
  <2> QED
    BY <2>1, <2>2, <2>3
<1>5. verified' = Cardinality(Admitted')
  <2>1. CASE r \in Admitted <=> r \in Admitted'
    <3>1. Admitted' = Admitted
      BY <2>1 DEF Admitted
    <3> QED
      BY <1>2, <1>3, <2>1, <3>1
  <2>2. CASE r \in Admitted' /\ r \notin Admitted
    <3>1. Admitted' = Admitted \cup {r}
      BY <2>2 DEF Admitted
    <3>2. Cardinality(Admitted \cup {r}) = Cardinality(Admitted) + 1
      BY <1>1, <2>2, FS_AddElement
    <3> QED
      BY <1>2, <1>3, <2>2, <3>1, <3>2
  <2> QED
    BY <2>1, <2>2
<1> QED
  BY <1>4, <1>5 DEF CountsExact, Entered, Admitted

LEMMA CountsStep ==
  IsFiniteSet(Requests) /\ GateInv /\ CountsExact /\ [Next]_vars => CountsExact'
<1> SUFFICES ASSUME IsFiniteSet(Requests), GateInv, CountsExact, [Next]_vars
             PROVE  CountsExact'
  OBVIOUS
<1> USE DEF env, box, controller
<1>0. TypeOK /\ TypeOK' /\ active \in Int /\ verified \in Nat /\ active' \in Int /\ verified' \in Int
  BY GateStep DEF GateInv, TypeOK
<1>1. CASE UNCHANGED <<pc, active, verified>>
  BY <1>1 DEF CountsExact
<1>2. ASSUME NEW r \in Requests, NEW l, Goto(r, l),
             \/ pc[r] = "new" /\ l = "rejected" /\ UNCHANGED <<active, verified>>
             \/ pc[r] = "new" /\ l = "verified" /\ verified' = verified + 1 /\ UNCHANGED active
             \/ pc[r] = "verified" /\ l = "scratch" /\ active' = active + 1 /\ UNCHANGED verified
             \/ pc[r] \in InSandbox /\ l \in InSandbox /\ UNCHANGED <<active, verified>>
             \/ pc[r] = "deactivate" /\ l = "report" /\ active' = active - 1 /\ UNCHANGED verified
             \/ pc[r] = "report" /\ l = "done" /\ UNCHANGED <<active, verified>>
      PROVE  CountsExact'
  <2>1. pc'[r] = l /\ \A q \in Requests \ {r} : pc'[q] = pc[q]
    BY <1>0, <1>2 DEF Goto, TypeOK
  <2>2. /\ active' - active = (IF r \in Entered' THEN 1 ELSE 0) - (IF r \in Entered THEN 1 ELSE 0)
        /\ r \in Admitted => r \in Admitted'
        /\ verified' - verified = IF r \in Admitted' \ Admitted THEN 1 ELSE 0
    <3>1. /\ r \in Entered <=> pc[r] \in InSandbox
          /\ r \in Entered' <=> l \in InSandbox
          /\ r \in Admitted <=> pc[r] \notin {"new", "rejected"}
          /\ r \in Admitted' <=> l \notin {"new", "rejected"}
      BY <2>1 DEF Entered, Admitted
    <3>2. {"new", "rejected", "verified", "report", "done"} \cap InSandbox = {}
      BY DEF InSandbox
    <3>3. CASE pc[r] = "new" /\ l = "rejected" /\ UNCHANGED <<active, verified>>
      BY <1>0, <3>1, <3>2, <3>3
    <3>4. CASE pc[r] = "new" /\ l = "verified" /\ verified' = verified + 1 /\ UNCHANGED active
      BY <1>0, <3>1, <3>2, <3>4
    <3>5. CASE pc[r] = "verified" /\ l = "scratch" /\ active' = active + 1 /\ UNCHANGED verified
      BY <1>0, <3>1, <3>2, <3>5 DEF InSandbox
    <3>6. CASE pc[r] \in InSandbox /\ l \in InSandbox /\ UNCHANGED <<active, verified>>
      BY <1>0, <3>1, <3>2, <3>6
    <3>7. CASE pc[r] = "deactivate" /\ l = "report" /\ active' = active - 1 /\ UNCHANGED verified
      BY <1>0, <3>1, <3>2, <3>7 DEF InSandbox
    <3>8. CASE pc[r] = "report" /\ l = "done" /\ UNCHANGED <<active, verified>>
      BY <1>0, <3>1, <3>2, <3>8
    <3> QED
      BY <1>2, <3>3, <3>4, <3>5, <3>6, <3>7, <3>8
  <2> QED
    BY <1>0, <2>1, <2>2, CountsMove
<1>3. CASE LoadCollection \/ AttachTracepoints
  BY <1>1, <1>3 DEF LoadCollection, AttachTracepoints
<1>4. ASSUME NEW r \in Requests,
             Malformed(r) \/ RefuseInput(r) \/ RefuseManifest(r) \/ Accept(r) \/ Activate(r)
      PROVE  CountsExact'
  BY <1>2, <1>4 DEF Malformed, RefuseInput, RefuseManifest, Accept, Activate
<1>5. ASSUME NEW r \in Requests, HandlerStep(r), ~Activate(r) PROVE CountsExact'
  <2>1. CASE Deactivate(r) \/ Respond(r)
    BY <1>2, <2>1 DEF Deactivate, Respond
  <2>2. CASE ~(Deactivate(r) \/ Respond(r))
    <3>1. UNCHANGED <<active, verified>> /\ pc[r] \in InSandbox /\ \E l \in InSandbox : Goto(r, l)
      BY <1>5, <2>2 DEF HandlerStep, PrepareScratch, DockerRun, DockerInspect,
         RegisterSandboxPID, DockerWait, DockerRemove, RemoveScratch, RemoveSandboxPID, Fail,
         InSandbox
    <3> QED
      BY <1>2, <3>1
  <2> QED
    BY <2>1, <2>2
<1>6. ASSUME NEW r \in Requests, ContainerEnds(r) PROVE CountsExact'
  BY <1>1, <1>6 DEF ContainerEnds
<1>7. CASE UNCHANGED vars
  BY <1>1, <1>7 DEF vars
<1> QED
  BY <1>3, <1>4, <1>5, <1>6, <1>7 DEF Next

\* The metrics agree with the handlers on every path (main.go:240-262, 354-366).
THEOREM MetricsAgree ==
  ASSUME IsFiniteSet(Requests)
  PROVE  Spec => []CountsExact
<1>1. Init => CountsExact
  <2> SUFFICES ASSUME Init PROVE CountsExact
    OBVIOUS
  <2>1. Entered = {} /\ Admitted = {}
    BY DEF Init, Entered, Admitted, InSandbox
  <2> QED
    BY <2>1, FS_EmptySet DEF Init, CountsExact, Entered, Admitted
<1>2. GateInv /\ CountsExact /\ [Next]_vars => CountsExact'
  BY CountsStep
<1> QED
  BY GateInvariant, <1>1, <1>2, PTL DEF Spec

=============================================================================

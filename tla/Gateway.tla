------------------------------- MODULE Gateway -------------------------------
(***************************************************************************)
(* A request's life in the gateway: handleIntercept and                    *)
(* handlePlaygroundRun (main.go), SandboxManager.Execute                   *)
(* (sandbox/sandbox.go) and the PID registry of the eBPF controller        *)
(* (ebpf/controller.go).                                                   *)
(*                                                                         *)
(* net/http serves each request in a goroutine of its own, so Requests are *)
(* also the processes.  Docker and the kernel are external: a container    *)
(* gets a host PID when it starts, may end at any moment, and its PID may  *)
(* then be given to another process.  What the validator decides is left   *)
(* open here; ProvenanceValidator models it.                               *)
(***************************************************************************)
EXTENDS Integers, Sequences, FiniteSets

CONSTANTS
    Requests,         \* the requests, each served once
    Playground,       \* those sent to /api/v1/playground/run
    PIDs,             \* host process ids of containers
    MapCapacity,      \* max_entries of the locked_sandboxes map
    AttachFails,      \* attaching a tracepoint may fail after the maps are loaded
    Root,             \* the gateway runs as root
    Recycle,          \* the kernel gives the PID of an ended container out again
    DockerStalls      \* docker run and docker rm may hit their deadlines

ASSUME GatewayAssumption ==
    /\ Playground \subseteq Requests
    /\ PIDs \subseteq Nat \ {0}
    /\ MapCapacity \in Nat
    /\ AttachFails \in BOOLEAN
    /\ Root \in BOOLEAN /\ Recycle \in BOOLEAN /\ DockerStalls \in BOOLEAN

VARIABLES
    lockedMap,  \* the lockedMap handle is set
    initErr,    \* controllerInitErr: "pending" while main starts up, "nil" or "error"
    locked,     \* the keys of the locked_sandboxes map
    verified,   \* VerifiedSignaturesCount
    active,     \* ActiveSandboxesCount
    pc,         \* where each request stands
    targetPID,  \* the PID the hook was called with, 0 before
    inspected,  \* the PID docker inspect answered
    scratch,    \* the scratch directory: "none", "made", "sealed" (mode 0500)
    container,  \* the container: "none", "running", "exited", "removed"
    hostPID,    \* the PID the container had
    network,    \* its network mode
    failed,     \* Execute returns an error
    stalled,    \* history: a docker command that starts or removes it was killed
    audit,      \* the OCSF events submitted for the request, in order
    input       \* history: what scrubInput objected to

controller == <<lockedMap, initErr>>
env == <<controller, verified, input>>
box == <<container, hostPID, network, stalled>>
vars == <<env, locked, active, pc, targetPID, inspected, scratch, box, failed, audit>>

Init ==
    /\ lockedMap = FALSE /\ initErr = "pending"
    /\ locked = {} /\ verified = 0 /\ active = 0
    /\ pc = [r \in Requests |-> "new"]
    /\ targetPID = [r \in Requests |-> 0]
    /\ inspected = [r \in Requests |-> 0]
    /\ scratch = [r \in Requests |-> "none"]
    /\ container = [r \in Requests |-> "none"]
    /\ hostPID = [r \in Requests |-> 0]
    /\ network = [r \in Requests |-> "none"]
    /\ failed = [r \in Requests |-> FALSE]
    /\ stalled = {}
    /\ audit = [r \in Requests |-> << >>]
    /\ input = [r \in Requests |-> {}]

Goto(r, l) == pc' = [pc EXCEPT ![r] = l]

Emit(r, kinds) ==
    audit' = [audit EXCEPT ![r] = IF r \in Playground THEN @ ELSE @ \o kinds]

\* Execute returns an error: control goes to its deferred functions.
Fail(r, l) == failed' = [failed EXCEPT ![r] = TRUE] /\ Goto(r, l)

-----------------------------------------------------------------------------
(***************************************************************************)
(* InitNativeController, which main calls once before it serves: load the  *)
(* collection and keep the map handles, then attach the two tracepoints.   *)
(* Later calls return controllerInitErr.                                   *)
(***************************************************************************)
LoadCollection ==
    /\ initErr = "pending" /\ ~lockedMap
    /\ \/ lockedMap' = TRUE /\ UNCHANGED initErr
       \/ initErr' = "error" /\ UNCHANGED lockedMap
    /\ UNCHANGED <<verified, locked, active, pc, targetPID, inspected, scratch, box, failed,
                   audit, input>>

AttachTracepoints ==
    /\ initErr = "pending" /\ lockedMap
    /\ \/ initErr' = "nil"
       \/ AttachFails /\ initErr' = "error"
    /\ UNCHANGED <<lockedMap, verified, locked, active, pc, targetPID, inspected, scratch,
                   box, failed, audit, input>>

Serving == initErr # "pending"

(***************************************************************************)
(* scrubInput objects to a null byte in the script before it looks at the  *)
(* variables; those it visits in the order of a map, so that any objection *)
(* may be the one its error names.  An odd key has a character that %q     *)
(* writes as \x.., \a, \v or \U........; other objections to a key, and    *)
(* those to values and array elements, are "text".                         *)
(***************************************************************************)
Objections == {"script", "odd key", "text"}

scrubInput(o) == IF "script" \in o THEN {"script"} ELSE o

\* RawData holds the reason as Go quotes it, when there is a payload; what is no JSON
\* then makes Marshal fail: TelemetryEngine has the event among its Malformed.
NewValidationFailEvent(reason, raw) ==
    IF raw /\ reason = "odd key" THEN "unwritable" ELSE "validation_fail"

NewSandboxLaunchEvent(error) == IF error THEN "launch_failure" ELSE "launch_success"

(***************************************************************************)
(* The checks before the sandbox.  A malformed request is answered without *)
(* an event; one that fails scrubbing, manifest, drift or Verify with a    *)
(* validation_fail event.  The playground has no variables, makes its own  *)
(* manifest and emits no events at all.                                    *)
(***************************************************************************)
Malformed(r) ==
    /\ Serving /\ pc[r] = "new"
    /\ Goto(r, "rejected")
    /\ UNCHANGED <<env, locked, active, targetPID, inspected, scratch, box, failed, audit>>

RefuseInput(r) ==
    /\ Serving /\ pc[r] = "new"
    /\ Goto(r, "rejected")
    /\ \E o \in (IF r \in Playground THEN {{"script"}} ELSE (SUBSET Objections) \ {{}}) :
          /\ input' = [input EXCEPT ![r] = o]
          /\ \E reason \in scrubInput(o) : Emit(r, <<NewValidationFailEvent(reason, TRUE)>>)
    /\ UNCHANGED <<controller, verified, locked, active, targetPID, inspected, scratch, box,
                   failed>>

RefuseManifest(r) ==
    /\ Serving /\ pc[r] = "new"
    /\ Goto(r, "rejected")
    /\ \E raw \in BOOLEAN : Emit(r, <<NewValidationFailEvent("manifest", raw)>>)
    /\ UNCHANGED <<env, locked, active, targetPID, inspected, scratch, box, failed>>

\* Mutant: the tool call is reported before the attestation.
AcceptSwapped(r) ==
    /\ Serving /\ pc[r] = "new"
    /\ verified' = verified + 1
    /\ Goto(r, "verified")
    /\ Emit(r, <<"tool_call", "attestation">>)
    /\ UNCHANGED <<controller, input, locked, active, targetPID, inspected, scratch, box,
                   failed>>

Accept(r) ==
    /\ Serving /\ pc[r] = "new"
    /\ verified' = verified + 1
    /\ Goto(r, "verified")
    /\ Emit(r, <<"attestation", "tool_call">>)
    /\ UNCHANGED <<controller, input, locked, active, targetPID, inspected, scratch, box,
                   failed>>

Activate(r) ==
    /\ pc[r] = "verified"
    /\ active' = active + 1
    /\ Goto(r, "scratch")
    /\ UNCHANGED <<env, locked, targetPID, inspected, scratch, box, failed, audit>>

-----------------------------------------------------------------------------
(***************************************************************************)
(* Execute.  The scratch directory is made, filled and sealed, or a step   *)
(* of that fails; RemoveAll is deferred as soon as it exists.              *)
(***************************************************************************)
PrepareScratch(r) ==
    /\ pc[r] = "scratch"
    /\ \/ /\ scratch' = [scratch EXCEPT ![r] = "sealed"]
          /\ Goto(r, "run")
          /\ UNCHANGED failed
       \/ /\ scratch' \in {scratch, [scratch EXCEPT ![r] = "made"]}
          /\ Fail(r, "sweep")
    /\ UNCHANGED <<env, locked, active, targetPID, inspected, box, audit>>

\* ebpf.IsActive: the map handle is set.
IsActive == lockedMap

\* PIDs the kernel can give out: no live process has them and, if they are not
\* recycled, none ever had.
Recycled(r) == Recycle /\ container[r] # "running"

FreePIDs == PIDs \ {hostPID[r] : r \in {q \in Requests : ~Recycled(q)}}

Start(r) ==
    /\ \E p \in FreePIDs : hostPID' = [hostPID EXCEPT ![r] = p]
    /\ container' = [container EXCEPT ![r] = "running"]
    /\ network' = [network EXCEPT ![r] = IF IsActive THEN "bridge" ELSE "none"]

\* docker run -d.  It starts the container; or it fails; or its client is killed
\* at the deadline although the daemon has started the container.  In the last
\* two cases Execute returns before docker rm is deferred.
DockerRun(r) ==
    /\ pc[r] = "run"
    /\ \/ Start(r) /\ Goto(r, "inspect") /\ UNCHANGED <<failed, stalled>>
       \/ Fail(r, "sweep") /\ UNCHANGED box
       \/ DockerStalls /\ Start(r) /\ Fail(r, "sweep") /\ stalled' = stalled \cup {r}
    /\ UNCHANGED <<env, locked, active, targetPID, inspected, scratch, audit>>

\* docker inspect: an error, or the PID, which is 0 once the container has ended.
DockerInspect(r) ==
    /\ pc[r] = "inspect"
    /\ \/ /\ container[r] = "running"
          /\ inspected' = [inspected EXCEPT ![r] = hostPID[r]]
          /\ Goto(r, "hook")
          /\ UNCHANGED failed
       \/ Fail(r, "remove") /\ UNCHANGED inspected
    /\ UNCHANGED <<env, locked, active, targetPID, scratch, box, audit>>

\* Mutant: the error of a full map is ignored.
RegisterUnchecked(r) ==
    /\ pc[r] = "hook"
    /\ targetPID' = [targetPID EXCEPT ![r] = inspected[r]]
    /\ LET entries == locked \cup {inspected[r]} IN
       locked' = IF initErr = "nil" /\ Cardinality(entries) <= MapCapacity THEN entries
                                                                          ELSE locked
    /\ Goto(r, "wait")
    /\ UNCHANGED <<env, active, inspected, scratch, box, failed, audit>>

\* Mutant: the hook registers targetPID before it is assigned.
RegisterUnassigned(r) ==
    /\ pc[r] = "hook"
    /\ targetPID' = [targetPID EXCEPT ![r] = inspected[r]]
    /\ locked' = IF initErr = "nil" THEN locked \cup {targetPID[r]} ELSE locked
    /\ Goto(r, "wait")
    /\ UNCHANGED <<env, active, inspected, scratch, box, failed, audit>>

\* The hook and RegisterSandboxPID: bypassed when the controller did not come up,
\* an error when the map is full.
RegisterSandboxPID(r) ==
    /\ pc[r] = "hook"
    /\ targetPID' = [targetPID EXCEPT ![r] = inspected[r]]
    /\ LET entries == locked \cup {inspected[r]} IN
       \/ initErr # "nil" /\ Goto(r, "wait") /\ UNCHANGED <<locked, failed>>
       \/ /\ initErr = "nil" /\ Cardinality(entries) <= MapCapacity
          /\ locked' = entries /\ Goto(r, "wait") /\ UNCHANGED failed
       \/ /\ initErr = "nil" /\ Cardinality(entries) > MapCapacity
          /\ Fail(r, "remove") /\ UNCHANGED locked
    /\ UNCHANGED <<env, active, inspected, scratch, box, audit>>

\* Mutant: docker wait runs without the deadline.
DockerWaitForever(r) ==
    /\ pc[r] = "wait"
    /\ container[r] # "running"
    /\ Goto(r, "remove")
    /\ UNCHANGED <<env, locked, active, targetPID, inspected, scratch, box, failed, audit>>

\* docker wait and docker logs: the container has ended, or the deadline passed or
\* the command failed; each gives a Result and no error.
DockerWait(r) ==
    /\ pc[r] = "wait"
    /\ Goto(r, "remove")
    /\ UNCHANGED <<env, locked, active, targetPID, inspected, scratch, box, failed, audit>>

\* Mutant: the container is removed on success only.
DockerRemoveOnSuccess(r) ==
    /\ pc[r] = "remove"
    /\ container' = IF failed[r] THEN container ELSE [container EXCEPT ![r] = "removed"]
    /\ Goto(r, "sweep")
    /\ UNCHANGED <<env, locked, active, targetPID, inspected, scratch, hostPID, network,
                   stalled, failed, audit>>

\* The deferred docker rm -f, whose error is ignored.
DockerRemove(r) ==
    /\ pc[r] = "remove"
    /\ \/ container' = [container EXCEPT ![r] = "removed"] /\ UNCHANGED stalled
       \/ DockerStalls /\ stalled' = stalled \cup {r} /\ UNCHANGED container
    /\ Goto(r, "sweep")
    /\ UNCHANGED <<env, locked, active, targetPID, inspected, scratch, hostPID, network,
                   failed, audit>>

\* The deferred os.RemoveAll, whose error is ignored: only root can unlink from a
\* directory of mode 0500.
RemoveScratch(r) ==
    /\ pc[r] = "sweep"
    /\ scratch' = [scratch EXCEPT ![r] = IF @ = "sealed" /\ ~Root THEN @ ELSE "none"]
    /\ Goto(r, "unlock")
    /\ UNCHANGED <<env, locked, active, targetPID, inspected, box, failed, audit>>

-----------------------------------------------------------------------------
\* Mutant: the playground forgets the cleanup of the map.
RemoveUnlessPlayground(r) ==
    /\ pc[r] = "unlock"
    /\ locked' = IF r \notin Playground /\ initErr = "nil" THEN locked \ {targetPID[r]}
                                                           ELSE locked
    /\ Goto(r, "deactivate")
    /\ UNCHANGED <<env, active, targetPID, inspected, scratch, box, failed, audit>>

(***************************************************************************)
(* Back in the handler: unlock, count down, report, answer.                *)
(***************************************************************************)
RemoveSandboxPID(r) ==
    /\ pc[r] = "unlock"
    /\ locked' = IF targetPID[r] > 0 /\ initErr = "nil" THEN locked \ {targetPID[r]}
                                                           ELSE locked
    /\ Goto(r, "deactivate")
    /\ UNCHANGED <<env, active, targetPID, inspected, scratch, box, failed, audit>>

\* Mutant: an error return skips the decrement.
DeactivateOnSuccess(r) ==
    /\ pc[r] = "deactivate"
    /\ active' = IF failed[r] THEN active ELSE active - 1
    /\ Goto(r, "report")
    /\ UNCHANGED <<env, locked, targetPID, inspected, scratch, box, failed, audit>>

Deactivate(r) ==
    /\ pc[r] = "deactivate"
    /\ active' = active - 1
    /\ Goto(r, "report")
    /\ UNCHANGED <<env, locked, targetPID, inspected, scratch, box, failed, audit>>

Respond(r) ==
    /\ pc[r] = "report"
    /\ Emit(r, <<NewSandboxLaunchEvent(failed[r])>>)
    /\ Goto(r, "done")
    /\ UNCHANGED <<env, locked, active, targetPID, inspected, scratch, box, failed>>

(***************************************************************************)
(* The container ends by itself, or is killed.                             *)
(***************************************************************************)
ContainerEnds(r) ==
    /\ container[r] = "running"
    /\ container' = [container EXCEPT ![r] = "exited"]
    /\ UNCHANGED <<env, locked, active, pc, targetPID, inspected, scratch, hostPID, network,
                   stalled, failed, audit>>

HandlerStep(r) ==
    \/ Activate(r) \/ PrepareScratch(r)
    \/ DockerRun(r) \/ DockerInspect(r) \/ RegisterSandboxPID(r) \/ DockerWait(r)
    \/ DockerRemove(r) \/ RemoveScratch(r)
    \/ RemoveSandboxPID(r) \/ Deactivate(r) \/ Respond(r)

Next ==
    \/ LoadCollection \/ AttachTracepoints
    \/ \E r \in Requests :
          \/ Malformed(r) \/ RefuseInput(r) \/ RefuseManifest(r) \/ Accept(r)
          \/ HandlerStep(r)
          \/ ContainerEnds(r)

(***************************************************************************)
(* Every docker command of Execute runs under a deadline, so a handler     *)
(* that was let in goes on.  Requests need not come and containers need    *)
(* not end.                                                                *)
(***************************************************************************)
Spec == Init /\ [][Next]_vars /\ \A r \in Requests : WF_vars(HandlerStep(r))

-----------------------------------------------------------------------------
(***************************************************************************)
(* Properties                                                              *)
(***************************************************************************)
InSandbox == {"scratch", "run", "inspect", "hook", "wait", "remove", "sweep", "unlock",
              "deactivate"}

\* Every variable has its type (main.go:79-106, controller.go:48-58).
TypeOK ==
    /\ lockedMap \in BOOLEAN /\ initErr \in {"pending", "nil", "error"}
    /\ locked \subseteq PIDs
    /\ verified \in Nat /\ active \in Int
    /\ pc \in [Requests -> InSandbox \cup {"new", "rejected", "verified", "report", "done"}]
    /\ \A f \in {targetPID, inspected, hostPID} : f \in [Requests -> PIDs \cup {0}]
    /\ scratch \in [Requests -> {"none", "made", "sealed"}]
    /\ container \in [Requests -> {"none", "running", "exited", "removed"}]
    /\ network \in [Requests -> {"none", "bridge"}]
    /\ failed \in [Requests -> BOOLEAN] /\ stalled \subseteq Requests
    /\ input \in [Requests -> SUBSET Objections]

\* The metrics agree with the handlers on every path, errors included: active
\* counts those between the two updates (main.go:251, 262, 357, 366), and every
\* one of them is also counted as verified (main.go:240, 354).
CountsExact ==
    /\ active = Cardinality({r \in Requests : pc[r] \in InSandbox})
    /\ verified = Cardinality({r \in Requests : pc[r] \notin {"new", "rejected"}})

\* No PID stays in the kernel map for ever: each entry belongs to a request that
\* still has to remove it (main.go:252-261), whichever way Execute returns.
NoStaleLock ==
    \A p \in locked :
        \E r \in Requests :
            targetPID[r] = p /\ pc[r] \in {"wait", "remove", "sweep", "unlock"}

\* While a handler waits for its running container, the container's PID is in the
\* kernel map (main.go:252-256, sandbox.go:146-158), if the controller is up and the
\* PID was not that of another request's container before.
LockedWhileWaited ==
    \A r \in Requests :
        /\ initErr = "nil" /\ pc[r] = "wait" /\ container[r] = "running"
        /\ \A q \in Requests \ {r} : hostPID[q] # hostPID[r]
        => hostPID[r] \in locked

\* No container outlives its request (sandbox.go:121-126) and no scratch directory
\* does (sandbox.go:48-49), whichever way Execute returns.  The excuses are the two
\* cases the code does not handle: a docker client killed at its deadline, and a
\* sealed directory that an unprivileged gateway cannot empty.
NothingLeftBehind ==
    \A r \in Requests :
        pc[r] = "done" =>
            /\ container[r] = "running" => r \in stalled
            /\ scratch[r] # "none" => scratch[r] = "sealed" /\ ~Root

\* No container of an intercepted request runs before its attestation and tool call
\* were reported (main.go:242-252), and the trail ends with what became of it.  A
\* request the scrubber objects to never gets that far, and leaves one event, which
\* can be written unless a key was odd (main.go:108-158, 191-199, ocsf.go:253-279).
AuditTrail ==
    \A r \in Requests \ Playground :
        /\ container[r] # "none" => SubSeq(audit[r], 1, 2) = <<"attestation", "tool_call">>
        /\ pc[r] = "done" => /\ Len(audit[r]) = 3
                             /\ audit[r][3] = "launch_success" => targetPID[r] > 0
        /\ input[r] # {} =>
              /\ container[r] = "none"
              /\ \/ audit[r] = <<"validation_fail">>
                 \/ /\ audit[r] = <<"unwritable">>
                    /\ "odd key" \in input[r] /\ "script" \notin input[r]
              /\ input[r] = {"odd key"} => audit[r] = <<"unwritable">>

\* A request that was let in is answered, whatever its container does
\* (sandbox.go:75, 155-185, main.go:258-283).
Answered == \A r \in Requests : (pc[r] = "verified") ~> (pc[r] = "done")

\* controller.go:256: "IsActive returns true if the native eBPF controller was
\* successfully initialized".
IsActiveMeansInitialised == Serving /\ IsActive => initErr = "nil"

\* main.go:258: "Perform map cleanup after execution finishes".  An entry is not
\* removed while the container it locks is still running under its handler.
UnlockedAfterExecution ==
    \A r \in Requests :
        initErr = "nil" /\ pc[r] = "wait" /\ container[r] = "running"
            => hostPID[r] \in locked

=============================================================================

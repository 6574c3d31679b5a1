--------------------------- MODULE TelemetryEngine ---------------------------
(***************************************************************************)
(* The asynchronous event dispatcher of telemetry/engine.go: goroutines    *)
(* call Submit, a pool of workers drains a bounded channel into the local  *)
(* JSONL log and the SIEM forwarder, and Shutdown stops the pool with a    *)
(* grace period.                                                           *)
(*                                                                         *)
(* Every event is submitted once, by a goroutine of its own.  Each atomic  *)
(* counter update, channel operation and critical section is a step.       *)
(***************************************************************************)
EXTENDS Integers, Sequences, FiniteSets

CONSTANTS
    Events,       \* the events of one run
    Malformed,    \* events whose RawData is no JSON: OCSFEvent.Marshal fails
    Workers,      \* the worker pool (cfg.WorkerCount)
    BufferSize,   \* capacity of the channel (cfg.ChannelBufferSize)
    LocalLog,     \* cfg.LocalLogPath is set
    HasForwarder, \* a SIEM forwarder is configured
    NoEvent       \* a worker holds nothing

ASSUME EngineAssumption ==
    /\ IsFiniteSet(Events) /\ NoEvent \notin Events
    /\ Malformed \subseteq Events
    /\ IsFiniteSet(Workers) /\ Workers # {}
    /\ BufferSize \in Nat \ {0}
    /\ LocalLog \in BOOLEAN /\ HasForwarder \in BOOLEAN

VARIABLES
    submitted, dropped, processed,  \* the atomic counters
    queue,     \* the channel
    sub,       \* where each event's Submit stands
    stopCh,    \* stopCh is closed
    wpc,       \* where each worker stands
    held,      \* the event each worker processes
    draining,  \* the worker is in the drain loop of the stopCh branch
    logFile,   \* the log handle: "none", "open" or "closed"
    log,       \* the lines of the log file
    forwarded, \* the events handed to the forwarder, in order
    spc,       \* where Shutdown stands
    outcome,   \* the branch Shutdown's select took
    early      \* history: the events enqueued before stopCh was closed

counters == <<submitted, dropped, processed>>
workerVars == <<wpc, held, draining>>
sinks == <<logFile, log, forwarded>>
vars == <<counters, queue, sub, stopCh, workerVars, sinks, spc, outcome, early>>

(***************************************************************************)
(* NewTelemetryEngine has opened the log and started the pool.             *)
(***************************************************************************)
Init ==
    /\ submitted = 0 /\ dropped = 0 /\ processed = 0
    /\ queue = << >>
    /\ sub = [e \in Events |-> "new"]
    /\ stopCh = FALSE
    /\ wpc = [w \in Workers |-> "select"]
    /\ held = [w \in Workers |-> NoEvent]
    /\ draining = [w \in Workers |-> FALSE]
    /\ logFile = IF LocalLog THEN "open" ELSE "none"
    /\ log = << >>
    /\ forwarded = << >>
    /\ spc = "running"
    /\ outcome = "none"
    /\ early = {}

-----------------------------------------------------------------------------
(***************************************************************************)
(* Submit: count the event, then try to send it on the channel; when the   *)
(* channel is full the default branch counts the drop.  Submit does not    *)
(* look at stopCh.                                                         *)
(***************************************************************************)
CountSubmitted(e) ==
    /\ sub[e] = "new"
    /\ submitted' = submitted + 1
    /\ sub' = [sub EXCEPT ![e] = "counted"]
    /\ UNCHANGED <<dropped, processed, queue, stopCh, workerVars, sinks, spc, outcome, early>>

\* Mutant: the channel is unbounded.
EnqueueUnbounded(e) ==
    /\ sub[e] = "counted"
    /\ queue' = Append(queue, e)
    /\ sub' = [sub EXCEPT ![e] = "queued"]
    /\ early' = IF stopCh THEN early ELSE early \cup {e}
    /\ UNCHANGED <<counters, stopCh, workerVars, sinks, spc, outcome>>

Enqueue(e) ==
    /\ sub[e] = "counted"
    /\ Len(queue) < BufferSize
    /\ queue' = Append(queue, e)
    /\ sub' = [sub EXCEPT ![e] = "queued"]
    /\ early' = IF stopCh THEN early ELSE early \cup {e}
    /\ UNCHANGED <<counters, stopCh, workerVars, sinks, spc, outcome>>

QueueFull(e) ==
    /\ sub[e] = "counted"
    /\ Len(queue) >= BufferSize
    /\ sub' = [sub EXCEPT ![e] = "full"]
    /\ UNCHANGED <<counters, queue, stopCh, workerVars, sinks, spc, outcome, early>>

\* Mutant: a drop goes uncounted.
CountDroppedNot(e) ==
    /\ sub[e] = "full"
    /\ sub' = [sub EXCEPT ![e] = "dropped"]
    /\ UNCHANGED <<counters, queue, stopCh, workerVars, sinks, spc, outcome, early>>

CountDropped(e) ==
    /\ sub[e] = "full"
    /\ dropped' = dropped + 1
    /\ sub' = [sub EXCEPT ![e] = "dropped"]
    /\ UNCHANGED <<submitted, processed, queue, stopCh, workerVars, sinks, spc, outcome, early>>

Offer(e) == Enqueue(e) \/ QueueFull(e) \/ CountDropped(e)

-----------------------------------------------------------------------------
\* Mutant: the event is read but stays in the queue.
ReceivePeek(w) ==
    /\ wpc[w] \in {"select", "drain"}
    /\ queue # << >>
    /\ held' = [held EXCEPT ![w] = Head(queue)]
    /\ wpc' = [wpc EXCEPT ![w] = "taken"]
    /\ UNCHANGED <<counters, queue, sub, stopCh, draining, sinks, spc, outcome, early>>

(***************************************************************************)
(* worker: in the outer select, or in the drain loop, receive an event...  *)
(***************************************************************************)
Receive(w) ==
    /\ wpc[w] \in {"select", "drain"}
    /\ queue # << >>
    /\ held' = [held EXCEPT ![w] = Head(queue)]
    /\ queue' = Tail(queue)
    /\ wpc' = [wpc EXCEPT ![w] = "taken"]
    /\ UNCHANGED <<counters, sub, stopCh, draining, sinks, spc, outcome, early>>

\* ... or see stopCh closed and start draining ...
SeeStop(w) ==
    /\ wpc[w] = "select"
    /\ stopCh
    /\ wpc' = [wpc EXCEPT ![w] = "drain"]
    /\ draining' = [draining EXCEPT ![w] = TRUE]
    /\ UNCHANGED <<counters, queue, sub, stopCh, held, sinks, spc, outcome, early>>

\* Mutant: the worker returns on stopCh without draining.
LeaveAtOnce(w) ==
    /\ wpc[w] = "drain"
    /\ wpc' = [wpc EXCEPT ![w] = "exited"]
    /\ UNCHANGED <<counters, queue, sub, stopCh, held, draining, sinks, spc, outcome, early>>

\* ... and leave, with wg.Done, at the first moment the drain finds nothing.
Leave(w) ==
    /\ wpc[w] = "drain"
    /\ queue = << >>
    /\ wpc' = [wpc EXCEPT ![w] = "exited"]
    /\ UNCHANGED <<counters, queue, sub, stopCh, held, draining, sinks, spc, outcome, early>>

(***************************************************************************)
(* process: count first, give up on an event that does not marshal, write  *)
(* the line (a write to a closed file fails unnoticed), then hand over to  *)
(* the forwarder.                                                          *)
(***************************************************************************)
LoopTop(w) == IF draining[w] THEN "drain" ELSE "select"

CountProcessed(w) ==
    /\ wpc[w] = "taken"
    /\ processed' = processed + 1
    /\ IF held[w] \in Malformed
         THEN /\ wpc' = [wpc EXCEPT ![w] = LoopTop(w)]
              /\ held' = [held EXCEPT ![w] = NoEvent]
         ELSE /\ wpc' = [wpc EXCEPT ![w] = "write"]
              /\ UNCHANGED held
    /\ UNCHANGED <<submitted, dropped, queue, sub, stopCh, draining, sinks, spc, outcome, early>>

WriteLog(w) ==
    /\ wpc[w] = "write"
    /\ log' = IF logFile = "open" THEN Append(log, held[w]) ELSE log
    /\ wpc' = [wpc EXCEPT ![w] = "forward"]
    /\ UNCHANGED <<counters, queue, sub, stopCh, held, draining, logFile, forwarded,
                   spc, outcome, early>>

Forward(w) ==
    /\ wpc[w] = "forward"
    /\ forwarded' = IF HasForwarder THEN Append(forwarded, held[w]) ELSE forwarded
    /\ held' = [held EXCEPT ![w] = NoEvent]
    /\ wpc' = [wpc EXCEPT ![w] = LoopTop(w)]
    /\ UNCHANGED <<counters, queue, sub, stopCh, draining, logFile, log, spc, outcome, early>>

WorkerStep(w) ==
    \/ Receive(w) \/ SeeStop(w) \/ Leave(w)
    \/ CountProcessed(w) \/ WriteLog(w) \/ Forward(w)

-----------------------------------------------------------------------------
(***************************************************************************)
(* Shutdown, inside once.Do: close stopCh, wait for the pool or for the    *)
(* grace timer, close the log, shut the forwarder down.                    *)
(***************************************************************************)
CloseStop ==
    /\ spc = "running"
    /\ stopCh' = TRUE
    /\ spc' = "waiting"
    /\ UNCHANGED <<counters, queue, sub, workerVars, sinks, outcome, early>>

PoolDone == \A w \in Workers : wpc[w] = "exited"

Drained ==
    /\ spc = "waiting"
    /\ PoolDone
    /\ outcome' = "drained"
    /\ spc' = "closing"
    /\ UNCHANGED <<counters, queue, sub, stopCh, workerVars, sinks, early>>

GraceExceeded ==
    /\ spc = "waiting"
    /\ outcome' = "grace"
    /\ spc' = "closing"
    /\ UNCHANGED <<counters, queue, sub, stopCh, workerVars, sinks, early>>

\* Mutant: the log is closed only when the channel is empty.
CloseLogWhenEmpty ==
    /\ spc = "closing"
    /\ queue = << >>
    /\ logFile' = IF logFile = "open" THEN "closed" ELSE logFile
    /\ spc' = "forwarder"
    /\ UNCHANGED <<counters, queue, sub, stopCh, workerVars, log, forwarded, outcome, early>>

CloseLog ==
    /\ spc = "closing"
    /\ logFile' = IF logFile = "open" THEN "closed" ELSE logFile
    /\ spc' = "forwarder"
    /\ UNCHANGED <<counters, queue, sub, stopCh, workerVars, log, forwarded, outcome, early>>

ShutdownForwarder ==
    /\ spc = "forwarder"
    /\ spc' = "done"
    /\ UNCHANGED <<counters, queue, sub, stopCh, workerVars, sinks, outcome, early>>

ShutdownStep == Drained \/ GraceExceeded \/ CloseLog \/ ShutdownForwarder

-----------------------------------------------------------------------------
Next ==
    \/ \E e \in Events : CountSubmitted(e) \/ Offer(e)
    \/ \E w \in Workers : WorkerStep(w)
    \/ CloseStop
    \/ ShutdownStep

(***************************************************************************)
(* The Go scheduler runs every runnable goroutine: a Submit that has begun *)
(* goes on, a worker with something to do does it, and Shutdown, whose     *)
(* grace timer always fires, goes on.  Nobody has to call Submit or        *)
(* Shutdown.                                                               *)
(***************************************************************************)
Fairness ==
    /\ \A e \in Events : WF_vars(Offer(e))
    /\ \A w \in Workers : WF_vars(WorkerStep(w))
    /\ WF_vars(ShutdownStep)

Spec == Init /\ [][Next]_vars /\ Fairness

-----------------------------------------------------------------------------
(***************************************************************************)
(* Properties                                                              *)
(***************************************************************************)
Contains(s, e) == \E i \in 1..Len(s) : s[i] = e

Holding(e) == {w \in Workers : held[w] = e}

\* Every variable of TelemetryEngine (engine.go:45-61) has its type, the channel
\* never holds more than its capacity and a worker inside process has an event.
TypeOK ==
    /\ submitted \in Nat /\ dropped \in Nat /\ processed \in Nat
    /\ queue \in Seq(Events) /\ Len(queue) <= BufferSize
    /\ sub \in [Events -> {"new", "counted", "full", "queued", "dropped"}]
    /\ stopCh \in BOOLEAN
    /\ wpc \in [Workers -> {"select", "drain", "taken", "write", "forward", "exited"}]
    /\ held \in [Workers -> Events \cup {NoEvent}]
    /\ \A w \in Workers : wpc[w] \in {"taken", "write", "forward"} => held[w] # NoEvent
    /\ draining \in [Workers -> BOOLEAN]
    /\ logFile \in {"none", "open", "closed"}
    /\ log \in Seq(Events) /\ forwarded \in Seq(Events)
    /\ spc \in {"running", "waiting", "closing", "forwarder", "done"}
    /\ outcome \in {"none", "drained", "grace"}
    /\ early \subseteq Events

\* No event goes missing from the counters (engine.go:105-115, 193-194): what was
\* submitted is processed, dropped, in the channel, or in the hands of exactly one
\* goroutine that has not counted it yet.
Uncounted == {e \in Events : sub[e] \in {"counted", "full"}}

Taken == {w \in Workers : wpc[w] = "taken"}

Conservation ==
    submitted = processed + dropped + Len(queue) + Cardinality(Uncounted)
                + Cardinality(Taken)

\* An event is never duplicated (engine.go:170-213): it is in one place at a time,
\* the channel, one worker or behind it, and is written and forwarded once.
AtMostOnce ==
    /\ \A s \in {queue, log, forwarded} :
          \A i, j \in 1..Len(s) : s[i] = s[j] => i = j
    /\ \A e \in Events : Contains(queue, e) =>
          Holding(e) = {} /\ ~Contains(log, e) /\ ~Contains(forwarded, e)
    /\ \A v, w \in Workers : held[v] = held[w] /\ held[v] # NoEvent => v = w

\* When Shutdown's select takes the done branch ("Queue drained successfully.",
\* engine.go:132-133), every event enqueued before stopCh was closed and that
\* marshals is in the log file.
DrainComplete ==
    LocalLog /\ outcome = "drained" =>
        \A e \in early \ Malformed : Contains(log, e)

\* Once the done branch is taken the books are closed: whatever is submitted
\* afterwards, nothing more is processed, written or forwarded, so the counts
\* Shutdown prints last (engine.go:151-155) are final and the files it closes
\* (engine.go:139-149) are not in use.
DrainedIsFinal == [][outcome = "drained" => UNCHANGED <<processed, log, forwarded>>]_vars

\* The inductive invariant behind DrainComplete.  A worker drains only after
\* stopCh is closed; once one has left, no event from before is in the channel;
\* the log stays open until the select has chosen; and until the grace period
\* is given up, an early event is in the channel, with a worker, or written.
Unwritten(e) == \E w \in Workers : held[w] = e /\ wpc[w] \in {"taken", "write"}

DrainInv ==
    /\ \A e \in early : sub[e] = "queued"
    /\ \A w \in Workers : draining[w] \/ wpc[w] \in {"drain", "exited"} => stopCh
    /\ (\E w \in Workers : wpc[w] = "exited") => \A e \in early : ~Contains(queue, e)
    /\ outcome = "drained" => PoolDone
    /\ spc \in {"running", "waiting"} <=> outcome = "none"
    /\ LocalLog /\ outcome = "none" => logFile = "open"
    /\ LocalLog /\ outcome # "grace" =>
          \A e \in early \ Malformed :
             Contains(queue, e) \/ Unwritten(e) \/ Contains(log, e)

=============================================================================

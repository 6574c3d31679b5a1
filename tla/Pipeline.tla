------------------------------ MODULE Pipeline -------------------------------
(***************************************************************************)
(* The telemetry pipeline as it is deployed: the engine's workers call the *)
(* SIEM forwarder, which may keep a worker inside Enqueue for all attempts *)
(* of a flush, and the engine's Shutdown calls the forwarder's.  The       *)
(* engine is extended, the forwarder instantiated over it: what it has not *)
(* been given yet, and whether the pool had left when its Shutdown was     *)
(* called, are read off the engine's state.                                *)
(***************************************************************************)
EXTENDS TelemetryEngine

CONSTANTS BatchSize, MaxRetries

VARIABLES batch, fpc, cur, attempt, flushed, failed, fStop, dlOpen, deadletter, received

forwarder == <<batch, fpc, cur, attempt, flushed, failed, fStop, dlOpen, deadletter, received>>

pipe == <<vars, forwarder>>

F == INSTANCE SIEMForwarder WITH
        stopCh  <- fStop,
        pending <- {e \in Events : ~Contains(forwarded, e)},
        drained <- fStop /\ outcome = "drained"

ASSUME PipelineAssumption ==
    /\ F!ForwarderAssumption
    /\ LocalLog /\ HasForwarder

PipeInit == Init /\ F!Init

-----------------------------------------------------------------------------
\* A call of Submit.
Submit(e) == (CountSubmitted(e) \/ Offer(e)) /\ UNCHANGED forwarder

\* A worker goes on once Enqueue has returned; process calls Enqueue.
Work(w) ==
    /\ fpc[w] = "ready"
    /\ WorkerStep(w)
    /\ UNCHANGED fStop
    /\ IF wpc[w] = "forward" THEN F!Enqueue(w, held[w]) ELSE UNCHANGED forwarder

Flush(p) == UNCHANGED <<vars, fStop>> /\ F!FlushStep(p)

Ticker == UNCHANGED <<vars, fStop>> /\ (F!Tick \/ F!FlusherStops)

\* The engine's Shutdown up to its call of the forwarder's ...
StopEngine == (Drained \/ GraceExceeded \/ CloseLog) /\ UNCHANGED forwarder

\* ... the call ...
CallShutdown ==
    /\ spc = "forwarder"
    /\ UNCHANGED vars
    /\ fStop' = TRUE
    /\ F!BeginShutdown

StopForwarder == UNCHANGED <<vars, fStop>> /\ (F!TakeRemaining \/ F!CloseDeadLetter)

\* Mutant: the engine does not wait for the forwarder to shut down.
ReturnAtOnce == ShutdownForwarder /\ UNCHANGED forwarder

\* ... and its return.
Return ==
    /\ fpc["shutdown"] = "done"
    /\ ShutdownForwarder
    /\ UNCHANGED forwarder

ShutDown == StopEngine \/ CallShutdown \/ StopForwarder \/ Return

PipeNext ==
    \/ \E e \in Events : Submit(e)
    \/ \E w \in Workers : Work(w)
    \/ \E p \in F!Procs : Flush(p)
    \/ Ticker
    \/ CloseStop /\ UNCHANGED forwarder
    \/ ShutDown

(***************************************************************************)
(* As in the two components: goroutines that can run do, requests and      *)
(* sleeps end, the ticker ticks.  The select of the flusher takes a closed *)
(* stopCh in the end, even if every tick finds a batch.                    *)
(***************************************************************************)
PipeSpec ==
    /\ PipeInit /\ [][PipeNext]_pipe
    /\ \A e \in Events : WF_pipe(Offer(e) /\ UNCHANGED forwarder)
    /\ \A w \in Workers : WF_pipe(Work(w))
    /\ \A p \in F!Procs : WF_pipe(Flush(p))
    /\ WF_pipe(Ticker)
    /\ WF_pipe(ShutDown)

-----------------------------------------------------------------------------
(***************************************************************************)
(* Properties                                                              *)
(***************************************************************************)

\* Both components have their types (engine.go:45-61, siem.go:77-91).
PipeTypeOK == TypeOK /\ F!TypeOK

\* The pipeline implements AuditLedger.  An event is accepted when it is in the
\* channel (engine.go:108), recorded when its line is in the log, delivered when the
\* collector or the dead-letter file has it.  The ledger is sealed when the select
\* of Shutdown takes the done branch (engine.go:132), closed when Shutdown returns
\* after that, and abandoned when the log is closed on workers still at it
\* (engine.go:134-144).
Phase ==
    CASE ~stopCh                                    -> "open"
      [] outcome = "drained" /\ spc # "done"        -> "sealed"
      [] outcome = "drained" /\ spc = "done"        -> "closed"
      [] outcome = "grace" /\ logFile = "closed"    -> "abandoned"
      [] OTHER                                      -> "closing"

Ledger == INSTANCE AuditLedger WITH
            Unrecordable <- Malformed,
            accepted     <- {e \in Events : sub[e] = "queued"},
            refused      <- {e \in Events : sub[e] \in {"full", "dropped"}},
            due          <- early,
            recorded     <- {e \in Events : Contains(log, e)},
            delivered    <- {e \in Events : F!Settled(e)},
            phase        <- Phase

ImplementsLedger == Ledger!Spec

\* Whatever the collector does, an event that was in the channel before Shutdown and
\* that marshals is delivered in the end (engine.go:174-188, 193-213, siem.go:163-290),
\* unless the grace period ran out while workers were still at it.
DueEventsDelivered ==
    \A e \in Events \ Malformed : (e \in early) ~> (F!Settled(e) \/ outcome = "grace")

\* Shutdown, once begun, returns (engine.go:131-155, siem.go:180-203), although a
\* worker may be kept in a flush and the flusher may be in one when it is told to stop.
PipelineShutsDown == (spc = "waiting") ~> (spc = "done")

=============================================================================

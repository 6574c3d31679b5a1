---------------------------- MODULE SIEMForwarder ----------------------------
(***************************************************************************)
(* The Splunk HEC forwarder of telemetry/siem.go: engine workers enqueue   *)
(* events into a shared batch; whoever takes the batch (a worker that      *)
(* fills it, the background flusher on its ticker, or Shutdown) sends it   *)
(* with retries and dead-letters it when it cannot be delivered.           *)
(*                                                                         *)
(* The collector is external: an attempt is accepted, rejected for good    *)
(* (4xx), or fails in a way the forwarder retries (5xx, other statuses,    *)
(* network errors), and a failed attempt may still have been received.     *)
(* buildHECBody cannot fail here: the engine forwards only events that     *)
(* marshal.                                                                *)
(***************************************************************************)
EXTENDS Integers, Sequences, FiniteSets, SequencesExt

CONSTANTS
    Events,      \* the events the engine forwards, each once
    Workers,     \* engine workers, the callers of Enqueue
    BatchSize,   \* cfg.BatchSize
    MaxRetries   \* cfg.MaxRetries

ASSUME ForwarderAssumption ==
    /\ IsFiniteSet(Events) /\ IsFiniteSet(Workers)
    /\ Workers \cap {"flusher", "shutdown"} = {}
    /\ BatchSize \in Nat \ {0} /\ MaxRetries \in Nat \ {0}

VARIABLES
    pending,    \* events not forwarded yet
    batch,      \* f.batch
    fpc,        \* where each goroutine stands
    cur,        \* the batch each goroutine flushes
    attempt,    \* the attempt its retry loop is at
    flushed,    \* events sent, an atomic counter
    failed,     \* events dead-lettered, an atomic counter
    stopCh,     \* stopCh is closed
    drained,    \* Shutdown was called after the engine's pool had left
    dlOpen,     \* the dead-letter file is open
    deadletter, \* the events in the dead-letter file
    received    \* how often the collector received each event

state == <<pending, batch, fpc, cur, attempt, flushed, failed, stopCh, drained,
           dlOpen, deadletter, received>>

Procs == Workers \cup {"flusher", "shutdown"}

Home(p) == CASE p = "flusher"  -> "loop"
             [] p = "shutdown" -> "close"
             [] OTHER          -> "ready"

Init ==
    /\ pending = Events
    /\ batch = << >>
    /\ fpc = [p \in Procs |-> IF p = "shutdown" THEN "running" ELSE Home(p)]
    /\ cur = [p \in Procs |-> << >>]
    /\ attempt = [p \in Procs |-> 0]
    /\ flushed = 0 /\ failed = 0
    /\ stopCh = FALSE /\ drained = FALSE
    /\ dlOpen = TRUE
    /\ deadletter = {}
    /\ received = [e \in Events |-> 0]

\* Goroutine p starts to flush the events s, with f.mu already released.
StartFlush(p, s) ==
    /\ cur' = [cur EXCEPT ![p] = s]
    /\ attempt' = [attempt EXCEPT ![p] = 1]
    /\ fpc' = [fpc EXCEPT ![p] = "send"]

\* Goroutine p returns from flush.
EndFlush(p) ==
    /\ cur' = [cur EXCEPT ![p] = << >>]
    /\ attempt' = [attempt EXCEPT ![p] = 0]
    /\ fpc' = [fpc EXCEPT ![p] = Home(p)]

-----------------------------------------------------------------------------
\* Mutant: > for >= in the comparison with BatchSize.
EnqueueOverfills(w, e) ==
    /\ fpc[w] = "ready"
    /\ e \in pending
    /\ ~drained
    /\ pending' = pending \ {e}
    /\ LET b == Append(batch, e) IN
       \/ Len(b) > BatchSize /\ batch' = << >> /\ StartFlush(w, b)
       \/ Len(b) <= BatchSize /\ batch' = b /\ UNCHANGED <<cur, attempt, fpc>>
    /\ UNCHANGED <<flushed, failed, stopCh, drained, dlOpen, deadletter, received>>

(***************************************************************************)
(* Enqueue: append under f.mu; the worker that fills the batch takes it    *)
(* and flushes it itself.                                                  *)
(***************************************************************************)
Enqueue(w, e) ==
    /\ fpc[w] = "ready"
    /\ e \in pending
    /\ ~drained
    /\ pending' = pending \ {e}
    /\ LET b == Append(batch, e) IN
       \/ /\ Len(b) >= BatchSize
          /\ batch' = << >>
          /\ StartFlush(w, b)
       \/ /\ Len(b) < BatchSize
          /\ batch' = b
          /\ UNCHANGED <<cur, attempt, fpc>>
    /\ UNCHANGED <<flushed, failed, stopCh, drained, dlOpen, deadletter, received>>

\* Mutant: the flusher copies the batch and does not reset it.
TickKeepsBatch ==
    /\ fpc["flusher"] = "loop"
    /\ batch # << >>
    /\ StartFlush("flusher", batch)
    /\ UNCHANGED <<pending, batch, flushed, failed, stopCh, drained, dlOpen, deadletter,
                   received>>

\* Mutant: the ticker flushes full batches only.
TickFullOnly ==
    /\ fpc["flusher"] = "loop"
    /\ Len(batch) >= BatchSize
    /\ batch' = << >>
    /\ StartFlush("flusher", batch)
    /\ UNCHANGED <<pending, flushed, failed, stopCh, drained, dlOpen, deadletter, received>>

(***************************************************************************)
(* backgroundFlusher: a tick takes a non-empty batch; stopCh ends it.      *)
(***************************************************************************)
Tick ==
    /\ fpc["flusher"] = "loop"
    /\ batch # << >>
    /\ batch' = << >>
    /\ StartFlush("flusher", batch)
    /\ UNCHANGED <<pending, flushed, failed, stopCh, drained, dlOpen, deadletter, received>>

FlusherStops ==
    /\ fpc["flusher"] = "loop"
    /\ stopCh
    /\ fpc' = [fpc EXCEPT !["flusher"] = "exited"]
    /\ UNCHANGED <<pending, batch, cur, attempt, flushed, failed, stopCh, drained, dlOpen,
                   deadletter, received>>

-----------------------------------------------------------------------------
(***************************************************************************)
(* flush: one attempt of the retry loop.                                   *)
(***************************************************************************)
Deliver(p) ==
    received' = [e \in Events |-> received[e] + IF Contains(cur[p], e) THEN 1 ELSE 0]

SendAccepted(p) ==
    /\ fpc[p] = "send"
    /\ Deliver(p)
    /\ flushed' = flushed + Len(cur[p])
    /\ EndFlush(p)
    /\ UNCHANGED <<pending, batch, failed, stopCh, drained, dlOpen, deadletter>>

SendRejected(p) ==
    /\ fpc[p] = "send"
    /\ fpc' = [fpc EXCEPT ![p] = "dead"]
    /\ UNCHANGED <<pending, batch, cur, attempt, flushed, failed, stopCh, drained, dlOpen,
                   deadletter, received>>

\* Mutant: one attempt too many.
SendFailedOnceMore(p) ==
    /\ fpc[p] = "send"
    /\ Deliver(p) \/ UNCHANGED received
    /\ attempt' = [attempt EXCEPT ![p] = @ + 1]
    /\ fpc' = [fpc EXCEPT ![p] = IF attempt[p] <= MaxRetries THEN "send" ELSE "dead"]
    /\ UNCHANGED <<pending, batch, cur, flushed, failed, stopCh, drained, dlOpen, deadletter>>

\* A retriable failure, after which the loop goes on if attempts are left.
SendFailed(p) ==
    /\ fpc[p] = "send"
    /\ Deliver(p) \/ UNCHANGED received
    /\ attempt' = [attempt EXCEPT ![p] = @ + 1]
    /\ fpc' = [fpc EXCEPT ![p] = IF attempt[p] < MaxRetries THEN "send" ELSE "dead"]
    /\ UNCHANGED <<pending, batch, cur, flushed, failed, stopCh, drained, dlOpen, deadletter>>

(***************************************************************************)
(* deadLetter: count, then write the events under f.dlMu.  Writes to a     *)
(* closed file fail unnoticed.                                             *)
(***************************************************************************)
CountFailed(p) ==
    /\ fpc[p] = "dead"
    /\ failed' = failed + Len(cur[p])
    /\ fpc' = [fpc EXCEPT ![p] = "deadWrite"]
    /\ UNCHANGED <<pending, batch, cur, attempt, flushed, stopCh, drained, dlOpen,
                   deadletter, received>>

WriteDeadLetters(p) ==
    /\ fpc[p] = "deadWrite"
    /\ deadletter' = IF dlOpen THEN deadletter \cup ToSet(cur[p]) ELSE deadletter
    /\ EndFlush(p)
    /\ UNCHANGED <<pending, batch, flushed, failed, stopCh, drained, dlOpen, received>>

FlushStep(p) ==
    \/ SendAccepted(p) \/ SendRejected(p) \/ SendFailed(p)
    \/ CountFailed(p) \/ WriteDeadLetters(p)

-----------------------------------------------------------------------------
(***************************************************************************)
(* Shutdown, called by the engine's Shutdown: stop the flusher, wait for   *)
(* it, flush what is left, close the dead-letter file.  After the engine's *)
(* done branch the workers have returned from Enqueue for good; after its  *)
(* grace period they may be inside it, and may call it again.              *)
(***************************************************************************)
BeginShutdown ==
    /\ fpc["shutdown"] = "running"
    /\ drained' \in BOOLEAN
    /\ drained' => \A w \in Workers : fpc[w] = "ready"
    /\ stopCh' = TRUE
    /\ fpc' = [fpc EXCEPT !["shutdown"] = "wait"]
    /\ UNCHANGED <<pending, batch, cur, attempt, flushed, failed, dlOpen, deadletter, received>>

\* Mutant: Shutdown does not flush what is left.
TakeRemainingSkipped ==
    /\ fpc["shutdown"] = "wait"
    /\ fpc["flusher"] = "exited"
    /\ fpc' = [fpc EXCEPT !["shutdown"] = "close"]
    /\ UNCHANGED <<pending, batch, cur, attempt, flushed, failed, stopCh, drained, dlOpen,
                   deadletter, received>>

TakeRemaining ==
    /\ fpc["shutdown"] = "wait"
    /\ fpc["flusher"] = "exited"
    /\ batch' = << >>
    /\ \/ batch # << >> /\ StartFlush("shutdown", batch)
       \/ /\ batch = << >>
          /\ fpc' = [fpc EXCEPT !["shutdown"] = "close"]
          /\ UNCHANGED <<cur, attempt>>
    /\ UNCHANGED <<pending, flushed, failed, stopCh, drained, dlOpen, deadletter, received>>

CloseDeadLetter ==
    /\ fpc["shutdown"] = "close"
    /\ dlOpen' = FALSE
    /\ fpc' = [fpc EXCEPT !["shutdown"] = "done"]
    /\ UNCHANGED <<pending, batch, cur, attempt, flushed, failed, stopCh, drained, deadletter,
                   received>>

Next ==
    \/ \E w \in Workers, e \in Events : Enqueue(w, e)
    \/ Tick \/ FlusherStops
    \/ \E p \in Procs : FlushStep(p)
    \/ BeginShutdown \/ TakeRemaining \/ CloseDeadLetter

(***************************************************************************)
(* The ticker keeps ticking, a request ends (the client has a timeout of   *)
(* 15 s) and back-off sleeps are bounded, so every goroutine inside the    *)
(* forwarder goes on.  Nobody has to call Enqueue or Shutdown.             *)
(***************************************************************************)
Spec ==
    /\ Init /\ [][Next]_state
    /\ WF_state(Tick) /\ WF_state(FlusherStops)
    /\ \A p \in Procs : WF_state(FlushStep(p))
    /\ WF_state(TakeRemaining) /\ WF_state(CloseDeadLetter)

-----------------------------------------------------------------------------
(***************************************************************************)
(* Properties                                                              *)
(***************************************************************************)

\* Every variable of SIEMForwarder (siem.go:77-91) has its type; the batch never
\* reaches BatchSize and no attempt is numbered beyond the retries.
TypeOK ==
    /\ pending \subseteq Events
    /\ batch \in Seq(Events) /\ Len(batch) < BatchSize
    /\ fpc \in [Procs -> {"ready", "loop", "exited", "running", "wait", "close", "done",
                          "send", "dead", "deadWrite"}]
    /\ \A p \in Procs : cur[p] \in Seq(Events) /\ attempt[p] \in 0..(MaxRetries + 1)
    /\ flushed \in Nat /\ failed \in Nat
    /\ stopCh \in BOOLEAN /\ drained \in BOOLEAN /\ dlOpen \in BOOLEAN
    /\ deadletter \subseteq Events
    /\ received \in [Events -> Nat]

\* Every forwarded event is counted once (siem.go:163-177, 209-229, 269-272, 316):
\* as flushed, as failed, or it is still in the batch or in one goroutine's hands.
Uncounted ==
    {e \in Events : \E p \in Procs : fpc[p] \in {"send", "dead"} /\ Contains(cur[p], e)}

EveryEventCounted ==
    Cardinality(Events \ pending) =
        flushed + failed + Len(batch) + Cardinality(Uncounted)

\* A lost acknowledgement duplicates an event at the collector, but never more
\* often than there are attempts (siem.go:248-286): no event is in two batches.
DuplicatesBounded == \A e \in Events : received[e] <= MaxRetries

\* When the engine has drained before it calls Shutdown (engine.go:131-149), every
\* event has been received or is in the dead-letter file when Shutdown returns
\* (siem.go:180-199).
Settled(e) == received[e] > 0 \/ e \in deadletter

ShutdownLosesNothing ==
    fpc["shutdown"] = "done" /\ drained => \A e \in Events \ pending : Settled(e)

\* A forwarded event does not wait for ever, whatever the collector answers: it is
\* received or dead-lettered (siem.go:215-224, 233-290), unless Shutdown was called
\* while workers were still forwarding.
EventuallySettled ==
    \A e \in Events : (e \notin pending) ~> (Settled(e) \/ (stopCh /\ ~drained))

=============================================================================

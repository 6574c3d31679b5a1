--------------------------- MODULE PipelineProofs ---------------------------
(***************************************************************************)
(* The pipeline implements AuditLedger, for any finite sets of events and  *)
(* workers, any capacity, batch size and number of retries: every step of  *)
(* engine and forwarder is a step of the ledger or leaves it alone.        *)
(***************************************************************************)
EXTENDS Pipeline, TelemetryEngineProofs

\* The forwarder as Pipeline instantiates it, with what is proved about it.
FP == INSTANCE SIEMForwarderProofs WITH
        stopCh  <- fStop,
        pending <- {e \in Events : ~Contains(forwarded, e)},
        drained <- fStop /\ outcome = "drained"

(***************************************************************************)
(* The inductive invariant: those of the components, and what ties them    *)
(* together.  Shutdown goes through the engine before it comes to the      *)
(* forwarder; the log is open until the select has chosen; what has been   *)
(* forwarded is in the log unless the log was closed on the workers, and   *)
(* what is in the log is forwarded or about to be.                         *)
(***************************************************************************)
Order ==
    /\ stopCh <=> spc # "running"
    /\ logFile = IF spc \in {"running", "waiting", "closing"} THEN "open" ELSE "closed"
    /\ fStop <=> fpc["shutdown"] # "running"
    /\ fStop => spc \in {"forwarder", "done"}
    /\ spc = "done" => fpc["shutdown"] = "done"

Logged ==
    /\ \A e \in Events : Contains(log, e) \/ Contains(forwarded, e) => e \notin Malformed
    /\ \A w \in Workers : wpc[w] \in {"write", "forward"} => held[w] \notin Malformed
    /\ outcome # "grace" \/ logFile = "open" =>
          /\ \A e \in Events : Contains(forwarded, e) => Contains(log, e)
          /\ \A w \in Workers : wpc[w] = "forward" => Contains(log, held[w])
    /\ \A e \in Events : Contains(log, e) =>
          Contains(forwarded, e) \/ \E w \in Workers : held[w] = e /\ wpc[w] = "forward"

PipeInv ==
    /\ TypeOK /\ DrainInv /\ OnceInv
    /\ FP!ForwarderInv
    /\ Order /\ Logged

-----------------------------------------------------------------------------
(***************************************************************************)
(* A step of the pipeline is a step of each component, or none.            *)
(***************************************************************************)
LEMMA EngineStep == ASSUME [PipeNext]_pipe PROVE [Next]_vars
<1>1. CASE UNCHANGED pipe
  BY <1>1 DEF pipe
<1>2. ASSUME NEW e \in Events, Submit(e) PROVE Next
  BY <1>2 DEF Submit, Next
<1>3. ASSUME NEW w \in Workers, Work(w) PROVE Next
  BY <1>3 DEF Work, Next
<1>4. CASE (\E p \in F!Procs : Flush(p)) \/ Ticker
  BY <1>4 DEF Flush, Ticker
<1>5. CASE CloseStop /\ UNCHANGED forwarder
  BY <1>5 DEF Next
<1>6. CASE ShutDown
  BY <1>6 DEF ShutDown, StopEngine, CallShutdown, StopForwarder, Return, Next, ShutdownStep
<1> QED BY <1>1, <1>2, <1>3, <1>4, <1>5, <1>6 DEF PipeNext

(***************************************************************************)
(* FP is the forwarder of Pipeline once more, with the lemmas about it:    *)
(* its assumptions hold and its actions are those of F.                    *)
(***************************************************************************)
LEMMA ForwarderAssumed == FP!ForwarderAssumption
  BY PipelineAssumption DEF F!ForwarderAssumption, FP!ForwarderAssumption, F!IsFiniteSet,
                            FP!IsFiniteSet

LEMMA SameForwarder ==
  /\ F!Init => FP!Init
  /\ F!Procs = FP!Procs
  /\ \A w, e : F!Enqueue(w, e) => FP!Enqueue(w, e)
  /\ F!Tick => FP!Tick
  /\ F!FlusherStops => FP!FlusherStops
  /\ F!BeginShutdown => FP!BeginShutdown
  /\ F!TakeRemaining => FP!TakeRemaining
  /\ F!CloseDeadLetter => FP!CloseDeadLetter
  /\ \A p : F!FlushStep(p) => FP!FlushStep(p)
<1>1. F!Procs = FP!Procs
  BY DEF F!Procs, FP!Procs
<1>2. F!Init => FP!Init
  BY DEF F!Init, FP!Init, F!Procs, FP!Procs, F!Home, FP!Home
<1>3. ASSUME NEW w, NEW e, F!Enqueue(w, e) PROVE FP!Enqueue(w, e)
  BY <1>3 DEF F!Enqueue, FP!Enqueue, F!StartFlush, FP!StartFlush
<1>4. F!Tick => FP!Tick
  BY DEF F!Tick, FP!Tick, F!StartFlush, FP!StartFlush
<1>5. F!FlusherStops => FP!FlusherStops
  BY DEF F!FlusherStops, FP!FlusherStops
<1>6. F!BeginShutdown => FP!BeginShutdown
  BY DEF F!BeginShutdown, FP!BeginShutdown
<1>7. F!TakeRemaining => FP!TakeRemaining
  BY DEF F!TakeRemaining, FP!TakeRemaining, F!StartFlush, FP!StartFlush
<1>8. F!CloseDeadLetter => FP!CloseDeadLetter
  BY DEF F!CloseDeadLetter, FP!CloseDeadLetter
<1>9. ASSUME NEW p, F!FlushStep(p) PROVE FP!FlushStep(p)
  <2>1. F!EndFlush(p) => FP!EndFlush(p)
    BY DEF F!EndFlush, FP!EndFlush, F!Home, FP!Home
  <2>2. F!Deliver(p) => FP!Deliver(p)
    BY DEF F!Deliver, FP!Deliver, F!Contains, FP!Contains
  <2>3. F!SendAccepted(p) => FP!SendAccepted(p)
    BY <2>1, <2>2 DEF F!SendAccepted, FP!SendAccepted
  <2>4. F!SendRejected(p) => FP!SendRejected(p)
    BY DEF F!SendRejected, FP!SendRejected
  <2>5. F!SendFailed(p) => FP!SendFailed(p)
    BY <2>2 DEF F!SendFailed, FP!SendFailed
  <2>6. F!CountFailed(p) => FP!CountFailed(p)
    BY DEF F!CountFailed, FP!CountFailed
  <2>7. F!WriteDeadLetters(p) => FP!WriteDeadLetters(p)
    BY <2>1 DEF F!WriteDeadLetters, FP!WriteDeadLetters, F!ToSet, FP!ToSet
  <2> QED
    BY <1>9, <2>3, <2>4, <2>5, <2>6, <2>7 DEF F!FlushStep, FP!FlushStep
<1> QED
  BY <1>1, <1>2, <1>3, <1>4, <1>5, <1>6, <1>7, <1>8, <1>9

\* The engine's own steps keep the forwarder's state, which is read off the engine's in
\* two places: what has been forwarded, and whether the pool had left.
LEMMA ForwarderStep ==
  ASSUME TypeOK, Order, DrainInv, [PipeNext]_pipe
  PROVE  [FP!Next]_(FP!state)
<1>0. ASSUME UNCHANGED <<forwarder, forwarded>>, outcome' = outcome \/ ~fStop
      PROVE  UNCHANGED FP!state
  BY <1>0 DEF FP!state, forwarder
<1>1. CASE UNCHANGED pipe
  BY <1>0, <1>1 DEF pipe, vars, sinks
<1>2. ASSUME NEW e \in Events, Submit(e) PROVE UNCHANGED FP!state
  BY <1>0, <1>2 DEF Submit, CountSubmitted, Offer, Enqueue, QueueFull, CountDropped, sinks
<1>3. ASSUME NEW w \in Workers, Work(w) PROVE [FP!Next]_(FP!state)
  <2>1. CASE wpc[w] = "forward"
    <3>1. FP!Enqueue(w, held[w])
      BY <1>3, <2>1, SameForwarder DEF Work
    <3>2. held[w] \in Events
      BY <2>1 DEF TypeOK
    <3> QED
      BY <3>1, <3>2 DEF FP!Next
  <2>2. CASE wpc[w] # "forward"
    <3>1. UNCHANGED <<forwarder, forwarded, outcome>>
      BY <1>3, <2>2 DEF Work, WorkerStep, Receive, SeeStop, Leave, CountProcessed, WriteLog,
                        Forward, sinks
    <3> QED
      BY <1>0, <3>1
  <2> QED
    BY <2>1, <2>2
<1>4. ASSUME NEW p \in F!Procs, Flush(p) PROVE FP!Next
  BY <1>4, SameForwarder DEF Flush, FP!Next
<1>5. CASE Ticker
  BY <1>5, SameForwarder DEF Ticker, FP!Next
<1>6. CASE CloseStop /\ UNCHANGED forwarder
  BY <1>0, <1>6 DEF CloseStop, sinks
<1>7. CASE StopEngine
  <2>1. UNCHANGED <<forwarder, forwarded>>
    BY <1>7 DEF StopEngine, Drained, GraceExceeded, CloseLog, sinks
  <2>2. outcome' = outcome \/ ~fStop
    BY <1>7 DEF StopEngine, Drained, GraceExceeded, CloseLog, Order
  <2> QED
    BY <1>0, <2>1, <2>2
<1>8. CASE CallShutdown \/ StopForwarder
  BY <1>8, SameForwarder DEF CallShutdown, StopForwarder, FP!Next
<1>9. CASE Return
  BY <1>0, <1>9 DEF Return, ShutdownForwarder, sinks
<1> QED
  BY <1>1, <1>2, <1>3, <1>4, <1>5, <1>6, <1>7, <1>8, <1>9 DEF PipeNext, ShutDown

-----------------------------------------------------------------------------
(***************************************************************************)
(* The invariant is preserved.                                             *)
(***************************************************************************)

\* What a step does to the state that Order speaks of.
LEMMA OrderNext ==
  ASSUME PipeInv, [PipeNext]_pipe
  PROVE  Order'
<1> USE DEF PipeInv
<1>0. "shutdown" \notin Workers /\ "shutdown" # "flusher" /\ LocalLog
  BY PipelineAssumption DEF F!ForwarderAssumption
<1>1. ASSUME UNCHANGED <<stopCh, spc, logFile, fStop>>, fpc'["shutdown"] = fpc["shutdown"]
      PROVE  Order'
  BY <1>1 DEF Order
<1>2. CASE UNCHANGED pipe
  BY <1>1, <1>2 DEF pipe, vars, sinks, forwarder
<1>3. ASSUME NEW e \in Events, Submit(e) PROVE Order'
  BY <1>1, <1>3 DEF Submit, CountSubmitted, Offer, Enqueue, QueueFull, CountDropped, sinks,
                    forwarder
<1>4. ASSUME NEW w \in Workers, Work(w) PROVE Order'
  <2>1. UNCHANGED <<stopCh, spc, logFile, fStop>>
    BY <1>4 DEF Work, WorkerStep, Receive, SeeStop, Leave, CountProcessed, WriteLog,
                Forward, sinks
  <2>2. fpc'["shutdown"] = fpc["shutdown"]
    <3>1. fpc' = fpc \/ fpc' = [fpc EXCEPT ![w] = "send"]
      BY <1>4 DEF Work, forwarder, F!Enqueue, F!StartFlush
    <3> QED
      BY <1>0, <3>1 DEF FP!ForwarderInv, FP!Shape, FP!Procs
  <2> QED
    BY <1>1, <2>1, <2>2
<1>5. ASSUME NEW p \in F!Procs, Flush(p) PROVE Order'
  <2>1. UNCHANGED <<stopCh, spc, logFile, fStop>>
    BY <1>5 DEF Flush, vars, sinks
  <2>2. fpc[p] \in {"send", "dead", "deadWrite"} /\ \E x : fpc' = [fpc EXCEPT ![p] = x]
                                                        /\ x # "running"
    BY <1>5 DEF Flush, F!FlushStep, F!SendAccepted, F!SendRejected, F!SendFailed,
                F!CountFailed, F!WriteDeadLetters, F!EndFlush, F!Home
  <2>3. (fpc["shutdown"] = "running" <=> fpc'["shutdown"] = "running")
        /\ (fpc["shutdown"] = "done" => fpc'["shutdown"] = "done")
    BY <2>2 DEF FP!ForwarderInv, FP!Shape
  <2> QED
    BY <2>1, <2>3 DEF Order
<1>6. CASE Ticker
  <2>1. UNCHANGED <<stopCh, spc, logFile, fStop>>
    BY <1>6 DEF Ticker, vars, sinks
  <2>2. \E x : fpc' = [fpc EXCEPT !["flusher"] = x]
    BY <1>6 DEF Ticker, F!Tick, F!FlusherStops, F!StartFlush
  <2>3. fpc'["shutdown"] = fpc["shutdown"]
    BY <1>0, <2>2 DEF FP!ForwarderInv, FP!Shape
  <2> QED
    BY <1>1, <2>1, <2>3
<1>7. CASE CloseStop /\ UNCHANGED forwarder
  BY <1>7 DEF CloseStop, Order, sinks, forwarder
<1>8. CASE StopEngine
  <2>1. UNCHANGED <<fStop, fpc>>
    BY <1>8 DEF StopEngine, forwarder
  <2> QED
    BY <1>8, <2>1 DEF StopEngine, Drained, GraceExceeded, CloseLog, Order, sinks
<1>9. CASE CallShutdown
  <2>1. /\ UNCHANGED <<stopCh, spc, logFile>> /\ fStop' = TRUE /\ spc = "forwarder"
        /\ fpc' = [fpc EXCEPT !["shutdown"] = "wait"]
    BY <1>9 DEF CallShutdown, F!BeginShutdown, vars, sinks
  <2>2. fpc'["shutdown"] = "wait"
    BY <2>1 DEF FP!ForwarderInv, FP!Shape, FP!Procs
  <2> QED
    BY <2>1, <2>2 DEF Order
<1>10. CASE StopForwarder
  <2>1. UNCHANGED <<stopCh, spc, logFile, fStop>>
    BY <1>10 DEF StopForwarder, vars, sinks
  <2>2. /\ fpc["shutdown"] \in {"wait", "close"}
        /\ \E x \in {"send", "close", "done"} : fpc' = [fpc EXCEPT !["shutdown"] = x]
    BY <1>10 DEF StopForwarder, F!TakeRemaining, F!CloseDeadLetter, F!StartFlush
  <2>3. fpc'["shutdown"] \in {"send", "close", "done"}
    BY <2>2 DEF FP!ForwarderInv, FP!Shape, FP!Procs
  <2> QED
    BY <2>1, <2>2, <2>3 DEF Order
<1>11. CASE Return
  BY <1>11 DEF Return, ShutdownForwarder, Order, sinks, forwarder
<1> QED
  BY <1>2, <1>3, <1>4, <1>5, <1>6, <1>7, <1>8, <1>9, <1>10, <1>11 DEF PipeNext, ShutDown

\* What is in the log and what has been forwarded stays in step.
LEMMA LoggedNext ==
  ASSUME PipeInv, [PipeNext]_pipe
  PROVE  Logged'
<1> USE DEF PipeInv
<1>0. LocalLog /\ HasForwarder /\ NoEvent \notin Events
  BY PipelineAssumption, EngineAssumption
<1>1. ASSUME UNCHANGED <<log, forwarded, wpc, held>>,
             (outcome' # "grace" \/ logFile' = "open") => (outcome # "grace" \/ logFile = "open")
      PROVE  Logged'
  BY <1>1 DEF Logged
<1>2. [Next]_vars
  BY EngineStep
<1>3. CASE UNCHANGED vars
  BY <1>1, <1>3 DEF vars, workerVars, sinks
<1>4. ASSUME NEW e \in Events, CountSubmitted(e) \/ Offer(e) PROVE Logged'
  BY <1>1, <1>4 DEF CountSubmitted, Offer, Enqueue, QueueFull, CountDropped, workerVars, sinks
<1>5. ASSUME NEW w \in Workers, WorkerStep(w) PROVE Logged'
  <2>0. UNCHANGED <<outcome, logFile>>
    BY <1>5 DEF WorkerStep, Receive, SeeStop, Leave, CountProcessed, WriteLog, Forward, sinks
  <2>1. CASE Receive(w) \/ SeeStop(w) \/ Leave(w) \/ CountProcessed(w)
    <3>1. /\ UNCHANGED <<log, forwarded>> /\ wpc[w] \notin {"write", "forward"}
          /\ \A v \in Workers \ {w} : wpc'[v] = wpc[v] /\ held'[v] = held[v]
          /\ wpc'[w] # "forward" /\ (wpc'[w] = "write" => held'[w] \notin Malformed)
      BY <2>1 DEF Receive, SeeStop, Leave, CountProcessed, LoopTop, sinks, TypeOK
    <3> QED
      BY <2>0, <3>1 DEF Logged
  <2>2. CASE WriteLog(w)
    <3>1. /\ wpc[w] = "write" /\ wpc'[w] = "forward" /\ UNCHANGED <<held, forwarded>>
          /\ \A v \in Workers \ {w} : wpc'[v] = wpc[v]
          /\ log' = IF logFile = "open" THEN Append(log, held[w]) ELSE log
          /\ held[w] \in Events /\ log \in Seq(Events) /\ held[w] \notin Malformed
      BY <2>2 DEF WriteLog, TypeOK, Logged
    <3>2. \A e : Contains(log', e) <=> Contains(log, e) \/ (logFile = "open" /\ e = held[w])
      BY <3>1, ContainsAppend
    <3>3. outcome # "grace" => logFile = "open"
      BY <1>0, <3>1 DEF DrainInv, PoolDone, TypeOK
    <3> QED
      BY <2>0, <3>1, <3>2, <3>3 DEF Logged
  <2>3. CASE Forward(w)
    <3>1. /\ wpc[w] = "forward" /\ wpc'[w] \notin {"write", "forward"} /\ UNCHANGED log
          /\ \A v \in Workers \ {w} : wpc'[v] = wpc[v] /\ held'[v] = held[v]
          /\ forwarded' = Append(forwarded, held[w])
          /\ held[w] \in Events /\ forwarded \in Seq(Events) /\ held[w] \notin Malformed
      BY <1>0, <2>3 DEF Forward, LoopTop, TypeOK, Logged
    <3>2. \A e : Contains(forwarded', e) <=> Contains(forwarded, e) \/ e = held[w]
      BY <3>1, ContainsAppend
    <3> QED
      BY <2>0, <3>1, <3>2 DEF Logged
  <2> QED
    BY <1>5, <2>1, <2>2, <2>3 DEF WorkerStep
<1>6. CASE CloseStop \/ ShutdownStep
  <2>1. UNCHANGED <<log, forwarded, wpc, held>>
    BY <1>6 DEF CloseStop, ShutdownStep, Drained, GraceExceeded, CloseLog, ShutdownForwarder,
                workerVars, sinks
  <2>2. (outcome' # "grace" \/ logFile' = "open") => (outcome # "grace" \/ logFile = "open")
    BY <1>6 DEF CloseStop, ShutdownStep, Drained, GraceExceeded, CloseLog, ShutdownForwarder,
                sinks, Order
  <2> QED
    BY <1>1, <2>1, <2>2
<1> QED
  BY <1>2, <1>3, <1>4, <1>5, <1>6 DEF Next

LEMMA PipeInvariance == PipeSpec => []PipeInv
<1>1. PipeInit => PipeInv
  <2> SUFFICES ASSUME PipeInit PROVE PipeInv
    OBVIOUS
  <2>1. TypeOK /\ DrainInv /\ OnceInv
    BY TypeOKInit, DrainInit, OnceInit DEF PipeInit
  <2>2. FP!ForwarderInv
    <3>1. FP!Init
      BY SameForwarder DEF PipeInit
    <3> QED
      BY <3>1, ForwarderAssumed, FP!ForwarderInitEstablishes
  <2>3. Order
    BY PipelineAssumption DEF PipeInit, Init, F!Init, F!Procs, Order
  <2>4. Logged
    BY DEF PipeInit, Init, Logged, Contains
  <2> QED
    BY <2>1, <2>2, <2>3, <2>4 DEF PipeInv
<1>2. PipeInv /\ [PipeNext]_pipe => PipeInv'
  <2> SUFFICES ASSUME PipeInv, [PipeNext]_pipe PROVE PipeInv'
    OBVIOUS
  <2>1. TypeOK' /\ DrainInv' /\ OnceInv'
    BY EngineStep, TypeOKNext, DrainNext, OnceNext DEF PipeInv
  <2>2. FP!ForwarderInv'
    <3>1. FP!ForwarderInv /\ [FP!Next]_(FP!state)
      BY ForwarderStep DEF PipeInv
    <3> QED
      BY <3>1, ForwarderAssumed, FP!ForwarderNextPreserves
  <2> QED
    BY <2>1, <2>2, OrderNext, LoggedNext DEF PipeInv
<1> QED
  BY <1>1, <1>2, PTL DEF PipeSpec

-----------------------------------------------------------------------------
(***************************************************************************)
(* Every step maps to a step of the ledger, or to none.                    *)
(***************************************************************************)

\* Where the ledger stands, by how far the engine's Shutdown has come.
LEMMA Phases ==
  ASSUME PipeInv
  PROVE  /\ outcome = "none" /\ spc = "running" => Phase = "open"
         /\ outcome = "none" /\ spc = "waiting" => Phase = "closing"
         /\ outcome = "drained" /\ spc # "done" => Phase = "sealed"
         /\ outcome = "drained" /\ spc = "done" => Phase = "closed"
         /\ outcome = "grace" /\ spc = "closing" => Phase = "closing"
         /\ outcome = "grace" /\ spc \in {"forwarder", "done"} => Phase = "abandoned"
         /\ outcome = "none" => spc \in {"running", "waiting"}
         /\ outcome \in {"drained", "grace"} => spc \in {"closing", "forwarder", "done"}
<1>1. /\ stopCh <=> spc # "running"
      /\ spc \in {"running", "waiting", "closing", "forwarder", "done"}
      /\ spc \in {"running", "waiting"} <=> outcome = "none"
      /\ logFile \in {"none", "open", "closed"}
      /\ logFile = "open" <=> spc \in {"running", "waiting", "closing"}
  BY DEF PipeInv, Order, DrainInv, TypeOK
<1>2. spc \in {"forwarder", "done"} => logFile = "closed"
  BY <1>1 DEF PipeInv, Order
<1> QED
  BY <1>1, <1>2 DEF Phase

LEMMA LedgerStutters ==
  ASSUME UNCHANGED <<log, early, received, deadletter>>, Phase' = Phase,
         \A e \in Events :
            /\ sub'[e] = "queued" <=> sub[e] = "queued"
            /\ sub'[e] \in {"full", "dropped"} <=> sub[e] \in {"full", "dropped"}
  PROVE  UNCHANGED Ledger!ledger
  BY DEF Ledger!ledger, F!Settled, Contains

\* Submit (engine.go:103-116) accepts or refuses, once.
LEMMA SubmitRefines ==
  ASSUME PipeInv, NEW e \in Events, Submit(e)
  PROVE  [Ledger!Next]_(Ledger!ledger)
<1>1. UNCHANGED <<log, received, deadletter, stopCh, outcome, spc, logFile>>
  BY DEF Submit, CountSubmitted, Offer, Enqueue, QueueFull, CountDropped, sinks, forwarder
<1>2. Phase' = Phase /\ (Phase = "open" <=> ~stopCh)
  BY <1>1, Phases DEF Phase, PipeInv, Order, DrainInv, TypeOK
<1>3. sub \in [Events -> {"new", "counted", "full", "queued", "dropped"}]
  BY DEF PipeInv, TypeOK
<1>4. CASE CountSubmitted(e) \/ CountDropped(e)
  <2>1. /\ UNCHANGED early
        /\ \A x \in Events :
              /\ sub'[x] = "queued" <=> sub[x] = "queued"
              /\ sub'[x] \in {"full", "dropped"} <=> sub[x] \in {"full", "dropped"}
    BY <1>3, <1>4 DEF CountSubmitted, CountDropped
  <2> QED
    BY <1>1, <1>2, <2>1, LedgerStutters
<1>5. CASE Enqueue(e)
  <2>1. /\ sub[e] = "counted" /\ sub' = [sub EXCEPT ![e] = "queued"]
        /\ early' = IF stopCh THEN early ELSE early \cup {e}
    BY <1>5 DEF Enqueue
  <2>2. Ledger!Accept(e)
    BY <1>1, <1>2, <1>3, <2>1 DEF Ledger!Accept, F!Settled, Contains
  <2> QED
    BY <2>2 DEF Ledger!Next
<1>6. CASE QueueFull(e)
  <2>1. sub[e] = "counted" /\ sub' = [sub EXCEPT ![e] = "full"] /\ early' = early
    BY <1>6 DEF QueueFull
  <2>2. Ledger!Refuse(e)
    BY <1>1, <1>2, <1>3, <2>1 DEF Ledger!Refuse, F!Settled, Contains
  <2> QED
    BY <2>2 DEF Ledger!Next
<1> QED
  BY <1>4, <1>5, <1>6 DEF Submit, Offer

\* A worker (engine.go:170-213) records when it writes a line.
LEMMA WorkRefines ==
  ASSUME PipeInv, NEW w \in Workers, Work(w)
  PROVE  [Ledger!Next]_(Ledger!ledger)
<1>1. UNCHANGED <<sub, early, received, deadletter, stopCh, outcome, spc, logFile>>
  BY DEF Work, WorkerStep, Receive, SeeStop, Leave, CountProcessed, WriteLog, Forward,
         sinks, forwarder, F!Enqueue
<1>2. Phase' = Phase
  BY <1>1 DEF Phase
<1>3. CASE UNCHANGED log
  BY <1>1, <1>2, <1>3, LedgerStutters
<1>4. CASE log' # log
  <2>1. /\ wpc[w] = "write" /\ logFile = "open" /\ log' = Append(log, held[w])
        /\ held[w] \in Events /\ log \in Seq(Events)
    BY <1>4 DEF Work, WorkerStep, Receive, SeeStop, Leave, CountProcessed, WriteLog, Forward,
                sinks, PipeInv, TypeOK
  <2>2. \A e : Contains(log', e) <=> Contains(log, e) \/ e = held[w]
    BY <2>1, ContainsAppend
  <2>3. sub[held[w]] = "queued" /\ ~Contains(log, held[w]) /\ held[w] \notin Malformed
    BY <2>1 DEF PipeInv, OnceInv, Busy, Logged
  <2>4. Phase \in {"open", "closing"}
    <3>1. outcome # "drained"
      BY <2>1 DEF PipeInv, DrainInv, PoolDone
    <3>2. spc \in {"running", "waiting", "closing"} /\ outcome \in {"none", "grace"}
      BY <2>1, <3>1 DEF PipeInv, Order, TypeOK
    <3> QED
      BY <3>2, Phases
  <2>5. Ledger!Record(held[w])
    BY <1>1, <1>2, <2>1, <2>2, <2>3, <2>4 DEF Ledger!Record, F!Settled
  <2> QED
    BY <2>1, <2>5 DEF Ledger!Next
<1> QED
  BY <1>3, <1>4

\* A flush (siem.go:233-290, 314-332) delivers the batch, or nothing.
LEMMA FlushRefines ==
  ASSUME PipeInv, NEW p \in F!Procs, Flush(p)
  PROVE  [Ledger!Next]_(Ledger!ledger)
<1> DEFINE S == {e \in Events : F!Settled(e)' /\ ~F!Settled(e)}
<1>1. UNCHANGED <<sub, early, log, forwarded, stopCh, outcome, spc, logFile>>
  BY DEF Flush, vars, sinks
<1>2. Phase' = Phase
  BY <1>1 DEF Phase
<1>3. /\ received \in [Events -> Nat] /\ cur[p] \in Seq(Events) /\ FP!Busy(p)
      /\ p \in FP!Procs
  BY SameForwarder DEF PipeInv, FP!ForwarderInv, FP!Shape, Flush, F!FlushStep, F!SendAccepted,
     F!SendRejected, F!SendFailed, F!CountFailed, F!WriteDeadLetters, FP!Busy
<1>4. \A e \in Events : /\ F!Settled(e) => F!Settled(e)'
                        /\ F!Settled(e)' => F!Settled(e) \/ FP!Contains(cur[p], e)
  <2>1. ASSUME F!Deliver(p) \/ UNCHANGED received
        PROVE  \A e \in Events : /\ received[e] > 0 => received'[e] > 0
                                 /\ received'[e] > 0 =>
                                       received[e] > 0 \/ FP!Contains(cur[p], e)
    BY <1>3, <2>1 DEF F!Deliver, F!Contains, FP!Contains
  <2>2. F!Deliver(p) \/ UNCHANGED received
    BY DEF Flush, F!FlushStep, F!SendAccepted, F!SendRejected, F!SendFailed, F!CountFailed,
           F!WriteDeadLetters
  <2>3. deadletter' = deadletter \/ deadletter' = deadletter \cup F!ToSet(cur[p])
    BY DEF Flush, F!FlushStep, F!SendAccepted, F!SendRejected, F!SendFailed, F!CountFailed,
           F!WriteDeadLetters
  <2>4. \A e \in F!ToSet(cur[p]) : FP!Contains(cur[p], e)
    BY <1>3 DEF F!ToSet, FP!Contains
  <2> QED
    BY <2>1, <2>2, <2>3, <2>4 DEF F!Settled
<1>5. \A e \in S : Contains(forwarded, e)
  BY <1>3, <1>4 DEF PipeInv, FP!ForwarderInv, FP!OnePlace, FP!InHand
<1>6. \A e \in S : sub[e] = "queued" /\ e \notin Malformed
  BY <1>5 DEF PipeInv, OnceInv, Logged
<1>7. Phase # "abandoned" => \A e \in S : Contains(log, e)
  <2>1. ASSUME outcome = "grace", logFile # "open" PROVE Phase = "abandoned"
    BY <2>1, Phases DEF PipeInv, Order, DrainInv, TypeOK
  <2> QED
    BY <1>5, <2>1 DEF PipeInv, Logged
<1>8. Phase # "closed"
  <2>1. SUFFICES ASSUME Phase = "closed" PROVE FALSE
    OBVIOUS
  <2>2. outcome = "drained" /\ spc = "done"
    BY <2>1, Phases DEF PipeInv, TypeOK, DrainInv
  <2>3. fpc["shutdown"] = "done" /\ fStop
    BY <2>2 DEF PipeInv, Order
  <2>4. fpc["flusher"] = "exited" /\ \A w \in Workers : fpc[w] = "ready"
    BY <2>2, <2>3 DEF PipeInv, FP!ForwarderInv, FP!Closing
  <2> QED
    BY <1>3, <2>3, <2>4 DEF FP!Procs, FP!Busy
<1>9. Ledger!Deliver
  <2>1. {e \in Events : F!Settled(e)'} = {e \in Events : F!Settled(e)} \cup S
    BY <1>4
  <2>2. /\ S \in SUBSET ({e \in Events : sub[e] = "queued"} \ Malformed)
        /\ Phase # "abandoned" => S \subseteq {e \in Events : Contains(log, e)}
    BY <1>6, <1>7
  <2> HIDE DEF S
  <2> QED
    BY <1>1, <1>2, <1>8, <2>1, <2>2 DEF Ledger!Deliver, Contains
<1> QED
  BY <1>9 DEF Ledger!Next

\* The flusher and the forwarder's Shutdown move batches, which the ledger does not see.
LEMMA ControlRefines ==
  ASSUME Ticker \/ CallShutdown \/ StopForwarder
  PROVE  UNCHANGED Ledger!ledger
<1>1. UNCHANGED <<sub, early, log, stopCh, outcome, spc, logFile, received, deadletter>>
  BY DEF Ticker, CallShutdown, StopForwarder, F!Tick, F!FlusherStops, F!BeginShutdown,
         F!TakeRemaining, F!CloseDeadLetter, vars, sinks
<1> QED
  BY <1>1, LedgerStutters DEF Phase

\* The engine's Shutdown (engine.go:119-155) announces, seals, abandons and closes.
LEMMA ShutdownRefines ==
  ASSUME PipeInv, PipeInv',
         (CloseStop /\ UNCHANGED forwarder) \/ StopEngine \/ Return
  PROVE  [Ledger!Next]_(Ledger!ledger)
<1>1. UNCHANGED <<sub, early, log, received, deadletter>>
  BY DEF CloseStop, StopEngine, Drained, GraceExceeded, CloseLog, Return, ShutdownForwarder,
         sinks, forwarder
<1>2. /\ {e \in Events : sub'[e] = "queued"} = {e \in Events : sub[e] = "queued"}
      /\ {e \in Events : sub'[e] \in {"full", "dropped"}}
            = {e \in Events : sub[e] \in {"full", "dropped"}}
      /\ {e \in Events : Contains(log', e)} = {e \in Events : Contains(log, e)}
      /\ {e \in Events : F!Settled(e)'} = {e \in Events : F!Settled(e)}
      /\ early' = early
  BY <1>1 DEF F!Settled, Contains
<1>3. CASE CloseStop
  <2>1. Phase = "open" /\ Phase' = "closing"
    BY <1>3, Phases DEF CloseStop, PipeInv, DrainInv, Phase
  <2>2. Ledger!BeginClose
    BY <1>2, <2>1 DEF Ledger!BeginClose
  <2> QED
    BY <2>2 DEF Ledger!Next
<1>4. CASE Drained
  <2>1. Phase = "closing" /\ Phase' = "sealed"
    <3>1. stopCh /\ stopCh' /\ outcome' = "drained" /\ spc' = "closing" /\ spc = "waiting"
      BY <1>4 DEF Drained, PipeInv, Order
    <3> QED
      BY <3>1, Phases DEF PipeInv, DrainInv, Phase
  <2>2. \A e \in early \ Malformed : Contains(log, e)
    <3>1. PICK w \in Workers : wpc[w] = "exited"
      BY <1>4, EngineAssumption DEF Drained, PoolDone
    <3>2. \A e \in early : ~Contains(queue, e) /\ ~Unwritten(e)
      BY <1>4, <3>1 DEF Drained, PoolDone, PipeInv, DrainInv, Unwritten
    <3>3. outcome # "grace"
      BY <1>4 DEF Drained, PipeInv, DrainInv
    <3> QED
      BY <3>2, <3>3, PipelineAssumption DEF PipeInv, DrainInv
  <2>3. early \ Malformed \subseteq {e \in Events : Contains(log, e)}
    BY <2>2 DEF PipeInv, TypeOK
  <2>4. Ledger!Seal
    BY <1>2, <2>1, <2>3 DEF Ledger!Seal
  <2> QED
    BY <2>4 DEF Ledger!Next
<1>5. CASE GraceExceeded
  <2>1. /\ stopCh /\ stopCh' /\ outcome' = "grace" /\ spc' = "closing" /\ spc = "waiting"
        /\ logFile' = "open"
    BY <1>5 DEF GraceExceeded, PipeInv, Order, sinks
  <2>2. Phase = "closing" /\ Phase' = "closing"
    BY <2>1, Phases DEF PipeInv, DrainInv, Phase
  <2> QED
    BY <1>1, <2>2, LedgerStutters
<1>6. CASE CloseLog
  <2>1. /\ spc = "closing" /\ spc' = "forwarder" /\ outcome' = outcome /\ stopCh' = stopCh
        /\ stopCh /\ logFile' = "closed" /\ outcome \in {"drained", "grace"}
    BY <1>6 DEF CloseLog, PipeInv, Order, DrainInv, TypeOK
  <2>2. CASE outcome = "drained"
    <3>1. Phase = "sealed" /\ Phase' = "sealed"
      BY <2>1, <2>2, Phases DEF Phase
    <3> QED
      BY <1>1, <3>1, LedgerStutters
  <2>3. CASE outcome = "grace"
    <3>1. Phase = "closing" /\ Phase' = "abandoned"
      BY <2>1, <2>3, Phases DEF Phase
    <3>2. Ledger!Abandon
      BY <1>2, <3>1 DEF Ledger!Abandon
    <3> QED
      BY <3>2 DEF Ledger!Next
  <2> QED
    BY <2>1, <2>2, <2>3
<1>7. CASE Return
  <2>1. /\ spc = "forwarder" /\ spc' = "done" /\ outcome' = outcome /\ stopCh' = stopCh
        /\ stopCh /\ logFile' = logFile /\ fpc["shutdown"] = "done" /\ fStop
        /\ outcome \in {"drained", "grace"}
    BY <1>7 DEF Return, ShutdownForwarder, PipeInv, Order, DrainInv, TypeOK, sinks
  <2>2. CASE outcome = "grace"
    <3>1. Phase = "abandoned"
      BY <2>1, <2>2, Phases
    <3>2. Phase' = "abandoned"
      BY <2>1, <2>2, <3>1 DEF Phase
    <3> QED
      BY <1>1, <3>1, <3>2, LedgerStutters
  <2>3. CASE outcome = "drained"
    <3>1. Phase = "sealed" /\ Phase' = "closed"
      BY <2>1, <2>3, Phases DEF Phase
    <3>2. \A e \in Events : Contains(log, e) => Contains(forwarded, e)
      BY <2>3 DEF PipeInv, DrainInv, PoolDone, Logged
    <3>3. \A e \in Events : Contains(forwarded, e) => F!Settled(e)
      <4>1. FP!ShutdownLosesNothing
        BY ForwarderAssumed, FP!DrainedMeansSettled DEF PipeInv
      <4> QED
        BY <2>1, <2>3, <4>1 DEF FP!ShutdownLosesNothing, FP!Settled, F!Settled
    <3>4. {e \in Events : Contains(log, e)} \subseteq {e \in Events : F!Settled(e)}
      BY <3>2, <3>3
    <3>5. Ledger!Close
      BY <1>2, <3>1, <3>4 DEF Ledger!Close
    <3> QED
      BY <3>5 DEF Ledger!Next
  <2> QED
    BY <2>1, <2>2, <2>3
<1> QED
  BY <1>3, <1>4, <1>5, <1>6, <1>7 DEF StopEngine

-----------------------------------------------------------------------------

\* Both components keep their types when they run together (engine.go:45-61,
\* siem.go:77-91).
THEOREM PipelineTypeCorrect == PipeSpec => []PipeTypeOK
<1>1. PipeInv => PipeTypeOK
  BY DEF PipeInv, FP!ForwarderInv, FP!Shape, PipeTypeOK, F!TypeOK, FP!Procs, F!Procs
<1> QED
  BY <1>1, PipeInvariance, PTL

\* The pipeline implements the audit ledger: what Shutdown seals holds every due event,
\* and what it closes is delivered (engine.go:103-155, 170-213, siem.go:163-332).
THEOREM PipelineIsALedger == PipeSpec => ImplementsLedger
<1>1. PipeInit => Ledger!Init
  <2> SUFFICES ASSUME PipeInit PROVE Ledger!Init
    OBVIOUS
  <2> QED
    BY DEF PipeInit, Init, F!Init, F!Settled, Ledger!Init, Phase, Contains
<1>2. PipeInv /\ PipeInv' /\ [PipeNext]_pipe => [Ledger!Next]_(Ledger!ledger)
  <2> SUFFICES ASSUME PipeInv, PipeInv', [PipeNext]_pipe
               PROVE  [Ledger!Next]_(Ledger!ledger)
    OBVIOUS
  <2>1. CASE UNCHANGED pipe
    <3>1. UNCHANGED <<sub, early, log, stopCh, outcome, spc, logFile, received, deadletter>>
      BY <2>1 DEF pipe, vars, sinks, forwarder
    <3> QED
      BY <3>1, LedgerStutters DEF Phase
  <2> QED
    BY <2>1, SubmitRefines, WorkRefines, FlushRefines, ControlRefines, ShutdownRefines
       DEF PipeNext, ShutDown
<1> QED
  BY <1>1, <1>2, PipeInvariance, PTL DEF PipeSpec, ImplementsLedger, Ledger!Spec

=============================================================================

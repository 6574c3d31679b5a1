----------------------- MODULE TelemetryEngineProofs -----------------------
(***************************************************************************)
(* Theorems about TelemetryEngine, for any finite sets of events and       *)
(* workers and every channel capacity.                                     *)
(***************************************************************************)
EXTENDS TelemetryEngine, FiniteSetTheorems, TLAPS

\* The engine's variables keep their types (engine.go:45-61), and the channel its
\* capacity.
LEMMA TypeOKInit == ASSUME Init PROVE TypeOK
<1>1. logFile \in {"none", "open", "closed"}
  BY DEF Init
<1>2. stopCh \in BOOLEAN /\ draining \in [Workers -> BOOLEAN]
  BY DEF Init
<1> QED BY <1>1, <1>2, EngineAssumption DEF Init, TypeOK

LEMMA TypeOKNext == ASSUME TypeOK, [Next]_vars PROVE TypeOK'
<1> USE EngineAssumption DEF TypeOK, counters, workerVars, sinks
<1>1. CASE UNCHANGED vars
  BY <1>1 DEF vars
<1>2. ASSUME NEW e \in Events, CountSubmitted(e) PROVE TypeOK'
  BY <1>2 DEF CountSubmitted
<1>3. ASSUME NEW e \in Events, Enqueue(e) PROVE TypeOK'
  BY <1>3 DEF Enqueue
<1>4. ASSUME NEW e \in Events, QueueFull(e) PROVE TypeOK'
  BY <1>4 DEF QueueFull
<1>5. ASSUME NEW e \in Events, CountDropped(e) PROVE TypeOK'
  BY <1>5 DEF CountDropped
<1>6. ASSUME NEW w \in Workers, Receive(w) PROVE TypeOK'
  BY <1>6 DEF Receive
<1>7. ASSUME NEW w \in Workers, SeeStop(w) PROVE TypeOK'
  BY <1>7 DEF SeeStop
<1>8. ASSUME NEW w \in Workers, Leave(w) PROVE TypeOK'
  BY <1>8 DEF Leave
<1>0. \A w \in Workers : LoopTop(w) \in {"select", "drain"}
  BY DEF LoopTop
<1>9. ASSUME NEW w \in Workers, CountProcessed(w) PROVE TypeOK'
  BY <1>0, <1>9 DEF CountProcessed
<1>10. ASSUME NEW w \in Workers, WriteLog(w) PROVE TypeOK'
  <2>1. held[w] \in Events
    BY <1>10 DEF WriteLog
  <2> QED BY <1>10, <2>1 DEF WriteLog
<1>11. ASSUME NEW w \in Workers, Forward(w) PROVE TypeOK'
  <2>1. held[w] \in Events
    BY <1>11 DEF Forward
  <2>2. forwarded' \in Seq(Events)
    BY <1>11, <2>1 DEF Forward
  <2> QED BY <1>0, <1>11, <2>2 DEF Forward
<1>12. CASE CloseStop
  BY <1>12 DEF CloseStop
<1>13. CASE ShutdownStep
  BY <1>13 DEF ShutdownStep, Drained, GraceExceeded, CloseLog, ShutdownForwarder
<1> QED
  BY <1>1, <1>2, <1>3, <1>4, <1>5, <1>6, <1>7, <1>8, <1>9, <1>10, <1>11, <1>12, <1>13
  DEF Next, Offer, WorkerStep

\* The type invariant (engine.go:45-61).
THEOREM TypeCorrect == Spec => []TypeOK
  BY TypeOKInit, TypeOKNext, PTL DEF Spec

-----------------------------------------------------------------------------
(***************************************************************************)
(* Conservation is inductive relative to TypeOK: each step moves one event *)
(* from one summand to another.                                            *)
(***************************************************************************)

\* The two sets Conservation counts are finite.
LEMMA CountsFinite ==
  /\ IsFiniteSet(Uncounted) /\ Cardinality(Uncounted) \in Nat
  /\ IsFiniteSet(Taken) /\ Cardinality(Taken) \in Nat
<1>1. Uncounted \in SUBSET Events /\ Taken \in SUBSET Workers
  BY DEF Uncounted, Taken
<1> QED BY <1>1, EngineAssumption, FS_Subset, FS_CardinalityType

\* A step that touches neither counters, channel, submitters nor pool counters
\* keeps the balance.
LEMMA BalanceFrame ==
  ASSUME Conservation, UNCHANGED <<counters, queue, Uncounted, Taken>>
  PROVE  Conservation'
  BY DEF Conservation, counters

\* Submit (engine.go:105-115) keeps the balance.
LEMMA SubmitBalance ==
  ASSUME TypeOK, Conservation, NEW e \in Events, CountSubmitted(e) \/ Offer(e)
  PROVE  Conservation'
<1> USE DEF TypeOK, counters, workerVars
<1>1. CASE CountSubmitted(e)
  <2>1. Uncounted' = Uncounted \cup {e} /\ e \notin Uncounted /\ Taken' = Taken
    BY <1>1 DEF CountSubmitted, Uncounted, Taken
  <2>2. Cardinality(Uncounted') = Cardinality(Uncounted) + 1
    BY <2>1, CountsFinite, FS_AddElement
  <2>3. submitted' = submitted + 1 /\ UNCHANGED <<processed, dropped, queue>>
    BY <1>1 DEF CountSubmitted
  <2> QED BY <2>1, <2>2, <2>3, CountsFinite DEF Conservation
<1>2. CASE Enqueue(e)
  <2>1. Uncounted' = Uncounted \ {e} /\ e \in Uncounted /\ Taken' = Taken
    BY <1>2 DEF Enqueue, Uncounted, Taken
  <2>2. Cardinality(Uncounted') = Cardinality(Uncounted) - 1
    BY <2>1, CountsFinite, FS_RemoveElement
  <2>3. Len(queue') = Len(queue) + 1 /\ UNCHANGED <<submitted, processed, dropped>>
    BY <1>2 DEF Enqueue
  <2> QED BY <2>1, <2>2, <2>3, CountsFinite DEF Conservation
<1>3. CASE QueueFull(e)
  <2>1. Uncounted' = Uncounted /\ Taken' = Taken
    BY <1>3 DEF QueueFull, Uncounted, Taken
  <2> QED BY <1>3, <2>1, BalanceFrame DEF QueueFull
<1>4. CASE CountDropped(e)
  <2>1. Uncounted' = Uncounted \ {e} /\ e \in Uncounted /\ Taken' = Taken
    BY <1>4 DEF CountDropped, Uncounted, Taken
  <2>2. Cardinality(Uncounted') = Cardinality(Uncounted) - 1
    BY <2>1, CountsFinite, FS_RemoveElement
  <2>3. dropped' = dropped + 1 /\ UNCHANGED <<submitted, processed, queue>>
    BY <1>4 DEF CountDropped
  <2> QED BY <2>1, <2>2, <2>3, CountsFinite DEF Conservation
<1> QED BY <1>1, <1>2, <1>3, <1>4 DEF Offer

\* A worker (engine.go:170-220) keeps the balance.
LEMMA WorkerBalance ==
  ASSUME TypeOK, Conservation, NEW w \in Workers, WorkerStep(w)
  PROVE  Conservation'
<1> USE DEF TypeOK, counters, sinks
<1>1. CASE Receive(w)
  <2>1. Taken' = Taken \cup {w} /\ w \notin Taken /\ Uncounted' = Uncounted
    BY <1>1 DEF Receive, Uncounted, Taken
  <2>2. Cardinality(Taken') = Cardinality(Taken) + 1
    BY <2>1, CountsFinite, FS_AddElement
  <2>3. Len(queue') = Len(queue) - 1 /\ UNCHANGED <<submitted, processed, dropped>>
    BY <1>1 DEF Receive
  <2> QED BY <2>1, <2>2, <2>3, CountsFinite DEF Conservation
<1>2. CASE CountProcessed(w)
  <2>1. wpc' = [wpc EXCEPT ![w] = wpc'[w]] /\ wpc'[w] # "taken"
    BY <1>2 DEF CountProcessed, LoopTop
  <2>2. Taken' = Taken \ {w} /\ w \in Taken /\ Uncounted' = Uncounted
    BY <1>2, <2>1 DEF CountProcessed, Uncounted, Taken
  <2>3. Cardinality(Taken') = Cardinality(Taken) - 1
    BY <2>2, CountsFinite, FS_RemoveElement
  <2>4. processed' = processed + 1 /\ UNCHANGED <<submitted, dropped, queue>>
    BY <1>2 DEF CountProcessed
  <2> QED BY <2>2, <2>3, <2>4, CountsFinite DEF Conservation
<1>3. CASE SeeStop(w) \/ Leave(w) \/ WriteLog(w) \/ Forward(w)
  <2>1. Taken' = Taken
    BY <1>3 DEF SeeStop, Leave, WriteLog, Forward, LoopTop, Taken
  <2>2. UNCHANGED <<counters, queue, sub>>
    BY <1>3 DEF SeeStop, Leave, WriteLog, Forward
  <2>3. Uncounted' = Uncounted
    BY <2>2 DEF Uncounted
  <2> QED BY <2>1, <2>2, <2>3, BalanceFrame
<1> QED BY <1>1, <1>2, <1>3 DEF WorkerStep

\* No event goes missing from the counters, for any number of goroutines and
\* workers and every capacity (engine.go:105-115, 170-194).
THEOREM NoEventMissing == Spec => []Conservation
<1>1. Init => Conservation
  <2> SUFFICES ASSUME Init PROVE Conservation
    OBVIOUS
  <2>1. Uncounted = {} /\ Taken = {}
    BY DEF Init, Uncounted, Taken
  <2> QED BY <2>1, FS_EmptySet DEF Init, Conservation
<1>2. TypeOK /\ Conservation /\ [Next]_vars => Conservation'
  <2> SUFFICES ASSUME TypeOK, Conservation, [Next]_vars PROVE Conservation'
    OBVIOUS
  <2>1. ASSUME UNCHANGED <<counters, queue, sub, wpc>> PROVE Conservation'
    <3>1. Uncounted' = Uncounted /\ Taken' = Taken
      BY <2>1 DEF Uncounted, Taken
    <3> QED BY <2>1, <3>1, BalanceFrame
  <2>2. CASE CloseStop \/ ShutdownStep \/ UNCHANGED vars
    BY <2>1, <2>2 DEF CloseStop, ShutdownStep, Drained, GraceExceeded, CloseLog,
                      ShutdownForwarder, vars, workerVars
  <2> QED BY <2>2, SubmitBalance, WorkerBalance DEF Next
<1> QED BY <1>1, <1>2, TypeCorrect, PTL DEF Spec

-----------------------------------------------------------------------------
(***************************************************************************)
(* DrainComplete, from the inductive invariant DrainInv.                   *)
(***************************************************************************)

\* What the channel operations do to the contents of a sequence of events.
LEMMA ContainsAppend ==
  ASSUME NEW s \in Seq(Events), NEW x \in Events, NEW e
  PROVE  Contains(Append(s, x), e) <=> Contains(s, e) \/ e = x
<1>1. /\ Len(s) \in Nat /\ Len(Append(s, x)) = Len(s) + 1
      /\ \A i \in 1..Len(s) : Append(s, x)[i] = s[i]
      /\ Append(s, x)[Len(s) + 1] = x
  OBVIOUS
<1>2. ASSUME Contains(s, e) \/ e = x PROVE Contains(Append(s, x), e)
  <2>1. 1..Len(s) \subseteq 1..Len(Append(s, x)) /\ Len(s) + 1 \in 1..Len(Append(s, x))
    BY <1>1
  <2> QED BY <1>1, <1>2, <2>1 DEF Contains
<1>3. ASSUME Contains(Append(s, x), e) PROVE Contains(s, e) \/ e = x
  <2>1. PICK i \in 1..Len(Append(s, x)) : Append(s, x)[i] = e
    BY <1>3 DEF Contains
  <2>2. i \in 1..Len(s) \/ i = Len(s) + 1
    BY <1>1, <2>1
  <2> QED BY <1>1, <2>1, <2>2 DEF Contains
<1> QED BY <1>2, <1>3

LEMMA ContainsTail ==
  ASSUME NEW s \in Seq(Events), s # << >>, NEW e
  PROVE  Contains(s, e) <=> Contains(Tail(s), e) \/ e = Head(s)
<1>1. /\ Len(s) \in Nat \ {0} /\ Len(Tail(s)) = Len(s) - 1
      /\ \A i \in 1..Len(Tail(s)) : Tail(s)[i] = s[i + 1]
      /\ Head(s) = s[1]
  OBVIOUS
<1>2. ASSUME Contains(s, e) PROVE Contains(Tail(s), e) \/ e = Head(s)
  <2>1. PICK i \in 1..Len(s) : s[i] = e
    BY <1>2 DEF Contains
  <2>2. i = 1 \/ (i - 1 \in 1..Len(Tail(s)) /\ (i - 1) + 1 = i)
    BY <1>1, <2>1
  <2> QED BY <1>1, <2>1, <2>2 DEF Contains
<1>3. ASSUME Contains(Tail(s), e) \/ e = Head(s) PROVE Contains(s, e)
  <2>1. CASE e = Head(s)
    BY <1>1, <2>1 DEF Contains
  <2>2. CASE Contains(Tail(s), e)
    <3>1. PICK i \in 1..Len(Tail(s)) : Tail(s)[i] = e
      BY <2>2 DEF Contains
    <3>2. i + 1 \in 1..Len(s)
      BY <1>1, <3>1
    <3> QED BY <1>1, <3>1, <3>2 DEF Contains
  <2> QED BY <1>3, <2>1, <2>2
<1> QED BY <1>2, <1>3

LEMMA DrainInit == ASSUME Init PROVE DrainInv
  BY EngineAssumption DEF Init, DrainInv, Contains

\* Submit only adds to the channel, and to early only while no worker drains.
LEMMA SubmitDrain ==
  ASSUME TypeOK, DrainInv, NEW e \in Events, CountSubmitted(e) \/ Offer(e)
  PROVE  DrainInv'
<1> USE DEF workerVars, sinks, PoolDone, Unwritten
<1>1. CASE Enqueue(e)
  <2>1. /\ queue \in Seq(Events) /\ queue' = Append(queue, e)
        /\ UNCHANGED <<stopCh, wpc, held, draining, logFile, log, spc, outcome>>
        /\ early' = IF stopCh THEN early ELSE early \cup {e}
        /\ early \subseteq Events
    BY <1>1 DEF Enqueue, TypeOK
  <2>2. e \notin early /\ (\A x \in early' : sub'[x] = "queued")
    BY <1>1 DEF Enqueue, DrainInv, TypeOK
  <2>3. \A x : Contains(queue', x) <=> Contains(queue, x) \/ x = e
    BY <2>1, ContainsAppend
  <2>4. (\E w \in Workers : wpc[w] = "exited") => \A x \in early' : ~Contains(queue', x)
    BY <2>1, <2>2, <2>3 DEF DrainInv
  <2>5. LocalLog /\ outcome # "grace" =>
          \A x \in early' \ Malformed :
             Contains(queue', x) \/ Unwritten(x) \/ Contains(log, x)
    BY <2>1, <2>3 DEF DrainInv
  <2> QED BY <2>1, <2>2, <2>4, <2>5 DEF DrainInv
<1>2. CASE CountSubmitted(e) \/ QueueFull(e) \/ CountDropped(e)
  <2>1. e \notin early
    BY <1>2 DEF CountSubmitted, QueueFull, CountDropped, DrainInv
  <2>2. \A x \in early : sub'[x] = sub[x]
    BY <1>2, <2>1 DEF CountSubmitted, QueueFull, CountDropped, TypeOK
  <2> QED BY <1>2, <2>2 DEF CountSubmitted, QueueFull, CountDropped, DrainInv
<1> QED BY <1>1, <1>2 DEF Offer

\* A worker moves an early event from the channel to its hands and from there
\* to the log, and leaves only when the channel is empty.
LEMMA WorkerDrain ==
  ASSUME TypeOK, DrainInv, NEW w \in Workers, WorkerStep(w)
  PROVE  DrainInv'
<1> USE DEF sinks
<1>0. outcome # "drained" /\ wpc[w] # "exited"
  BY DEF WorkerStep, Receive, SeeStop, Leave, CountProcessed, WriteLog, Forward,
         DrainInv, PoolDone
<1>1. UNCHANGED <<stopCh, spc, outcome, early, sub, logFile>>
  BY DEF WorkerStep, Receive, SeeStop, Leave, CountProcessed, WriteLog, Forward
<1>2. CASE Receive(w)
  <2>1. /\ queue \in Seq(Events) /\ queue # << >> /\ queue' = Tail(queue)
        /\ wpc' = [wpc EXCEPT ![w] = "taken"] /\ held' = [held EXCEPT ![w] = Head(queue)]
        /\ wpc[w] \in {"select", "drain"}
        /\ UNCHANGED <<draining, log>>
    BY <1>2 DEF Receive, TypeOK
  <2>2. \A x : Contains(queue, x) <=> Contains(queue', x) \/ x = Head(queue)
    BY <2>1, ContainsTail
  <2>3. held'[w] = Head(queue) /\ wpc'[w] = "taken"
    BY <2>1 DEF TypeOK
  <2>4. \A x : Unwritten(x) => Unwritten(x)'
    BY <2>1 DEF Unwritten, TypeOK
  <2>5. \A v \in Workers : wpc'[v] \in {"drain", "exited"} => wpc'[v] = wpc[v]
    BY <2>1 DEF TypeOK
  <2>6. LocalLog /\ outcome # "grace" =>
          \A x \in early \ Malformed :
             Contains(queue', x) \/ Unwritten(x)' \/ Contains(log, x)
    <3>1. \A x : x = Head(queue) => Unwritten(x)'
      BY <2>3 DEF Unwritten
    <3> QED BY <2>2, <2>4, <3>1 DEF DrainInv
  <2>7. (\E v \in Workers : wpc'[v] = "exited") => \A x \in early : ~Contains(queue', x)
    BY <2>2, <2>5 DEF DrainInv
  <2> QED BY <1>0, <1>1, <2>1, <2>5, <2>6, <2>7 DEF DrainInv
<1>3. CASE SeeStop(w)
  <2>1. /\ stopCh /\ UNCHANGED <<queue, held, log>>
        /\ wpc[w] = "select" /\ wpc' = [wpc EXCEPT ![w] = "drain"]
    BY <1>3 DEF SeeStop
  <2>2. \A x : Unwritten(x) => Unwritten(x)'
    BY <2>1 DEF Unwritten, TypeOK
  <2>3. \A v \in Workers : wpc'[v] = "exited" => wpc[v] = "exited"
    BY <2>1 DEF TypeOK
  <2> QED BY <1>0, <1>1, <2>1, <2>2, <2>3 DEF DrainInv
<1>4. CASE Leave(w)
  <2>1. /\ queue = << >> /\ UNCHANGED <<queue, held, log, draining>>
        /\ wpc[w] = "drain" /\ wpc' = [wpc EXCEPT ![w] = "exited"]
    BY <1>4 DEF Leave
  <2>2. \A x : Unwritten(x) => Unwritten(x)'
    BY <2>1 DEF Unwritten, TypeOK
  <2>3. \A x : ~Contains(queue, x)
    BY <2>1 DEF Contains
  <2>4. stopCh
    BY <2>1 DEF DrainInv
  <2> QED BY <1>0, <1>1, <2>1, <2>2, <2>3, <2>4 DEF DrainInv
<1>5. ASSUME UNCHANGED <<queue, draining>>,
             wpc[w] \in {"taken", "write", "forward"},
             wpc' = [wpc EXCEPT ![w] = wpc'[w]],
             wpc'[w] \in {LoopTop(w), "write", "forward"},
             \A x \in early \ Malformed :
                LocalLog /\ outcome # "grace" /\ (Unwritten(x) \/ Contains(log, x))
                  => Unwritten(x)' \/ Contains(log', x)
      PROVE  DrainInv'
  <2>1. \A v \in Workers : v # w => wpc'[v] = wpc[v]
    BY <1>5 DEF TypeOK
  <2>2. wpc'[w] # "exited" /\ (wpc'[w] = "drain" => draining[w])
    BY <1>5 DEF LoopTop
  <2> QED BY <1>0, <1>1, <1>5, <2>1, <2>2 DEF DrainInv
<1>6. CASE CountProcessed(w)
  <2>1. /\ UNCHANGED <<queue, draining, log>> /\ wpc[w] = "taken"
        /\ wpc' = [wpc EXCEPT ![w] = wpc'[w]]
        /\ wpc'[w] \in {LoopTop(w), "write"}
        /\ held[w] \notin Malformed => wpc'[w] = "write" /\ held' = held
        /\ \A v \in Workers : v # w => held'[v] = held[v]
    BY <1>6 DEF CountProcessed, TypeOK
  <2>2. \A x \in early \ Malformed : Unwritten(x) => Unwritten(x)'
    BY <2>1 DEF Unwritten, TypeOK
  <2> QED BY <1>5, <2>1, <2>2
<1>7. CASE WriteLog(w)
  <2>1. /\ UNCHANGED <<queue, draining, held>> /\ wpc[w] = "write"
        /\ wpc' = [wpc EXCEPT ![w] = "forward"] /\ wpc'[w] = "forward"
        /\ log' = IF logFile = "open" THEN Append(log, held[w]) ELSE log
    BY <1>7 DEF WriteLog, TypeOK
  <2>2. held[w] \in Events /\ log \in Seq(Events)
    BY <2>1 DEF TypeOK
  <2>3. \A x : Unwritten(x) => Unwritten(x)' \/ x = held[w]
    BY <2>1 DEF Unwritten, TypeOK
  <2>4. LocalLog /\ outcome # "grace" => logFile = "open"
    BY <1>0 DEF DrainInv, TypeOK
  <2>5. \A x : Contains(Append(log, held[w]), x) <=> Contains(log, x) \/ x = held[w]
    BY <2>2, ContainsAppend
  <2> QED BY <1>5, <2>1, <2>3, <2>4, <2>5
<1>8. CASE Forward(w)
  <2>1. /\ UNCHANGED <<queue, draining, log>> /\ wpc[w] = "forward"
        /\ wpc' = [wpc EXCEPT ![w] = wpc'[w]] /\ wpc'[w] = LoopTop(w)
        /\ \A v \in Workers : v # w => held'[v] = held[v]
    BY <1>8 DEF Forward, TypeOK
  <2>2. \A x : Unwritten(x) => Unwritten(x)'
    BY <2>1 DEF Unwritten, TypeOK
  <2> QED BY <1>5, <2>1, <2>2
<1> QED BY <1>2, <1>3, <1>4, <1>6, <1>7, <1>8 DEF WorkerStep

\* Shutdown closes the log only after its select has chosen.
LEMMA ShutdownDrain ==
  ASSUME TypeOK, DrainInv, CloseStop \/ ShutdownStep \/ UNCHANGED vars
  PROVE  DrainInv'
<1> USE DEF workerVars, sinks, Unwritten, PoolDone
<1>1. CASE CloseStop
  BY <1>1 DEF CloseStop, DrainInv
<1>2. CASE Drained
  BY <1>2 DEF Drained, DrainInv
<1>3. CASE GraceExceeded
  BY <1>3 DEF GraceExceeded, DrainInv
<1>4. CASE CloseLog
  BY <1>4 DEF CloseLog, DrainInv
<1>5. CASE ShutdownForwarder
  BY <1>5 DEF ShutdownForwarder, DrainInv
<1>6. CASE UNCHANGED vars
  BY <1>6 DEF vars, DrainInv
<1> QED BY <1>1, <1>2, <1>3, <1>4, <1>5, <1>6 DEF ShutdownStep

\* So does every step of the engine (engine.go:105-220).
LEMMA DrainNext == TypeOK /\ DrainInv /\ [Next]_vars => DrainInv'
  BY SubmitDrain, WorkerDrain, ShutdownDrain DEF Next

\* The invariant holds of every run of the engine (engine.go:105-220).
THEOREM DrainInvariance == Spec => []DrainInv
<1>1. Init => DrainInv
  BY DrainInit
<1>2. TypeOK /\ DrainInv /\ [Next]_vars => DrainInv'
  BY DrainNext
<1> QED BY <1>1, <1>2, TypeCorrect, PTL DEF Spec

\* When Shutdown reports that the queue drained, every event enqueued before it
\* began, and that marshals, is in the log file (engine.go:119-144, 170-208).
THEOREM DrainedMeansWritten == Spec => []DrainComplete
<1>1. DrainInv => DrainComplete
  <2> SUFFICES ASSUME DrainInv, LocalLog, outcome = "drained",
                      NEW e \in early \ Malformed
               PROVE  Contains(log, e)
    BY DEF DrainComplete
  <2>1. \A w \in Workers : wpc[w] = "exited"
    BY DEF DrainInv, PoolDone
  <2>2. ~Contains(queue, e) /\ ~Unwritten(e)
    BY <2>1, EngineAssumption DEF DrainInv, Unwritten
  <2> QED BY <2>2 DEF DrainInv
<1> QED BY <1>1, DrainInvariance, PTL

\* After a drained shutdown nothing is processed, written or forwarded any more,
\* whoever still calls Submit (engine.go:132-155).
THEOREM DrainedStaysFinal == Spec => DrainedIsFinal
<1>1. DrainInv /\ [Next]_vars =>
        [outcome = "drained" => UNCHANGED <<processed, log, forwarded>>]_vars
  <2> SUFFICES ASSUME DrainInv, Next, outcome = "drained"
               PROVE  UNCHANGED <<processed, log, forwarded>>
    OBVIOUS
  <2>1. \A w \in Workers : wpc[w] = "exited"
    BY DEF DrainInv, PoolDone
  <2>2. \A w \in Workers : ~WorkerStep(w)
    BY <2>1 DEF WorkerStep, Receive, SeeStop, Leave, CountProcessed, WriteLog, Forward
  <2>3. CASE \E e \in Events : CountSubmitted(e) \/ Offer(e)
    BY <2>3 DEF CountSubmitted, Offer, Enqueue, QueueFull, CountDropped, counters, sinks
  <2>4. CASE CloseStop \/ ShutdownStep
    BY <2>4 DEF CloseStop, ShutdownStep, Drained, GraceExceeded, CloseLog,
                ShutdownForwarder, counters, sinks
  <2> QED BY <2>2, <2>3, <2>4 DEF Next
<1> QED BY <1>1, DrainInvariance, PTL DEF Spec, DrainedIsFinal

-----------------------------------------------------------------------------
(***************************************************************************)
(* AtMostOnce, from an invariant that says where an event may be, given    *)
(* how far its Submit and its worker have come.                            *)
(***************************************************************************)
Distinct(s) == \A i, j \in 1..Len(s) : s[i] = s[j] => i = j

Busy(w) == wpc[w] \in {"taken", "write", "forward"}

OnceInv ==
    /\ Distinct(queue) /\ Distinct(log) /\ Distinct(forwarded)
    /\ \A e \in Events : sub[e] # "queued" =>
          ~Contains(queue, e) /\ ~Contains(log, e) /\ ~Contains(forwarded, e)
    /\ \A e \in Events : Contains(queue, e) => ~Contains(log, e) /\ ~Contains(forwarded, e)
    /\ \A w \in Workers : ~Busy(w) => held[w] = NoEvent
    /\ \A w \in Workers : Busy(w) =>
          /\ sub[held[w]] = "queued"
          /\ ~Contains(queue, held[w]) /\ ~Contains(forwarded, held[w])
          /\ wpc[w] # "forward" => ~Contains(log, held[w])
    /\ \A v, w \in Workers : held[v] = held[w] /\ held[v] # NoEvent => v = w

\* Appending what a sequence does not contain keeps it free of duplicates.
LEMMA DistinctAppend ==
  ASSUME NEW s \in Seq(Events), NEW x \in Events, Distinct(s), ~Contains(s, x)
  PROVE  Distinct(Append(s, x))
<1>1. /\ Len(s) \in Nat /\ Len(Append(s, x)) = Len(s) + 1
      /\ \A i \in 1..Len(s) : Append(s, x)[i] = s[i]
      /\ Append(s, x)[Len(s) + 1] = x
  OBVIOUS
<1>2. \A i \in 1..Len(Append(s, x)) : i \in 1..Len(s) \/ i = Len(s) + 1
  BY <1>1
<1>3. \A i \in 1..Len(s) : s[i] # x
  BY DEF Contains
<1> QED BY <1>1, <1>2, <1>3 DEF Distinct

\* The first of a sequence without duplicates is not in its rest.
LEMMA DistinctTail ==
  ASSUME NEW s \in Seq(Events), s # << >>, Distinct(s)
  PROVE  Distinct(Tail(s)) /\ ~Contains(Tail(s), Head(s))
<1>1. /\ Len(s) \in Nat \ {0} /\ Len(Tail(s)) = Len(s) - 1
      /\ \A i \in 1..Len(Tail(s)) : Tail(s)[i] = s[i + 1]
      /\ Head(s) = s[1]
  OBVIOUS
<1>2. \A i \in 1..Len(Tail(s)) : i + 1 \in 1..Len(s) /\ i + 1 # 1
  BY <1>1
<1>3. 1 \in 1..Len(s)
  BY <1>1
<1>4. ASSUME NEW i \in 1..Len(Tail(s)), NEW j \in 1..Len(Tail(s)), Tail(s)[i] = Tail(s)[j]
      PROVE  i = j
  <2>1. i + 1 = j + 1
    BY <1>1, <1>2, <1>4 DEF Distinct
  <2> QED BY <2>1
<1>5. ASSUME NEW i \in 1..Len(Tail(s)), Tail(s)[i] = Head(s) PROVE FALSE
  BY <1>1, <1>2, <1>3, <1>5 DEF Distinct
<1> QED BY <1>4, <1>5 DEF Distinct, Contains

\* At the start nothing is anywhere.
LEMMA OnceInit == ASSUME Init PROVE OnceInv
  BY DEF Init, OnceInv, Distinct, Contains, Busy

\* Submit (engine.go:105-115) puts an event on the channel once.
LEMMA SubmitOnce ==
  ASSUME TypeOK, OnceInv, NEW e \in Events, CountSubmitted(e) \/ Offer(e)
  PROVE  OnceInv'
<1>1. CASE CountSubmitted(e) \/ QueueFull(e) \/ CountDropped(e)
  <2>1. /\ UNCHANGED <<queue, wpc, held, log, forwarded>>
        /\ sub[e] # "queued" /\ sub' = [sub EXCEPT ![e] = sub'[e]]
    BY <1>1 DEF CountSubmitted, QueueFull, CountDropped, workerVars, sinks, TypeOK
  <2>2. \A x \in Events : sub[x] = "queued" => sub'[x] = "queued"
    BY <2>1 DEF TypeOK
  <2>3. \A x \in Events : sub'[x] # "queued" => sub[x] # "queued"
    BY <2>2
  <2>4. \A w \in Workers : Busy(w) => held[w] \in Events
    BY DEF TypeOK, Busy
  <2> QED BY <2>1, <2>2, <2>3, <2>4 DEF OnceInv, Busy
<1>2. CASE Enqueue(e)
  <2>1. /\ UNCHANGED <<wpc, held, log, forwarded>>
        /\ sub[e] = "counted" /\ sub' = [sub EXCEPT ![e] = "queued"]
        /\ queue' = Append(queue, e) /\ queue \in Seq(Events)
    BY <1>2 DEF Enqueue, workerVars, sinks, TypeOK
  <2>2. \A x : Contains(queue', x) <=> Contains(queue, x) \/ x = e
    BY <2>1, ContainsAppend
  <2>3. ~Contains(queue, e) /\ ~Contains(log, e) /\ ~Contains(forwarded, e)
    BY <2>1 DEF OnceInv
  <2>4. Distinct(queue')
    BY <2>1, <2>3, DistinctAppend DEF OnceInv
  <2>5. sub'[e] = "queued" /\ \A x \in Events : x # e => sub'[x] = sub[x]
    BY <2>1 DEF TypeOK
  <2>6. \A w \in Workers : Busy(w) => held[w] \in Events /\ held[w] # e
    BY <2>1 DEF TypeOK, Busy, OnceInv
  <2>7. \A x \in Events : sub'[x] # "queued" => sub[x] # "queued" /\ x # e
    BY <2>5
  <2> QED BY <2>1, <2>2, <2>3, <2>4, <2>5, <2>6, <2>7 DEF OnceInv, Busy
<1> QED BY <1>1, <1>2 DEF Offer

\* A worker (engine.go:170-213) takes an event off the channel, and writes and forwards
\* the one it has before it takes another.
LEMMA WorkerOnce ==
  ASSUME TypeOK, OnceInv, NEW w \in Workers, WorkerStep(w)
  PROVE  OnceInv'
<1>1. sub' = sub
  BY DEF WorkerStep, Receive, SeeStop, Leave, CountProcessed, WriteLog, Forward
<1>2. \A v \in Workers : Busy(v) => held[v] \in Events
  BY DEF TypeOK, Busy
<1>3. CASE Receive(w)
  <2>1. /\ queue \in Seq(Events) /\ queue # << >> /\ queue' = Tail(queue)
        /\ held' = [held EXCEPT ![w] = Head(queue)] /\ wpc' = [wpc EXCEPT ![w] = "taken"]
        /\ UNCHANGED <<log, forwarded>>
    BY <1>3 DEF Receive, sinks, TypeOK
  <2>2. \A x : Contains(queue, x) <=> Contains(queue', x) \/ x = Head(queue)
    BY <2>1, ContainsTail
  <2>3. Distinct(queue') /\ ~Contains(queue', Head(queue))
    BY <2>1, DistinctTail DEF OnceInv
  <2>4. Head(queue) \in Events
    BY <2>1
  <2>5. /\ sub[Head(queue)] = "queued"
        /\ ~Contains(log, Head(queue)) /\ ~Contains(forwarded, Head(queue))
    BY <2>2, <2>4 DEF OnceInv
  <2>6. \A v \in Workers : held[v] # Head(queue)
    BY <1>2, <2>2, <2>4, EngineAssumption DEF OnceInv
  <2>7. /\ held'[w] = Head(queue) /\ wpc'[w] = "taken"
        /\ \A v \in Workers : v # w => held'[v] = held[v] /\ wpc'[v] = wpc[v]
    BY <2>1 DEF TypeOK
  <2> QED BY <1>1, <1>2, <2>1, <2>2, <2>3, <2>5, <2>6, <2>7 DEF OnceInv, Busy
<1>4. CASE SeeStop(w) \/ Leave(w)
  <2>1. /\ UNCHANGED <<queue, held, log, forwarded>>
        /\ wpc[w] \in {"select", "drain"} /\ wpc'[w] \in {"drain", "exited"}
        /\ \A v \in Workers : v # w => wpc'[v] = wpc[v]
    BY <1>4 DEF SeeStop, Leave, sinks, TypeOK
  <2> QED BY <1>1, <2>1 DEF OnceInv, Busy
<1>5. CASE CountProcessed(w)
  <2>1. /\ UNCHANGED <<queue, log, forwarded>> /\ wpc[w] = "taken"
        /\ \A v \in Workers : v # w => wpc'[v] = wpc[v] /\ held'[v] = held[v]
        /\ \/ wpc'[w] = "write" /\ held'[w] = held[w]
           \/ wpc'[w] \in {"select", "drain"} /\ held'[w] = NoEvent
    BY <1>5 DEF CountProcessed, LoopTop, sinks, TypeOK
  <2> QED BY <1>1, <2>1 DEF OnceInv, Busy
<1>6. CASE WriteLog(w)
  <2>1. /\ UNCHANGED <<queue, held, forwarded>> /\ wpc[w] = "write" /\ wpc'[w] = "forward"
        /\ \A v \in Workers : v # w => wpc'[v] = wpc[v]
        /\ log' = Append(log, held[w]) \/ log' = log
        /\ log \in Seq(Events) /\ held[w] \in Events
    BY <1>2, <1>6 DEF WriteLog, TypeOK, Busy
  <2>2. ~Contains(log, held[w]) /\ sub[held[w]] = "queued" /\ ~Contains(queue, held[w])
    BY <2>1 DEF OnceInv, Busy
  <2>3. Distinct(log')
    BY <2>1, <2>2, DistinctAppend DEF OnceInv
  <2>4. \A x : Contains(log', x) => Contains(log, x) \/ x = held[w]
    <3>1. log \in Seq(Events) /\ held[w] \in Events
      BY <2>1
    <3>2. \A x : Contains(Append(log, held[w]), x) <=> Contains(log, x) \/ x = held[w]
      BY <3>1, ContainsAppend
    <3> QED BY <2>1, <3>2
  <2>5. \A v \in Workers : v # w /\ Busy(v) => held[v] # held[w]
    BY <1>2, EngineAssumption DEF OnceInv
  <2> QED BY <1>1, <2>1, <2>2, <2>3, <2>4, <2>5 DEF OnceInv, Busy
<1>7. CASE Forward(w)
  <2>1. /\ UNCHANGED <<queue, log>> /\ wpc[w] = "forward"
        /\ wpc'[w] \in {"select", "drain"} /\ held'[w] = NoEvent
        /\ \A v \in Workers : v # w => wpc'[v] = wpc[v] /\ held'[v] = held[v]
        /\ forwarded' = Append(forwarded, held[w]) \/ forwarded' = forwarded
        /\ forwarded \in Seq(Events) /\ held[w] \in Events
    BY <1>2, <1>7 DEF Forward, LoopTop, TypeOK, Busy
  <2>2. ~Contains(forwarded, held[w]) /\ sub[held[w]] = "queued" /\ ~Contains(queue, held[w])
    BY <2>1 DEF OnceInv, Busy
  <2>3. Distinct(forwarded')
    BY <2>1, <2>2, DistinctAppend DEF OnceInv
  <2>4. \A x : Contains(forwarded', x) => Contains(forwarded, x) \/ x = held[w]
    <3>1. forwarded \in Seq(Events) /\ held[w] \in Events
      BY <2>1
    <3>2. \A x : Contains(Append(forwarded, held[w]), x) <=> Contains(forwarded, x) \/ x = held[w]
      BY <3>1, ContainsAppend
    <3> QED BY <2>1, <3>2
  <2>5. \A v \in Workers : v # w /\ Busy(v) => held[v] # held[w]
    BY <1>2, EngineAssumption DEF OnceInv
  <2> QED BY <1>1, <2>1, <2>2, <2>3, <2>4, <2>5 DEF OnceInv, Busy
<1> QED BY <1>3, <1>4, <1>5, <1>6, <1>7 DEF WorkerStep

LEMMA OnceNext == ASSUME TypeOK, OnceInv, [Next]_vars PROVE OnceInv'
<1>1. ASSUME UNCHANGED <<queue, sub, wpc, held, log, forwarded>> PROVE OnceInv'
  BY <1>1 DEF OnceInv, Busy
<1>2. CASE CloseStop \/ ShutdownStep \/ UNCHANGED vars
  BY <1>1, <1>2 DEF CloseStop, ShutdownStep, Drained, GraceExceeded, CloseLog,
                    ShutdownForwarder, vars, workerVars, sinks
<1> QED BY <1>2, SubmitOnce, WorkerOnce DEF Next

\* No event is duplicated between Submit and the sinks, for any number of events,
\* goroutines and workers and every capacity (engine.go:105-115, 170-213).
THEOREM NoEventTwice == Spec => []AtMostOnce
<1>1. Init => OnceInv
  BY OnceInit
<1>2. TypeOK /\ OnceInv /\ [Next]_vars => OnceInv'
  BY OnceNext
<1>3. TypeOK /\ OnceInv => AtMostOnce
  <2> SUFFICES ASSUME TypeOK, OnceInv PROVE AtMostOnce
    OBVIOUS
  <2>1. \A e \in Events : Contains(queue, e) => Holding(e) = {}
    BY EngineAssumption DEF OnceInv, Busy, Holding, TypeOK
  <2> QED BY <2>1 DEF OnceInv, AtMostOnce, Distinct
<1> QED BY <1>1, <1>2, <1>3, TypeCorrect, PTL DEF Spec

=============================================================================

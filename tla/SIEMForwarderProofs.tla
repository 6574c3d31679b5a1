------------------------- MODULE SIEMForwarderProofs -------------------------
(***************************************************************************)
(* For any finite sets of events and workers, every batch size and every   *)
(* number of retries: no event is sent more often than it may be, none is  *)
(* lost by a Shutdown that comes after the engine has drained, and the     *)
(* counters account for each.                                              *)
(***************************************************************************)
EXTENDS SIEMForwarder, FiniteSetTheorems, FunctionTheorems, TLAPS

\* What the operations on batches do to their contents.
LEMMA ContainsAppend ==
  ASSUME NEW s \in Seq(Events), NEW x \in Events, NEW e
  PROVE  Contains(Append(s, x), e) <=> Contains(s, e) \/ e = x
<1>1. /\ Len(s) \in Nat /\ Len(Append(s, x)) = Len(s) + 1
      /\ \A i \in 1..Len(s) : Append(s, x)[i] = s[i]
      /\ Append(s, x)[Len(s) + 1] = x
  OBVIOUS
<1>2. ASSUME Contains(s, e) \/ e = x PROVE Contains(Append(s, x), e)
  <2>1. 1..Len(s) \subseteq 1..Len(Append(s, x)) /\ Len(s) + 1 \in 1..Len(Append(s, x))
    BY <1>1
  <2> QED BY <1>1, <1>2, <2>1 DEF Contains
<1>3. ASSUME Contains(Append(s, x), e) PROVE Contains(s, e) \/ e = x
  <2>1. PICK i \in 1..Len(Append(s, x)) : Append(s, x)[i] = e
    BY <1>3 DEF Contains
  <2>2. i \in 1..Len(s) \/ i = Len(s) + 1
    BY <1>1, <2>1
  <2> QED BY <1>1, <2>1, <2>2 DEF Contains
<1> QED BY <1>2, <1>3

LEMMA ContainsNothing == \A e : ~Contains(<< >>, e)
  BY DEF Contains

LEMMA ContainsIsToSet ==
  ASSUME NEW s \in Seq(Events), NEW e, Contains(s, e)
  PROVE  e \in ToSet(s)
  BY DEF Contains, ToSet

(***************************************************************************)
(* The inductive invariant.  An event is in one place at a time: not yet   *)
(* forwarded, in the batch, or with one goroutine, which has sent it less  *)
(* often than the number its attempt has.  One that is nowhere has been    *)
(* received or dead-lettered, at least until the file is closed.  Once the *)
(* engine has drained no worker comes back, so that what Shutdown leaves   *)
(* behind it is nothing.                                                   *)
(***************************************************************************)
Busy(p) == fpc[p] \in {"send", "dead", "deadWrite"}

Resting(p) == CASE p = "flusher"  -> {"loop", "exited"}
                [] p = "shutdown" -> {"running", "wait", "close", "done"}
                [] OTHER          -> {"ready"}

InHand(e) == \E p \in Procs : Contains(cur[p], e)

Shape ==
    /\ pending \subseteq Events
    /\ batch \in Seq(Events) /\ Len(batch) < BatchSize
    /\ fpc \in [Procs -> {"ready", "loop", "exited", "running", "wait", "close", "done",
                          "send", "dead", "deadWrite"}]
    /\ cur \in [Procs -> Seq(Events)] /\ attempt \in [Procs -> 0..(MaxRetries + 1)]
    /\ flushed \in Nat /\ failed \in Nat
    /\ stopCh \in BOOLEAN /\ drained \in BOOLEAN /\ dlOpen \in BOOLEAN
    /\ deadletter \subseteq Events
    /\ received \in [Events -> Nat]
    /\ \A p \in Procs : Busy(p) \/ fpc[p] \in Resting(p)
    /\ \A p \in Procs : ~Busy(p) => cur[p] = << >>

OnePlace ==
    /\ \A e \in pending : ~Contains(batch, e) /\ ~InHand(e)
    /\ \A e \in Events : Contains(batch, e) => ~InHand(e)
    /\ \A e \in Events, p, q \in Procs : Contains(cur[p], e) /\ Contains(cur[q], e) => p = q

Sent ==
    /\ \A e \in Events : received[e] <= MaxRetries
    /\ \A e \in Events : e \in pending \/ Contains(batch, e) => received[e] = 0
    /\ \A p \in Procs : fpc[p] = "send" => attempt[p] \in 1..MaxRetries
    /\ \A p \in Procs, e \in Events :
          fpc[p] = "send" /\ Contains(cur[p], e) => received[e] < attempt[p]

Closing ==
    /\ drained => /\ fpc["shutdown"] # "running"
                  /\ \A w \in Workers : fpc[w] = "ready"
    /\ fpc["shutdown"] \notin {"running", "wait"} =>
          fpc["flusher"] = "exited" /\ (drained => batch = << >>)
    /\ ~dlOpen => fpc["shutdown"] = "done"

NotLost ==
    dlOpen \/ drained =>
        \A e \in Events \ pending : Contains(batch, e) \/ InHand(e) \/ Settled(e)

ForwarderInv == Shape /\ OnePlace /\ Sent /\ Closing /\ NotLost

-----------------------------------------------------------------------------

\* Shutdown and the flusher are no workers.
LEMMA Goroutines ==
  /\ "flusher" \in Procs /\ "shutdown" \in Procs /\ "flusher" # "shutdown"
  /\ \A w \in Workers : w \in Procs /\ w # "flusher" /\ w # "shutdown"
                        /\ Resting(w) = {"ready"} /\ Home(w) = "ready"
  /\ Resting("flusher") = {"loop", "exited"} /\ Home("flusher") = "loop"
  /\ Resting("shutdown") = {"running", "wait", "close", "done"}
  /\ Home("shutdown") = "close"
  /\ \A p \in Procs : p \in Workers \/ p = "flusher" \/ p = "shutdown"
  BY ForwarderAssumption DEF Procs, Resting, Home

\* NewSIEMForwarder (siem.go:120-159) starts with nothing anywhere.
LEMMA ForwarderInitEstablishes == Init => ForwarderInv
<1> SUFFICES ASSUME Init PROVE ForwarderInv
  OBVIOUS
<1>1. stopCh \in BOOLEAN /\ drained = FALSE /\ drained \in BOOLEAN
      /\ dlOpen = TRUE /\ dlOpen \in BOOLEAN
  BY DEF Init
<1>2. \A p \in Procs : fpc[p] \in Resting(p) /\ ~Busy(p)
  BY Goroutines DEF Init, Busy
<1>3. Shape
  <2>1. \A p \in Procs : Resting(p) \subseteq {"ready", "loop", "exited", "running", "wait",
                                               "close", "done"}
    BY Goroutines
  <2> QED
    BY <1>1, <1>2, <2>1, ForwarderAssumption DEF Init, Shape
<1>4. OnePlace /\ Sent
  BY <1>2, ContainsNothing, ForwarderAssumption DEF Init, OnePlace, Sent, InHand, Busy
<1>5. Closing /\ NotLost
  BY <1>1, Goroutines DEF Init, Closing, NotLost
<1> QED
  BY <1>3, <1>4, <1>5 DEF ForwarderInv

-----------------------------------------------------------------------------
(***************************************************************************)
(* A goroutine takes the batch, or leaves it; with the batch it takes over *)
(* the events that are in it and no others.                                *)
(***************************************************************************)

\* A worker that fills the batch, the flusher and Shutdown (siem.go:168-176, 216-224,
\* 185-192) take events nobody else has.
LEMMA TakePreserves ==
  ASSUME ForwarderInv, NEW p \in Procs, ~Busy(p), NEW s \in Seq(Events),
         NEW new \in SUBSET pending, StartFlush(p, s), batch' = << >>,
         pending' = pending \ new,
         \A e : Contains(s, e) <=> Contains(batch, e) \/ e \in new,
         UNCHANGED <<flushed, failed, stopCh, drained, dlOpen, deadletter, received>>,
         p \in Workers => ~drained,
         p = "shutdown" => fpc[p] = "wait" /\ fpc["flusher"] = "exited",
         p = "flusher" => fpc[p] = "loop"
  PROVE  ForwarderInv'
<1> USE ForwarderAssumption, Goroutines DEF ForwarderInv
<1>1. /\ cur'[p] = s /\ attempt'[p] = 1 /\ fpc'[p] = "send"
      /\ \A q \in Procs \ {p} : cur'[q] = cur[q] /\ attempt'[q] = attempt[q] /\ fpc'[q] = fpc[q]
  BY DEF StartFlush, Shape
<1>2. cur[p] = << >> /\ \A e : ~Contains(cur[p], e)
  BY ContainsNothing DEF Shape
<1>3. \A e \in Events : Contains(s, e) => ~InHand(e) /\ received[e] = 0
  BY DEF OnePlace, Sent, Shape
<1>4. \A e : InHand(e)' <=> InHand(e) \/ Contains(s, e)
  BY <1>1, <1>2 DEF InHand
<1>5. Shape'
  <2>1. batch' \in Seq(Events) /\ Len(batch') < BatchSize
    OBVIOUS
  <2>2. /\ cur' \in [Procs -> Seq(Events)] /\ attempt' \in [Procs -> 0..(MaxRetries + 1)]
        /\ fpc' \in [Procs -> {"ready", "loop", "exited", "running", "wait", "close", "done",
                               "send", "dead", "deadWrite"}]
    BY DEF StartFlush, Shape
  <2>3. \A q \in Procs : /\ Busy(q)' \/ fpc'[q] \in Resting(q)'
                         /\ ~Busy(q)' => cur'[q] = << >>
    BY <1>1 DEF Busy, Shape, Resting
  <2> QED
    BY <2>1, <2>2, <2>3 DEF Shape
<1>6. OnePlace'
  <2>1. \A e : ~Contains(batch', e)
    BY ContainsNothing
  <2>2. \A e \in pending' : ~InHand(e)'
    BY <1>4 DEF OnePlace
  <2>3. \A e \in Events, q, t \in Procs :
           Contains(cur'[q], e) /\ Contains(cur'[t], e) => q = t
    BY <1>1, <1>3 DEF OnePlace, InHand
  <2> QED
    BY <2>1, <2>2, <2>3 DEF OnePlace
<1>7. Sent'
  <2>1. \A e \in Events : e \in pending' \/ Contains(batch', e) => received[e] = 0
    BY ContainsNothing DEF Sent
  <2>2. \A q \in Procs : fpc'[q] = "send" => attempt'[q] \in 1..MaxRetries
    BY <1>1 DEF Sent
  <2>3. \A q \in Procs, e \in Events :
           fpc'[q] = "send" /\ Contains(cur'[q], e) => received[e] < attempt'[q]
    BY <1>1, <1>3 DEF Sent
  <2> QED
    BY <2>1, <2>2, <2>3 DEF Sent
<1>8. Closing'
  BY <1>1 DEF Closing, Shape, Busy
<1>9. NotLost'
  BY <1>4 DEF NotLost, Settled
<1> QED
  BY <1>5, <1>6, <1>7, <1>8, <1>9

\* Enqueue (siem.go:163-177) moves an event into the batch, or into the caller's hands
\* with the rest of it.
LEMMA EnqueuePreserves ==
  ASSUME ForwarderInv, NEW w \in Workers, NEW e \in Events, Enqueue(w, e)
  PROVE  ForwarderInv'
<1> USE Goroutines DEF ForwarderInv
<1> DEFINE b == Append(batch, e)
<1>1. /\ fpc[w] = "ready" /\ e \in pending /\ ~drained /\ pending' = pending \ {e}
      /\ UNCHANGED <<flushed, failed, stopCh, drained, dlOpen, deadletter, received>>
      /\ batch \in Seq(Events) /\ b \in Seq(Events)
  BY DEF Enqueue, Shape
<1>2. \A x : Contains(b, x) <=> Contains(batch, x) \/ x = e
  BY <1>1, ContainsAppend
<1>3. CASE Len(b) >= BatchSize
  <2>1. batch' = << >> /\ StartFlush(w, b)
    BY <1>3, ForwarderAssumption DEF Enqueue
  <2>2. ~Busy(w) /\ {e} \in SUBSET pending
    BY <1>1 DEF Busy
  <2>3. \A x : Contains(b, x) <=> Contains(batch, x) \/ x \in {e}
    BY <1>2
  <2> HIDE DEF b
  <2> QED
    BY <1>1, <2>1, <2>2, <2>3, TakePreserves
<1>4. CASE ~(Len(b) >= BatchSize)
  <2>1. batch' = b /\ Len(b) < BatchSize /\ UNCHANGED <<cur, attempt, fpc>>
    BY <1>1, <1>4 DEF Enqueue
  <2>2. \A x : InHand(x)' <=> InHand(x)
    BY <2>1 DEF InHand
  <2> HIDE DEF b
  <2>3. Shape'
    BY <1>1, <2>1 DEF Shape, Busy, Resting
  <2>4. OnePlace' /\ Sent' /\ NotLost'
    BY <1>1, <1>2, <2>1, <2>2 DEF OnePlace, Sent, NotLost, Settled
  <2>5. Closing'
    BY <1>1, <2>1 DEF Closing
  <2> QED
    BY <2>3, <2>4, <2>5
<1> QED
  BY <1>3, <1>4

\* A tick that finds events (siem.go:215-224) takes them.
LEMMA TickPreserves ==
  ASSUME ForwarderInv, Tick
  PROVE  ForwarderInv'
<1>1. /\ fpc["flusher"] = "loop" /\ batch' = << >> /\ StartFlush("flusher", batch)
      /\ UNCHANGED <<pending, flushed, failed, stopCh, drained, dlOpen, deadletter, received>>
      /\ batch \in Seq(Events)
  BY DEF Tick, ForwarderInv, Shape
<1>2. /\ ~Busy("flusher") /\ {} \in SUBSET pending /\ pending' = pending \ {}
      /\ \A e : Contains(batch, e) <=> Contains(batch, e) \/ e \in {}
  BY <1>1 DEF Busy
<1> QED
  BY <1>1, <1>2, Goroutines, TakePreserves

\* Shutdown takes what is left (siem.go:185-192) once the flusher is gone.
LEMMA TakeRemainingPreserves ==
  ASSUME ForwarderInv, TakeRemaining
  PROVE  ForwarderInv'
<1>1. /\ fpc["shutdown"] = "wait" /\ fpc["flusher"] = "exited" /\ batch' = << >>
      /\ UNCHANGED <<pending, flushed, failed, stopCh, drained, dlOpen, deadletter, received>>
      /\ batch \in Seq(Events)
  BY DEF TakeRemaining, ForwarderInv, Shape
<1>2. CASE StartFlush("shutdown", batch)
  <2>1. /\ ~Busy("shutdown") /\ {} \in SUBSET pending /\ pending' = pending \ {}
        /\ \A e : Contains(batch, e) <=> Contains(batch, e) \/ e \in {}
    BY <1>1 DEF Busy
  <2> QED
    BY <1>1, <1>2, <2>1, Goroutines, TakePreserves
<1>3. CASE /\ batch = << >> /\ fpc' = [fpc EXCEPT !["shutdown"] = "close"]
           /\ UNCHANGED <<cur, attempt>>
  <2>1. /\ fpc'["shutdown"] = "close"
        /\ \A q \in Procs \ {"shutdown"} : fpc'[q] = fpc[q]
    BY <1>3, Goroutines DEF ForwarderInv, Shape
  <2>2. Shape'
    BY <1>1, <1>3, <2>1, Goroutines DEF ForwarderInv, Shape, Busy, Resting
  <2>3. OnePlace' /\ Sent' /\ NotLost'
    BY <1>1, <1>3, <2>1 DEF ForwarderInv, OnePlace, Sent, NotLost, Settled, InHand
  <2>4. Closing'
    BY <1>1, <1>3, <2>1, Goroutines DEF ForwarderInv, Closing
  <2> QED
    BY <2>2, <2>3, <2>4 DEF ForwarderInv
<1> QED
  BY <1>2, <1>3 DEF TakeRemaining

-----------------------------------------------------------------------------
(***************************************************************************)
(* The steps of flush.                                                     *)
(***************************************************************************)

\* What one delivery does: each event of the batch is received once more.
LEMMA DeliverOnce ==
  ASSUME Shape, NEW p \in Procs, Deliver(p)
  PROVE  /\ received' \in [Events -> Nat]
         /\ \A e \in Events : received'[e] = received[e] + (IF Contains(cur[p], e) THEN 1 ELSE 0)
  BY DEF Deliver, Shape

\* A goroutine that returns from flush (siem.go:272, 331) leaves only settled events.
LEMMA EndPreserves ==
  ASSUME ForwarderInv, NEW p \in Procs, Busy(p), EndFlush(p),
         UNCHANGED <<pending, batch, stopCh, drained, dlOpen>>,
         flushed' \in Nat, failed' \in Nat, deadletter' \subseteq Events,
         received' \in [Events -> Nat],
         \A e \in Events : /\ received[e] <= received'[e] /\ received'[e] <= MaxRetries
                           /\ ~Contains(cur[p], e) => received'[e] = received[e],
         deadletter \subseteq deadletter',
         dlOpen => \A e \in Events : Contains(cur[p], e) => Settled(e)'
  PROVE  ForwarderInv'
<1> USE ForwarderAssumption, Goroutines DEF ForwarderInv
<1>1. /\ cur'[p] = << >> /\ attempt'[p] = 0 /\ fpc'[p] = Home(p)
      /\ \A q \in Procs \ {p} : cur'[q] = cur[q] /\ attempt'[q] = attempt[q] /\ fpc'[q] = fpc[q]
  BY DEF EndFlush, Shape
<1>2. \A e : InHand(e)' <=> \E q \in Procs \ {p} : Contains(cur[q], e)
  BY <1>1, ContainsNothing DEF InHand
<1>3. Home(p) \in Resting(p) /\ Home(p) \in {"ready", "loop", "close"}
  BY DEF Procs
<1>4. Shape'
  <2>1. /\ cur' \in [Procs -> Seq(Events)] /\ attempt' \in [Procs -> 0..(MaxRetries + 1)]
        /\ fpc' \in [Procs -> {"ready", "loop", "exited", "running", "wait", "close", "done",
                               "send", "dead", "deadWrite"}]
    BY <1>3 DEF EndFlush, Shape
  <2>2. \A q \in Procs : /\ Busy(q)' \/ fpc'[q] \in Resting(q)'
                         /\ ~Busy(q)' => cur'[q] = << >>
    BY <1>1, <1>3 DEF Busy, Shape, Resting
  <2> QED
    BY <2>1, <2>2 DEF Shape
<1>5. OnePlace'
  BY <1>1, <1>2, ContainsNothing DEF OnePlace, InHand
<1>6. Sent'
  <2>1. \A e \in Events : e \in pending \/ Contains(batch, e) => ~Contains(cur[p], e)
    BY DEF OnePlace, InHand
  <2>2. \A q \in Procs : fpc'[q] = "send" => q # p /\ fpc[q] = "send"
    BY <1>1, <1>3
  <2>3. \A q \in Procs \ {p}, e \in Events : Contains(cur[q], e) => ~Contains(cur[p], e)
    BY DEF OnePlace
  <2> QED
    BY <1>1, <2>1, <2>2, <2>3 DEF Sent
<1>7. Closing'
  <2>1. drained => p \notin Workers
    BY DEF Closing, Busy
  <2>2. p = "flusher" => fpc["shutdown"] \in {"running", "wait"}
    BY DEF Closing, Busy
  <2>3. ~dlOpen => p # "shutdown"
    BY DEF Closing, Busy
  <2>4. p = "shutdown" => fpc'["shutdown"] = "close"
    BY <1>1
  <2> QED
    BY <1>1, <2>1, <2>2, <2>3, <2>4 DEF Closing, Busy
<1>8. NotLost'
  <2>1. drained => dlOpen
    <3> SUFFICES ASSUME drained, ~dlOpen PROVE FALSE
      OBVIOUS
    <3>1. fpc["shutdown"] = "done" /\ fpc["flusher"] = "exited"
      BY DEF Closing
    <3> QED
      BY <3>1 DEF Closing, Busy
  <2>2. \A e \in Events : Settled(e) => Settled(e)'
    BY DEF Settled, Shape
  <2>3. \A e \in Events : InHand(e) => InHand(e)' \/ Contains(cur[p], e)
    BY <1>2 DEF InHand
  <2> QED
    BY <2>1, <2>2, <2>3 DEF NotLost
<1> QED
  BY <1>4, <1>5, <1>6, <1>7, <1>8

\* A goroutine that stays inside flush keeps its events.
LEMMA StayPreserves ==
  ASSUME ForwarderInv, NEW p \in Procs, Busy(p), Busy(p)',
         fpc' = [fpc EXCEPT ![p] = fpc'[p]],
         UNCHANGED <<pending, batch, cur, flushed, stopCh, drained, dlOpen, deadletter>>,
         failed' \in Nat, attempt' \in [Procs -> 0..(MaxRetries + 1)],
         \A q \in Procs \ {p} : attempt'[q] = attempt[q],
         received' \in [Events -> Nat],
         \A e \in Events : /\ received[e] <= received'[e] /\ received'[e] <= MaxRetries
                           /\ ~Contains(cur[p], e) => received'[e] = received[e],
         fpc'[p] = "send" =>
            /\ attempt'[p] \in 1..MaxRetries
            /\ \A e \in Events : Contains(cur[p], e) => received'[e] < attempt'[p]
  PROVE  ForwarderInv'
<1> USE ForwarderAssumption, Goroutines DEF ForwarderInv
<1>1. \A q \in Procs \ {p} : fpc'[q] = fpc[q]
  BY DEF Shape
<1>2. Shape'
  <2>1. fpc' \in [Procs -> {"ready", "loop", "exited", "running", "wait", "close", "done",
                            "send", "dead", "deadWrite"}]
    BY DEF Shape, Busy
  <2>2. \A q \in Procs : /\ Busy(q)' \/ fpc'[q] \in Resting(q)'
                         /\ ~Busy(q)' => cur'[q] = << >>
    BY <1>1 DEF Busy, Shape, Resting
  <2> QED
    BY <2>1, <2>2 DEF Shape
<1>3. OnePlace'
  BY DEF OnePlace, InHand
<1>4. Sent'
  <2>1. \A e \in Events : e \in pending \/ Contains(batch, e) => ~Contains(cur[p], e)
    BY DEF OnePlace, InHand
  <2>2. \A q \in Procs \ {p}, e \in Events : Contains(cur[q], e) => ~Contains(cur[p], e)
    BY DEF OnePlace
  <2> QED
    BY <1>1, <2>1, <2>2 DEF Sent
<1>5. Closing'
  BY <1>1 DEF Closing, Busy
<1>6. NotLost'
  <2>1. \A e \in Events : Settled(e) => Settled(e)'
    BY DEF Settled, Shape
  <2> QED
    BY <2>1 DEF NotLost, InHand
<1> QED
  BY <1>2, <1>3, <1>4, <1>5, <1>6

\* One attempt, whatever becomes of it, and the dead letters after the last
\* (siem.go:248-332).
LEMMA FlushPreserves ==
  ASSUME ForwarderInv, NEW p \in Procs, FlushStep(p)
  PROVE  ForwarderInv'
<1> USE ForwarderAssumption
<1>0. /\ Shape /\ cur[p] \in Seq(Events) /\ Len(cur[p]) \in Nat
      /\ received \in [Events -> Nat] /\ flushed \in Nat /\ failed \in Nat
      /\ \A e \in Events : received[e] <= MaxRetries
  BY DEF ForwarderInv, Shape, Sent
<1>1. CASE SendAccepted(p)
  <2>1. /\ Busy(p) /\ fpc[p] = "send" /\ Deliver(p) /\ EndFlush(p) /\ flushed' \in Nat
        /\ UNCHANGED <<pending, batch, failed, stopCh, drained, dlOpen, deadletter>>
    BY <1>0, <1>1 DEF SendAccepted, Busy
  <2>2. \A e \in Events : Contains(cur[p], e) => received[e] < MaxRetries
    BY <1>0, <2>1 DEF ForwarderInv, Sent, Shape
  <2>3. /\ received' \in [Events -> Nat]
        /\ \A e \in Events : /\ received[e] <= received'[e] /\ received'[e] <= MaxRetries
                             /\ ~Contains(cur[p], e) => received'[e] = received[e]
                             /\ Contains(cur[p], e) => received'[e] > 0
    BY <1>0, <2>1, <2>2, DeliverOnce
  <2>4. deadletter' \subseteq Events /\ deadletter \subseteq deadletter'
    BY <1>0, <2>1 DEF Shape
  <2>5. \A e \in Events : Contains(cur[p], e) => Settled(e)'
    BY <2>3 DEF Settled
  <2>6. failed' \in Nat
    BY <1>0, <2>1
  <2> QED
    BY <2>1, <2>3, <2>4, <2>5, <2>6, EndPreserves
<1>2. CASE SendRejected(p)
  <2>1. /\ fpc[p] = "send" /\ fpc' = [fpc EXCEPT ![p] = "dead"] /\ fpc'[p] = "dead"
        /\ UNCHANGED <<pending, batch, cur, attempt, flushed, failed, stopCh, drained,
                       dlOpen, deadletter, received>>
    BY <1>0, <1>2 DEF SendRejected, Shape
  <2>2. Busy(p) /\ Busy(p)'
    BY <2>1 DEF Busy
  <2>3. /\ attempt' \in [Procs -> 0..(MaxRetries + 1)] /\ failed' \in Nat
        /\ \A q \in Procs \ {p} : attempt'[q] = attempt[q]
    BY <1>0, <2>1 DEF Shape
  <2>4. /\ received' \in [Events -> Nat] /\ fpc'[p] # "send"
        /\ \A e \in Events : /\ received[e] <= received'[e] /\ received'[e] <= MaxRetries
                             /\ ~Contains(cur[p], e) => received'[e] = received[e]
    BY <1>0, <2>1
  <2> QED
    BY <2>1, <2>2, <2>3, <2>4, StayPreserves
<1>3. CASE SendFailed(p)
  <2>1. /\ fpc[p] = "send" /\ fpc' = [fpc EXCEPT ![p] = fpc'[p]]
        /\ fpc'[p] = IF attempt[p] < MaxRetries THEN "send" ELSE "dead"
        /\ attempt' = [attempt EXCEPT ![p] = @ + 1]
        /\ UNCHANGED <<pending, batch, cur, flushed, failed, stopCh, drained, dlOpen,
                       deadletter>>
    BY <1>0, <1>3 DEF SendFailed, Shape
  <2>2. attempt[p] \in 1..MaxRetries
    BY <2>1 DEF ForwarderInv, Sent
  <2>3. /\ attempt'[p] = attempt[p] + 1 /\ attempt' \in [Procs -> 0..(MaxRetries + 1)]
        /\ \A q \in Procs \ {p} : attempt'[q] = attempt[q]
    BY <1>0, <2>1, <2>2 DEF Shape
  <2>4. /\ received' \in [Events -> Nat]
        /\ \A e \in Events :
              received'[e] = received[e] \/ received'[e] = received[e] + 1
        /\ \A e \in Events : ~Contains(cur[p], e) => received'[e] = received[e]
    <3>1. CASE Deliver(p)
      BY <1>0, <3>1, DeliverOnce
    <3>2. CASE UNCHANGED received
      BY <1>0, <3>2
    <3> QED
      BY <1>3, <3>1, <3>2 DEF SendFailed
  <2>5. \A e \in Events : Contains(cur[p], e) => received[e] < attempt[p]
    BY <2>1 DEF ForwarderInv, Sent
  <2>6. \A e \in Events : /\ received[e] <= received'[e] /\ received'[e] <= MaxRetries
                          /\ Contains(cur[p], e) => received'[e] < attempt'[p]
    BY <1>0, <2>2, <2>3, <2>4, <2>5
  <2>7. Busy(p) /\ Busy(p)'
    BY <2>1 DEF Busy
  <2>8. fpc'[p] = "send" => attempt'[p] \in 1..MaxRetries
    BY <2>1, <2>2, <2>3
  <2> QED
    BY <1>0, <2>1, <2>3, <2>4, <2>6, <2>7, <2>8, StayPreserves
<1>4. CASE CountFailed(p)
  <2>1. /\ fpc[p] = "dead" /\ fpc' = [fpc EXCEPT ![p] = "deadWrite"] /\ fpc'[p] = "deadWrite"
        /\ failed' \in Nat
        /\ UNCHANGED <<pending, batch, cur, attempt, flushed, stopCh, drained,
                       dlOpen, deadletter, received>>
    BY <1>0, <1>4 DEF CountFailed, Shape
  <2>2. Busy(p) /\ Busy(p)'
    BY <2>1 DEF Busy
  <2>3. /\ attempt' \in [Procs -> 0..(MaxRetries + 1)] /\ failed' \in Nat
        /\ \A q \in Procs \ {p} : attempt'[q] = attempt[q]
    BY <1>0, <2>1 DEF Shape
  <2>4. /\ received' \in [Events -> Nat] /\ fpc'[p] # "send"
        /\ \A e \in Events : /\ received[e] <= received'[e] /\ received'[e] <= MaxRetries
                             /\ ~Contains(cur[p], e) => received'[e] = received[e]
    BY <1>0, <2>1
  <2> QED
    BY <2>1, <2>2, <2>3, <2>4, StayPreserves
<1>5. CASE WriteDeadLetters(p)
  <2>1. /\ Busy(p) /\ EndFlush(p)
        /\ deadletter' = IF dlOpen THEN deadletter \cup ToSet(cur[p]) ELSE deadletter
        /\ UNCHANGED <<pending, batch, flushed, failed, stopCh, drained, dlOpen, received>>
    BY <1>5 DEF WriteDeadLetters, Busy
  <2>2. ToSet(cur[p]) \subseteq Events
    BY <1>0 DEF ToSet
  <2>3. deadletter' \subseteq Events /\ deadletter \subseteq deadletter'
    BY <1>0, <2>1, <2>2 DEF Shape
  <2>4. dlOpen => \A e \in Events : Contains(cur[p], e) => Settled(e)'
    BY <1>0, <2>1, ContainsIsToSet DEF Settled
  <2> QED
    BY <1>0, <2>1, <2>3, <2>4, EndPreserves
<1> QED
  BY <1>1, <1>2, <1>3, <1>4, <1>5 DEF FlushStep

-----------------------------------------------------------------------------
(***************************************************************************)
(* The steps of the flusher's and the engine's end.                        *)
(***************************************************************************)

\* A goroutine that is not in flush goes from one place to another.
LEMMA MovePreserves ==
  ASSUME ForwarderInv, NEW p \in Procs, ~Busy(p), ~Busy(p)', fpc'[p] \in Resting(p),
         fpc' = [fpc EXCEPT ![p] = fpc'[p]],
         UNCHANGED <<pending, batch, cur, attempt, flushed, failed, deadletter, received>>,
         stopCh' \in BOOLEAN, drained' \in BOOLEAN, dlOpen' \in BOOLEAN,
         Closing', NotLost'
  PROVE  ForwarderInv'
<1> USE Goroutines DEF ForwarderInv
<1>1. \A q \in Procs \ {p} : fpc'[q] = fpc[q]
  BY DEF Shape
<1>2. Shape'
  <2>1. Resting(p) \subseteq {"ready", "loop", "exited", "running", "wait", "close", "done"}
    OBVIOUS
  <2>2. fpc' \in [Procs -> {"ready", "loop", "exited", "running", "wait", "close", "done",
                            "send", "dead", "deadWrite"}]
    BY <2>1 DEF Shape
  <2>3. \A q \in Procs : /\ Busy(q)' \/ fpc'[q] \in Resting(q)'
                         /\ ~Busy(q)' => cur'[q] = << >>
    BY <1>1 DEF Busy, Shape, Resting
  <2> QED
    BY <2>2, <2>3 DEF Shape
<1>3. OnePlace' /\ Sent'
  BY <1>1 DEF OnePlace, Sent, InHand, Busy
<1> QED
  BY <1>2, <1>3

\* The flusher ends (siem.go:225-226), Shutdown begins (siem.go:181) and closes the file
\* (siem.go:194-199).
LEMMA ClosingPreserves ==
  ASSUME ForwarderInv, FlusherStops \/ BeginShutdown \/ CloseDeadLetter
  PROVE  ForwarderInv'
<1> USE Goroutines
<1>0. /\ Shape /\ Closing /\ NotLost
      /\ stopCh \in BOOLEAN /\ drained \in BOOLEAN /\ dlOpen \in BOOLEAN
  BY DEF ForwarderInv, Shape
<1>1. CASE FlusherStops
  <2>1. /\ fpc["flusher"] = "loop" /\ fpc' = [fpc EXCEPT !["flusher"] = "exited"]
        /\ fpc'["flusher"] = "exited" /\ fpc'["shutdown"] = fpc["shutdown"]
        /\ \A w \in Workers : fpc'[w] = fpc[w]
        /\ UNCHANGED <<pending, batch, cur, attempt, flushed, failed, stopCh, drained,
                       dlOpen, deadletter, received>>
    BY <1>0, <1>1 DEF FlusherStops, Shape
  <2>2. ~Busy("flusher") /\ ~Busy("flusher")'
    BY <2>1 DEF Busy
  <2>3. Closing' /\ NotLost'
    BY <1>0, <2>1 DEF Closing, NotLost, Settled, InHand
  <2> QED
    BY <1>0, <2>1, <2>2, <2>3, MovePreserves
<1>2. CASE BeginShutdown
  <2>1. /\ fpc["shutdown"] = "running" /\ fpc' = [fpc EXCEPT !["shutdown"] = "wait"]
        /\ fpc'["shutdown"] = "wait" /\ fpc'["flusher"] = fpc["flusher"]
        /\ \A w \in Workers : fpc'[w] = fpc[w]
        /\ drained' \in BOOLEAN /\ (drained' => \A w \in Workers : fpc[w] = "ready")
        /\ UNCHANGED <<pending, batch, cur, attempt, flushed, failed, dlOpen, deadletter,
                       received>>
    BY <1>0, <1>2 DEF BeginShutdown, Shape
  <2>2. stopCh' \in BOOLEAN
    BY <1>2, Zenon DEF BeginShutdown
  <2>3. ~Busy("shutdown") /\ ~Busy("shutdown")' /\ dlOpen
    BY <1>0, <2>1 DEF Busy, Closing
  <2>4. Closing' /\ NotLost'
    BY <1>0, <2>1, <2>3 DEF Closing, NotLost, Settled, InHand
  <2> QED
    BY <1>0, <2>1, <2>2, <2>3, <2>4, MovePreserves
<1>3. CASE CloseDeadLetter
  <2>1. /\ fpc["shutdown"] = "close" /\ fpc' = [fpc EXCEPT !["shutdown"] = "done"]
        /\ fpc'["shutdown"] = "done" /\ fpc'["flusher"] = fpc["flusher"]
        /\ \A w \in Workers : fpc'[w] = fpc[w]
        /\ UNCHANGED <<pending, batch, cur, attempt, flushed, failed, stopCh, drained,
                       deadletter, received>>
    BY <1>0, <1>3 DEF CloseDeadLetter, Shape
  <2>2. dlOpen' \in BOOLEAN /\ ~dlOpen'
    BY <1>3, Zenon DEF CloseDeadLetter
  <2>3. ~Busy("shutdown") /\ ~Busy("shutdown")' /\ dlOpen
    BY <1>0, <2>1 DEF Busy, Closing
  <2>4. Closing' /\ NotLost'
    BY <1>0, <2>1, <2>2, <2>3 DEF Closing, NotLost, Settled, InHand
  <2> QED
    BY <1>0, <2>1, <2>2, <2>3, <2>4, MovePreserves
<1> QED
  BY <1>1, <1>2, <1>3

\* Every step of the forwarder keeps the invariant (siem.go:163-332).
LEMMA ForwarderNextPreserves ==
  ASSUME ForwarderInv, [Next]_state
  PROVE  ForwarderInv'
<1>1. CASE UNCHANGED state
  BY <1>1 DEF state, ForwarderInv, Shape, OnePlace, Sent, Closing, NotLost, InHand, Busy,
              Settled, Resting
<1> QED
  BY <1>1, EnqueuePreserves, TickPreserves, TakeRemainingPreserves, FlushPreserves,
     ClosingPreserves DEF Next

\* The invariant holds of every behaviour of the forwarder (siem.go:163-332).
LEMMA ForwarderInvariance == Spec => []ForwarderInv
  BY ForwarderInitEstablishes, ForwarderNextPreserves, PTL DEF Spec

-----------------------------------------------------------------------------
(***************************************************************************)
(* Every event is counted once.  The counters grow by the length of a      *)
(* batch, the events under way are a set: the two agree because no batch   *)
(* holds an event twice, which OnePlace gives for what Enqueue appends.    *)
(***************************************************************************)
Distinct(s) == \A i, j \in 1..Len(s) : s[i] = s[j] => i = j

HeldBy(s) == {e \in Events : Contains(s, e)}

CountInv ==
    /\ Distinct(batch)
    /\ \A p \in Procs : Distinct(cur[p])
    /\ EveryEventCounted

\* A batch without repetitions has as many events as it is long.
LEMMA DistinctCounts ==
  ASSUME NEW s \in Seq(Events), Distinct(s)
  PROVE  Cardinality(HeldBy(s)) = Len(s)
<1> DEFINE f == [i \in 1..Len(s) |-> s[i]]
<1>1. f \in [1..Len(s) -> HeldBy(s)]
  BY DEF HeldBy, Contains
<1>2. \A i, j \in 1..Len(s) : f[i] = f[j] => i = j
  BY DEF Distinct
<1>3. \A e \in HeldBy(s) : \E i \in 1..Len(s) : f[i] = e
  BY DEF HeldBy, Contains
<1>4. f \in Bijection(1..Len(s), HeldBy(s))
  <2> HIDE DEF f
  <2> QED BY <1>1, <1>2, <1>3, Fun_IsBij
<1>5. ExistsBijection(1..Len(s), HeldBy(s))
  BY <1>4 DEF ExistsBijection
<1> QED
  BY <1>5, FS_CountingElements

\* Appending an event the batch does not hold repeats nothing.
LEMMA DistinctAppend ==
  ASSUME NEW s \in Seq(Events), NEW x \in Events, Distinct(s), ~Contains(s, x)
  PROVE  Distinct(Append(s, x))
<1>1. /\ Len(s) \in Nat /\ Len(Append(s, x)) = Len(s) + 1
      /\ \A i \in 1..Len(s) : Append(s, x)[i] = s[i]
      /\ Append(s, x)[Len(s) + 1] = x
  OBVIOUS
<1>2. \A i \in 1..Len(s) : s[i] # x
  BY DEF Contains
<1> QED
  BY <1>1, <1>2 DEF Distinct

\* The sets whose sizes the count is about are finite.
LEMMA CountedFinite ==
  /\ \A S \in SUBSET Events : IsFiniteSet(S) /\ Cardinality(S) \in Nat
  /\ Uncounted \subseteq Events
  BY ForwarderAssumption, FS_Subset, FS_CardinalityType DEF Uncounted

LEMMA DisjointCounts ==
  ASSUME NEW S \in SUBSET Events, NEW T \in SUBSET Events, S \cap T = {}
  PROVE  Cardinality(S \cup T) = Cardinality(S) + Cardinality(T)
<1>1. /\ IsFiniteSet(S) /\ IsFiniteSet(T)
      /\ Cardinality(S) \in Nat /\ Cardinality(T) \in Nat
  BY CountedFinite
<1>2. Cardinality(S \cup T) = Cardinality(S) + Cardinality(T) - Cardinality(S \cap T)
  BY <1>1, FS_Union
<1>3. Cardinality(S \cap T) = 0
  BY FS_EmptySet
<1> QED
  BY <1>1, <1>2, <1>3

\* A goroutine that takes events (siem.go:168-176, 185-192, 216-224) takes them out of
\* the batch and off the events to come, and has them in hand.
LEMMA TakeCounts ==
  ASSUME ForwarderInv, CountInv, NEW p \in Procs, ~Busy(p), NEW s \in Seq(Events),
         NEW new \in SUBSET pending, StartFlush(p, s), batch' = << >>,
         pending' = pending \ new, UNCHANGED <<flushed, failed>>,
         \A e : Contains(s, e) <=> Contains(batch, e) \/ e \in new,
         Distinct(s), Len(s) = Len(batch) + Cardinality(new)
  PROVE  CountInv'
<1> USE DEF ForwarderInv
<1>1. /\ cur'[p] = s /\ fpc'[p] = "send"
      /\ \A q \in Procs \ {p} : cur'[q] = cur[q] /\ fpc'[q] = fpc[q]
      /\ pending \subseteq Events /\ batch \in Seq(Events)
      /\ flushed \in Nat /\ failed \in Nat
  BY DEF StartFlush, Shape
<1>2. ~(fpc[p] \in {"send", "dead"})
  BY DEF Busy
<1>3. Uncounted' = Uncounted \cup HeldBy(s)
  BY <1>1, <1>2 DEF Uncounted, HeldBy
<1>4. Uncounted \cap HeldBy(s) = {}
  BY DEF OnePlace, InHand, Uncounted, HeldBy
<1>5. HeldBy(s) \subseteq Events /\ Cardinality(HeldBy(s)) = Len(s)
  BY DistinctCounts DEF HeldBy
<1>6. Cardinality(Uncounted') = Cardinality(Uncounted) + Len(s)
  BY <1>3, <1>4, <1>5, CountedFinite, DisjointCounts
<1>7. /\ Events \ pending' = (Events \ pending) \cup new
      /\ (Events \ pending) \cap new = {} /\ new \in SUBSET Events
  BY <1>1
<1>8. Cardinality(Events \ pending') = Cardinality(Events \ pending) + Cardinality(new)
  <2>1. Events \ pending \in SUBSET Events
    OBVIOUS
  <2> QED
    BY <1>7, <2>1, DisjointCounts
<1>9. /\ Cardinality(new) \in Nat /\ Cardinality(Uncounted) \in Nat
      /\ Cardinality(Events \ pending) \in Nat /\ Len(batch) \in Nat
      /\ Len(batch') = 0
  BY <1>1, <1>7, CountedFinite
<1>10. EveryEventCounted'
  BY <1>1, <1>6, <1>8, <1>9 DEF CountInv, EveryEventCounted
<1>11. Distinct(batch') /\ \A q \in Procs : Distinct(cur'[q])
  BY <1>1 DEF CountInv, Distinct
<1> QED
  BY <1>10, <1>11 DEF CountInv, Distinct

\* Enqueue (siem.go:163-177) moves one event from those to come to the batch, or with the
\* batch into the caller's hands.
LEMMA EnqueueCounts ==
  ASSUME ForwarderInv, CountInv, NEW w \in Workers, NEW e \in Events, Enqueue(w, e)
  PROVE  CountInv'
<1> DEFINE b == Append(batch, e)
<1>1. /\ fpc[w] = "ready" /\ e \in pending /\ pending' = pending \ {e}
      /\ UNCHANGED <<flushed, failed>>
      /\ batch \in Seq(Events) /\ b \in Seq(Events) /\ Len(b) = Len(batch) + 1
      /\ pending \subseteq Events
  BY DEF Enqueue, ForwarderInv, Shape
<1>2. \A x : Contains(b, x) <=> Contains(batch, x) \/ x = e
  BY <1>1, ContainsAppend
<1>3. Distinct(b)
  BY <1>1, DistinctAppend DEF ForwarderInv, OnePlace, CountInv
<1>4. IsFiniteSet({e}) /\ Cardinality({e}) = 1
  BY FS_Singleton
<1>5. CASE Len(b) >= BatchSize
  <2>1. batch' = << >> /\ StartFlush(w, b)
    BY <1>5, ForwarderAssumption DEF Enqueue
  <2>2. w \in Procs /\ ~Busy(w) /\ {e} \in SUBSET pending
    BY <1>1, Goroutines DEF Busy
  <2>3. \A x : Contains(b, x) <=> Contains(batch, x) \/ x \in {e}
    BY <1>2
  <2> HIDE DEF b
  <2> QED
    BY <1>1, <1>3, <1>4, <2>1, <2>2, <2>3, TakeCounts
<1>6. CASE ~(Len(b) >= BatchSize)
  <2>1. batch' = b /\ UNCHANGED <<cur, fpc>>
    BY <1>1, <1>6, ForwarderAssumption DEF Enqueue
  <2> HIDE DEF b
  <2>2. Uncounted' = Uncounted
    BY <2>1 DEF Uncounted
  <2>3. Events \ pending' = (Events \ pending) \cup {e} /\ e \notin Events \ pending
    BY <1>1
  <2>4. Cardinality(Events \ pending') = Cardinality(Events \ pending) + 1
    BY <2>3, CountedFinite, FS_AddElement
  <2>5. /\ Cardinality(Uncounted) \in Nat /\ Cardinality(Events \ pending) \in Nat
        /\ Len(batch) \in Nat /\ flushed \in Nat /\ failed \in Nat
    BY <1>1, CountedFinite DEF ForwarderInv, Shape
  <2>6. EveryEventCounted'
    BY <1>1, <2>1, <2>2, <2>4, <2>5 DEF CountInv, EveryEventCounted
  <2>7. Distinct(batch') /\ \A q \in Procs : Distinct(cur'[q])
    BY <1>3, <2>1 DEF CountInv
  <2> QED
    BY <2>6, <2>7 DEF CountInv, Distinct
<1> QED
  BY <1>5, <1>6

\* Counting a batch (siem.go:270, 315) and dropping it from those under way is one step.
LEMMA CountCounts ==
  ASSUME ForwarderInv, CountInv, NEW p \in Procs, fpc[p] \in {"send", "dead"},
         fpc'[p] \notin {"send", "dead"},
         \A q \in Procs \ {p} : cur'[q] = cur[q] /\ fpc'[q] = fpc[q],
         cur'[p] = cur[p] \/ cur'[p] = << >>,
         UNCHANGED <<pending, batch>>,
         \/ flushed' = flushed + Len(cur[p]) /\ failed' = failed
         \/ failed' = failed + Len(cur[p]) /\ flushed' = flushed
  PROVE  CountInv'
<1>1. /\ cur[p] \in Seq(Events) /\ batch \in Seq(Events)
      /\ flushed \in Nat /\ failed \in Nat
  BY DEF ForwarderInv, Shape
<1>2. Uncounted' = Uncounted \ HeldBy(cur[p])
  BY DEF ForwarderInv, OnePlace, Uncounted, HeldBy
<1>3. Uncounted \cap HeldBy(cur[p]) = HeldBy(cur[p])
  BY DEF Uncounted, HeldBy
<1>4. Cardinality(HeldBy(cur[p])) = Len(cur[p])
  BY <1>1, DistinctCounts DEF CountInv
<1>5. Cardinality(Uncounted') = Cardinality(Uncounted) - Len(cur[p])
  <2>1. IsFiniteSet(Uncounted)
    BY CountedFinite
  <2>2. Cardinality(Uncounted \ HeldBy(cur[p]))
          = Cardinality(Uncounted) - Cardinality(Uncounted \cap HeldBy(cur[p]))
    BY <2>1, FS_Difference
  <2> QED
    BY <1>2, <1>3, <1>4, <2>2
<1>6. /\ Cardinality(Uncounted) \in Nat /\ Cardinality(Events \ pending) \in Nat
      /\ Len(batch) \in Nat /\ Len(cur[p]) \in Nat
  BY <1>1, CountedFinite
<1>7. EveryEventCounted'
  BY <1>1, <1>5, <1>6 DEF CountInv, EveryEventCounted
<1>8. Distinct(batch') /\ \A q \in Procs : Distinct(cur'[q])
  BY DEF CountInv, Distinct
<1> QED
  BY <1>7, <1>8 DEF CountInv, Distinct

\* A step that moves no event between the batch, the goroutines and the counters.
LEMMA OthersCount ==
  ASSUME ForwarderInv, CountInv, UNCHANGED <<pending, batch, flushed, failed>>,
         \A q \in Procs : cur'[q] = cur[q] \/ cur'[q] = << >>,
         \A q \in Procs : fpc[q] \in {"send", "dead"} <=> fpc'[q] \in {"send", "dead"},
         \A q \in Procs : fpc[q] \in {"send", "dead"} => cur'[q] = cur[q]
  PROVE  CountInv'
<1>1. Uncounted' = Uncounted
  BY DEF Uncounted
<1>2. EveryEventCounted'
  BY <1>1 DEF CountInv, EveryEventCounted
<1>3. Distinct(batch') /\ \A q \in Procs : Distinct(cur'[q])
  BY DEF CountInv, Distinct
<1> QED
  BY <1>2, <1>3 DEF CountInv, Distinct

\* One attempt and the dead letters after the last (siem.go:248-332).
LEMMA FlushCounts ==
  ASSUME ForwarderInv, CountInv, NEW p \in Procs, FlushStep(p)
  PROVE  CountInv'
<1> USE DEF ForwarderInv
<1>0. /\ cur \in [Procs -> Seq(Events)] /\ cur[p] \in Seq(Events) /\ Len(cur[p]) \in Nat
      /\ flushed \in Nat /\ failed \in Nat /\ DOMAIN fpc = Procs
  BY DEF Shape
<1>1. CASE SendAccepted(p)
  <2>1. /\ fpc[p] = "send" /\ flushed' = flushed + Len(cur[p]) /\ failed' = failed
        /\ UNCHANGED <<pending, batch>> /\ fpc'[p] = Home(p) /\ cur'[p] = << >>
        /\ \A q \in Procs \ {p} : cur'[q] = cur[q] /\ fpc'[q] = fpc[q]
    BY <1>0, <1>1 DEF SendAccepted, EndFlush
  <2>2. Home(p) \notin {"send", "dead"}
    BY Goroutines
  <2> QED
    BY <1>0, <2>1, <2>2, CountCounts
<1>2. CASE SendRejected(p) \/ SendFailed(p)
  <2>1. /\ fpc[p] = "send" /\ fpc'[p] \in {"send", "dead"}
        /\ UNCHANGED <<pending, batch, cur, flushed, failed>>
        /\ \A q \in Procs \ {p} : fpc'[q] = fpc[q]
    BY <1>0, <1>2 DEF SendRejected, SendFailed
  <2> QED
    BY <2>1, OthersCount
<1>3. CASE CountFailed(p)
  <2>1. /\ fpc[p] = "dead" /\ failed' = failed + Len(cur[p]) /\ flushed' = flushed
        /\ UNCHANGED <<pending, batch, cur>> /\ fpc'[p] = "deadWrite"
        /\ \A q \in Procs \ {p} : fpc'[q] = fpc[q]
    BY <1>0, <1>3 DEF CountFailed
  <2> QED
    BY <1>0, <2>1, CountCounts
<1>4. CASE WriteDeadLetters(p)
  <2>1. /\ fpc[p] = "deadWrite" /\ fpc'[p] = Home(p) /\ cur'[p] = << >>
        /\ UNCHANGED <<pending, batch, flushed, failed>>
        /\ \A q \in Procs \ {p} : cur'[q] = cur[q] /\ fpc'[q] = fpc[q]
    BY <1>0, <1>4 DEF WriteDeadLetters, EndFlush
  <2>2. Home(p) \notin {"send", "dead"}
    BY Goroutines
  <2> QED
    BY <2>1, <2>2, OthersCount
<1> QED
  BY <1>1, <1>2, <1>3, <1>4 DEF FlushStep

\* The flusher and Shutdown (siem.go:180-203, 209-229) take what is in the batch, or move
\* on without touching an event.
LEMMA ControlCounts ==
  ASSUME ForwarderInv, CountInv,
         Tick \/ TakeRemaining \/ FlusherStops \/ BeginShutdown \/ CloseDeadLetter
  PROVE  CountInv'
<1> USE Goroutines
<1>0. /\ DOMAIN fpc = Procs /\ batch \in Seq(Events) /\ Len(batch) \in Nat
      /\ Distinct(batch) /\ Cardinality({}) = 0
  BY FS_EmptySet DEF ForwarderInv, Shape, CountInv
<1>1. ASSUME NEW p \in Procs, ~Busy(p), StartFlush(p, batch), batch' = << >>,
             UNCHANGED <<pending, flushed, failed>>
      PROVE  CountInv'
  <2>1. /\ {} \in SUBSET pending /\ pending' = pending \ {}
        /\ \A e : Contains(batch, e) <=> Contains(batch, e) \/ e \in {}
        /\ Len(batch) = Len(batch) + Cardinality({})
    BY <1>0, <1>1
  <2> QED
    BY <1>0, <1>1, <2>1, TakeCounts
<1>2. CASE Tick
  BY <1>1, <1>2 DEF Tick, Busy
<1>3. CASE TakeRemaining
  <2>1. CASE StartFlush("shutdown", batch)
    BY <1>1, <1>3, <2>1 DEF TakeRemaining, Busy
  <2>2. CASE /\ batch = << >> /\ fpc' = [fpc EXCEPT !["shutdown"] = "close"]
             /\ UNCHANGED <<cur, attempt>>
    <3>1. /\ fpc["shutdown"] = "wait" /\ fpc'["shutdown"] = "close"
          /\ \A q \in Procs \ {"shutdown"} : fpc'[q] = fpc[q]
          /\ UNCHANGED <<pending, batch, cur, flushed, failed>>
      BY <1>0, <1>3, <2>2 DEF TakeRemaining
    <3> QED
      BY <3>1, OthersCount
  <2> QED
    BY <1>3, <2>1, <2>2 DEF TakeRemaining
<1>4. CASE FlusherStops \/ BeginShutdown \/ CloseDeadLetter
  <2>1. /\ UNCHANGED <<pending, batch, cur, flushed, failed>>
        /\ \A q \in Procs : fpc[q] \in {"send", "dead"} <=> fpc'[q] \in {"send", "dead"}
    BY <1>0, <1>4 DEF FlusherStops, BeginShutdown, CloseDeadLetter
  <2> QED
    BY <2>1, OthersCount
<1> QED
  BY <1>2, <1>3, <1>4

LEMMA CountInvariance == Spec => []CountInv
<1>1. Init => CountInv
  <2> SUFFICES ASSUME Init PROVE CountInv
    OBVIOUS
  <2>1. Distinct(batch) /\ \A p \in Procs : Distinct(cur[p])
    BY DEF Init, Distinct
  <2>2. Uncounted = {} /\ Events \ pending = {}
    BY ContainsNothing DEF Init, Uncounted
  <2>3. EveryEventCounted
    <3>1. Len(batch) = 0 /\ flushed = 0 /\ failed = 0 /\ Cardinality({}) = 0
      BY FS_EmptySet DEF Init
    <3>2. Cardinality(Events \ pending) = 0 /\ Cardinality(Uncounted) = 0
      BY <2>2, <3>1, Zenon
    <3> QED
      BY <3>1, <3>2 DEF EveryEventCounted
  <2> QED
    BY <2>1, <2>3 DEF CountInv
<1>2. ForwarderInv /\ CountInv /\ [Next]_state => CountInv'
  <2> SUFFICES ASSUME ForwarderInv, CountInv, [Next]_state PROVE CountInv'
    OBVIOUS
  <2>1. CASE UNCHANGED state
    BY <2>1, OthersCount DEF state
  <2> QED
    BY <2>1, EnqueueCounts, FlushCounts, ControlCounts DEF Next
<1> QED
  BY <1>1, <1>2, ForwarderInvariance, PTL DEF Spec

-----------------------------------------------------------------------------

\* Every variable keeps its type and the batch stays below BatchSize (siem.go:77-91).
THEOREM ForwarderTypeCorrect == Spec => []TypeOK
<1>1. ForwarderInv => TypeOK
  BY DEF ForwarderInv, Shape, TypeOK
<1> QED
  BY <1>1, ForwarderInvariance, PTL

\* No event is received more often than there are attempts, although every answer may
\* be lost (siem.go:248-286).
THEOREM NoEventSentTooOften == Spec => []DuplicatesBounded
<1>1. ForwarderInv => DuplicatesBounded
  BY DEF ForwarderInv, Sent, DuplicatesBounded
<1> QED
  BY <1>1, ForwarderInvariance, PTL

\* When Shutdown has returned nobody holds a batch, so nothing is left unsettled.
LEMMA DrainedMeansSettled == ForwarderInv => ShutdownLosesNothing
<1> SUFFICES ASSUME ForwarderInv, fpc["shutdown"] = "done", drained,
                    NEW e \in Events \ pending
             PROVE  Settled(e)
  BY DEF ShutdownLosesNothing
<1>1. \A p \in Procs : ~Busy(p)
  BY Goroutines DEF ForwarderInv, Closing, Busy
<1>2. batch = << >> /\ \A p \in Procs : cur[p] = << >>
  BY <1>1 DEF ForwarderInv, Closing, Shape
<1> QED
  BY <1>2, ContainsNothing DEF ForwarderInv, NotLost, InHand

\* After a drained engine's Shutdown every event is received or dead-lettered
\* (siem.go:180-199).
THEOREM NothingLeftUnsettled == Spec => []ShutdownLosesNothing
  BY DrainedMeansSettled, ForwarderInvariance, PTL

\* The counters account for every event that was enqueued: what is not flushed or failed is
\* in the batch or in one goroutine's hands (siem.go:163-177, 209-229, 269-272, 315).
THEOREM CountersMissNothing == Spec => []EveryEventCounted
<1>1. CountInv => EveryEventCounted
  BY DEF CountInv
<1> QED
  BY <1>1, CountInvariance, PTL

=============================================================================

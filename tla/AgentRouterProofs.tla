-------------------------- MODULE AgentRouterProofs --------------------------
(***************************************************************************)
(* For any agents, policies and calls, any lengths, limit and record size: *)
(* a route that succeeds was handled, one that fails has a reason, and all *)
(* variables keep their types.                                             *)
(***************************************************************************)
EXTENDS AgentRouter, TLAPS

Least(a, b) == IF a <= b THEN a ELSE b

\* The Min of the model on two numbers.
LEMMA MinOfTwo ==
  ASSUME NEW a \in Int, NEW b \in Int
  PROVE  Min({a, b}) = Least(a, b)
<1>1. Least(a, b) \in {a, b} /\ \A y \in {a, b} : Least(a, b) <= y
  BY DEF Least
<1>2. \A x \in {a, b} : (\A y \in {a, b} : x <= y) => x = Least(a, b)
  BY DEF Least
<1> QED
  BY <1>1, <1>2 DEF Min

(***************************************************************************)
(* The inductive invariant of one call.  The two ends share only the pipe  *)
(* and routeErr, so it relates how far each has come: what one has read is *)
(* what the other has written, up to the limit; an end that is closed      *)
(* without an error has done its work, and the other then can too; and     *)
(* routeErr is set for a reason, the end of the other side being one only  *)
(* if that side had a reason or read up to its limit.                      *)
(***************************************************************************)
Shape ==
    /\ rpc \in [Routes -> {"new", "destination", "acl", "handler", "pipe", "ok", "error"}]
    /\ client \in [Routes -> {"off", "handshake", "write", "closeWrite", "read", "closed"}]
    /\ server \in [Routes -> {"off", "handshake", "read", "handle", "running", "write",
                              "closed"}]
    /\ payload \in [Routes -> Nat] /\ sent \in [Routes -> Nat] /\ got \in [Routes -> Nat]
    /\ answer \in [Routes -> -1..MaxLength]
    /\ written \in [Routes -> Nat] /\ back \in [Routes -> Nat]
    /\ runs \in [Routes -> Nat]
    /\ late \in [Routes -> BOOLEAN] /\ routeErr \in [Routes -> BOOLEAN]
    /\ response \in [Routes -> -1..MaxLength]
    /\ events \in [Routes -> SUBSET {"allow", "deny"}]

Cause(r) ==
    \/ From[r] \in expired \/ late[r] \/ answer[r] = -1
    \/ payload[r] > Limit \/ answer[r] > Limit

\* How rpc, the ends and the events go together.
Control(r) ==
    /\ client[r] = "off" <=> server[r] = "off"
    /\ rpc[r] \in {"new", "destination", "acl", "handler"} => client[r] = "off" /\ events[r] = {}
    /\ rpc[r] = "pipe" => client[r] # "off" /\ events[r] = {}
    /\ client[r] = "off" => ~routeErr[r]
    /\ rpc[r] = "ok" => /\ client[r] = "closed" /\ server[r] = "closed"
                        /\ ~routeErr[r] /\ events[r] = {"allow"}
    /\ rpc[r] = "error" /\ client[r] # "off" =>
          /\ client[r] = "closed" /\ server[r] = "closed"
          /\ routeErr[r] /\ events[r] = {"deny"}

\* How the ends and the lengths go together.
Transfer(r) ==
    /\ sent[r] <= payload[r] /\ got[r] = Least(Limit, sent[r])
    /\ back[r] = Least(Limit, written[r])
    /\ answer[r] >= 0 => written[r] <= answer[r]
    /\ answer[r] = -1 => written[r] = 0
    /\ client[r] = "closeWrite" => sent[r] = payload[r]
    /\ server[r] \in {"off", "handshake", "read", "handle"} => runs[r] = 0
    /\ server[r] \in {"off", "handshake", "read", "handle", "running"} =>
          answer[r] = 0 /\ written[r] = 0
    /\ server[r] \in {"running", "write"} => runs[r] = 1
    /\ server[r] = "write" => answer[r] >= 0

\* What an end without an error has achieved, and why there is an error.
Verdict(r) ==
    /\ routeErr[r] => Cause(r)
    /\ ~routeErr[r] =>
          /\ client[r] = "closed" /\ server[r] # "closed" =>
                server[r] = "write" /\ back[r] = Limit
          /\ server[r] \in {"handle", "running", "write", "closed"} =>
                got[r] = Least(Limit, payload[r])
          /\ server[r] = "closed" =>
                /\ runs[r] = 1 /\ answer[r] >= 0 /\ written[r] = answer[r]
                /\ response[r] \in {answer[r], back[r]}

CallInv(r) == Control(r) /\ Transfer(r) /\ Verdict(r)

RouterInv == Shape /\ \A r \in Routes : CallInv(r)

-----------------------------------------------------------------------------

\* Before the call (router.go:57-60) nothing has happened.
LEMMA RouterInitEstablishes == Init => RouterInv
<1> SUFFICES ASSUME Init PROVE RouterInv
  OBVIOUS
<1>1. Shape
  <2>1. late \in [Routes -> BOOLEAN] /\ routeErr \in [Routes -> BOOLEAN]
    BY DEF Init
  <2>2. payload \in [Routes -> Nat] /\ answer \in [Routes -> -1..MaxLength]
    BY RouterAssumption DEF Init
  <2>3. events \in [Routes -> SUBSET {"allow", "deny"}]
    BY DEF Init
  <2> QED
    BY <2>1, <2>2, <2>3, RouterAssumption DEF Init, Shape
<1>2. ASSUME NEW r \in Routes PROVE CallInv(r)
  BY RouterAssumption DEF Init, CallInv, Control, Transfer, Verdict, Least
<1> QED
  BY <1>1, <1>2 DEF RouterInv

\* A call is not disturbed by what happens to others or to the registry
\* (router.go:61-84): its ends and their pipe are its own, and an expired certificate
\* stays expired.
Unmoved(r) ==
    /\ rpc'[r] = rpc[r] /\ client'[r] = client[r] /\ server'[r] = server[r]
    /\ payload'[r] = payload[r] /\ sent'[r] = sent[r] /\ got'[r] = got[r]
    /\ answer'[r] = answer[r] /\ written'[r] = written[r] /\ back'[r] = back[r]
    /\ runs'[r] = runs[r] /\ late'[r] = late[r] /\ routeErr'[r] = routeErr[r]
    /\ response'[r] = response[r] /\ events'[r] = events[r]

LEMMA OtherCalls ==
  ASSUME NEW r \in Routes, CallInv(r), Unmoved(r), expired \subseteq expired'
  PROVE  CallInv(r)'
  BY DEF CallInv, Control, Transfer, Verdict, Cause, Unmoved

\* A step of one call keeps the invariant if it keeps the shape and that of the call.
LEMMA OneCall ==
  ASSUME RouterInv, NEW r \in Routes, Shape', CallInv(r)', expired' = expired,
         \A q \in Routes \ {r} : Unmoved(q)
  PROVE  RouterInv'
  BY OtherCalls DEF RouterInv

-----------------------------------------------------------------------------
(***************************************************************************)
(* The caller.                                                             *)
(***************************************************************************)

\* An unknown sender (router.go:61-64) ends the call before it has started.
LEMMA LookupSenderPreserves ==
  ASSUME RouterInv, NEW r \in Routes, LookupSender(r)
  PROVE  RouterInv'
<1> USE DEF Lookup, Goto, registry, routeVars, pipe
<1>1. Shape'
  BY RouterAssumption DEF LookupSender, RouterInv, Shape
<1>2. \A q \in Routes \ {r} : Unmoved(q)
  BY DEF LookupSender, RouterInv, Shape, Unmoved
<1>3. CallInv(r)'
  BY RouterAssumption DEF LookupSender, RouterInv, Shape, CallInv, Control, Transfer,
     Verdict, Cause, Least
<1>4. expired' = expired
  BY DEF LookupSender
<1> QED
  BY <1>1, <1>2, <1>3, <1>4, OneCall

\* So does an unknown destination (router.go:65-68).
LEMMA LookupDestinationPreserves ==
  ASSUME RouterInv, NEW r \in Routes, LookupDestination(r)
  PROVE  RouterInv'
<1> USE DEF Lookup, Goto, registry, routeVars, pipe
<1>1. Shape'
  BY RouterAssumption DEF LookupDestination, RouterInv, Shape
<1>2. \A q \in Routes \ {r} : Unmoved(q)
  BY DEF LookupDestination, RouterInv, Shape, Unmoved
<1>3. CallInv(r)'
  BY RouterAssumption DEF LookupDestination, RouterInv, Shape, CallInv, Control, Transfer,
     Verdict, Cause, Least
<1>4. expired' = expired
  BY DEF LookupDestination
<1> QED
  BY <1>1, <1>2, <1>3, <1>4, OneCall

\* A denied route (router.go:71-76) is reported as such.
LEMMA CheckACLPreserves ==
  ASSUME RouterInv, NEW r \in Routes, CheckACL(r)
  PROVE  RouterInv'
<1> USE DEF Lookup, Goto, registry, routeVars, pipe
<1>1. Shape'
  BY RouterAssumption DEF CheckACL, RouterInv, Shape
<1>2. \A q \in Routes \ {r} : Unmoved(q)
  BY DEF CheckACL, RouterInv, Shape, Unmoved
<1>3. CallInv(r)'
  BY RouterAssumption DEF CheckACL, RouterInv, Shape, CallInv, Control, Transfer,
     Verdict, Cause, Least
<1>4. expired' = expired
  BY DEF CheckACL
<1> QED
  BY <1>1, <1>2, <1>3, <1>4, OneCall

\* Both ends start together (router.go:79-109).
LEMMA LookupHandlerPreserves ==
  ASSUME RouterInv, NEW r \in Routes, LookupHandler(r)
  PROVE  RouterInv'
<1> USE DEF Lookup, Goto, registry, routeVars, pipe
<1>1. Shape'
  BY RouterAssumption DEF LookupHandler, RouterInv, Shape
<1>2. \A q \in Routes \ {r} : Unmoved(q)
  BY DEF LookupHandler, RouterInv, Shape, Unmoved
<1>3. CallInv(r)'
  BY RouterAssumption DEF LookupHandler, RouterInv, Shape, CallInv, Control, Transfer,
     Verdict, Cause, Least
<1>4. expired' = expired
  BY DEF LookupHandler
<1> QED
  BY <1>1, <1>2, <1>3, <1>4, OneCall

\* RouteContext returns when both ends are closed (router.go:194-208).
LEMMA ReturnPreserves ==
  ASSUME RouterInv, NEW r \in Routes, Return(r)
  PROVE  RouterInv'
<1> USE DEF Lookup, Goto, registry, routeVars, pipe
<1>1. Shape'
  BY RouterAssumption DEF Return, RouterInv, Shape
<1>2. \A q \in Routes \ {r} : Unmoved(q)
  BY DEF Return, RouterInv, Shape, Unmoved
<1>3. CallInv(r)'
  BY RouterAssumption DEF Return, RouterInv, Shape, CallInv, Control, Transfer,
     Verdict, Cause, Least
<1>4. expired' = expired
  BY DEF Return
<1> QED
  BY <1>1, <1>2, <1>3, <1>4, OneCall

(***************************************************************************)
(* The client's end of the pipe.                                           *)
(***************************************************************************)

\* The handshakes end one after the other (router.go:126-129, 172-175).
LEMMA ClientHandshakePreserves ==
  ASSUME RouterInv, NEW r \in Routes, ClientHandshake(r)
  PROVE  RouterInv'
<1> USE DEF ClientTo, ServerTo, ClientFails, ServerFails, registry, routeVars, pipe
<1>1. Shape'
  BY RouterAssumption DEF ClientHandshake, RouterInv, Shape
<1>2. \A q \in Routes \ {r} : Unmoved(q)
  BY DEF ClientHandshake, RouterInv, Shape, Unmoved
<1>3. CallInv(r)'
  BY RouterAssumption DEF ClientHandshake, RouterInv, Shape, CallInv, Control, Transfer,
     Verdict, Cause, Least
<1>4. expired' = expired
  BY DEF ClientHandshake
<1> QED
  BY <1>1, <1>2, <1>3, <1>4, OneCall

\* A record on its way to the server (router.go:132, 178) is as long on both sides, up
\* to the limit.
LEMMA SendRecordPreserves ==
  ASSUME RouterInv, NEW r \in Routes, SendRecord(r)
  PROVE  RouterInv'
<1> USE RouterAssumption DEF RouterInv, Shape, registry
<1> DEFINE n == Min({RecordSize, payload[r] - sent[r]})
<1>1. /\ n = Least(RecordSize, payload[r] - sent[r])
      /\ Min({Limit, got[r] + n}) = Least(Limit, got[r] + n)
  <2>1. n = Least(RecordSize, payload[r] - sent[r])
    BY MinOfTwo
  <2>2. n \in Int
    BY <2>1 DEF Least
  <2> HIDE DEF n
  <2> QED
    BY <2>1, <2>2, MinOfTwo
<1>2. /\ sent' = [sent EXCEPT ![r] = @ + n]
      /\ got' = [got EXCEPT ![r] = Min({Limit, @ + n})]
      /\ sent[r] < payload[r]
  BY DEF SendRecord
<1> HIDE DEF n
<1>3. n \in Nat /\ sent[r] + n <= payload[r]
  BY <1>1, <1>2 DEF Least
<1>4. /\ sent'[r] = sent[r] + n /\ got'[r] = Least(Limit, got[r] + n)
      /\ sent' \in [Routes -> Nat] /\ got' \in [Routes -> Nat]
  BY <1>1, <1>2, <1>3 DEF Least
<1>5. Shape'
  BY <1>4 DEF SendRecord
<1>6. \A q \in Routes \ {r} : Unmoved(q)
  BY <1>2 DEF SendRecord, Unmoved
<1>7. got'[r] = Least(Limit, sent'[r])
  BY <1>3, <1>4 DEF CallInv, Transfer, Least
<1>8. CallInv(r)'
  <2>1. Control(r)'
    BY DEF SendRecord, CallInv, Control
  <2>2. Transfer(r)'
    BY <1>2, <1>3, <1>4, <1>7 DEF SendRecord, CallInv, Transfer
  <2>3. Verdict(r)'
    BY <1>2, <1>3, <1>4, <1>7 DEF SendRecord, CallInv, Verdict, Cause
  <2> QED
    BY <2>1, <2>2, <2>3 DEF CallInv
<1>9. expired' = expired
  BY DEF SendRecord
<1> QED
  BY <1>5, <1>6, <1>8, <1>9, OneCall

\* A write fails (router.go:178-181) because the server has an error or has read enough.
LEMMA ClientWrittenPreserves ==
  ASSUME RouterInv, NEW r \in Routes, ClientWritten(r)
  PROVE  RouterInv'
<1> USE DEF ClientTo, ServerTo, ClientFails, ServerFails, registry, routeVars, pipe
<1>1. Shape'
  BY RouterAssumption DEF ClientWritten, RouterInv, Shape
<1>2. \A q \in Routes \ {r} : Unmoved(q)
  BY DEF ClientWritten, RouterInv, Shape, Unmoved
<1>3. CallInv(r)'
  BY RouterAssumption DEF ClientWritten, RouterInv, Shape, CallInv, Control, Transfer,
     Verdict, Cause, Least
<1>4. expired' = expired
  BY DEF ClientWritten
<1> QED
  BY <1>1, <1>2, <1>3, <1>4, OneCall

\* The server that reads the end of the payload (router.go:183) has all of it.
LEMMA CloseWritePreserves ==
  ASSUME RouterInv, NEW r \in Routes, CloseWrite(r)
  PROVE  RouterInv'
<1> USE DEF ClientTo, ServerTo, ClientFails, ServerFails, registry, routeVars, pipe
<1>1. Shape'
  BY RouterAssumption DEF CloseWrite, RouterInv, Shape
<1>2. \A q \in Routes \ {r} : Unmoved(q)
  BY DEF CloseWrite, RouterInv, Shape, Unmoved
<1>3. CallInv(r)'
  BY RouterAssumption DEF CloseWrite, RouterInv, Shape, CallInv, Control, Transfer,
     Verdict, Cause, Least
<1>4. expired' = expired
  BY DEF CloseWrite
<1> QED
  BY <1>1, <1>2, <1>3, <1>4, OneCall

\* The client has read the response, or as much of it as it wants (router.go:186-191).
LEMMA ClientReadEndsPreserves ==
  ASSUME RouterInv, NEW r \in Routes, ClientReadEnds(r)
  PROVE  RouterInv'
<1> USE DEF ClientTo, ServerTo, ClientFails, ServerFails, registry, routeVars, pipe
<1>1. Shape'
  <2>1. back[r] \in -1..MaxLength
    BY RouterAssumption DEF ClientReadEnds, RouterInv, Shape, CallInv, Transfer, Least
  <2> QED
    BY <2>1 DEF ClientReadEnds, RouterInv, Shape
<1>2. \A q \in Routes \ {r} : Unmoved(q)
  BY DEF ClientReadEnds, RouterInv, Shape, Unmoved
<1>3. CallInv(r)'
  BY RouterAssumption DEF ClientReadEnds, RouterInv, Shape, CallInv, Control, Transfer,
     Verdict, Cause, Least
<1>4. expired' = expired
  BY DEF ClientReadEnds
<1> QED
  BY <1>1, <1>2, <1>3, <1>4, OneCall

\* A deadline (router.go:168) is a cause of its own.
LEMMA ClientTimeoutPreserves ==
  ASSUME RouterInv, NEW r \in Routes, ClientTimeout(r)
  PROVE  RouterInv'
<1> USE DEF ClientTo, ServerTo, ClientFails, ServerFails, registry, routeVars, pipe
<1>1. Shape'
  BY RouterAssumption DEF ClientTimeout, RouterInv, Shape
<1>2. \A q \in Routes \ {r} : Unmoved(q)
  BY DEF ClientTimeout, RouterInv, Shape, Unmoved
<1>3. CallInv(r)'
  BY RouterAssumption DEF ClientTimeout, RouterInv, Shape, CallInv, Control, Transfer,
     Verdict, Cause, Least
<1>4. expired' = expired
  BY DEF ClientTimeout
<1> QED
  BY <1>1, <1>2, <1>3, <1>4, OneCall

(***************************************************************************)
(* The server's end.                                                       *)
(***************************************************************************)

\* The server's handshake fails (router.go:126-129) with the certificate or the client.
LEMMA ServerHandshakePreserves ==
  ASSUME RouterInv, NEW r \in Routes, ServerHandshake(r)
  PROVE  RouterInv'
<1> USE DEF ClientTo, ServerTo, ClientFails, ServerFails, registry, routeVars, pipe
<1>1. Shape'
  BY RouterAssumption DEF ServerHandshake, RouterInv, Shape
<1>2. \A q \in Routes \ {r} : Unmoved(q)
  BY DEF ServerHandshake, RouterInv, Shape, Unmoved
<1>3. CallInv(r)'
  BY RouterAssumption DEF ServerHandshake, RouterInv, Shape, CallInv, Control, Transfer,
     Verdict, Cause, Least
<1>4. expired' = expired
  BY DEF ServerHandshake
<1> QED
  BY <1>1, <1>2, <1>3, <1>4, OneCall

\* The server reads to its limit (router.go:132-136); a client that is gone has failed.
LEMMA ServerReadEndsPreserves ==
  ASSUME RouterInv, NEW r \in Routes, ServerReadEnds(r)
  PROVE  RouterInv'
<1> USE DEF ClientTo, ServerTo, ClientFails, ServerFails, registry, routeVars, pipe
<1>1. Shape'
  BY RouterAssumption DEF ServerReadEnds, RouterInv, Shape
<1>2. \A q \in Routes \ {r} : Unmoved(q)
  BY DEF ServerReadEnds, RouterInv, Shape, Unmoved
<1>3. CallInv(r)'
  BY RouterAssumption DEF ServerReadEnds, RouterInv, Shape, CallInv, Control, Transfer,
     Verdict, Cause, Least
<1>4. expired' = expired
  BY DEF ServerReadEnds
<1> QED
  BY <1>1, <1>2, <1>3, <1>4, OneCall

\* The handler runs (router.go:139) for the first time.
LEMMA CallHandlerPreserves ==
  ASSUME RouterInv, NEW r \in Routes, CallHandler(r)
  PROVE  RouterInv'
<1> USE DEF ClientTo, ServerTo, ClientFails, ServerFails, registry, routeVars, pipe
<1>1. Shape'
  BY RouterAssumption DEF CallHandler, RouterInv, Shape
<1>2. \A q \in Routes \ {r} : Unmoved(q)
  BY DEF CallHandler, RouterInv, Shape, Unmoved
<1>3. CallInv(r)'
  BY RouterAssumption DEF CallHandler, RouterInv, Shape, CallInv, Control, Transfer,
     Verdict, Cause, Least
<1>4. expired' = expired
  BY DEF CallHandler
<1> QED
  BY <1>1, <1>2, <1>3, <1>4, OneCall

\* It returns a response of any length, or an error (router.go:139-143).
LEMMA HandlerReturnsPreserves ==
  ASSUME RouterInv, NEW r \in Routes, HandlerReturns(r)
  PROVE  RouterInv'
<1> USE DEF ClientTo, ServerTo, ClientFails, ServerFails, registry, routeVars, pipe
<1>1. Shape'
  <2>1. PICK n \in -1..MaxLength : answer' = [answer EXCEPT ![r] = n]
    BY RouterAssumption DEF HandlerReturns
  <2>2. answer' \in [Routes -> -1..MaxLength]
    BY <2>1 DEF RouterInv, Shape
  <2> QED
    BY <2>2 DEF HandlerReturns, RouterInv, Shape
<1>2. \A q \in Routes \ {r} : Unmoved(q)
  BY DEF HandlerReturns, RouterInv, Shape, Unmoved
<1>3. CallInv(r)'
  BY RouterAssumption DEF HandlerReturns, RouterInv, Shape, CallInv, Control, Transfer,
     Verdict, Cause, Least
<1>4. expired' = expired
  BY DEF HandlerReturns
<1> QED
  BY <1>1, <1>2, <1>3, <1>4, OneCall

\* A record on its way back (router.go:146, 186).
LEMMA AnswerRecordPreserves ==
  ASSUME RouterInv, NEW r \in Routes, AnswerRecord(r)
  PROVE  RouterInv'
<1> USE RouterAssumption DEF RouterInv, Shape, registry
<1> DEFINE n == Min({RecordSize, answer[r] - written[r]})
<1>1. /\ n = Least(RecordSize, answer[r] - written[r])
      /\ Min({Limit, back[r] + n}) = Least(Limit, back[r] + n)
  <2>1. n = Least(RecordSize, answer[r] - written[r])
    BY MinOfTwo
  <2>2. n \in Int
    BY <2>1 DEF Least
  <2> HIDE DEF n
  <2> QED
    BY <2>1, <2>2, MinOfTwo
<1>2. /\ written' = [written EXCEPT ![r] = @ + n]
      /\ back' = [back EXCEPT ![r] = Min({Limit, @ + n})]
      /\ written[r] < answer[r]
  BY DEF AnswerRecord
<1> HIDE DEF n
<1>3. n \in Nat /\ written[r] + n <= answer[r]
  BY <1>1, <1>2 DEF Least
<1>4. /\ written'[r] = written[r] + n /\ back'[r] = Least(Limit, back[r] + n)
      /\ written' \in [Routes -> Nat] /\ back' \in [Routes -> Nat]
  BY <1>1, <1>2, <1>3 DEF Least
<1>5. Shape'
  BY <1>4 DEF AnswerRecord
<1>6. \A q \in Routes \ {r} : Unmoved(q)
  BY <1>2 DEF AnswerRecord, Unmoved
<1>7. back'[r] = Least(Limit, written'[r])
  BY <1>3, <1>4 DEF CallInv, Transfer, Least
<1>8. CallInv(r)'
  <2>1. Control(r)'
    BY DEF AnswerRecord, CallInv, Control
  <2>2. Transfer(r)'
    <3>1. /\ server[r] = "write" /\ client[r] = "read" /\ answer[r] >= 0
          /\ UNCHANGED <<client, server, payload, sent, got, answer, runs>>
      BY DEF AnswerRecord, CallInv, Transfer
    <3>2. answer[r] # -1 /\ written'[r] <= answer[r]
      BY <1>3, <1>4, <3>1
    <3> QED
      BY <1>7, <3>1, <3>2 DEF CallInv, Transfer
  <2>3. Verdict(r)'
    BY <1>2, <1>3, <1>4, <1>7 DEF AnswerRecord, CallInv, Verdict, Cause
  <2> QED
    BY <2>1, <2>2, <2>3 DEF CallInv
<1>9. expired' = expired
  BY DEF AnswerRecord
<1> QED
  BY <1>5, <1>6, <1>8, <1>9, OneCall

\* A write that fails (router.go:146-149) has a client that failed or read enough.
LEMMA ServerWrittenPreserves ==
  ASSUME RouterInv, NEW r \in Routes, ServerWritten(r)
  PROVE  RouterInv'
<1> USE DEF ClientTo, ServerTo, ClientFails, ServerFails, registry, routeVars, pipe
<1>1. Shape'
  <2>1. response' \in [Routes -> -1..MaxLength]
    BY DEF ServerWritten, RouterInv, Shape
  <2>2. server' \in [Routes -> {"off", "handshake", "read", "handle", "running", "write",
                                 "closed"}]
    BY DEF ServerWritten, RouterInv, Shape
  <2>3. routeErr' \in [Routes -> BOOLEAN]
    BY DEF ServerWritten, RouterInv, Shape
  <2> QED
    BY <2>1, <2>2, <2>3 DEF ServerWritten, RouterInv, Shape
<1>2. \A q \in Routes \ {r} : Unmoved(q)
  BY DEF ServerWritten, RouterInv, Shape, Unmoved
<1>3. CallInv(r)'
  BY RouterAssumption DEF ServerWritten, RouterInv, Shape, CallInv, Control, Transfer,
     Verdict, Cause, Least
<1>4. expired' = expired
  BY DEF ServerWritten
<1> QED
  BY <1>1, <1>2, <1>3, <1>4, OneCall

\* A deadline (router.go:122) is a cause of its own.
LEMMA ServerTimeoutPreserves ==
  ASSUME RouterInv, NEW r \in Routes, ServerTimeout(r)
  PROVE  RouterInv'
<1> USE DEF ClientTo, ServerTo, ClientFails, ServerFails, registry, routeVars, pipe
<1>1. Shape'
  BY RouterAssumption DEF ServerTimeout, RouterInv, Shape
<1>2. \A q \in Routes \ {r} : Unmoved(q)
  BY DEF ServerTimeout, RouterInv, Shape, Unmoved
<1>3. CallInv(r)'
  BY RouterAssumption DEF ServerTimeout, RouterInv, Shape, CallInv, Control, Transfer,
     Verdict, Cause, Least
<1>4. expired' = expired
  BY DEF ServerTimeout
<1> QED
  BY <1>1, <1>2, <1>3, <1>4, OneCall

-----------------------------------------------------------------------------

\* Every step of any call, and whatever changes the registry, the handlers or the
\* policy in between, keeps the invariant (router.go:57-209).
LEMMA RouterNextPreserves ==
  ASSUME RouterInv, [Next]_vars
  PROVE  RouterInv'
<1>1. ASSUME UNCHANGED <<rpc, routeVars, events>>, expired \subseteq expired'
      PROVE  RouterInv'
  <2>1. Shape' /\ \A r \in Routes : Unmoved(r)
    BY <1>1 DEF RouterInv, Shape, Unmoved, routeVars, pipe
  <2> QED
    BY <1>1, <2>1, OtherCalls DEF RouterInv
<1>2. CASE UNCHANGED vars
  BY <1>1, <1>2 DEF vars, registry
<1>3. ASSUME NEW a \in Agents, Register(a) \/ Deregister(a) \/ Expire(a) \/ RegisterHandler(a)
      PROVE  RouterInv'
  BY <1>1, <1>3 DEF Register, Deregister, Expire, RegisterHandler
<1>4. CASE PruneExpired \/ ReloadPolicy
  BY <1>1, <1>4 DEF PruneExpired, ReloadPolicy
<1>5. ASSUME NEW r \in Routes, CallerStep(r) PROVE RouterInv'
  BY <1>5, LookupSenderPreserves, LookupDestinationPreserves, CheckACLPreserves,
     LookupHandlerPreserves, ReturnPreserves DEF CallerStep
<1>6. ASSUME NEW r \in Routes, ClientStep(r) PROVE RouterInv'
  BY <1>6, ClientHandshakePreserves, SendRecordPreserves, ClientWrittenPreserves,
     CloseWritePreserves, ClientReadEndsPreserves, ClientTimeoutPreserves DEF ClientStep
<1>7. ASSUME NEW r \in Routes, ServerStep(r) PROVE RouterInv'
  BY <1>7, ServerHandshakePreserves, ServerReadEndsPreserves, CallHandlerPreserves,
     HandlerReturnsPreserves, AnswerRecordPreserves, ServerWrittenPreserves,
     ServerTimeoutPreserves DEF ServerStep
<1> QED
  BY <1>2, <1>3, <1>4, <1>5, <1>6, <1>7 DEF Next

\* The invariant holds of every behaviour (router.go:57-209).
LEMMA RouterInvariance == Spec => []RouterInv
  BY RouterInitEstablishes, RouterNextPreserves, PTL DEF Spec

\* A call that succeeds was handled once, from the payload up to the limit, and its
\* caller has the response up to the limit (router.go:131-150, 177-208).
THEOREM SuccessIsHandled == Spec => []SuccessMeansHandled
<1>1. RouterInv => SuccessMeansHandled
  <2> SUFFICES ASSUME RouterInv, NEW r \in Routes, rpc[r] = "ok"
               PROVE  /\ runs[r] = 1 /\ answer[r] >= 0
                      /\ got[r] = Min({Limit, payload[r]})
                      /\ answer[r] <= Limit => response[r] = answer[r]
                      /\ events[r] = {"allow"}
    BY DEF SuccessMeansHandled
  <2>1. Min({Limit, payload[r]}) = Least(Limit, payload[r])
    BY RouterAssumption, MinOfTwo DEF RouterInv, Shape
  <2> QED
    BY <2>1, RouterAssumption DEF RouterInv, Shape, CallInv, Control, Transfer, Verdict, Least
<1> QED
  BY <1>1, RouterInvariance, PTL

\* A call whose ends were started fails only with a cause, and reports it
\* (router.go:116-149, 172-200).
THEOREM FailureIsCaused == Spec => []FailureHasCause
<1>1. RouterInv => FailureHasCause
  BY DEF RouterInv, CallInv, Control, Verdict, Cause, FailureHasCause
<1> QED
  BY <1>1, RouterInvariance, PTL

-----------------------------------------------------------------------------

\* The registry (registry.go:191-195) knows only agents it has handed an identity out to.
Registry ==
    /\ agents \subseteq Agents \ fresh /\ expired \subseteq Agents \ fresh
    /\ handlers \subseteq Agents /\ policy \in Policies

\* Every variable keeps its type, no side reads beyond its limit, and none is further
\* than the other lets it be (router.go:102-209).
THEOREM RouterTypeCorrect == Spec => []TypeOK
<1>1. Init => Registry
  BY DEF Init, Registry
<1>2. Registry /\ [Next]_vars => Registry'
  <2> SUFFICES ASSUME Registry, [Next]_vars PROVE Registry'
    OBVIOUS
  <2>1. ASSUME UNCHANGED registry PROVE Registry'
    BY <2>1 DEF registry, Registry
  <2>2. CASE UNCHANGED vars
    BY <2>1, <2>2 DEF vars
  <2>3. ASSUME NEW a \in Agents, Register(a) \/ Deregister(a) \/ Expire(a) \/ RegisterHandler(a)
        PROVE  Registry'
    BY <2>3 DEF Register, Deregister, Expire, RegisterHandler, Registry
  <2>4. CASE PruneExpired \/ ReloadPolicy
    BY <2>4 DEF PruneExpired, ReloadPolicy, Registry
  <2>5. ASSUME NEW r \in Routes, CallerStep(r) \/ ClientStep(r) \/ ServerStep(r)
        PROVE  UNCHANGED registry
    BY <2>5 DEF CallerStep, LookupSender, LookupDestination, Lookup, CheckACL,
         LookupHandler, Return, ClientStep, ClientHandshake, SendRecord, ClientWritten,
         CloseWrite, ClientReadEnds, ClientTimeout, ServerStep, ServerHandshake,
         ServerReadEnds, CallHandler, HandlerReturns, AnswerRecord, ServerWritten,
         ServerTimeout
  <2> QED
    BY <2>1, <2>2, <2>3, <2>4, <2>5 DEF Next
<1>3. Registry /\ RouterInv => TypeOK
  <2> SUFFICES ASSUME Registry, RouterInv, NEW r \in Routes
               PROVE  /\ sent[r] \in 0..payload[r] /\ written[r] \in 0..Max({0, answer[r]})
                      /\ got[r] \in 0..Limit /\ back[r] \in 0..Limit
    BY DEF TypeOK, Registry, RouterInv, Shape
  <2>1. Max({0, answer[r]}) = IF answer[r] <= 0 THEN 0 ELSE answer[r]
    <3> DEFINE m == IF answer[r] <= 0 THEN 0 ELSE answer[r]
    <3>1. answer[r] \in Int
      BY RouterAssumption DEF RouterInv, Shape
    <3>2. m \in {0, answer[r]} /\ \A y \in {0, answer[r]} : m >= y
      BY <3>1
    <3>3. \A x \in {0, answer[r]} : (\A y \in {0, answer[r]} : x >= y) => x = m
      BY <3>1
    <3> HIDE DEF m
    <3>4. Max({0, answer[r]}) = m
      BY <3>2, <3>3 DEF Max
    <3> QED
      BY <3>4 DEF m
  <2> QED
    BY <2>1, RouterAssumption DEF RouterInv, Shape, CallInv, Transfer, Least
<1> QED
  BY <1>1, <1>2, <1>3, RouterInvariance, PTL DEF Spec

=============================================================================

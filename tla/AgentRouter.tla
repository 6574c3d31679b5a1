----------------------------- MODULE AgentRouter -----------------------------
(***************************************************************************)
(* Routing between agents: AgentRegistry (agent/registry.go),              *)
(* PolicyManager.IsRoutePermitted (agent/policy.go) and                    *)
(* AgentRouter.RouteContext (agent/router.go).                             *)
(*                                                                         *)
(* A route is one call of RouteContext: it checks, then runs a client and  *)
(* a server goroutine at the two ends of a synchronous net.Pipe.  Payload  *)
(* and response are their lengths.  crypto/tls is external: it carries a   *)
(* Write in records of at most RecordSize, and a reader takes whole        *)
(* records off the pipe, also when io.LimitReader wants only part of one.  *)
(* An end fails when its deadline passes, which may be at any I/O.         *)
(***************************************************************************)
EXTENDS Integers, FiniteSets, FiniteSetsExt

CONSTANTS
    Agents,      \* identities Register hands out, each with its SPIFFE ID
    Routes,      \* calls of RouteContext
    From, To,    \* their arguments
    Policies,    \* the sets of ACL entries [from, to] a reload may install
    MaxLength,   \* the longest payload or response (a bound of the model only)
    Limit,       \* the 1 MiB limit
    RecordSize   \* the plaintext a TLS record carries

ASSUME RouterAssumption ==
    /\ From \in [Routes -> Agents] /\ To \in [Routes -> Agents]
    /\ Policies # {} /\ "*" \notin Agents
    /\ MaxLength \in Nat /\ Limit \in Nat \ {0} /\ RecordSize \in Nat \ {0}

VARIABLES
    agents,     \* the registry; its two maps change together, under r.mu
    fresh,      \* identities not handed out yet
    expired,    \* agents whose certificate has expired
    handlers,   \* agents with a handler
    policy,     \* the routes in force
    rpc,        \* where each call stands
    client,     \* where its client function stands
    server,     \* where its server goroutine stands
    payload, sent, got,        \* length, written by the client, read by the server
    answer, written, back,     \* the same for the response; -1: the handler failed
    runs,       \* history: how often the handler was called
    late,       \* history: a deadline passed
    routeErr,   \* routeErr is set
    response,   \* the length of response, -1 for nil
    events      \* the OCSF route events emitted for the call

registry == <<agents, fresh, expired, handlers, policy>>
pipe == <<payload, sent, got, answer, written, back>>
routeVars == <<client, server, pipe, runs, late, routeErr, response>>
vars == <<registry, rpc, routeVars, events>>

Init ==
    /\ agents = {} /\ fresh = Agents /\ expired = {} /\ handlers = {}
    /\ policy \in Policies
    /\ rpc = [r \in Routes |-> "new"]
    /\ client = [r \in Routes |-> "off"] /\ server = [r \in Routes |-> "off"]
    /\ payload \in [Routes -> 0..MaxLength]
    /\ sent = [r \in Routes |-> 0] /\ got = [r \in Routes |-> 0]
    /\ answer = [r \in Routes |-> 0]
    /\ written = [r \in Routes |-> 0] /\ back = [r \in Routes |-> 0]
    /\ runs = [r \in Routes |-> 0]
    /\ late = [r \in Routes |-> FALSE]
    /\ routeErr = [r \in Routes |-> FALSE]
    /\ response = [r \in Routes |-> -1]
    /\ events = [r \in Routes |-> {}]

-----------------------------------------------------------------------------
(***************************************************************************)
(* The registry, handlers and policy change at any time.                   *)
(***************************************************************************)
Register(a) ==
    /\ a \in fresh /\ fresh' = fresh \ {a}
    /\ agents' = agents \cup {a}
    /\ UNCHANGED <<expired, handlers, policy, rpc, routeVars, events>>

Deregister(a) ==
    /\ a \in agents /\ agents' = agents \ {a}
    /\ UNCHANGED <<fresh, expired, handlers, policy, rpc, routeVars, events>>

\* The clock passes an identity's ExpiresAt.
Expire(a) ==
    /\ a \notin fresh \cup expired /\ expired' = expired \cup {a}
    /\ UNCHANGED <<agents, fresh, handlers, policy, rpc, routeVars, events>>

PruneExpired ==
    /\ agents \cap expired # {}
    /\ agents' = agents \ expired
    /\ UNCHANGED <<fresh, expired, handlers, policy, rpc, routeVars, events>>

RegisterHandler(a) ==
    /\ a \in agents \ handlers /\ handlers' = handlers \cup {a}
    /\ UNCHANGED <<agents, fresh, expired, policy, rpc, routeVars, events>>

ReloadPolicy ==
    /\ policy' \in Policies \ {policy}
    /\ UNCHANGED <<agents, fresh, expired, handlers, rpc, routeVars, events>>

IsRoutePermitted(from, to) ==
    \E e \in policy : e.from \in {"*", from} /\ e.to \in {"*", to}

-----------------------------------------------------------------------------
(***************************************************************************)
(* RouteContext, in the caller's goroutine: look both agents up, ask the   *)
(* policy, find the handler, start both ends.                              *)
(***************************************************************************)
Goto(r, l) == rpc' = [rpc EXCEPT ![r] = l]

\* A step of the lookup sequence: on to the next, or return an error.
Lookup(r, at, found, next) ==
    /\ rpc[r] = at
    /\ Goto(r, IF found THEN next ELSE "error")
    /\ UNCHANGED <<registry, routeVars, events>>

LookupSender(r) == Lookup(r, "new", From[r] \in agents, "destination")

LookupDestination(r) == Lookup(r, "destination", To[r] \in agents, "acl")

CheckACL(r) ==
    /\ rpc[r] = "acl"
    /\ IF IsRoutePermitted(From[r], To[r])
         THEN Goto(r, "handler") /\ UNCHANGED events
         ELSE Goto(r, "error") /\ events' = [events EXCEPT ![r] = @ \cup {"deny"}]
    /\ UNCHANGED <<registry, routeVars>>

LookupHandler(r) ==
    /\ rpc[r] = "handler"
    /\ IF To[r] \in handlers
         THEN /\ Goto(r, "pipe")
              /\ client' = [client EXCEPT ![r] = "handshake"]
              /\ server' = [server EXCEPT ![r] = "handshake"]
         ELSE Goto(r, "error") /\ UNCHANGED <<client, server>>
    /\ UNCHANGED <<registry, pipe, runs, late, routeErr, response, events>>

-----------------------------------------------------------------------------
(***************************************************************************)
(* The two ends of the pipe.                                               *)
(***************************************************************************)
ClientTo(r, l) == client' = [client EXCEPT ![r] = l]

ServerTo(r, l) == server' = [server EXCEPT ![r] = l]

\* An end sets routeErr and closes its side.
ClientFails(r) == ClientTo(r, "closed") /\ routeErr' = [routeErr EXCEPT ![r] = TRUE]

ServerFails(r) == ServerTo(r, "closed") /\ routeErr' = [routeErr EXCEPT ![r] = TRUE]

\* The client's handshake ends first: in TLS 1.3 its last flight still has to be
\* verified.  It does not look at the server certificate's dates.
ClientHandshake(r) ==
    /\ client[r] = "handshake" /\ server[r] = "handshake"
    /\ ClientTo(r, "write")
    /\ UNCHANGED <<registry, rpc, server, pipe, runs, late, routeErr, response, events>>

\* The server verifies the client's certificate, dates included.
ServerHandshake(r) ==
    /\ server[r] = "handshake" /\ client[r] \notin {"off", "handshake"}
    /\ \/ /\ From[r] \notin expired /\ client[r] # "closed"
          /\ ServerTo(r, "read") /\ UNCHANGED routeErr
       \/ (From[r] \in expired \/ client[r] = "closed") /\ ServerFails(r)
    /\ UNCHANGED <<registry, rpc, client, pipe, runs, late, response, events>>

\* Mutant: the server reads without a limit.
SendRecordUnlimited(r) ==
    /\ client[r] = "write" /\ sent[r] < payload[r] /\ server[r] = "read"
    /\ LET n == Min({RecordSize, payload[r] - sent[r]}) IN
          sent' = [sent EXCEPT ![r] = @ + n] /\ got' = [got EXCEPT ![r] = @ + n]
    /\ UNCHANGED <<registry, rpc, client, server, payload, answer, written, back, runs, late,
                   routeErr, response, events>>

\* One record of the payload: the server takes it whole and keeps at most Limit.
SendRecord(r) ==
    /\ client[r] = "write" /\ sent[r] < payload[r]
    /\ server[r] = "read" /\ got[r] < Limit
    /\ LET n == Min({RecordSize, payload[r] - sent[r]}) IN
          /\ sent' = [sent EXCEPT ![r] = @ + n]
          /\ got' = [got EXCEPT ![r] = Min({Limit, @ + n})]
    /\ UNCHANGED <<registry, rpc, client, server, payload, answer, written, back, runs, late,
                   routeErr, response, events>>

\* Write returns, or fails because the server has closed the pipe.
ClientWritten(r) ==
    /\ client[r] = "write"
    /\ \/ sent[r] = payload[r] /\ ClientTo(r, "closeWrite") /\ UNCHANGED routeErr
       \/ sent[r] < payload[r] /\ server[r] = "closed" /\ ClientFails(r)
    /\ UNCHANGED <<registry, rpc, server, pipe, runs, late, response, events>>

\* CloseWrite: the server reads the close_notify, or nobody does within 5 s or ever,
\* which is ignored.
CloseWrite(r) ==
    /\ client[r] = "closeWrite"
    /\ ClientTo(r, "read")
    /\ \/ server[r] = "read" /\ got[r] < Limit /\ ServerTo(r, "handle")
       \/ UNCHANGED server
    /\ UNCHANGED <<registry, rpc, pipe, runs, late, routeErr, response, events>>

\* ReadAll ends at the limit; or with the pipe, which counts as the end of the
\* payload between two records and as an error inside one.
ServerReadEnds(r) ==
    /\ server[r] = "read"
    /\ \/ (got[r] = Limit \/ client[r] = "closed") /\ ServerTo(r, "handle")
          /\ UNCHANGED routeErr
       \/ got[r] < Limit /\ client[r] = "closed" /\ ServerFails(r)
    /\ UNCHANGED <<registry, rpc, client, pipe, runs, late, response, events>>

CallHandler(r) ==
    /\ server[r] = "handle"
    /\ runs' = [runs EXCEPT ![r] = @ + 1]
    /\ ServerTo(r, "running")
    /\ UNCHANGED <<registry, rpc, client, pipe, late, routeErr, response, events>>

\* Mutant: the handler's error is not recorded.
HandlerReturnsUnchecked(r) ==
    /\ server[r] = "running"
    /\ \/ /\ answer' \in {[answer EXCEPT ![r] = n] : n \in 0..MaxLength}
          /\ ServerTo(r, "write")
       \/ ServerTo(r, "closed") /\ answer' = [answer EXCEPT ![r] = -1]
    /\ UNCHANGED <<registry, rpc, client, payload, sent, got, written, back, runs, late,
                   routeErr, response, events>>

HandlerReturns(r) ==
    /\ server[r] = "running"
    /\ \/ /\ answer' \in {[answer EXCEPT ![r] = n] : n \in 0..MaxLength}
          /\ ServerTo(r, "write") /\ UNCHANGED routeErr
       \/ ServerFails(r) /\ answer' = [answer EXCEPT ![r] = -1]
    /\ UNCHANGED <<registry, rpc, client, payload, sent, got, written, back, runs, late,
                   response, events>>

\* One record of the response.
AnswerRecord(r) ==
    /\ server[r] = "write" /\ written[r] < answer[r]
    /\ client[r] = "read" /\ back[r] < Limit
    /\ LET n == Min({RecordSize, answer[r] - written[r]}) IN
          /\ written' = [written EXCEPT ![r] = @ + n]
          /\ back' = [back EXCEPT ![r] = Min({Limit, @ + n})]
    /\ UNCHANGED <<registry, rpc, client, server, payload, sent, got, answer, runs, late,
                   routeErr, response, events>>

\* Write returns and response is assigned, or the client has closed the pipe.
ServerWritten(r) ==
    /\ server[r] = "write"
    /\ \/ /\ written[r] = answer[r]
          /\ ServerTo(r, "closed")
          /\ response' = [response EXCEPT ![r] = answer[r]]
          /\ UNCHANGED routeErr
       \/ /\ written[r] < answer[r] /\ client[r] = "closed"
          /\ ServerFails(r) /\ UNCHANGED response
    /\ UNCHANGED <<registry, rpc, client, pipe, runs, late, events>>

\* Mutant: a pipe that ends without close_notify is an error to the client.
ClientReadEndsStrict(r) ==
    /\ client[r] = "read"
    /\ \/ back[r] = Limit /\ ClientTo(r, "closed") /\ UNCHANGED routeErr
       \/ back[r] < Limit /\ server[r] = "closed" /\ ClientFails(r)
    /\ response' = [response EXCEPT ![r] = back[r]]
    /\ UNCHANGED <<registry, rpc, server, pipe, runs, late, events>>

\* The client's ReadAll ends at the limit or with the pipe; response is assigned.
ClientReadEnds(r) ==
    /\ client[r] = "read" /\ (back[r] = Limit \/ server[r] = "closed")
    /\ ClientTo(r, "closed")
    /\ response' = [response EXCEPT ![r] = back[r]]
    /\ UNCHANGED <<registry, rpc, server, pipe, runs, late, routeErr, events>>

\* A deadline of 10 s passes while an end is in an I/O operation.
ClientTimeout(r) ==
    /\ client[r] \in {"handshake", "write", "read"}
    /\ ClientFails(r)
    /\ late' = [late EXCEPT ![r] = TRUE]
    /\ UNCHANGED <<registry, rpc, server, pipe, runs, response, events>>

ServerTimeout(r) ==
    /\ server[r] \in {"handshake", "read", "write"}
    /\ ServerFails(r)
    /\ late' = [late EXCEPT ![r] = TRUE]
    /\ UNCHANGED <<registry, rpc, client, pipe, runs, response, events>>

-----------------------------------------------------------------------------
\* Mutant: handlerDone is closed only where the server goroutine succeeds.
ReturnIfHandled(r) ==
    /\ rpc[r] = "pipe" /\ client[r] = "closed" /\ server[r] = "closed" /\ ~routeErr[r]
    /\ Goto(r, "ok")
    /\ events' = [events EXCEPT ![r] = @ \cup {"allow"}]
    /\ UNCHANGED <<registry, routeVars>>

\* The client function has returned and handlerDone is closed: report and return.
Return(r) ==
    /\ rpc[r] = "pipe" /\ client[r] = "closed" /\ server[r] = "closed"
    /\ Goto(r, IF routeErr[r] THEN "error" ELSE "ok")
    /\ events' = [events EXCEPT ![r] = @ \cup {IF routeErr[r] THEN "deny" ELSE "allow"}]
    /\ UNCHANGED <<registry, routeVars>>

CallerStep(r) ==
    \/ LookupSender(r) \/ LookupDestination(r) \/ CheckACL(r) \/ LookupHandler(r)
    \/ Return(r)

ClientStep(r) ==
    \/ ClientHandshake(r) \/ SendRecord(r) \/ ClientWritten(r) \/ CloseWrite(r)
    \/ ClientReadEnds(r) \/ ClientTimeout(r)

ServerStep(r) ==
    \/ ServerHandshake(r) \/ ServerReadEnds(r) \/ CallHandler(r) \/ HandlerReturns(r)
    \/ AnswerRecord(r) \/ ServerWritten(r) \/ ServerTimeout(r)

Next ==
    \/ \E a \in Agents : Register(a) \/ Deregister(a) \/ Expire(a) \/ RegisterHandler(a)
    \/ PruneExpired \/ ReloadPolicy
    \/ \E r \in Routes : CallerStep(r) \/ ClientStep(r) \/ ServerStep(r)

(***************************************************************************)
(* Every I/O ends, at its deadline if not before; handlers have none, and  *)
(* are assumed to return.                                                  *)
(***************************************************************************)
Spec ==
    /\ Init /\ [][Next]_vars
    /\ \A r \in Routes : /\ WF_vars(CallerStep(r))
                         /\ WF_vars(ClientStep(r)) /\ WF_vars(ServerStep(r))

-----------------------------------------------------------------------------
(***************************************************************************)
(* Properties                                                              *)
(***************************************************************************)

\* Every variable of AgentRegistry (registry.go:191-195), AgentRouter and RouteContext
\* (router.go:32-37, 102-106) has its type, and neither side reads beyond the limit.
TypeOK ==
    /\ agents \subseteq Agents \ fresh /\ expired \subseteq Agents \ fresh
    /\ handlers \subseteq Agents /\ policy \in Policies
    /\ \A r \in Routes :
          /\ rpc[r] \in {"new", "destination", "acl", "handler", "pipe", "ok", "error"}
          /\ client[r] \in {"off", "handshake", "write", "closeWrite", "read", "closed"}
          /\ server[r] \in {"off", "handshake", "read", "handle", "running", "write",
                            "closed"}
          /\ sent[r] \in 0..payload[r] /\ answer[r] \in -1..MaxLength
          /\ written[r] \in 0..Max({0, answer[r]})
          /\ got[r] \in 0..Limit /\ back[r] \in 0..Limit
          /\ response[r] \in -1..MaxLength

\* A route that succeeds was handled, once, by a handler that returned no error; the
\* handler saw the whole payload and the caller gets the whole response, as far as
\* both are within the limit; and an allow is all that was reported
\* (router.go:131-150, 177-208).
SuccessMeansHandled ==
    \A r \in Routes :
        rpc[r] = "ok" =>
            /\ runs[r] = 1 /\ answer[r] >= 0
            /\ got[r] = Min({Limit, payload[r]})
            /\ answer[r] <= Limit => response[r] = answer[r]
            /\ events[r] = {"allow"}

\* A route that got as far as the handshake fails only for a reason: the sender's
\* certificate has expired, its handler failed, a deadline passed, or payload or
\* response exceed the limit; and a denial is reported (router.go:116-149, 172-200).
FailureHasCause ==
    \A r \in Routes :
        rpc[r] = "error" /\ client[r] # "off" =>
            /\ \/ From[r] \in expired \/ late[r] \/ answer[r] = -1
               \/ payload[r] > Limit \/ answer[r] > Limit
            /\ events[r] = {"deny"}

\* RouteContext returns (router.go:122, 168, 194), also when client and server wait
\* for each other to read.
RouteReturns == \A r \in Routes : (rpc[r] = "pipe") ~> (rpc[r] \in {"ok", "error"})

\* router.go:182: "Signal EOF to server so it can read the full payload"; router.go:9-10:
\* "returns the decrypted response payload from the destination agent's handler".
SuccessIsComplete ==
    \A r \in Routes : rpc[r] = "ok" => got[r] = payload[r] /\ response[r] = answer[r]

=============================================================================

------------------------------- MODULE Egress --------------------------------
(***************************************************************************)
(* The egress proxy of egress/proxy.go behind the hot-reloaded allowlist   *)
(* of egress/allowlist.go.  AllowlistRouter loads and polls its file with  *)
(* the code HotReload models, so that module is extended: routes are the   *)
(* domains and CIDR blocks in force, installed together.  A caller sends   *)
(* one request after another through RoundTrip; requests share nothing but *)
(* the allowlist and the atomic counters.                                  *)
(*                                                                         *)
(* The resolver and the destination are external.                          *)
(***************************************************************************)
EXTENDS HotReload, DLP

CONSTANTS
    Names, Addrs,   \* domain names and IP addresses
    Hosts,          \* those that occur in the URLs of requests
    Covers,         \* Covers[n]: the names equal to n or with n as a suffix after a dot
    Domains, Cidrs, \* per policy: the names it lists, the addresses its blocks contain
    Answers,        \* Answers[n]: the sets of addresses a lookup of n may return
    Bodies,         \* the request bodies
    Cap,            \* the 10 MiB of the LimitReader, in pieces
    Signer          \* the proxy has a key to sign with

ASSUME EgressAssumption ==
    /\ Names \cap Addrs = {} /\ Hosts \subseteq Names \cup Addrs /\ Hosts # {}
    /\ Covers \in [Names -> SUBSET Names]
    /\ Domains \in [Policies -> SUBSET Names] /\ Cidrs \in [Policies -> SUBSET Addrs]
    /\ Answers \in [Names -> SUBSET SUBSET Addrs]
    /\ \A b \in Bodies : b \in Seq(Pieces) /\ Delimited(b)
    /\ Cap \in Nat /\ Signer \in BOOLEAN

VARIABLES
    at,       \* where RoundTrip stands; "idle" between two calls
    host,     \* the host of the request, or of the last one
    seen,     \* the domains and blocks IsAllowed read, as the policy they are from
    payload,  \* bodyBytes, from Scrub on
    headers,  \* what outReq carries: the attested body and the number of redactions
    tally,    \* what this call added to the counters
    audit,    \* the events this call submitted
    arrived   \* the bodies the destination may have received in this call

call == <<at, host, seen, payload, headers, tally, audit, arrived>>

egress == <<vars, call>>

NoHeaders == [sig |-> << >>, redactions |-> 0]

NoTally == [allowed |-> 0, blocked |-> 0, findings |-> 0]

EgressInit ==
    /\ Init
    /\ at = "idle" /\ seen = Unloaded
    /\ host = CHOOSE h \in Hosts : TRUE
    /\ payload = << >> /\ headers = NoHeaders
    /\ tally = NoTally /\ audit = {} /\ arrived = {}

-----------------------------------------------------------------------------
(***************************************************************************)
(* IsAllowed: an address is looked for in the blocks, a name among the     *)
(* domains and their subdomains; a name that is not there is resolved, and *)
(* one address in a block is enough.                                       *)
(***************************************************************************)
Listed(p, h) == \E d \in Domains[p] : h \in Covers[d]

Lists(p, h) == IF h \in Addrs THEN h \in Cidrs[p] ELSE Listed(p, h)

\* Mutant: the verdict on a host is remembered until another one is asked for.
CallRemembered(h) ==
    /\ at = "idle" /\ life = "serving"
    /\ host' = h
    /\ LET p == IF h = host /\ seen # Unloaded THEN seen ELSE routes IN
          /\ seen' = p
          /\ at' = IF Lists(p, h) THEN "admitted" ELSE IF h \in Names THEN "lookup" ELSE "refused"
    /\ payload' = << >> /\ headers' = NoHeaders
    /\ tally' = NoTally /\ audit' = {} /\ arrived' = {}
    /\ UNCHANGED vars

\* A request arrives.  The allowlist is in use once main has it (main.go:500-512).
Call(h) ==
    /\ at = "idle" /\ life = "serving"
    /\ host' = h /\ seen' = routes
    /\ at' = IF Lists(routes, h) THEN "admitted" ELSE IF h \in Names THEN "lookup" ELSE "refused"
    /\ payload' = << >> /\ headers' = NoHeaders
    /\ tally' = NoTally /\ audit' = {} /\ arrived' = {}
    /\ UNCHANGED vars

\* LookupIP fails or returns some addresses.
Lookup ==
    /\ at = "lookup"
    /\ \E ips \in Answers[host] \cup {{}} :
          at' = IF ips \cap Cidrs[seen] # {} THEN "admitted" ELSE "refused"
    /\ UNCHANGED <<vars, host, seen, payload, headers, tally, audit, arrived>>

\* Stage 1 ends the call.
Refuse ==
    /\ at = "refused"
    /\ at' = "idle"
    /\ tally' = [tally EXCEPT !.blocked = 1]
    /\ audit' = audit \cup {"block"}
    /\ UNCHANGED <<vars, host, seen, payload, headers, arrived>>

(***************************************************************************)
(* Stages 2 to 4: read the body up to the cap (the rest is not sent),      *)
(* scrub it, count and report the findings, sign what is left.  A body     *)
(* that cannot be read, or a failing signature, ends the call with an      *)
(* error and no event of its own.                                          *)
(***************************************************************************)
Unreadable ==
    /\ at = "admitted"
    /\ at' = "idle"
    /\ UNCHANGED <<vars, host, seen, payload, headers, tally, audit, arrived>>

Prepare ==
    /\ at = "admitted"
    /\ \E b \in Bodies :
          LET s == Scrub(SubSeq(b, 1, IF Len(b) > Cap THEN Cap ELSE Len(b)))
              found == Len(s.findings)
          IN  /\ payload' = s.body
              /\ tally' = [tally EXCEPT !.findings = found]
              /\ audit' = IF found > 0 THEN audit \cup {"findings"} ELSE audit
              /\ \/ /\ at' = "forward"
                    /\ headers' = [sig |-> IF Signer THEN s.body ELSE << >>,
                                   redactions |-> found]
                 \/ /\ Signer /\ Len(s.body) > 0
                    /\ at' = "idle"
                    /\ UNCHANGED headers
    /\ UNCHANGED <<vars, host, seen, arrived>>

(***************************************************************************)
(* Stage 5: forward the clone.  A request that fails may have arrived.     *)
(***************************************************************************)
Answered ==
    /\ at = "forward"
    /\ at' = "idle"
    /\ arrived' = {payload}
    /\ tally' = [tally EXCEPT !.allowed = 1]
    /\ audit' = audit \cup {"success"}
    /\ UNCHANGED <<vars, host, seen, payload, headers>>

\* Mutant: a failing request is not reported.
ForwardFailedQuietly ==
    /\ at = "forward"
    /\ at' = "idle"
    /\ arrived' \in {{}, {payload}}
    /\ UNCHANGED <<vars, host, seen, payload, headers, tally, audit>>

ForwardFailed ==
    /\ at = "forward"
    /\ at' = "idle"
    /\ arrived' \in {{}, {payload}}
    /\ audit' = audit \cup {"failure"}
    /\ UNCHANGED <<vars, host, seen, payload, headers, tally>>

CallStep == Lookup \/ Refuse \/ Unreadable \/ Prepare \/ Answered \/ ForwardFailed

\* A step of AllowlistRouter.load or of its poller.
Reload == LoadStep /\ UNCHANGED call

EgressNext ==
    \/ Next /\ UNCHANGED call
    \/ \E h \in Hosts : Call(h)
    \/ CallStep

(***************************************************************************)
(* As in HotReload; and a call ends, because the client NewEgressClient    *)
(* makes has a timeout of 30 s, which also cancels the forwarded request.  *)
(***************************************************************************)
EgressSpec ==
    /\ EgressInit /\ [][EgressNext]_egress
    /\ WF_egress(Reload)
    /\ SF_egress(FileIsStatted /\ UNCHANGED call)
    /\ SF_egress(FileIsRead /\ UNCHANGED call)
    /\ WF_egress(CallStep)

-----------------------------------------------------------------------------
(***************************************************************************)
(* Properties                                                              *)
(***************************************************************************)

\* Every variable of the loader and of a call of RoundTrip (proxy.go:80-187) has its
\* type.
EgressTypeOK ==
    /\ TypeOK
    /\ at \in {"idle", "lookup", "refused", "admitted", "forward"}
    /\ host \in Hosts /\ seen \in Policies \cup {Unloaded}
    /\ tally \in [allowed : 0..1, blocked : 0..1, findings : Nat]
    /\ audit \subseteq {"block", "findings", "success", "failure"}

\* A call that has returned is accounted for (proxy.go:88-186): whatever may have
\* arrived went to a host the allowlist it read can admit, is scrubbed, is what the
\* signature and the redaction count in its headers were made from, and has an event
\* that says so, and findings have theirs although the call failed.
CanAdmit(p, h) ==
    \/ Lists(p, h)
    \/ h \in Names /\ \E ips \in Answers[h] : ips \cap Cidrs[p] # {}

AccountedFor ==
    at = "idle" =>
        /\ \A b \in arrived :
              /\ CanAdmit(seen, host)
              /\ Signer => headers.sig = b
              /\ headers.redactions = tally.findings
              /\ audit \cap {"success", "failure"} # {}
        /\ tally.findings > 0 <=> "findings" \in audit
        /\ tally.blocked + tally.allowed <= 1
        /\ tally.blocked = 1 => arrived = {} /\ tally.findings = 0

\* The pipeline the proxy is armed with (main.go:505-509) is exact on every payload, as
\* ScrubIsExact states; it keeps no state, so this is said of the start alone.
PipelineIsExact == EgressInit => ScrubIsExact

\* A host that is taken off the list goes dark: once operators leave the file alone,
\* there comes a time after which no request is forwarded to a host its policy cannot
\* admit, although calls under way hold what IsAllowed read before (allowlist.go:85-88,
\* proxy.go:88, 165), unless the allowlist is shut down or never came up.
RevokedHostGoesDark ==
    <>[](life = "serving" /\ ~stopCh /\ exists /\ content \in Policies /\ at = "forward"
            => CanAdmit(content, host))

=============================================================================

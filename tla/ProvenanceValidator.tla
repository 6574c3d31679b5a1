------------------------- MODULE ProvenanceValidator -------------------------
(***************************************************************************)
(* The attestation gate of the gateway: the timestamp and nonce checks of  *)
(* handleIntercept (main.go) and ProvenanceValidator.Verify with its       *)
(* NonceCache (validator/validator.go).                                    *)
(*                                                                         *)
(* Handlers are goroutines serving requests concurrently.  They share the  *)
(* nonce cache, which its mutex makes atomic, and the wall clock.  A       *)
(* handler reads the clock twice, once for the drift check and once inside *)
(* Register, and time passes in between.  A manifest is what its client    *)
(* signed: a nonce and a timestamp; sig says whether the signature that    *)
(* came with it is a valid one.                                            *)
(***************************************************************************)
EXTENDS Integers, Sequences

CONSTANTS
    Handlers,    \* goroutines serving /api/v1/intercept
    Nonces,      \* the non-empty nonces
    EmptyNonce,  \* the empty string
    Timestamps,  \* the timestamps manifests carry
    TTL,         \* life of a nonce in the cache
    Drift,       \* allowed difference between a timestamp and the clock
    Half,        \* 2^63: the clock and timestamps are int64
    MaxTime      \* bound on the clock (a bound of the model only)

ASSUME ConstantsAssumption ==
    /\ EmptyNonce \notin Nonces
    /\ Half \in Nat \ {0}
    /\ Timestamps \subseteq -Half..Half - 1
    /\ TTL \in Nat \ {0}
    /\ Drift \in Nat
    /\ MaxTime \in Nat
    /\ MaxTime + Drift < Half

Manifests == [nonce : Nonces \cup {EmptyNonce}, timestamp : Timestamps]

Requests == [manifest : Manifests, sig : BOOLEAN]

VARIABLES
    clock,     \* time.Now()
    nonces,    \* NonceCache.nonces: nonce -> expiry
    pc,        \* where each handler stands
    req,       \* the request each handler serves
    slot,      \* history: the entry of regs this handler's Register made
    regs,      \* history: every Register that returned true, in order
    accepted   \* history: the entries of regs whose Verify returned nil

vars == <<clock, nonces, pc, req, slot, regs, accepted>>

NoRequest == [manifest |-> [nonce |-> EmptyNonce, timestamp |-> 0], sig |-> FALSE]

Init ==
    /\ clock = 0
    /\ nonces = << >>
    /\ pc = [h \in Handlers |-> "idle"]
    /\ req = [h \in Handlers |-> NoRequest]
    /\ slot = [h \in Handlers |-> 0]
    /\ regs = << >>
    /\ accepted = {}

Goto(h, l) == pc' = [pc EXCEPT ![h] = l]

(***************************************************************************)
(* The clock ticks.                                                        *)
(***************************************************************************)
Tick ==
    /\ clock < MaxTime
    /\ clock' = clock + 1
    /\ UNCHANGED <<nonces, pc, req, slot, regs, accepted>>

(***************************************************************************)
(* A request arrives and its manifest parses.                              *)
(***************************************************************************)
Receive(h) ==
    /\ pc[h] = "idle"
    /\ \E r \in Requests : req' = [req EXCEPT ![h] = r]
    /\ Goto(h, "check")
    /\ UNCHANGED <<clock, nonces, slot, regs, accepted>>

(***************************************************************************)
(* The empty-nonce and drift checks: now - ts > Drift or ts - now > Drift  *)
(* answers 400.  Both differences are int64 and wrap around.               *)
(***************************************************************************)
Wrap(x) == ((x + Half) % (2 * Half)) - Half

\* Mutant: only timestamps in the past are compared.
WithinDriftPast(ts) == Wrap(clock - ts) <= Drift

WithinDrift(ts) == Wrap(clock - ts) <= Drift /\ Wrap(ts - clock) <= Drift

CheckManifest(h) ==
    /\ pc[h] = "check"
    /\ LET m == req[h].manifest IN
       Goto(h, IF m.nonce # EmptyNonce /\ WithinDrift(m.timestamp) THEN "verify"
                                                                   ELSE "reject")
    /\ UNCHANGED <<clock, nonces, req, slot, regs, accepted>>

\* Mutant: Register does not look at the expiry.
LiveForever(n) == n \in DOMAIN nonces

(***************************************************************************)
(* NonceCache.Register, one critical section of nc.mu.  A nonce is fresh   *)
(* when it is not in the cache or not before its expiry; a fresh nonce is  *)
(* stored with a new expiry, before the signature has been looked at.      *)
(***************************************************************************)
Live(n) == n \in DOMAIN nonces /\ clock < nonces[n]

\* Mutant: Register does not look the nonce up.
FreshUnchecked(n) == n # EmptyNonce

Fresh(n) == n # EmptyNonce /\ ~Live(n)

\* Mutant: the expiry is computed with the wrong sign.
StoredBackdated(n) ==
    [k \in DOMAIN nonces \cup {n} |-> IF k = n THEN clock - TTL ELSE nonces[k]]

Stored(n) == [k \in DOMAIN nonces \cup {n} |-> IF k = n THEN clock + TTL ELSE nonces[k]]

RegisterFresh(h) ==
    /\ pc[h] = "verify"
    /\ LET n == req[h].manifest.nonce IN
       /\ Fresh(n)
       /\ nonces' = Stored(n)
       /\ regs' = Append(regs, [nonce |-> n, at |-> clock, manifest |-> req[h].manifest])
       /\ slot' = [slot EXCEPT ![h] = Len(regs) + 1]
    /\ Goto(h, "signature")
    /\ UNCHANGED <<clock, req, accepted>>

RegisterReplay(h) ==
    /\ pc[h] = "verify"
    /\ ~Fresh(req[h].manifest.nonce)
    /\ Goto(h, "reject")
    /\ UNCHANGED <<clock, nonces, req, slot, regs, accepted>>

(***************************************************************************)
(* The rest of Verify: decoding, ASN.1 and ecdsa.Verify, which touch no    *)
(* shared state.  A failure leaves the nonce in the cache.                 *)
(***************************************************************************)
CheckSignature(h) ==
    /\ pc[h] = "signature"
    /\ \/ /\ req[h].sig
          /\ accepted' = accepted \cup {slot[h]}
          /\ Goto(h, "accept")
       \/ /\ ~req[h].sig
          /\ Goto(h, "reject")
          /\ UNCHANGED accepted
    /\ UNCHANGED <<clock, nonces, req, slot, regs>>

(***************************************************************************)
(* The handler answers and its goroutine serves the next request.          *)
(***************************************************************************)
Respond(h) ==
    /\ pc[h] \in {"accept", "reject"}
    /\ Goto(h, "idle")
    /\ req' = [req EXCEPT ![h] = NoRequest]
    /\ slot' = [slot EXCEPT ![h] = 0]
    /\ UNCHANGED <<clock, nonces, regs, accepted>>

\* Mutant: now.Before(exp) for now.After(exp).
ExpiredSwapped(n) == clock < nonces[n]

(***************************************************************************)
(* One tick of startCleanup: drop every entry the clock is after.          *)
(***************************************************************************)
Expired(n) == clock > nonces[n]

\* Mutant: the cleanup keeps what it should delete.
CleanupInverted ==
    /\ \E n \in DOMAIN nonces : Expired(n)
    /\ nonces' = [n \in {k \in DOMAIN nonces : Expired(k)} |-> nonces[n]]
    /\ UNCHANGED <<clock, pc, req, slot, regs, accepted>>

Cleanup ==
    /\ \E n \in DOMAIN nonces : Expired(n)
    /\ nonces' = [n \in {k \in DOMAIN nonces : ~Expired(k)} |-> nonces[n]]
    /\ UNCHANGED <<clock, pc, req, slot, regs, accepted>>

Next ==
    \/ Tick
    \/ Cleanup
    \/ \E h \in Handlers :
          \/ Receive(h)
          \/ CheckManifest(h)
          \/ RegisterFresh(h)
          \/ RegisterReplay(h)
          \/ CheckSignature(h)
          \/ Respond(h)

(***************************************************************************)
(* The cleanup ticker never stops, so an enabled cleanup is eventually     *)
(* run.  Clients need not send and the clock of the model is bounded, so   *)
(* nothing else is fair.                                                   *)
(***************************************************************************)
Spec == Init /\ [][Next]_vars /\ WF_vars(Cleanup)

-----------------------------------------------------------------------------
(***************************************************************************)
(* Properties                                                              *)
(***************************************************************************)

\* Every variable has its type: the cache maps nonces to expiries (validator.go:19-23).
TypeOK ==
    /\ clock \in 0..MaxTime
    /\ DOMAIN nonces \subseteq Nonces
    /\ \A n \in DOMAIN nonces : nonces[n] \in Nat
    /\ pc \in [Handlers -> {"idle", "check", "verify", "signature", "accept", "reject"}]
    /\ req \in [Handlers -> Requests \cup {NoRequest}]
    /\ slot \in [Handlers -> Nat]
    /\ regs \in Seq([nonce : Nonces, at : Nat, manifest : Manifests])
    /\ accepted \subseteq 1..Len(regs)

\* Of two requests with the same nonce that Verify let through, the nonce of the
\* later one was registered at least TTL after that of the earlier one
\* (validator.go:35-50), however handlers, clock and cleanup interleave.
SingleUseWithinTTL ==
    \A i, j \in accepted :
        i < j /\ regs[i].nonce = regs[j].nonce => regs[j].at >= regs[i].at + TTL

\* The cache forgets no nonce early: for every registration younger than TTL the
\* nonce is still in the cache with an expiry that covers it, whatever Register
\* has overwritten and the cleanup has removed since (validator.go:48, 57-61).
CacheRemembers ==
    \A i \in 1..Len(regs) :
        clock < regs[i].at + TTL =>
            /\ regs[i].nonce \in DOMAIN nonces
            /\ nonces[regs[i].nonce] >= regs[i].at + TTL

\* Two Verify calls never get through on one registration: every handler past
\* Register holds a registration of its own, for the nonce of the manifest it
\* then checks, that no answered request has used (validator.go:107-139).
OwnRegistration ==
    \A h \in Handlers : pc[h] = "signature" =>
        /\ slot[h] \in 1..Len(regs)
        /\ regs[slot[h]].manifest = req[h].manifest
        /\ slot[h] \notin accepted
        /\ \A g \in Handlers : pc[g] = "signature" /\ slot[g] = slot[h] => g = h

\* Register answers false only to a real replay: the nonce was registered less
\* than TTL ago (validator.go:44).  A forgotten cleanup or a stale entry never
\* turns a fresh manifest away.
ReplayVerdictSound ==
    [][\A h \in Handlers :
          pc[h] = "verify" /\ pc'[h] = "reject" =>
             \E i \in 1..Len(regs) :
                /\ regs[i].nonce = req[h].manifest.nonce
                /\ clock < regs[i].at + TTL]_vars

\* The drift check lets no other timestamp through than it is meant to (main.go:222),
\* although one far enough away makes either difference wrap around: it is within
\* Drift of the clock, or exactly half the range of int64 before it, where both
\* differences are the smallest integer.
DriftExact ==
    [][\A h \in Handlers :
          pc[h] = "check" /\ pc'[h] = "verify" =>
             LET ts == req[h].manifest.timestamp IN
             (clock - ts) \in -Drift..Drift \/ clock - ts = Half]_vars

\* The cache does not grow for ever: an entry the clock has passed is removed or
\* renewed (validator.go:52-64).
ExpiredEntriesGo ==
    \A n \in Nonces :
        (n \in DOMAIN nonces /\ Expired(n)) ~> (n \notin DOMAIN nonces \/ ~Expired(n))

\* The inductive invariant behind the theorems of ProvenanceValidatorProofs:
\* registrations, accepted or not, of one nonce are TTL apart; every cache entry
\* stems from a registration; a handler calls Register with a non-empty nonce.
RegistrationsSeparated ==
    \A i, j \in 1..Len(regs) :
        i < j /\ regs[i].nonce = regs[j].nonce => regs[j].at >= regs[i].at + TTL

CacheFromRegistrations ==
    \A n \in DOMAIN nonces :
        \E i \in 1..Len(regs) : regs[i].nonce = n /\ nonces[n] = regs[i].at + TTL

VerifyHasNonce ==
    \A h \in Handlers :
        pc[h] \in {"verify", "signature"} => req[h].manifest.nonce \in Nonces

IndInv ==
    /\ TypeOK
    /\ CacheRemembers
    /\ RegistrationsSeparated
    /\ CacheFromRegistrations
    /\ VerifyHasNonce
    /\ OwnRegistration

\* What testdata.md:54 says: "If a client attempts to reuse a nonce, it is
\* immediately rejected."  No two accepted requests carry the same manifest.
ManifestAcceptedOnce ==
    \A i, j \in accepted : i # j => regs[i].manifest # regs[j].manifest

=============================================================================

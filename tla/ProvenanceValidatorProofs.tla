--------------------- MODULE ProvenanceValidatorProofs ---------------------
(***************************************************************************)
(* Theorems about ProvenanceValidator, for any number of handlers and      *)
(* nonces and every TTL, drift and clock bound.                            *)
(***************************************************************************)
EXTENDS ProvenanceValidator, SequenceTheorems, TLAPS

\* The cache starts empty and no handler serves a request.
LEMMA InitIndInv == ASSUME Init PROVE IndInv
<1>1. NoRequest.manifest.nonce = EmptyNonce
  BY DEF NoRequest
<1> QED
  BY <1>1, ConstantsAssumption
  DEF Init, IndInv, TypeOK, CacheRemembers, RegistrationsSeparated,
      CacheFromRegistrations, VerifyHasNonce, OwnRegistration, Requests, Manifests

\* Every recorded registration carries a time.
LEMMA RegsTyped ==
  ASSUME TypeOK
  PROVE  /\ Len(regs) \in Nat
         /\ \A i \in 1..Len(regs) : regs[i].at \in Nat /\ regs[i].nonce \in Nonces
<1> DEFINE Reg == [nonce : Nonces, at : Nat, manifest : Manifests]
<1>1. regs \in Seq(Reg)
  BY DEF TypeOK
<1>2. \A i \in 1..Len(regs) : regs[i] \in Reg
  BY <1>1, ElementOfSeq
<1> QED BY <1>1, <1>2

\* A registration of a nonce that is not live is TTL after every earlier one,
\* and storing the nonce covers the new registration (NonceCache.Register).
LEMMA RegisterFreshIndInv ==
  ASSUME IndInv, NEW h \in Handlers, RegisterFresh(h)
  PROVE  IndInv'
<1> DEFINE n == req[h].manifest.nonce
           r == [nonce |-> n, at |-> clock, manifest |-> req[h].manifest]
           Reg == [nonce : Nonces, at : Nat, manifest : Manifests]
<1>1. n \in Nonces
  BY DEF IndInv, VerifyHasNonce, RegisterFresh
<1>2. r \in Reg /\ clock \in Nat
  <2>1. req[h].manifest \in Manifests
    BY <1>1, ConstantsAssumption DEF IndInv, TypeOK, Requests, NoRequest
  <2> QED BY <1>1, <2>1 DEF IndInv, TypeOK
<1>3. /\ regs \in Seq(Reg)
      /\ regs' = Append(regs, r)
      /\ regs' \in Seq(Reg)
      /\ Len(regs') = Len(regs) + 1
      /\ \A i \in 1..Len(regs) : regs'[i] = regs[i]
      /\ regs'[Len(regs) + 1] = r
      /\ Len(regs) \in Nat
  BY <1>2 DEF RegisterFresh, IndInv, TypeOK
<1>4. /\ DOMAIN nonces' = DOMAIN nonces \cup {n}
      /\ nonces'[n] = clock + TTL
      /\ \A k \in DOMAIN nonces : k # n => nonces'[k] = nonces[k]
  BY DEF RegisterFresh, Stored
<1>5. \A i \in 1..Len(regs) : regs[i].nonce = n => clock >= regs[i].at + TTL
  <2> SUFFICES ASSUME NEW i \in 1..Len(regs), regs[i].nonce = n,
                      clock < regs[i].at + TTL
               PROVE  FALSE
    BY <1>2, RegsTyped, ConstantsAssumption DEF IndInv
  <2>1. n \in DOMAIN nonces /\ nonces[n] >= regs[i].at + TTL
    BY DEF IndInv, CacheRemembers
  <2>2. ~(clock < nonces[n])
    BY <2>1 DEF RegisterFresh, Fresh, Live
  <2>3. regs[i].at \in Nat /\ nonces[n] \in Nat
    BY RegsTyped, <2>1 DEF IndInv, TypeOK
  <2> QED BY <2>1, <2>2, <2>3, <1>2, ConstantsAssumption
<1>6. TypeOK'
  <2>1. slot' \in [Handlers -> Nat]
    BY <1>3 DEF RegisterFresh, IndInv, TypeOK
  <2>2. pc' \in [Handlers -> {"idle", "check", "verify", "signature", "accept", "reject"}]
    BY DEF RegisterFresh, Goto, IndInv, TypeOK
  <2>3. DOMAIN nonces' \subseteq Nonces /\ \A k \in DOMAIN nonces' : nonces'[k] \in Nat
    BY <1>1, <1>2, <1>4, ConstantsAssumption DEF IndInv, TypeOK
  <2>4. accepted' \subseteq 1..Len(regs')
    BY <1>3 DEF RegisterFresh, IndInv, TypeOK
  <2> QED BY <1>3, <2>1, <2>2, <2>3, <2>4 DEF RegisterFresh, IndInv, TypeOK
<1>7. CacheRemembers'
  <2> SUFFICES ASSUME NEW i \in 1..Len(regs'), clock < regs'[i].at + TTL
               PROVE  /\ regs'[i].nonce \in DOMAIN nonces'
                      /\ nonces'[regs'[i].nonce] >= regs'[i].at + TTL
    BY DEF CacheRemembers, RegisterFresh
  <2>1. CASE i = Len(regs) + 1
    BY <2>1, <1>2, <1>3, <1>4, ConstantsAssumption
  <2>2. CASE i \in 1..Len(regs)
    <3>1. regs[i].nonce # n
      BY <2>2, <1>3, <1>5, <1>2, RegsTyped, ConstantsAssumption DEF IndInv
    <3>2. regs[i].nonce \in DOMAIN nonces /\ nonces[regs[i].nonce] >= regs[i].at + TTL
      BY <2>2, <1>3 DEF IndInv, CacheRemembers
    <3> QED BY <2>2, <3>1, <3>2, <1>3, <1>4
  <2> QED BY <1>3, <2>1, <2>2
<1>8. RegistrationsSeparated'
  <2> SUFFICES ASSUME NEW i \in 1..Len(regs'), NEW j \in 1..Len(regs'),
                      i < j, regs'[i].nonce = regs'[j].nonce
               PROVE  regs'[j].at >= regs'[i].at + TTL
    BY DEF RegistrationsSeparated
  <2>1. i \in 1..Len(regs)
    BY <1>3
  <2>2. CASE j = Len(regs) + 1
    BY <2>1, <2>2, <1>3, <1>5
  <2>3. CASE j \in 1..Len(regs)
    BY <2>1, <2>3, <1>3 DEF IndInv, RegistrationsSeparated
  <2> QED BY <1>3, <2>2, <2>3
<1>9. CacheFromRegistrations'
  <2> SUFFICES ASSUME NEW k \in DOMAIN nonces'
               PROVE  \E i \in 1..Len(regs') :
                         regs'[i].nonce = k /\ nonces'[k] = regs'[i].at + TTL
    BY DEF CacheFromRegistrations
  <2>1. CASE k = n
    <3>1. Len(regs) + 1 \in 1..Len(regs')
      BY <1>3
    <3> QED BY <2>1, <3>1, <1>3, <1>4
  <2>2. CASE k # n
    <3>1. PICK i \in 1..Len(regs) : regs[i].nonce = k /\ nonces[k] = regs[i].at + TTL
      BY <2>2, <1>4 DEF IndInv, CacheFromRegistrations
    <3>2. i \in 1..Len(regs')
      BY <1>3
    <3> QED BY <2>2, <3>1, <3>2, <1>3, <1>4
  <2> QED BY <2>1, <2>2
<1>10. VerifyHasNonce'
  BY DEF VerifyHasNonce, IndInv, TypeOK, RegisterFresh, Goto
<1>11. OwnRegistration'
  <2> SUFFICES ASSUME NEW g \in Handlers, pc'[g] = "signature"
               PROVE  /\ slot'[g] \in 1..Len(regs')
                      /\ regs'[slot'[g]].manifest = req[g].manifest
                      /\ slot'[g] \notin accepted
                      /\ \A k \in Handlers : pc'[k] = "signature" /\ slot'[k] = slot'[g] => k = g
    BY DEF OwnRegistration, RegisterFresh
  <2>1. /\ slot'[h] = Len(regs) + 1
        /\ \A k \in Handlers : k # h => slot'[k] = slot[k] /\ pc'[k] = pc[k]
    BY DEF RegisterFresh, Goto, IndInv, TypeOK
  <2>2. \A k \in Handlers : k # h /\ pc'[k] = "signature" => slot'[k] \in 1..Len(regs)
    BY <2>1 DEF IndInv, OwnRegistration
  <2>3. accepted \subseteq 1..Len(regs)
    BY DEF IndInv, TypeOK
  <2>4. CASE g = h
    BY <2>1, <2>2, <2>3, <2>4, <1>3
  <2>5. CASE g # h
    <3>1. /\ slot[g] \in 1..Len(regs)
          /\ regs[slot[g]].manifest = req[g].manifest
          /\ slot[g] \notin accepted
          /\ \A k \in Handlers : pc[k] = "signature" /\ slot[k] = slot[g] => k = g
      BY <2>1, <2>5 DEF IndInv, OwnRegistration
    <3>2. slot'[h] # slot'[g]
      BY <2>1, <2>5, <3>1, <1>3
    <3>3. slot'[g] = slot[g] /\ regs'[slot[g]] = regs[slot[g]] /\ slot[g] \in 1..Len(regs')
      BY <2>1, <2>5, <3>1, <1>3
    <3>4. \A k \in Handlers : pc'[k] = "signature" /\ slot'[k] = slot'[g] => k = g
      BY <2>1, <2>5, <3>1, <3>2
    <3> QED BY <3>1, <3>3, <3>4
  <2> QED BY <2>4, <2>5
<1> QED BY <1>6, <1>7, <1>8, <1>9, <1>10, <1>11 DEF IndInv

\* The cleanup removes only entries that no young registration needs
\* (NonceCache.startCleanup).
LEMMA CleanupIndInv == ASSUME IndInv, Cleanup PROVE IndInv'
<1>1. /\ DOMAIN nonces' = {k \in DOMAIN nonces : ~Expired(k)}
      /\ \A k \in DOMAIN nonces' : nonces'[k] = nonces[k]
  BY DEF Cleanup
<1>2. TypeOK'
  BY <1>1 DEF Cleanup, IndInv, TypeOK
<1>3. CacheRemembers'
  <2> SUFFICES ASSUME NEW i \in 1..Len(regs), clock < regs[i].at + TTL
               PROVE  /\ regs[i].nonce \in DOMAIN nonces'
                      /\ nonces'[regs[i].nonce] >= regs[i].at + TTL
    BY DEF CacheRemembers, Cleanup
  <2>1. regs[i].nonce \in DOMAIN nonces /\ nonces[regs[i].nonce] >= regs[i].at + TTL
    BY DEF IndInv, CacheRemembers
  <2>2. clock \in Nat /\ nonces[regs[i].nonce] \in Nat /\ regs[i].at \in Nat
    BY <2>1, RegsTyped DEF IndInv, TypeOK
  <2>3. ~Expired(regs[i].nonce)
    BY <2>1, <2>2, ConstantsAssumption DEF Expired
  <2> QED BY <1>1, <2>1, <2>3
<1>4. CacheFromRegistrations'
  BY <1>1 DEF Cleanup, IndInv, CacheFromRegistrations
<1>5. RegistrationsSeparated' /\ VerifyHasNonce' /\ OwnRegistration'
  BY DEF Cleanup, IndInv, RegistrationsSeparated, VerifyHasNonce, OwnRegistration
<1> QED BY <1>2, <1>3, <1>4, <1>5 DEF IndInv

\* Time only makes registrations older.
LEMMA TickIndInv == ASSUME IndInv, Tick PROVE IndInv'
<1>1. clock \in 0..MaxTime /\ clock' \in 0..MaxTime /\ clock' = clock + 1
  BY ConstantsAssumption DEF Tick, IndInv, TypeOK
<1>2. TypeOK'
  BY <1>1 DEF Tick, IndInv, TypeOK
<1>3. CacheRemembers'
  <2> SUFFICES ASSUME NEW i \in 1..Len(regs), clock' < regs[i].at + TTL
               PROVE  clock < regs[i].at + TTL
    BY DEF CacheRemembers, IndInv, Tick
  <2> QED BY <1>1, RegsTyped, ConstantsAssumption DEF IndInv
<1>4. RegistrationsSeparated' /\ CacheFromRegistrations' /\ VerifyHasNonce' /\ OwnRegistration'
  BY DEF Tick, IndInv, RegistrationsSeparated, CacheFromRegistrations, VerifyHasNonce,
         OwnRegistration
<1> QED BY <1>2, <1>3, <1>4 DEF IndInv

\* The steps that leave clock, cache and registrations alone preserve what
\* IndInv says of them.
LEMMA FrameIndInv ==
  ASSUME IndInv, UNCHANGED <<clock, nonces, regs>>
  PROVE  CacheRemembers' /\ RegistrationsSeparated' /\ CacheFromRegistrations'
  BY DEF IndInv, CacheRemembers, RegistrationsSeparated, CacheFromRegistrations

\* Receiving, checking and answering a request, and the two ways Verify ends.
LEMMA HandlerIndInv ==
  ASSUME IndInv, NEW h \in Handlers,
         \/ Receive(h) \/ CheckManifest(h) \/ RegisterReplay(h)
         \/ CheckSignature(h) \/ Respond(h)
  PROVE  IndInv'
<1> USE DEF Goto
<1>1. CASE Receive(h)
  <2>1. TypeOK' /\ VerifyHasNonce' /\ OwnRegistration'
    BY <1>1 DEF Receive, IndInv, TypeOK, VerifyHasNonce, OwnRegistration
  <2> QED BY <1>1, <2>1, FrameIndInv DEF Receive, IndInv
<1>2. CASE CheckManifest(h)
  <2>1. TypeOK' /\ OwnRegistration'
    BY <1>2 DEF CheckManifest, IndInv, TypeOK, OwnRegistration
  <2>2. VerifyHasNonce'
    BY <1>2 DEF CheckManifest, IndInv, TypeOK, VerifyHasNonce, Requests, Manifests, NoRequest
  <2> QED BY <1>2, <2>1, <2>2, FrameIndInv DEF CheckManifest, IndInv
<1>3. CASE RegisterReplay(h)
  <2>1. TypeOK' /\ VerifyHasNonce' /\ OwnRegistration'
    BY <1>3 DEF RegisterReplay, IndInv, TypeOK, VerifyHasNonce, OwnRegistration
  <2> QED BY <1>3, <2>1, FrameIndInv DEF RegisterReplay, IndInv
<1>4. CASE CheckSignature(h)
  <2>1. slot[h] \in 1..Len(regs)
    BY <1>4 DEF CheckSignature, IndInv, OwnRegistration
  <2>2. TypeOK'
    BY <1>4, <2>1 DEF CheckSignature, IndInv, TypeOK
  <2>3. VerifyHasNonce' /\ OwnRegistration'
    BY <1>4 DEF CheckSignature, IndInv, TypeOK, VerifyHasNonce, OwnRegistration
  <2> QED BY <1>4, <2>2, <2>3, FrameIndInv DEF CheckSignature, IndInv
<1>5. CASE Respond(h)
  <2>1. TypeOK' /\ VerifyHasNonce' /\ OwnRegistration'
    BY <1>5 DEF Respond, IndInv, TypeOK, VerifyHasNonce, OwnRegistration
  <2> QED BY <1>5, <2>1, FrameIndInv DEF Respond, IndInv
<1> QED BY <1>1, <1>2, <1>3, <1>4, <1>5

\* IndInv is an invariant of the specification.
THEOREM Invariance == Spec => []IndInv
<1>1. Init => IndInv
  BY InitIndInv
<1>2. IndInv /\ [Next]_vars => IndInv'
  <2> SUFFICES ASSUME IndInv, [Next]_vars PROVE IndInv'
    OBVIOUS
  <2>1. CASE UNCHANGED vars
    BY <2>1 DEF vars, IndInv, TypeOK, CacheRemembers, RegistrationsSeparated,
                CacheFromRegistrations, VerifyHasNonce, OwnRegistration
  <2>2. CASE Next
    BY <2>2, TickIndInv, CleanupIndInv, RegisterFreshIndInv, HandlerIndInv DEF Next
  <2> QED BY <2>1, <2>2
<1> QED BY <1>1, <1>2, PTL DEF Spec

\* The gate is well typed (ProvenanceValidator and NonceCache, validator.go).
THEOREM TypeCorrect == Spec => []TypeOK
<1>1. IndInv => TypeOK
  BY DEF IndInv
<1> QED BY <1>1, Invariance, PTL

\* For every TTL and any number of concurrent handlers: Verify lets no nonce
\* through twice within TTL (validator.go:35-50, 107-142).
THEOREM NoReplayWithinTTL == Spec => []SingleUseWithinTTL
<1>1. IndInv => SingleUseWithinTTL
  BY DEF IndInv, TypeOK, RegistrationsSeparated, SingleUseWithinTTL
<1> QED BY <1>1, Invariance, PTL

\* The cache never forgets a nonce before its TTL is over (validator.go:48-61).
THEOREM CacheNeverForgetsEarly == Spec => []CacheRemembers
<1>1. IndInv => CacheRemembers
  BY DEF IndInv
<1> QED BY <1>1, Invariance, PTL

\* Every handler past Register holds a registration of its own that no accepted
\* request has used (validator.go:107-139).
THEOREM RegistrationsAreOwned == Spec => []OwnRegistration
<1>1. IndInv => OwnRegistration
  BY DEF IndInv
<1> QED BY <1>1, Invariance, PTL

\* Register refuses a non-empty nonce only when it was registered less than TTL
\* ago (validator.go:44-46).
THEOREM RefusalsAreReplays == Spec => ReplayVerdictSound
<1>1. IndInv /\ [Next]_vars =>
        [\A h \in Handlers :
           pc[h] = "verify" /\ pc'[h] = "reject" =>
             \E i \in 1..Len(regs) :
                /\ regs[i].nonce = req[h].manifest.nonce
                /\ clock < regs[i].at + TTL]_vars
  <2> SUFFICES ASSUME IndInv, Next, NEW h \in Handlers,
                      pc[h] = "verify", pc'[h] = "reject"
               PROVE  \E i \in 1..Len(regs) :
                         /\ regs[i].nonce = req[h].manifest.nonce
                         /\ clock < regs[i].at + TTL
    OBVIOUS
  <2>1. RegisterReplay(h)
    BY DEF Next, Tick, Cleanup, Receive, CheckManifest, RegisterFresh, RegisterReplay,
           CheckSignature, Respond, Goto, IndInv, TypeOK
  <2> DEFINE n == req[h].manifest.nonce
  <2>2. n \in DOMAIN nonces /\ clock < nonces[n]
    BY <2>1, ConstantsAssumption
    DEF RegisterReplay, Fresh, Live, IndInv, VerifyHasNonce
  <2>3. PICK i \in 1..Len(regs) : regs[i].nonce = n /\ nonces[n] = regs[i].at + TTL
    BY <2>2 DEF IndInv, CacheFromRegistrations
  <2> QED BY <2>2, <2>3
<1> QED BY <1>1, Invariance, PTL DEF Spec, ReplayVerdictSound

-----------------------------------------------------------------------------
\* What % does to a number less than one modulus away from the range.
LEMMA ModOnce ==
  ASSUME NEW a \in Int, NEW b \in Nat \ {0}
  PROVE  /\ 0 <= a /\ a < b => a % b = a
         /\ b <= a /\ a < 2 * b => a % b = a - b
         /\ -b <= a /\ a < 0 => a % b = a + b
<1>1. ASSUME 0 <= a, a < b PROVE a % b = a
  BY <1>1
<1>2. ASSUME b <= a, a < 2 * b PROVE a % b = a - b
  BY <1>2
<1>3. ASSUME -b <= a, a < 0 PROVE a % b = a + b
  BY <1>3
<1> QED BY <1>1, <1>2, <1>3

\* int64 subtraction (main.go:222) is exact while the difference is in range, and off
\* by 2^64 beyond.
LEMMA WrapOnce ==
  ASSUME NEW x \in Int
  PROVE  /\ -Half <= x /\ x < Half => Wrap(x) = x
         /\ Half <= x /\ x < 3 * Half => Wrap(x) = x - 2 * Half
         /\ -3 * Half <= x /\ x < -Half => Wrap(x) = x + 2 * Half
<1> DEFINE a == x + Half
           b == 2 * Half
<1>1. a \in Int /\ b \in Nat \ {0} /\ Half \in Nat
  BY ConstantsAssumption
<1>2. Wrap(x) = (a % b) - Half
  BY DEF Wrap
<1>3. ASSUME -Half <= x, x < Half PROVE Wrap(x) = x
  <2>1. 0 <= a /\ a < b
    BY <1>1, <1>3
  <2> HIDE DEF b
  <2>2. a % b = a
    BY <1>1, <2>1, ModOnce
  <2> QED BY <1>1, <1>2, <2>2
<1>4. ASSUME Half <= x, x < 3 * Half PROVE Wrap(x) = x - 2 * Half
  <2>1. b <= a /\ a < 2 * b
    BY <1>1, <1>4
  <2> HIDE DEF b
  <2>2. a % b = a - b
    BY <1>1, <2>1, ModOnce
  <2> QED BY <1>1, <1>2, <2>2 DEF b
<1>5. ASSUME -3 * Half <= x, x < -Half PROVE Wrap(x) = x + 2 * Half
  <2>1. -b <= a /\ a < 0
    BY <1>1, <1>5
  <2> HIDE DEF b
  <2>2. a % b = a + b
    BY <1>1, <2>1, ModOnce
  <2> QED BY <1>1, <1>2, <2>2 DEF b
<1> QED BY <1>3, <1>4, <1>5

\* The two comparisons of the drift check keep out what wrapping lets through one of
\* them (main.go:222).
LEMMA DriftBound ==
  ASSUME NEW ts \in -Half..Half - 1, clock \in 0..MaxTime, WithinDrift(ts)
  PROVE  clock - ts \in -Drift..Drift \/ clock - ts = Half
<1> DEFINE d == clock - ts
<1>1. /\ d \in Int /\ -d = ts - clock
      /\ Half \in Nat /\ Drift \in Nat /\ MaxTime \in Nat /\ MaxTime + Drift < Half
      /\ -Half < d /\ d <= MaxTime + Half
  BY ConstantsAssumption
<1>2. Wrap(d) <= Drift /\ Wrap(-d) <= Drift
  BY <1>1 DEF WithinDrift
<1> HIDE DEF d
<1>3. CASE d < Half
  <2>1. Wrap(d) = d /\ Wrap(-d) = -d
    BY <1>1, <1>3, WrapOnce
  <2>2. d \in -Drift..Drift
    BY <1>1, <1>2, <2>1
  <2> QED BY <2>2 DEF d
<1>4. CASE d = Half
  BY <1>4 DEF d
<1>5. CASE Half < d
  <2>1. -d \in Int /\ -3 * Half <= -d /\ -d < -Half
    BY <1>1, <1>5
  <2>2. Wrap(-d) = -d + 2 * Half
    BY <2>1, WrapOnce
  <2> QED BY <1>1, <1>2, <2>2
<1> QED BY <1>1, <1>3, <1>4, <1>5

\* Only a request within the drift window gets to Verify (main.go:222-231), for every
\* width of the integers that has room for clock and drift.
THEOREM DriftCheckIsExact == Spec => DriftExact
<1> DEFINE Exact == \A h \in Handlers :
             pc[h] = "check" /\ pc'[h] = "verify" =>
                LET ts == req[h].manifest.timestamp IN
                (clock - ts) \in -Drift..Drift \/ clock - ts = Half
<1>1. IndInv /\ [Next]_vars => [Exact]_vars
  <2> SUFFICES ASSUME IndInv, Next, NEW h \in Handlers,
                      pc[h] = "check", pc'[h] = "verify"
               PROVE  LET ts == req[h].manifest.timestamp IN
                      (clock - ts) \in -Drift..Drift \/ clock - ts = Half
    OBVIOUS
  <2>1. TypeOK
    BY DEF IndInv
  <2>2. CheckManifest(h)
    BY <2>1 DEF Next, Tick, Cleanup, Receive, CheckManifest, RegisterFresh, RegisterReplay,
                CheckSignature, Respond, Goto, TypeOK
  <2>3. WithinDrift(req[h].manifest.timestamp)
    BY <2>1, <2>2 DEF CheckManifest, Goto, TypeOK
  <2>4. req[h].manifest.timestamp \in -Half..Half - 1
    <3>1. CASE req[h] \in Requests
      <4>1. req[h].manifest.timestamp \in Timestamps
        BY <3>1 DEF Requests, Manifests
      <4> QED BY <4>1, ConstantsAssumption
    <3>2. CASE req[h] = NoRequest
      <4>1. req[h].manifest.timestamp = 0
        BY <3>2 DEF NoRequest
      <4> QED BY <4>1, ConstantsAssumption
    <3> QED BY <2>1, <3>1, <3>2 DEF TypeOK
  <2> QED BY <2>1, <2>3, <2>4, DriftBound DEF TypeOK
<1> QED BY <1>1, Invariance, PTL DEF Spec, DriftExact

=============================================================================

----------------------------- MODULE KillSwitch -----------------------------
(***************************************************************************)
(* integrity/killswitch.go on top of the telemetry engine: goroutines that *)
(* detect tampering call Trigger; the first one submits the Critical       *)
(* finding, shuts the engine down and ends the process, while the others   *)
(* wait in once.Do and everything else in the process keeps running.       *)
(* Integrity composes these actions with the goroutines that call Trigger. *)
(***************************************************************************)
EXTENDS TelemetryEngine

CONSTANTS
    Callers,   \* goroutines that call Trigger
    KillEvent  \* the event NewKillSwitchEvent makes

\* The finding's RawData is json.Marshal's output, so it marshals.
ASSUME KillAssumption == KillEvent \in Events \ Malformed

VARIABLES
    kpc,        \* where each caller stands
    onceBusy,   \* ks.once has been entered
    exited      \* os.Exit(137) was called

killVars == <<kpc, onceBusy, exited>>
allVars == <<vars, killVars>>

KillInit ==
    /\ Init
    /\ kpc = [c \in Callers |-> "idle"]
    /\ onceBusy = FALSE
    /\ exited = FALSE

Move(c, l) == kpc' = [kpc EXCEPT ![c] = l]

(***************************************************************************)
(* Trigger is called, and waits for once.                                  *)
(***************************************************************************)
Trigger(c) ==
    /\ kpc[c] = "idle"
    /\ Move(c, "once")
    /\ UNCHANGED <<vars, onceBusy, exited>>

\* Mutant: the body is not inside once.Do.
OnceDoUnguarded(c) ==
    /\ kpc[c] = "once"
    /\ onceBusy' = TRUE
    /\ Move(c, "submit")
    /\ UNCHANGED <<vars, exited>>

(***************************************************************************)
(* The first caller runs the body: close(triggered) and the banner.        *)
(***************************************************************************)
OnceDo(c) ==
    /\ kpc[c] = "once"
    /\ ~onceBusy
    /\ onceBusy' = TRUE
    /\ Move(c, "submit")
    /\ UNCHANGED <<vars, exited>>

\* ks.engine.Submit(event), a call that may race with every other Submit.
SubmitKillEvent(c) ==
    /\ kpc[c] = "submit"
    /\ CountSubmitted(KillEvent) \/ Offer(KillEvent)
    /\ UNCHANGED killVars

\* Mutant: the finding is submitted from another goroutine.
SubmitNotAwaited(c) ==
    /\ kpc[c] = "submit"
    /\ Move(c, "shutdown")
    /\ UNCHANGED <<vars, onceBusy, exited>>

SubmitReturns(c) ==
    /\ kpc[c] = "submit"
    /\ sub[KillEvent] \in {"queued", "dropped"}
    /\ Move(c, "shutdown")
    /\ UNCHANGED <<vars, onceBusy, exited>>

\* ks.engine.Shutdown().
ShutdownEngine(c) ==
    /\ kpc[c] = "shutdown"
    /\ CloseStop \/ ShutdownStep
    /\ UNCHANGED killVars

\* os.Exit(137): no goroutine takes another step.
Exit(c) ==
    /\ kpc[c] = "shutdown"
    /\ spc = "done"
    /\ exited' = TRUE
    /\ UNCHANGED <<vars, kpc, onceBusy>>

TriggerStep(c) ==
    \/ OnceDo(c) \/ SubmitKillEvent(c) \/ SubmitReturns(c)
    \/ ShutdownEngine(c) \/ Exit(c)

-----------------------------------------------------------------------------
(***************************************************************************)
(* Properties                                                              *)
(***************************************************************************)

\* Every variable of KillSwitch (killswitch.go:22-27) has its type.
KillTypeOK ==
    /\ TypeOK
    /\ kpc \in [Callers -> {"idle", "once", "submit", "shutdown"}]
    /\ onceBusy \in BOOLEAN /\ exited \in BOOLEAN

\* However many goroutines call Trigger, one of them runs the body, submits the one
\* finding and shuts the engine down (killswitch.go:66-69); the pool is not told to
\* stop before the finding's Submit has returned (killswitch.go:89-92).
FiresOnce ==
    /\ \A c, d \in Callers :
          {kpc[c], kpc[d]} \subseteq {"submit", "shutdown"} => c = d
    /\ stopCh => sub[KillEvent] \in {"queued", "dropped"}

\* The process ends only after the finding was written, unless the channel was full
\* when it was submitted or the pool took longer than the grace period
\* (killswitch.go:88-98, engine.go:107-114, 131-137).
FindingOutOrExcused ==
    exited => \/ Contains(log, KillEvent)
              \/ sub[KillEvent] = "dropped" /\ dropped > 0
              \/ outcome = "grace"

=============================================================================

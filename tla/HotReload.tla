------------------------------ MODULE HotReload ------------------------------
(***************************************************************************)
(* The hot-reloaded policy file of agent/policy.go: PolicyManager.load,    *)
(* its poller, and what main does with the manager.  AllowlistRouter in    *)
(* egress/allowlist.go loads and polls its file with the same code: Egress *)
(* extends this module.                                                    *)
(*                                                                         *)
(* load stats the file, reads it, records the modification time, parses    *)
(* and installs; operators save, replace and delete the file in between.   *)
(* A save that truncates the file first is two saves: an empty file parses *)
(* to a policy without routes.  Time is the order of modification times.   *)
(***************************************************************************)
EXTENDS Naturals

CONSTANTS
    Policies,    \* file contents that parse
    Default,     \* DefaultPolicyYAML
    Garbage,     \* contents that do not parse
    Unloaded,    \* routes before the first load
    MaxWrites,   \* how often operators touch the file (a bound of the model only)
    Backdating,  \* a file may be replaced by one with an older modification time
    IOErrors     \* stat, read and write may fail for other reasons than absence

ASSUME ReloadAssumption ==
    /\ Default \in Policies
    /\ Garbage \notin Policies /\ Unloaded \notin Policies \cup {Garbage}
    /\ MaxWrites \in Nat
    /\ Backdating \in BOOLEAN /\ IOErrors \in BOOLEAN

Contents == Policies \cup {Garbage}

VARIABLES
    exists, content, mtime,  \* the file
    stamp,    \* the latest modification time given out
    writes,   \* how often operators touched the file
    routes,   \* pm.routes, as the contents they were parsed from
    lastMod,  \* pm.lastModTime, 0 for the zero time
    pc,       \* where load stands; "idle" between two calls
    info,     \* the modification time Stat returned
    raw,      \* rawYAML
    life,     \* main: "starting", "serving" or "failed"
    stopCh    \* pm.stopCh is closed

file == <<exists, content, mtime, stamp>>
manager == <<routes, lastMod>>
vars == <<file, writes, manager, pc, info, raw, life, stopCh>>

Init ==
    /\ exists = FALSE /\ content = Garbage /\ mtime = 0 /\ stamp = 0
    /\ writes = 0
    /\ routes = Unloaded /\ lastMod = 0
    /\ pc = "idle" /\ info = 0 /\ raw = Garbage
    /\ life = "starting" /\ stopCh = FALSE

-----------------------------------------------------------------------------
(***************************************************************************)
(* Operators.  A file moved into place brings its modification time along. *)
(***************************************************************************)
Put(c, t) ==
    /\ exists' = TRUE /\ content' = c /\ mtime' = t
    /\ stamp' = IF t > stamp THEN t ELSE stamp

Save ==
    /\ writes < MaxWrites
    /\ writes' = writes + 1
    /\ \E c \in Contents :
          \/ Put(c, stamp + 1)
          \/ Backdating /\ \E t \in 1..stamp : Put(c, t)
    /\ UNCHANGED <<manager, pc, info, raw, life, stopCh>>

Delete ==
    /\ writes < MaxWrites
    /\ writes' = writes + 1
    /\ exists /\ exists' = FALSE
    /\ UNCHANGED <<content, mtime, stamp, manager, pc, info, raw, life, stopCh>>

-----------------------------------------------------------------------------
(***************************************************************************)
(* load returns.  The constructor passes its error on: main keeps the nil  *)
(* manager and calls Routes on it; without an allowlist it arms no egress  *)
(* proxy.  The poller only logs the error.                                 *)
(***************************************************************************)
Return(ok) ==
    /\ pc' = "idle"
    /\ life' = CASE life = "starting" /\ ok  -> "serving"
                 [] life = "starting" /\ ~ok -> "failed"
                 [] OTHER                    -> life

\* The constructor, or a tick of the poller, calls load, which stats the file.
Stat ==
    /\ pc = "idle" /\ life # "failed"
    /\ \/ ~exists /\ pc' = "missing" /\ UNCHANGED <<info, life>>
       \/ exists /\ mtime <= lastMod /\ Return(TRUE) /\ UNCHANGED info
       \/ exists /\ mtime > lastMod /\ info' = mtime /\ pc' = "read" /\ UNCHANGED life
       \/ IOErrors /\ Return(FALSE) /\ UNCHANGED info
    /\ UNCHANGED <<file, writes, manager, raw, stopCh>>

\* No file: take the embedded default and write it to the path.
WriteDefault ==
    /\ pc = "missing"
    /\ raw' = Default
    /\ \/ Put(Default, stamp + 1)
       \/ IOErrors /\ UNCHANGED file
    /\ pc' = "parse"
    /\ UNCHANGED <<writes, manager, info, life, stopCh>>

Read ==
    /\ pc = "read"
    /\ \/ exists /\ raw' = content /\ pc' = "mark" /\ UNCHANGED life
       \/ (~exists \/ IOErrors) /\ Return(FALSE) /\ UNCHANGED raw
    /\ UNCHANGED <<file, writes, manager, info, stopCh>>

\* Mutant: the modification time is taken when the file has been read.
MarkLate ==
    /\ pc = "mark"
    /\ lastMod' = mtime
    /\ pc' = "parse"
    /\ UNCHANGED <<file, writes, routes, info, raw, life, stopCh>>

Mark ==
    /\ pc = "mark"
    /\ lastMod' = info
    /\ pc' = "parse"
    /\ UNCHANGED <<file, writes, routes, info, raw, life, stopCh>>

\* Mutant: what does not parse is installed as well.
ParseUnchecked ==
    /\ pc = "parse"
    /\ routes' = raw
    /\ Return(TRUE)
    /\ UNCHANGED <<file, writes, lastMod, info, raw, stopCh>>

Parse ==
    /\ pc = "parse"
    /\ routes' = IF raw \in Policies THEN raw ELSE routes
    /\ Return(raw \in Policies)
    /\ UNCHANGED <<file, writes, lastMod, info, raw, stopCh>>

-----------------------------------------------------------------------------
(***************************************************************************)
(* Shutdown closes stopCh; the poller returns at its next select.          *)
(***************************************************************************)
Shutdown ==
    /\ life = "serving" /\ ~stopCh
    /\ stopCh' = TRUE
    /\ UNCHANGED <<file, writes, manager, pc, info, raw, life>>

PollerStops ==
    /\ stopCh /\ pc = "idle"
    /\ pc' = "exited"
    /\ UNCHANGED <<file, writes, manager, info, raw, life, stopCh>>

LoadStep == Stat \/ WriteDefault \/ Read \/ Mark \/ Parse \/ PollerStops

Next == Save \/ Delete \/ LoadStep \/ Shutdown

(***************************************************************************)
(* The constructor runs load and the ticker keeps calling it.  The file    *)
(* system may fail any number of times, but not for ever: a poll that is   *)
(* repeated until it works does work.                                      *)
(***************************************************************************)
FileIsStatted == Stat /\ pc' = "read"

FileIsRead == Read /\ pc' = "mark"

Spec ==
    /\ Init /\ [][Next]_vars
    /\ WF_vars(LoadStep)
    /\ SF_vars(FileIsStatted) /\ SF_vars(FileIsRead)

-----------------------------------------------------------------------------
(***************************************************************************)
(* Properties                                                              *)
(***************************************************************************)

\* Every variable of PolicyManager (policy.go:71-79) has its type.
TypeOK ==
    /\ exists \in BOOLEAN /\ content \in Contents
    /\ mtime \in Nat /\ stamp \in Nat /\ writes \in 0..MaxWrites
    /\ routes \in Policies \cup {Unloaded}
    /\ lastMod \in Nat /\ info \in Nat
    /\ raw \in Contents
    /\ pc \in {"idle", "missing", "read", "mark", "parse", "exited"}
    /\ life \in {"starting", "serving", "failed"} /\ stopCh \in BOOLEAN

\* A poll that finds the file unchanged (policy.go:152-158) misses nothing: whenever
\* load is not running and would answer "no change", the routes in force are those
\* of the file, although it may have been saved, deleted and saved again between
\* Stat, ReadFile and the update of lastModTime.
CaughtUpMeansCurrent ==
    pc = "idle" /\ exists /\ mtime <= lastMod /\ content \in Policies
        => routes = content

\* The gateway serves only with a policy in force (policy.go:91-93): whatever the
\* first load met, it parsed something or the constructor failed.
ServingMeansLoaded == life = "serving" => routes \in Policies

\* The inductive invariant behind CaughtUpMeansCurrent: while load (policy.go:138-183)
\* is under way the file is newer than lastModTime, and what has been read is what the
\* file holds unless the file has become newer than the time Stat returned.  The first
\* load starts from the zero time, so it never answers "no change".
ReloadInv ==
    /\ TypeOK
    /\ mtime <= stamp /\ lastMod <= stamp /\ info <= stamp
    /\ pc \in {"missing", "read", "mark"} /\ exists => lastMod < mtime
    /\ pc \in {"read", "mark"} => lastMod < info
    /\ pc = "mark" /\ exists /\ mtime <= info => raw = content
    /\ pc = "parse" /\ exists /\ mtime <= lastMod => raw = content
    /\ pc \in {"idle", "exited"} /\ exists /\ mtime <= lastMod /\ content \in Policies
          => routes = content
    /\ exists => 0 < mtime
    /\ life = "starting" => pc = "parse" \/ lastMod = 0
    /\ life = "serving" => routes \in Policies

=============================================================================

----------------------------- MODULE Ingestion ------------------------------
(***************************************************************************)
(* The cloud cost IngestionManager (pkg/cloudcost/ingestionmanager.go) and *)
(* the life cycle of its ingestors (pkg/cloudcost/ingestor.go).            *)
(*                                                                         *)
(* A manager call holds im.lock from beginning to end and stops ingestors  *)
(* by sending on two unbuffered channels, so it lasts until the build and  *)
(* the run goroutine of the ingestor get to a point where they receive.    *)
(* op is the call in progress; task[i] is what it has still to do to       *)
(* ingestor i (RebuildAll, StartAll and StopAll work on all ingestors at   *)
(* the same time). Ingestor objects are numbered in order of creation.     *)
(***************************************************************************)
EXTENDS Naturals, FiniteSets

CONSTANTS
    Keys,
    Versions,         \* configs an integration key may have
    UnknownVersions,  \* configs GetIntegrationFromConfig has no integration for
    MaxIngestors,     \* bound: ingestor objects created
    MaxWindows        \* windows the build goroutine works through

NoConf == "none"
Nobody == 0
Ids == 1 .. MaxIngestors

ASSUME IngestionAssumption ==
    /\ IsFiniteSet(Keys)
    /\ NoConf \notin Versions
    /\ UnknownVersions \subseteq Versions
    /\ MaxIngestors \in Nat
    /\ MaxWindows \in Nat

VARIABLES
    ingestors,   \* im.ingestors: key -> ingestor
    created,     \* number of ingestors created
    conf,        \* conf[i]: the config ingestor i was created for
    isRunning,   \* ing.isRunning
    isStopping,  \* ing.isStopping
    chans,       \* ing.exitBuildCh and ing.exitRunCh are not nil
    sending,     \* sending[i]: exit messages Stop has sent and nobody took yet
    build,       \* build[i]: the build goroutine
    windows,     \* windows[i]: windows the build goroutine has still to do
    run,         \* run[i]: the run goroutine
    repairs,     \* ingestors on which a Repair goroutine is at work
    op,          \* the manager call that holds im.lock
    dels,        \* keys it has still to delete
    puts,        \* puts[k]: configs it has still to create
    task,        \* task[i]: what it has still to do to ingestor i
    asked,       \* history: asked[k], what the manager's callers ask for
    scope        \* history: the keys the call that changes configs is about

loopVars == <<build, windows, run, repairs>>
ingVars == <<conf, isRunning, isStopping, chans, sending, loopVars>>
calling == <<asked, scope>>
vars == <<ingestors, created, ingVars, op, dels, puts, task, calling>>

Ops == {"none", "config", "stopAll", "startAll", "rebuild"}
Tasks == {"none", "stop", "stopping", "start"}
BuildPCs == {"none", "check", "window", "wait", "done"}
RunPCs == {"none", "select", "windows", "done"}
NoPuts == [k \in Keys |-> NoConf]

TypeOK ==
    /\ ingestors \in [Keys -> Ids \cup {Nobody}]
    /\ created \in 0 .. MaxIngestors
    /\ conf \in [Ids -> Versions \cup {NoConf}]
    /\ isRunning \in [Ids -> BOOLEAN]
    /\ isStopping \in [Ids -> BOOLEAN]
    /\ chans \in [Ids -> BOOLEAN]
    /\ sending \in [Ids -> SUBSET {"build", "run"}]
    /\ build \in [Ids -> BuildPCs]
    /\ windows \in [Ids -> 0 .. MaxWindows]
    /\ run \in [Ids -> RunPCs]
    /\ repairs \subseteq Ids
    /\ op \in Ops
    /\ dels \subseteq Keys
    /\ puts \in [Keys -> Versions \cup {NoConf}]
    /\ task \in [Ids -> Tasks]
    /\ asked \in [Keys -> Versions \cup {NoConf}]
    /\ scope \subseteq Keys

Init ==
    /\ ingestors = [k \in Keys |-> Nobody]
    /\ created = 0
    /\ conf = [i \in Ids |-> NoConf]
    /\ isRunning = [i \in Ids |-> FALSE]
    /\ isStopping = [i \in Ids |-> FALSE]
    /\ chans = [i \in Ids |-> FALSE]
    /\ sending = [i \in Ids |-> {}]
    /\ build = [i \in Ids |-> "none"]
    /\ windows = [i \in Ids |-> 0]
    /\ run = [i \in Ids |-> "none"]
    /\ repairs = {}
    /\ op = "none"
    /\ dels = {}
    /\ puts = NoPuts
    /\ task = [i \in Ids |-> "none"]
    /\ asked = NoPuts
    /\ scope = {}

-----------------------------------------------------------------------------
(* Manager calls take im.lock ... *)

Managed == {ingestors[k] : k \in Keys} \ {Nobody}

(* Room for the ingestors a call may create, within the bound. *)
Room(m) == created + Cardinality({k \in Keys : m[k] # NoConf}) <= MaxIngestors

PutConfig(k, v) ==
    /\ op = "none"
    /\ op' = "config"
    /\ puts' = [NoPuts EXCEPT ![k] = v]
    /\ Room(puts')
    /\ asked' = [asked EXCEPT ![k] = v]
    /\ scope' = {k}
    /\ UNCHANGED <<ingestors, created, ingVars, dels, task>>

DeleteConfig(k) ==
    /\ op = "none"
    /\ op' = "config"
    /\ dels' = {k}
    /\ asked' = [asked EXCEPT ![k] = NoConf]
    /\ scope' = {k}
    /\ UNCHANGED <<ingestors, created, ingVars, puts, task>>

(* Mutant of SetConfigs: what is not in m is left alone. *)
SetConfigsKeeps(m) ==
    /\ op = "none"
    /\ op' = "config"
    /\ puts' = m
    /\ Room(m)
    /\ asked' = m
    /\ scope' = Keys
    /\ UNCHANGED <<ingestors, created, ingVars, dels, task>>

SetConfigs(m) ==
    /\ op = "none"
    /\ op' = "config"
    /\ dels' = {k \in Keys : ingestors[k] # Nobody}
    /\ puts' = m
    /\ Room(m)
    /\ asked' = m
    /\ scope' = Keys
    /\ UNCHANGED <<ingestors, created, ingVars, task>>

OnAll(name, first, targets) ==
    /\ op = "none"
    /\ op' = name
    /\ task' = [i \in Ids |-> IF i \in targets THEN first ELSE "none"]
    /\ UNCHANGED <<ingestors, created, ingVars, dels, puts, calling>>

StartAll == OnAll("startAll", "start", Managed)
StopAll == OnAll("stopAll", "stop", Managed)
RebuildAll == OnAll("rebuild", "stop", Managed)
Rebuild(k) == ingestors[k] # Nobody /\ OnAll("rebuild", "stop", {ingestors[k]})

(* Repair and RepairAll only spawn goroutines, which nothing ever stops. *)
RepairSet(targets) ==
    /\ op = "none"
    /\ repairs' = repairs \cup targets
    /\ UNCHANGED <<ingestors, created, conf, isRunning, isStopping, chans, sending,
                   build, windows, run, op, dels, puts, task, calling>>

RepairAll == RepairSet(Managed)
Repair(k) == ingestors[k] # Nobody /\ RepairSet({ingestors[k]})

RepairDone(i) ==
    /\ i \in repairs
    /\ repairs' = repairs \ {i}
    /\ UNCHANGED <<ingestors, created, conf, isRunning, isStopping, chans, sending,
                   build, windows, run, op, dels, puts, task, calling>>

(* ... and release it when nothing is left to do. *)
Idle == \A i \in Ids : task[i] = "none"

Unlock ==
    /\ op # "none"
    /\ Idle
    /\ dels = {}
    /\ puts = NoPuts
    /\ op' = "none"
    /\ scope' = {}
    /\ UNCHANGED <<ingestors, created, ingVars, dels, puts, task, asked>>

-----------------------------------------------------------------------------
(* deleteIngestor and createIngestor, one key after the other *)

DeleteMissing(k) ==
    /\ Idle
    /\ k \in dels
    /\ ingestors[k] = Nobody
    /\ dels' = dels \ {k}
    /\ UNCHANGED <<ingestors, created, ingVars, op, puts, task, calling>>

DeleteIngestor(k) ==
    /\ Idle
    /\ k \in dels
    /\ ingestors[k] # Nobody
    /\ task' = [task EXCEPT ![ingestors[k]] = "stop"]
    /\ UNCHANGED <<ingestors, created, ingVars, op, dels, puts, calling>>

(* createIngestor first deletes an ingestor with the same key. *)
ReplaceIngestor(k) ==
    /\ Idle
    /\ dels = {}
    /\ puts[k] # NoConf
    /\ ingestors[k] # Nobody
    /\ dels' = {k}
    /\ UNCHANGED <<ingestors, created, ingVars, op, puts, task, calling>>

(* NewIngestor fails for a config without an integration; otherwise the    *)
(* new ingestor is started and entered in the map.                         *)
CreateIngestor(k) ==
    /\ Idle
    /\ dels = {}
    /\ puts[k] # NoConf
    /\ ingestors[k] = Nobody
    /\ puts' = [puts EXCEPT ![k] = NoConf]
    /\ IF puts[k] \in UnknownVersions
       THEN UNCHANGED <<ingestors, created, conf, isRunning, chans, build, windows, run>>
       ELSE LET i == created + 1 IN
            /\ created' = i
            /\ conf' = [conf EXCEPT ![i] = puts[k]]
            /\ ingestors' = [ingestors EXCEPT ![k] = i]
            /\ isRunning' = [isRunning EXCEPT ![i] = TRUE]
            /\ chans' = [chans EXCEPT ![i] = TRUE]
            /\ build' = [build EXCEPT ![i] = "check"]
            /\ windows' = [windows EXCEPT ![i] = MaxWindows]
            /\ run' = [run EXCEPT ![i] = "select"]
    /\ UNCHANGED <<isStopping, sending, repairs, op, dels, task, calling>>

-----------------------------------------------------------------------------
(* ingestor.Stop and ingestor.Start *)

(* Stop: CompareAndSwap, then one goroutine per channel that is not nil    *)
(* sends the exit message.                                                 *)
StopBegin(i) ==
    /\ task[i] = "stop"
    /\ ~isStopping[i]
    /\ isStopping' = [isStopping EXCEPT ![i] = TRUE]
    /\ sending' = [sending EXCEPT ![i] = IF chans[i] THEN {"build", "run"} ELSE {}]
    /\ task' = [task EXCEPT ![i] = "stopping"]
    /\ UNCHANGED <<ingestors, created, conf, isRunning, chans, loopVars, op, dels, puts, calling>>

(* Mutant of AfterStop: Rebuild does not start what it stopped. *)
AfterStopNoRestart(i) ==
    /\ task' = [task EXCEPT ![i] = "none"]
    /\ IF op = "config"
       THEN /\ ingestors' = [k \in Keys |-> IF ingestors[k] = i THEN Nobody ELSE ingestors[k]]
            /\ dels' = {k \in dels : ingestors[k] # i}
       ELSE UNCHANGED <<ingestors, dels>>

(* What the call does after Stop has returned: Rebuild starts again,       *)
(* deleteIngestor removes the map entry.                                   *)
AfterStop(i) ==
    CASE op = "rebuild" -> /\ task' = [task EXCEPT ![i] = "start"]
                           /\ UNCHANGED <<ingestors, dels>>
      [] op = "config" -> /\ task' = [task EXCEPT ![i] = "none"]
                          /\ ingestors' = [k \in Keys |-> IF ingestors[k] = i THEN Nobody ELSE ingestors[k]]
                          /\ dels' = {k \in dels : ingestors[k] # i}
      [] OTHER -> /\ task' = [task EXCEPT ![i] = "none"]
                  /\ UNCHANGED <<ingestors, dels>>

(* Mutant of StopEnd: wg.Wait is forgotten. *)
StopEndNoWait(i) ==
    /\ task[i] = "stopping"
    /\ isRunning' = [isRunning EXCEPT ![i] = FALSE]
    /\ isStopping' = [isStopping EXCEPT ![i] = FALSE]
    /\ AfterStop(i)
    /\ UNCHANGED <<created, conf, chans, sending, loopVars, op, puts, calling>>

(* Mutant of StopEnd: isRunning is not cleared. *)
StopEndStillRunning(i) ==
    /\ task[i] = "stopping"
    /\ sending[i] = {}
    /\ isStopping' = [isStopping EXCEPT ![i] = FALSE]
    /\ AfterStop(i)
    /\ UNCHANGED <<created, conf, isRunning, chans, sending, loopVars, op, puts, calling>>

(* wg.Wait returns when both messages were received. *)
StopEnd(i) ==
    /\ task[i] = "stopping"
    /\ sending[i] = {}
    /\ isRunning' = [isRunning EXCEPT ![i] = FALSE]
    /\ isStopping' = [isStopping EXCEPT ![i] = FALSE]
    /\ AfterStop(i)
    /\ UNCHANGED <<created, conf, chans, sending, loopVars, op, puts, calling>>

(* Start of an ingestor that is running returns at once. *)
StartIgnored(i) ==
    /\ task[i] = "start"
    /\ isRunning[i]
    /\ task' = [task EXCEPT ![i] = "none"]
    /\ UNCHANGED <<ingestors, created, ingVars, op, dels, puts, calling>>

Start(i) ==
    /\ task[i] = "start"
    /\ ~isRunning[i]
    /\ isRunning' = [isRunning EXCEPT ![i] = TRUE]
    /\ chans' = [chans EXCEPT ![i] = TRUE]
    /\ build' = [build EXCEPT ![i] = "check"]
    /\ windows' = [windows EXCEPT ![i] = MaxWindows]
    /\ run' = [run EXCEPT ![i] = "select"]
    /\ task' = [task EXCEPT ![i] = "none"]
    /\ UNCHANGED <<ingestors, created, conf, isStopping, sending, repairs, op, dels, puts, calling>>

-----------------------------------------------------------------------------
(* The goroutines of an ingestor *)

loopFrame ==
    <<ingestors, created, conf, isRunning, isStopping, chans, repairs, op, dels, puts, task, calling>>

(* The non-blocking select at the top of build's loop: no sender is ready  *)
(* yet. When the limit is reached the goroutine waits for the message.     *)
BuildCheck(i) ==
    /\ build[i] = "check"
    /\ build' = [build EXCEPT ![i] = IF windows[i] = 0 THEN "wait" ELSE "window"]
    /\ UNCHANGED <<loopFrame, sending, windows, run>>

(* LoadWindow or BuildWindow, and the shift to the next window. *)
BuildWindow(i) ==
    /\ build[i] = "window"
    /\ build' = [build EXCEPT ![i] = "check"]
    /\ windows' = [windows EXCEPT ![i] = @ - 1]
    /\ UNCHANGED <<loopFrame, sending, run>>

(* Mutant of BuildExit: a build that is complete no longer listens. *)
BuildExitOnlyInLoop(i) ==
    /\ "build" \in sending[i]
    /\ build[i] = "check" /\ windows[i] > 0
    /\ build' = [build EXCEPT ![i] = "done"]
    /\ sending' = [sending EXCEPT ![i] = @ \ {"build"}]
    /\ UNCHANGED <<loopFrame, windows, run>>

(* <-ing.exitBuildCh, in the loop or after it. *)
BuildExit(i) ==
    /\ "build" \in sending[i]
    /\ build[i] = "wait" \/ (build[i] = "check" /\ windows[i] > 0)
    /\ build' = [build EXCEPT ![i] = "done"]
    /\ sending' = [sending EXCEPT ![i] = @ \ {"build"}]
    /\ UNCHANGED <<loopFrame, windows, run>>

(* <-ticker.Ch: build the windows up to now, expire old data. *)
RunTick(i) ==
    /\ run[i] = "select"
    /\ run' = [run EXCEPT ![i] = "windows"]
    /\ UNCHANGED <<loopFrame, sending, build, windows>>

RunWindows(i) ==
    /\ run[i] = "windows"
    /\ run' = [run EXCEPT ![i] = "select"]
    /\ UNCHANGED <<loopFrame, sending, build, windows>>

(* <-ing.exitRunCh *)
RunExit(i) ==
    /\ "run" \in sending[i]
    /\ run[i] = "select"
    /\ run' = [run EXCEPT ![i] = "done"]
    /\ sending' = [sending EXCEPT ![i] = @ \ {"run"}]
    /\ UNCHANGED <<loopFrame, build, windows>>

Call ==
    \/ \E k \in Keys, v \in Versions : PutConfig(k, v)
    \/ \E k \in Keys : DeleteConfig(k) \/ Rebuild(k) \/ Repair(k)
    \/ \E m \in [Keys -> Versions \cup {NoConf}] : SetConfigs(m)
    \/ StartAll \/ StopAll \/ RebuildAll \/ RepairAll

CallStep ==
    \/ Unlock
    \/ \E k \in Keys : DeleteMissing(k) \/ DeleteIngestor(k) \/ ReplaceIngestor(k) \/ CreateIngestor(k)
    \/ \E i \in Ids : StopBegin(i) \/ StopEnd(i) \/ StartIgnored(i) \/ Start(i)

LoopStep(i) ==
    \/ BuildCheck(i) \/ BuildWindow(i) \/ BuildExit(i)
    \/ RunTick(i) \/ RunWindows(i) \/ RunExit(i)
    \/ RepairDone(i)

Next == Call \/ CallStep \/ \E i \in Ids : LoopStep(i)

Spec == Init /\ [][Next]_vars

(* Goroutines that can run do run, cloud queries return, and the select of *)
(* the run loop picks among ready cases at random, so a pending exit       *)
(* message is not passed over for ever. The ticker need not fire.          *)
FairSpec ==
    /\ Spec
    /\ WF_vars(CallStep)
    /\ \A i \in Ids : /\ WF_vars(BuildCheck(i)) /\ WF_vars(BuildWindow(i)) /\ SF_vars(BuildExit(i))
                      /\ WF_vars(RunWindows(i)) /\ SF_vars(RunExit(i))

-----------------------------------------------------------------------------
BuildAlive(i) == build[i] \in {"check", "window", "wait"}
RunAlive(i) == run[i] \in {"select", "windows"}

(* Once DeleteConfig or a replacement has taken an ingestor out of the     *)
(* map, neither of its loops is alive: nothing but a Repair already        *)
(* running still queries the provider or writes to the repository for it.  *)
RemovedIsQuiet ==
    \A i \in Ids : i \notin Managed => ~BuildAlive(i) /\ ~RunAlive(i)

(* A key has one ingestor, an ingestor one key, and outside of a call a    *)
(* managed ingestor that says it is running has both of its loops.         *)
RunningIsComplete ==
    /\ \A k, l \in Keys : ingestors[k] = ingestors[l] /\ ingestors[k] # Nobody => k = l
    /\ op = "none" => \A i \in Managed : (isRunning[i] <=> BuildAlive(i)) /\ (isRunning[i] <=> RunAlive(i))

(* Rebuild starts what it stopped: only StopAll leaves an ingestor that    *)
(* stays in the map without its loops.                                     *)
OnlyStopAllStops ==
    [][\A i \in Managed' : isRunning[i] /\ ~isRunning'[i] => op = "stopAll" \/ task'[i] = "start"]_vars

(* Every manager call releases im.lock again; the config controller, which *)
(* waits for its broadcasts under its own lock, depends on it.             *)
CallsReturn == (op # "none") ~> (op = "none")

(* What holds of it: a call that finds every managed ingestor running, or  *)
(* only starts ingestors, returns, whatever the loops are doing.           *)
Healthy == op = "startAll" \/ \A i \in Managed : isRunning[i] \/ task[i] = "start"
HealthyCallsReturn == (op # "none" /\ Healthy) ~> (op = "none")

(* The manager implements the promise of the Observer interface: a call of *)
(* PutConfig, DeleteConfig or SetConfigs touches only the keys it is       *)
(* about, and when it returns exactly the configs asked for have an        *)
(* ingestor, whatever the goroutines and the calls before it have done.    *)
configs == [k \in Keys |-> IF ingestors[k] = Nobody THEN NoConf ELSE conf[ingestors[k]]]
Table == INSTANCE Observer WITH table <- configs
ImplementsObserver == Table!Spec
=============================================================================

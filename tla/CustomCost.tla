----------------------------- MODULE CustomCost -----------------------------
(***************************************************************************)
(* A custom cost ingestor (pkg/customcost/ingestor.go): a build goroutine  *)
(* loads the windows of the retention and then waits for an exit message,  *)
(* a run goroutine, the loop of JobTicker, revisits the recent windows at  *)
(* every tick, and HTTP handlers rebuild a domain. All of them call the    *)
(* plugins; BuildWindow does so under pluginsLock.RLock and takes the read *)
(* lock a second time for each domain. Stop sends both exit messages, and  *)
(* takes the write lock to kill the plugin processes.                      *)
(*                                                                         *)
(* The ingestor has been started, as NewPipelineService does. Coverage,    *)
(* which only the status shows, is left out.                               *)
(***************************************************************************)
EXTENDS JobTicker

CONSTANTS
    Domains,    \* the plugins
    LastWindow, \* the windows of the retention are 1 .. LastWindow
    RunFrom,    \* the first window that a run revisits
    Callers,    \* goroutines that call Stop
    MaxStarts   \* bound: calls of Start after a Stop

ASSUME CustomCostAssumption ==
    /\ LastWindow \in Nat \ {0}
    /\ RunFrom \in 1 .. LastWindow
    /\ MaxStarts \in Nat

VARIABLES
    build,      \* the build goroutine
    buildExit,  \* an exit message is being sent to it
    pc,         \* where build and run are in BuildWindow
    win,        \* the window each of them has got to
    left,       \* the domains left to build for it
    domain,     \* the domain being built
    rebuild,    \* an HTTP handler: the domain it rebuilds, or None
    writer,     \* the write lock of pluginsLock: none, pending or held
    stopper,    \* the callers of Stop
    isRunning, isStopping,
    repo,       \* the window and domain pairs stored
    starts

workVars == <<pc, win, left, domain>>
stopVars == <<stopper, isRunning, isStopping>>
customVars == <<build, buildExit, workVars, rebuild, writer, stopVars, repo, starts>>
allVars == <<vars, customVars>>

Workers == {"build", "run"}
Windows == 1 .. LastWindow
None == "none"

CustomInit ==
    /\ Init
    /\ build = "load"
    /\ buildExit = FALSE
    /\ pc = [p \in Workers |-> "off"]
    /\ win = [p \in Workers |-> 1]
    /\ left = [p \in Workers |-> {}]
    /\ domain = [p \in Workers |-> None]
    /\ rebuild = None
    /\ writer = "none"
    /\ stopper = [c \in Callers |-> "idle"]
    /\ isRunning = TRUE
    /\ isStopping = FALSE
    /\ repo = {}
    /\ starts = 0

-----------------------------------------------------------------------------
(* sync.RWMutex: a pending writer keeps new readers out, also one that has *)
(* the lock already.                                                       *)
CanRead == writer = "none"
Holding(p) == pc[p] \in {"inner", "call"}

(* BuildWindow: the outer read lock ... *)
OuterLock(p) ==
    /\ pc[p] = "outer"
    /\ CanRead
    /\ pc' = [pc EXCEPT ![p] = "inner"]
    /\ UNCHANGED <<vars, build, buildExit, win, left, domain, rebuild, writer, stopVars, repo, starts>>

(* ... buildSingleDomain looks the client up under the inner one ... *)
Lookup(p) ==
    /\ pc[p] = "inner"
    /\ CanRead
    /\ pc' = [pc EXCEPT ![p] = "call"]
    /\ \E d \in left[p] : domain' = [domain EXCEPT ![p] = d]
    /\ UNCHANGED <<vars, build, buildExit, win, left, rebuild, writer, stopVars, repo, starts>>

(* The responses of a call are stored, but for the ones with errors. *)
Answer(pairs) == \E stored \in SUBSET pairs : repo' = repo \cup stored

(* ... and calls the plugin. *)
Call(p) ==
    /\ pc[p] = "call"
    /\ Answer({<<win[p], domain[p]>>})
    /\ pc' = [pc EXCEPT ![p] = "inner"]
    /\ left' = [left EXCEPT ![p] = @ \ {domain[p]}]
    /\ domain' = [domain EXCEPT ![p] = None]
    /\ UNCHANGED <<vars, build, buildExit, win, rebuild, writer, stopVars, starts>>

OuterUnlock(p) ==
    /\ pc[p] = "inner"
    /\ left[p] = {}
    /\ pc' = [pc EXCEPT ![p] = "off"]
    /\ win' = [win EXCEPT ![p] = @ + 1]
    /\ UNCHANGED <<vars, build, buildExit, left, domain, rebuild, writer, stopVars, repo, starts>>

BeginWindow(p) ==
    /\ pc' = [pc EXCEPT ![p] = "outer"]
    /\ left' = [left EXCEPT ![p] = Domains]

-----------------------------------------------------------------------------
allPluginsHave(w) == \A d \in Domains : <<w, d>> \in repo

(* LoadWindow, one window after the other: it is built unless every plugin *)
(* has it already.                                                         *)
Load ==
    /\ build = "load"
    /\ pc["build"] = "off"
    /\ win["build"] <= LastWindow
    /\ CanRead
    /\ \/ /\ allPluginsHave(win["build"])
          /\ win' = [win EXCEPT !["build"] = @ + 1]
          /\ UNCHANGED <<pc, left>>
       \/ /\ ~allPluginsHave(win["build"])
          /\ BeginWindow("build")
          /\ UNCHANGED win
    /\ UNCHANGED <<vars, build, buildExit, domain, rebuild, writer, stopVars, repo, starts>>

(* Mutant of Loaded: the goroutine does not wait for the exit message. *)
LoadedReturns ==
    /\ build = "load"
    /\ win["build"] > LastWindow
    /\ build' = "done"
    /\ UNCHANGED <<vars, buildExit, workVars, rebuild, writer, stopVars, repo, starts>>

(* "In order to be able to Stop, we have to wait on an exit message here". *)
Loaded ==
    /\ build = "load"
    /\ win["build"] > LastWindow
    /\ build' = "await"
    /\ UNCHANGED <<vars, buildExit, workVars, rebuild, writer, stopVars, repo, starts>>

TakeBuildExit ==
    /\ build = "await"
    /\ buildExit
    /\ build' = "done"
    /\ buildExit' = FALSE
    /\ UNCHANGED <<vars, workVars, rebuild, writer, stopVars, repo, starts>>

-----------------------------------------------------------------------------
(* The run loop: a tick begins a job, which builds the windows from        *)
(* RunFrom on, and then kicks the ticker off again.                        *)
JobBegins(t) ==
    /\ Deliver(t)
    /\ win' = [win EXCEPT !["run"] = RunFrom]
    /\ UNCHANGED <<build, buildExit, pc, left, domain, rebuild, writer, stopVars, repo, starts>>

RunWindow ==
    /\ loop = "job"
    /\ pc["run"] = "off"
    /\ win["run"] <= LastWindow
    /\ BeginWindow("run")
    /\ UNCHANGED <<vars, build, buildExit, win, domain, rebuild, writer, stopVars, repo, starts>>

JobEnds ==
    /\ JobDone
    /\ pc["run"] = "off"
    /\ win["run"] > LastWindow
    /\ win' = [win EXCEPT !["run"] = 1]
    /\ UNCHANGED <<build, buildExit, pc, left, domain, rebuild, writer, stopVars, repo, starts>>

(* Rebuild of a domain: the client is looked up under the read lock, which *)
(* is released before the call.                                            *)
RebuildBegins(d) ==
    /\ rebuild = None
    /\ CanRead
    /\ rebuild' = d
    /\ UNCHANGED <<vars, build, buildExit, workVars, writer, stopVars, repo, starts>>

RebuildAnswers ==
    /\ rebuild # None
    /\ Answer(Windows \X {rebuild})
    /\ rebuild' = None
    /\ UNCHANGED <<vars, build, buildExit, workVars, writer, stopVars, starts>>

-----------------------------------------------------------------------------
(* Mutant of Stop: the build goroutine gets no message. *)
StopRunOnly(c) ==
    /\ stopper[c] = "idle"
    /\ \/ /\ isStopping
          /\ stopper' = [stopper EXCEPT ![c] = "returned"]
          /\ UNCHANGED <<isStopping, exit, buildExit>>
       \/ /\ ~isStopping
          /\ isStopping' = TRUE
          /\ exit' = TRUE
          /\ stopper' = [stopper EXCEPT ![c] = "wait"]
          /\ UNCHANGED buildExit
    /\ UNCHANGED <<kicked, tick, mx, closed, loop, build, workVars, rebuild, writer, isRunning, repo, starts>>

(* Stop: a second caller returns; the first sends a message on each of the *)
(* channels, which are there since the first Start ...                     *)
Stop(c) ==
    /\ stopper[c] = "idle"
    /\ \/ /\ isStopping
          /\ stopper' = [stopper EXCEPT ![c] = "returned"]
          /\ UNCHANGED <<isStopping, exit, buildExit>>
       \/ /\ ~isStopping
          /\ isStopping' = TRUE
          /\ exit' = TRUE
          /\ buildExit' = TRUE
          /\ stopper' = [stopper EXCEPT ![c] = "wait"]
    /\ UNCHANGED <<kicked, tick, mx, closed, loop, build, workVars, rebuild, writer, isRunning, repo, starts>>

(* ... waits until both are received, and asks for the write lock ... *)
StopWaited(c) ==
    /\ stopper[c] = "wait"
    /\ ~exit /\ ~buildExit
    /\ stopper' = [stopper EXCEPT ![c] = "lock"]
    /\ writer' = "pending"
    /\ UNCHANGED <<vars, build, buildExit, workVars, rebuild, isRunning, isStopping, repo, starts>>

StopLock(c) ==
    /\ stopper[c] = "lock"
    /\ \A p \in Workers : ~Holding(p)
    /\ stopper' = [stopper EXCEPT ![c] = "kill"]
    /\ writer' = "held"
    /\ UNCHANGED <<vars, build, buildExit, workVars, rebuild, isRunning, isStopping, repo, starts>>

(* ... kills the plugins, and is done. *)
StopDone(c) ==
    /\ stopper[c] = "kill"
    /\ stopper' = [stopper EXCEPT ![c] = "returned"]
    /\ writer' = "none"
    /\ isRunning' = FALSE
    /\ isStopping' = FALSE
    /\ UNCHANGED <<vars, build, buildExit, workVars, rebuild, repo, starts>>

(* Start after a Stop, with new channels and a new ticker; nobody is in    *)
(* Stop. The old ticker's goroutines concern nobody any more.              *)
Start ==
    /\ ~isRunning
    /\ \A c \in Callers : stopper[c] \in {"idle", "returned"}
    /\ starts < MaxStarts
    /\ starts' = starts + 1
    /\ isRunning' = TRUE
    /\ stopper' = [c \in Callers |-> "idle"]
    /\ build' = "load"
    /\ win' = [p \in Workers |-> 1]
    /\ kicked' = 1
    /\ tick' = [t \in Ticks |-> IF t = 1 THEN "sleep" ELSE "none"]
    /\ mx' = Free
    /\ closed' = FALSE
    /\ loop' = "select"
    /\ UNCHANGED <<exit, buildExit, pc, left, domain, rebuild, writer, isStopping, repo>>

(* A goroutine each, but for the handlers and the callers of Stop. *)
WorkerStep(p) == OuterLock(p) \/ Lookup(p) \/ Call(p) \/ OuterUnlock(p)
BuildStep == Load \/ Loaded \/ TakeBuildExit \/ WorkerStep("build")
ExitStep == TakeExit /\ UNCHANGED customVars
RunStep ==
    \/ \E t \in Ticks : JobBegins(t)
    \/ RunWindow \/ WorkerStep("run") \/ JobEnds
    \/ (CloseLock \/ CloseDone) /\ UNCHANGED customVars
TickStep == (\E t \in Ticks : Wake(t) \/ Lock(t)) /\ UNCHANGED customVars
StopStep(c) == StopWaited(c) \/ StopLock(c) \/ StopDone(c)

CustomNext ==
    \/ BuildStep \/ RunStep \/ ExitStep \/ TickStep
    \/ \E d \in Domains : RebuildBegins(d)
    \/ RebuildAnswers
    \/ \E c \in Callers : Stop(c) \/ StopStep(c)
    \/ Start

CustomSpec == CustomInit /\ [][CustomNext]_allVars

(* Sleeps end, plugins answer, and a goroutine that can go on again and    *)
(* again does (so a mutex is acquired in the end); an exit message that is *)
(* being sent is not overlooked for ever by the select that could receive  *)
(* it. Nobody has to call Stop, Start or Rebuild.                          *)
CustomFairSpec ==
    /\ CustomSpec
    /\ SF_allVars(BuildStep) /\ SF_allVars(RunStep) /\ SF_allVars(ExitStep)
    /\ SF_allVars(TickStep) /\ WF_allVars(RebuildAnswers)
    /\ \A c \in Callers : SF_allVars(StopStep(c))

-----------------------------------------------------------------------------
(* Once Stop has marked the ingestor as not running, and until the next    *)
(* Start, neither the build nor the run goroutine stores anything; only a  *)
(* rebuild that was under way may.                                         *)
QuietAfterStop ==
    [][~isRunning /\ repo' # repo => rebuild # None /\ rebuild' = None]_allVars

(* Stop of a running ingestor returns, whatever the build, the run and the *)
(* rebuilds are doing: in particular the write lock is never asked for     *)
(* between the outer and the inner read lock of BuildWindow. (A loop whose *)
(* ticks are used up by the bound does not go on.)                         *)
StopReturns ==
    \A c \in Callers :
        (stopper[c] = "wait" /\ isRunning) ~> (stopper[c] = "returned" \/ kicked = MaxTicks)

(* "Concurrent Stop() calls deadlocked" is what ingestor_test.go fails     *)
(* with: two callers of Stop both return, in whatever order they come.     *)
EveryStopReturns ==
    \A c \in Callers :
        stopper[c] = "wait" ~> (stopper[c] # "wait" \/ kicked = MaxTicks)
=============================================================================

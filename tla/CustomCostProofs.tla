-------------------------- MODULE CustomCostProofs --------------------------
(***************************************************************************)
(* The safety properties of the job ticker, for any number of ticks, by    *)
(* itself and in the custom cost ingestor, and those of the ingestor's     *)
(* Stop, for any plugins, windows, callers and restarts.                   *)
(***************************************************************************)
EXTENDS CustomCost, TLAPS

(* The ticks kicked off so far but the last are over, later ones do not    *)
(* exist; the last is outstanding while the loop selects and over while    *)
(* the job runs. The channel is closed when the loop is done.              *)
Schedule ==
    /\ kicked \in Ticks
    /\ \A t \in Ticks : /\ t > kicked => tick[t] = "none"
                        /\ t < kicked => tick[t] = "done"
    /\ loop = "select" => tick[kicked] \in {"sleep", "lock", "send"}
    /\ loop = "job" => tick[kicked] = "done"
    /\ closed <=> loop = "done"

Inv == TypeOK /\ LockHeld /\ NoSendOnClosed /\ Schedule

(* The lock owner is one of the ticks, the loop, or nobody. *)
LEMMA OwnersDiffer == Free \notin Ticks /\ Loop \notin Ticks /\ Free # Loop
  BY MaxTicksAssumption DEF Free, Loop, Ticks

(* Inv holds whenever the loop begins, with a new ticker. *)
Begins ==
    /\ kicked = 1
    /\ tick = [t \in Ticks |-> IF t = 1 THEN "sleep" ELSE "none"]
    /\ mx = Free
    /\ closed = FALSE
    /\ loop = "select"
    /\ exit \in BOOLEAN

LEMMA InvBegins == Begins => Inv
  <1> SUFFICES ASSUME Begins PROVE Inv
    OBVIOUS
  <1> USE MaxTicksAssumption, OwnersDiffer DEF Begins
  <1>1. TypeOK
    <2>1. tick \in [Ticks -> TickPCs]
      BY DEF TickPCs
    <2>2. kicked \in 0 .. MaxTicks
      OBVIOUS
    <2> QED BY <2>1, <2>2 DEF TypeOK, LoopPCs
  <1>2. LockHeld /\ NoSendOnClosed
    BY DEF LockHeld, NoSendOnClosed
  <1>3. Schedule
    BY DEF Schedule, Ticks
  <1> QED BY <1>1, <1>2, <1>3 DEF Inv

(* The job ticker begins this way ... *)
LEMMA InvInit == Init => Inv
  <1>1. Init => Begins
    BY DEF Init, Begins
  <1> QED BY <1>1, InvBegins

(* Inv is inductive. *)
LEMMA InvNext == Inv /\ [Next]_vars => Inv'
  <1> SUFFICES ASSUME Inv, [Next]_vars PROVE Inv'
    OBVIOUS
  <1> USE MaxTicksAssumption, OwnersDiffer
  <1>1. ASSUME NEW t \in Ticks, Wake(t) PROVE Inv'
    BY <1>1 DEF Inv, TypeOK, LockHeld, NoSendOnClosed, Schedule, Ticks, TickPCs, LoopPCs, Wake
  <1>2. ASSUME NEW t \in Ticks, Lock(t) PROVE Inv'
    <2>1. CASE closed
      BY <1>2, <2>1 DEF Inv, TypeOK, LockHeld, NoSendOnClosed, Schedule, Ticks, TickPCs, LoopPCs, Lock
    <2>2. CASE ~closed
      BY <1>2, <2>2 DEF Inv, TypeOK, LockHeld, NoSendOnClosed, Schedule, Ticks, TickPCs, LoopPCs, Lock
    <2> QED BY <2>1, <2>2
  <1>3. ASSUME NEW t \in Ticks, Deliver(t) PROVE Inv'
    BY <1>3 DEF Inv, TypeOK, LockHeld, NoSendOnClosed, Schedule, Ticks, TickPCs, LoopPCs, Deliver
  <1>4. CASE JobDone
    BY <1>4 DEF Inv, TypeOK, LockHeld, NoSendOnClosed, Schedule, Ticks, TickPCs, LoopPCs, JobDone
  <1>5. CASE RequestExit
    BY <1>5 DEF Inv, TypeOK, LockHeld, NoSendOnClosed, Schedule, Ticks, TickPCs, LoopPCs, RequestExit
  <1>6. CASE TakeExit
    BY <1>6 DEF Inv, TypeOK, LockHeld, NoSendOnClosed, Schedule, Ticks, TickPCs, LoopPCs, TakeExit
  <1>7. CASE CloseLock
    BY <1>7 DEF Inv, TypeOK, LockHeld, NoSendOnClosed, Schedule, Ticks, TickPCs, LoopPCs, CloseLock
  <1>8. CASE CloseDone
    BY <1>8 DEF Inv, TypeOK, LockHeld, NoSendOnClosed, Schedule, Ticks, TickPCs, LoopPCs, CloseDone
  <1>9. CASE UNCHANGED vars
    BY <1>9 DEF Inv, TypeOK, LockHeld, NoSendOnClosed, Schedule, vars
  <1> QED
    BY <1>1, <1>2, <1>3, <1>4, <1>5, <1>6, <1>7, <1>8, <1>9 DEF Next

(* ... so its invariant always holds. *)
LEMMA InvHolds == Spec => []Inv
  BY InvInit, InvNext, PTL DEF Spec

(* No tick is ever sent on the closed channel, however late its goroutine  *)
(* wakes up: TickIn tests closed under the mutex that Close takes.         *)
THEOREM NoSendOnClosedHolds == Spec => []NoSendOnClosed
  <1>1. Inv => NoSendOnClosed
    BY DEF Inv
  <1> QED BY InvHolds, <1>1, PTL

(* One tick is outstanding while the loop waits and none while it works.   *)
THEOREM OneTickPerJobHolds == Spec => []OneTickPerJob
  <1>1. Inv => OneTickPerJob
    BY DEF Inv, TypeOK, Schedule, OneTickPerJob, Outstanding, Ticks
  <1> QED BY InvHolds, <1>1, PTL

-----------------------------------------------------------------------------
(* The custom cost ingestor. *)
Stages == {"idle", "wait", "lock", "kill", "returned"}

CustomTypeOK ==
    /\ build \in {"load", "await", "done"}
    /\ buildExit \in BOOLEAN
    /\ pc \in [Workers -> {"off", "outer", "inner", "call"}]
    /\ win \in [Workers -> 1 .. LastWindow + 1]
    /\ left \in [Workers -> SUBSET Domains]
    /\ domain \in [Workers -> Domains \cup {None}]
    /\ rebuild \in Domains \cup {None}
    /\ writer \in {"none", "pending", "held"}
    /\ stopper \in [Callers -> Stages]
    /\ isRunning \in BOOLEAN
    /\ isStopping \in BOOLEAN
    /\ repo \subseteq Windows \X Domains
    /\ starts \in 0 .. MaxStarts

RunEnded == loop \in {"close", "closing", "done"}
Ended == build = "done" /\ RunEnded

(* A goroutine is in BuildWindow only while it has a window to build, and  *)
(* calls a plugin of the ingestor.                                         *)
Working ==
    /\ pc["build"] # "off" => build = "load" /\ win["build"] <= LastWindow
    /\ pc["run"] # "off" => loop = "job" /\ win["run"] <= LastWindow
    /\ \A p \in Workers : pc[p] = "call" => domain[p] \in Domains

(* A message that Stop has sent is pending or its goroutine has ended, and *)
(* when Stop gets to the write lock, and until the next Start, both have.  *)
Stopping ==
    /\ \A c \in Callers : stopper[c] = "wait" => (exit \/ RunEnded) /\ (buildExit \/ build = "done")
    /\ \A c \in Callers : stopper[c] \in {"lock", "kill"} => Ended
    /\ writer # "none" => \E c \in Callers : stopper[c] \in {"lock", "kill"}
    /\ ~isRunning => Ended

CInv == Inv /\ CustomTypeOK /\ Working /\ Stopping

(* The ticker keeps its invariant in the ingestor: a step of the ingestor  *)
(* is one of the ticker, leaves it alone, sends the exit message or begins *)
(* with a new ticker.                                                      *)
LEMMA InvCustom ==
  ASSUME Inv, [CustomNext]_allVars
  PROVE  Inv'
  <1>1. CASE Next \/ UNCHANGED vars
    BY <1>1, InvNext
  <1>2. ASSUME NEW c \in Callers, Stop(c) PROVE Inv'
    <2>1. UNCHANGED <<kicked, tick, mx, closed, loop>>
      BY <1>2 DEF Stop
    <2>2. exit' \in BOOLEAN
      BY <1>2 DEF Stop, Inv, TypeOK
    <2> QED BY <2>1, <2>2 DEF Inv, TypeOK, LockHeld, NoSendOnClosed, Schedule
  <1>3. CASE Start
    <2>1. Inv /\ Start => Begins'
      BY DEF Start, Begins, Inv, TypeOK
    <2>2. Begins'
      BY <1>3, <2>1
    <2>3. Begins' => Inv'
      BY InvBegins, PTL
    <2> QED BY <2>2, <2>3
  <1>4. CASE RunStep
    BY <1>1, <1>4 DEF RunStep, JobBegins, RunWindow, WorkerStep, OuterLock, Lookup, Call, OuterUnlock, JobEnds, Next
  <1>5. CASE BuildStep \/ ExitStep \/ TickStep
    BY <1>1, <1>5 DEF BuildStep, Load, Loaded, TakeBuildExit, WorkerStep, OuterLock, Lookup, Call, OuterUnlock,
       ExitStep, TickStep, Next
  <1>6. CASE RebuildAnswers \/ \E d \in Domains : RebuildBegins(d)
    BY <1>1, <1>6 DEF RebuildAnswers, RebuildBegins
  <1>7. ASSUME NEW c \in Callers, StopStep(c) PROVE Inv'
    BY <1>1, <1>7 DEF StopStep, StopWaited, StopLock, StopDone
  <1>8. CASE UNCHANGED allVars
    BY <1>1, <1>8 DEF allVars
  <1> QED BY <1>2, <1>3, <1>4, <1>5, <1>6, <1>7, <1>8 DEF CustomNext

(* What the ingestor begins with. *)
LEMMA CInvInit == CustomInit => CInv
  <1> SUFFICES ASSUME CustomInit PROVE CInv
    OBVIOUS
  <1>1. Inv
    BY InvInit DEF CustomInit
  <1>2. CustomTypeOK
    <2>1. buildExit \in BOOLEAN /\ isRunning \in BOOLEAN /\ isStopping \in BOOLEAN
      BY DEF CustomInit
    <2>2. starts \in 0 .. MaxStarts /\ 1 \in 1 .. LastWindow + 1
      BY CustomCostAssumption DEF CustomInit
    <2> QED BY <2>1, <2>2 DEF CustomInit, CustomTypeOK, Stages
  <1>3. Working
    BY DEF CustomInit, Working, Workers
  <1>4. Stopping
    BY DEF CustomInit, Stopping
  <1> QED BY <1>1, <1>2, <1>3, <1>4 DEF CInv

(* BuildWindow, in either goroutine. *)
LEMMA WorkerCInv ==
  ASSUME CInv, NEW p \in Workers, WorkerStep(p)
  PROVE  CustomTypeOK' /\ Working' /\ Stopping'
  <1>1. UNCHANGED <<vars, build, buildExit, rebuild, writer, stopper, isRunning, isStopping, starts>>
    BY DEF WorkerStep, OuterLock, Lookup, Call, OuterUnlock, stopVars
  <1>2. UNCHANGED <<loop, exit>>
    BY <1>1 DEF vars
  <1>3. Stopping'
    BY <1>1, <1>2 DEF CInv, Stopping, Ended, RunEnded
  <1>4. pc[p] # "off" => win[p] <= LastWindow
    BY DEF CInv, Working, Workers
  <1>5. CASE OuterLock(p)
    <2>1. pc[p] = "outer" /\ pc' = [pc EXCEPT ![p] = "inner"] /\ UNCHANGED <<win, left, domain, repo>>
      BY <1>5 DEF OuterLock
    <2>2. CustomTypeOK'
      BY <1>1, <2>1 DEF CInv, CustomTypeOK
    <2>3. Working'
      BY <1>1, <1>2, <2>1 DEF CInv, CustomTypeOK, Working
    <2> QED BY <1>3, <2>2, <2>3
  <1>6. CASE Lookup(p)
    <2>1. PICK d \in left[p] : domain' = [domain EXCEPT ![p] = d]
      BY <1>6 DEF Lookup
    <2>2. pc[p] = "inner" /\ pc' = [pc EXCEPT ![p] = "call"] /\ UNCHANGED <<win, left, repo>>
      BY <1>6 DEF Lookup
    <2>3. d \in Domains
      BY DEF CInv, CustomTypeOK
    <2>4. CustomTypeOK'
      BY <1>1, <2>1, <2>2, <2>3 DEF CInv, CustomTypeOK
    <2>5. Working'
      BY <1>1, <1>2, <2>1, <2>2, <2>3 DEF CInv, CustomTypeOK, Working
    <2> QED BY <1>3, <2>4, <2>5
  <1>7. CASE Call(p)
    <2>1. /\ pc[p] = "call" /\ pc' = [pc EXCEPT ![p] = "inner"] /\ UNCHANGED win
          /\ left' = [left EXCEPT ![p] = @ \ {domain[p]}]
          /\ domain' = [domain EXCEPT ![p] = None]
          /\ Answer({<<win[p], domain[p]>>})
      BY <1>7 DEF Call
    <2>2. win[p] \in Windows /\ domain[p] \in Domains
      <3>1. win[p] \in 1 .. LastWindow + 1 /\ win[p] <= LastWindow
        BY <1>4, <2>1 DEF CInv, CustomTypeOK
      <3> QED BY <2>1, <3>1, CustomCostAssumption DEF CInv, Working, Windows
    <2>3. repo' \subseteq Windows \X Domains
      BY <2>1, <2>2 DEF Answer, CInv, CustomTypeOK
    <2>4. left' \in [Workers -> SUBSET Domains]
      BY <2>1 DEF CInv, CustomTypeOK
    <2>5. CustomTypeOK'
      BY <1>1, <2>1, <2>3, <2>4 DEF CInv, CustomTypeOK
    <2>6. Working'
      BY <1>1, <1>2, <2>1 DEF CInv, CustomTypeOK, Working
    <2> QED BY <1>3, <2>5, <2>6
  <1>8. CASE OuterUnlock(p)
    <2>1. /\ pc[p] = "inner" /\ pc' = [pc EXCEPT ![p] = "off"] /\ win' = [win EXCEPT ![p] = @ + 1]
          /\ UNCHANGED <<left, domain, repo>>
      BY <1>8 DEF OuterUnlock
    <2>2. win[p] + 1 \in 1 .. LastWindow + 1
      BY <1>4, <2>1, CustomCostAssumption DEF CInv, CustomTypeOK
    <2>3. CustomTypeOK'
      BY <1>1, <2>1, <2>2 DEF CInv, CustomTypeOK
    <2>4. Working'
      BY <1>1, <1>2, <2>1 DEF CInv, CustomTypeOK, Working
    <2> QED BY <1>3, <2>3, <2>4
  <1> QED BY <1>5, <1>6, <1>7, <1>8 DEF WorkerStep

(* The build goroutine. *)
LEMMA BuildCInv ==
  ASSUME CInv, Load \/ Loaded \/ TakeBuildExit
  PROVE  CustomTypeOK' /\ Working' /\ Stopping'
  <1>0. "build" \in Workers /\ "run" \in Workers
    BY DEF Workers
  <1>1. UNCHANGED <<loop, exit, domain, rebuild, writer, stopper, isRunning, isStopping, repo, starts>>
    BY DEF Load, Loaded, TakeBuildExit, workVars, stopVars, vars
  <1>2. CASE Load
    <2>1. build = "load" /\ pc["build"] = "off" /\ win["build"] <= LastWindow /\ UNCHANGED <<build, buildExit>>
      BY <1>2 DEF Load
    <2>2. Stopping'
      BY <1>1, <2>1 DEF CInv, Stopping, Ended, RunEnded
    <2>3. CASE win' = [win EXCEPT !["build"] = @ + 1] /\ UNCHANGED <<pc, left>>
      <3>1. win["build"] + 1 \in 1 .. LastWindow + 1
        BY <1>0, <2>1, CustomCostAssumption DEF CInv, CustomTypeOK
      <3>2. CustomTypeOK'
        BY <1>0, <1>1, <2>1, <2>3, <3>1 DEF CInv, CustomTypeOK
      <3>3. Working'
        BY <1>0, <1>1, <2>1, <2>3 DEF CInv, CustomTypeOK, Working
      <3> QED BY <2>2, <3>2, <3>3
    <2>4. CASE BeginWindow("build") /\ UNCHANGED win
      <3>1. pc' = [pc EXCEPT !["build"] = "outer"] /\ left' = [left EXCEPT !["build"] = Domains]
        BY <2>4 DEF BeginWindow
      <3>2. CustomTypeOK'
        BY <1>0, <1>1, <2>1, <2>4, <3>1 DEF CInv, CustomTypeOK
      <3>3. Working'
        BY <1>0, <1>1, <2>1, <2>4, <3>1 DEF CInv, CustomTypeOK, Working
      <3> QED BY <2>2, <3>2, <3>3
    <2> QED BY <1>2, <2>3, <2>4 DEF Load
  <1>3. CASE Loaded
    <2>1. build = "load" /\ win["build"] > LastWindow /\ build' = "await" /\ UNCHANGED <<buildExit, pc, win, left>>
      BY <1>3 DEF Loaded, workVars
    <2>2. pc["build"] = "off"
      BY <1>0, <2>1, CustomCostAssumption DEF CInv, CustomTypeOK, Working
    <2>3. CustomTypeOK'
      BY <1>1, <2>1 DEF CInv, CustomTypeOK
    <2>4. Working'
      BY <1>1, <2>1, <2>2 DEF CInv, Working
    <2>5. Stopping'
      BY <1>1, <2>1 DEF CInv, Stopping, Ended, RunEnded
    <2> QED BY <2>3, <2>4, <2>5
  <1>4. CASE TakeBuildExit
    <2>1. build = "await" /\ build' = "done" /\ buildExit' = FALSE /\ UNCHANGED <<pc, win, left>>
      BY <1>4 DEF TakeBuildExit, workVars
    <2>2. CustomTypeOK'
      <3>1. buildExit' \in BOOLEAN
        BY <2>1
      <3> QED BY <1>1, <2>1, <3>1 DEF CInv, CustomTypeOK
    <2>3. Working'
      BY <1>1, <2>1 DEF CInv, Working
    <2>4. Stopping'
      BY <1>1, <2>1 DEF CInv, Stopping, Ended, RunEnded
    <2> QED BY <2>2, <2>3, <2>4
  <1> QED BY <1>2, <1>3, <1>4

(* The run goroutine and the goroutines of the ticker. *)
LEMMA RunCInv ==
  ASSUME CInv, RunStep \/ ExitStep \/ TickStep, ~WorkerStep("run")
  PROVE  CustomTypeOK' /\ Working' /\ Stopping'
  <1>0. "build" \in Workers /\ "run" \in Workers
    BY DEF Workers
  <1>1. UNCHANGED <<build, buildExit, domain, rebuild, writer, stopper, isRunning, isStopping, repo, starts>>
    BY DEF RunStep, JobBegins, RunWindow, JobEnds, ExitStep, TickStep, stopVars, workVars, customVars
  <1>2. ASSUME NEW t \in Ticks, JobBegins(t) PROVE CustomTypeOK' /\ Working' /\ Stopping'
    <2>1. /\ loop = "select" /\ loop' = "job" /\ exit' = exit /\ win' = [win EXCEPT !["run"] = RunFrom]
          /\ UNCHANGED <<pc, left>>
      BY <1>2 DEF JobBegins, Deliver
    <2>2. RunFrom \in 1 .. LastWindow + 1
      BY CustomCostAssumption
    <2>3. CustomTypeOK'
      BY <1>0, <1>1, <2>1, <2>2 DEF CInv, CustomTypeOK
    <2>4. Working'
      BY <1>0, <1>1, <2>1 DEF CInv, CustomTypeOK, Working
    <2>5. Stopping'
      BY <1>1, <2>1 DEF CInv, Stopping, Ended, RunEnded
    <2> QED BY <2>3, <2>4, <2>5
  <1>3. CASE RunWindow
    <2>1. /\ loop = "job" /\ pc["run"] = "off" /\ win["run"] <= LastWindow /\ UNCHANGED <<loop, exit, win>>
          /\ pc' = [pc EXCEPT !["run"] = "outer"] /\ left' = [left EXCEPT !["run"] = Domains]
      BY <1>3 DEF RunWindow, BeginWindow, vars
    <2>2. CustomTypeOK'
      BY <1>0, <1>1, <2>1 DEF CInv, CustomTypeOK
    <2>3. Working'
      BY <1>0, <1>1, <2>1 DEF CInv, CustomTypeOK, Working
    <2>4. Stopping'
      BY <1>1, <2>1 DEF CInv, Stopping, Ended, RunEnded
    <2> QED BY <2>2, <2>3, <2>4
  <1>4. CASE JobEnds
    <2>1. /\ loop = "job" /\ loop' = "select" /\ exit' = exit /\ pc["run"] = "off"
          /\ win' = [win EXCEPT !["run"] = 1] /\ UNCHANGED <<pc, left>>
      BY <1>4 DEF JobEnds, JobDone
    <2>2. 1 \in 1 .. LastWindow + 1
      BY CustomCostAssumption
    <2>3. CustomTypeOK'
      BY <1>0, <1>1, <2>1, <2>2 DEF CInv, CustomTypeOK
    <2>4. Working'
      BY <1>0, <1>1, <2>1 DEF CInv, CustomTypeOK, Working
    <2>5. Stopping'
      BY <1>1, <2>1 DEF CInv, Stopping, Ended, RunEnded
    <2> QED BY <2>3, <2>4, <2>5
  <1>5. CASE (CloseLock \/ CloseDone \/ TakeExit \/ \E t \in Ticks : Wake(t) \/ Lock(t)) /\ UNCHANGED customVars
    <2>1. /\ UNCHANGED <<pc, win, left>>
          /\ loop' = loop \/ (loop # "job" /\ RunEnded')
          /\ exit' = exit \/ RunEnded'
          /\ RunEnded => RunEnded'
      BY <1>5 DEF CloseLock, CloseDone, TakeExit, Wake, Lock, RunEnded, customVars, workVars
    <2>2. CustomTypeOK'
      BY <1>1, <2>1 DEF CInv, CustomTypeOK
    <2>3. Working'
      BY <1>1, <2>1 DEF CInv, Working
    <2>4. Stopping'
      BY <1>1, <2>1 DEF CInv, Stopping, Ended
    <2> QED BY <2>2, <2>3, <2>4
  <1> QED BY <1>2, <1>3, <1>4, <1>5 DEF RunStep, ExitStep, TickStep

(* The handlers that rebuild. *)
LEMMA RebuildCInv ==
  ASSUME CInv, RebuildAnswers \/ \E d \in Domains : RebuildBegins(d)
  PROVE  CustomTypeOK' /\ Working' /\ Stopping'
  <1>1. UNCHANGED <<loop, exit, build, buildExit, pc, win, left, domain, writer, stopper, isRunning, isStopping, starts>>
    BY DEF RebuildAnswers, RebuildBegins, workVars, stopVars, vars
  <1>2. rebuild' \in Domains \cup {None}
    BY DEF RebuildAnswers, RebuildBegins
  <1>3. repo' \subseteq Windows \X Domains
    <2>1. CASE RebuildAnswers
      BY <2>1 DEF RebuildAnswers, Answer, CInv, CustomTypeOK
    <2>2. CASE \E d \in Domains : RebuildBegins(d)
      BY <2>2 DEF RebuildBegins, CInv, CustomTypeOK
    <2> QED BY <2>1, <2>2
  <1>4. CustomTypeOK'
    BY <1>1, <1>2, <1>3 DEF CInv, CustomTypeOK
  <1>5. Working' /\ Stopping'
    BY <1>1 DEF CInv, Working, Stopping, Ended, RunEnded
  <1> QED BY <1>4, <1>5

(* Stop, in its stages. *)
LEMMA StopCInv ==
  ASSUME CInv, NEW c \in Callers, Stop(c) \/ StopStep(c)
  PROVE  CustomTypeOK' /\ Working' /\ Stopping'
  <1>1. UNCHANGED <<loop, build, pc, win, left, domain, rebuild, repo, starts>>
    BY DEF Stop, StopStep, StopWaited, StopLock, StopDone, workVars, vars
  <1>2. Working'
    BY <1>1 DEF CInv, Working
  <1>3. (Ended' <=> Ended) /\ (RunEnded' <=> RunEnded)
    BY <1>1 DEF Ended, RunEnded
  <1>4. CASE Stop(c) /\ isStopping
    <2>1. /\ stopper[c] = "idle" /\ stopper' = [stopper EXCEPT ![c] = "returned"]
          /\ UNCHANGED <<isStopping, exit, buildExit, writer, isRunning>>
      BY <1>4 DEF Stop
    <2>2. \A e \in Callers : stopper'[e] = IF e = c THEN "returned" ELSE stopper[e]
      BY <2>1 DEF CInv, CustomTypeOK
    <2>3. CustomTypeOK'
      BY <1>1, <2>1 DEF CInv, CustomTypeOK, Stages
    <2>4. Stopping'
      BY <1>1, <1>3, <2>1, <2>2 DEF CInv, Stopping
    <2> QED BY <1>2, <2>3, <2>4
  <1>5. CASE Stop(c) /\ ~isStopping
    <2>1. /\ stopper[c] = "idle" /\ stopper' = [stopper EXCEPT ![c] = "wait"]
          /\ isStopping' = TRUE /\ exit' = TRUE /\ buildExit' = TRUE /\ UNCHANGED <<writer, isRunning>>
      BY <1>5 DEF Stop
    <2>2. \A e \in Callers : stopper'[e] = IF e = c THEN "wait" ELSE stopper[e]
      BY <2>1 DEF CInv, CustomTypeOK
    <2>3. CustomTypeOK'
      <3>1. isStopping' \in BOOLEAN /\ buildExit' \in BOOLEAN
        BY <2>1
      <3> QED BY <1>1, <2>1, <3>1 DEF CInv, CustomTypeOK, Stages
    <2>4. Stopping'
      BY <1>1, <1>3, <2>1, <2>2 DEF CInv, Stopping
    <2> QED BY <1>2, <2>3, <2>4
  <1>6. CASE StopWaited(c)
    <2>1. /\ stopper[c] = "wait" /\ ~exit /\ ~buildExit /\ stopper' = [stopper EXCEPT ![c] = "lock"]
          /\ writer' = "pending" /\ UNCHANGED <<exit, buildExit, isRunning, isStopping>>
      BY <1>6 DEF StopWaited, vars
    <2>2. \A e \in Callers : stopper'[e] = IF e = c THEN "lock" ELSE stopper[e]
      BY <2>1 DEF CInv, CustomTypeOK
    <2>3. CustomTypeOK'
      BY <1>1, <2>1 DEF CInv, CustomTypeOK, Stages
    <2>4. Ended
      BY <2>1 DEF CInv, Stopping, Ended
    <2>5. Stopping'
      BY <1>1, <1>3, <2>1, <2>2, <2>4 DEF CInv, Stopping
    <2> QED BY <1>2, <2>3, <2>5
  <1>7. CASE StopLock(c)
    <2>1. /\ stopper[c] = "lock" /\ stopper' = [stopper EXCEPT ![c] = "kill"]
          /\ writer' = "held" /\ UNCHANGED <<exit, buildExit, isRunning, isStopping>>
      BY <1>7 DEF StopLock, vars
    <2>2. \A e \in Callers : stopper'[e] = IF e = c THEN "kill" ELSE stopper[e]
      BY <2>1 DEF CInv, CustomTypeOK
    <2>3. CustomTypeOK'
      BY <1>1, <2>1 DEF CInv, CustomTypeOK, Stages
    <2>4. Stopping'
      BY <1>1, <1>3, <2>1, <2>2 DEF CInv, Stopping
    <2> QED BY <1>2, <2>3, <2>4
  <1>8. CASE StopDone(c)
    <2>1. /\ stopper[c] = "kill" /\ stopper' = [stopper EXCEPT ![c] = "returned"]
          /\ writer' = "none" /\ isRunning' = FALSE /\ isStopping' = FALSE /\ UNCHANGED <<exit, buildExit>>
      BY <1>8 DEF StopDone, vars
    <2>2. \A e \in Callers : stopper'[e] = IF e = c THEN "returned" ELSE stopper[e]
      BY <2>1 DEF CInv, CustomTypeOK
    <2>3. CustomTypeOK'
      <3>1. isRunning' \in BOOLEAN /\ isStopping' \in BOOLEAN
        BY <2>1
      <3> QED BY <1>1, <2>1, <3>1 DEF CInv, CustomTypeOK, Stages
    <2>4. Ended
      BY <2>1 DEF CInv, Stopping
    <2>5. Stopping'
      BY <1>1, <1>3, <2>1, <2>2, <2>4 DEF CInv, Stopping
    <2> QED BY <1>2, <2>3, <2>5
  <1> QED BY <1>4, <1>5, <1>6, <1>7, <1>8 DEF StopStep

(* Start, which finds nobody in Stop. *)
LEMMA StartCInv ==
  ASSUME CInv, Start
  PROVE  CustomTypeOK' /\ Working' /\ Stopping'
  <1>0. "build" \in Workers /\ "run" \in Workers
    BY DEF Workers
  <1>1. /\ ~isRunning /\ \A c \in Callers : stopper[c] \in {"idle", "returned"}
        /\ isRunning' = TRUE /\ stopper' = [c \in Callers |-> "idle"] /\ build' = "load"
        /\ win' = [p \in Workers |-> 1] /\ loop' = "select"
        /\ UNCHANGED <<exit, buildExit, pc, left, domain, rebuild, writer, isStopping, repo>>
    BY DEF Start
  <1>2. pc["build"] = "off" /\ pc["run"] = "off" /\ writer = "none"
    BY <1>0, <1>1 DEF CInv, Working, Stopping, Ended, RunEnded
  <1>3. CustomTypeOK'
    <2>1. starts' \in 0 .. MaxStarts
      BY CustomCostAssumption DEF Start, CInv, CustomTypeOK
    <2>2. win' \in [Workers -> 1 .. LastWindow + 1]
      BY <1>1, CustomCostAssumption
    <2>3. isRunning' \in BOOLEAN
      BY <1>1
    <2> QED BY <1>1, <2>1, <2>2, <2>3 DEF CInv, CustomTypeOK, Stages
  <1>4. Working'
    BY <1>1, <1>2 DEF CInv, Working
  <1>5. Stopping'
    BY <1>1, <1>2 DEF Stopping
  <1> QED BY <1>3, <1>4, <1>5

(* Every step of the ingestor keeps the invariant: the ticker's part by    *)
(* InvCustom, the rest by one lemma per goroutine.                         *)
LEMMA CInvNext == CInv /\ [CustomNext]_allVars => CInv'
  <1> SUFFICES ASSUME CInv, [CustomNext]_allVars PROVE CInv'
    OBVIOUS
  <1>1. Inv'
    BY InvCustom DEF CInv
  <1>2. CASE WorkerStep("build") \/ WorkerStep("run")
    BY <1>1, <1>2, WorkerCInv DEF CInv, Workers
  <1>3. CASE BuildStep /\ ~WorkerStep("build")
    BY <1>1, <1>3, BuildCInv DEF BuildStep, CInv
  <1>4. CASE (RunStep \/ ExitStep \/ TickStep) /\ ~WorkerStep("run")
    BY <1>1, <1>4, RunCInv DEF CInv
  <1>5. CASE RebuildAnswers \/ \E d \in Domains : RebuildBegins(d)
    BY <1>1, <1>5, RebuildCInv DEF CInv
  <1>6. ASSUME NEW c \in Callers, Stop(c) \/ StopStep(c) PROVE CInv'
    BY <1>1, <1>6, StopCInv DEF CInv
  <1>7. CASE Start
    BY <1>1, <1>7, StartCInv DEF CInv
  <1>8. CASE UNCHANGED allVars
    <2>1. UNCHANGED <<loop, exit, build, buildExit, pc, win, left, domain, rebuild, writer, stopper, isRunning,
                      isStopping, repo, starts>>
      BY <1>8 DEF allVars, vars, customVars, workVars, stopVars
    <2> QED BY <1>1, <2>1 DEF CInv, CustomTypeOK, Working, Stopping, Ended, RunEnded
  <1> QED BY <1>2, <1>3, <1>4, <1>5, <1>6, <1>7, <1>8 DEF CustomNext

(* The inductive invariant of the ingestor: while Stop waits each message  *)
(* is pending or received, and from the write lock to the next Start both  *)
(* goroutines have ended.                                                  *)
THEOREM CustomInductive == CustomSpec => []CInv
  BY CInvInit, CInvNext, PTL DEF CustomSpec

(* In the ingestor too, across stops and restarts, no tick is sent on a    *)
(* closed channel.                                                         *)
THEOREM CustomNoSendOnClosed == CustomSpec => []NoSendOnClosed
  <1>1. CInv => NoSendOnClosed
    BY DEF CInv, Inv
  <1> QED BY CustomInductive, <1>1, PTL

(* In the ingestor too, one tick is outstanding while the run loop waits   *)
(* and none while its job builds windows.                                  *)
THEOREM CustomOneTickPerJob == CustomSpec => []OneTickPerJob
  <1>1. CInv => OneTickPerJob
    BY DEF CInv, Inv, TypeOK, Schedule, OneTickPerJob, Outstanding, Ticks
  <1> QED BY CustomInductive, <1>1, PTL

(* The write lock of Stop never meets a reader in BuildWindow: when it is  *)
(* asked for, neither goroutine is between the outer and the inner read    *)
(* lock, where a pending writer would block the goroutine and the          *)
(* goroutine the writer.                                                   *)
WriterMeetsNoReader == writer # "none" => \A p \in Workers : pc[p] = "off"

(* Hence the nested read lock of BuildWindow cannot deadlock with Stop. *)
THEOREM WriterMeetsNoReaderHolds == CustomSpec => []WriterMeetsNoReader
  <1>1. CInv => WriterMeetsNoReader
    BY DEF CInv, Working, Stopping, Ended, RunEnded, WriterMeetsNoReader, Workers
  <1> QED BY CustomInductive, <1>1, PTL

(* Once an ingestor is marked as not running only a rebuild that was under *)
(* way stores anything.                                                    *)
THEOREM QuietAfterStopHolds == CustomSpec => QuietAfterStop
  <1>1. CInv /\ [CustomNext]_allVars =>
          [~isRunning /\ repo' # repo => rebuild # None /\ rebuild' = None]_allVars
    <2> SUFFICES ASSUME CInv, [CustomNext]_allVars, ~isRunning, repo' # repo
                 PROVE  rebuild # None /\ rebuild' = None
      OBVIOUS
    <2>1. \A p \in Workers : pc[p] = "off"
      BY DEF CInv, Working, Stopping, Ended, RunEnded, Workers
    <2>2. ASSUME NEW p \in Workers PROVE ~Call(p)
      BY <2>1 DEF Call
    <2>3. ASSUME NEW p \in Workers PROVE ~WorkerStep(p)
      BY <2>2 DEF WorkerStep, OuterLock, Lookup, OuterUnlock
    <2>4. ~BuildStep
      BY <2>3 DEF BuildStep, Load, Loaded, TakeBuildExit, Workers
    <2>5. ~RunStep
      BY <2>3 DEF RunStep, JobBegins, RunWindow, JobEnds, Workers, customVars
    <2>6. ~ExitStep /\ ~TickStep /\ ~Start /\ ~UNCHANGED allVars
      BY DEF ExitStep, TickStep, Start, allVars, customVars
    <2>7. ASSUME NEW c \in Callers PROVE ~Stop(c) /\ ~StopStep(c)
      BY DEF Stop, StopStep, StopWaited, StopLock, StopDone
    <2>8. \A d \in Domains : ~RebuildBegins(d)
      BY DEF RebuildBegins
    <2>9. RebuildAnswers
      BY <2>4, <2>5, <2>6, <2>7, <2>8 DEF CustomNext
    <2> QED BY <2>9 DEF RebuildAnswers
  <1> QED BY <1>1, CustomInductive, PTL DEF CustomSpec, QuietAfterStop
=============================================================================

----------------------------- MODULE JobTicker ------------------------------
(***************************************************************************)
(* JobTicker (core/pkg/util/timeutil/timeutil.go) with the loop it is made *)
(* for: the run goroutine of the cloud cost and custom cost ingestors      *)
(* (pkg/cloudcost/ingestor.go), which selects between an exit channel and  *)
(* the ticker, kicks the ticker off again after each job, and closes it    *)
(* when it leaves. TickIn's goroutine takes jt.mx and holds it while it is *)
(* blocked in the send on the unbuffered jt.ch.                            *)
(***************************************************************************)
EXTENDS Naturals

CONSTANT MaxTicks   \* bound: calls of TickIn

ASSUME MaxTicksAssumption == MaxTicks \in Nat \ {0}

Ticks == 1 .. MaxTicks
Free == 0            \* jt.mx is not held
Loop == MaxTicks + 1 \* jt.mx is held by the loop, in Close

VARIABLES
    kicked,    \* number of TickIn calls so far
    tick,      \* tick[t]: the goroutine of the t-th TickIn
    mx,        \* who holds jt.mx
    closed,    \* jt.closed
    loop,      \* the run goroutine
    exit       \* an exit message is being sent to it

vars == <<kicked, tick, mx, closed, loop, exit>>

TickPCs == {"none", "sleep", "lock", "send", "done"}
LoopPCs == {"select", "job", "close", "closing", "done"}

TypeOK ==
    /\ kicked \in 0 .. MaxTicks
    /\ tick \in [Ticks -> TickPCs]
    /\ mx \in Ticks \cup {Free, Loop}
    /\ closed \in BOOLEAN
    /\ loop \in LoopPCs
    /\ exit \in BOOLEAN

(* The loop has called TickIn(0) and is at its select. *)
Init ==
    /\ kicked = 1
    /\ tick = [t \in Ticks |-> IF t = 1 THEN "sleep" ELSE "none"]
    /\ mx = Free
    /\ closed = FALSE
    /\ loop = "select"
    /\ exit = FALSE

(* TickIn's goroutine: sleep, lock, test closed, send. *)
Wake(t) ==
    /\ tick[t] = "sleep"
    /\ tick' = [tick EXCEPT ![t] = "lock"]
    /\ UNCHANGED <<kicked, mx, closed, loop, exit>>

(* Mutant of Lock: closed is tested before the lock is taken. *)
LockAfterTest(t) ==
    /\ tick[t] = "lock"
    /\ mx = Free
    /\ mx' = t
    /\ tick' = [tick EXCEPT ![t] = "send"]
    /\ UNCHANGED <<kicked, closed, loop, exit>>

Lock(t) ==
    /\ tick[t] = "lock"
    /\ mx = Free
    /\ IF closed THEN /\ tick' = [tick EXCEPT ![t] = "done"]
                      /\ UNCHANGED mx
                 ELSE /\ tick' = [tick EXCEPT ![t] = "send"]
                      /\ mx' = t
    /\ UNCHANGED <<kicked, closed, loop, exit>>

(* The send meets the select; the goroutine unlocks and ends. *)
Deliver(t) ==
    /\ tick[t] = "send"
    /\ loop = "select"
    /\ loop' = "job"
    /\ tick' = [tick EXCEPT ![t] = "done"]
    /\ mx' = Free
    /\ UNCHANGED <<kicked, closed, exit>>

(* Mutant of JobDone: the ticker is not kicked off again. *)
JobDoneNoTick ==
    /\ loop = "job"
    /\ loop' = "select"
    /\ UNCHANGED <<kicked, tick, mx, closed, exit>>

(* Mutant of JobDone: the ticker is kicked off twice. *)
JobDoneTwice ==
    /\ loop = "job"
    /\ kicked < MaxTicks
    /\ kicked' = kicked + 2
    /\ tick' = [t \in Ticks |-> IF t \in {kicked + 1, kicked + 2} THEN "sleep" ELSE tick[t]]
    /\ loop' = "select"
    /\ UNCHANGED <<mx, closed, exit>>

(* The job is over: TickIn(RefreshRate), back to the select. *)
JobDone ==
    /\ loop = "job"
    /\ kicked < MaxTicks
    /\ kicked' = kicked + 1
    /\ tick' = [tick EXCEPT ![kicked + 1] = "sleep"]
    /\ loop' = "select"
    /\ UNCHANGED <<mx, closed, exit>>

(* Stop's goroutine begins to send the exit message ... *)
RequestExit ==
    /\ ~exit
    /\ loop \in {"select", "job"}
    /\ exit' = TRUE
    /\ UNCHANGED <<kicked, tick, mx, closed, loop>>

(* ... the select receives it and the loop returns ... *)
TakeExit ==
    /\ exit
    /\ loop = "select"
    /\ loop' = "close"
    /\ exit' = FALSE
    /\ UNCHANGED <<kicked, tick, mx, closed>>

(* ... into the deferred ticker.Close(). *)
CloseLock ==
    /\ loop = "close"
    /\ mx = Free
    /\ mx' = Loop
    /\ loop' = "closing"
    /\ UNCHANGED <<kicked, tick, closed, exit>>

CloseDone ==
    /\ loop = "closing"
    /\ closed' = TRUE
    /\ mx' = Free
    /\ loop' = "done"
    /\ UNCHANGED <<kicked, tick, exit>>

Next ==
    \/ \E t \in Ticks : Wake(t) \/ Lock(t) \/ Deliver(t)
    \/ JobDone \/ RequestExit \/ TakeExit \/ CloseLock \/ CloseDone

Spec == Init /\ [][Next]_vars

(* Sleeps end, jobs return, goroutines are scheduled and a mutex that      *)
(* becomes free is acquired. Nobody has to request the exit.               *)
FairSpec ==
    /\ Spec
    /\ \A t \in Ticks : WF_vars(Wake(t)) /\ SF_vars(Lock(t)) /\ WF_vars(Deliver(t))
    /\ WF_vars(JobDone) /\ WF_vars(TakeExit) /\ SF_vars(CloseLock) /\ WF_vars(CloseDone)

-----------------------------------------------------------------------------
(* A tick is never sent on a closed channel (it would panic). *)
NoSendOnClosed == \A t \in Ticks : tick[t] = "send" => ~closed

(* The lock is exclusive and held by exactly the goroutine that is sending *)
(* or closing.                                                             *)
LockHeld ==
    /\ \A t \in Ticks : tick[t] = "send" <=> mx = t
    /\ loop = "closing" <=> mx = Loop

(* "This ticker must be kicked off manually for each tick": one tick is    *)
(* outstanding while the loop waits, none while the job runs, so a job is  *)
(* never followed by a stale tick.                                         *)
Outstanding == {t \in Ticks : tick[t] \in {"sleep", "lock", "send"}}
OneTickPerJob ==
    /\ loop = "select" => Outstanding = {kicked}
    /\ loop = "job" => Outstanding = {}

(* While nobody asks it to exit, a loop at its select gets its next tick. *)
TickArrives == (loop = "select") ~> (loop # "select")

(* "infinitely-looping selects, where a timeout or an exit channel might   *)
(* cancel the process": a loop that took the exit message ends.            *)
ExitCompletes == (loop = "close") ~> (loop = "done")
=============================================================================

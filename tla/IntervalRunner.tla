--------------------------- MODULE IntervalRunner ---------------------------
(***************************************************************************)
(* IntervalRunner (core/pkg/util/interval/intervalrunner.go) on top of     *)
(* AtomicRunState: clients call Start and Stop concurrently, each          *)
(* successful Start spawns a run loop that executes the action on every    *)
(* tick and resets the run state when it receives the stop signal.         *)
(***************************************************************************)
EXTENDS RunState

CONSTANT Clients   \* goroutines that call Start and Stop

VARIABLES
    client,    \* client[c]: where c is inside IntervalRunner.Start
    loop       \* loop[g]: the goroutine of run g

vars == <<rsVars, client, loop>>

Runs == 1 .. MaxRuns
ClientPCs == {"idle", "readReset", "waitReset", "start"}
LoopPCs == {"none", "loop", "select", "action", "reset", "done"}

TypeOK ==
    /\ RSTypeOK
    /\ client \in [Clients -> [pc : ClientPCs, on : Chans]]
    /\ loop \in [Runs -> [pc : LoopPCs, on : Chans]]

Init ==
    /\ RSInit
    /\ client = [c \in Clients |-> [pc |-> "idle", on |-> NoChan]]
    /\ loop = [g \in Runs |-> [pc |-> "none", on |-> NoChan]]

ClientGoto(c, pc, on) == client' = [client EXCEPT ![c] = [pc |-> pc, on |-> on]]
LoopGoto(g, pc, on) == loop' = [loop EXCEPT ![g] = [pc |-> pc, on |-> on]]

-----------------------------------------------------------------------------
(* IntervalRunner.Start: WaitForReset's check ... *)
CallStart(c) ==
    /\ client[c].pc = "idle"
    /\ ClientGoto(c, IF IsStopping THEN "readReset" ELSE "start", NoChan)
    /\ UNCHANGED <<rsVars, loop>>

(* ... its unlocked read of ars.reset ... *)
ReadReset(c) ==
    /\ client[c].pc = "readReset"
    /\ ClientGoto(c, "waitReset", reset)
    /\ UNCHANGED <<rsVars, loop>>

(* ... and the receive, which completes when that channel is closed. *)
ResetSignalled(c) ==
    /\ client[c].pc = "waitReset"
    /\ client[c].on \in resetClosed
    /\ ClientGoto(c, "start", NoChan)
    /\ UNCHANGED <<rsVars, loop>>

(* runState.Start() succeeds: the loop goroutine is spawned. *)
StartLoop(c) ==
    /\ client[c].pc = "start"
    /\ StartRun
    /\ LoopGoto(runs + 1, "loop", NoChan)
    /\ ClientGoto(c, "idle", NoChan)

(* runState.Start() returns false: already running. *)
StartFails(c) ==
    /\ client[c].pc = "start"
    /\ StartRefused
    /\ ClientGoto(c, "idle", NoChan)
    /\ UNCHANGED loop

(* IntervalRunner.Stop. *)
CallStop(c) ==
    /\ client[c].pc = "idle"
    /\ StopRun \/ StopRefused
    /\ UNCHANGED <<client, loop>>

-----------------------------------------------------------------------------
(* The select statement first evaluates OnStop(). The runner never calls   *)
(* it on an idle run state (RunnerOwnsRun), so the buffering branch of     *)
(* OnStop does not arise here.                                             *)
LoopOnStop(g) ==
    /\ loop[g].pc = "loop"
    /\ LoopGoto(g, "select", stop)
    /\ UNCHANGED <<rsVars, client>>

(* case <-ticker.C: fall through to the action. *)
LoopTick(g) ==
    /\ loop[g].pc = "select"
    /\ LoopGoto(g, "action", NoChan)
    /\ UNCHANGED <<rsVars, client>>

(* ir.action() returns and the loop goes back to the select. *)
LoopActionDone(g) ==
    /\ loop[g].pc = "action"
    /\ LoopGoto(g, "loop", NoChan)
    /\ UNCHANGED <<rsVars, client>>

(* case <-OnStop(): the stop channel is closed ... *)
LoopStopSignal(g) ==
    /\ loop[g].pc = "select"
    /\ loop[g].on \in stopClosed
    /\ LoopGoto(g, "reset", NoChan)
    /\ UNCHANGED <<rsVars, client>>

(* ... ticker.Stop(), Reset(), return. *)
LoopReset(g) ==
    /\ loop[g].pc = "reset"
    /\ Reset
    /\ LoopGoto(g, "done", NoChan)
    /\ UNCHANGED client

ClientStep(c) ==
    \/ CallStart(c) \/ ReadReset(c) \/ ResetSignalled(c)
    \/ StartLoop(c) \/ StartFails(c) \/ CallStop(c)

LoopStep(g) ==
    \/ LoopOnStop(g) \/ LoopTick(g) \/ LoopActionDone(g)
    \/ LoopStopSignal(g) \/ LoopReset(g)

Next ==
    \/ \E c \in Clients : ClientStep(c)
    \/ \E g \in Runs : LoopStep(g)
    \/ \E u \in Subscribers : SubscriberStep(u) /\ UNCHANGED <<client, loop>>

Spec == Init /\ [][Next]_vars

(* The scheduler runs every ready goroutine; the action returns; and a     *)
(* select with several ready cases chooses at random, so the stop case,    *)
(* ready at every iteration once the channel is closed, is taken.          *)
Fairness ==
    /\ \A g \in Runs : /\ WF_vars(LoopOnStop(g))
                       /\ WF_vars(LoopActionDone(g))
                       /\ WF_vars(LoopReset(g))
                       /\ SF_vars(LoopStopSignal(g))
    /\ \A c \in Clients : /\ WF_vars(ReadReset(c))
                          /\ WF_vars(ResetSignalled(c))
                          /\ WF_vars(StartLoop(c) \/ StartFails(c))
    /\ \A u \in Subscribers : WF_vars((RelayReadsStop(u) \/ Signal(u)) /\ UNCHANGED <<client, loop>>)

FairSpec == Spec /\ Fairness

-----------------------------------------------------------------------------
Alive(g) == loop[g].pc \in {"loop", "select", "action", "reset"}

(* The action never runs concurrently with itself: however Start and Stop  *)
(* calls of several goroutines interleave with a loop that is still        *)
(* stopping, at most one loop goroutine is alive.                          *)
SingleLoop == \A g, h \in Runs : Alive(g) /\ Alive(h) => g = h

(* A live loop is the one that owns the current stop channel, so it cannot *)
(* miss its own Stop nor reset a later run; and IsRunning is true exactly  *)
(* while a loop is alive.                                                  *)
RunnerOwnsRun ==
    /\ \A g \in Runs : Alive(g) => stop = g
    /\ IsRunning => Alive(stop)

(* Reset never closes a nil or an already closed channel. *)
NoPanic == ~panicked

(* Start() waits at most until the run it saw stopping is reset (or a      *)
(* later one that is itself stopping): the channel a waiter blocks on is   *)
(* always one that its loop still has to close, or has closed.             *)
WaitersAwaitedReset ==
    \A c \in Clients :
        client[c].pc = "waitReset" =>
            \/ client[c].on \in resetClosed
            \/ client[c].on = reset /\ IsStopping /\ Alive(client[c].on)

(* Stop takes effect: a stopping run is eventually reset, even when the    *)
(* ticker competes with the stop signal.                                   *)
StopCompletes == stopping ~> ~stopping

(* "Any attempts to start during the stopping phase will block until it's  *)
(* possible to Start() again": no Start call blocks for ever (MaxRuns      *)
(* bounds the runs explored: a call that would need one more is cut off).  *)
StartReturns ==
    \A c \in Clients :
        (client[c].pc # "idle") ~> (client[c].pc = "idle" \/ runs = MaxRuns)

(* OnStop's comment: "It is set to signal whenever Stop() is executed",    *)
(* for channels handed out before Start as well.                           *)
EverySubscriberSignalled ==
    \A u \in Subscribers :
        (sub[u].pc \in {"spawned", "relaying", "direct"} /\ stopping) ~> (sub[u].pc = "signalled")
=============================================================================

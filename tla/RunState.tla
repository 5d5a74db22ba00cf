------------------------------ MODULE RunState ------------------------------
(***************************************************************************)
(* AtomicRunState (core/pkg/util/atomic/atomicrunstate.go): the start/stop *)
(* latch behind every background loop of OpenCost (IntervalRunner, the     *)
(* scrape and export controllers, ConfigFile's watcher, CacheGroup's       *)
(* expiration).                                                            *)
(*                                                                         *)
(* Every method body runs under ars.lock, so it is one atomic step, except *)
(* the two unlocked reads: the relay goroutine that Start spawns for a     *)
(* buffered OnStop channel reads ars.stop when it is first scheduled, and  *)
(* WaitForReset reads ars.reset after IsStopping has released the lock.    *)
(*                                                                         *)
(* A channel is named by the run that created it: run g (the g-th          *)
(* successful Start) owns stop channel g and reset channel g; NoChan is    *)
(* Go's nil channel, on which a receive blocks for ever.                   *)
(***************************************************************************)
EXTENDS Naturals

CONSTANTS
    Subscribers,   \* goroutines that call OnStop from outside the run loop
    MaxRuns        \* bound: number of successful Starts explored

ASSUME MaxRunsAssumption == MaxRuns \in Nat \ {0}

VARIABLES
    runs,         \* number of successful Starts so far
    stop,         \* ars.stop
    stopping,     \* ars.stopping
    reset,        \* ars.reset
    stopClosed,   \* stop channels that have been closed
    resetClosed,  \* reset channels that have been closed
    sub,          \* sub[u]: what subscriber u's OnStop channel waits for
    panicked      \* Reset closed a nil or an already closed channel

rsVars == <<runs, stop, stopping, reset, stopClosed, resetClosed, sub, panicked>>

NoChan == 0
Chans == 0 .. MaxRuns
SubPCs == {"idle", "buffered", "spawned", "relaying", "direct", "signalled"}

RSTypeOK ==
    /\ runs \in Chans
    /\ stop \in Chans
    /\ stopping \in BOOLEAN
    /\ reset \in Chans
    /\ stopClosed \subseteq Chans \ {NoChan}
    /\ resetClosed \subseteq Chans \ {NoChan}
    /\ sub \in [Subscribers -> [pc : SubPCs, on : Chans]]
    /\ panicked \in BOOLEAN

RSInit ==
    /\ runs = 0
    /\ stop = NoChan
    /\ stopping = FALSE
    /\ reset = NoChan
    /\ stopClosed = {}
    /\ resetClosed = {}
    /\ sub = [u \in Subscribers |-> [pc |-> "idle", on |-> NoChan]]
    /\ panicked = FALSE

(* IsRunning: started, or stopped and not yet reset. *)
IsRunning == stop # NoChan

(* IsStopping: stopped, but not yet reset. *)
IsStopping == stopping /\ stop # NoChan

(* Mutant of StartRun: a run that is stopping is taken for a stopped one. *)
StartRunWhileStopping ==
    /\ stop = NoChan \/ stopping
    /\ runs < MaxRuns
    /\ runs' = runs + 1
    /\ stop' = runs + 1
    /\ UNCHANGED <<stopping, reset, stopClosed, resetClosed, sub, panicked>>

(* The branch of Start that succeeds: a fresh stop channel, and one relay  *)
(* goroutine for every channel that OnStop handed out before the start.    *)
StartRun ==
    /\ stop = NoChan
    /\ runs < MaxRuns
    /\ runs' = runs + 1
    /\ stop' = runs + 1
    /\ sub' = [u \in Subscribers |->
                 IF sub[u].pc = "buffered" THEN [sub[u] EXCEPT !.pc = "spawned"]
                                           ELSE sub[u]]
    /\ UNCHANGED <<stopping, reset, stopClosed, resetClosed, panicked>>

(* The branch of Start that returns false. *)
StartRefused == stop # NoChan /\ UNCHANGED rsVars

(* Mutants of StopRun: the stop channel is dropped by Stop instead of by   *)
(* Reset; the reset channel is not made.                                   *)
StopRunDropsChannel ==
    /\ ~stopping
    /\ stop # NoChan
    /\ stopping' = TRUE
    /\ reset' = stop
    /\ stopClosed' = stopClosed \cup {stop}
    /\ stop' = NoChan
    /\ UNCHANGED <<runs, resetClosed, sub, panicked>>
StopRunNoResetChannel ==
    /\ ~stopping
    /\ stop # NoChan
    /\ stopping' = TRUE
    /\ stopClosed' = stopClosed \cup {stop}
    /\ UNCHANGED <<runs, stop, reset, resetClosed, sub, panicked>>

(* Stop's first call of a run closes its stop channel and makes the reset  *)
(* channel; any other call returns false and changes nothing.              *)
StopRun ==
    /\ ~stopping
    /\ stop # NoChan
    /\ stopping' = TRUE
    /\ reset' = stop
    /\ stopClosed' = stopClosed \cup {stop}
    /\ UNCHANGED <<runs, stop, resetClosed, sub, panicked>>

StopRefused == (stopping \/ stop = NoChan) /\ UNCHANGED rsVars

(* Mutants of Reset: waiters are not woken; the stopping flag stays set. *)
ResetNoClose ==
    /\ stopping' = FALSE
    /\ stop' = NoChan
    /\ UNCHANGED <<runs, reset, stopClosed, resetClosed, sub, panicked>>
ResetKeepsStopping ==
    /\ resetClosed' = resetClosed \cup {reset}
    /\ stop' = NoChan
    /\ UNCHANGED <<runs, stopping, reset, stopClosed, sub, panicked>>

(* Reset: close(ars.reset) panics on a nil or a closed channel. *)
Reset ==
    IF reset = NoChan \/ reset \in resetClosed
    THEN /\ panicked' = TRUE
         /\ UNCHANGED <<runs, stop, stopping, reset, stopClosed, resetClosed, sub>>
    ELSE /\ resetClosed' = resetClosed \cup {reset}
         /\ stopping' = FALSE
         /\ stop' = NoChan
         /\ UNCHANGED <<runs, reset, stopClosed, sub, panicked>>

(* OnStop for an outside subscriber: the stop channel itself during a run, *)
(* a private channel appended to stopBuffer otherwise.                     *)
OnStop(u) ==
    /\ sub[u].pc = "idle"
    /\ sub' = [sub EXCEPT ![u] = IF stop = NoChan
                                 THEN [pc |-> "buffered", on |-> NoChan]
                                 ELSE [pc |-> "direct", on |-> stop]]
    /\ UNCHANGED <<runs, stop, stopping, reset, stopClosed, resetClosed, panicked>>

(* The relay goroutine's first step evaluates ars.stop without the lock. *)
RelayReadsStop(u) ==
    /\ sub[u].pc = "spawned"
    /\ sub' = [sub EXCEPT ![u] = [pc |-> "relaying", on |-> stop]]
    /\ UNCHANGED <<runs, stop, stopping, reset, stopClosed, resetClosed, panicked>>

(* The channel the subscriber waits on delivers: directly, or through the  *)
(* relay's close(ch).                                                      *)
Signal(u) ==
    /\ sub[u].pc \in {"relaying", "direct"}
    /\ sub[u].on \in stopClosed
    /\ sub' = [sub EXCEPT ![u].pc = "signalled"]
    /\ UNCHANGED <<runs, stop, stopping, reset, stopClosed, resetClosed, panicked>>

SubscriberStep(u) == OnStop(u) \/ RelayReadsStop(u) \/ Signal(u)
=============================================================================

------------------------ MODULE IntervalRunnerProofs ------------------------
(***************************************************************************)
(* Safety of the interval runner for any number of clients, subscribers    *)
(* and runs.                                                               *)
(***************************************************************************)
EXTENDS IntervalRunner, TLAPS

(* A live loop owns the current run, which is the latest one; runs that    *)
(* have not started have no goroutine.                                     *)
Ownership ==
    /\ \A g \in Runs : Alive(g) => stop = g
    /\ stop # NoChan => stop = runs /\ Alive(stop)
    /\ \A g \in Runs : g > runs => loop[g].pc = "none"
    /\ \A g \in Runs : loop[g].pc = "select" => loop[g].on = g
    /\ \A g \in Runs : loop[g].pc = "reset" => stopping

(* The run that is stopping has a closed stop channel and an open reset    *)
(* channel; every earlier reset channel is closed.                         *)
ChannelState ==
    /\ stopping => stop # NoChan /\ reset = stop
    /\ stop # NoChan => stop \notin resetClosed
    /\ stop \in stopClosed => stopping
    /\ \A g \in stopClosed \cup resetClosed : g <= runs
    /\ reset # NoChan => reset \in resetClosed \/ (stopping /\ reset = stop)
    /\ \A c \in Clients : client[c].pc = "readReset" => reset # NoChan

IInv == TypeOK /\ Ownership /\ ChannelState /\ NoPanic /\ WaitersAwaitedReset

(* The initial state satisfies the inductive invariant. *)
LEMMA InitIInv == Init => IInv
  <1> SUFFICES ASSUME Init PROVE IInv
    OBVIOUS
  <1> USE MaxRunsAssumption DEF Init, RSInit, Runs, Chans, NoChan, SubPCs, ClientPCs, LoopPCs
  <1>1. TypeOK
    <2>1. sub \in [Subscribers -> [pc : SubPCs, on : Chans]]
      OBVIOUS
    <2>2. client \in [Clients -> [pc : ClientPCs, on : Chans]]
      OBVIOUS
    <2>3. loop \in [Runs -> [pc : LoopPCs, on : Chans]]
      OBVIOUS
    <2>4. RSTypeOK
      <3>1. runs \in Chans /\ stop \in Chans /\ reset \in Chans
        OBVIOUS
      <3>2. stopping \in BOOLEAN /\ panicked \in BOOLEAN
        OBVIOUS
      <3>3. stopClosed \subseteq Chans \ {NoChan} /\ resetClosed \subseteq Chans \ {NoChan}
        OBVIOUS
      <3> QED BY <2>1, <3>1, <3>2, <3>3, Zenon DEF RSTypeOK
    <2> QED BY <2>2, <2>3, <2>4, Zenon DEF TypeOK
  <1>2. Ownership
    BY DEF Ownership, Alive
  <1>3. ChannelState /\ NoPanic
    BY DEF ChannelState, NoPanic
  <1>4. WaitersAwaitedReset
    BY DEF WaitersAwaitedReset
  <1> QED BY <1>1, <1>2, <1>3, <1>4 DEF IInv

(* Steps of a subscriber change nothing the invariant speaks of but sub. *)
LEMMA SubscriberIInv ==
  ASSUME IInv, NEW u \in Subscribers, SubscriberStep(u), UNCHANGED <<client, loop>>
  PROVE  IInv'
  <1> USE MaxRunsAssumption DEF IInv, TypeOK, RSTypeOK, Ownership, ChannelState, NoPanic, WaitersAwaitedReset,
          Alive, Runs, Chans, NoChan, SubPCs, ClientPCs, LoopPCs, IsStopping
  <1>1. CASE OnStop(u)
    BY <1>1 DEF OnStop
  <1>2. CASE RelayReadsStop(u)
    BY <1>2 DEF RelayReadsStop
  <1>3. CASE Signal(u)
    BY <1>3 DEF Signal
  <1> QED BY <1>1, <1>2, <1>3 DEF SubscriberStep

(* Calls of IntervalRunner.Start and Stop preserve the invariant. *)
LEMMA ClientIInv ==
  ASSUME IInv, NEW c \in Clients, ClientStep(c)
  PROVE  IInv'
  <1> USE MaxRunsAssumption DEF IInv, TypeOK, RSTypeOK, Ownership, ChannelState, NoPanic, WaitersAwaitedReset,
          Alive, Runs, Chans, NoChan, SubPCs, ClientPCs, LoopPCs, IsStopping, rsVars, ClientGoto, LoopGoto
  <1>1. CASE CallStart(c)
    BY <1>1 DEF CallStart
  <1>2. CASE ReadReset(c)
    BY <1>2 DEF ReadReset
  <1>3. CASE ResetSignalled(c)
    BY <1>3 DEF ResetSignalled
  <1>4. CASE StartLoop(c)
    <2>1. TypeOK'
      BY <1>4 DEF StartLoop, StartRun
    <2>2. Ownership'
      BY <1>4 DEF StartLoop, StartRun
    <2>3. ChannelState' /\ NoPanic' /\ WaitersAwaitedReset'
      BY <1>4 DEF StartLoop, StartRun
    <2> QED BY <2>1, <2>2, <2>3
  <1>5. CASE StartFails(c)
    BY <1>5 DEF StartFails, StartRefused
  <1>6. CASE CallStop(c)
    <2>1. CASE StopRefused
      BY <1>6, <2>1 DEF CallStop, StopRefused
    <2>2. CASE StopRun
      <3>1. TypeOK' /\ Ownership' /\ NoPanic'
        BY <1>6, <2>2 DEF CallStop, StopRun
      <3>2. ChannelState'
        BY <1>6, <2>2 DEF CallStop, StopRun
      <3>3. WaitersAwaitedReset'
        BY <1>6, <2>2 DEF CallStop, StopRun
      <3> QED BY <3>1, <3>2, <3>3
    <2> QED BY <1>6, <2>1, <2>2 DEF CallStop
  <1> QED BY <1>1, <1>2, <1>3, <1>4, <1>5, <1>6 DEF ClientStep

(* Steps of a loop goroutine preserve the invariant. *)
LEMMA LoopIInv ==
  ASSUME IInv, NEW g \in Runs, LoopStep(g)
  PROVE  IInv'
  <1> USE MaxRunsAssumption DEF IInv, TypeOK, RSTypeOK, Ownership, ChannelState, NoPanic, WaitersAwaitedReset,
          Alive, Runs, Chans, NoChan, SubPCs, ClientPCs, LoopPCs, IsStopping, rsVars, LoopGoto
  <1>1. CASE LoopOnStop(g)
    BY <1>1 DEF LoopOnStop
  <1>2. CASE LoopTick(g)
    BY <1>2 DEF LoopTick
  <1>3. CASE LoopActionDone(g)
    BY <1>3 DEF LoopActionDone
  <1>4. CASE LoopStopSignal(g)
    BY <1>4 DEF LoopStopSignal
  <1>5. CASE LoopReset(g)
    <2>1. stop = g /\ reset = g /\ reset # NoChan /\ reset \notin resetClosed
      BY <1>5 DEF LoopReset
    <2>2. /\ resetClosed' = resetClosed \cup {reset}
          /\ stopping' = FALSE /\ stop' = NoChan
          /\ UNCHANGED <<runs, reset, stopClosed, sub, panicked, client>>
          /\ loop' = [loop EXCEPT ![g] = [pc |-> "done", on |-> NoChan]]
      BY <1>5, <2>1 DEF LoopReset, Reset
    <2>3. TypeOK' /\ NoPanic'
      <3>1. loop' \in [Runs -> [pc : LoopPCs, on : Chans]]
        BY <2>2
      <3>2. resetClosed' \subseteq Chans \ {NoChan} /\ stop' \in Chans
        BY <2>1, <2>2
      <3> QED BY <2>2, <3>1, <3>2
    <2>4. Ownership'
      BY <2>1, <2>2
    <2>5. ChannelState'
      BY <2>1, <2>2
    <2>6. WaitersAwaitedReset'
      BY <2>1, <2>2
    <2> QED BY <2>3, <2>4, <2>5, <2>6
  <1> QED BY <1>1, <1>2, <1>3, <1>4, <1>5 DEF LoopStep

(* IInv is an invariant of the interval runner. *)
THEOREM Inductive == Spec => []IInv
  <1>1. IInv /\ [Next]_vars => IInv'
    <2> SUFFICES ASSUME IInv, [Next]_vars PROVE IInv'
      OBVIOUS
    <2>1. CASE UNCHANGED vars
      BY <2>1 DEF vars, rsVars, IInv, TypeOK, RSTypeOK, Ownership, ChannelState, NoPanic,
         WaitersAwaitedReset, Alive, IsStopping
    <2>2. CASE Next
      BY <2>2, ClientIInv, LoopIInv, SubscriberIInv DEF Next
    <2> QED BY <2>1, <2>2
  <1> QED BY InitIInv, <1>1, PTL DEF Spec

(* At most one loop goroutine is alive, whatever the interleaving of Start, *)
(* Stop and a loop that is still stopping: ir.action never runs twice at    *)
(* the same time.                                                           *)
THEOREM SingleLoopHolds == Spec => []SingleLoop
  <1>1. IInv => SingleLoop
    BY DEF IInv, Ownership, SingleLoop
  <1> QED BY Inductive, <1>1, PTL

(* IsRunning is true exactly while the loop of the current run is alive. *)
THEOREM RunnerOwnsRunHolds == Spec => []RunnerOwnsRun
  <1>1. IInv => RunnerOwnsRun
    BY DEF IInv, Ownership, RunnerOwnsRun, IsRunning
  <1> QED BY Inductive, <1>1, PTL

(* Reset never closes a nil or a closed channel, whichever Start, Stop and  *)
(* OnStop calls come between a Stop and the Reset that answers it.          *)
THEOREM NoPanicHolds == Spec => []NoPanic
  <1>1. IInv => NoPanic
    BY DEF IInv
  <1> QED BY Inductive, <1>1, PTL

(* A Start call that waits in WaitForReset waits for a channel that has     *)
(* been closed or that the loop, still alive, is about to close.            *)
THEOREM WaitersAwaitedResetHolds == Spec => []WaitersAwaitedReset
  <1>1. IInv => WaitersAwaitedReset
    BY DEF IInv
  <1> QED BY Inductive, <1>1, PTL
=============================================================================

-------------------------- MODULE IngestionProofs ---------------------------
(***************************************************************************)
(* The safety properties of the ingestion manager for any number of keys,  *)
(* configs, ingestors and windows, and the proof that it implements the    *)
(* table the config controller takes it for; at the end, the windows that  *)
(* one of its ingestors queries and stores.                                *)
(***************************************************************************)
EXTENDS Ingestion, IngestorWindows, FiniteSetTheorems, TLAPS

(* The keys a call has still to create an ingestor for; the bound on the   *)
(* number of ingestors leaves room for them.                               *)
ToCreate == {k \in Keys : puts[k] # NoConf}
RoomLeft == created + Cardinality(ToCreate) <= MaxIngestors

(* The map holds each ingestor at most once and only ones that exist; a    *)
(* call works only on ingestors in the map; outside of a call there is     *)
(* nothing left to do, only a change of configs deletes and creates, and   *)
(* StartAll stops nothing.                                                 *)
MapState ==
    /\ \A k, l \in Keys : ingestors[k] = ingestors[l] /\ ingestors[k] # Nobody => k = l
    /\ \A k \in Keys : ingestors[k] <= created
    /\ \A i \in Ids : task[i] # "none" => \E k \in Keys : ingestors[k] = i
    /\ \A k \in Keys : ingestors[k] # Nobody => chans[ingestors[k]]
    /\ op # "config" => dels = {} /\ puts = NoPuts
    /\ op = "none" => Idle
    /\ op = "startAll" => \A i \in Ids : task[i] \in {"none", "start"}

(* A goroutine that is alive belongs to an ingestor in the map; Stop waits *)
(* for each goroutine that has not received its message; otherwise         *)
(* isRunning tells what the goroutines are.                                *)
LoopState ==
    /\ \A i \in Ids : BuildAlive(i) \/ RunAlive(i) => \E k \in Keys : ingestors[k] = i
    /\ \A i \in Ids : sending[i] # {} => task[i] = "stopping"
    /\ \A i \in Ids : task[i] = "stopping" => /\ "build" \in sending[i] \/ ~BuildAlive(i)
                                              /\ "run" \in sending[i] \/ ~RunAlive(i)
    /\ \A i \in Ids : (task[i] # "stopping" /\ \E k \in Keys : ingestors[k] = i) =>
                          (isRunning[i] <=> BuildAlive(i)) /\ (isRunning[i] <=> RunAlive(i))
    /\ \A i \in Ids : build[i] = "window" => windows[i] # 0

IInv == TypeOK /\ RoomLeft /\ MapState /\ LoopState

(* Membership in Managed, unfolded. *)
LEMMA ManagedIs ==
  ASSUME TypeOK, NEW i \in Ids
  PROVE  i \in Managed <=> \E k \in Keys : ingestors[k] = i
  BY IngestionAssumption DEF Managed, TypeOK, Ids, Nobody

LEMMA InitIInv == Init => IInv
  <1> SUFFICES ASSUME Init PROVE IInv
    OBVIOUS
  <1> USE IngestionAssumption DEF Init
  <1>1. TypeOK
    BY DEF TypeOK, Ids, Ops, Tasks, BuildPCs, RunPCs, NoPuts
  <1>2. RoomLeft
    <2>1. ToCreate = {}
      BY DEF ToCreate, NoPuts
    <2> QED BY <2>1, FS_EmptySet DEF RoomLeft
  <1>3. MapState
    BY DEF MapState, Idle, Nobody
  <1>4. LoopState
    BY DEF LoopState, BuildAlive, RunAlive
  <1> QED BY <1>1, <1>2, <1>3, <1>4 DEF IInv

-----------------------------------------------------------------------------
(* One lemma per group of actions. The definitions in USE are the state    *)
(* predicates; every step cites its own action.                            *)

LEMMA CallIInv == IInv /\ Call => IInv'
  <1> SUFFICES ASSUME IInv, Call PROVE IInv'
    OBVIOUS
  <1> USE IngestionAssumption DEF IInv, TypeOK, MapState, LoopState, ToCreate, BuildAlive, RunAlive,
          Idle, Ids, Ops, Tasks, BuildPCs, RunPCs, NoPuts, Nobody, ingVars, loopVars, calling
  <1>1. ASSUME NEW k \in Keys, NEW v \in Versions, PutConfig(k, v) PROVE IInv'
    <2>1. RoomLeft'
      BY <1>1 DEF PutConfig, Room, RoomLeft
    <2> QED BY <1>1, <2>1 DEF PutConfig
  <1>2. ASSUME NEW k \in Keys, DeleteConfig(k) PROVE IInv'
    BY <1>2 DEF DeleteConfig, RoomLeft
  <1>3. ASSUME NEW m \in [Keys -> Versions \cup {NoConf}], SetConfigs(m) PROVE IInv'
    <2>1. RoomLeft'
      BY <1>3 DEF SetConfigs, Room, RoomLeft
    <2> QED BY <1>3, <2>1 DEF SetConfigs
  <1>4. ASSUME NEW name \in Ops \ {"none"}, NEW first \in {"start", "stop"}, NEW targets \in SUBSET Managed,
               name # "config", name = "startAll" => first = "start", OnAll(name, first, targets)
        PROVE  IInv'
    <2>1. \A i \in targets : \E k \in Keys : ingestors[k] = i
      BY DEF Managed
    <2>2. task' \in [Ids -> Tasks]
      BY <1>4 DEF OnAll
    <2>3. TypeOK'
      BY <1>4, <2>2 DEF OnAll
    <2>4. MapState' /\ RoomLeft'
      BY <1>4, <2>1 DEF OnAll, RoomLeft
    <2>5. \A i \in Ids : task[i] = "none" /\ sending[i] = {} /\ task'[i] # "stopping"
      BY <1>4 DEF OnAll
    <2>6. LoopState'
      BY <1>4, <2>1, <2>5 DEF OnAll
    <2> QED BY <2>3, <2>4, <2>6
  <1>5. ASSUME NEW targets \in SUBSET Managed, RepairSet(targets) PROVE IInv'
    <2>1. targets \subseteq Ids
      BY DEF Managed
    <2>2. TypeOK'
      BY <1>5, <2>1 DEF RepairSet
    <2>3. MapState' /\ RoomLeft' /\ LoopState'
      BY <1>5 DEF RepairSet, RoomLeft
    <2> QED BY <2>2, <2>3
  <1>6. ASSUME NEW k \in Keys, Rebuild(k) \/ Repair(k) PROVE IInv'
    <2>1. {ingestors[k]} \in SUBSET Managed
      BY <1>6 DEF Rebuild, Repair, Managed
    <2> QED BY <1>4, <1>5, <1>6, <2>1 DEF Rebuild, Repair
  <1>7. CASE StartAll
    BY <1>4, <1>7 DEF StartAll
  <1>8. CASE StopAll
    BY <1>4, <1>8 DEF StopAll
  <1>9. CASE RebuildAll
    BY <1>4, <1>9 DEF RebuildAll
  <1>10. CASE RepairAll
    BY <1>5, <1>10 DEF RepairAll
  <1> QED BY <1>1, <1>2, <1>3, <1>6, <1>7, <1>8, <1>9, <1>10 DEF Call

(* The steps a call takes before and after the stopping of ingestors. *)
LEMMA KeyStepIInv ==
  ASSUME IInv, NEW k \in Keys,
         DeleteMissing(k) \/ DeleteIngestor(k) \/ ReplaceIngestor(k) \/ CreateIngestor(k)
  PROVE  IInv'
  <1> USE IngestionAssumption DEF IInv, TypeOK, MapState, LoopState, BuildAlive, RunAlive,
          Idle, Ids, Ops, Tasks, BuildPCs, RunPCs, NoPuts, Nobody, ingVars, loopVars, calling
  <1>1. CASE DeleteMissing(k)
    BY <1>1 DEF DeleteMissing, RoomLeft, ToCreate
  <1>2. CASE DeleteIngestor(k)
    <2>1. TypeOK' /\ RoomLeft'
      BY <1>2 DEF DeleteIngestor, RoomLeft, ToCreate
    <2>2. MapState'
      BY <1>2 DEF DeleteIngestor
    <2>3. LoopState'
      BY <1>2 DEF DeleteIngestor
    <2> QED BY <2>1, <2>2, <2>3
  <1>3. CASE ReplaceIngestor(k)
    BY <1>3 DEF ReplaceIngestor, RoomLeft, ToCreate
  <1>4. CASE CreateIngestor(k)
    <2>1. /\ puts[k] # NoConf
          /\ puts' = [puts EXCEPT ![k] = NoConf]
          /\ op # "none"
      BY <1>4 DEF CreateIngestor
    <2>2. /\ IsFiniteSet(ToCreate)
          /\ k \in ToCreate
          /\ ToCreate' = ToCreate \ {k}
      <3>1. ToCreate \subseteq Keys
        BY DEF ToCreate
      <3> QED BY <2>1, <3>1, FS_Subset DEF ToCreate
    <2>3. Cardinality(ToCreate) \in Nat /\ Cardinality(ToCreate') = Cardinality(ToCreate) - 1
      BY <2>2, FS_RemoveElement, FS_CardinalityType
    <2>4. Cardinality(ToCreate) # 0
      BY <2>2, FS_EmptySet
    <2>5. created + 1 \in Ids
      BY <2>3, <2>4 DEF RoomLeft
    <2>6. CASE puts[k] \in UnknownVersions
      <3>1. RoomLeft'
        BY <1>4, <2>3, <2>6 DEF CreateIngestor, RoomLeft
      <3> QED BY <1>4, <2>1, <2>6, <3>1 DEF CreateIngestor
    <2>7. CASE puts[k] \notin UnknownVersions
      <3> DEFINE i == created + 1
      <3>1. /\ created' = i
            /\ conf' = [conf EXCEPT ![i] = puts[k]]
            /\ ingestors' = [ingestors EXCEPT ![k] = i]
            /\ isRunning' = [isRunning EXCEPT ![i] = TRUE]
            /\ chans' = [chans EXCEPT ![i] = TRUE]
            /\ build' = [build EXCEPT ![i] = "check"]
            /\ windows' = [windows EXCEPT ![i] = MaxWindows]
            /\ run' = [run EXCEPT ![i] = "select"]
            /\ UNCHANGED <<isStopping, sending, repairs, op, dels, task, calling>>
            /\ ingestors[k] = Nobody
            /\ Idle
        BY <1>4, <2>7 DEF CreateIngestor
      <3>2. i \in Ids /\ \A l \in Keys : ingestors[l] # i
        BY <2>5
      <3>3. RoomLeft'
        BY <3>1, <2>3 DEF RoomLeft
      <3>4. TypeOK'
        <4>1. created' \in 0 .. MaxIngestors /\ ingestors' \in [Keys -> Ids \cup {Nobody}]
          BY <3>1, <3>2
        <4>2. conf' \in [Ids -> Versions \cup {NoConf}] /\ puts' \in [Keys -> Versions \cup {NoConf}]
          BY <3>1, <3>2, <2>1
        <4>3. isRunning' \in [Ids -> BOOLEAN] /\ chans' \in [Ids -> BOOLEAN]
          BY <3>1, <3>2
        <4>4. build' \in [Ids -> BuildPCs] /\ run' \in [Ids -> RunPCs] /\ windows' \in [Ids -> 0 .. MaxWindows]
          BY <3>1, <3>2
        <4> QED BY <3>1, <4>1, <4>2, <4>3, <4>4
      <3>5. MapState'
        <4>1. \A l, j \in Keys : ingestors'[l] = ingestors'[j] /\ ingestors'[l] # Nobody => l = j
          BY <3>1, <3>2
        <4>2. \A l \in Keys : ingestors'[l] <= created' /\ (ingestors'[l] # Nobody => chans'[ingestors'[l]])
          BY <3>1, <3>2
        <4>3. \A j \in Ids : task'[j] # "none" => \E l \in Keys : ingestors'[l] = j
          BY <3>1
        <4>4. op' = "config"
          BY <3>1, <2>1
        <4> QED BY <4>1, <4>2, <4>3, <4>4
      <3>6. LoopState'
        <4>1. \A j \in Ids \ {i} : (\E l \in Keys : ingestors'[l] = j) => \E l \in Keys : ingestors[l] = j
          BY <3>1, <3>2
        <4>2. \A j \in Ids : (\E l \in Keys : ingestors[l] = j) => \E l \in Keys : ingestors'[l] = j
          BY <3>1, <3>2
        <4>3. \E l \in Keys : ingestors'[l] = i
          BY <3>1
        <4> QED BY <3>1, <3>2, <4>1, <4>2, <4>3
      <3> QED BY <3>3, <3>4, <3>5, <3>6
    <2> QED BY <2>6, <2>7
  <1> QED BY <1>1, <1>2, <1>3, <1>4

(* ingestor.Stop and ingestor.Start. When Stop returns neither goroutine   *)
(* is alive, so that the ingestor may leave the map.                       *)
LEMMA StopStartIInv ==
  ASSUME IInv, NEW i \in Ids, StopBegin(i) \/ StopEnd(i) \/ StartIgnored(i) \/ Start(i)
  PROVE  IInv'
  <1> USE IngestionAssumption DEF IInv, TypeOK, RoomLeft, ToCreate, MapState, LoopState, BuildAlive, RunAlive,
          Idle, Ids, Ops, Tasks, BuildPCs, RunPCs, NoPuts, Nobody, ingVars, loopVars, calling
  <1>1. CASE StopBegin(i)
    <2>1. TypeOK' /\ RoomLeft'
      BY <1>1 DEF StopBegin
    <2>2. MapState'
      BY <1>1 DEF StopBegin
    <2>3. PICK k \in Keys : ingestors[k] = i
      BY <1>1 DEF StopBegin
    <2>4. chans[i]
      <3>1. ingestors[k] # Nobody
        BY <2>3
      <3>2. chans[ingestors[k]]
        BY <3>1, Zenon
      <3> QED BY <2>3, <3>2, Zenon
    <2>5. LoopState'
      BY <1>1, <2>3, <2>4, SMTT(20) DEF StopBegin
    <2> QED BY <2>1, <2>2, <2>5
  <1>2. CASE StopEnd(i)
    <2>1. ~BuildAlive(i) /\ ~RunAlive(i) /\ op # "none"
      BY <1>2 DEF StopEnd
    <2>2. /\ isRunning' = [isRunning EXCEPT ![i] = FALSE]
          /\ isStopping' = [isStopping EXCEPT ![i] = FALSE]
          /\ sending[i] = {}
          /\ AfterStop(i)
          /\ UNCHANGED <<created, conf, chans, sending, loopVars, op, puts, calling>>
      BY <1>2 DEF StopEnd
    <2>3. CASE op = "config"
      <3>1. /\ task' = [task EXCEPT ![i] = "none"]
            /\ ingestors' = [k \in Keys |-> IF ingestors[k] = i THEN Nobody ELSE ingestors[k]]
            /\ dels' = {k \in dels : ingestors[k] # i}
        BY <2>2, <2>3 DEF AfterStop
      <3>2. TypeOK' /\ RoomLeft'
        BY <2>2, <3>1
      <3>3. \A j \in Ids \ {i} : (\E k \in Keys : ingestors'[k] = j) <=> (\E k \in Keys : ingestors[k] = j)
        BY <3>1
      <3>4. MapState'
        BY <2>1, <2>2, <3>1, <3>3
      <3>5. LoopState'
        BY <2>1, <2>2, <3>1, <3>3, SMTT(20)
      <3> QED BY <3>2, <3>4, <3>5
    <2>4. CASE op # "config"
      <3>1. \E t \in {"start", "none"} : /\ task' = [task EXCEPT ![i] = t]
                                         /\ UNCHANGED <<ingestors, dels>>
        BY <2>2, <2>4 DEF AfterStop
      <3>2. TypeOK' /\ RoomLeft'
        BY <2>2, <3>1
      <3>3. MapState'
        BY <1>2, <2>1, <2>2, <3>1 DEF StopEnd
      <3>4. LoopState'
        BY <2>1, <2>2, <3>1
      <3> QED BY <3>2, <3>3, <3>4
    <2> QED BY <2>3, <2>4
  <1>3. CASE StartIgnored(i)
    <2>1. task[i] = "start" /\ task' = [task EXCEPT ![i] = "none"] /\ op # "none"
      BY <1>3 DEF StartIgnored
    <2>2. TypeOK' /\ RoomLeft'
      BY <1>3, <2>1 DEF StartIgnored
    <2>3. MapState'
      BY <1>3, <2>1 DEF StartIgnored
    <2>4. LoopState'
      BY <1>3, <2>1 DEF StartIgnored
    <2> QED BY <2>2, <2>3, <2>4
  <1>4. CASE Start(i)
    <2>1. task[i] = "start" /\ task' = [task EXCEPT ![i] = "none"] /\ op # "none"
      BY <1>4 DEF Start
    <2>2. TypeOK' /\ RoomLeft'
      <3>1. isRunning' \in [Ids -> BOOLEAN] /\ chans' \in [Ids -> BOOLEAN] /\ task' \in [Ids -> Tasks]
        BY <1>4, <2>1 DEF Start
      <3>2. build' \in [Ids -> BuildPCs] /\ run' \in [Ids -> RunPCs] /\ windows' \in [Ids -> 0 .. MaxWindows]
        BY <1>4 DEF Start
      <3> QED BY <1>4, <3>1, <3>2 DEF Start
    <2>3. MapState'
      BY <1>4, <2>1 DEF Start
    <2>4. LoopState'
      <3>1. (\E k \in Keys : ingestors[k] = i) /\ sending[i] = {}
        BY <2>1
      <3>2. task'[i] = "none" /\ isRunning'[i] /\ BuildAlive(i)' /\ RunAlive(i)' /\ build'[i] # "window"
        BY <1>4 DEF Start
      <3>3. \A j \in Ids \ {i} : /\ task'[j] = task[j] /\ isRunning'[j] = isRunning[j]
                                 /\ build'[j] = build[j] /\ run'[j] = run[j] /\ windows'[j] = windows[j]
        BY <1>4 DEF Start
      <3>4. UNCHANGED <<ingestors, sending>>
        BY <1>4 DEF Start
      <3>5. ASSUME NEW j \in Ids
            PROVE  /\ BuildAlive(j)' \/ RunAlive(j)' => \E k \in Keys : ingestors'[k] = j
                   /\ sending'[j] # {} => task'[j] = "stopping"
                   /\ task'[j] = "stopping" => /\ "build" \in sending'[j] \/ ~BuildAlive(j)'
                                               /\ "run" \in sending'[j] \/ ~RunAlive(j)'
                   /\ build'[j] = "window" => windows'[j] # 0
        <4>1. CASE j = i
          BY <3>1, <3>2, <3>4, <4>1
        <4>2. CASE j # i
          BY <3>3, <3>4, <4>2
        <4> QED BY <4>1, <4>2
      <3>6. ASSUME NEW j \in Ids, task'[j] # "stopping", \E k \in Keys : ingestors'[k] = j
            PROVE  (isRunning'[j] <=> BuildAlive(j)') /\ (isRunning'[j] <=> RunAlive(j)')
        <4>1. CASE j = i
          BY <3>2, <4>1
        <4>2. CASE j # i
          BY <3>3, <3>4, <3>6, <4>2
        <4> QED BY <4>1, <4>2
      <3> QED BY <3>5, <3>6
    <2> QED BY <2>2, <2>3, <2>4
  <1> QED BY <1>1, <1>2, <1>3, <1>4

(* The end of a call, and the goroutines of an ingestor. *)
LEMMA UnlockIInv == IInv /\ Unlock => IInv'
  BY IngestionAssumption DEF IInv, TypeOK, RoomLeft, ToCreate, MapState, LoopState, BuildAlive, RunAlive,
     Idle, Ops, ingVars, loopVars, calling, Unlock

LEMMA LoopIInv ==
  ASSUME IInv, NEW i \in Ids, LoopStep(i)
  PROVE  IInv'
  <1>1. RoomLeft' /\ MapState'
    <2>1. UNCHANGED <<ingestors, created, chans, op, dels, puts, task>>
      BY DEF LoopStep, BuildCheck, BuildWindow, BuildExit, RunTick, RunWindows, RunExit, RepairDone, loopFrame, calling
    <2> QED BY <2>1 DEF IInv, RoomLeft, ToCreate, MapState, Idle
  <1>2. CASE BuildCheck(i)
    <2>1. TypeOK'
      BY <1>2 DEF IInv, TypeOK, BuildPCs, RunPCs, BuildCheck, loopFrame, calling
    <2>2. LoopState'
      BY <1>2 DEF IInv, TypeOK, LoopState, BuildAlive, RunAlive, BuildCheck, loopFrame, calling
    <2> QED BY <1>1, <2>1, <2>2 DEF IInv
  <1>3. CASE BuildWindow(i)
    <2>1. windows[i] - 1 \in 0 .. MaxWindows
      BY <1>3, IngestionAssumption DEF IInv, TypeOK, LoopState, BuildWindow
    <2>2. TypeOK'
      BY <1>3, <2>1 DEF IInv, TypeOK, BuildPCs, BuildWindow, loopFrame, calling
    <2>3. LoopState'
      BY <1>3 DEF IInv, TypeOK, LoopState, BuildAlive, RunAlive, BuildWindow, loopFrame, calling
    <2> QED BY <1>1, <2>2, <2>3 DEF IInv
  <1>4. CASE BuildExit(i)
    <2>1. TypeOK'
      BY <1>4 DEF IInv, TypeOK, BuildPCs, RunPCs, BuildExit, loopFrame, calling
    <2>2. LoopState'
      BY <1>4 DEF IInv, TypeOK, LoopState, BuildAlive, RunAlive, BuildExit, loopFrame, calling
    <2> QED BY <1>1, <2>1, <2>2 DEF IInv
  <1>5. CASE RunTick(i)
    <2>1. TypeOK'
      BY <1>5 DEF IInv, TypeOK, BuildPCs, RunPCs, RunTick, loopFrame, calling
    <2>2. LoopState'
      BY <1>5 DEF IInv, TypeOK, LoopState, BuildAlive, RunAlive, RunTick, loopFrame, calling
    <2> QED BY <1>1, <2>1, <2>2 DEF IInv
  <1>6. CASE RunWindows(i)
    <2>1. TypeOK'
      BY <1>6 DEF IInv, TypeOK, BuildPCs, RunPCs, RunWindows, loopFrame, calling
    <2>2. LoopState'
      BY <1>6 DEF IInv, TypeOK, LoopState, BuildAlive, RunAlive, RunWindows, loopFrame, calling
    <2> QED BY <1>1, <2>1, <2>2 DEF IInv
  <1>7. CASE RunExit(i)
    <2>1. TypeOK'
      BY <1>7 DEF IInv, TypeOK, BuildPCs, RunPCs, RunExit, loopFrame, calling
    <2>2. LoopState'
      BY <1>7 DEF IInv, TypeOK, LoopState, BuildAlive, RunAlive, RunExit, loopFrame, calling
    <2> QED BY <1>1, <2>1, <2>2 DEF IInv
  <1>8. CASE RepairDone(i)
    <2>1. TypeOK'
      BY <1>8 DEF IInv, TypeOK, BuildPCs, RunPCs, RepairDone, loopFrame, calling
    <2>2. LoopState'
      BY <1>8 DEF IInv, TypeOK, LoopState, BuildAlive, RunAlive, RepairDone, loopFrame, calling
    <2> QED BY <1>1, <2>1, <2>2 DEF IInv
  <1> QED BY <1>2, <1>3, <1>4, <1>5, <1>6, <1>7, <1>8 DEF LoopStep

LEMMA NextIInv == IInv /\ [Next]_vars => IInv'
  <1> SUFFICES ASSUME IInv, [Next]_vars PROVE IInv'
    OBVIOUS
  <1>1. CASE Call
    BY <1>1, CallIInv
  <1>2. CASE CallStep
    BY <1>2, KeyStepIInv, StopStartIInv, UnlockIInv DEF CallStep
  <1>3. CASE \E i \in Ids : LoopStep(i)
    BY <1>3, LoopIInv
  <1>4. CASE UNCHANGED vars
    BY <1>4 DEF vars, ingVars, loopVars, calling, IInv, TypeOK, RoomLeft, ToCreate, MapState, LoopState, BuildAlive,
       RunAlive, Idle
  <1> QED BY <1>1, <1>2, <1>3, <1>4 DEF Next

LEMMA IInvHolds == Spec => []IInv
  BY InitIInv, NextIInv, PTL DEF Spec

-----------------------------------------------------------------------------
(* Type correctness of the manager and its ingestors. *)
THEOREM TypeOKHolds == Spec => []TypeOK
  <1>1. IInv => TypeOK
    BY DEF IInv
  <1> QED BY IInvHolds, <1>1, PTL

(* DeleteConfig and replacement leave no goroutine behind: an ingestor     *)
(* that is not in the map has neither a build nor a run loop.              *)
THEOREM RemovedIsQuietHolds == Spec => []RemovedIsQuiet
  <1>1. IInv => RemovedIsQuiet
    BY ManagedIs DEF IInv, LoopState, RemovedIsQuiet
  <1> QED BY IInvHolds, <1>1, PTL

(* Keys do not share ingestors, and between calls isRunning tells the      *)
(* truth about the two loops of every managed ingestor.                    *)
THEOREM RunningIsCompleteHolds == Spec => []RunningIsComplete
  <1>1. IInv => RunningIsComplete
    <2> SUFFICES ASSUME IInv PROVE RunningIsComplete
      OBVIOUS
    <2>1. \A k, l \in Keys : ingestors[k] = ingestors[l] /\ ingestors[k] # Nobody => k = l
      BY DEF IInv, MapState
    <2>2. ASSUME op = "none", NEW i \in Managed
          PROVE  (isRunning[i] <=> BuildAlive(i)) /\ (isRunning[i] <=> RunAlive(i))
      <3>1. i \in Ids /\ \E k \in Keys : ingestors[k] = i
        BY DEF IInv, TypeOK, Managed
      <3>2. task[i] # "stopping"
        BY <2>2, <3>1 DEF IInv, MapState, Idle
      <3> QED BY <3>1, <3>2 DEF IInv, LoopState
    <2> QED BY <2>1, <2>2 DEF RunningIsComplete
  <1> QED BY IInvHolds, <1>1, PTL

(* Rebuild and a change of configs never leave an ingestor in the map      *)
(* without its loops: when a Stop that is not part of StopAll returns, the *)
(* ingestor leaves the map in that step or is about to be started.         *)
THEOREM OnlyStopAllStopsHolds == Spec => OnlyStopAllStops
  <1>1. IInv /\ [Next]_vars =>
          [\A i \in Managed' : isRunning[i] /\ ~isRunning'[i] => op = "stopAll" \/ task'[i] = "start"]_vars
    <2> SUFFICES ASSUME IInv, [Next]_vars, NEW i \in Managed', isRunning[i], ~isRunning'[i]
                 PROVE  op = "stopAll" \/ task'[i] = "start"
      OBVIOUS
    <2>0. i \in Ids /\ \E k \in Keys : ingestors'[k] = i
      BY NextIInv DEF IInv, TypeOK, Managed
    <2>1. ASSUME NEW j \in Ids, StopEnd(j) PROVE op = "stopAll" \/ task'[i] = "start"
      <3>1. isRunning' = [isRunning EXCEPT ![j] = FALSE] /\ AfterStop(j) /\ task[j] = "stopping"
        BY <2>1 DEF StopEnd
      <3>2. i = j
        BY <2>0, <3>1 DEF IInv, TypeOK
      <3>3. op \in {"stopAll", "rebuild", "config"}
        BY <3>1 DEF IInv, TypeOK, Ops, MapState, Idle
      <3>4. CASE op = "rebuild"
        BY <2>0, <3>1, <3>2, <3>4 DEF AfterStop, IInv, TypeOK
      <3>5. CASE op = "config"
        <4>1. \A k \in Keys : ingestors'[k] # j
          BY <3>1, <3>5 DEF AfterStop, Ids, Nobody
        <4> QED BY <2>0, <3>2, <4>1
      <3> QED BY <3>3, <3>4, <3>5
    <2>2. ASSUME NEW k \in Keys, CreateIngestor(k) PROVE FALSE
      <3>1. isRunning' = isRunning \/ isRunning' = [isRunning EXCEPT ![created + 1] = TRUE]
        BY <2>2 DEF CreateIngestor
      <3> QED BY <2>0, <3>1 DEF IInv, TypeOK
    <2>3. ASSUME NEW j \in Ids, Start(j) PROVE FALSE
      BY <2>0, <2>3 DEF Start, IInv, TypeOK
    <2>4. ASSUME UNCHANGED isRunning PROVE FALSE
      BY <2>4
    <2>5. CASE Call \/ Unlock \/ UNCHANGED vars
      <3>1. UNCHANGED isRunning
        BY <2>5 DEF Call, PutConfig, DeleteConfig, SetConfigs, OnAll, StartAll, StopAll, RebuildAll, Rebuild,
           RepairSet, RepairAll, Repair, Unlock, vars, ingVars
      <3> QED BY <2>4, <3>1
    <2>6. ASSUME NEW k \in Keys, DeleteMissing(k) \/ DeleteIngestor(k) \/ ReplaceIngestor(k) PROVE FALSE
      <3>1. UNCHANGED isRunning
        BY <2>6 DEF DeleteMissing, DeleteIngestor, ReplaceIngestor, ingVars
      <3> QED BY <2>4, <3>1
    <2>7. ASSUME NEW j \in Ids, StopBegin(j) \/ StartIgnored(j) \/ LoopStep(j) PROVE FALSE
      <3>1. UNCHANGED isRunning
        BY <2>7 DEF StopBegin, StartIgnored, LoopStep, BuildCheck, BuildWindow, BuildExit, RunTick,
           RunWindows, RunExit, RepairDone, loopFrame, ingVars
      <3> QED BY <2>4, <3>1
    <2> QED BY <2>1, <2>2, <2>3, <2>5, <2>6, <2>7 DEF Next, CallStep
  <1> QED BY <1>1, IInvHolds, PTL DEF Spec, OnlyStopAllStops

-----------------------------------------------------------------------------
(* What a call has still to do, together with what is running, is what the *)
(* callers ask for: a key still to be put is asked for with that config, a *)
(* key only to be deleted is not asked for, and every other key runs what  *)
(* it should. The call works on the keys it is about, and stops only       *)
(* ingestors of keys it has still to delete.                               *)
Pending(k) == k \in dels \/ puts[k] # NoConf
AskedInv ==
    /\ \A k \in Keys : puts[k] # NoConf => asked[k] = puts[k]
    /\ \A k \in Keys : k \in dels /\ puts[k] = NoConf => asked[k] = NoConf
    /\ \A k \in Keys : ~Pending(k) => configs[k] = Table!Served(k)
    /\ \A k \in Keys : Pending(k) => k \in scope
    /\ \A i \in Ids : op = "config" /\ task[i] # "none" => \E k \in dels : ingestors[k] = i
    /\ op # "config" => scope = {}

(* The invariant speaks of the map and the call only. *)
LEMMA AskedFrame ==
  ASSUME AskedInv, UNCHANGED <<ingestors, conf, op, dels, puts, asked, scope>>,
         \A i \in Ids : task'[i] # "none" => task[i] # "none"
  PROVE  AskedInv'
  <1>1. UNCHANGED configs
    BY DEF configs
  <1> QED BY <1>1 DEF AskedInv, Pending, Table!Served

(* The table after the removal of the ingestor of k, and after k got one. *)
LEMMA RemoveFromTable ==
  ASSUME IInv, NEW i \in Ids, NEW k \in Keys, ingestors[k] = i, UNCHANGED conf,
         ingestors' = [l \in Keys |-> IF ingestors[l] = i THEN Nobody ELSE ingestors[l]]
  PROVE  /\ configs' = [configs EXCEPT ![k] = NoConf]
         /\ \A l \in Keys \ {k} : ingestors[l] # i
  <1>0. ingestors[k] # Nobody
    BY IngestionAssumption DEF Ids, Nobody
  <1>1. \A l \in Keys \ {k} : ingestors[l] # i
    BY <1>0 DEF IInv, MapState
  <1>2. \A l \in Keys \ {k} : ingestors'[l] = ingestors[l]
    BY <1>1
  <1>3. ingestors'[k] = Nobody
    OBVIOUS
  <1> QED BY <1>1, <1>2, <1>3 DEF configs

LEMMA AddToTable ==
  ASSUME IInv, NEW k \in Keys, CreateIngestor(k), puts[k] \notin UnknownVersions
  PROVE  configs[k] = NoConf /\ configs' = [configs EXCEPT ![k] = puts[k]]
  <1>1. /\ ingestors' = [ingestors EXCEPT ![k] = created + 1]
        /\ conf' = [conf EXCEPT ![created + 1] = puts[k]]
        /\ ingestors[k] = Nobody
        /\ created' = created + 1
    BY DEF CreateIngestor, IInv, TypeOK
  <1>2. created + 1 \in Ids
    <2>1. IInv'
      BY KeyStepIInv
    <2> QED BY <1>1, <2>1, IngestionAssumption DEF IInv, TypeOK, Ids
  <1>3. ASSUME NEW l \in Keys, l # k PROVE configs'[l] = configs[l]
    <2>1. ingestors'[l] = ingestors[l] /\ ingestors[l] # created + 1
      BY <1>1, <1>3 DEF IInv, TypeOK, MapState, Ids, Nobody
    <2>2. ingestors[l] # Nobody => conf'[ingestors[l]] = conf[ingestors[l]]
      BY <1>1, <2>1 DEF IInv, TypeOK
    <2> QED BY <2>1, <2>2 DEF configs
  <1>4. configs'[k] = puts[k]
    BY <1>1, <1>2 DEF configs, IInv, TypeOK, Ids, Nobody
  <1>5. configs[k] = NoConf
    BY <1>1 DEF configs
  <1> QED BY <1>3, <1>4, <1>5 DEF configs

LEMMA InitAsked == Init => AskedInv
  BY DEF Init, AskedInv, Pending, configs, Table!Served, NoPuts

(* The calls: what is to be done covers the difference between what runs   *)
(* and what is asked for.                                                  *)
LEMMA CallAsked == IInv /\ AskedInv /\ Call => AskedInv'
  <1> SUFFICES ASSUME IInv, AskedInv, Call PROVE AskedInv'
    OBVIOUS
  <1> USE IngestionAssumption DEF ingVars, calling
  <1>0. ASSUME op = "none"
        PROVE  /\ dels = {} /\ puts = NoPuts /\ Idle
               /\ \A k \in Keys : configs[k] = Table!Served(k)
    BY <1>0 DEF IInv, MapState, AskedInv, Pending, NoPuts
  <1>1. ASSUME NEW k \in Keys, NEW v \in Versions, PutConfig(k, v) PROVE AskedInv'
    <2>1. /\ op' = "config" /\ scope' = {k} /\ puts' = [NoPuts EXCEPT ![k] = v]
          /\ asked' = [asked EXCEPT ![k] = v] /\ UNCHANGED <<ingestors, conf, dels, task>> /\ op = "none"
      BY <1>1 DEF PutConfig
    <2>2. UNCHANGED configs
      BY <2>1 DEF configs
    <2>3. \A l \in Keys \ {k} : puts'[l] = NoConf /\ asked'[l] = asked[l]
      BY <2>1 DEF NoPuts, IInv, TypeOK
    <2>4. puts'[k] = v /\ asked'[k] = v
      BY <2>1 DEF NoPuts, IInv, TypeOK
    <2> QED BY <1>0, <2>1, <2>2, <2>3, <2>4 DEF AskedInv, Pending, Table!Served, Idle
  <1>2. ASSUME NEW k \in Keys, DeleteConfig(k) PROVE AskedInv'
    <2>1. /\ op' = "config" /\ scope' = {k} /\ dels' = {k}
          /\ asked' = [asked EXCEPT ![k] = NoConf] /\ UNCHANGED <<ingestors, conf, puts, task>> /\ op = "none"
      BY <1>2 DEF DeleteConfig
    <2>2. UNCHANGED configs
      BY <2>1 DEF configs
    <2>3. asked'[k] = NoConf /\ \A l \in Keys \ {k} : asked'[l] = asked[l]
      BY <2>1 DEF IInv, TypeOK
    <2> QED BY <1>0, <2>1, <2>2, <2>3 DEF AskedInv, Pending, Table!Served, NoPuts, Idle
  <1>3. ASSUME NEW m \in [Keys -> Versions \cup {NoConf}], SetConfigs(m) PROVE AskedInv'
    <2>1. /\ op' = "config" /\ scope' = Keys /\ puts' = m /\ asked' = m /\ op = "none"
          /\ dels' = {k \in Keys : ingestors[k] # Nobody} /\ UNCHANGED <<ingestors, conf, task>>
      BY <1>3 DEF SetConfigs
    <2>2. \A k \in Keys : k \notin dels' => configs'[k] = NoConf
      BY <2>1 DEF configs
    <2> QED BY <1>0, <2>1, <2>2 DEF AskedInv, Pending, Table!Served, Idle
  <1>4. ASSUME NEW name \in Ops \ {"none", "config"}, NEW first, NEW targets, OnAll(name, first, targets)
        PROVE  AskedInv'
    <2>1. UNCHANGED <<ingestors, conf, dels, puts, asked, scope>> /\ op = "none" /\ op' = name
      BY <1>4 DEF OnAll
    <2>2. UNCHANGED configs
      BY <2>1 DEF configs
    <2> QED BY <2>1, <2>2 DEF AskedInv, Pending, Table!Served
  <1>5. ASSUME NEW targets, RepairSet(targets) PROVE AskedInv'
    BY <1>5, AskedFrame DEF RepairSet
  <1> QED BY <1>1, <1>2, <1>3, <1>4, <1>5 DEF Call, StartAll, StopAll, RebuildAll, Rebuild, RepairAll, Repair, Ops

(* The steps of a call: the end of a Stop removes the key that was to be   *)
(* deleted, a creation serves the key that was to be put.                  *)
LEMMA CallStepAsked == IInv /\ AskedInv /\ CallStep => AskedInv'
  <1> SUFFICES ASSUME IInv, AskedInv, CallStep PROVE AskedInv'
    OBVIOUS
  <1> USE IngestionAssumption DEF ingVars, calling
  <1>1. CASE Unlock
    <2>1. UNCHANGED <<ingestors, conf, dels, puts, asked>> /\ dels = {} /\ puts = NoPuts /\ op' = "none" /\ scope' = {}
      BY <1>1 DEF Unlock
    <2>2. UNCHANGED configs
      BY <2>1 DEF configs
    <2> QED BY <2>1, <2>2 DEF AskedInv, Pending, Table!Served, NoPuts
  <1>2. ASSUME NEW k \in Keys, DeleteMissing(k) PROVE AskedInv'
    <2>1. /\ dels' = dels \ {k} /\ ingestors[k] = Nobody /\ Idle
          /\ UNCHANGED <<ingestors, conf, puts, op, task, asked, scope>>
      BY <1>2 DEF DeleteMissing
    <2>2. UNCHANGED configs /\ configs[k] = NoConf
      BY <2>1 DEF configs
    <2> QED BY <2>1, <2>2 DEF AskedInv, Pending, Table!Served, Idle
  <1>3. ASSUME NEW k \in Keys, DeleteIngestor(k) PROVE AskedInv'
    <2>1. /\ task' = [task EXCEPT ![ingestors[k]] = "stop"] /\ k \in dels /\ Idle
          /\ UNCHANGED <<ingestors, conf, dels, puts, op, asked, scope>>
      BY <1>3 DEF DeleteIngestor
    <2>2. UNCHANGED configs
      BY <2>1 DEF configs
    <2>3. \A i \in Ids : task'[i] # "none" => i = ingestors[k]
      BY <2>1 DEF Idle, IInv, TypeOK
    <2> QED BY <2>1, <2>2, <2>3 DEF AskedInv, Pending, Table!Served
  <1>4. ASSUME NEW k \in Keys, ReplaceIngestor(k) PROVE AskedInv'
    <2>1. /\ dels' = {k} /\ puts[k] # NoConf /\ dels = {} /\ Idle
          /\ UNCHANGED <<ingestors, conf, puts, op, task, asked, scope>>
      BY <1>4 DEF ReplaceIngestor
    <2>2. UNCHANGED configs
      BY <2>1 DEF configs
    <2> QED BY <2>1, <2>2 DEF AskedInv, Pending, Table!Served, Idle
  <1>5. ASSUME NEW k \in Keys, CreateIngestor(k) PROVE AskedInv'
    <2>1. /\ puts' = [puts EXCEPT ![k] = NoConf] /\ puts[k] # NoConf /\ dels = {} /\ ingestors[k] = Nobody
          /\ Idle /\ UNCHANGED <<dels, op, task, asked, scope>>
      BY <1>5 DEF CreateIngestor
    <2>2. asked[k] = puts[k]
      BY <2>1 DEF AskedInv
    <2>3. configs'[k] = Table!Served(k) /\ \A l \in Keys \ {k} : configs'[l] = configs[l]
      <3>1. CASE puts[k] \in UnknownVersions
        <4>1. UNCHANGED configs /\ configs[k] = NoConf
          BY <1>5, <2>1, <3>1 DEF CreateIngestor, configs
        <4> QED BY <2>2, <3>1, <4>1 DEF Table!Served
      <3>2. CASE puts[k] \notin UnknownVersions
        <4>1. configs' = [configs EXCEPT ![k] = puts[k]]
          BY <1>5, <3>2, AddToTable
        <4> QED BY <2>2, <3>2, <4>1 DEF Table!Served, configs
      <3> QED BY <3>1, <3>2
    <2>4. puts'[k] = NoConf /\ \A l \in Keys \ {k} : puts'[l] = puts[l]
      BY <2>1 DEF IInv, TypeOK
    <2> QED BY <2>1, <2>3, <2>4 DEF AskedInv, Pending, Table!Served, Idle
  <1>6. ASSUME NEW i \in Ids, StopEnd(i) PROVE AskedInv'
    <2>1. AfterStop(i) /\ task[i] = "stopping" /\ UNCHANGED <<conf, op, puts, asked, scope>>
      BY <1>6 DEF StopEnd
    <2>2. CASE op # "config"
      <3>1. UNCHANGED <<ingestors, dels>>
        BY <2>1, <2>2 DEF AfterStop
      <3>2. UNCHANGED configs
        BY <2>1, <3>1 DEF configs
      <3> QED BY <2>1, <2>2, <3>1, <3>2 DEF AskedInv, Pending, Table!Served
    <2>3. CASE op = "config"
      <3>1. /\ task' = [task EXCEPT ![i] = "none"]
            /\ ingestors' = [k \in Keys |-> IF ingestors[k] = i THEN Nobody ELSE ingestors[k]]
            /\ dels' = {k \in dels : ingestors[k] # i}
        BY <2>1, <2>3 DEF AfterStop
      <3>2. PICK k \in dels : ingestors[k] = i
        BY <2>1, <2>3 DEF AskedInv
      <3>3. k \in Keys /\ dels \subseteq Keys
        BY <3>2 DEF IInv, TypeOK
      <3>4. configs' = [configs EXCEPT ![k] = NoConf] /\ \A l \in Keys \ {k} : ingestors[l] # i
        BY <2>1, <3>1, <3>2, <3>3, RemoveFromTable
      <3>5. dels' = dels \ {k} /\ configs'[k] = NoConf /\ \A l \in Keys \ {k} : configs'[l] = configs[l]
        BY <3>1, <3>2, <3>3, <3>4 DEF configs
      <3>6. \A j \in Ids : task'[j] # "none" => j # i /\ task[j] # "none"
        BY <3>1 DEF IInv, TypeOK
      <3>7. \A l \in Keys \ {k} : ingestors'[l] = ingestors[l]
        BY <3>1, <3>4
      <3>8. \A j \in Ids : task'[j] # "none" => \E l \in dels' : ingestors'[l] = j
        BY <2>3, <3>2, <3>3, <3>5, <3>6, <3>7 DEF AskedInv
      <3> QED BY <2>1, <2>3, <3>2, <3>3, <3>5, <3>8 DEF AskedInv, Pending, Table!Served
    <2> QED BY <2>2, <2>3
  <1>7. ASSUME NEW i \in Ids, StopBegin(i) \/ StartIgnored(i) \/ Start(i) PROVE AskedInv'
    <2>1. UNCHANGED <<ingestors, conf, op, dels, puts, asked, scope>>
      BY <1>7 DEF StopBegin, StartIgnored, Start
    <2>2. \A j \in Ids : task'[j] # "none" => task[j] # "none"
      BY <1>7 DEF StopBegin, StartIgnored, Start, IInv, TypeOK
    <2> QED BY <2>1, <2>2, AskedFrame
  <1> QED BY <1>1, <1>2, <1>3, <1>4, <1>5, <1>6, <1>7 DEF CallStep

LEMMA NextAsked == IInv /\ AskedInv /\ [Next]_vars => AskedInv'
  <1> SUFFICES ASSUME IInv, AskedInv, [Next]_vars PROVE AskedInv'
    OBVIOUS
  <1>1. ASSUME NEW i \in Ids, LoopStep(i) PROVE AskedInv'
    <2>1. UNCHANGED <<ingestors, conf, op, dels, puts, task, asked, scope>>
      BY <1>1 DEF LoopStep, BuildCheck, BuildWindow, BuildExit, RunTick, RunWindows, RunExit, RepairDone,
         loopFrame, calling
    <2> QED BY <2>1, AskedFrame
  <1>2. CASE UNCHANGED vars
    BY <1>2, AskedFrame DEF vars, ingVars, calling
  <1> QED BY <1>1, <1>2, CallAsked, CallStepAsked DEF Next

LEMMA AskedHolds == Spec => []AskedInv
  BY InitAsked, NextAsked, IInvHolds, PTL DEF Spec

(* Every step of the manager is a step of the promise or leaves it alone.  *)
LEMMA TableStep == IInv /\ AskedInv /\ [Next]_vars => [Table!Next]_(Table!promise)
  <1> SUFFICES ASSUME IInv, AskedInv, [Next]_vars PROVE [Table!Next]_(Table!promise)
    OBVIOUS
  <1> USE IngestionAssumption DEF calling
  <1>0. ASSUME UNCHANGED <<ingestors, conf, asked, scope>> PROVE [Table!Next]_(Table!promise)
    BY <1>0 DEF configs, Table!promise
  <1>1. ASSUME NEW k \in Keys, CreateIngestor(k) PROVE [Table!Next]_(Table!promise)
    <2>1. CASE puts[k] \in UnknownVersions
      BY <1>0, <1>1, <2>1 DEF CreateIngestor
    <2>2. CASE puts[k] \notin UnknownVersions
      <3>1. puts[k] # NoConf /\ asked[k] = puts[k] /\ k \in scope /\ UNCHANGED <<asked, scope>>
        BY <1>1 DEF CreateIngestor, AskedInv, Pending
      <3>2. configs[k] = NoConf /\ configs' = [configs EXCEPT ![k] = Table!Served(k)]
        BY <1>1, <2>2, <3>1, AddToTable DEF Table!Served
      <3> QED BY <3>1, <3>2 DEF Table!Change, Table!Next
    <2> QED BY <2>1, <2>2
  <1>2. ASSUME NEW i \in Ids, StopEnd(i) PROVE [Table!Next]_(Table!promise)
    <2>1. AfterStop(i) /\ UNCHANGED <<conf, asked, scope>> /\ task[i] = "stopping"
      BY <1>2 DEF StopEnd
    <2>2. CASE op # "config"
      BY <1>0, <2>1, <2>2 DEF AfterStop
    <2>3. CASE op = "config"
      <3>1. ingestors' = [k \in Keys |-> IF ingestors[k] = i THEN Nobody ELSE ingestors[k]]
        BY <2>1, <2>3 DEF AfterStop
      <3>2. PICK k \in dels : ingestors[k] = i
        BY <2>1, <2>3 DEF AskedInv
      <3>3. k \in Keys /\ k \in scope
        BY <3>2 DEF IInv, TypeOK, AskedInv, Pending
      <3>4. configs' = [configs EXCEPT ![k] = NoConf]
        BY <2>1, <3>1, <3>2, <3>3, RemoveFromTable
      <3> QED BY <2>1, <3>3, <3>4 DEF Table!Change, Table!Next
    <2> QED BY <2>2, <2>3
  <1>3. CASE Call
    <2>0. op = "none" => scope = {}
      BY DEF AskedInv
    <2>1. ASSUME NEW k \in Keys, NEW v \in Versions, PutConfig(k, v) PROVE Table!PutConfig(k, v)
      BY <2>0, <2>1 DEF PutConfig, Table!PutConfig, configs, ingVars
    <2>2. ASSUME NEW k \in Keys, DeleteConfig(k) PROVE Table!DeleteConfig(k)
      BY <2>0, <2>2 DEF DeleteConfig, Table!DeleteConfig, configs, ingVars
    <2>3. ASSUME NEW m \in [Keys -> Versions \cup {NoConf}], SetConfigs(m) PROVE Table!SetConfigs(m)
      BY <2>0, <2>3 DEF SetConfigs, Table!SetConfigs, configs, ingVars
    <2>4. ASSUME NEW k \in Keys, Rebuild(k) \/ Repair(k) PROVE [Table!Next]_(Table!promise)
      BY <1>0, <2>4 DEF Rebuild, Repair, OnAll, RepairSet, ingVars
    <2>5. CASE StartAll \/ StopAll \/ RebuildAll \/ RepairAll
      BY <1>0, <2>5 DEF StartAll, StopAll, RebuildAll, RepairAll, OnAll, RepairSet, ingVars
    <2> QED BY <1>3, <2>1, <2>2, <2>3, <2>4, <2>5 DEF Call, Table!Next
  <1>4. ASSUME NEW k \in Keys, DeleteMissing(k) \/ DeleteIngestor(k) \/ ReplaceIngestor(k)
        PROVE  [Table!Next]_(Table!promise)
    <2>1. UNCHANGED <<ingestors, conf, asked, scope>>
      BY <1>4 DEF DeleteMissing, DeleteIngestor, ReplaceIngestor, ingVars
    <2> QED BY <1>0, <2>1
  <1>5. ASSUME NEW i \in Ids, StopBegin(i) \/ StartIgnored(i) \/ Start(i) \/ LoopStep(i)
        PROVE  [Table!Next]_(Table!promise)
    <2>1. UNCHANGED <<ingestors, conf, asked, scope>>
      BY <1>5 DEF StopBegin, StartIgnored, Start, LoopStep, BuildCheck, BuildWindow, BuildExit, RunTick,
         RunWindows, RunExit, RepairDone, loopFrame, ingVars
    <2> QED BY <1>0, <2>1
  (* When a call that changes configs unlocks, nothing is pending: every   *)
  (* key runs what it should.                                              *)
  <1>6. CASE Unlock
    <2>1. dels = {} /\ puts = NoPuts /\ scope' = {} /\ UNCHANGED <<ingestors, conf, asked>>
      BY <1>6 DEF Unlock, ingVars
    <2>2. \A k \in Keys : configs[k] = Table!Served(k)
      BY <2>1 DEF AskedInv, Pending, NoPuts
    <2>3. CASE scope = {}
      BY <1>0, <2>1, <2>3
    <2>4. CASE scope # {}
      BY <2>1, <2>2, <2>4 DEF Table!Return, Table!Next, configs
    <2> QED BY <2>3, <2>4
  <1>7. CASE UNCHANGED vars
    BY <1>0, <1>7 DEF vars, ingVars
  <1>8. CASE CallStep
    BY <1>1, <1>2, <1>4, <1>5, <1>6, <1>8 DEF CallStep
  <1> QED BY <1>3, <1>5, <1>7, <1>8 DEF Next

(* The manager keeps the promise of the Observer interface for every       *)
(* interleaving of calls and goroutines: PutConfig, DeleteConfig and       *)
(* SetConfigs touch only the keys they are about, one at a time, and when  *)
(* they return an ingestor runs for exactly the configs asked for          *)
(* (ingestionmanager.go, deleteIngestor and createIngestor).               *)
THEOREM ImplementsObserverHolds == Spec => ImplementsObserver
  <1>1. Init => Table!Init
    BY DEF Init, configs, NoPuts, Table!Init
  <1> QED BY <1>1, TableStep, IInvHolds, AskedHolds, PTL DEF Spec, ImplementsObserver, Table!Spec

-----------------------------------------------------------------------------
(***************************************************************************)
(* The windows of one ingestor (IngestorWindows), for any number of ticks  *)
(* a day, any windows, retention, latency and number of calls. What the    *)
(* coverage and a good run contain does not depend on the pace of the      *)
(* queries (PaceAssumption), that no day is left behind does.              *)
(***************************************************************************)

(* The constants are positive numbers, and no day before the first one is  *)
(* ever reached.                                                           *)
LEMMA WindowsConstants ==
  /\ D \in Nat /\ D >= 1 /\ QueryWindow \in Nat /\ QueryWindow >= 1
  /\ RunWindow \in Nat /\ RunWindow >= 1 /\ Duration \in Nat /\ Duration >= 1
  /\ MonthToDateRunInterval \in Nat /\ MonthToDateRunInterval >= 1
  /\ MonthDays \in Nat /\ MonthDays >= 1 /\ Refresh \in Nat
  /\ Latency \in Nat /\ Latency >= 1 /\ MaxOutage \in Nat /\ MaxOutage >= 1
  /\ FirstDay \in Nat /\ LastDay \in Nat /\ MaxStops \in Nat /\ MaxRepairs \in Nat
  /\ FirstDay >= Duration + QueryWindow /\ FirstDay >= RunWindow + MonthDays
  /\ FirstDay <= LastDay
  BY WindowsAssumption

(* Midnight is additive and strictly monotonic. *)
LEMMA MidnightFacts ==
  /\ \A x \in Nat : Midnight(x) \in Nat /\ Midnight(x + 1) = Midnight(x) + D
  /\ \A x, y \in Nat : Midnight(x + y) = Midnight(x) + Midnight(y)
  /\ \A x, y \in Nat : x <= y <=> Midnight(x) <= Midnight(y)
  /\ \A x, y \in Nat : x < y => Midnight(x) + D <= Midnight(y)
  <1> USE WindowsConstants
  <1>1. \A x, y \in Nat : x < y => D * x + D <= D * y
    <2> SUFFICES ASSUME NEW x \in Nat, NEW y \in Nat, x < y PROVE D * x + D <= D * y
      OBVIOUS
    <2>1. PICK z \in Nat : y = x + 1 + z
      BY y - x - 1 \in Nat
    <2>2. D * y = D * x + D + D * z /\ D * z >= 0
      BY <2>1
    <2> QED BY <2>2
  <1> QED BY <1>1 DEF Midnight

(* RoundBack and RoundForward are the two adjoints of Midnight: a day has  *)
(* begun by t exactly if it is at most RoundBack(t).                       *)
LEMMA RoundBackFacts ==
  ASSUME NEW t \in Nat
  PROVE  /\ RoundBack(t) \in Nat
         /\ \A x \in Nat : x <= RoundBack(t) <=> Midnight(x) <= t
  <1> USE WindowsConstants
  <1>1. RoundBack(t) \in Nat /\ D * RoundBack(t) <= t /\ t < D * RoundBack(t) + D
    BY DEF RoundBack
  <1>2. Midnight(RoundBack(t)) <= t /\ t < Midnight(RoundBack(t)) + D
    BY <1>1 DEF Midnight
  <1>3. ASSUME NEW x \in Nat, NEW q \in Nat, Midnight(q) <= t, t < Midnight(q) + D
        PROVE  x <= q <=> Midnight(x) <= t
    <2>1. /\ x <= q => Midnight(x) <= Midnight(q)
          /\ q < x => Midnight(q) + D <= Midnight(x)
          /\ Midnight(x) \in Nat /\ Midnight(q) \in Nat
      BY MidnightFacts
    <2> QED BY <1>3, <2>1
  <1> QED BY <1>1, <1>2, <1>3

(* t is not past the beginning of a day exactly if the day is at least     *)
(* RoundForward(t).                                                        *)
LEMMA RoundForwardFacts ==
  ASSUME NEW t \in Nat
  PROVE  /\ RoundForward(t) \in Nat
         /\ \A x \in Nat : RoundForward(t) <= x <=> t <= Midnight(x)
  <1> USE WindowsConstants
  <1>1. RoundForward(t) \in Nat /\ D * RoundForward(t) <= t + D - 1 /\ t + D - 1 < D * RoundForward(t) + D
    BY t + D - 1 \in Nat DEF RoundForward
  <1>2. Midnight(RoundForward(t)) < t + D /\ t <= Midnight(RoundForward(t))
    BY <1>1 DEF Midnight
  <1>3. ASSUME NEW x \in Nat, NEW q \in Nat, Midnight(q) < t + D, t <= Midnight(q)
        PROVE  q <= x <=> t <= Midnight(x)
    <2>1. /\ q <= x => Midnight(q) <= Midnight(x)
          /\ x < q => Midnight(x) + D <= Midnight(q)
          /\ Midnight(x) \in Nat /\ Midnight(q) \in Nat
      BY MidnightFacts
    <2> QED BY <1>3, <2>1
  <1> QED BY <1>1, <1>2, <1>3

(* The number-valued parts of a state *)
LEMMA NumberFacts ==
  ASSUME WindowsTypeOK
  PROVE  /\ Days \subseteq Nat /\ Times \subseteq Nat
         /\ r.s \in Nat /\ r.e \in Nat /\ r.at \in Nat /\ r.began \in Nat
         /\ b.s \in Nat /\ b.e \in Nat /\ b.limit \in Nat
         /\ lastRun \in Nat /\ lastGood \in Nat /\ now \in Nat
         /\ repair.s \in Days /\ repair.e \in Days /\ repair.heir \in Nat
         /\ Repairing => repair.at \in Nat
  <1>1. Days \subseteq Nat /\ Times \subseteq Nat
    BY WindowsConstants DEF Days, Times
  <1>2. r.s \in Days /\ r.e \in Days /\ r.at \in Nat /\ r.began \in Times
    BY DEF WindowsTypeOK, RunState
  <1>3. b.s \in Days /\ b.e \in Days /\ b.limit \in Days
    BY DEF WindowsTypeOK, BuildState
  <1>4. lastRun \in Days /\ lastGood \in Times /\ now \in Times
    BY DEF WindowsTypeOK
  <1>5. /\ repair.s \in Days /\ repair.e \in Days /\ repair.heir \in Days
        /\ Repairing => repair.at \in Times
    BY DEF WindowsTypeOK, Repairing
  <1> QED BY <1>1, <1>2, <1>3, <1>4, <1>5

(* The moments and days of a state, all within the types. *)
LEMMA ClockBounds ==
  ASSUME WindowsTypeOK, ClockInv
  PROVE  /\ now \in Nat /\ RoundBack(now) \in FirstDay .. LastDay
         /\ RoundBack(now) - QueryWindow \in Nat
         /\ Limit \in Nat /\ Limit = RoundBack(now) - Duration
         /\ RoundForward(now) \in 0 .. LastDay + 1
         /\ now < Midnight(LastDay + 1) /\ Midnight(LastDay + 1) \in Nat
  <1>1. now \in Nat /\ Midnight(LastDay + 1) \in Nat
    BY WindowsConstants, MidnightFacts DEF WindowsTypeOK, Times
  <1>2. RoundBack(now) \in FirstDay .. LastDay
    <2>1. lastRun \in Nat
      BY WindowsConstants DEF WindowsTypeOK, Days
    <2>2. FirstDay <= lastRun /\ lastRun <= RoundBack(now) /\ RoundBack(now) <= LastDay
      BY DEF ClockInv, DayClock
    <2> QED BY <1>1, <2>1, <2>2, WindowsConstants, RoundBackFacts
  <1>3. now < Midnight(LastDay + 1)
    <2>1. ~(LastDay + 1 <= RoundBack(now))
      BY <1>2, WindowsConstants
    <2> QED BY <2>1, <1>1, WindowsConstants, RoundBackFacts
  <1>4. RoundForward(now) \in 0 .. LastDay + 1
    BY <1>1, <1>3, WindowsConstants, RoundForwardFacts
  <1> QED BY <1>1, <1>2, <1>3, <1>4, WindowsConstants DEF Limit

(* The first window of a run starts no later than RunWindow before the     *)
(* last run.                                                               *)
LEMMA RunStartFacts ==
  ASSUME WindowsTypeOK, ClockInv
  PROVE  RunStart \in Nat /\ RunStart <= lastRun - RunWindow /\ lastRun - RunWindow \in Nat
  <1> DEFINE d == lastRun - RunWindow
  <1>1. lastRun \in Nat /\ d \in Nat /\ d >= MonthDays
    <2>1. lastRun \in Nat
      BY WindowsConstants DEF WindowsTypeOK, Days
    <2>2. FirstDay <= lastRun
      BY DEF ClockInv, DayClock
    <2> QED BY <2>1, <2>2, WindowsConstants
  <1>2. d % MonthDays \in 0 .. MonthDays - 1
    BY <1>1, WindowsConstants
  <1> HIDE DEF d
  <1>3. (IF runs = 0 THEN d - (d % MonthDays) ELSE d) \in 0 .. d
    BY <1>1, <1>2, WindowsConstants
  <1> QED BY <1>1, <1>3 DEF RunStart, d

(* A build moves its window back by QueryWindow, or on to the limit. *)
LEMMA ShiftedFacts ==
  ASSUME WindowsTypeOK, ClockInv, Building
  PROVE  /\ Shifted \in BuildState
         /\ Shifted.pc = "loop" /\ Shifted.limit = b.limit /\ Shifted.good = b.good
         /\ Shifted.e <= b.e /\ Shifted.e \in Nat
         /\ Shifted.s <= b.limit \/ Shifted.s + QueryWindow <= Shifted.e
         /\ \A d \in Nat : (Limit <= d /\ d < b.e /\ Shifted.e <= d) => b.s <= d
  <1> USE WindowsConstants, ClockBounds
  <1>1. /\ b.s \in Days /\ b.e \in Days /\ b.limit \in Days /\ Limit \in Nat
        /\ b.limit <= Limit
        /\ b.s <= b.limit \/ b.s + QueryWindow <= b.e
        /\ b = [b EXCEPT !.pc = b.pc] /\ b \in BuildState
    BY DEF WindowsTypeOK, BuildState, ClockInv, BuildClock
  <1> DEFINE s == IF b.s < b.limit + QueryWindow THEN b.limit ELSE b.s - QueryWindow
             e == Minus(b.e, QueryWindow)
  <1>2. /\ s \in Days /\ e \in Days /\ e <= b.e /\ e \in Nat
        /\ s <= b.limit \/ s + QueryWindow <= e
        /\ \A d \in Nat : (Limit <= d /\ d < b.e /\ e <= d) => b.s <= d
    BY <1>1 DEF Days, Minus
  <1>3. Shifted = [b EXCEPT !.pc = "loop", !.s = s, !.e = e]
    BY DEF Shifted
  <1> HIDE DEF s, e
  <1> QED BY <1>1, <1>2, <1>3 DEF BuildState

(* What the repository and the coverage are after a window was stored. *)
LEMMA StoreFacts ==
  ASSUME WindowsTypeOK, NEW s, NEW e, NEW t, Store(s, e, t)
  PROVE  /\ repo' \in [Days -> Data] /\ missed' \subseteq Days
         /\ \A d \in Days : repo'[d] = IF s <= d /\ d < e THEN DataAt(t, d) ELSE repo[d]
         /\ \A d \in Days : d \in missed' <=> d \in missed /\ repo'[d] # "final"
  <1>1. repo' = [d \in Days |-> IF s <= d /\ d < e THEN DataAt(t, d) ELSE repo[d]]
    BY DEF Store, Put
  <1>2. repo' \in [Days -> Data]
    BY <1>1 DEF WindowsTypeOK, DataAt, Data
  <1>3. missed' = {d \in missed : repo'[d] # "final"}
    BY DEF Store
  <1> QED BY <1>1, <1>2, <1>3 DEF WindowsTypeOK

LEMMA ExpandFacts ==
  ASSUME WindowsTypeOK, NEW s \in Days, NEW e \in Days, ExpandCoverage(s, e)
  PROVE  /\ coverage' \in Window /\ foreign' \subseteq Days
         /\ \A d \in Days : Covered(d) => Covered(d)'
         /\ \A d \in Days : (s <= d /\ d < e) => Covered(d)'
         /\ \A d \in Days : d \in foreign => d \in foreign' \/ Covered(d)'
  <1> USE WindowsConstants
  <1>1. coverage \in Window /\ foreign \subseteq Days
    BY DEF WindowsTypeOK
  <1>2. coverage' = IF s < e THEN [start |-> IF s < coverage.start THEN s ELSE coverage.start,
                                   end |-> IF e > coverage.end THEN e ELSE coverage.end]
                             ELSE coverage
    BY DEF ExpandCoverage
  <1>3. foreign' = {d \in foreign : d < s \/ e <= d}
    BY DEF ExpandCoverage
  <1>4. coverage' \in Window
    BY <1>1, <1>2 DEF Window
  <1>5. \A d \in Days : Covered(d) \/ (s <= d /\ d < e) => Covered(d)'
    BY <1>1, <1>2 DEF Window, Covered, Days
  <1>6. \A d \in Days : d \in foreign => d \in foreign' \/ Covered(d)'
    BY <1>3, <1>5 DEF Days
  <1> QED BY <1>1, <1>3, <1>4, <1>5, <1>6

(* Every step keeps the types: in particular no window reaches past the    *)
(* days of the model.                                                      *)
LEMMA WindowsTyped ==
  ASSUME WindowsTypeOK, ClockInv, [WindowsNext]_windowsVars
  PROVE  WindowsTypeOK'
  <1> USE WindowsConstants, ClockBounds
  <1>0. 0 \in Days /\ 0 \in Times /\ \A x, y \in Days : x .. y - 1 \subseteq Days
    BY DEF Days, Times
  <1>1. CASE BuildSkip
    <2>1. Building /\ b.s \in Days /\ b.e \in Days
      BY <1>1 DEF BuildSkip, Building, WindowsTypeOK, BuildState
    <2>2. b' \in BuildState
      BY <1>1, <2>1, ShiftedFacts DEF BuildSkip
    <2>3. coverage' \in Window /\ foreign' \subseteq Days
      BY <1>1, <2>1, ExpandFacts DEF BuildSkip
    <2>4. missed' \subseteq Days
      <3>1. missed \subseteq Days /\ b.s .. b.e - 1 \subseteq Days
        BY <2>1, <1>0 DEF WindowsTypeOK
      <3> QED BY <1>1, <3>1 DEF BuildSkip
    <2> QED BY <1>1, <2>2, <2>3, <2>4 DEF BuildSkip, WindowsTypeOK, callVars
  <1>2. CASE BuildQuery
    <2>1. b.s \in Days /\ b.e \in Days
      BY DEF WindowsTypeOK, BuildState
    <2>2. coverage' \in Window /\ foreign' \subseteq Days
      <3>1. CASE b.rebuild
        BY <1>2, <3>1 DEF BuildQuery, WindowsTypeOK
      <3>2. CASE ~b.rebuild
        <4>1. PICK d \in Missing(b.s, b.e) : ExpandCoverage(b.s, d)
          BY <1>2, <3>2 DEF BuildQuery
        <4>2. d \in Days
          BY <2>1 DEF Missing, Days
        <4> QED BY <2>1, <4>1, <4>2, ExpandFacts
      <3> QED BY <3>1, <3>2
    <2>3. b' \in BuildState
      BY <1>2 DEF BuildQuery, WindowsTypeOK, BuildState
    <2> QED BY <1>2, <2>2, <2>3 DEF BuildQuery, WindowsTypeOK, callVars
  <1>3. CASE BuildStore
    <2>1. Building /\ b.s \in Days /\ b.e \in Days
      BY <1>3 DEF BuildStore, Building, WindowsTypeOK, BuildState
    <2>2. b' \in BuildState
      BY <1>3, <2>1, ShiftedFacts DEF BuildStore
    <2>3. coverage' \in Window /\ foreign' \subseteq Days
      BY <1>3, <2>1, ExpandFacts DEF BuildStore
    <2>4. repo' \in [Days -> Data] /\ missed' \subseteq Days
      BY <1>3, StoreFacts DEF BuildStore
    <2> QED BY <1>3, <2>2, <2>3, <2>4 DEF BuildStore, WindowsTypeOK, callVars
  <1>4. CASE BuildFails
    <2>1. Building /\ b.s \in Days /\ b.e \in Days
      BY <1>4 DEF BuildFails, Building, WindowsTypeOK, BuildState
    <2>2. b' \in BuildState
      BY <1>4, <2>1, ShiftedFacts DEF BuildFails, BuildState
    <2>3. missed' \subseteq Days
      <3>1. missed \subseteq Days /\ b.s .. b.e - 1 \subseteq Days
        BY <2>1, <1>0 DEF WindowsTypeOK
      <3> QED BY <1>4, <3>1 DEF BuildFails
    <2> QED BY <1>4, <2>2, <2>3 DEF BuildFails, WindowsTypeOK, callVars
  <1>5. CASE BuildCompletes
    <2>1. b' \in BuildState
      BY <1>0, <1>5 DEF BuildCompletes, NoBuild, WindowsTypeOK, BuildState
    <2> QED BY <1>5, <2>1 DEF BuildCompletes, WindowsTypeOK, callVars
  <1>6. CASE RunBegins
    <2>1. RunStart \in Days /\ RunStart + QueryWindow \in Days
      <3>1. lastRun <= LastDay /\ lastRun \in Nat
        <4>1. lastRun \in Nat
          BY DEF WindowsTypeOK, Days
        <4>2. lastRun <= RoundBack(now)
          BY DEF ClockInv, DayClock
        <4> QED BY <4>1, <4>2
      <3> QED BY <3>1, RunStartFacts DEF Days
    <2>2. r' \in RunState
      BY <1>6, <2>1 DEF RunBegins, RunState, WindowsTypeOK
    <2> QED BY <1>6, <2>2 DEF RunBegins, WindowsTypeOK, callVars
  <1>7. CASE RunQuery
    <2>1. r' \in RunState
      BY <1>7 DEF RunQuery, RunState, WindowsTypeOK
    <2> QED BY <1>7, <2>1 DEF RunQuery, WindowsTypeOK, callVars
  <1>8. ASSUME NEW good \in BOOLEAN, r.pc = "fetch", RunNext(good)
        PROVE  r' \in RunState
    <2>1. r.s \in Nat /\ r.e \in Days /\ r.s <= LastDay /\ r \in RunState
      <3>1. r \in RunState /\ r.s \in Days /\ r.e \in Days
        BY DEF WindowsTypeOK, RunState
      <3>2. r.s <= RoundBack(now)
        BY <1>8 DEF ClockInv, RunClock
      <3>3. r.s \in Nat
        BY <3>1 DEF Days
      <3> QED BY <3>1, <3>2, <3>3
    <2>2. NextEnd \in Days
      <3>1. CASE Midnight(r.e + QueryWindow) > now
        BY <3>1 DEF NextEnd, Days
      <3>2. CASE ~(Midnight(r.e + QueryWindow) > now)
        <4>1. r.e + QueryWindow \in Nat /\ Midnight(r.e + QueryWindow) \in Nat
          <5>1. r.e + QueryWindow \in Nat
            BY <2>1 DEF Days
          <5> QED BY <5>1, MidnightFacts
        <4>2. r.e + QueryWindow <= RoundBack(now)
          BY <3>2, <4>1, RoundBackFacts
        <4> QED BY <3>2, <4>1, <4>2 DEF NextEnd, Days
      <3> QED BY <3>1, <3>2
    <2>3. r.s + QueryWindow \in Days
      BY <2>1 DEF Days
    <2> QED BY <1>8, <2>1, <2>2, <2>3 DEF RunNext, RunState
  <1>9. CASE RunStore
    <2>1. r' \in RunState
      BY <1>8, <1>9 DEF RunStore, WindowsTypeOK, RunState
    <2>2. coverage' \in Window /\ foreign' \subseteq Days
      BY <1>9, ExpandFacts DEF RunStore, WindowsTypeOK, RunState
    <2>3. repo' \in [Days -> Data] /\ missed' \subseteq Days
      BY <1>9, StoreFacts DEF RunStore
    <2> QED BY <1>9, <2>1, <2>2, <2>3 DEF RunStore, WindowsTypeOK, callVars
  <1>10. CASE RunFails
    <2>1. r' \in RunState
      BY <1>8, <1>10 DEF RunFails
    <2> QED BY <1>10, <2>1 DEF RunFails, WindowsTypeOK, callVars
  <1>11. CASE RunReachesNow
    <2>1. r' \in RunState /\ lastGood' \in Times /\ lastRun' \in Days
      <3>1. RoundBack(now) \in Days
        BY DEF Days
      <3>2. r.began \in Times /\ lastGood \in Times
        BY DEF WindowsTypeOK, RunState
      <3> QED BY <1>11, <3>1, <3>2 DEF RunReachesNow, WindowsTypeOK, RunState
    <2> QED BY <1>11, <2>1 DEF RunReachesNow, WindowsTypeOK, callVars
  <1>12. CASE RunExpire
    <2>1. r' \in RunState
      <3>1. Limit \in Days
        BY DEF Days
      <3> QED BY <1>12, <3>1 DEF RunExpire, WindowsTypeOK, RunState
    <2>2. repo' \in [Days -> Data] /\ missed' \subseteq Days
      BY <1>12 DEF RunExpire, WindowsTypeOK, Data
    <2> QED BY <1>12, <2>1, <2>2 DEF RunExpire, WindowsTypeOK, callVars
  <1>13. CASE RunContract
    <2>1. r' \in RunState
      <3>1. now + Refresh \in Nat /\ r \in RunState
        BY DEF WindowsTypeOK
      <3>2. r' = [r EXCEPT !.pc = "select", !.at = now + Refresh, !.s = 0, !.e = 0, !.began = 0, !.good = TRUE]
        BY <1>13 DEF RunContract
      <3> QED BY <1>0, <3>1, <3>2 DEF RunState
    <2>2. coverage' \in Window
      BY <1>13 DEF RunContract, WindowsTypeOK, RunState, Window
    <2>3. runs' \in 0 .. MonthToDateRunInterval - 1
      BY <1>13 DEF RunContract, WindowsTypeOK
    <2> QED BY <1>13, <2>1, <2>2, <2>3 DEF RunContract, WindowsTypeOK, callVars
  <1>14. CASE \E s \in Limit .. RoundBack(now) : RepairQuery(s)
    <2>1. PICK s \in Limit .. RoundBack(now) : RepairQuery(s)
      BY <1>14
    <2>2. s \in Days /\ s + QueryWindow \in Days /\ Own \in Days
      BY DEF Days, Own
    <2>3. repair' \in [s : Days, e : Days, at : Times \cup {NoTime}, heir : Days]
      BY <2>1, <2>2 DEF RepairQuery, WindowsTypeOK
    <2>4. repairCalls' \in 0 .. MaxRepairs
      BY <2>1 DEF RepairQuery, WindowsTypeOK
    <2> QED BY <2>1, <2>3, <2>4 DEF RepairQuery, WindowsTypeOK
  <1>15. ASSUME RepairNext
         PROVE  repair' \in [s : Days, e : Days, at : Times \cup {NoTime}, heir : Days]
    <2>1. CASE repair' = NoRepair
      BY <2>1 DEF NoRepair, Own, Days
    <2>2. CASE /\ repair.e <= RoundBack(now)
               /\ \E n \in 1 .. QueryWindow :
                    repair' = [repair EXCEPT !.s = repair.e, !.e = repair.e + n, !.at = now]
      <3>1. PICK n \in 1 .. QueryWindow : repair' = [repair EXCEPT !.s = repair.e, !.e = repair.e + n, !.at = now]
        BY <2>2
      <3>2. repair.e \in Days /\ repair.e + n \in Days
        <4>1. repair.e \in Days /\ repair.e \in Nat
          BY DEF WindowsTypeOK, Days
        <4> QED BY <2>2, <4>1 DEF Days
      <3> QED BY <3>1, <3>2 DEF WindowsTypeOK
    <2> QED BY <1>15, <2>1, <2>2 DEF RepairNext
  <1>16. CASE RepairStore
    <2>1. repo' \in [Days -> Data] /\ missed' \subseteq Days
      BY <1>16, StoreFacts DEF RepairStore
    <2>2. coverage' \in Window /\ foreign' \subseteq Days
      <3>1. repair.s \in Days /\ repair.e \in Days
        BY DEF WindowsTypeOK
      <3>2. CASE repair.heir = Own
        BY <1>16, <3>1, <3>2, ExpandFacts DEF RepairStore
      <3>3. CASE repair.heir # Own
        <4>1. repair.s .. repair.e - 1 \subseteq Days /\ foreign \subseteq Days /\ coverage \in Window
          BY <1>0, <3>1 DEF WindowsTypeOK
        <4> QED BY <1>16, <3>3, <4>1 DEF RepairStore
      <3> QED BY <3>2, <3>3
    <2> QED BY <1>15, <1>16, <2>1, <2>2 DEF RepairStore, WindowsTypeOK, callVars
  <1>17. CASE RepairFails
    BY <1>15, <1>17 DEF RepairFails, WindowsTypeOK, callVars
  <1>18. CASE Stop
    BY <1>18 DEF Stop, WindowsTypeOK
  <1>19. CASE BuildLeaves
    <2>1. b' \in BuildState
      BY <1>0, <1>19 DEF BuildLeaves, NoBuild, WindowsTypeOK, BuildState
    <2> QED BY <1>19, <2>1 DEF BuildLeaves, WindowsTypeOK, callVars
  <1>20. CASE RunLeaves
    <2>1. r' \in RunState
      BY <1>20 DEF RunLeaves, WindowsTypeOK, RunState
    <2> QED BY <1>20, <2>1 DEF RunLeaves, WindowsTypeOK, callVars
  <1>21. NewRun \in RunState /\ \A rebuild \in BOOLEAN : NewBuild(rebuild) \in BuildState
    <2>1. /\ RoundBack(now) - QueryWindow \in Days /\ RoundBack(now) \in Days
          /\ RoundBack(now) - Duration \in Days
      BY DEF Days
    <2> QED BY <1>0, <2>1 DEF NewRun, RunState, NewBuild, BuildState
  <1>22. CASE \E rebuild \in BOOLEAN : StartAgain(rebuild)
    BY <1>21, <1>22 DEF StartAgain, WindowsTypeOK
  <1>23. CASE Recreate
    <2>1. coverage' \in Window /\ lastRun' \in Days /\ runs' \in 0 .. MonthToDateRunInterval - 1
      BY <1>23 DEF Recreate, NewCoverage, Window, Days
    <2>2. repair' \in [s : Days, e : Days, at : Times \cup {NoTime}, heir : Days]
      <3>1. RoundBack(now) \in Days
        BY DEF Days
      <3> QED BY <1>23, <3>1 DEF Recreate, WindowsTypeOK
    <2> QED BY <1>21, <1>23, <2>1, <2>2 DEF Recreate, WindowsTypeOK
  <1>24. CASE TimePasses
    <2>1. now' \in Times
      BY <1>24 DEF TimePasses, WindowsTypeOK, Times
    <2> QED BY <1>24, <2>1 DEF TimePasses, WindowsTypeOK, callVars
  <1>25. CASE UNCHANGED windowsVars
    BY <1>25 DEF windowsVars, callVars, WindowsTypeOK
  <1> QED
    BY <1>1, <1>2, <1>3, <1>4, <1>5, <1>6, <1>7, <1>9, <1>10, <1>11, <1>12, <1>13, <1>14, <1>16,
       <1>17, <1>18, <1>19, <1>20, <1>22, <1>23, <1>24, <1>25 DEF WindowsNext, BuildStep, RunStep

(* What a passing tick does to the days: at most one midnight, and never   *)
(* past the last day explored.                                             *)
LEMMA TimeFacts ==
  ASSUME WindowsTypeOK, ClockInv, TimePasses
  PROVE  /\ now' = now + 1
         /\ RoundBack(now) <= RoundBack(now)' /\ RoundBack(now)' <= LastDay
         /\ RoundBack(now)' \in Nat
         /\ Limit <= Limit' /\ Limit' \in Nat
         /\ \A d \in Nat : Ended(d) => Ended(d)'
  <1> USE WindowsConstants, ClockBounds
  <1>1. now' = now + 1 /\ now' \in Nat /\ now < Midnight(LastDay)
    BY DEF TimePasses
  <1>2. RoundBack(now') \in Nat /\ \A x \in Nat : x <= RoundBack(now') <=> Midnight(x) <= now'
    BY <1>1, RoundBackFacts
  <1>3. RoundBack(now) \in Nat /\ \A x \in Nat : x <= RoundBack(now) <=> Midnight(x) <= now
    BY RoundBackFacts
  <1>4. RoundBack(now) <= RoundBack(now')
    <2>1. Midnight(RoundBack(now)) <= now
      BY <1>3
    <2>2. Midnight(RoundBack(now)) \in Nat
      BY <1>3, MidnightFacts
    <2> QED BY <1>1, <1>2, <1>3, <2>1, <2>2
  <1>5. RoundBack(now') <= LastDay
    <2>1. Midnight(LastDay + 1) > now' /\ LastDay + 1 \in Nat
      <3>1. Midnight(LastDay + 1) = Midnight(LastDay) + D /\ Midnight(LastDay) \in Nat
        BY MidnightFacts
      <3> QED BY <1>1, <3>1
    <2>2. ~(LastDay + 1 <= RoundBack(now'))
      BY <1>1, <1>2, <2>1, MidnightFacts
    <2> QED BY <1>2, <2>2
  <1>6. Limit' = RoundBack(now') - Duration
    BY DEF Limit
  <1>7. \A d \in Nat : Ended(d) => Ended(d)'
    BY <1>1, MidnightFacts DEF Ended
  <1> QED BY <1>1, <1>2, <1>3, <1>4, <1>5, <1>6, <1>7

(* Every step keeps the clocks of the goroutines in order.                 *)
LEMMA WindowsClock ==
  ASSUME WindowsTypeOK, ClockInv, [WindowsNext]_windowsVars
  PROVE  ClockInv'
  <1> USE WindowsConstants, ClockBounds
  <1>0. WindowsTypeOK' /\ Days \subseteq Nat
    BY WindowsTyped DEF Days
  <1>a. ASSUME now' = now
        PROVE  /\ RoundBack(now)' = RoundBack(now) /\ Limit' = Limit
               /\ UNCHANGED <<lastRun, lastGood>> => DayClock'
               /\ UNCHANGED r => RunClock'
               /\ UNCHANGED repair => RepairClock'
               /\ UNCHANGED repo => FinalEnded'
               /\ UNCHANGED b => BuildClock'
    BY <1>a DEF ClockInv, Limit, DayClock, RunClock, RepairClock, FinalEnded, BuildClock,
                InRun, Repairing, Ended, Building
  <1>b. ASSUME now' = now, NEW s \in Days, NEW e \in Days, NEW t \in Nat, t <= now, Store(s, e, t)
        PROVE  FinalEnded'
    <2>1. SUFFICES ASSUME NEW d \in Days, repo'[d] = "final" PROVE Midnight(d + 1) <= now
      BY <1>b DEF FinalEnded, Ended
    <2>2. d + 1 \in Nat /\ Midnight(d + 1) \in Nat
      BY <1>0, MidnightFacts
    <2>3. CASE s <= d /\ d < e
      <3>1. DataAt(t, d) = "final"
        BY <1>b, <2>1, <2>3, StoreFacts
      <3> QED BY <1>b, <2>2, <3>1 DEF DataAt
    <2>4. CASE ~(s <= d /\ d < e)
      <3>1. repo[d] = "final"
        BY <1>b, <2>1, <2>4, StoreFacts
      <3> QED BY <3>1 DEF ClockInv, FinalEnded, Ended
    <2> QED BY <2>3, <2>4
  <1>c. ASSUME Building, now' = now, b'.e = Shifted.e, b'.s = Shifted.s, b'.limit = Shifted.limit
        PROVE  BuildClock'
    <2>1. b.e <= RoundBack(now) /\ b.limit <= Limit /\ b.e \in Nat /\ b.limit \in Nat
      BY <1>0, <1>c DEF ClockInv, BuildClock, WindowsTypeOK, BuildState
    <2>2. Shifted.e \in Nat
      BY <1>c, <1>0, ShiftedFacts DEF BuildState
    <2> QED BY <1>a, <1>c, <2>1, <2>2, ShiftedFacts DEF BuildClock
  <1>1. CASE BuildSkip
    <2>1. BuildClock'
      BY <1>1, <1>c DEF BuildSkip, Building
    <2> QED BY <1>1, <1>a, <2>1 DEF BuildSkip, ClockInv
  <1>2. CASE BuildQuery
    <2>1. BuildClock'
      BY <1>2, <1>a DEF BuildQuery, ClockInv, BuildClock, Building, WindowsTypeOK, BuildState
    <2> QED BY <1>2, <1>a, <2>1 DEF BuildQuery, ClockInv
  <1>3. CASE BuildStore
    <2>1. BuildClock'
      BY <1>3, <1>c DEF BuildStore, Building
    <2>2. FinalEnded'
      BY <1>3, <1>b DEF BuildStore, WindowsTypeOK, BuildState
    <2> QED BY <1>3, <1>a, <2>1, <2>2 DEF BuildStore, ClockInv
  <1>4. CASE BuildFails
    <2>1. b'.e = Shifted.e /\ b'.s = Shifted.s /\ b'.limit = Shifted.limit
      BY <1>4, ShiftedFacts DEF BuildFails, BuildState, Building
    <2>2. BuildClock'
      BY <1>4, <1>c, <2>1 DEF BuildFails, Building
    <2> QED BY <1>4, <1>a, <2>2 DEF BuildFails, ClockInv
  <1>5. CASE BuildCompletes
    <2>1. BuildClock'
      BY <1>5 DEF BuildCompletes, NoBuild, BuildClock, Building, WindowsTypeOK, BuildState
    <2> QED BY <1>5, <1>a, <2>1 DEF BuildCompletes, ClockInv
  <1>6. CASE RunBegins
    <2>1. RunClock'
      BY <1>6 DEF RunBegins, RunClock, InRun
    <2> QED BY <1>6, <1>a, <2>1 DEF RunBegins, ClockInv
  <1>7. CASE RunQuery
    <2>1. r \in RunState /\ r.s \in Nat /\ r.at \in Nat /\ r.began \in Nat
      BY NumberFacts DEF WindowsTypeOK
    <2>2. Midnight(r.s) \in Nat /\ (r.s <= RoundBack(now) <=> Midnight(r.s) <= now)
      BY <2>1, MidnightFacts, RoundBackFacts
    <2>3. r.began <= r.at /\ r.at <= now
      BY <1>7 DEF RunQuery, ClockInv, RunClock, InRun
    <2>4. r' = [r EXCEPT !.pc = "fetch", !.at = now] /\ now' = now /\ Midnight(r.s) < now
      BY <1>7 DEF RunQuery
    <2>5. /\ r'.pc = "fetch" /\ r'.at = now /\ r'.s = r.s /\ r'.began = r.began
          /\ r.s <= RoundBack(now)
      BY <2>1, <2>2, <2>4 DEF RunState
    <2>6. RunClock'
      BY <2>1, <2>3, <2>4, <2>5 DEF RunClock, InRun
    <2> QED BY <1>7, <1>a, <2>6 DEF RunQuery, ClockInv
  <1>8. ASSUME NEW good, r.pc = "fetch", RunNext(good), now' = now PROVE RunClock'
    <2>1. r \in RunState /\ r.at \in Nat /\ r.began \in Nat
      BY <1>0 DEF WindowsTypeOK, RunState, Times
    <2>2. r.began <= r.at /\ r.at <= now
      BY <1>8 DEF ClockInv, RunClock, InRun
    <2>3. r'.pc = "window" /\ r'.at = now /\ r'.began = r.began
      BY <1>8, <2>1 DEF RunNext, RunState
    <2> QED BY <1>8, <2>1, <2>2, <2>3 DEF RunClock, InRun
  <1>9. CASE RunStore
    <2>1. r.pc = "fetch" /\ RunNext(r.good) /\ now' = now /\ Store(r.s, r.e, r.at)
      BY <1>9 DEF RunStore
    <2>2. r.s \in Days /\ r.e \in Days /\ r.at \in Nat /\ r.at <= now
      BY <2>1 DEF WindowsTypeOK, RunState, ClockInv, RunClock, InRun
    <2>3. FinalEnded'
      BY <1>b, <2>1, <2>2
    <2> QED BY <1>8, <1>9, <1>a, <2>1, <2>3 DEF RunStore, ClockInv
  <1>10. CASE RunFails
    BY <1>8, <1>10, <1>a DEF RunFails, ClockInv
  <1>11. CASE RunReachesNow
    <2>1. r'.pc = "expire" /\ r'.at = now /\ now' = now /\ r.began \in Nat
      BY <1>11 DEF RunReachesNow, WindowsTypeOK, RunState, Times
    <2>2. r.at \in Nat /\ r.began <= r.at /\ r.at <= now /\ lastGood <= now
      BY <1>11 DEF RunReachesNow, ClockInv, RunClock, DayClock, InRun, WindowsTypeOK, RunState
    <2>3. lastGood' <= now
      BY <1>11, <2>1, <2>2 DEF RunReachesNow
    <2>4. DayClock'
      BY <1>11, <2>3 DEF RunReachesNow, DayClock, ClockInv
    <2>5. RunClock'
      BY <2>1 DEF RunClock, InRun
    <2> QED BY <1>11, <1>a, <2>4, <2>5 DEF RunReachesNow, ClockInv
  <1>12. CASE RunExpire
    <2>1. r'.pc = "contract" /\ r'.at = now /\ r'.s = Limit /\ now' = now
      BY <1>12 DEF RunExpire, WindowsTypeOK, RunState
    <2>2. RunClock'
      BY <1>a, <2>1 DEF RunClock, InRun
    <2>3. FinalEnded'
      BY <1>12, <2>1 DEF RunExpire, FinalEnded, ClockInv, Ended
    <2> QED BY <1>12, <1>a, <2>2, <2>3 DEF RunExpire, ClockInv
  <1>13. CASE RunContract
    <2>1. r'.pc = "select"
      BY <1>13 DEF RunContract, WindowsTypeOK, RunState
    <2>2. RunClock'
      BY <2>1 DEF RunClock, InRun
    <2> QED BY <1>13, <1>a, <2>2 DEF RunContract, ClockInv
  <1>14. CASE \E s \in Limit .. RoundBack(now) : RepairQuery(s)
    <2>1. PICK s \in Limit .. RoundBack(now) : RepairQuery(s)
      BY <1>14
    <2>2. RepairClock'
      BY <2>1 DEF RepairQuery, RepairClock, Repairing, Own
    <2> QED BY <1>a, <2>1, <2>2 DEF RepairQuery, ClockInv
  <1>15. ASSUME Repairing, RepairNext, now' = now PROVE RepairClock'
    <2>1. CASE repair' = NoRepair
      BY <2>1 DEF RepairClock, Repairing, NoRepair, NoTime
    <2>2. CASE \E n \in 1 .. QueryWindow :
                    repair' = [repair EXCEPT !.s = repair.e, !.e = repair.e + n, !.at = now]
      <3>1. repair'.at = now /\ repair'.heir = repair.heir
        BY <2>2 DEF WindowsTypeOK
      <3> QED BY <1>15, <3>1 DEF RepairClock, Repairing, ClockInv
    <2> QED BY <1>15, <2>1, <2>2 DEF RepairNext
  <1>16. CASE RepairStore
    <2>1. repair.s \in Days /\ repair.e \in Days /\ repair.at \in Nat /\ repair.at <= now
      BY <1>16 DEF RepairStore, Repairing, WindowsTypeOK, ClockInv, RepairClock, Times, NoTime
    <2>2. FinalEnded'
      BY <1>16, <1>b, <2>1 DEF RepairStore
    <2> QED BY <1>15, <1>16, <1>a, <2>2 DEF RepairStore, ClockInv
  <1>17. CASE RepairFails
    BY <1>15, <1>17, <1>a DEF RepairFails, ClockInv
  <1>18. CASE Stop
    BY <1>18, <1>a DEF Stop, ClockInv
  <1>19. CASE BuildLeaves
    <2>1. BuildClock'
      BY <1>19 DEF BuildLeaves, NoBuild, BuildClock, Building, WindowsTypeOK, BuildState
    <2> QED BY <1>19, <1>a, <2>1 DEF BuildLeaves, ClockInv
  <1>20. CASE RunLeaves
    <2>1. r'.pc = "stopped"
      BY <1>20 DEF RunLeaves, WindowsTypeOK, RunState
    <2>2. RunClock'
      BY <2>1 DEF RunClock, InRun
    <2> QED BY <1>20, <1>a, <2>2 DEF RunLeaves, ClockInv
  <1>21. ASSUME NEW rebuild, b' = NewBuild(rebuild), r' = NewRun, now' = now
         PROVE  BuildClock' /\ RunClock'
    BY <1>21, <1>a DEF NewBuild, NewRun, BuildClock, RunClock, InRun
  <1>22. CASE \E rebuild \in BOOLEAN : StartAgain(rebuild)
    <2>1. PICK rebuild \in BOOLEAN : StartAgain(rebuild)
      BY <1>22
    <2>2. DayClock'
      BY <2>1 DEF StartAgain, DayClock, ClockInv
    <2> QED BY <1>21, <1>a, <2>1, <2>2 DEF StartAgain, ClockInv
  <1>23. CASE Recreate
    <2>1. DayClock'
      BY <1>23 DEF Recreate, DayClock
    <2>2. RepairClock'
      BY <1>23 DEF Recreate, RepairClock, ClockInv, Repairing, WindowsTypeOK
    <2> QED BY <1>21, <1>23, <1>a, <2>1, <2>2 DEF Recreate, ClockInv
  <1>24. CASE TimePasses
    <2> USE TimeFacts, <1>24
    <2>1. DayClock'
      <3>1. lastRun \in Nat /\ lastGood \in Nat
        BY <1>0 DEF WindowsTypeOK, Times
      <3>2. FirstDay <= lastRun /\ lastRun <= RoundBack(now) /\ lastGood <= now
        BY DEF ClockInv, DayClock
      <3>3. UNCHANGED <<lastRun, lastGood>>
        BY DEF TimePasses
      <3> QED BY <3>1, <3>2, <3>3 DEF DayClock
    <2>2. RunClock'
      <3>1. r.s \in Nat /\ r.at \in Nat /\ r.began \in Nat
        BY NumberFacts
      <3>2. UNCHANGED r /\ r.pc \notin {"expire", "contract"} /\ (InRun => now < r.at + Latency)
        BY DEF TimePasses, InRun
      <3> QED BY <3>1, <3>2 DEF RunClock, ClockInv, InRun
    <2>3. RepairClock'
      <3>1. UNCHANGED repair /\ (Repairing => now < repair.at + Latency)
        BY DEF TimePasses
      <3> QED BY <3>1, NumberFacts DEF RepairClock, ClockInv, Repairing
    <2>4. FinalEnded'
      BY <1>0 DEF TimePasses, FinalEnded, ClockInv
    <2>5. BuildClock'
      <3>1. b.e \in Nat /\ b.limit \in Nat /\ UNCHANGED b
        BY <1>0 DEF WindowsTypeOK, BuildState, TimePasses
      <3> QED BY <3>1 DEF BuildClock, ClockInv, Building
    <2> QED BY <2>1, <2>2, <2>3, <2>4, <2>5 DEF ClockInv
  <1>25. CASE UNCHANGED windowsVars
    BY <1>25, <1>a DEF windowsVars, ClockInv
  <1> QED
    BY <1>1, <1>2, <1>3, <1>4, <1>5, <1>6, <1>7, <1>9, <1>10, <1>11, <1>12, <1>13, <1>14, <1>16,
       <1>17, <1>18, <1>19, <1>20, <1>22, <1>23, <1>24, <1>25 DEF WindowsNext, BuildStep, RunStep

(* Every step keeps the coverage of what the build is past: it expands the *)
(* coverage with what it stores, leaves it to the build in progress, or    *)
(* marks it as foreign.                                                    *)
LEMMA WindowsCoverage ==
  ASSUME WindowsTypeOK, ClockInv, CoverageInv, [WindowsNext]_windowsVars
  PROVE  CoverageInv'
  <1> USE WindowsConstants, ClockBounds, NumberFacts
  <1> DEFINE Firm(d) == Covered(d) \/ (Building /\ d < b.e)
             Live == b.pc # "stopped" /\ b.good
             Left == Repairing /\ repair.heir # Own
  <1>a. ASSUME \/ ~Live'
               \/ \A d \in Days : d >= Limit' =>
                    /\ repo'[d] = "final" => Firm(d)' \/ d \in foreign'
                    /\ (Left' /\ d < repair'.heir) => Firm(d)'
        PROVE  CoverageInv'
    BY <1>a DEF CoverageInv
  <1>b. ASSUME Live
        PROVE  \A d \in Days : d >= Limit =>
                    /\ repo[d] = "final" => Firm(d) \/ d \in foreign
                    /\ (Left /\ d < repair.heir) => Firm(d)
    BY <1>b DEF CoverageInv
  (* Steps that store or find the days of a window and expand the coverage *)
  <1>c. ASSUME now' = now, NEW s \in Days, NEW e \in Days, ExpandCoverage(s, e),
               Live' => Live,
               \A d \in Days : (d >= Limit /\ Building /\ d < b.e) => (Building' /\ d < b'.e) \/ (s <= d /\ d < e),
               \A d \in Days : repo'[d] = "final" => repo[d] = "final" \/ (s <= d /\ d < e),
               Left' => Left /\ repair'.heir = repair.heir
        PROVE  CoverageInv'
    <2>1. Limit' = Limit
      BY <1>c DEF Limit
    <2>2. \A d \in Days : Covered(d) \/ (s <= d /\ d < e) => Covered(d)'
      BY <1>c, ExpandFacts
    <2>3. \A d \in Days : d \in foreign => d \in foreign' \/ Covered(d)'
      BY <1>c, ExpandFacts
    <2>4. \A d \in Days : d >= Limit /\ Firm(d) => Firm(d)'
      BY <1>c, <2>2
    <2> QED
      <3> SUFFICES ASSUME Live', NEW d \in Days, d >= Limit'
                   PROVE  /\ repo'[d] = "final" => Firm(d)' \/ d \in foreign'
                          /\ (Left' /\ d < repair'.heir) => Firm(d)'
        BY <1>a
      <3>1. /\ repo[d] = "final" => Firm(d) \/ d \in foreign
            /\ (Left /\ d < repair.heir) => Firm(d)
        BY <1>b, <1>c, <2>1
      <3>2. Firm(d) => Firm(d)'
        BY <2>1, <2>4
      <3>3. s <= d /\ d < e => Firm(d)'
        BY <2>2
      <3> HIDE DEF Firm, Left, Live
      <3> QED BY <1>c, <2>3, <3>1, <3>2, <3>3, Firm(d)' \/ ~Firm(d)', Covered(d)' => Firm(d)' DEF Firm
  (* Steps that leave the coverage, and the days that have to be in it *)
  <1>d. ASSUME UNCHANGED <<coverage, foreign>>, Limit <= Limit', Limit' \in Nat, Live' => Live,
               \A d \in Days : (d >= Limit' /\ Building /\ d < b.e) => Building' /\ d < b'.e,
               \A d \in Days : repo'[d] = "final" => repo[d] = "final",
               Left' => Left /\ repair'.heir = repair.heir
        PROVE  CoverageInv'
    <2> SUFFICES ASSUME Live', NEW d \in Days, d >= Limit'
                 PROVE  /\ repo'[d] = "final" => Firm(d)' \/ d \in foreign'
                        /\ (Left' /\ d < repair'.heir) => Firm(d)'
      BY <1>a
    <2>1. d >= Limit
      BY <1>d
    <2>2. /\ repo[d] = "final" => Firm(d) \/ d \in foreign
          /\ (Left /\ d < repair.heir) => Firm(d)
      BY <1>b, <1>d, <2>1
    <2>3. Covered(d)' <=> Covered(d)
      BY <1>d DEF Covered
    <2>4. Firm(d) => Firm(d)'
      BY <1>d, <2>3
    <2> HIDE DEF Firm, Left, Live
    <2> QED BY <1>d, <2>2, <2>4
  <1>e. ASSUME now' = now PROVE Limit <= Limit' /\ Limit' \in Nat
    BY <1>e DEF Limit
  <1>1. CASE BuildSkip
    <2>1. Building /\ b' = Shifted
      BY <1>1 DEF BuildSkip, Building
    <2> QED BY <1>1, <1>c, <2>1, ShiftedFacts DEF BuildSkip, Building, Repairing, WindowsTypeOK, BuildState
  <1>2. CASE BuildQuery
    <2>1. /\ b' = [b EXCEPT !.pc = "fetch"] /\ b.pc = "loop" /\ now' = now
          /\ UNCHANGED <<repo, repair>> /\ b.s \in Days
      BY <1>2 DEF BuildQuery, WindowsTypeOK, BuildState
    <2>2. b'.pc = "fetch" /\ b'.e = b.e /\ b'.good = b.good /\ Building'
      BY <2>1 DEF WindowsTypeOK, BuildState, Building
    <2>3. CASE b.rebuild
      BY <1>2, <1>d, <1>e, <2>1, <2>2, <2>3 DEF BuildQuery, Repairing
    <2>4. CASE ~b.rebuild
      <3>1. PICK d \in Missing(b.s, b.e) : ExpandCoverage(b.s, d)
        BY <1>2, <2>4 DEF BuildQuery
      <3>2. d \in Days
        <4>1. b.e \in Days
          BY DEF WindowsTypeOK, BuildState
        <4> QED BY <2>1, <4>1 DEF Missing, Days
      <3> QED BY <1>c, <2>1, <2>2, <3>1, <3>2 DEF Repairing
    <2> QED BY <2>3, <2>4
  <1>3. CASE BuildStore
    <2>1. Building /\ b' = Shifted /\ b.s \in Days /\ b.e \in Days
      BY <1>3 DEF BuildStore, Building, WindowsTypeOK, BuildState
    <2>2. \A d \in Days : repo'[d] = "final" => repo[d] = "final" \/ (b.s <= d /\ d < b.e)
      BY <1>3, StoreFacts DEF BuildStore
    <2>3. ExpandCoverage(b.s, b.e) /\ UNCHANGED <<now, repair>>
      BY <1>3 DEF BuildStore
    <2>4. /\ Live' => Live
          /\ \A d \in Days : (d >= Limit /\ Building /\ d < b.e) => (Building' /\ d < b'.e) \/ (b.s <= d /\ d < b.e)
      BY <2>1, ShiftedFacts DEF Building
    <2>5. Left' => Left /\ repair'.heir = repair.heir
      BY <2>3 DEF Repairing
    <2> QED BY <1>c, <2>1, <2>2, <2>3, <2>4, <2>5
  <1>4. CASE BuildFails
    <2>1. ~b'.good
      BY <1>4, ShiftedFacts DEF BuildFails, Building, BuildState
    <2> QED BY <1>a, <2>1
  <1>5. CASE BuildCompletes
    <2>1. /\ b.pc = "loop" /\ b.limit >= b.e /\ now' = now /\ UNCHANGED <<repo, coverage, foreign, repair>>
          /\ b'.good = b.good
      BY <1>5 DEF BuildCompletes, NoBuild, WindowsTypeOK, BuildState
    <2>2. b.limit <= Limit
      BY <2>1 DEF ClockInv, BuildClock, Building
    <2> QED BY <1>d, <1>e, <2>1, <2>2 DEF Repairing
  <1>6. CASE UNCHANGED <<now, repo, coverage, foreign, b, repair>>
    BY <1>6, <1>d, <1>e DEF Building, Repairing
  <1>7. CASE RunStep /\ ~RunStore /\ ~RunExpire /\ ~RunContract
    BY <1>6, <1>7 DEF RunStep, RunBegins, RunQuery, RunFails, RunReachesNow
  <1>8. CASE RunStore
    <2>1. /\ Store(r.s, r.e, r.at) /\ ExpandCoverage(r.s, r.e) /\ UNCHANGED <<now, b, repair>>
          /\ r.s \in Days /\ r.e \in Days
      BY <1>8 DEF RunStore, WindowsTypeOK, RunState
    <2>2. \A d \in Days : repo'[d] = "final" => repo[d] = "final" \/ (r.s <= d /\ d < r.e)
      BY <2>1, StoreFacts
    <2> QED BY <1>c, <2>1, <2>2 DEF Building, Repairing
  <1>9. CASE RunExpire
    <2>1. UNCHANGED <<now, coverage, foreign, b, repair>>
      BY <1>9 DEF RunExpire
    <2>2. \A d \in Days : repo'[d] = "final" => repo[d] = "final"
      BY <1>9 DEF RunExpire
    <2> QED BY <1>d, <1>e, <2>1, <2>2 DEF Building, Repairing
  <1>10. CASE RunContract
    <2>1. /\ UNCHANGED <<now, repo, foreign, b, repair>>
          /\ coverage' = [coverage EXCEPT !.start = IF r.s > @ THEN r.s ELSE @]
          /\ r.s <= Limit
      BY <1>10 DEF RunContract, ClockInv, RunClock
    <2>2. Limit' = Limit /\ (Live' <=> Live) /\ (Left' <=> Left)
      BY <2>1 DEF Limit, Repairing
    <2>3. \A d \in Days : d >= Limit /\ Covered(d) => Covered(d)'
      BY <2>1 DEF Covered, WindowsTypeOK, Window
    <2>4. \A d \in Days : d >= Limit /\ Firm(d) => Firm(d)'
      BY <2>1, <2>3 DEF Building
    <2> HIDE DEF Firm, Left, Live
    <2> QED BY <1>a, <1>b, <2>1, <2>2, <2>4
  <1>11. CASE \E s \in Limit .. RoundBack(now) : RepairQuery(s)
    <2>1. UNCHANGED <<now, repo, coverage, foreign, b>> /\ repair'.heir = Own
      BY <1>11 DEF RepairQuery
    <2> QED BY <1>d, <1>e, <2>1 DEF Building
  <1>12. ASSUME Repairing, RepairNext PROVE Left' => Left /\ repair'.heir = repair.heir
    <2>1. CASE repair' = NoRepair
      BY <2>1 DEF NoRepair
    <2>2. CASE \E n \in 1 .. QueryWindow :
                    repair' = [repair EXCEPT !.s = repair.e, !.e = repair.e + n, !.at = now]
      BY <1>12, <2>2 DEF WindowsTypeOK
    <2> QED BY <1>12, <2>1, <2>2 DEF RepairNext
  <1>13. CASE RepairStore
    <2>1. Store(repair.s, repair.e, repair.at) /\ UNCHANGED <<now, b>> /\ Repairing /\ RepairNext
      BY <1>13 DEF RepairStore
    <2>2. \A d \in Days : repo'[d] = "final" => repo[d] = "final" \/ (repair.s <= d /\ d < repair.e)
      BY <2>1, StoreFacts
    <2>3. CASE repair.heir = Own
      <3>1. ExpandCoverage(repair.s, repair.e)
        BY <1>13, <2>3 DEF RepairStore
      <3> QED BY <1>12, <1>c, <2>1, <2>2, <3>1 DEF Building
    <2>4. CASE repair.heir # Own
      <3>1. /\ foreign' = foreign \cup {d \in repair.s .. repair.e - 1 : d >= repair.heir}
            /\ UNCHANGED coverage /\ repair.heir \in Nat
        BY <1>13, <2>4 DEF RepairStore, WindowsTypeOK
      <3> SUFFICES ASSUME Live', NEW d \in Days, d >= Limit'
                   PROVE  /\ repo'[d] = "final" => Firm(d)' \/ d \in foreign'
                          /\ (Left' /\ d < repair'.heir) => Firm(d)'
        BY <1>a
      <3>2. Left /\ d >= Limit /\ (Firm(d)' <=> Firm(d)) /\ Live
        BY <2>1, <2>4, <3>1 DEF Limit, Covered, Building
      <3>3. /\ repo[d] = "final" => Firm(d) \/ d \in foreign
            /\ d < repair.heir => Firm(d)
        BY <1>b, <3>2
      <3>4. repair.s <= d /\ d < repair.e => d < repair.heir \/ d \in foreign'
        BY <3>1
      <3>5. Left' => repair'.heir = repair.heir
        BY <1>12, <2>1
      <3> HIDE DEF Firm, Left, Live
      <3> QED BY <2>2, <3>1, <3>2, <3>3, <3>4, <3>5
    <2> QED BY <2>3, <2>4
  <1>14. CASE RepairFails
    BY <1>12, <1>14, <1>d, <1>e DEF RepairFails, Building
  <1>15. CASE Stop \/ RunLeaves
    BY <1>6, <1>15 DEF Stop, RunLeaves
  <1>16. CASE BuildLeaves
    BY <1>16, <1>a DEF BuildLeaves, NoBuild, WindowsTypeOK, BuildState
  (* A new build has all days that have ended still to do. *)
  <1>17. ASSUME UNCHANGED <<now, repo>>, NEW rebuild, b' = NewBuild(rebuild),
                Left' => repair'.heir <= RoundBack(now) /\ repair'.heir \in Nat
         PROVE  CoverageInv'
    <2> SUFFICES ASSUME NEW d \in Days
                 PROVE  /\ repo'[d] = "final" => Building' /\ d < b'.e
                        /\ (Left' /\ d < repair'.heir) => Building' /\ d < b'.e
      BY <1>a
    <2>1. Building' /\ b'.e = RoundBack(now)
      BY <1>17 DEF NewBuild, Building
    <2>2. repo[d] = "final" => d < RoundBack(now)
      <3>1. d + 1 \in Nat /\ (d + 1 <= RoundBack(now) <=> Midnight(d + 1) <= now)
        BY RoundBackFacts
      <3> QED BY <3>1 DEF ClockInv, FinalEnded, Ended
    <2> QED BY <1>17, <2>1, <2>2
  <1>19. CASE \E rebuild \in BOOLEAN : StartAgain(rebuild)
    BY <1>17, <1>19 DEF StartAgain, ClockInv, RepairClock, Repairing
  <1>20. CASE Recreate
    <2>1. Left' => repair'.heir <= RoundBack(now) /\ repair'.heir \in Nat
      BY <1>20 DEF Recreate, Repairing, WindowsTypeOK
    <2>2. UNCHANGED <<now, repo>> /\ b' = NewBuild(FALSE)
      BY <1>20 DEF Recreate
    <2> QED BY <1>17, <2>1, <2>2
  <1>21. CASE TimePasses
    BY <1>21, <1>d, TimeFacts DEF TimePasses, Building, Repairing
  <1>22. CASE UNCHANGED windowsVars
    BY <1>6, <1>22 DEF windowsVars
  <1> QED
    BY <1>1, <1>2, <1>3, <1>4, <1>5, <1>7, <1>8, <1>9, <1>10, <1>11, <1>13, <1>14, <1>15, <1>16,
       <1>19, <1>20, <1>21, <1>22 DEF WindowsNext, BuildStep

(* The pace of queries, in ticks                                           *)
LEMMA PaceFacts ==
  /\ Latency < D
  /\ 4 * Latency + MaxOutage <= Midnight(RunWindow) + 1
  /\ 4 * Latency + MaxOutage <= Midnight(QueryWindow) + 1
  /\ Midnight(RunWindow) \in Nat /\ Midnight(QueryWindow) \in Nat
  BY WindowsConstants, MidnightFacts, PaceAssumption

(* The next window of a run follows on the last one and is cut short only  *)
(* at the midnight after the current time.                                 *)
LEMMA RunNextFacts ==
  ASSUME WindowsTypeOK, ClockInv, r.pc = "fetch", NEW good, RunNext(good)
  PROVE  /\ r'.pc = "window" /\ r'.s = r.s + QueryWindow /\ r'.at = now
         /\ r'.began = r.began /\ r'.good = good
         /\ \/ Midnight(r'.e) >= now
            \/ /\ r'.e = r.e + QueryWindow
               /\ Midnight(r'.e) = Midnight(r.e) + Midnight(QueryWindow)
         /\ Midnight(r.e) \in Nat /\ Midnight(QueryWindow) \in Nat
  <1> USE WindowsConstants, ClockBounds, NumberFacts
  <1>1. /\ r'.pc = "window" /\ r'.s = r.s + QueryWindow /\ r'.at = now
        /\ r'.began = r.began /\ r'.good = good /\ r'.e = NextEnd
    BY DEF RunNext, WindowsTypeOK, RunState
  <1>4. /\ Midnight(r.e) \in Nat /\ Midnight(QueryWindow) \in Nat
        /\ Midnight(r.e + QueryWindow) = Midnight(r.e) + Midnight(QueryWindow)
    BY MidnightFacts
  <1>2. CASE Midnight(r.e + QueryWindow) > now
    <2>1. NextEnd = RoundForward(now)
      BY <1>2 DEF NextEnd
    <2>2. now <= Midnight(RoundForward(now)) /\ RoundForward(now) \in Nat
      BY RoundForwardFacts
    <2>3. Midnight(RoundForward(now)) \in Nat
      BY <2>2, MidnightFacts
    <2> QED BY <1>1, <1>4, <2>1, <2>2, <2>3
  <1>3. CASE ~(Midnight(r.e + QueryWindow) > now)
    <2>1. NextEnd = r.e + QueryWindow
      BY <1>3 DEF NextEnd
    <2> QED BY <1>1, <1>4, <2>1
  <1> QED BY <1>2, <1>3

(* Every step keeps the windows of a run without a gap.                    *)
LEMMA WindowsRun ==
  ASSUME WindowsTypeOK, ClockInv, RunInv, [WindowsNext]_windowsVars
  PROVE  RunInv'
  <1> USE WindowsConstants, ClockBounds, NumberFacts
  <1>a. ASSUME UNCHANGED <<r, lastRun>>, \A d \in Days : repo[d] # "none" => repo'[d] # "none"
        PROVE  RunInv'
    BY <1>a DEF RunInv, InRun
  <1>b. ASSUME NEW s, NEW e, NEW t, Store(s, e, t)
        PROVE  \A d \in Days : repo'[d] # "none" <=> (s <= d /\ d < e) \/ repo[d] # "none"
    BY <1>b, StoreFacts DEF DataAt
  <1>c. ASSUME ~InRun' PROVE RunInv'
    BY <1>c DEF RunInv
  <1>1. CASE BuildStep
    <2>1. UNCHANGED <<r, lastRun>> /\ (UNCHANGED repo \/ Store(b.s, b.e, now))
      BY <1>1 DEF BuildStep, BuildSkip, BuildQuery, BuildStore, BuildFails, BuildCompletes
    <2> QED BY <1>a, <1>b, <2>1
  <1>2. CASE RunBegins
    <2>1. /\ r'.s = RunStart /\ r'.e = RunStart + QueryWindow /\ UNCHANGED lastRun
      BY <1>2 DEF RunBegins
    <2> QED BY <2>1, RunStartFacts DEF RunInv
  <1>3. CASE RunQuery
    <2>1. /\ r.pc = "window" /\ UNCHANGED <<repo, lastRun>>
          /\ r'.s = r.s /\ r'.e = r.e /\ r'.began = r.began /\ r'.good = r.good
      BY <1>3 DEF RunQuery, WindowsTypeOK, RunState
    <2> QED BY <2>1 DEF RunInv, InRun
  <1>4. ASSUME r.pc = "fetch", NEW good, RunNext(good), now' = now, UNCHANGED lastRun,
               good => /\ r.good
                       /\ \A d \in Days : repo[d] # "none" \/ (r.s <= d /\ d < r.e) => repo'[d] # "none"
        PROVE  RunInv'
    <2>1. r'.pc = "window" /\ r'.s = r.s + QueryWindow /\ r'.began = r.began /\ r'.good = good
      BY <1>4, RunNextFacts
    <2>2. r.began <= now
      BY <1>4 DEF ClockInv, RunClock, InRun
    <2>3. r.e >= r.s + QueryWindow \/ Midnight(r.e) >= r.began
      BY <1>4 DEF RunInv, InRun
    <2>4. r'.e >= r'.s + QueryWindow \/ Midnight(r'.e) >= r'.began
      <3>1. CASE Midnight(r'.e) >= now
        <4>1. r'.e \in Days /\ Midnight(r'.e) \in Nat
          BY WindowsTyped, MidnightFacts DEF WindowsTypeOK, RunState
        <4> QED BY <2>1, <2>2, <3>1, <4>1
      <3>2. CASE r'.e = r.e + QueryWindow /\ Midnight(r'.e) = Midnight(r.e) + Midnight(QueryWindow)
        BY <1>4, <2>1, <2>3, <3>2, RunNextFacts
      <3> QED BY <1>4, <3>1, <3>2, RunNextFacts
    <2>5. ASSUME good, NEW d \in Days, lastRun - RunWindow <= d, d < r.s + QueryWindow, Midnight(d) < r.began
          PROVE  repo'[d] # "none"
      <3>1. CASE d < r.s
        BY <1>4, <2>5, <3>1 DEF RunInv, InRun
      <3>2. CASE r.s <= d
        <4>2. Midnight(r.e) \in Nat /\ Midnight(d) \in Nat /\ (r.e <= d => Midnight(r.e) <= Midnight(d))
          BY MidnightFacts
        <4>3. d < r.e
          BY <2>3, <2>5, <4>2
        <4> QED BY <1>4, <2>5, <3>2, <4>3
      <3> QED BY <3>1, <3>2
    <2> QED BY <1>4, <2>1, <2>4, <2>5 DEF RunInv
  <1>5. CASE RunStore
    <2>1. r.pc = "fetch" /\ Store(r.s, r.e, r.at) /\ RunNext(r.good) /\ now' = now /\ UNCHANGED lastRun
      BY <1>5 DEF RunStore
    <2> QED BY <1>4, <1>b, <2>1
  <1>6. CASE RunFails
    BY <1>4, <1>6 DEF RunFails
  <1>7. CASE RunReachesNow \/ RunExpire \/ RunContract \/ RunLeaves
    <2>1. r'.pc \in {"expire", "contract", "select", "stopped"}
      BY <1>7 DEF RunReachesNow, RunExpire, RunContract, RunLeaves, WindowsTypeOK, RunState
    <2> QED BY <1>c, <2>1 DEF InRun
  <1>8. CASE \E s \in Limit .. RoundBack(now) : RepairQuery(s)
    BY <1>8, <1>a DEF RepairQuery
  <1>9. CASE RepairStore
    BY <1>9, <1>a, <1>b DEF RepairStore
  <1>10. CASE RepairFails \/ Stop \/ BuildLeaves \/ TimePasses
    BY <1>10, <1>a DEF RepairFails, Stop, BuildLeaves, TimePasses
  <1>11. CASE Recreate \/ \E rebuild \in BOOLEAN : StartAgain(rebuild)
    <2>1. r' = NewRun
      BY <1>11 DEF Recreate, StartAgain
    <2>2. r'.pc = "select"
      BY <2>1 DEF NewRun
    <2> QED BY <1>c, <2>2 DEF InRun
  <1>12. CASE UNCHANGED windowsVars
    BY <1>12, <1>a DEF windowsVars
  <1> QED
    BY <1>1, <1>2, <1>3, <1>5, <1>6, <1>7, <1>8, <1>9, <1>10, <1>11, <1>12 DEF WindowsNext, RunStep

(* Every step keeps a window that was cut short up to date.                *)
LEMMA WindowsCut ==
  ASSUME WindowsTypeOK, ClockInv, CutInv, [WindowsNext]_windowsVars
  PROVE  CutInv'
  <1> USE WindowsConstants, ClockBounds, NumberFacts
  <1>a. ASSUME UNCHANGED r PROVE CutInv'
    BY <1>a DEF CutInv, InRun
  <1>b. ASSUME ~InRun' PROVE CutInv'
    BY <1>b DEF CutInv
  <1>1. CASE RunBegins
    <2>1. r'.e = r'.s + QueryWindow /\ r'.s = RunStart
      BY <1>1 DEF RunBegins
    <2> QED BY <2>1, RunStartFacts DEF CutInv
  <1>2. CASE RunQuery
    <2>1. r.pc = "window" /\ r'.pc = "fetch" /\ r'.at = now /\ r'.s = r.s /\ r'.e = r.e
      BY <1>2 DEF RunQuery, WindowsTypeOK, RunState
    <2>2. now <= r.at + Latency
      BY <2>1 DEF ClockInv, RunClock, InRun
    <2>3. Midnight(r.e) \in Nat
      BY MidnightFacts
    <2>4. r.e >= r.s + QueryWindow \/ Midnight(r.e) + 0 >= r.at
      BY <2>1 DEF CutInv, InRun
    <2> QED BY <2>1, <2>2, <2>3, <2>4 DEF CutInv
  <1>3. ASSUME r.pc = "fetch", NEW good, RunNext(good) PROVE CutInv'
    <2>1. r'.pc = "window" /\ r'.s = r.s + QueryWindow /\ r'.at = now
      BY <1>3, RunNextFacts
    <2>2. now <= r.at + Latency
      BY <1>3 DEF ClockInv, RunClock, InRun
    <2>3. r.e >= r.s + QueryWindow \/ Midnight(r.e) + Latency >= r.at
      BY <1>3 DEF CutInv, InRun
    <2>4. r'.e >= r'.s + QueryWindow \/ Midnight(r'.e) >= now
      BY <1>3, <2>1, <2>2, <2>3, RunNextFacts, PaceFacts
    <2>5. Midnight(r'.e) \in Nat
      <3>1. r'.e \in Days
        BY WindowsTyped DEF WindowsTypeOK, RunState
      <3> QED BY <3>1, MidnightFacts
    <2> QED BY <2>1, <2>4, <2>5 DEF CutInv
  <1>4. CASE RunStore \/ RunFails
    BY <1>3, <1>4 DEF RunStore, RunFails
  <1>5. CASE RunReachesNow \/ RunExpire \/ RunContract \/ RunLeaves
    <2>1. r'.pc \in {"expire", "contract", "select", "stopped"}
      BY <1>5 DEF RunReachesNow, RunExpire, RunContract, RunLeaves, WindowsTypeOK, RunState
    <2> QED BY <1>b, <2>1 DEF InRun
  <1>6. CASE Recreate \/ \E rebuild \in BOOLEAN : StartAgain(rebuild)
    <2>1. r' = NewRun
      BY <1>6 DEF Recreate, StartAgain
    <2>2. r'.pc = "select"
      BY <2>1 DEF NewRun
    <2> QED BY <1>b, <2>2 DEF InRun
  <1>7. CASE BuildStep
    BY <1>7, <1>a DEF BuildStep, BuildSkip, BuildQuery, BuildStore, BuildFails, BuildCompletes
  <1>8. CASE RepairStore \/ RepairFails \/ \E s \in Limit .. RoundBack(now) : RepairQuery(s)
    BY <1>8, <1>a DEF RepairStore, RepairFails, RepairQuery
  <1>9. CASE Stop \/ BuildLeaves \/ TimePasses \/ UNCHANGED windowsVars
    BY <1>9, <1>a DEF Stop, BuildLeaves, TimePasses, windowsVars
  <1> QED BY <1>1, <1>2, <1>4, <1>5, <1>6, <1>7, <1>8, <1>9 DEF WindowsNext, RunStep

(* A build that begins has every day that has ended to do. *)
LEMMA NewBuildSettles ==
  ASSUME WindowsTypeOK, ClockInv, NEW rebuild, b' = NewBuild(rebuild), now' = now,
         NEW d \in Days
  PROVE  ~Unsettled(d)'
  <1> USE WindowsConstants, ClockBounds, NumberFacts
  <1>1. Building' /\ b'.e = RoundBack(now)
    BY DEF NewBuild, Building
  <1>2. d + 1 \in Nat /\ (d + 1 <= RoundBack(now) <=> Midnight(d + 1) <= now)
    BY RoundBackFacts
  <1> QED BY <1>1, <1>2 DEF Unsettled, Ended

(* A day becomes unsettled only when it ends, or when a query from before  *)
(* its end is stored, which is soon after it.                              *)
LEMMA UnsettledBefore ==
  ASSUME WindowsTypeOK, ClockInv, [WindowsNext]_windowsVars, NEW d \in Days, Unsettled(d)'
  PROVE  Unsettled(d) \/ now' < Midnight(d + 1) + Latency
  <1> USE WindowsConstants, ClockBounds, NumberFacts
  <1> DEFINE ToBuild == Building /\ d < b.e
             Final == repo[d] = "final"
             Missed == d \in missed
  <1>0. d + 1 \in Nat /\ Midnight(d + 1) \in Nat
    <2>1. d + 1 \in Nat
      OBVIOUS
    <2> QED BY <2>1, MidnightFacts
  <1>a. ~Final' /\ ~Missed' /\ ~ToBuild' /\ ~stopping' /\ d >= Limit' /\ Midnight(d + 1) <= now'
    BY DEF Unsettled, Ended
  <1>b. ASSUME now' = now, ~Final, ~Missed, ~ToBuild, ~stopping PROVE Unsettled(d)
    BY <1>a, <1>b DEF Unsettled, Ended, Limit
  <1>c. ASSUME UNCHANGED <<now, repo, missed, b, stopping>> PROVE Unsettled(d)
    BY <1>a, <1>b, <1>c DEF Building
  (* A window that the build leaves behind is stored or marked as missed. *)
  <1>d. ASSUME Building, ToBuild, b'.pc = "loop", b'.e = Shifted.e, now' = now PROVE b.s <= d /\ d < b.e
    <2>1. Limit' = Limit
      BY <1>d DEF Limit
    <2>2. Shifted.e <= d
      BY <1>a, <1>d, ShiftedFacts DEF Building
    <2> QED BY <1>a, <1>d, <2>1, <2>2, ShiftedFacts
  <1>1. CASE BuildSkip
    <2>1. /\ Building /\ b' = Shifted /\ UNCHANGED <<now, repo, stopping>>
          /\ missed' = missed \cup {x \in b.s .. b.e - 1 : repo[x] # "final"}
      BY <1>1 DEF BuildSkip, Building, callVars
    <2>2. ~ToBuild
      BY <1>a, <1>d, <2>1, ShiftedFacts
    <2> QED BY <1>a, <1>b, <2>1, <2>2
  <1>2. CASE BuildQuery
    <2>1. /\ Building /\ b' = [b EXCEPT !.pc = "fetch"] /\ UNCHANGED <<now, repo, missed, stopping>>
      BY <1>2 DEF BuildQuery, Building, callVars
    <2>2. Building' /\ b'.e = b.e
      BY <2>1 DEF Building, WindowsTypeOK, BuildState
    <2> QED BY <1>a, <1>b, <2>1, <2>2
  <1>3. CASE BuildStore
    <2>1. Building /\ b' = Shifted /\ UNCHANGED <<now, stopping>> /\ Store(b.s, b.e, now)
      BY <1>3 DEF BuildStore, Building, callVars
    <2>2. ~(b.s <= d /\ d < b.e)
      <3>1. DataAt(now, d) = "final"
        BY <1>a, <2>1 DEF DataAt
      <3> QED BY <1>a, <2>1, <3>1, StoreFacts
    <2>3. ~ToBuild
      BY <1>d, <2>1, <2>2, ShiftedFacts
    <2>4. ~Final /\ ~Missed
      BY <1>a, <2>1, <2>2, StoreFacts
    <2> QED BY <1>a, <1>b, <2>1, <2>3, <2>4
  <1>4. CASE BuildFails
    <2>1. /\ Building /\ b' = [Shifted EXCEPT !.good = FALSE] /\ UNCHANGED <<now, repo, stopping>>
          /\ missed' = missed \cup {x \in b.s .. b.e - 1 : repo[x] # "final"}
      BY <1>4 DEF BuildFails, Building, callVars
    <2>2. b'.pc = "loop" /\ b'.e = Shifted.e
      BY <2>1, ShiftedFacts DEF BuildState
    <2>3. ~ToBuild
      BY <1>a, <1>d, <2>1, <2>2
    <2> QED BY <1>a, <1>b, <2>1, <2>3
  <1>5. CASE BuildCompletes
    <2>1. b.pc = "loop" /\ b.limit >= b.e /\ UNCHANGED <<now, repo, missed, stopping>>
      BY <1>5 DEF BuildCompletes, callVars
    <2>2. b.limit <= Limit /\ Limit' = Limit
      BY <2>1 DEF ClockInv, BuildClock, Building, Limit
    <2>3. ~ToBuild
      BY <1>a, <2>1, <2>2
    <2> QED BY <1>a, <1>b, <2>1, <2>3
  <1>6. CASE RunBegins \/ RunQuery \/ RunFails \/ RunReachesNow \/ RunContract
    BY <1>6, <1>c DEF RunBegins, RunQuery, RunFails, RunReachesNow, RunContract, callVars
  <1>7. ASSUME NEW s \in Days, NEW e \in Days, NEW t \in Nat, now <= t + Latency, Store(s, e, t),
               UNCHANGED <<now, b, stopping>>
        PROVE  Unsettled(d) \/ now' < Midnight(d + 1) + Latency
    <2>1. ~Missed
      BY <1>7, <1>a, StoreFacts
    <2>2. CASE ~Final
      BY <1>7, <1>a, <1>b, <2>1, <2>2 DEF Building
    <2>3. CASE Final
      <3>1. DataAt(t, d) # "final"
        BY <1>7, <1>a, <2>3, StoreFacts
      <3>2. t < Midnight(d + 1)
        BY <1>0, <1>7, <3>1 DEF DataAt
      <3> QED BY <1>0, <1>7, <3>2
    <2> QED BY <2>2, <2>3
  <1>8. CASE RunStore
    <2>1. /\ r.pc = "fetch" /\ Store(r.s, r.e, r.at) /\ UNCHANGED <<now, b, stopping>>
          /\ r.s \in Days /\ r.e \in Days
      BY <1>8 DEF RunStore, WindowsTypeOK, RunState, callVars
    <2>2. now <= r.at + Latency
      BY <2>1 DEF ClockInv, RunClock, InRun
    <2> QED BY <1>7, <2>1, <2>2
  <1>9. CASE RunExpire
    <2>1. UNCHANGED <<now, b, stopping>> /\ Limit' = Limit
      BY <1>9 DEF RunExpire, callVars, Limit
    <2>2. ~Final /\ ~Missed
      BY <1>9, <1>a, <2>1 DEF RunExpire
    <2> QED BY <1>a, <1>b, <2>1, <2>2 DEF Building
  <1>10. CASE RepairFails \/ \E s \in Limit .. RoundBack(now) : RepairQuery(s)
    BY <1>10, <1>c DEF RepairFails, RepairQuery, callVars
  <1>11. CASE RepairStore
    <2>1. Repairing /\ Store(repair.s, repair.e, repair.at) /\ UNCHANGED <<now, b, stopping>>
      BY <1>11 DEF RepairStore, callVars
    <2>2. now <= repair.at + Latency
      BY <2>1 DEF ClockInv, RepairClock
    <2> QED BY <1>7, <2>1, <2>2
  <1>12. CASE Stop \/ BuildLeaves
    BY <1>12, <1>a DEF Stop, BuildLeaves, callVars
  <1>13. CASE RunLeaves
    BY <1>13, <1>c DEF RunLeaves, callVars
  <1>14. CASE \E rebuild \in BOOLEAN : StartAgain(rebuild)
    BY <1>14, NewBuildSettles DEF StartAgain
  <1>15. CASE Recreate
    BY <1>15, NewBuildSettles DEF Recreate
  <1>16. CASE TimePasses
    <2>1. UNCHANGED <<repo, missed, b, stopping>> /\ now' = now + 1 /\ d >= Limit
      BY <1>16, <1>a, TimeFacts DEF TimePasses, callVars
    <2>2. CASE Midnight(d + 1) <= now
      BY <1>a, <2>1, <2>2 DEF Unsettled, Ended, Building
    <2>3. CASE ~(Midnight(d + 1) <= now)
      BY <1>0, <2>1, <2>3
    <2> QED BY <2>2, <2>3
  <1>17. CASE UNCHANGED windowsVars
    BY <1>17, <1>c DEF windowsVars, callVars
  <1> QED
    BY <1>1, <1>2, <1>3, <1>4, <1>5, <1>6, <1>8, <1>9, <1>10, <1>11, <1>12, <1>13, <1>14, <1>15,
       <1>16, <1>17 DEF WindowsNext, BuildStep, RunStep

(* Soon after its end every day is young. *)
LEMMA SoonIsYoung ==
  ASSUME WindowsTypeOK', ClockInv', NEW d \in Days,
         now' < Midnight(d + 1) + Latency
  PROVE  Young(d)'
  <1> USE WindowsConstants, PaceFacts
  <1>1. d \in Nat /\ d + 1 \in Nat /\ Midnight(d + 1) \in Nat /\ Midnight(d + 1 + 1) = Midnight(d + 1) + D
    BY MidnightFacts DEF Days
  <1>2. now' \in Nat /\ lastRun' \in Nat /\ lastGood' \in Nat
    BY MidnightFacts DEF WindowsTypeOK, Times, Days
  <1>3. r'.at \in Nat /\ r'.began \in Nat /\ r'.s \in Nat
    <2>1. r'.at \in Nat /\ r'.began \in Times /\ r'.s \in Days
      BY DEF WindowsTypeOK, RunState
    <2> QED BY <2>1, MidnightFacts DEF Times, Days
  <1>4. lastRun' <= RoundBack(now') /\ lastGood' <= now'
    BY DEF ClockInv, DayClock
  <1>5. InRun' => r'.began <= r'.at /\ r'.at <= now'
    BY DEF ClockInv, RunClock
  <1>6. RoundBack(now') \in Nat /\ ~(d + 1 + 1 <= RoundBack(now'))
    <2>1. ~(Midnight(d + 1 + 1) <= now')
      BY <1>1, <1>2
    <2> QED BY <1>1, <1>2, <2>1, RoundBackFacts
  <1>7. lastRun' <= d + RunWindow
    BY <1>1, <1>2, <1>4, <1>6
  <1>8. lastGood' < Midnight(d + 1) + Latency
    BY <1>1, <1>2, <1>4
  <1>9. InRun' => /\ r'.began < Midnight(d + 1) + Latency
                    /\ r'.at + 2 <= Midnight(d + 1) + MaxOutage + Latency
                    /\ r'.at + 2 <= Midnight(d + 1) + MaxOutage + 2 * Latency
    BY <1>1, <1>2, <1>3, <1>5
  <1> QED BY <1>7, <1>8, <1>9 DEF Young

(* Every step keeps the unsettled days young. A run revisits a young day at *)
(* its start; what it passes by then it passed soon after the end of the   *)
(* day, or a query has failed, which it does only soon after a good run.   *)
LEMMA WindowsYoung ==
  ASSUME WindowsTypeOK, ClockInv, CutInv, YoungInv, [WindowsNext]_windowsVars
  PROVE  YoungInv'
  <1> SUFFICES ASSUME NEW d \in Days, Unsettled(d)' PROVE Young(d)'
    BY DEF YoungInv
  <1>0. CASE now' < Midnight(d + 1) + Latency
    BY <1>0, SoonIsYoung, WindowsTyped, WindowsClock
  <1> SUFFICES ASSUME Unsettled(d), ~(now' < Midnight(d + 1) + Latency) PROVE Young(d)'
    BY <1>0, UnsettledBefore
  <1> DEFINE T == Midnight(d + 1)
  <1> USE WindowsConstants, ClockBounds, NumberFacts, PaceFacts
  <1>a. d \in Nat /\ d + 1 \in Nat /\ T \in Nat
    <2>1. d + 1 \in Nat
      OBVIOUS
    <2> QED BY <2>1, MidnightFacts
  <1>b. Young(d)
    BY DEF YoungInv
  <1>c. lastGood < T + Latency /\ lastRun <= d + RunWindow /\ T <= now
    BY <1>b DEF Young, Unsettled, Ended
  <1>d. ASSUME InRun, d < r.s
        PROVE  /\ r.good => r.began < T + Latency
               /\ r.pc = "fetch" => r.at + 2 <= T + MaxOutage + 2 * Latency
               /\ r.pc # "fetch" => \/ r.at + 2 <= T + MaxOutage + Latency
                                    \/ d + 1 + QueryWindow <= r.s /\ r.at + 2 <= T + MaxOutage + 3 * Latency
    BY <1>b, <1>d DEF Young
  <1>e. InRun => r.began <= r.at /\ r.at <= now /\ now <= r.at + Latency
    BY DEF ClockInv, RunClock
  <1> HIDE DEF T
  <1>f. ASSUME UNCHANGED <<lastGood, lastRun>>, (InRun' /\ d < r'.s) => InRun /\ UNCHANGED r
        PROVE  Young(d)'
    BY <1>b, <1>f DEF Young
  <1>g. ASSUME UNCHANGED <<lastGood, lastRun>>, r'.pc = "window",
               d < r'.s => /\ r'.good => r'.began < T + Latency
                           /\ \/ r'.at + 2 <= T + MaxOutage + Latency
                              \/ d + 1 + QueryWindow <= r'.s /\ r'.at + 2 <= T + MaxOutage + 3 * Latency
        PROVE  Young(d)'
    BY <1>c, <1>g DEF Young, T
  <1>1. CASE BuildStep
    <2>1. UNCHANGED <<lastGood, lastRun, r>>
      BY <1>1 DEF BuildStep, BuildSkip, BuildQuery, BuildStore, BuildFails, BuildCompletes
    <2> QED BY <1>f, <2>1 DEF InRun
  <1>2. CASE RunBegins
    <2>1. r'.pc = "window" /\ r'.s = RunStart /\ UNCHANGED <<lastGood, lastRun>>
      BY <1>2 DEF RunBegins
    <2>2. ~(d < r'.s)
      BY <1>a, <1>c, <2>1, RunStartFacts
    <2> QED BY <1>g, <2>1, <2>2
  (* A run that is a window further on than the day has ended before. *)
  <1>3. CASE RunQuery
    <2>1. /\ r.pc = "window" /\ Midnight(r.s) < now /\ UNCHANGED <<lastGood, lastRun>>
          /\ r'.pc = "fetch" /\ r'.s = r.s /\ r'.at = now /\ r'.began = r.began /\ r'.good = r.good
      BY <1>3 DEF RunQuery, WindowsTypeOK, RunState
    <2>2. ASSUME d < r.s PROVE now + 2 <= T + MaxOutage + 2 * Latency
      <3>1. CASE r.at + 2 <= T + MaxOutage + Latency
        BY <1>a, <1>e, <2>1, <3>1 DEF InRun
      <3>2. CASE d + 1 + QueryWindow <= r.s /\ r.at + 2 <= T + MaxOutage + 3 * Latency
        <4>1. Midnight(d + 1 + QueryWindow) = T + Midnight(QueryWindow)
          BY <1>a, MidnightFacts DEF T
        <4>2. d + 1 + QueryWindow \in Nat /\ Midnight(d + 1 + QueryWindow) <= Midnight(r.s) /\ Midnight(r.s) \in Nat
          <5>1. d + 1 + QueryWindow \in Nat
            BY <1>a
          <5> QED BY <3>2, <5>1, MidnightFacts
        <4>3. now + 2 <= T + MaxOutage + 4 * Latency
          BY <1>a, <1>e, <2>1, <3>2 DEF InRun
        <4> QED BY <1>a, <2>1, <4>1, <4>2, <4>3
      <3> QED BY <1>d, <2>1, <2>2, <3>1, <3>2 DEF InRun
    <2> QED BY <1>c, <1>d, <2>1, <2>2 DEF Young, InRun, T
  <1>4. CASE RunStore
    <2>1. r.pc = "fetch" /\ Store(r.s, r.e, r.at) /\ RunNext(r.good) /\ UNCHANGED <<now, lastGood, lastRun>>
      BY <1>4 DEF RunStore
    <2>2. /\ r'.pc = "window" /\ r'.s = r.s + QueryWindow /\ r'.at = now
          /\ r'.began = r.began /\ r'.good = r.good
      BY <2>1, RunNextFacts
    <2>3. r.began <= r.at /\ r.at <= now /\ now <= r.at + Latency
      BY <1>e, <2>1 DEF InRun
    <2>4. CASE d < r.s
      <3>1. d + 1 + QueryWindow <= r'.s
        BY <1>a, <2>2, <2>4
      <3>2. r'.at + 2 <= T + MaxOutage + 3 * Latency
        BY <1>a, <1>d, <2>1, <2>2, <2>3, <2>4 DEF InRun
      <3> QED BY <1>d, <1>g, <2>1, <2>2, <2>4, <3>1, <3>2 DEF InRun
    <2>5. CASE r.s <= d /\ d < r.e
      <3>1. repo'[d] # "final"
        BY DEF Unsettled
      <3>2. DataAt(r.at, d) # "final"
        BY <2>1, <2>5, <3>1, StoreFacts
      <3>3. r.at < T
        BY <1>a, <3>2 DEF DataAt, T
      <3> QED BY <1>a, <2>1, <2>3, <3>3 DEF T
    <2>6. CASE r.e <= d /\ d < r.s + QueryWindow
      <3>1. Midnight(r.e) + Latency >= r.at
        BY <1>a, <2>1, <2>6 DEF CutInv, InRun
      <3>2. T = Midnight(d) + D /\ Midnight(r.e) <= Midnight(d) /\ Midnight(d) \in Nat /\ Midnight(r.e) \in Nat
        BY <1>a, <2>6, MidnightFacts DEF T
      <3>3. r.at < T + Latency /\ now + 2 <= T + MaxOutage + Latency
        BY <1>a, <2>3, <3>1, <3>2
      <3> QED BY <1>a, <1>g, <2>1, <2>2, <2>3, <3>3
    <2>7. CASE ~(d < r'.s)
      BY <1>g, <2>1, <2>2, <2>7
    <2> QED BY <1>a, <2>2, <2>4, <2>5, <2>6, <2>7
  (* A query fails only so long after a good run, which is not long after  *)
  (* the end of the day.                                                   *)
  <1>5. CASE RunFails
    <2>1. r.pc = "fetch" /\ RunNext(FALSE) /\ now < lastGood + MaxOutage /\ UNCHANGED <<lastGood, lastRun>>
      BY <1>5 DEF RunFails, MayFail
    <2>2. r'.pc = "window" /\ r'.at = now /\ ~r'.good
      BY <2>1, RunNextFacts
    <2>3. now + 2 <= T + MaxOutage + Latency
      BY <1>a, <1>c, <2>1
    <2> QED BY <1>g, <2>1, <2>2, <2>3
  <1>6. CASE RunReachesNow
    <2>1. /\ r.pc = "window" /\ now <= Midnight(r.s) /\ now' = now
          /\ lastRun' = RoundBack(now) /\ r'.pc = "expire"
          /\ lastGood' = IF r.good THEN r.began ELSE lastGood
      BY <1>6 DEF RunReachesNow, WindowsTypeOK, RunState
    <2>2. d < r.s
      <3>1. d + 1 <= r.s <=> T <= Midnight(r.s)
        BY <1>a, MidnightFacts DEF T
      <3>2. Midnight(r.s) \in Nat
        BY MidnightFacts
      <3> QED BY <1>a, <1>c, <2>1, <3>1, <3>2
    <2>3. now + 2 <= T + MaxOutage + 4 * Latency
      BY <1>a, <1>d, <1>e, <2>1, <2>2 DEF InRun
    <2>4. lastRun' <= d + RunWindow
      <3>0. d + 1 + RunWindow \in Nat
        BY <1>a
      <3>1. Midnight(d + 1 + RunWindow) = T + Midnight(RunWindow)
        BY <1>a, MidnightFacts DEF T
      <3>2. now < Midnight(d + 1 + RunWindow)
        BY <1>a, <2>3, <3>1
      <3>4. ~(Midnight(d + 1 + RunWindow) <= now)
        BY <1>a, <3>1, <3>2
      <3>3. ~(d + 1 + RunWindow <= RoundBack(now)) /\ RoundBack(now) \in Nat
        BY <3>0, <3>4, RoundBackFacts
      <3> QED BY <1>a, <2>1, <3>3
    <2>5. lastGood' < T + Latency
      BY <1>c, <1>d, <2>1, <2>2 DEF InRun
    <2> QED BY <2>1, <2>4, <2>5 DEF Young, InRun, T
  <1>7. CASE RunExpire \/ RunContract \/ RunLeaves
    <2>1. r'.pc \in {"contract", "select", "stopped"} /\ UNCHANGED <<lastGood, lastRun>>
      BY <1>7 DEF RunExpire, RunContract, RunLeaves, WindowsTypeOK, RunState
    <2> QED BY <1>f, <2>1 DEF InRun
  <1>8. CASE RepairStore \/ RepairFails \/ \E s \in Limit .. RoundBack(now) : RepairQuery(s)
    <2>1. UNCHANGED <<lastGood, lastRun, r>>
      BY <1>8 DEF RepairStore, RepairFails, RepairQuery
    <2> QED BY <1>f, <2>1 DEF InRun
  <1>9. CASE Stop \/ BuildLeaves \/ TimePasses \/ UNCHANGED windowsVars
    <2>1. UNCHANGED <<lastGood, lastRun, r>>
      BY <1>9 DEF Stop, BuildLeaves, TimePasses, windowsVars
    <2> QED BY <1>f, <2>1 DEF InRun
  <1>10. CASE \E rebuild \in BOOLEAN : StartAgain(rebuild)
    BY <1>10, NewBuildSettles DEF StartAgain
  <1>11. CASE Recreate
    BY <1>11, NewBuildSettles DEF Recreate
  <1> QED
    BY <1>1, <1>2, <1>3, <1>4, <1>5, <1>6, <1>7, <1>8, <1>9, <1>10, <1>11 DEF WindowsNext, RunStep

(* The initial states                                                      *)
LEMMA InitialWindows ==
  ASSUME WindowsInit
  PROVE  StoreInv /\ PaceInv
  <1> USE WindowsConstants
  <1>0. FirstDay + 1 \in Nat /\ LastDay + 1 \in Nat /\ FirstDay + 1 <= LastDay + 1
    OBVIOUS
  <1>1. /\ now \in Nat /\ Midnight(FirstDay) <= now /\ now < Midnight(FirstDay + 1)
        /\ Midnight(FirstDay + 1) <= Midnight(LastDay + 1) /\ Midnight(LastDay + 1) \in Nat
        /\ Midnight(FirstDay + 1) \in Nat
    <2>1. /\ Midnight(FirstDay) \in Nat /\ Midnight(FirstDay + 1) \in Nat /\ Midnight(LastDay + 1) \in Nat
          /\ Midnight(FirstDay + 1) <= Midnight(LastDay + 1)
      BY <1>0, MidnightFacts
    <2> QED BY <2>1 DEF WindowsInit
  <1>2. RoundBack(now) = FirstDay
    <2>1. RoundBack(now) \in Nat /\ FirstDay <= RoundBack(now) /\ ~(FirstDay + 1 <= RoundBack(now))
      <3>1. now \in Nat /\ Midnight(FirstDay) <= now /\ ~(Midnight(FirstDay + 1) <= now)
        BY <1>1
      <3> QED BY <1>0, <3>1, RoundBackFacts
    <2> QED BY <2>1
  <1>3. RoundForward(now) \in 0 .. LastDay + 1
    <2>1. now <= Midnight(LastDay + 1)
      BY <1>1
    <2> QED BY <1>0, <1>1, <2>1, RoundForwardFacts
  <1>4. /\ {0, FirstDay, FirstDay - QueryWindow, FirstDay - Duration, RoundForward(now)} \subseteq Days
        /\ {0, now} \subseteq Times
    <2>1. /\ 0 \in Days /\ FirstDay \in Days /\ FirstDay - QueryWindow \in Days
          /\ FirstDay - Duration \in Days /\ RoundForward(now) \in Days
      BY <1>3 DEF Days
    <2>2. Midnight(FirstDay + 1) \in Nat
      BY <1>0, MidnightFacts
    <2>3. 0 \in Times /\ now \in Times
      BY <1>1, <2>2 DEF Times
    <2> QED BY <2>1, <2>3
  <1>5. b \in BuildState
    BY <1>2, <1>4 DEF WindowsInit, NewBuild, BuildState
  <1>6. r \in RunState
    BY <1>1, <1>4 DEF WindowsInit, NewRun, RunState
  <1>7. WindowsTypeOK
    <2>1. repo \in [Days -> Data] /\ coverage \in Window
      BY <1>4 DEF WindowsInit, Data, Window, NewCoverage
    <2>2. repair \in [s : Days, e : Days, at : Times \cup {NoTime}, heir : Days]
      BY <1>4 DEF WindowsInit, NoRepair, Own
    <2>3. /\ now \in Times /\ lastRun \in Days /\ lastGood \in Times
          /\ runs \in 0 .. MonthToDateRunInterval - 1
          /\ stopCalls \in 0 .. MaxStops /\ repairCalls \in 0 .. MaxRepairs
      BY <1>2, <1>4 DEF WindowsInit
    <2> QED BY <1>5, <1>6, <2>1, <2>2, <2>3 DEF WindowsInit, WindowsTypeOK
  <1>8. ClockInv
    <2>1. DayClock
      BY <1>1, <1>2 DEF WindowsInit, DayClock
    <2>2. RunClock /\ RepairClock
      BY DEF WindowsInit, RunClock, RepairClock, NewRun, InRun, NoRepair, Repairing
    <2>3. FinalEnded
      BY DEF WindowsInit, FinalEnded
    <2>4. BuildClock
      BY <1>2 DEF WindowsInit, BuildClock, NewBuild, Limit
    <2> QED BY <2>1, <2>2, <2>3, <2>4 DEF ClockInv
  <1>9. CoverageInv
    BY DEF WindowsInit, CoverageInv, NoRepair, Repairing
  <1>10. RunInv
    BY DEF WindowsInit, RunInv, NewRun, InRun
  <1>12. CutInv
    BY DEF WindowsInit, CutInv, NewRun, InRun
  <1>11. YoungInv
    <2> SUFFICES ASSUME NEW d \in Days, Unsettled(d) PROVE FALSE
      BY DEF YoungInv
    <2>1. d \in Nat /\ d + 1 \in Nat
      BY DEF Days
    <2>2. d + 1 <= FirstDay
      BY <1>1, <1>2, <2>1, RoundBackFacts DEF Unsettled, Ended
    <2>3. b.pc = "loop" /\ b.e = FirstDay
      BY <1>2 DEF WindowsInit, NewBuild
    <2> QED BY <2>1, <2>2, <2>3 DEF Unsettled, Building
  <1> QED BY <1>7, <1>8, <1>9, <1>10, <1>11, <1>12 DEF StoreInv, PaceInv

(* The invariant of the two properties that do not depend on the pace      *)
LEMMA StoreInvariant ==
  WindowsSpec => []StoreInv
  <1>1. StoreInv /\ [WindowsNext]_windowsVars => StoreInv'
    BY WindowsTyped, WindowsClock, WindowsCoverage, WindowsRun DEF StoreInv
  <1> QED BY <1>1, InitialWindows, PTL DEF WindowsSpec

(* When a build completes without a failed window, the coverage has every  *)
(* retained day with final data that is not only in a deleted ingestor's   *)
(* repair (ingestor.go, expandCoverage; ingestionmanager.go, Repair).      *)
THEOREM StoredIsCoveredHolds ==
  WindowsSpec => []StoredIsCovered
  <1>1. StoreInv => StoredIsCovered
    BY DEF StoreInv, CoverageInv, StoredIsCovered, Building
  <1> QED BY <1>1, StoreInvariant, PTL

(* A run none of whose queries failed has stored every day from RunWindow  *)
(* days before the previous run to the day it began in (ingestor.go, run). *)
THEOREM GoodRunStoresAllHolds ==
  WindowsSpec => GoodRunStoresAll
  <1>1. ASSUME StoreInv, [WindowsNext]_windowsVars, r.pc = "window", r'.pc = "expire", r.good,
               NEW d \in Days, lastRun - RunWindow <= d, Midnight(d) < r.began
        PROVE  repo[d] # "none"
    <2> USE WindowsConstants
    <2>0. WindowsTypeOK /\ ClockInv /\ RunInv
      BY <1>1 DEF StoreInv
    <2>1. RunReachesNow
      <3>1. r' # r
        BY <1>1
      <3>2. ASSUME r'.pc = "expire", r.pc = "window", WindowsNext PROVE RunReachesNow
        <4>1. RunQuery => r'.pc = "fetch"
          BY <2>0 DEF RunQuery, WindowsTypeOK, RunState
        <4>2. ~RunContract /\ ~RunLeaves /\ ~RunExpire /\ ~RunBegins /\ ~RunStore /\ ~RunFails
          BY <3>2 DEF RunContract, RunLeaves, RunExpire, RunBegins, RunStore, RunFails
        <4>3. r' = NewRun => r'.pc = "select"
          BY DEF NewRun
        <4> QED BY <3>1, <3>2, <4>1, <4>2, <4>3 DEF WindowsNext, BuildStep, BuildSkip, BuildQuery, BuildStore, BuildFails,
                   BuildCompletes, RunStep, RepairQuery, RepairStore, RepairFails, Stop,
                   BuildLeaves, StartAgain, Recreate, TimePasses
      <3> QED BY <1>1, <3>1, <3>2 DEF windowsVars
    <2>2. now <= Midnight(r.s) /\ r.began <= now
      BY <1>1, <2>0, <2>1, NumberFacts DEF RunReachesNow, ClockInv, RunClock, InRun
    <2>3. d \in Nat /\ r.s \in Nat /\ r.began \in Nat /\ now \in Nat
      BY <2>0, NumberFacts
    <2>4. Midnight(d) \in Nat /\ Midnight(r.s) \in Nat /\ (r.s <= d => Midnight(r.s) <= Midnight(d))
      BY <2>3, MidnightFacts
    <2>5. d < r.s
      BY <1>1, <2>2, <2>3, <2>4
    <2> QED BY <1>1, <2>0, <2>5 DEF RunInv, InRun
  <1>2. StoreInv /\ [WindowsNext]_windowsVars =>
          [(r.pc = "window" /\ r'.pc = "expire" /\ r.good) =>
             \A d \in Days : (lastRun - RunWindow <= d /\ Midnight(d) < r.began) => repo[d] # "none"]_windowsVars
    BY <1>1
  <1> QED BY <1>2, StoreInvariant, PTL DEF WindowsSpec, GoodRunStoresAll

(* No ended day within the retention period is left behind, except by a    *)
(* failed or skipped build window (ingestor.go, run and build).            *)
THEOREM NothingLeftBehindHolds ==
  WindowsSpec => []NothingLeftBehind
  <1>1. ASSUME StoreInv, PaceInv PROVE NothingLeftBehind
    <2> SUFFICES ASSUME NEW d \in Days, Unsettled(d) PROVE d >= lastRun - RunWindow
      BY DEF NothingLeftBehind, Unsettled, Building
    <2>1. lastRun <= d + RunWindow
      BY <1>1 DEF PaceInv, YoungInv, Young
    <2>2. d \in Nat /\ lastRun \in Nat
      BY <1>1, WindowsConstants DEF StoreInv, WindowsTypeOK, Days
    <2> QED BY <2>1, <2>2, WindowsConstants
  <1>2. StoreInv /\ PaceInv /\ [WindowsNext]_windowsVars => PaceInv'
    BY WindowsCut, WindowsYoung DEF StoreInv, PaceInv
  <1> QED BY <1>1, <1>2, InitialWindows, StoreInvariant, PTL DEF WindowsSpec

=============================================================================

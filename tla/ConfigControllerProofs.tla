----------------------- MODULE ConfigControllerProofs -----------------------
(***************************************************************************)
(* Safety of the config controller for any keys, versions, watchers,       *)
(* observers and bounds.                                                   *)
(***************************************************************************)
EXTENDS ConfigController, FiniteSetTheorems, TLAPS

(* An active status has a config. *)
WellFormed(st) == \A s \in Sources, k \in Keys : st[s][k].active => Exists(st, s, k)

(* As long as no save has failed, the file holds what a pull has in memory.*)
InSync == faults = 0 /\ phase # "idle" => mem = file /\ readable

(* A key that is being handled has a config, and the old status of one     *)
(* that is being inserted is gone.                                         *)
Pulling ==
    /\ phase \in {"keys", "insert"} => \A k \in todo : confs[k] # NoConf
    /\ phase = "insert" => cur \in todo /\ ~Exists(mem, src, cur)

BInv == TypeOK /\ WellFormed(file) /\ WellFormed(mem) /\ InSync /\ Pulling
IInv == BInv /\ NoOrphan

-----------------------------------------------------------------------------
(* The operators on statuses, status by status. *)
LEMMA StatusAt ==
  ASSUME NEW st \in Statuses, NEW s \in Sources, NEW k \in Keys
  PROVE  st[s][k] \in Status /\ st[s][k].active \in BOOLEAN /\ st[s][k].ver \in Conf
  BY DEF Statuses, Status

(* The constants and the empty table are well formed. *)
LEMMA ConstantFacts ==
  /\ Ctl \in Sources /\ Watched \subseteq Sources
  /\ Absent \in Status /\ NoConf \in Conf /\ NoConf \notin Versions /\ Versions \subseteq Conf
  /\ EmptyStatuses \in Statuses /\ WellFormed(EmptyStatuses)
  /\ \A s \in Sources, k \in Keys : ~EmptyStatuses[s][k].active /\ EmptyStatuses[s][k].ver = NoConf
  /\ NoConfs \in [Keys -> Conf]
  BY ControllerAssumption
     DEF Sources, Absent, Status, Conf, EmptyStatuses, Statuses, NoConfs, WellFormed, Exists

(* An insert changes one status: the new config is active iff it is valid. *)
LEMMA InsertedAt ==
  ASSUME NEW st \in Statuses, NEW s \in Sources, NEW k \in Keys, NEW v \in Versions
  PROVE  /\ Inserted(st, s, k, v) \in Statuses
         /\ \A t \in Sources, j \in Keys :
               Inserted(st, s, k, v)[t][j] =
                   IF t = s /\ j = k
                   THEN [active |-> IsValid(v), valid |-> IsValid(v), ver |-> v]
                   ELSE st[t][j]
  <1> DEFINE n == [active |-> IsValid(v), valid |-> IsValid(v), ver |-> v]
  <1>1. n \in Status
    <2>1. IsValid(v) \in BOOLEAN
      BY DEF IsValid
    <2> QED BY <2>1, ConstantFacts DEF Status
  <1>2. Inserted(st, s, k, v) = [st EXCEPT ![s] = [st[s] EXCEPT ![k] = n]]
    BY DEF Inserted, Statuses
  <1> HIDE DEF n
  <1>3. [st EXCEPT ![s] = [st[s] EXCEPT ![k] = n]] \in Statuses
    BY <1>1 DEF Statuses
  <1>4. \A t \in Sources, j \in Keys :
           [st EXCEPT ![s] = [st[s] EXCEPT ![k] = n]][t][j] = IF t = s /\ j = k THEN n ELSE st[t][j]
    BY DEF Statuses
  <1> QED BY <1>2, <1>3, <1>4 DEF n

(* A removal clears one status. *)
LEMMA RemovedAt ==
  ASSUME NEW st \in Statuses, NEW s \in Sources, NEW k \in Keys
  PROVE  /\ Removed(st, s, k) \in Statuses
         /\ \A t \in Sources, j \in Keys :
               Removed(st, s, k)[t][j] = IF t = s /\ j = k THEN Absent ELSE st[t][j]
  BY ConstantFacts DEF Removed, Statuses

(* Disabling the other sources of a key changes only their active flags. *)
LEMMA DisabledAt ==
  ASSUME NEW st \in Statuses, NEW s, NEW k \in Keys
  PROVE  /\ Disabled(st, k, s) \in Statuses
         /\ \A t \in Sources, j \in Keys :
               /\ Disabled(st, k, s)[t][j].ver = st[t][j].ver
               /\ Disabled(st, k, s)[t][j].active = (st[t][j].active /\ ~(t # s /\ j = k))
               /\ t = s \/ j # k => Disabled(st, k, s)[t][j] = st[t][j]
  <1> DEFINE D == Disabled(st, k, s)
  <1>1. ASSUME NEW t \in Sources
        PROVE  D[t] = IF t = s THEN st[t] ELSE [st[t] EXCEPT ![k] = [st[t][k] EXCEPT !.active = FALSE]]
    BY DEF Disabled
  <1>2. ASSUME NEW t \in Sources
        PROVE  D[t] \in [Keys -> Status]
    <2>1. st[t] \in [Keys -> Status]
      BY DEF Statuses
    <2>2. [st[t][k] EXCEPT !.active = FALSE] \in Status
      BY <2>1 DEF Status
    <2> QED BY <1>1, <2>1, <2>2
  <1>3. D \in Statuses
    BY <1>2 DEF Disabled, Statuses
  <1>4. ASSUME NEW t \in Sources, NEW j \in Keys
        PROVE  /\ D[t][j].ver = st[t][j].ver
               /\ D[t][j].active = (st[t][j].active /\ ~(t # s /\ j = k))
               /\ t = s \/ j # k => D[t][j] = st[t][j]
    <2>1. st[t] \in [Keys -> Status] /\ st[t][j] \in Status
      BY DEF Statuses
    <2>2. CASE t = s \/ j # k
      BY <1>1, <2>1, <2>2 DEF Status
    <2>3. CASE t # s /\ j = k
      <3>1. D[t][j] = [st[t][k] EXCEPT !.active = FALSE]
        BY <1>1, <2>1, <2>3
      <3> QED BY <2>1, <2>3, <3>1 DEF Status
    <2> QED BY <2>2, <2>3
  <1> QED BY <1>3, <1>4

(* Setting an active flag changes nothing else. *)
LEMMA ActiveSetAt ==
  ASSUME NEW st \in Statuses, NEW s \in Sources, NEW k \in Keys, NEW b \in BOOLEAN
  PROVE  /\ [st EXCEPT ![s][k].active = b] \in Statuses
         /\ \A t \in Sources, j \in Keys :
               /\ [st EXCEPT ![s][k].active = b][t][j].ver = st[t][j].ver
               /\ [st EXCEPT ![s][k].active = b][t][j].active =
                      IF t = s /\ j = k THEN b ELSE st[t][j].active
               /\ ~(t = s /\ j = k) => [st EXCEPT ![s][k].active = b][t][j] = st[t][j]
  <1> DEFINE n == [st[s][k] EXCEPT !.active = b]
             D == [st EXCEPT ![s][k].active = b]
  <1>1. n \in Status /\ n.active = b /\ n.ver = st[s][k].ver
    BY DEF Statuses, Status
  <1>2. D = [st EXCEPT ![s] = [st[s] EXCEPT ![k] = n]]
    BY DEF Statuses
  <1> HIDE DEF n
  <1>3. [st EXCEPT ![s] = [st[s] EXCEPT ![k] = n]] \in Statuses
    BY <1>1 DEF Statuses
  <1>4. \A t \in Sources, j \in Keys :
           [st EXCEPT ![s] = [st[s] EXCEPT ![k] = n]][t][j] = IF t = s /\ j = k THEN n ELSE st[t][j]
    BY DEF Statuses
  <1> QED BY <1>1, <1>2, <1>3, <1>4

(* A save either stores the new statuses or counts as a fault. *)
LEMMA SaveEffect ==
  ASSUME TypeOK, WellFormed(file), NEW st \in Statuses, WellFormed(st), Save(st)
  PROVE  /\ file' \in Statuses /\ WellFormed(file') /\ readable' \in BOOLEAN
         /\ faults' \in 0 .. MaxFaults
         /\ faults' = 0 => faults = 0 /\ file' = st /\ readable' = TRUE
  <1>1. CASE file' = st /\ readable' = TRUE /\ faults' = faults
    BY <1>1 DEF TypeOK
  <1>2. CASE /\ faults < MaxFaults /\ faults' = faults + 1
             /\ readable' \in {FALSE, readable} /\ file' = file
    <2>1. faults' \in 0 .. MaxFaults /\ faults' # 0
      BY <1>2, ControllerAssumption DEF TypeOK
    <2>2. readable' \in BOOLEAN
      BY <1>2 DEF TypeOK
    <2> QED BY <1>2, <2>1, <2>2 DEF TypeOK
  <1> QED BY <1>1, <1>2 DEF Save

(* A broadcast sets the keys it puts, clears the ones it deletes and       *)
(* leaves the others, at every registered observer.                        *)
LEMMA BroadcastEffect ==
  ASSUME TypeOK, NEW gone, NEW ks, NEW v \in Conf, Broadcast(gone, ks, v)
  PROVE  /\ obs' \in [Observers -> [Keys -> Conf]]
         /\ \A o \in registered, k \in Keys :
               obs'[o][k] = IF k \in ks THEN v ELSE IF k \in gone THEN NoConf ELSE obs[o][k]
  <1>0. \A o \in Observers, k \in Keys : obs[o][k] \in Conf
    BY DEF TypeOK
  <1>1. ASSUME NEW o \in Observers, NEW k \in Keys
        PROVE  obs'[o][k] = IF o \notin registered THEN obs[o][k]
                            ELSE IF k \in ks THEN v ELSE IF k \in gone THEN NoConf ELSE obs[o][k]
    BY DEF Broadcast
  <1>2. \A o \in Observers, k \in Keys : obs'[o][k] \in Conf
    BY <1>0, <1>1, ConstantFacts
  <1>3. obs' = [o \in Observers |-> [k \in Keys |-> obs'[o][k]]]
    BY DEF Broadcast
  <1>4. obs' \in [Observers -> [Keys -> Conf]]
    BY <1>2, <1>3
  <1> QED BY <1>1, <1>4 DEF TypeOK

(* The statuses that a step saves are well formed if those it began with   *)
(* are.                                                                    *)
LEMMA OperatorsWellFormed ==
  ASSUME NEW st \in Statuses, WellFormed(st), NEW k \in Keys
  PROVE  /\ \A s \in Sources, v \in Versions : WellFormed(Inserted(st, s, k, v))
         /\ \A s \in Sources : WellFormed(Removed(st, s, k))
         /\ \A s : WellFormed(Disabled(st, k, s))
         /\ \A s \in Sources : WellFormed([st EXCEPT ![s][k].active = FALSE])
         /\ \A s \in Sources : Exists(st, s, k) => WellFormed([st EXCEPT ![s][k].active = TRUE])
  <1>1. \A s \in Sources, v \in Versions : WellFormed(Inserted(st, s, k, v))
    <2>1. ASSUME NEW s \in Sources, NEW v \in Versions, NEW t \in Sources, NEW j \in Keys,
                 Inserted(st, s, k, v)[t][j].active
          PROVE  Inserted(st, s, k, v)[t][j].ver # NoConf
      <3> DEFINE I == Inserted(st, s, k, v)
      <3>0. I[t][j] = IF t = s /\ j = k THEN [active |-> IsValid(v), valid |-> IsValid(v), ver |-> v]
                      ELSE st[t][j]
        BY InsertedAt
      <3> HIDE DEF I
      <3>1. CASE t = s /\ j = k
        BY <3>0, <3>1, ConstantFacts DEF I
      <3>2. CASE ~(t = s /\ j = k)
        BY <2>1, <3>0, <3>2 DEF WellFormed, Exists, I
      <3> QED BY <3>1, <3>2
    <2> QED BY <2>1 DEF WellFormed, Exists
  <1>2. \A s \in Sources : WellFormed(Removed(st, s, k))
    BY RemovedAt DEF WellFormed, Exists, Absent
  <1>3. \A s : WellFormed(Disabled(st, k, s))
    BY DisabledAt DEF WellFormed, Exists
  <1>4. \A s \in Sources : WellFormed([st EXCEPT ![s][k].active = FALSE])
    BY ActiveSetAt DEF WellFormed, Exists
  <1>5. \A s \in Sources : Exists(st, s, k) => WellFormed([st EXCEPT ![s][k].active = TRUE])
    BY ActiveSetAt DEF WellFormed, Exists
  <1> QED BY <1>1, <1>2, <1>3, <1>4, <1>5

(* What an API call saves and broadcasts. *)
ApiCall(st, gone, ks, v) ==
    /\ Serving /\ readable
    /\ Broadcast(gone, ks, v)
    /\ Save(st)
    /\ UNCHANGED <<watch, changes, crashes, up, registered, pullVars>>

(* A call of the API keeps the base invariant. *)
LEMMA ApiBase ==
  ASSUME BInv, NEW st \in Statuses, WellFormed(st), NEW gone, NEW ks, NEW v \in Conf,
         ApiCall(st, gone, ks, v)
  PROVE  BInv'
  <1>1. /\ file' \in Statuses /\ WellFormed(file') /\ readable' \in BOOLEAN /\ faults' \in 0 .. MaxFaults
        /\ obs' \in [Observers -> [Keys -> Conf]]
    BY SaveEffect, BroadcastEffect DEF BInv, ApiCall
  <1>2. phase = "idle" /\ UNCHANGED <<watch, changes, crashes, up, registered, phase, mem, left, src, confs, todo, cur>>
    BY DEF ApiCall, Serving, pullVars
  <1>3. TypeOK'
    BY <1>1, <1>2 DEF BInv, TypeOK
  <1>4. WellFormed(file)' /\ WellFormed(mem)'
    BY <1>1, <1>2 DEF BInv, WellFormed, Exists
  <1>5. InSync' /\ Pulling'
    BY <1>2 DEF InSync, Pulling
  <1> QED BY <1>3, <1>4, <1>5 DEF BInv

(* The base invariant holds initially. *)
LEMMA InitBase == Init => BInv
  <1> SUFFICES ASSUME Init PROVE BInv
    OBVIOUS
  <1>1. TypeOK
    <2>1. /\ watch \in [Watched -> [Keys -> Conf]]
          /\ obs \in [Observers -> [Keys -> Conf]]
      BY ConstantFacts DEF Init
    <2>2. changes \in 0 .. MaxChanges /\ faults \in 0 .. MaxFaults /\ crashes \in 0 .. MaxCrashes
      BY ControllerAssumption DEF Init
    <2>3. readable \in BOOLEAN /\ up \in BOOLEAN
      BY DEF Init
    <2> QED BY <2>1, <2>2, <2>3, ConstantFacts DEF Init, TypeOK, Phases
  <1>2. WellFormed(file) /\ WellFormed(mem) /\ InSync /\ Pulling
    BY ConstantFacts DEF Init, InSync, Pulling
  <1> QED BY <1>1, <1>2 DEF BInv

-----------------------------------------------------------------------------
(* What an insertion displaces, and the statuses without it. *)
Hit(v) == {p \in Sources \X Keys : IsValid(v) /\ Displaces(p[1], p[2])}
Cleared(v) ==
    [t \in Sources |-> [k \in Keys |->
        IF <<t, k>> \in Hit(v) THEN [mem[t][k] EXCEPT !.active = FALSE] ELSE mem[t][k]]]

(* What an insertion displaces loses its active flag and keeps its config. *)
LEMMA ClearedAt ==
  ASSUME TypeOK, WellFormed(mem), NEW v
  PROVE  /\ Cleared(v) \in Statuses /\ WellFormed(Cleared(v))
         /\ \A t \in Sources, j \in Keys :
               /\ <<t, j>> \in Hit(v) <=> IsValid(v) /\ Displaces(t, j)
               /\ Cleared(v)[t][j].ver = mem[t][j].ver
               /\ Cleared(v)[t][j].active = (mem[t][j].active /\ <<t, j>> \notin Hit(v))
               /\ <<t, j>> \notin Hit(v) => Cleared(v)[t][j] = mem[t][j]
  <1>1. ASSUME NEW t \in Sources, NEW j \in Keys
        PROVE  /\ <<t, j>> \in Hit(v) <=> IsValid(v) /\ Displaces(t, j)
               /\ Cleared(v)[t][j] \in Status
               /\ Cleared(v)[t][j].ver = mem[t][j].ver
               /\ Cleared(v)[t][j].active = (mem[t][j].active /\ <<t, j>> \notin Hit(v))
               /\ <<t, j>> \notin Hit(v) => Cleared(v)[t][j] = mem[t][j]
    <2>1. mem[t][j] \in Status
      BY StatusAt DEF TypeOK
    <2>2. <<t, j>> \in Hit(v) <=> IsValid(v) /\ Displaces(t, j)
      BY DEF Hit
    <2>3. Cleared(v)[t][j] = IF <<t, j>> \in Hit(v) THEN [mem[t][j] EXCEPT !.active = FALSE] ELSE mem[t][j]
      BY DEF Cleared
    <2>4. CASE <<t, j>> \in Hit(v)
      BY <2>1, <2>2, <2>3, <2>4 DEF Status
    <2>5. CASE <<t, j>> \notin Hit(v)
      BY <2>1, <2>2, <2>3, <2>5 DEF Status
    <2> QED BY <2>4, <2>5
  <1>2. Cleared(v) = [t \in Sources |-> [j \in Keys |-> Cleared(v)[t][j]]]
    BY DEF Cleared
  <1>3. Cleared(v) \in Statuses
    BY <1>1, <1>2 DEF Statuses
  <1>4. WellFormed(Cleared(v))
    <2>1. ASSUME NEW t \in Sources, NEW j \in Keys, Cleared(v)[t][j].active
          PROVE  Cleared(v)[t][j].ver # NoConf
      <3>1. mem[t][j].active
        BY <1>1, <2>1, StatusAt DEF TypeOK
      <3>2. mem[t][j].ver # NoConf
        BY <3>1 DEF WellFormed, Exists
      <3>3. Cleared(v)[t][j].ver = mem[t][j].ver
        BY <1>1
      <3> QED BY <3>2, <3>3
    <2> QED BY <2>1 DEF WellFormed, Exists
  <1> QED BY <1>1, <1>3, <1>4

(* The insertion of a pull in terms of what it displaces. *)
LEMMA PullInsertIs ==
  ASSUME BInv, PullInsert
  PROVE  /\ phase = "insert" /\ phase' = "keys" /\ todo' = todo \ {cur}
         /\ cur \in Keys /\ src \in Sources /\ confs[cur] \in Versions
         /\ IF IsKnown(confs[cur])
            THEN /\ mem' = Inserted(Cleared(confs[cur]), src, cur, confs[cur])
                 /\ Broadcast({p[2] : p \in Hit(confs[cur])},
                              IF IsValid(confs[cur]) THEN {cur} ELSE {}, confs[cur])
                 /\ Save(mem')
            ELSE UNCHANGED <<storage, obs, mem>>
         /\ UNCHANGED <<watch, changes, crashes, up, registered, left, src, confs, cur>>
  <1>1. phase = "insert"
    BY DEF PullInsert
  <1>2. cur \in Keys /\ src \in Sources /\ confs[cur] \in Versions
    BY <1>1 DEF BInv, TypeOK, Pulling, Conf
  <1> QED BY <1>1, <1>2 DEF PullInsert, Hit, Cleared

(* A step of a pull that saves and broadcasts keeps the file in step with  *)
(* the memory.                                                             *)
LEMMA PullSaves ==
  ASSUME BInv, mem' \in Statuses, WellFormed(mem'), Save(mem'),
         NEW gone, NEW ks, NEW v \in Conf, Broadcast(gone, ks, v),
         UNCHANGED <<watch, changes, crashes, up, registered, left, src, confs>>,
         phase' \in Phases, todo' \subseteq Keys, cur' \in Keys \cup {NoConf}, Pulling'
  PROVE  BInv'
  <1>1. /\ file' \in Statuses /\ WellFormed(file') /\ readable' \in BOOLEAN /\ faults' \in 0 .. MaxFaults
        /\ faults' = 0 => file' = mem' /\ readable' = TRUE
        /\ obs' \in [Observers -> [Keys -> Conf]]
    BY SaveEffect, BroadcastEffect DEF BInv
  <1>2. TypeOK'
    BY <1>1 DEF BInv, TypeOK
  <1>3. WellFormed(file)' /\ WellFormed(mem)'
    BY <1>1 DEF WellFormed, Exists
  <1>4. InSync'
    BY <1>1 DEF InSync
  <1> QED BY <1>2, <1>3, <1>4 DEF BInv

(* The start of a pull, with or without a readable file, keeps the base    *)
(* invariant.                                                              *)
LEMMA BeginPullBase ==
  ASSUME BInv, BeginPull, up' \in BOOLEAN
  PROVE  BInv'
  <1>1. /\ phase' = "source" /\ left' = Watched
        /\ UNCHANGED <<watch, changes, crashes, registered, obs, src, confs, todo, cur>>
    BY DEF BeginPull
  <1>2. /\ mem' \in Statuses /\ WellFormed(mem') /\ file' \in Statuses /\ WellFormed(file')
        /\ readable' \in BOOLEAN /\ faults' \in 0 .. MaxFaults
        /\ faults' = 0 => file' = mem' /\ readable' = TRUE
    <2>1. CASE readable
      BY <2>1 DEF BeginPull, BInv, TypeOK, storage
    <2>2. CASE ~readable
      <3>1. mem' = EmptyStatuses /\ Save(EmptyStatuses)
        BY <2>2 DEF BeginPull
      <3> QED BY <3>1, SaveEffect, ConstantFacts DEF BInv
    <2> QED BY <2>1, <2>2
  <1>3. TypeOK'
    BY <1>1, <1>2 DEF BInv, TypeOK, Phases
  <1>4. WellFormed(file)' /\ WellFormed(mem)'
    BY <1>2 DEF WellFormed, Exists
  <1>5. InSync' /\ Pulling'
    BY <1>1, <1>2 DEF InSync, Pulling
  <1> QED BY <1>3, <1>4, <1>5 DEF BInv

(* A step of a pull keeps the base invariant. *)
LEMMA PullBase ==
  ASSUME BInv, PullStep
  PROVE  BInv'
  <1> USE DEF BInv
  <1>1. ASSUME NEW s \in Watched, PullSource(s) PROVE BInv'
    <2>1. /\ phase' = "delete" /\ left' = left \ {s} /\ src' = s /\ confs' = watch[s] /\ phase # "idle"
          /\ UNCHANGED <<watch, changes, crashes, file, readable, faults, up, registered, obs, mem, todo, cur>>
      BY <1>1 DEF PullSource, storage
    <2>2. TypeOK'
      BY <2>1, ConstantFacts DEF TypeOK, Phases
    <2> QED BY <2>1, <2>2 DEF WellFormed, Exists, InSync, Pulling
  <1>2. ASSUME NEW k \in Keys, PullDelete(k) PROVE BInv'
    <2>1. mem' = Removed(mem, src, k) /\ mem \in Statuses /\ src \in Sources
      BY <1>2 DEF PullDelete, TypeOK
    <2>2. mem' \in Statuses /\ WellFormed(mem')
      BY <2>1, RemovedAt, OperatorsWellFormed
    <2>3. /\ Save(mem') /\ Broadcast(ActiveKey(mem, src, k), {}, NoConf)
          /\ UNCHANGED <<watch, changes, crashes, up, registered, left, src, confs>>
          /\ phase' = "delete" /\ phase' \in Phases /\ todo' \subseteq Keys /\ cur' \in Keys \cup {NoConf}
      BY <1>2 DEF PullDelete, TypeOK, Phases
    <2>4. Pulling'
      BY <2>3 DEF Pulling
    <2> QED BY <2>2, <2>3, <2>4, ConstantFacts, PullSaves
  <1>3. CASE PullDeleted
    <2>1. /\ phase' = "keys" /\ todo' = {k \in Keys : confs[k] # NoConf} /\ phase # "idle"
          /\ UNCHANGED <<watch, changes, crashes, file, readable, faults, up, registered, obs, mem, left, src, confs, cur>>
      BY <1>3 DEF PullDeleted, storage
    <2>2. TypeOK'
      BY <2>1 DEF TypeOK, Phases
    <2> QED BY <2>1, <2>2 DEF WellFormed, Exists, InSync, Pulling
  <1>4. ASSUME NEW k \in Keys, PullUnchanged(k) PROVE BInv'
    <2>1. /\ phase = "keys" /\ todo' = todo \ {k}
          /\ UNCHANGED <<watch, changes, crashes, file, readable, faults, up, registered, obs, phase, mem, left, src, confs, cur>>
      BY <1>4 DEF PullUnchanged, storage
    <2>2. TypeOK'
      BY <2>1 DEF TypeOK
    <2> QED BY <2>1, <2>2 DEF WellFormed, Exists, InSync, Pulling
  <1>5. ASSUME NEW k \in Keys, PullChanged(k) PROVE BInv'
    <2>1. /\ phase = "keys" /\ phase' = "insert" /\ k \in todo /\ cur' = k
          /\ UNCHANGED <<watch, changes, crashes, up, registered, left, src, confs, todo>>
      BY <1>5 DEF PullChanged
    <2>2. CASE Exists(mem, src, k)
      <3>1. /\ mem' = Removed(mem, src, k) /\ mem \in Statuses /\ src \in Sources
            /\ Save(mem') /\ Broadcast(ActiveKey(mem, src, k), {}, NoConf)
        BY <1>5, <2>2 DEF PullChanged, TypeOK
      <3>2. mem' \in Statuses /\ WellFormed(mem') /\ mem'[src][k] = Absent
        BY <3>1, RemovedAt, OperatorsWellFormed
      <3>3. Pulling'
        BY <2>1, <3>2 DEF Pulling, Exists, Absent
      <3>4. phase' \in Phases /\ todo' \subseteq Keys /\ cur' \in Keys \cup {NoConf}
        BY <2>1 DEF TypeOK, Phases
      <3> QED BY <2>1, <3>1, <3>2, <3>3, <3>4, ConstantFacts, PullSaves
    <2>3. CASE ~Exists(mem, src, k)
      <3>1. UNCHANGED <<file, readable, faults, obs, mem>>
        BY <1>5, <2>3 DEF PullChanged, storage
      <3>2. TypeOK'
        BY <2>1, <3>1 DEF TypeOK, Phases
      <3> QED BY <2>1, <2>3, <3>1, <3>2 DEF WellFormed, Exists, InSync, Pulling
    <2> QED BY <2>2, <2>3
  <1>6. CASE PullInsert
    <2> DEFINE v == confs[cur]
    <2>1. /\ phase = "insert" /\ phase' = "keys" /\ todo' = todo \ {cur}
          /\ cur \in Keys /\ src \in Sources /\ v \in Versions
          /\ UNCHANGED <<watch, changes, crashes, up, registered, left, src, confs, cur>>
      BY <1>6, PullInsertIs
    <2>2. Pulling'
      BY <2>1 DEF Pulling
    <2>3. CASE IsKnown(v)
      <3>1. /\ mem' = Inserted(Cleared(v), src, cur, v) /\ Save(mem')
            /\ Broadcast({p[2] : p \in Hit(v)}, IF IsValid(v) THEN {cur} ELSE {}, v)
        BY <1>6, <2>3, PullInsertIs
      <3>2. Cleared(v) \in Statuses /\ WellFormed(Cleared(v))
        BY ClearedAt
      <3> HIDE DEF v
      <3>3. mem' \in Statuses /\ WellFormed(mem')
        BY <2>1, <3>1, <3>2, InsertedAt, OperatorsWellFormed
      <3>4. phase' \in Phases /\ todo' \subseteq Keys /\ cur' \in Keys \cup {NoConf} /\ v \in Conf
        BY <2>1, ConstantFacts DEF TypeOK, Phases
      <3> QED BY <2>1, <2>2, <3>1, <3>3, <3>4, PullSaves
    <2>4. CASE ~IsKnown(v)
      <3>1. UNCHANGED <<file, readable, faults, obs, mem>>
        BY <1>6, <2>4, PullInsertIs DEF storage
      <3>2. TypeOK'
        BY <2>1, <3>1 DEF TypeOK, Phases
      <3> QED BY <2>1, <2>2, <3>1, <3>2 DEF WellFormed, Exists, InSync
    <2> QED BY <2>3, <2>4
  <1>7. CASE PullSourceDone
    <2>1. /\ phase' = "source" /\ phase # "idle"
          /\ UNCHANGED <<watch, changes, crashes, file, readable, faults, up, registered, obs, mem, left, src, confs, todo, cur>>
      BY <1>7 DEF PullSourceDone, storage
    <2>2. TypeOK'
      BY <2>1 DEF TypeOK, Phases
    <2> QED BY <2>1, <2>2 DEF WellFormed, Exists, InSync, Pulling
  <1>8. CASE EndPull
    <2>1. /\ PullReturns
          /\ UNCHANGED <<watch, changes, crashes, file, readable, faults, up, registered, obs>>
      BY <1>8 DEF EndPull, storage
    <2>2. TypeOK'
      BY <2>1, ConstantFacts DEF TypeOK, Phases, PullReturns
    <2>3. WellFormed(file)' /\ WellFormed(mem)'
      BY <2>1, ConstantFacts DEF WellFormed, Exists, PullReturns
    <2> QED BY <2>1, <2>2, <2>3 DEF PullReturns, InSync, Pulling
  <1> QED BY <1>1, <1>2, <1>3, <1>4, <1>5, <1>6, <1>7, <1>8 DEF PullStep

(* So does every step that is neither a call of the API nor inside a pull. *)
LEMMA OtherBase ==
  ASSUME BInv,
         \/ StartProcess \/ Tick \/ Crash
         \/ \E s \in Watched : WatchedFileChanges(s)
         \/ \E o \in Observers : RegisterObserver(o)
         \/ UNCHANGED vars
  PROVE  BInv'
  <1>1. CASE StartProcess \/ Tick
    BY <1>1, BeginPullBase DEF StartProcess, Tick, BInv, TypeOK
  <1>2. CASE Crash
    <2>a. PullReturns /\ up' = FALSE /\ registered' = {} /\ UNCHANGED <<watch, changes, file>>
      BY <1>2 DEF Crash
    <2>b. crashes' \in 0 .. MaxCrashes
      BY <1>2, ControllerAssumption DEF Crash, BInv, TypeOK
    <2>c. faults' \in 0 .. MaxFaults
      BY <1>2, ControllerAssumption DEF Crash, BInv, TypeOK
    <2>d. readable' \in BOOLEAN
      BY <1>2 DEF Crash, BInv, TypeOK
    <2>1. /\ PullReturns /\ up' = FALSE /\ registered' = {} /\ crashes' \in 0 .. MaxCrashes
          /\ faults' \in 0 .. MaxFaults /\ readable' \in BOOLEAN
          /\ UNCHANGED <<watch, changes, file>>
      BY <2>a, <2>b, <2>c, <2>d
    <2>2. obs' \in [Observers -> [Keys -> Conf]]
      BY <1>2, ConstantFacts DEF Crash
    <2>3. TypeOK'
      BY <2>1, <2>2, ConstantFacts DEF BInv, TypeOK, Phases, PullReturns
    <2>4. WellFormed(file)' /\ WellFormed(mem)'
      BY <2>1, ConstantFacts DEF BInv, WellFormed, Exists, PullReturns
    <2> QED BY <2>1, <2>3, <2>4 DEF BInv, PullReturns, InSync, Pulling
  <1>3. ASSUME NEW s \in Watched, WatchedFileChanges(s) PROVE BInv'
    <2>1. /\ changes' \in 0 .. MaxChanges
          /\ UNCHANGED <<file, readable, faults, up, crashes, registered, obs, phase, mem, left, src, confs, todo, cur>>
      BY <1>3, ControllerAssumption DEF WatchedFileChanges, BInv, TypeOK, storage, pullVars
    <2>2. watch' \in [Watched -> [Keys -> Conf]]
      BY <1>3 DEF WatchedFileChanges, BInv, TypeOK
    <2>3. TypeOK'
      BY <2>1, <2>2 DEF BInv, TypeOK
    <2> QED BY <2>1, <2>3 DEF BInv, WellFormed, Exists, InSync, Pulling
  <1>4. ASSUME NEW o \in Observers, RegisterObserver(o) PROVE BInv'
    <2>1. /\ registered' = registered \cup {o}
          /\ UNCHANGED <<watch, changes, crashes, file, readable, faults, up, phase, mem, left, src, confs, todo, cur>>
      BY <1>4 DEF RegisterObserver, storage, pullVars
    <2>2. obs' \in [Observers -> [Keys -> Conf]]
      BY <1>4 DEF RegisterObserver, BInv, TypeOK
    <2>3. TypeOK'
      BY <2>1, <2>2 DEF BInv, TypeOK
    <2> QED BY <2>1, <2>3 DEF BInv, WellFormed, Exists, InSync, Pulling
  <1>5. CASE UNCHANGED vars
    BY <1>5 DEF vars, storage, pullVars, BInv, TypeOK, WellFormed, Exists, InSync, Pulling
  <1> QED BY <1>1, <1>2, <1>3, <1>4, <1>5

(* Every step keeps the base invariant. *)
LEMMA NextBase == BInv /\ [Next]_vars => BInv'
  <1> SUFFICES ASSUME BInv, [Next]_vars PROVE BInv'
    OBVIOUS
  <1>0. file \in Statuses /\ WellFormed(file)
    BY DEF BInv, TypeOK
  <1>1. ASSUME NEW k \in Keys, NEW v \in Versions, CreateConfig(k, v) PROVE BInv'
    <2>1. Inserted(file, Ctl, k, v) \in Statuses /\ WellFormed(Inserted(file, Ctl, k, v))
      BY <1>0, ConstantFacts, InsertedAt, OperatorsWellFormed
    <2>2. /\ Disabled(Inserted(file, Ctl, k, v), k, Ctl) \in Statuses
          /\ WellFormed(Disabled(Inserted(file, Ctl, k, v), k, Ctl))
      BY <2>1, DisabledAt, OperatorsWellFormed
    <2>3. ApiCall(Disabled(Inserted(file, Ctl, k, v), k, Ctl), {}, {k}, v) /\ v \in Conf
      BY <1>1, ConstantFacts DEF CreateConfig, ApiCall
    <2> QED BY <2>2, <2>3, ApiBase
  <1>2. ASSUME NEW k \in Keys, NEW v \in Versions, UpdateConfig(k, v) PROVE BInv'
    <2>1. Inserted(file, Ctl, k, v) \in Statuses /\ WellFormed(Inserted(file, Ctl, k, v))
      BY <1>0, ConstantFacts, InsertedAt, OperatorsWellFormed
    <2>2. ApiCall(Inserted(file, Ctl, k, v), {}, {k}, v) /\ v \in Conf
      BY <1>2, ConstantFacts DEF UpdateConfig, ApiCall
    <2> QED BY <2>1, <2>2, ApiBase
  <1>3. ASSUME NEW k \in Keys, NEW s \in Sources, EnableConfig(k, s) PROVE BInv'
    <2> DEFINE D == Disabled(file, k, s)
    <2>1. D \in Statuses /\ WellFormed(D) /\ Exists(D, s, k)
      BY <1>0, <1>3, DisabledAt, OperatorsWellFormed DEF EnableConfig, Exists
    <2>2. ApiCall([D EXCEPT ![s][k].active = TRUE], {}, {k}, file[s][k].ver)
      BY <1>3 DEF EnableConfig, ApiCall
    <2>3. file[s][k].ver \in Conf
      BY <1>0, StatusAt
    <2> HIDE DEF D
    <2>4. [D EXCEPT ![s][k].active = TRUE] \in Statuses /\ WellFormed([D EXCEPT ![s][k].active = TRUE])
      BY <2>1, ActiveSetAt, OperatorsWellFormed
    <2> QED BY <2>2, <2>3, <2>4, ApiBase
  <1>4. ASSUME NEW k \in Keys, NEW s \in Sources, DisableConfig(k, s) PROVE BInv'
    <2>1. [file EXCEPT ![s][k].active = FALSE] \in Statuses
          /\ WellFormed([file EXCEPT ![s][k].active = FALSE])
      BY <1>0, ActiveSetAt, OperatorsWellFormed
    <2>2. ApiCall([file EXCEPT ![s][k].active = FALSE], {k}, {}, NoConf)
      BY <1>4 DEF DisableConfig, ApiCall
    <2> QED BY <2>1, <2>2, ConstantFacts, ApiBase
  <1>5. ASSUME NEW k \in Keys, DeleteConfig(k) PROVE BInv'
    <2>1. Removed(file, Ctl, k) \in Statuses /\ WellFormed(Removed(file, Ctl, k))
      BY <1>0, ConstantFacts, RemovedAt, OperatorsWellFormed
    <2>2. ApiCall(Removed(file, Ctl, k), ActiveKey(file, Ctl, k), {}, NoConf)
      BY <1>5 DEF DeleteConfig, ApiCall
    <2> QED BY <2>1, <2>2, ConstantFacts, ApiBase
  <1> QED BY <1>1, <1>2, <1>3, <1>4, <1>5, PullBase, OtherBase DEF Next, Api

-----------------------------------------------------------------------------
(* A config is active for a key iff some source has an active status with  *)
(* it, and a key is doubled iff two sources do.                            *)
LEMMA ActiveVersionsIs ==
  ASSUME NEW C, NEW k, NEW v
  PROVE  v \in ActiveVersions(C, k) <=> \E s \in Sources : C[s][k].active /\ C[s][k].ver = v
  BY DEF ActiveVersions

LEMMA TwoActive ==
  ASSUME NEW C, NEW k
  PROVE  Cardinality({s \in Sources : C[s][k].active}) > 1
            <=> \E s, t \in Sources : s # t /\ C[s][k].active /\ C[t][k].active
  <1> DEFINE A == {s \in Sources : C[s][k].active}
  <1>1. IsFiniteSet(A)
    <2>1. IsFiniteSet({Ctl}) /\ IsFiniteSet({"multicloud"}) /\ IsFiniteSet({"configfile"}) /\ IsFiniteSet({"helm"})
      BY FS_Singleton
    <2>2. IsFiniteSet({"multicloud"} \cup {"configfile"})
      BY <2>1, FS_Union
    <2>3. IsFiniteSet(({"multicloud"} \cup {"configfile"}) \cup {"helm"})
      BY <2>1, <2>2, FS_Union
    <2>4. IsFiniteSet((({"multicloud"} \cup {"configfile"}) \cup {"helm"}) \cup {Ctl})
      BY <2>1, <2>3, FS_Union
    <2>5. A \subseteq (({"multicloud"} \cup {"configfile"}) \cup {"helm"}) \cup {Ctl}
      BY ControllerAssumption DEF Sources, WatcherSources
    <2> QED BY <2>4, <2>5, FS_Subset
  <1>2. Cardinality(A) \in Nat
    BY <1>1, FS_CardinalityType
  <1>3. ASSUME Cardinality(A) > 1 PROVE \E s, t \in A : s # t
    <2>1. PICK s \in A : TRUE
      BY <1>3, FS_EmptySet
    <2>2. Cardinality({s}) = 1
      BY FS_Singleton
    <2>3. Cardinality(A) # 1
      <3> HIDE DEF A
      <3> QED BY <1>2, <1>3
    <2>4. A # {s}
      BY <2>2, <2>3
    <2> QED BY <2>1, <2>4
  <1>4. ASSUME NEW s \in A, NEW t \in A, s # t PROVE Cardinality(A) > 1
    <2>1. IsFiniteSet({s}) /\ Cardinality({s}) = 1
      BY FS_Singleton
    <2>2. Cardinality({s}) <= Cardinality(A)
      BY <1>1, FS_Subset
    <2>3. Cardinality({s}) # Cardinality(A)
      BY <1>1, <1>4, FS_Subset
    <2> HIDE DEF A
    <2> QED BY <1>2, <2>1, <2>2, <2>3
  <1> QED BY <1>3, <1>4

-----------------------------------------------------------------------------
(* What a step may do to the statuses C, which become D, and to what the   *)
(* observers run, as long as no save fails.                                *)

(* Nothing, but observers may be gone. *)
Keeps(C, D) ==
    /\ D = C
    /\ registered' \subseteq registered
    /\ \A o \in registered', k \in Keys : obs'[o][k] = obs[o][k]

(* A new observer is given an active config of every key that has one. *)
Registers(C, D, o) ==
    /\ D = C
    /\ registered' = registered \cup {o}
    /\ \A p \in registered, k \in Keys : p # o => obs'[p][k] = obs[p][k]
    /\ \A k \in Keys : IF ActiveVersions(C, k) # {} THEN obs'[o][k] \in ActiveVersions(C, k)
                                                    ELSE obs'[o][k] = NoConf

(* The status of source s becomes the only active one of key k, and any    *)
(* other key either keeps its statuses or loses an active one, and the     *)
(* observers drop it.                                                      *)
Takes(C, D, s, k, v) ==
    /\ D[s][k].active /\ D[s][k].ver = v
    /\ \A t \in Sources : t # s => ~D[t][k].active
    /\ \A t \in Sources, j \in Keys : ~(t = s /\ j = k) /\ D[t][j].active =>
           C[t][j].active /\ D[t][j].ver = C[t][j].ver
    /\ \A t \in Sources, j \in Keys : ~(t = s /\ j = k) => D[t][j].ver = C[t][j].ver
    /\ registered' = registered
    /\ \A o \in registered : obs'[o][k] = v
    /\ \A j \in Keys : j # k =>
         \/ /\ \A o \in registered : obs'[o][j] = obs[o][j]
            /\ \A t \in Sources : D[t][j] = C[t][j]
         \/ /\ \A o \in registered : obs'[o][j] = NoConf
            /\ \E t \in Sources : C[t][j].active /\ ~D[t][j].active
    /\ Exists(C, s, k) => EnableConfig(k, s)

(* The controller's own status of key k is replaced by an active one. *)
Replaces(C, D, k, v) ==
    /\ D[Ctl][k].active /\ D[Ctl][k].ver = v
    /\ \A t \in Sources, j \in Keys : ~(t = Ctl /\ j = k) => D[t][j] = C[t][j]
    /\ registered' = registered
    /\ \A o \in registered, j \in Keys : obs'[o][j] = IF j = k THEN v ELSE obs[o][j]
    /\ UpdateConfig(k, v)

(* The status of source s for key k becomes inactive; the observers drop   *)
(* the key if it was active. One that was off is only deleted, by the API  *)
(* or because its source no longer offers it.                              *)
Drops(C, D, s, k) ==
    /\ ~D[s][k].active
    /\ \A t \in Sources, j \in Keys : ~(t = s /\ j = k) => D[t][j] = C[t][j]
    /\ registered' = registered
    /\ \A o \in registered, j \in Keys :
          obs'[o][j] = IF j = k /\ C[s][k].active THEN NoConf ELSE obs[o][j]
    /\ Exists(C, s, k) /\ ~C[s][k].active => Withdrawn(s, k) \/ (s = Ctl /\ DeleteConfig(k))

Shape(C, D) ==
    \/ Keeps(C, D)
    \/ \E o \in Observers : Registers(C, D, o)
    \/ \E s \in Sources, k \in Keys, v \in Versions : Takes(C, D, s, k, v)
    \/ \E k \in Keys, v \in Versions : Replaces(C, D, k, v)
    \/ \E s \in Sources, k \in Keys : Drops(C, D, s, k)

(* The current statuses are those of the file, which a pull has in memory. *)
LEMMA CurrentIs ==
  ASSUME BInv, faults = 0
  PROVE  /\ Current \in Statuses /\ WellFormed(Current)
         /\ (phase # "idle" \/ readable) => Current = file
         /\ phase # "idle" => mem = file /\ readable
         /\ (phase = "idle" /\ ~readable) => Current = EmptyStatuses
  BY ConstantFacts DEF BInv, TypeOK, InSync, Current

(* A step that saves the statuses st, and has them in memory if it is part *)
(* of a pull, makes them the current ones.                                 *)
LEMMA SavedIsCurrent ==
  ASSUME BInv, NEW st \in Statuses, WellFormed(st), Save(st), faults' = 0,
         phase' = "idle" \/ mem' = st
  PROVE  Current' = st /\ faults = 0
  BY SaveEffect DEF BInv, Current

(* When no save has failed, an API call replaces the current statuses by   *)
(* the ones it saves.                                                      *)
LEMMA ApiIs ==
  ASSUME BInv, NEW st \in Statuses, WellFormed(st), NEW gone, NEW ks, NEW v \in Conf,
         ApiCall(st, gone, ks, v), faults' = 0
  PROVE  /\ Current = file /\ Current' = st /\ registered' = registered
         /\ \A o \in registered, k \in Keys :
               obs'[o][k] = IF k \in ks THEN v ELSE IF k \in gone THEN NoConf ELSE obs[o][k]
  <1>1. phase' = "idle" /\ phase = "idle" /\ readable /\ Save(st) /\ Broadcast(gone, ks, v)
        /\ registered' = registered
    BY DEF ApiCall, Serving, pullVars
  <1>2. Current' = st /\ faults = 0
    BY <1>1, SavedIsCurrent
  <1>3. Current = file
    BY <1>1 DEF Current
  <1> QED BY <1>1, <1>2, <1>3, BroadcastEffect DEF BInv

(* The shape of every call of the API. *)
LEMMA ApiShape ==
  ASSUME BInv, faults' = 0,
         \/ \E k \in Keys, v \in Versions : CreateConfig(k, v) \/ UpdateConfig(k, v)
         \/ \E k \in Keys, s \in Sources : EnableConfig(k, s) \/ DisableConfig(k, s)
         \/ \E k \in Keys : DeleteConfig(k)
  PROVE  Shape(Current, Current')
  <1>0. file \in Statuses /\ WellFormed(file) /\ Ctl \in Sources
    BY ConstantFacts DEF BInv, TypeOK
  <1>1. ASSUME NEW k \in Keys, NEW v \in Versions, CreateConfig(k, v)
        PROVE  Takes(Current, Current', Ctl, k, v)
    <2> DEFINE I == Inserted(file, Ctl, k, v)
               D == Disabled(I, k, Ctl)
    <2>1. /\ I \in Statuses /\ WellFormed(I)
          /\ \A t \in Sources, j \in Keys : 
                I[t][j] = IF t = Ctl /\ j = k
                          THEN [active |-> IsValid(v), valid |-> IsValid(v), ver |-> v] ELSE file[t][j]
      BY <1>0, InsertedAt, OperatorsWellFormed
    <2>2. ApiCall(D, {}, {k}, v) /\ v \in Conf /\ IsValid(v) /\ ~Exists(file, Ctl, k)
      BY <1>1, ConstantFacts DEF CreateConfig, ApiCall
    <2> HIDE DEF I
    <2>3. /\ D \in Statuses /\ WellFormed(D)
          /\ \A t \in Sources, j \in Keys :
               /\ D[t][j].ver = I[t][j].ver
               /\ D[t][j].active = (I[t][j].active /\ ~(t # Ctl /\ j = k))
               /\ t = Ctl \/ j # k => D[t][j] = I[t][j]
      BY <2>1, DisabledAt, OperatorsWellFormed
    <2> HIDE DEF D
    <2>4. /\ Current = file /\ Current' = D /\ registered' = registered
          /\ \A o \in registered, j \in Keys : obs'[o][j] = IF j = k THEN v ELSE obs[o][j]
      BY <2>2, <2>3, ApiIs
    <2>5. D[Ctl][k].active /\ D[Ctl][k].ver = v
      BY <1>0, <2>1, <2>2, <2>3
    <2>6. \A t \in Sources : t # Ctl => ~D[t][k].active
      BY <2>3
    <2>7. \A t \in Sources, j \in Keys : j # k => D[t][j] = file[t][j]
      BY <2>1, <2>3
    <2>8. \A t \in Sources, j \in Keys : ~(t = Ctl /\ j = k) => D[t][j].ver = file[t][j].ver
      BY <2>1, <2>3
    <2> QED BY <2>2, <2>4, <2>5, <2>6, <2>7, <2>8 DEF Takes
  <1>2. ASSUME NEW k \in Keys, NEW v \in Versions, UpdateConfig(k, v)
        PROVE  Replaces(Current, Current', k, v)
    <2> DEFINE I == Inserted(file, Ctl, k, v)
    <2>1. /\ I \in Statuses /\ WellFormed(I)
          /\ \A t \in Sources, j \in Keys : 
                I[t][j] = IF t = Ctl /\ j = k
                          THEN [active |-> IsValid(v), valid |-> IsValid(v), ver |-> v] ELSE file[t][j]
      BY <1>0, InsertedAt, OperatorsWellFormed
    <2>2. ApiCall(I, {}, {k}, v) /\ v \in Conf /\ IsValid(v)
      BY <1>2, ConstantFacts DEF UpdateConfig, ApiCall
    <2> HIDE DEF I
    <2>3. /\ Current = file /\ Current' = I /\ registered' = registered
          /\ \A o \in registered, j \in Keys : obs'[o][j] = IF j = k THEN v ELSE obs[o][j]
      BY <2>1, <2>2, ApiIs
    <2>4. I[Ctl][k].active /\ I[Ctl][k].ver = v
      BY <1>0, <2>1, <2>2
    <2> QED BY <1>2, <2>1, <2>3, <2>4 DEF Replaces
  <1>3. ASSUME NEW k \in Keys, NEW s \in Sources, EnableConfig(k, s)
        PROVE  \E v \in Versions : Takes(Current, Current', s, k, v)
    <2> DEFINE D == Disabled(file, k, s)
               E == [D EXCEPT ![s][k].active = TRUE]
    <2>1. PICK v : v = file[s][k].ver
      OBVIOUS
    <2>2. v \in Versions /\ v \in Conf
      BY <1>0, <1>3, <2>1, StatusAt DEF EnableConfig, Exists, Conf
    <2>3. /\ D \in Statuses /\ WellFormed(D) /\ Exists(D, s, k)
          /\ \A t \in Sources, j \in Keys :
               /\ D[t][j].ver = file[t][j].ver
               /\ D[t][j].active = (file[t][j].active /\ ~(t # s /\ j = k))
               /\ t = s \/ j # k => D[t][j] = file[t][j]
               /\ t # s /\ j = k => ~D[t][j].active
      BY <1>0, <1>3, DisabledAt, OperatorsWellFormed DEF EnableConfig, Exists
    <2>4. ApiCall(E, {}, {k}, v)
      BY <1>3, <2>1 DEF EnableConfig, ApiCall
    <2> HIDE DEF D
    <2>5. /\ E \in Statuses /\ WellFormed(E)
          /\ \A t \in Sources, j \in Keys :
               /\ E[t][j].ver = D[t][j].ver
               /\ ~(t = s /\ j = k) => E[t][j] = D[t][j]
          /\ E[s][k].active
      <3>1. \A b \in BOOLEAN : /\ [D EXCEPT ![s][k].active = b] \in Statuses
                               /\ [D EXCEPT ![s][k].active = b][s][k].active = b
                               /\ \A t \in Sources, j \in Keys :
                                     /\ [D EXCEPT ![s][k].active = b][t][j].ver = D[t][j].ver
                                     /\ ~(t = s /\ j = k) => [D EXCEPT ![s][k].active = b][t][j] = D[t][j]
        BY <2>3, ActiveSetAt
      <3>2. WellFormed(E)
        BY <2>3, OperatorsWellFormed
      <3> QED BY <3>1, <3>2
    <2> HIDE DEF E
    <2>6. /\ Current = file /\ Current' = E /\ registered' = registered
          /\ \A o \in registered, j \in Keys : obs'[o][j] = IF j = k THEN v ELSE obs[o][j]
      BY <2>2, <2>4, <2>5, ApiIs
    <2>7. E[s][k].active /\ E[s][k].ver = v
      BY <2>1, <2>3, <2>5
    <2>8. \A t \in Sources : t # s => ~E[t][k].active
      BY <2>3, <2>5
    <2>9. \A t \in Sources, j \in Keys : j # k => E[t][j] = file[t][j]
      BY <2>3, <2>5
    <2>10. \A t \in Sources, j \in Keys : E[t][j].ver = file[t][j].ver
      BY <2>3, <2>5
    <2> QED BY <1>3, <2>2, <2>6, <2>7, <2>8, <2>9, <2>10 DEF Takes
  <1>4. ASSUME NEW k \in Keys, NEW s \in Sources, DisableConfig(k, s)
        PROVE  Drops(Current, Current', s, k)
    <2> DEFINE E == [file EXCEPT ![s][k].active = FALSE]
    <2>1. /\ E \in Statuses /\ WellFormed(E)
          /\ \A t \in Sources, j \in Keys :
               ~(t = s /\ j = k) => E[t][j] = file[t][j]
          /\ ~E[s][k].active
      <3>a. ASSUME NEW b \in BOOLEAN
            PROVE  /\ [file EXCEPT ![s][k].active = b] \in Statuses
                   /\ [file EXCEPT ![s][k].active = b][s][k].active = b
                   /\ \A t \in Sources, j \in Keys :
                         ~(t = s /\ j = k) => [file EXCEPT ![s][k].active = b][t][j] = file[t][j]
        <4>1. PICK F \in Statuses : F = file
          BY <1>0
        <4>2. /\ [F EXCEPT ![s][k].active = b] \in Statuses
              /\ \A t \in Sources, j \in Keys :
                    /\ [F EXCEPT ![s][k].active = b][t][j].active =
                           IF t = s /\ j = k THEN b ELSE F[t][j].active
                    /\ ~(t = s /\ j = k) => [F EXCEPT ![s][k].active = b][t][j] = F[t][j]
          BY ActiveSetAt
        <4>3. [F EXCEPT ![s][k].active = b][s][k].active = b
          BY <4>2
        <4> QED BY <4>1, <4>2, <4>3
      <3>1. /\ E \in Statuses /\ E[s][k].active = FALSE
            /\ \A t \in Sources, j \in Keys : ~(t = s /\ j = k) => E[t][j] = file[t][j]
        BY <3>a
      <3>2. WellFormed(E)
        BY <1>0, OperatorsWellFormed
      <3> QED BY <3>1, <3>2
    <2>2. ApiCall(E, {k}, {}, NoConf) /\ file[s][k].active
      BY <1>4 DEF DisableConfig, ApiCall
    <2> HIDE DEF E
    <2>3. /\ Current = file /\ Current' = E /\ registered' = registered
          /\ \A o \in registered, j \in Keys : obs'[o][j] = IF j = k THEN NoConf ELSE obs[o][j]
      BY <2>1, <2>2, ConstantFacts, ApiIs
    <2> QED BY <2>1, <2>2, <2>3 DEF Drops
  <1>5. ASSUME NEW k \in Keys, DeleteConfig(k)
        PROVE  Drops(Current, Current', Ctl, k)
    <2> DEFINE R == Removed(file, Ctl, k)
    <2>1. /\ R \in Statuses /\ WellFormed(R)
          /\ \A t \in Sources, j \in Keys : R[t][j] = IF t = Ctl /\ j = k THEN Absent ELSE file[t][j]
      BY <1>0, RemovedAt, OperatorsWellFormed
    <2>2. ApiCall(R, ActiveKey(file, Ctl, k), {}, NoConf)
      BY <1>5 DEF DeleteConfig, ApiCall
    <2> HIDE DEF R
    <2>3. /\ Current = file /\ Current' = R /\ registered' = registered
          /\ \A o \in registered, j \in Keys :
                obs'[o][j] = IF j \in ActiveKey(file, Ctl, k) THEN NoConf ELSE obs[o][j]
      BY <2>1, <2>2, ConstantFacts, ApiIs
    <2> QED BY <1>0, <1>5, <2>1, <2>3 DEF Drops, ActiveKey, Absent
  <1> QED BY <1>0, <1>1, <1>2, <1>3, <1>4, <1>5 DEF Shape

(* A step that changes neither file nor memory, but may change phase. *)
LEMMA QuietKeeps ==
  ASSUME BInv, UNCHANGED <<file, readable, faults, mem, registered, obs>>, faults' = 0,
         phase # "idle"
  PROVE  Keeps(Current, Current')
  <1>1. mem = file /\ readable
    BY CurrentIs
  <1>2. Current = file /\ Current' = file
    BY <1>1 DEF Current
  <1> QED BY <1>2 DEF Keeps

(* The shape of every step of a pull. *)
LEMMA PullShape ==
  ASSUME BInv, BInv', faults' = 0, PullStep
  PROVE  Shape(Current, Current')
  <1>0. mem \in Statuses /\ WellFormed(mem) /\ src \in Sources
    BY DEF BInv, TypeOK
  <1>1. ASSUME NEW k \in Keys,
               mem' = Removed(mem, src, k), Broadcast(ActiveKey(mem, src, k), {}, NoConf),
               Save(mem'), registered' = registered, phase \in {"delete", "keys"}, confs[k] # mem[src][k].ver
        PROVE  Drops(Current, Current', src, k)
    <2>1. /\ mem' \in Statuses /\ WellFormed(mem')
          /\ \A t \in Sources, j \in Keys : mem'[t][j] = IF t = src /\ j = k THEN Absent ELSE mem[t][j]
      BY <1>0, <1>1, RemovedAt, OperatorsWellFormed
    <2>2. faults = 0 /\ Current' = mem'
      BY <1>1, <2>1, SavedIsCurrent
    <2>3. Current = mem
      BY <1>1 DEF Current
    <2>4. \A o \in registered, j \in Keys :
             obs'[o][j] = IF j \in ActiveKey(mem, src, k) THEN NoConf ELSE obs[o][j]
      BY <1>1, ConstantFacts, BroadcastEffect DEF BInv
    <2>5. ~mem'[src][k].active
      BY <1>0, <2>1 DEF Absent
    <2>6. \A j : j \in ActiveKey(mem, src, k) <=> j = k /\ mem[src][k].active
      BY DEF ActiveKey
    <2>7. Withdrawn(src, k)
      BY <1>1, <2>3 DEF Withdrawn
    <2> QED BY <1>1, <2>1, <2>2, <2>3, <2>4, <2>5, <2>6, <2>7 DEF Drops
  <1>2. ASSUME NEW s \in Watched, PullSource(s) PROVE Keeps(Current, Current')
    BY <1>2, QuietKeeps DEF PullSource, storage
  <1>3. ASSUME NEW k \in Keys, PullDelete(k) PROVE Drops(Current, Current', src, k)
    BY <1>1, <1>3 DEF PullDelete, Stale, Exists
  <1>4. ASSUME NEW k \in Keys, PullUnchanged(k) PROVE Keeps(Current, Current')
    BY <1>4, QuietKeeps DEF PullUnchanged, storage
  <1>5. ASSUME NEW k \in Keys, PullChanged(k) PROVE Keeps(Current, Current') \/ Drops(Current, Current', src, k)
    <2>1. CASE Exists(mem, src, k)
      BY <1>1, <1>5, <2>1 DEF PullChanged
    <2>2. CASE ~Exists(mem, src, k)
      BY <1>5, <2>2, QuietKeeps DEF PullChanged, storage
    <2> QED BY <2>1, <2>2
  <1>6. CASE PullDeleted \/ PullSourceDone
    <2>1. Keeps(Current, Current')
      BY <1>6, QuietKeeps DEF PullDeleted, PullSourceDone, storage
    <2> QED BY <2>1 DEF Shape
  <1>7. CASE EndPull
    <2>1. /\ phase # "idle" /\ phase' = "idle"
          /\ UNCHANGED <<file, readable, faults, registered, obs>>
      BY <1>7 DEF EndPull, PullReturns, storage
    <2>2. Current = file /\ Current' = file
      BY <2>1, CurrentIs DEF Current
    <2> QED BY <2>1, <2>2 DEF Keeps, Shape
  <1>8. CASE PullInsert
    <2>0. PICK v : v = confs[cur]
      OBVIOUS
    <2>1. phase = "insert" /\ cur \in Keys /\ v \in Versions /\ v \in Conf /\ registered' = registered
      BY <1>8, <2>0, PullInsertIs, ConstantFacts
    <2>2. Current = mem
      BY <2>1 DEF Current
    <2>3. ~Exists(mem, src, cur) /\ ~mem[src][cur].active
      BY <1>0, <2>1 DEF BInv, Pulling, WellFormed
    <2>4. CASE ~IsKnown(v)
      <3>1. UNCHANGED <<file, readable, faults, obs, mem>>
        BY <1>8, <2>0, <2>4, PullInsertIs DEF storage
      <3> QED BY <2>1, <3>1, QuietKeeps DEF Shape
    <2>5. CASE IsKnown(v)
      <3> DEFINE D == Inserted(Cleared(v), src, cur, v)
      <3>1. /\ mem' = D /\ Save(mem')
            /\ Broadcast({p[2] : p \in Hit(v)}, IF IsValid(v) THEN {cur} ELSE {}, v)
        BY <1>8, <2>0, <2>5, PullInsertIs
      <3>2. /\ Cleared(v) \in Statuses /\ WellFormed(Cleared(v))
            /\ \A t \in Sources, j \in Keys :
                 /\ <<t, j>> \in Hit(v) <=> IsValid(v) /\ Displaces(t, j)
                 /\ <<t, j>> \in Hit(v) => mem[t][j].active /\ ~Cleared(v)[t][j].active
                 /\ <<t, j>> \notin Hit(v) => Cleared(v)[t][j] = mem[t][j]
        BY ClearedAt DEF BInv, Displaces
      <3>3. /\ D \in Statuses /\ WellFormed(D)
            /\ \A t \in Sources, j \in Keys :
                  D[t][j] = IF t = src /\ j = cur
                            THEN [active |-> IsValid(v), valid |-> IsValid(v), ver |-> v] ELSE Cleared(v)[t][j]
        BY <1>0, <2>1, <3>2, InsertedAt, OperatorsWellFormed
      <3> HIDE DEF D
      <3>4. Current' = D
        BY <3>1, <3>3, SavedIsCurrent
      <3>5. \A o \in registered, j \in Keys :
               obs'[o][j] = IF j \in (IF IsValid(v) THEN {cur} ELSE {}) THEN v
                            ELSE IF j \in {p[2] : p \in Hit(v)} THEN NoConf ELSE obs[o][j]
        BY <2>1, <3>1, BroadcastEffect DEF BInv
      <3>6. \A j \in Keys : j \in {p[2] : p \in Hit(v)} <=> \E t \in Sources : <<t, j>> \in Hit(v)
        <4>1. \A p \in Hit(v) : p[1] \in Sources /\ p = <<p[1], p[2]>>
          BY DEF Hit
        <4>2. \A t, j : <<t, j>>[2] = j
          OBVIOUS
        <4> QED BY <4>1, <4>2
      <3>7. D[src][cur].active = IsValid(v) /\ D[src][cur].ver = v
        BY <1>0, <2>1, <3>3
      <3>a. \A t \in Sources, j \in Keys : ~(t = src /\ j = cur) => D[t][j] = Cleared(v)[t][j]
        BY <3>3
      <3>b. \A t \in Sources, j \in Keys : <<t, j>> \in Hit(v) => mem[t][j].active /\ ~Cleared(v)[t][j].active
        BY <3>2
      <3>c. \A t \in Sources, j \in Keys : <<t, j>> \notin Hit(v) => Cleared(v)[t][j] = mem[t][j]
        BY <3>2
      <3>8. CASE IsValid(v)
        <4>1. \A t \in Sources : t # src => ~D[t][cur].active
          <5>1. \A t \in Sources : <<t, cur>> \in Hit(v) <=> mem[t][cur].active
            BY <2>1, <3>2, <3>8 DEF Displaces
          <5> SUFFICES ASSUME NEW t \in Sources, t # src PROVE ~D[t][cur].active
            OBVIOUS
          <5>2. D[t][cur] = Cleared(v)[t][cur]
            BY <2>1, <3>a
          <5>3. CASE <<t, cur>> \in Hit(v)
            BY <2>1, <3>b, <5>2, <5>3
          <5>4. CASE <<t, cur>> \notin Hit(v)
            BY <2>1, <3>c, <5>1, <5>2, <5>4
          <5> QED BY <5>3, <5>4
        <4>2. \A t \in Sources, j \in Keys : ~(t = src /\ j = cur) /\ D[t][j].active =>
                 mem[t][j].active /\ D[t][j].ver = mem[t][j].ver
          <5> SUFFICES ASSUME NEW t \in Sources, NEW j \in Keys, ~(t = src /\ j = cur), D[t][j].active
                       PROVE  mem[t][j].active /\ D[t][j].ver = mem[t][j].ver
            OBVIOUS
          <5>1. D[t][j] = Cleared(v)[t][j]
            BY <3>a
          <5>2. <<t, j>> \notin Hit(v)
            BY <3>b, <5>1
          <5> QED BY <3>c, <5>1, <5>2
        <4>3. \A o \in registered : obs'[o][cur] = v
          BY <2>1, <3>5, <3>8
        <4>4. ASSUME NEW j \in Keys, j # cur
              PROVE  \/ /\ \A o \in registered : obs'[o][j] = obs[o][j]
                        /\ \A t \in Sources : D[t][j] = mem[t][j]
                     \/ /\ \A o \in registered : obs'[o][j] = NoConf
                        /\ \E t \in Sources : mem[t][j].active /\ ~D[t][j].active
          <5>1. CASE \E t \in Sources : <<t, j>> \in Hit(v)
            <6>1. \A o \in registered : obs'[o][j] = NoConf
              BY <3>5, <3>6, <3>8, <4>4, <5>1
            <6> QED BY <3>a, <3>b, <4>4, <5>1, <6>1
          <5>2. CASE \A t \in Sources : <<t, j>> \notin Hit(v)
            <6>1. \A o \in registered : obs'[o][j] = obs[o][j]
              BY <3>5, <3>6, <3>8, <4>4, <5>2
            <6>2. \A t \in Sources : D[t][j] = mem[t][j]
              BY <3>a, <3>c, <4>4, <5>2
            <6> QED BY <6>1, <6>2
          <5> QED BY <5>1, <5>2
        <4>6. \A t \in Sources, j \in Keys : ~(t = src /\ j = cur) => D[t][j].ver = mem[t][j].ver
          <5>1. \A t \in Sources, j \in Keys : Cleared(v)[t][j].ver = mem[t][j].ver
            BY ClearedAt DEF BInv
          <5> QED BY <3>a, <5>1
        <4>5. Takes(Current, Current', src, cur, v)
          BY <2>1, <2>2, <2>3, <3>4, <3>7, <3>8, <4>1, <4>2, <4>3, <4>4, <4>6 DEF Takes
        <4> QED BY <1>0, <2>1, <4>5 DEF Shape
      <3>9. CASE ~IsValid(v)
        <4>1. \A t \in Sources, j \in Keys : <<t, j>> \notin Hit(v)
          BY <3>2, <3>9
        <4>2. \A t \in Sources, j \in Keys : ~(t = src /\ j = cur) => D[t][j] = mem[t][j]
          BY <3>a, <3>c, <4>1
        <4>3. \A o \in registered, j \in Keys : obs'[o][j] = obs[o][j]
          BY <3>5, <3>6, <3>9, <4>1
        <4>4. Drops(Current, Current', src, cur)
          BY <2>1, <2>2, <2>3, <3>4, <3>7, <3>9, <4>2, <4>3 DEF Drops
        <4> QED BY <1>0, <2>1, <4>4 DEF Shape
      <3> QED BY <3>8, <3>9
    <2> QED BY <2>4, <2>5
  <1> QED BY <1>0, <1>2, <1>3, <1>4, <1>5, <1>6, <1>7, <1>8 DEF PullStep, Shape

(* As long as no save fails, every step has one of the shapes. *)
LEMMA NextShape ==
  ASSUME BInv, BInv', faults' = 0, [Next]_vars
  PROVE  faults = 0 /\ Shape(Current, Current')
  <1>0. faults = 0
    <2>1. faults \in Nat
      BY ControllerAssumption DEF BInv, TypeOK
    <2>2. ASSUME NEW st, Save(st) PROVE faults = 0
      <3>1. faults' = faults \/ faults' = faults + 1
        BY <2>2 DEF Save
      <3> QED BY <2>1, <3>1
    <2>3. CASE StartProcess \/ Tick
      BY <2>2, <2>3 DEF StartProcess, Tick, BeginPull, storage
    <2>4. CASE Crash
      BY <2>1, <2>4 DEF Crash
    <2>5. CASE Api
      BY <2>2, <2>5 DEF Api, CreateConfig, UpdateConfig, EnableConfig, DisableConfig, DeleteConfig,
                        RegisterObserver, storage
    <2>6. CASE PullStep
      BY <2>2, <2>6 DEF PullStep, PullSource, PullDelete, PullUnchanged, PullChanged, PullDeleted,
                        PullInsert, PullSourceDone, EndPull, storage
    <2>7. CASE UNCHANGED vars \/ \E s \in Watched : WatchedFileChanges(s)
      BY <2>7 DEF vars, storage, WatchedFileChanges
    <2> QED BY <2>3, <2>4, <2>5, <2>6, <2>7 DEF Next
  <1>1. CASE StartProcess \/ Tick
    <2>1. /\ BeginPull /\ phase' = "source" /\ UNCHANGED <<registered, obs>>
      BY <1>1 DEF StartProcess, Tick, BeginPull
    <2>2. CASE readable
      BY <1>0, <2>1, <2>2, CurrentIs DEF BeginPull, Current, Keeps, Shape
    <2>3. CASE ~readable
      <3>1. mem' = EmptyStatuses
        BY <2>1, <2>3 DEF BeginPull
      <3>2. Current = EmptyStatuses
        BY <1>0, <2>3, CurrentIs
      <3>3. Current' = mem'
        BY <2>1 DEF Current
      <3>4. Keeps(Current, Current')
        BY <2>1, <3>1, <3>2, <3>3 DEF Keeps
      <3> QED BY <1>0, <3>4 DEF Shape
    <2> QED BY <1>0, <2>2, <2>3
  <1>2. CASE Crash
    <2>1. phase' = "idle" /\ registered' = {} /\ UNCHANGED <<file, readable>>
      BY <1>0, <1>2 DEF Crash, PullReturns
    <2>2. Current' = Current
      BY <1>0, <2>1, CurrentIs DEF Current
    <2> QED BY <1>0, <2>1, <2>2 DEF Keeps, Shape
  <1>3. CASE UNCHANGED vars \/ \E s \in Watched : WatchedFileChanges(s)
    <2>1. UNCHANGED <<file, readable, mem, phase, registered, obs>>
      BY <1>3 DEF vars, storage, pullVars, WatchedFileChanges
    <2>2. Current' = Current
      BY <2>1 DEF Current
    <2> QED BY <1>0, <2>1, <2>2 DEF Keeps, Shape
  <1>4. ASSUME NEW o \in Observers, RegisterObserver(o)
        PROVE  Registers(Current, Current', o)
    <2>1. /\ phase = "idle" /\ UNCHANGED <<file, readable, phase, mem>>
          /\ registered' = registered \cup {o} /\ o \notin registered
      BY <1>4 DEF RegisterObserver, Serving, storage, pullVars
    <2>2. Current' = Current
      BY <2>1 DEF Current
    <2>3. PICK m \in [Keys -> Conf] :
            /\ \A k \in Keys : IF readable /\ ActiveVersions(file, k) # {}
                               THEN m[k] \in ActiveVersions(file, k) ELSE m[k] = NoConf
            /\ obs' = [obs EXCEPT ![o] = m]
      BY <1>4 DEF RegisterObserver
    <2>4. \A k \in Keys : IF ActiveVersions(Current, k) # {} THEN m[k] \in ActiveVersions(Current, k)
                                                            ELSE m[k] = NoConf
      <3>1. CASE readable
        BY <2>1, <2>3, <3>1 DEF Current
      <3>2. CASE ~readable
        <4>1. Current = EmptyStatuses
          BY <2>1, <3>2 DEF Current
        <4>2. \A k \in Keys : ActiveVersions(Current, k) = {}
          BY <4>1, ConstantFacts DEF ActiveVersions
        <4> QED BY <2>3, <3>2, <4>2
      <3> QED BY <3>1, <3>2
    <2>5. obs'[o] = m /\ \A p \in registered : p # o => obs'[p] = obs[p]
      BY <2>3 DEF BInv, TypeOK
    <2> QED BY <2>1, <2>2, <2>4, <2>5 DEF Registers
  <1> QED BY <1>0, <1>1, <1>2, <1>3, <1>4, ApiShape, PullShape DEF Next, Api, Shape

-----------------------------------------------------------------------------
(* What the shapes mean for an observer o and a key k. *)
NotOrphaned(C, runs, k) == runs # NoConf => runs \in ActiveVersions(C, k)
ServedBy(C, runs, k) == ActiveVersions(C, k) # {} => runs \in ActiveVersions(C, k)
DoubledIn(C, k) == \E s, t \in Sources : s # t /\ C[s][k].active /\ C[t][k].active

(* Statuses that agree on a key have the same active configs of it. *)
LEMMA SameStatuses ==
  ASSUME NEW C, NEW D, NEW k, \A t \in Sources : D[t][k] = C[t][k]
  PROVE  ActiveVersions(D, k) = ActiveVersions(C, k) /\ (DoubledIn(D, k) <=> DoubledIn(C, k))
  <1>1. \A v : v \in ActiveVersions(D, k) <=> v \in ActiveVersions(C, k)
    BY DEF ActiveVersions
  <1> QED BY <1>1 DEF DoubledIn

(* An observer that runs only active configs still does after the step,    *)
(* and one that is served still is, unless the key was doubled.            *)
LEMMA ShapeServes ==
  ASSUME NEW C, NEW D, Shape(C, D), NEW o \in registered', NEW k \in Keys
  PROVE  /\ (o \in registered => NotOrphaned(C, obs[o][k], k)) => NotOrphaned(D, obs'[o][k], k)
         /\ (o \in registered => ServedBy(C, obs[o][k], k) /\ ~DoubledIn(C, k)) => ServedBy(D, obs'[o][k], k)
  <1>1. CASE o \in registered /\ obs'[o][k] = obs[o][k] /\ \A t \in Sources : D[t][k] = C[t][k]
    BY <1>1, SameStatuses DEF NotOrphaned, ServedBy
  <1>2. ASSUME NEW s \in Sources, D[s][k].active, obs'[o][k] = D[s][k].ver
        PROVE  NotOrphaned(D, obs'[o][k], k) /\ ServedBy(D, obs'[o][k], k)
    BY <1>2, ActiveVersionsIs DEF NotOrphaned, ServedBy
  <1>3. ASSUME NEW s \in Sources, o \in registered, C[s][k].active, ~D[s][k].active,
               \A t \in Sources : D[t][k].active => C[t][k].active,
               obs'[o][k] = NoConf
        PROVE  /\ NotOrphaned(D, obs'[o][k], k)
               /\ ~DoubledIn(C, k) => ServedBy(D, obs'[o][k], k)
    <2>1. ASSUME ~DoubledIn(C, k) PROVE ActiveVersions(D, k) = {}
      <3>1. \A t \in Sources : ~D[t][k].active
        BY <1>3, <2>1 DEF DoubledIn
      <3> QED BY <3>1 DEF ActiveVersions
    <2> QED BY <1>3, <2>1 DEF NotOrphaned, ServedBy
  <1>4. CASE Keeps(C, D)
    BY <1>1, <1>4 DEF Keeps
  <1>5. ASSUME NEW p \in Observers, Registers(C, D, p)
        PROVE  /\ (o \in registered => NotOrphaned(C, obs[o][k], k)) => NotOrphaned(D, obs'[o][k], k)
               /\ (o \in registered => ServedBy(C, obs[o][k], k) /\ ~DoubledIn(C, k)) => ServedBy(D, obs'[o][k], k)
    <2>1. CASE o = p
      BY <1>5, <2>1 DEF Registers, NotOrphaned, ServedBy
    <2>2. CASE o # p
      BY <1>1, <1>5, <2>2 DEF Registers
    <2> QED BY <2>1, <2>2
  <1>6. ASSUME NEW s \in Sources, NEW j \in Keys, NEW v \in Versions, Takes(C, D, s, j, v)
        PROVE  /\ (o \in registered => NotOrphaned(C, obs[o][k], k)) => NotOrphaned(D, obs'[o][k], k)
               /\ (o \in registered => ServedBy(C, obs[o][k], k) /\ ~DoubledIn(C, k)) => ServedBy(D, obs'[o][k], k)
    <2>0. o \in registered
      BY <1>6 DEF Takes
    <2>1. CASE k = j
      BY <1>2, <1>6, <2>0, <2>1 DEF Takes
    <2>2. CASE k # j /\ \A t \in Sources : D[t][k] = C[t][k] /\ \A q \in registered : obs'[q][k] = obs[q][k]
      BY <1>1, <2>0, <2>2
    <2>3. ASSUME NEW t \in Sources, k # j, C[t][k].active, ~D[t][k].active, \A q \in registered : obs'[q][k] = NoConf
          PROVE  /\ NotOrphaned(D, obs'[o][k], k)
                 /\ ~DoubledIn(C, k) => ServedBy(D, obs'[o][k], k)
      <3>1. \A r \in Sources : D[r][k].active => C[r][k].active
        BY <1>6, <2>3 DEF Takes
      <3> QED BY <1>3, <2>0, <2>3, <3>1
    <2> QED BY <1>6, <2>0, <2>1, <2>2, <2>3 DEF Takes
  <1>7. ASSUME NEW j \in Keys, NEW v \in Versions, Replaces(C, D, j, v)
        PROVE  /\ (o \in registered => NotOrphaned(C, obs[o][k], k)) => NotOrphaned(D, obs'[o][k], k)
               /\ (o \in registered => ServedBy(C, obs[o][k], k) /\ ~DoubledIn(C, k)) => ServedBy(D, obs'[o][k], k)
    <2>1. CASE k = j
      BY <1>2, <1>7, <2>1, ConstantFacts DEF Replaces
    <2>2. CASE k # j
      BY <1>1, <1>7, <2>2 DEF Replaces
    <2> QED BY <2>1, <2>2
  <1>8. ASSUME NEW s \in Sources, NEW j \in Keys, Drops(C, D, s, j)
        PROVE  /\ (o \in registered => NotOrphaned(C, obs[o][k], k)) => NotOrphaned(D, obs'[o][k], k)
               /\ (o \in registered => ServedBy(C, obs[o][k], k) /\ ~DoubledIn(C, k)) => ServedBy(D, obs'[o][k], k)
    <2>1. CASE k # j
      BY <1>1, <1>8, <2>1 DEF Drops
    <2>2. CASE k = j /\ C[s][j].active
      <3>1. \A t \in Sources : D[t][k].active => C[t][k].active
        BY <1>8, <2>2 DEF Drops
      <3> QED BY <1>3, <1>8, <2>2, <3>1 DEF Drops
    <2>3. CASE k = j /\ ~C[s][j].active
      <3>1. o \in registered /\ obs'[o][k] = obs[o][k]
        BY <1>8, <2>3 DEF Drops
      <3>2. \A v : v \in ActiveVersions(D, k) <=> v \in ActiveVersions(C, k)
        BY <1>8, <2>3, ActiveVersionsIs DEF Drops
      <3> QED BY <3>1, <3>2 DEF NotOrphaned, ServedBy
    <2> QED BY <2>1, <2>2, <2>3
  <1> QED BY <1>4, <1>5, <1>6, <1>7, <1>8 DEF Shape

(* A key gets a second active status only from UpdateConfig. *)
LEMMA ShapeActivates ==
  ASSUME NEW C, NEW D, Shape(C, D), NEW k \in Keys
  PROVE  DoubledIn(D, k) => DoubledIn(C, k) \/ \E v \in Versions : UpdateConfig(k, v)
  <1>1. CASE \A t \in Sources : D[t][k].active => C[t][k].active
    BY <1>1 DEF DoubledIn
  <1>2. CASE D = C
    BY <1>1, <1>2
  <1>3. ASSUME NEW s \in Sources, NEW j \in Keys, NEW v \in Versions, Takes(C, D, s, j, v), j = k
        PROVE  ~DoubledIn(D, k)
    BY <1>3 DEF Takes, DoubledIn
  <1>4. ASSUME NEW s \in Sources, NEW j \in Keys, NEW v \in Versions, Takes(C, D, s, j, v), j # k
        PROVE  \A t \in Sources : D[t][k].active => C[t][k].active
    BY <1>4 DEF Takes
  <1>5. ASSUME NEW j \in Keys, NEW v \in Versions, Replaces(C, D, j, v), j = k
        PROVE  UpdateConfig(k, v)
    BY <1>5 DEF Replaces
  <1>6. ASSUME NEW j \in Keys, NEW v \in Versions, Replaces(C, D, j, v), j # k
        PROVE  \A t \in Sources : D[t][k].active => C[t][k].active
    BY <1>6 DEF Replaces
  <1>7. ASSUME NEW s \in Sources, NEW j \in Keys, Drops(C, D, s, j)
        PROVE  \A t \in Sources : D[t][k].active => C[t][k].active
    BY <1>7 DEF Drops
  <1>8. CASE \E s \in Sources, j \in Keys, v \in Versions : Takes(C, D, s, j, v)
    BY <1>1, <1>3, <1>4, <1>8
  <1>9. CASE \E j \in Keys, v \in Versions : Replaces(C, D, j, v)
    BY <1>1, <1>5, <1>6, <1>9
  <1>10. CASE \E s \in Sources, j \in Keys : Drops(C, D, s, j)
    BY <1>1, <1>7, <1>10
  <1> QED BY <1>2, <1>8, <1>9, <1>10 DEF Shape, Keeps, Registers

(* A status that is off stays so, or is enabled, updated or deleted. *)
LEMMA ShapeKeepsOff ==
  ASSUME NEW C, NEW D, Shape(C, D), NEW s \in Sources, NEW k \in Keys, Exists(C, s, k), ~C[s][k].active
  PROVE  \/ D[s][k].ver = C[s][k].ver /\ ~D[s][k].active
         \/ EnableConfig(k, s)
         \/ s = Ctl /\ (DeleteConfig(k) \/ \E v \in Versions : UpdateConfig(k, v))
         \/ Withdrawn(s, k)
  <1>1. CASE D = C
    BY <1>1
  <1>2. ASSUME NEW t \in Sources, NEW j \in Keys, NEW v \in Versions, Takes(C, D, t, j, v)
        PROVE  (D[s][k].ver = C[s][k].ver /\ ~D[s][k].active) \/ EnableConfig(k, s)
    BY <1>2 DEF Takes
  <1>3. ASSUME NEW j \in Keys, NEW v \in Versions, Replaces(C, D, j, v)
        PROVE  D[s][k] = C[s][k] \/ (s = Ctl /\ UpdateConfig(k, v))
    BY <1>3 DEF Replaces
  <1>4. ASSUME NEW t \in Sources, NEW j \in Keys, Drops(C, D, t, j)
        PROVE  D[s][k] = C[s][k] \/ Withdrawn(s, k) \/ (s = Ctl /\ DeleteConfig(k))
    BY <1>4 DEF Drops
  <1> QED BY <1>1, <1>2, <1>3, <1>4 DEF Shape, Keeps, Registers

-----------------------------------------------------------------------------
(* The inductive invariant holds in every reachable state: the statuses of *)
(* a pull and of the file agree, and no observer runs an orphan.           *)
THEOREM Inductive == Spec => []IInv
  <1>1. Init => IInv
    BY InitBase DEF IInv, Init, NoOrphan
  <1>2. IInv /\ [Next]_vars => IInv'
    <2> SUFFICES ASSUME IInv, [Next]_vars PROVE IInv'
      OBVIOUS
    <2>1. BInv /\ BInv'
      BY NextBase DEF IInv
    <2>2. ASSUME faults' = 0 PROVE \A o \in registered', k \in Keys : NotOrphaned(Current', obs'[o][k], k)
      <3>1. faults = 0 /\ Shape(Current, Current')
        BY <2>1, <2>2, NextShape
      <3>2. \A o \in registered, k \in Keys : NotOrphaned(Current, obs[o][k], k)
        BY <3>1 DEF IInv, NoOrphan, NotOrphaned
      <3> QED BY <3>1, <3>2, ShapeServes
    <2>3. NoOrphan'
      BY <2>2 DEF NoOrphan, NotOrphaned
    <2> QED BY <2>1, <2>3 DEF IInv
  <1> QED BY <1>1, <1>2, PTL DEF Spec

(* As long as no save has failed, a registered observer runs a config for  *)
(* a key only while a status with that key and that config is active.      *)
THEOREM NoOrphanHolds == Spec => []NoOrphan
  <1>1. IInv => NoOrphan
    BY DEF IInv
  <1> QED BY <1>1, Inductive, PTL

(* No step takes an active config away from an observer unless two sources *)
(* were active for its key, and a new observer is served from the start.   *)
THEOREM ServedUnlessDoubledHolds == Spec => ServedUnlessDoubled
  <1>1. IInv /\ [Next]_vars =>
          [faults' = 0 => \A o \in registered', k \in Keys :
             (o \in registered => Served(o, k) /\ ~Doubled(k)) => Served(o, k)']_vars
    <2> SUFFICES ASSUME IInv, [Next]_vars, faults' = 0, NEW o \in registered', NEW k \in Keys,
                        o \in registered => Served(o, k) /\ ~Doubled(k)
                 PROVE  Served(o, k)'
      OBVIOUS
    <2>1. BInv /\ BInv'
      BY NextBase DEF IInv
    <2>2. Shape(Current, Current')
      BY <2>1, NextShape
    <2>3. o \in registered => ServedBy(Current, obs[o][k], k) /\ ~DoubledIn(Current, k)
      BY TwoActive DEF Served, ServedBy, Doubled, DoubledIn
    <2>4. ServedBy(Current', obs'[o][k], k)
      BY <2>2, <2>3, ShapeServes
    <2> QED BY <2>4 DEF ServedBy, Served
  <1> QED BY <1>1, Inductive, PTL DEF Spec, ServedUnlessDoubled

(* Only UpdateConfig makes a second status of a key active. *)
THEOREM OnlyUpdateDoublesHolds == Spec => OnlyUpdateDoubles
  <1>1. IInv /\ [Next]_vars =>
          [faults' = 0 => \A k \in Keys :
             Doubled(k)' => \/ Doubled(k)
                            \/ \E v \in Versions : UpdateConfig(k, v)]_vars
    <2> SUFFICES ASSUME IInv, [Next]_vars, faults' = 0, NEW k \in Keys, Doubled(k)'
                 PROVE  Doubled(k) \/ \E v \in Versions : UpdateConfig(k, v)
      OBVIOUS
    <2>1. BInv /\ BInv'
      BY NextBase DEF IInv
    <2>2. Shape(Current, Current')
      BY <2>1, NextShape
    <2>3. DoubledIn(Current', k)
      BY TwoActive DEF Doubled, DoubledIn
    <2>4. DoubledIn(Current, k) \/ \E v \in Versions : UpdateConfig(k, v)
      BY <2>2, <2>3, ShapeActivates
    <2> QED BY <2>4, TwoActive DEF Doubled, DoubledIn
  <1> QED BY <1>1, Inductive, PTL DEF Spec, OnlyUpdateDoubles

(* A config that is off stays in the statuses, and off, until it is        *)
(* enabled, updated or deleted by the API or a pull finds its source       *)
(* without it, whatever other calls, crashes and restarts do               *)
(* (controller.go, pullWatchers and DisableConfig).                        *)
THEOREM DisabledStaysHolds == Spec => DisabledStays
  <1>1. IInv /\ [Next]_vars =>
          [faults' = 0 => \A s \in Sources, k \in Keys :
             Exists(Current, s, k) /\ ~Current[s][k].active =>
                 \/ Current'[s][k].ver = Current[s][k].ver /\ ~Current'[s][k].active
                 \/ EnableConfig(k, s)
                 \/ s = Ctl /\ (DeleteConfig(k) \/ \E v \in Versions : UpdateConfig(k, v))
                 \/ Withdrawn(s, k)]_vars
    <2> SUFFICES ASSUME IInv, [Next]_vars, faults' = 0, NEW s \in Sources, NEW k \in Keys,
                        Exists(Current, s, k), ~Current[s][k].active
                 PROVE  \/ Current'[s][k].ver = Current[s][k].ver /\ ~Current'[s][k].active
                        \/ EnableConfig(k, s)
                        \/ s = Ctl /\ (DeleteConfig(k) \/ \E v \in Versions : UpdateConfig(k, v))
                        \/ Withdrawn(s, k)
      OBVIOUS
    <2>1. BInv /\ BInv'
      BY NextBase DEF IInv
    <2>2. Shape(Current, Current')
      BY <2>1, NextShape
    <2> QED BY <2>2, ShapeKeepsOff
  <1> QED BY <1>1, Inductive, PTL DEF Spec, DisabledStays
=============================================================================

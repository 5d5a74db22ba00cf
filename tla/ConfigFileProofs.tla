-------------------------- MODULE ConfigFileProofs --------------------------
(***************************************************************************)
(* Safety of the watched configuration file for any handlers, updates and  *)
(* bounds.                                                                 *)
(***************************************************************************)
EXTENDS ConfigFile, TLAPS

Contents == [base : 0 .. MaxEdits, fields : SUBSET Updates]
Files == [there : BOOLEAN, mtime : Nat, content : Contents]
PollPCs == {"off", "select", "read", "notify", "call"}
Polls == [at : PollPCs, first : BOOLEAN, exists : BOOLEAN, last : Nat, mtime : Nat,
          created : BOOLEAN, data : Contents \cup {Nothing}, notify : BOOLEAN]

(* The pieces of the state that Update and the readers of the pricing      *)
(* share. A written file always has a content.                             *)
DataOK ==
    /\ file \in Files
    /\ edits \in 1 .. MaxEdits
    /\ data \in Contents \cup {Nothing}
    /\ pricing \in Contents \cup {Nothing}
    /\ new \in Contents \cup {Nothing}
    /\ pcLock \in Updates \cup {Free}
    /\ upd \in [Updates -> {"idle", "write", "cache", "done", "failed"}]

(* The pieces of the state that the loop and the handlers share. *)
WatchOK ==
    /\ watchers \subseteq Handlers
    /\ adding \in Handlers \cup {Free}
    /\ runState \in {"idle", "running", "stopping"}
    /\ poll \in Polls

(* An Add that waits has made the handlers nonempty and has not started    *)
(* the loop yet: without this HandledIsWatched is not inductive.           *)
AddWaits == adding # Free => watchers # {} /\ runState # "running"

(* The goroutine of runWatcher is there exactly while cf.runState is not   *)
(* idle, so that a second loop is never started over a live one.           *)
LoopIsRunState == poll.at = "off" <=> runState = "idle"

(* pc.lock is held by exactly the Update that is between its load and its  *)
(* return, and until it writes, what it is about to write is what it has   *)
(* put into pc.customPricing, with its field set.                          *)
LockHeld == \A u \in Updates : upd[u] \in {"write", "cache"} <=> pcLock = u
WritesWhatItCached ==
    \A u \in Updates :
        /\ upd[u] \in {"write", "cache"} => new # Nothing /\ u \in new.fields
        /\ upd[u] \in {"write", "cache"} => pricing = new

WatchInv == WatchOK /\ HandledIsWatched /\ AddWaits /\ LoopIsRunState
UpdateInv == DataOK /\ LockHeld /\ WritesWhatItCached
IInv == WatchInv /\ UpdateInv

(* The owners of the lock, the contents and the values for "none" differ. *)
LEMMA Constants ==
    /\ Free \notin Handlers /\ Free \notin Updates
    /\ Nothing \notin Contents
    /\ Default \in Contents
    /\ Default # Nothing
    /\ Pricing \in Handlers
  BY ConfigFileAssumption DEF Free, Nothing, Default, Contents

(* A write leaves a file. *)
LEMMA FileWritten ==
  ASSUME DataOK, NEW c \in Contents
  PROVE  [there |-> TRUE, mtime |-> file.mtime + 1, content |-> c] \in Files
  BY DEF DataOK, Files

(* What loadConfig returns is a content, and what it caches is one too. *)
LEMMA LoadedType ==
  ASSUME DataOK, NEW o \in Loaded
  PROVE  /\ o.get \in Contents
         /\ o.cache \in Contents \cup {Nothing}
         /\ o.data \in Contents \cup {Nothing}
         /\ o.fault \in BOOLEAN
         /\ pricing # Nothing => o.get = pricing /\ o.cache = pricing
  <1> DEFINE bytes == IF data # Nothing THEN data ELSE file.content
  <1>1. bytes \in Contents /\ file.content \in Contents
    BY DEF DataOK, Files
  <1>2. CASE pricing # Nothing
    <2>1. o = [get |-> pricing, cache |-> pricing, data |-> data, fault |-> FALSE]
      BY <1>2 DEF Loaded
    <2> QED BY <1>2, <2>1 DEF DataOK
  <1>3. CASE pricing = Nothing
    <2>1. \/ o = [get |-> Default, cache |-> Nothing, data |-> data, fault |-> TRUE]
          \/ o = [get |-> Default, cache |-> Default, data |-> data, fault |-> FALSE]
          \/ o = [get |-> bytes, cache |-> bytes, data |-> bytes, fault |-> FALSE]
          \/ o = [get |-> Default, cache |-> Nothing, data |-> bytes, fault |-> FALSE]
      BY <1>3 DEF Loaded
    <2>2. data \in Contents \cup {Nothing}
      BY DEF DataOK
    <2> HIDE DEF bytes
    <2>3. ASSUME NEW g \in Contents, NEW c \in Contents \cup {Nothing},
                 NEW d \in Contents \cup {Nothing}, NEW f \in BOOLEAN,
                 o = [get |-> g, cache |-> c, data |-> d, fault |-> f]
          PROVE  /\ o.get \in Contents /\ o.fault \in BOOLEAN
                 /\ o.cache \in Contents \cup {Nothing} /\ o.data \in Contents \cup {Nothing}
      BY <2>3
    <2>4. /\ o.get \in Contents /\ o.fault \in BOOLEAN
          /\ o.cache \in Contents \cup {Nothing} /\ o.data \in Contents \cup {Nothing}
      <3>1. CASE o = [get |-> Default, cache |-> Nothing, data |-> data, fault |-> TRUE]
        BY <2>2, <2>3, <3>1, Constants
      <3>2. CASE o = [get |-> Default, cache |-> Default, data |-> data, fault |-> FALSE]
        BY <2>2, <2>3, <3>2, Constants
      <3>3. CASE o = [get |-> bytes, cache |-> bytes, data |-> bytes, fault |-> FALSE]
        BY <1>1, <2>3, <3>3, Constants
      <3>4. CASE o = [get |-> Default, cache |-> Nothing, data |-> bytes, fault |-> FALSE]
        BY <1>1, <2>3, <3>4, Constants
      <3> QED BY <2>1, <3>1, <3>2, <3>3, <3>4
    <2> QED BY <2>4, <1>3
  <1> QED BY <1>2, <1>3

(* The invariant holds initially. *)
LEMMA InitIInv == Init => IInv
  <1> SUFFICES ASSUME Init PROVE IInv
    OBVIOUS
  <1> USE ConfigFileAssumption, Constants DEF Init
  <1>1. WatchOK
    BY DEF WatchOK, NewLoop, PollPCs, Polls
  <1>2. HandledIsWatched /\ AddWaits /\ LoopIsRunState
    BY DEF HandledIsWatched, AddWaits, LoopIsRunState, NewLoop
  <1>3. DataOK
    BY DEF DataOK, Files, Contents
  <1>4. LockHeld /\ WritesWhatItCached
    BY DEF LockHeld, WritesWhatItCached
  <1> QED BY <1>1, <1>2, <1>3, <1>4 DEF IInv, WatchInv, UpdateInv

(* Edits by others and reads of the pricing. A read caches it under        *)
(* pc.lock, so never while an Update is between its load and its write.    *)
LEMMA OtherUpdateInv ==
  ASSUME UpdateInv, Edit \/ Remove \/ GetCustomPricingData
  PROVE  UpdateInv'
  <1> USE ConfigFileAssumption, Constants
  <1>1. CASE Edit
    BY <1>1 DEF Edit, UpdateInv, DataOK, Files, LockHeld, WritesWhatItCached, pcVars, Contents
  <1>2. CASE Remove
    <2>1. file' \in Files
      BY <1>2 DEF Remove, UpdateInv, DataOK, Files
    <2>2. edits' \in 1 .. MaxEdits
      BY <1>2 DEF Remove, UpdateInv, DataOK
    <2> QED BY <1>2, <2>1, <2>2 DEF Remove, UpdateInv, DataOK, LockHeld, WritesWhatItCached, pcVars
  <1>3. CASE GetCustomPricingData
    <2>1. PICK o \in Loaded :
             /\ pricing' = o.cache
             /\ \/ file' = [there |-> TRUE, mtime |-> file.mtime + 1, content |-> Default] /\ data' = Default
                \/ UNCHANGED <<file, data>>
                \/ data' = o.data /\ UNCHANGED file
      BY <1>3 DEF GetCustomPricingData
    <2>2. /\ o.cache \in Contents \cup {Nothing}
          /\ o.data \in Contents \cup {Nothing}
      BY LoadedType DEF UpdateInv
    <2>3. pcLock = Free /\ UNCHANGED <<edits, pcLock, upd, new>>
      BY <1>3 DEF GetCustomPricingData
    <2>4. DataOK'
      <3>1. file' \in Files
        BY <2>1, FileWritten, Zenon DEF UpdateInv, DataOK
      <3>2. data' \in Contents \cup {Nothing}
        BY <2>1, <2>2 DEF UpdateInv, DataOK
      <3> QED BY <2>1, <2>2, <2>3, <3>1, <3>2 DEF UpdateInv, DataOK
    <2>5. LockHeld' /\ WritesWhatItCached'
      BY <2>3 DEF UpdateInv, LockHeld, WritesWhatItCached
    <2> QED BY <2>4, <2>5 DEF UpdateInv
  <1> QED BY <1>1, <1>2, <1>3

(* Update keeps pc.lock from its load to the return of its write. *)
LEMMA UpdateUpdateInv ==
  ASSUME UpdateInv, NEW u \in Updates, UpdateBegins(u) \/ UpdateFails(u) \/ UpdateStep(u)
  PROVE  UpdateInv'
  <1> USE ConfigFileAssumption, Constants
  <1>1. CASE UpdateBegins(u)
    <2>1. PICK o \in Loaded :
             /\ data' = o.data
             /\ new' = [o.get EXCEPT !.fields = @ \cup {u}]
             /\ pricing' = new'
      BY <1>1 DEF UpdateBegins
    <2>2. o.get \in Contents /\ o.data \in Contents \cup {Nothing}
      BY LoadedType DEF UpdateInv
    <2>3. new' \in Contents /\ u \in new'.fields
      BY <2>1, <2>2 DEF Contents
    <2>4. /\ pcLock = Free /\ pcLock' = u
          /\ upd' = [upd EXCEPT ![u] = "write"]
          /\ UNCHANGED fileVars
      BY <1>1 DEF UpdateBegins
    <2>5. DataOK'
      BY <2>1, <2>2, <2>3, <2>4 DEF UpdateInv, DataOK, fileVars
    <2>6. LockHeld' /\ WritesWhatItCached'
      BY <2>1, <2>3, <2>4 DEF UpdateInv, DataOK, LockHeld, WritesWhatItCached
    <2> QED BY <2>5, <2>6 DEF UpdateInv
  <1>2. CASE UpdateWrites(u)
    <2>1. new \in Contents /\ pcLock = u
      BY <1>2 DEF UpdateWrites, UpdateInv, DataOK, LockHeld, WritesWhatItCached
    <2>2. DataOK'
      <3>1. file' \in Files
        BY <1>2, <2>1, FileWritten, Zenon DEF UpdateWrites, UpdateInv, DataOK
      <3>2. upd' \in [Updates -> {"idle", "write", "cache", "done", "failed"}]
        BY <1>2 DEF UpdateWrites, UpdateInv, DataOK
      <3> QED BY <1>2, <3>1, <3>2 DEF UpdateWrites, UpdateInv, DataOK
    <2>3. LockHeld' /\ WritesWhatItCached'
      BY <1>2, <2>1 DEF UpdateWrites, UpdateInv, DataOK, LockHeld, WritesWhatItCached
    <2> QED BY <2>2, <2>3 DEF UpdateInv
  <1>3. CASE UpdateReturns(u)
    <2>1. pcLock = u
      BY <1>3 DEF UpdateReturns, UpdateInv, LockHeld
    <2>2. DataOK'
      BY <1>3 DEF UpdateReturns, UpdateInv, DataOK, fileVars
    <2>3. LockHeld' /\ WritesWhatItCached'
      BY <1>3, <2>1 DEF UpdateReturns, UpdateInv, DataOK, LockHeld, WritesWhatItCached
    <2> QED BY <2>2, <2>3 DEF UpdateInv
  <1>4. CASE UpdateFails(u)
    <2>1. PICK o \in Loaded :
             /\ data' = o.data
             /\ \/ pricing' = o.cache
                \/ o.cache # Nothing /\ pricing' = [o.cache EXCEPT !.fields = @ \cup {u}]
      BY <1>4 DEF UpdateFails
    <2>2. o.cache \in Contents \cup {Nothing} /\ o.data \in Contents \cup {Nothing}
      BY LoadedType DEF UpdateInv
    <2>3. pricing' \in Contents \cup {Nothing}
      BY <2>1, <2>2 DEF Contents
    <2>4. /\ pcLock = Free /\ upd[u] = "idle"
          /\ upd' = [upd EXCEPT ![u] = "failed"]
          /\ UNCHANGED <<fileVars, pcLock, new>>
      BY <1>4 DEF UpdateFails
    <2>5. DataOK'
      BY <2>1, <2>2, <2>3, <2>4 DEF UpdateInv, DataOK, fileVars
    <2>6. LockHeld' /\ WritesWhatItCached'
      BY <2>4 DEF UpdateInv, DataOK, LockHeld, WritesWhatItCached
    <2> QED BY <2>5, <2>6 DEF UpdateInv
  <1> QED BY <1>1, <1>2, <1>3, <1>4 DEF UpdateStep

(* The loop replaces the pricing only with pc.lock in hand. *)
LEMMA PollUpdateInv ==
  ASSUME UpdateInv, WatchOK, PollStep
  PROVE  UpdateInv'
  <1> USE ConfigFileAssumption, Constants
  <1>1. CASE PollStat
    BY <1>1 DEF PollStat, UpdateInv, DataOK, LockHeld, WritesWhatItCached, fileVars, pcVars
  <1>2. CASE PollRead
    BY <1>2 DEF PollRead, UpdateInv, DataOK, Files, LockHeld, WritesWhatItCached, fileVars, pcVars
  <1>3. CASE PollCopies
    BY <1>3 DEF PollCopies, UpdateInv, DataOK, LockHeld, WritesWhatItCached, fileVars, pcVars
  <1>4. CASE PollCalls
    <2>1. UNCHANGED <<fileVars, data, pcLock, upd, new>>
      BY <1>4 DEF PollCalls
    <2>2. pricing' = pricing \/ (pcLock = Free /\ pricing' \in Contents)
      <3>1. Decoded(poll.data) \in Contents \/ poll.data = Nothing
        BY DEF WatchOK, Polls, Decoded
      <3> QED BY <1>4, <3>1 DEF PollCalls
    <2>3. DataOK'
      BY <2>1, <2>2 DEF UpdateInv, DataOK, fileVars
    <2>4. LockHeld' /\ WritesWhatItCached'
      BY <2>1, <2>2 DEF UpdateInv, LockHeld, WritesWhatItCached
    <2> QED BY <2>3, <2>4 DEF UpdateInv
  <1> QED BY <1>1, <1>2, <1>3, <1>4 DEF PollStep

(* The iterations of the loop leave its run state and the handlers alone. *)
LEMMA PollWatchInv ==
  ASSUME WatchInv, DataOK, PollStep
  PROVE  WatchInv'
  <1> USE ConfigFileAssumption, Constants
  <1>1. UNCHANGED watchVars /\ poll.at # "off"
    BY DEF PollStep, PollStat, PollRead, PollCopies, PollCalls
  <1>2. WatchOK' /\ poll'.at # "off"
    <2> USE DEF WatchInv, WatchOK, PollPCs, Polls, DataOK, Files
    <2>1. CASE PollStat
      <3>1. CASE Baseline
        BY <3>1, <1>1, <2>1 DEF Baseline, watchVars, PollStat
      <3>2. CASE Deleted
        BY <3>2, <1>1, <2>1 DEF Deleted, watchVars, PollStat
      <3>3. CASE Changed
        BY <3>3, <1>1, <2>1 DEF Changed, watchVars, PollStat
      <3> QED BY <2>1, <3>1, <3>2, <3>3 DEF PollStat
    <2>2. CASE PollRead
      <3>1. \/ poll' = [poll EXCEPT !.at = "select"]
            \/ \E t \in Nat : poll' = [poll EXCEPT !.at = "notify", !.data = file.content,
                                                  !.exists = TRUE, !.last = t]
        BY <2>2 DEF PollRead
      <3>2. file.content \in Contents \cup {Nothing}
        BY DEF Files
      <3>3. poll' \in Polls /\ poll'.at # "off"
        <4>1. CASE poll' = [poll EXCEPT !.at = "select"]
          BY <4>1
        <4>2. ASSUME NEW t \in Nat,
                     poll' = [poll EXCEPT !.at = "notify", !.data = file.content, !.exists = TRUE, !.last = t]
              PROVE  poll' \in Polls /\ poll'.at # "off"
          BY <3>2, <4>2
        <4> QED BY <3>1, <4>1, <4>2
      <3> QED BY <1>1, <3>3 DEF watchVars
    <2>3. CASE PollCopies
      <3> DEFINE n == Pricing \in watchers
      <3>1. n \in BOOLEAN /\ poll' = [poll EXCEPT !.at = "call", !.notify = n]
        BY <2>3 DEF PollCopies
      <3> HIDE DEF n
      <3> QED BY <1>1, <3>1 DEF watchVars
    <2>4. CASE PollCalls
      BY <1>1, <2>4 DEF PollCalls, watchVars
    <2> QED BY <2>1, <2>2, <2>3, <2>4 DEF PollStep
  <1> QED BY <1>1, <1>2 DEF WatchInv, HandledIsWatched, AddWaits, LoopIsRunState, watchVars

(* Handlers come and go, and the loop with them. *)
LEMMA HandlerWatchInv ==
  ASSUME WatchInv,
         \/ PollStops \/ RunWatcher \/ RemoveAllHandlers
         \/ \E h \in Handlers : AddChangeHandler(h) \/ RemoveChangeHandler(h)
  PROVE  WatchInv'
  <1> USE ConfigFileAssumption, Constants DEF WatchInv, WatchOK, HandledIsWatched, AddWaits, LoopIsRunState
  <1>1. CASE PollStops
    BY <1>1 DEF PollStops, NoLoop, NewLoop, PollPCs, Polls
  <1>2. CASE RunWatcher
    BY <1>2 DEF RunWatcher, NewLoop, PollPCs, Polls
  <1>3. CASE RemoveAllHandlers
    BY <1>3 DEF RemoveAllHandlers
  <1>4. ASSUME NEW h \in Handlers, AddChangeHandler(h) PROVE WatchInv'
    BY <1>4 DEF AddChangeHandler
  <1>5. ASSUME NEW h \in Handlers, RemoveChangeHandler(h) PROVE WatchInv'
    BY <1>5 DEF RemoveChangeHandler
  <1> QED BY <1>1, <1>2, <1>3, <1>4, <1>5

(* Every step keeps both parts of the invariant. *)
LEMMA NextIInv == IInv /\ [Next]_vars => IInv'
  <1> SUFFICES ASSUME IInv, [Next]_vars PROVE IInv'
    OBVIOUS
  <1> USE DEF IInv
  <1>1. CASE Edit \/ Remove \/ GetCustomPricingData
    <2>1. WatchInv'
      BY <1>1 DEF Edit, Remove, GetCustomPricingData, watchVars, WatchInv, WatchOK,
                  HandledIsWatched, AddWaits, LoopIsRunState
    <2> QED BY <1>1, <2>1, OtherUpdateInv
  <1>2. CASE PollStep
    BY <1>2, PollUpdateInv, PollWatchInv DEF WatchInv, UpdateInv
  <1>3. CASE \/ PollStops \/ RunWatcher \/ RemoveAllHandlers
             \/ \E h \in Handlers : AddChangeHandler(h) \/ RemoveChangeHandler(h)
    <2>1. UpdateInv'
      BY <1>3 DEF PollStops, RunWatcher, RemoveAllHandlers, AddChangeHandler, RemoveChangeHandler,
                  fileVars, pcVars, UpdateInv, DataOK, LockHeld, WritesWhatItCached
    <2> QED BY <1>3, <2>1, HandlerWatchInv
  <1>4. ASSUME NEW u \in Updates, UpdateBegins(u) \/ UpdateFails(u) \/ UpdateStep(u) PROVE IInv'
    <2>1. WatchInv'
      BY <1>4 DEF UpdateBegins, UpdateFails, UpdateStep, UpdateWrites, UpdateReturns, watchVars, WatchInv, WatchOK,
                  HandledIsWatched, AddWaits, LoopIsRunState
    <2> QED BY <1>4, <2>1, UpdateUpdateInv
  <1>5. CASE UNCHANGED vars
    BY <1>5 DEF vars, fileVars, pcVars, watchVars, WatchInv, WatchOK, HandledIsWatched, AddWaits,
                LoopIsRunState, UpdateInv, DataOK, LockHeld, WritesWhatItCached
  <1> QED BY <1>1, <1>2, <1>3, <1>4, <1>5 DEF Next

(* The conjunction is an invariant of every behaviour, fair or not. *)
THEOREM Inductive == Spec => []IInv
  BY InitIInv, NextIInv, PTL DEF Spec

(* The types hold for any handlers, updates and bounds: in particular no   *)
(* Update ever writes the nil pricing over the file.                       *)
THEOREM TypeOKHolds == Spec => []TypeOK
  <1>1. IInv => TypeOK
    BY DEF IInv, WatchInv, UpdateInv, DataOK, Files, WatchOK, TypeOK, Contents, PollPCs, Polls
  <1> QED BY Inductive, <1>1, PTL

(* The file is watched exactly while it has a change handler, however      *)
(* handlers come and go while the loop is starting or stopping.            *)
THEOREM HandledIsWatchedHolds == Spec => []HandledIsWatched
  <1>1. IInv => HandledIsWatched
    BY DEF IInv, WatchInv
  <1> QED BY Inductive, <1>1, PTL

(* "Watched" means that the goroutine is there: runWatcher never starts a  *)
(* loop next to a live one and a running state never lacks its loop.       *)
THEOREM LoopIsRunStateHolds == Spec => []LoopIsRunState
  <1>1. IInv => LoopIsRunState
    BY DEF IInv, WatchInv
  <1> QED BY Inductive, <1>1, PTL

(* Between the load and the return of an Update, neither the change        *)
(* handler nor a reader nor another Update replaces the pricing that it    *)
(* has set and is writing.                                                 *)
THEOREM WritesWhatItCachedHolds == Spec => []WritesWhatItCached
  <1>1. IInv => WritesWhatItCached
    BY DEF IInv, UpdateInv
  <1> QED BY Inductive, <1>1, PTL
=============================================================================

-------------------------- MODULE ConfigController --------------------------
(***************************************************************************)
(* The cloud integration config controller (pkg/cloud/config/controller.go *)
(* and statuses.go). It keeps one status per (source, key) in a state      *)
(* file, pulls the configs of its watchers every ten seconds, serves the   *)
(* enable/disable/create/update/delete API, and tells its observers (the   *)
(* cloud cost IngestionManager) which config to run for which key.         *)
(*                                                                         *)
(* Every API call and every pull holds c.lock to its end and waits for its *)
(* broadcasts, so an API call is one step. A pull saves the file several   *)
(* times and is modelled save by save: the process may crash, and the      *)
(* watched files may change, in between. Up to MaxFaults times a save      *)
(* fails, leaving the old file or a truncated one (os.WriteFile truncates  *)
(* before it writes), or a crash tears the file.                           *)
(***************************************************************************)
EXTENDS Naturals, FiniteSets

CONSTANTS
    Keys,             \* integration keys
    Versions,         \* contents a config of a given key may have
    InvalidVersions,  \* the ones that fail Validate
    UnknownVersions,  \* the ones ConfigTypeFromConfig does not recognise
    Watched,          \* sources with a watcher, a subset of WatcherSources
    Observers,
    MaxFaults,        \* bound: failed saves and crashes that tear the file
    MaxChanges,       \* bound: changes of the watched files
    MaxCrashes        \* bound: crashes of the process

Ctl == "configController"
WatcherSources == {"multicloud", "configfile", "helm"}
Sources == Watched \cup {Ctl}

(* Helm and the config file share the one set of non-multi-cloud settings. *)
NonMulti == {"configfile", "helm"}

NoConf == "none"

ASSUME ControllerAssumption ==
    /\ NoConf \notin Versions
    /\ InvalidVersions \subseteq Versions
    /\ UnknownVersions \subseteq Versions
    /\ Watched \subseteq WatcherSources
    /\ MaxFaults \in Nat
    /\ MaxChanges \in Nat
    /\ MaxCrashes \in Nat

VARIABLES
    watch,       \* watch[s][k]: what the watcher of source s finds for key k
    changes,     \* number of changes of the watched files so far
    file,        \* the statuses in the state file
    readable,    \* the state file exists and parses
    faults,      \* number of storage faults so far
    up,          \* the process is running
    crashes,     \* number of crashes so far
    registered,  \* observers registered with the controller
    obs,         \* obs[o][k]: the config observer o runs for key k
    phase,       \* where pullWatchers is; "idle" when it is not running
    mem,         \* the pull's in-memory statuses
    left,        \* sources the pull has still to visit
    src,         \* the source being pulled
    confs,       \* the configs its watcher returned
    todo,        \* keys of confs still to be handled
    cur          \* the key being inserted

pullVars == <<phase, mem, left, src, confs, todo, cur>>
storage == <<file, readable, faults>>
vars == <<watch, changes, storage, up, crashes, registered, obs, pullVars>>

Conf == Versions \cup {NoConf}
Status == [active : BOOLEAN, valid : BOOLEAN, ver : Conf]
Statuses == [Sources -> [Keys -> Status]]
Absent == [active |-> FALSE, valid |-> FALSE, ver |-> NoConf]
EmptyStatuses == [s \in Sources |-> [k \in Keys |-> Absent]]
NoConfs == [k \in Keys |-> NoConf]
Phases == {"idle", "source", "delete", "keys", "insert"}

TypeOK ==
    /\ watch \in [Watched -> [Keys -> Conf]]
    /\ changes \in 0 .. MaxChanges
    /\ file \in Statuses
    /\ readable \in BOOLEAN
    /\ faults \in 0 .. MaxFaults
    /\ up \in BOOLEAN
    /\ crashes \in 0 .. MaxCrashes
    /\ registered \subseteq Observers
    /\ obs \in [Observers -> [Keys -> Conf]]
    /\ phase \in Phases
    /\ mem \in Statuses
    /\ left \subseteq Watched
    /\ src \in Sources
    /\ confs \in [Keys -> Conf]
    /\ todo \subseteq Keys
    /\ cur \in Keys \cup {NoConf}

(* The file of a fresh installation does not exist. *)
Init ==
    /\ watch = [s \in Watched |-> NoConfs]
    /\ changes = 0
    /\ file = EmptyStatuses
    /\ readable = FALSE
    /\ faults = 0
    /\ up = FALSE
    /\ crashes = 0
    /\ registered = {}
    /\ obs = [o \in Observers |-> NoConfs]
    /\ phase = "idle"
    /\ mem = EmptyStatuses
    /\ left = {}
    /\ src = Ctl
    /\ confs = NoConfs
    /\ todo = {}
    /\ cur = NoConf

-----------------------------------------------------------------------------
(* Statuses, storage and broadcasts *)

Exists(st, s, k) == st[s][k].ver # NoConf
IsValid(v) == v \notin InvalidVersions
IsKnown(v) == v \notin UnknownVersions

(* statuses.Insert of a config that has just been given *)
Inserted(st, s, k, v) ==
    [st EXCEPT ![s][k] = [active |-> IsValid(v), valid |-> IsValid(v), ver |-> v]]

(* Mutant of Disabled: other sources keep their status. *)
DisabledNone(st, k, s) == st

(* Active = false for every status with the key but the one of source s *)
Disabled(st, k, s) ==
    [t \in Sources |-> IF t = s THEN st[t] ELSE [st[t] EXCEPT ![k].active = FALSE]]

(* storage.save *)
Save(st) ==
    \/ file' = st /\ readable' = TRUE /\ UNCHANGED faults
    \/ /\ faults < MaxFaults
       /\ faults' = faults + 1
       /\ readable' \in {FALSE, readable}
       /\ UNCHANGED file

(* broadcastRemoveConfig for a set of keys, then broadcastAddConfig *)
Broadcast(gone, ks, v) ==
    obs' = [o \in Observers |->
              [k \in Keys |->
                 IF o \notin registered \/ k \notin gone \cup ks THEN obs[o][k]
                 ELSE IF k \in ks THEN v ELSE NoConf]]

(* Mutant of ActiveKey: an inactive status is broadcast as well. *)
ActiveKeyAlways(st, s, k) == {k}

(* deleteConfig: the observers are told only if the status was active *)
ActiveKey(st, s, k) == IF st[s][k].active THEN {k} ELSE {}
Removed(st, s, k) == [st EXCEPT ![s][k] = Absent]

-----------------------------------------------------------------------------
(* The API; a call whose precondition fails returns an error and changes   *)
(* nothing.                                                                *)

Serving == up /\ phase = "idle"

CreateConfig(k, v) ==
    /\ Serving
    /\ readable
    /\ IsValid(v)
    /\ IsKnown(v)
    /\ ~Exists(file, Ctl, k)
    /\ Broadcast({}, {k}, v)
    /\ Save(Disabled(Inserted(file, Ctl, k, v), k, Ctl))
    /\ UNCHANGED <<watch, changes, crashes, up, registered, pullVars>>

(* Only the controller's own status is disabled and replaced; an active    *)
(* status of another source with the same key is left as it is.            *)
UpdateConfig(k, v) ==
    /\ Serving
    /\ readable
    /\ IsValid(v)
    /\ IsKnown(v)
    /\ Exists(file, Ctl, k)
    /\ Broadcast({}, {k}, v)
    /\ Save(Inserted(file, Ctl, k, v))
    /\ UNCHANGED <<watch, changes, crashes, up, registered, pullVars>>

EnableConfig(k, s) ==
    /\ Serving
    /\ readable
    /\ Exists(file, s, k)
    /\ ~file[s][k].active
    /\ Broadcast({}, {k}, file[s][k].ver)
    /\ Save([Disabled(file, k, s) EXCEPT ![s][k].active = TRUE])
    /\ UNCHANGED <<watch, changes, crashes, up, registered, pullVars>>

(* Mutant of DisableConfig: the observers are not told. *)
DisableConfigSilently(k, s) ==
    /\ Serving
    /\ readable
    /\ Exists(file, s, k)
    /\ file[s][k].active
    /\ Save([file EXCEPT ![s][k].active = FALSE])
    /\ UNCHANGED <<watch, changes, crashes, up, registered, obs, pullVars>>

DisableConfig(k, s) ==
    /\ Serving
    /\ readable
    /\ Exists(file, s, k)
    /\ file[s][k].active
    /\ Broadcast({k}, {}, NoConf)
    /\ Save([file EXCEPT ![s][k].active = FALSE])
    /\ UNCHANGED <<watch, changes, crashes, up, registered, pullVars>>

DeleteConfig(k) ==
    /\ Serving
    /\ readable
    /\ Exists(file, Ctl, k)
    /\ Broadcast(ActiveKey(file, Ctl, k), {}, NoConf)
    /\ Save(Removed(file, Ctl, k))
    /\ UNCHANGED <<watch, changes, crashes, up, registered, pullVars>>

(* getActiveConfigs: one config per key that has an active status; when    *)
(* several sources are active the map's iteration order decides. A file    *)
(* that cannot be read yields nothing.                                     *)
ActiveVersions(st, k) == {st[s][k].ver : s \in {t \in Sources : st[t][k].active}}

RegisterObserver(o) ==
    /\ Serving
    /\ o \notin registered
    /\ registered' = registered \cup {o}
    /\ \E m \in [Keys -> Conf] :
         /\ \A k \in Keys :
              IF readable /\ ActiveVersions(file, k) # {}
              THEN m[k] \in ActiveVersions(file, k)
              ELSE m[k] = NoConf
         /\ obs' = [obs EXCEPT ![o] = m]
    /\ UNCHANGED <<watch, changes, crashes, storage, up, pullVars>>

-----------------------------------------------------------------------------
(* pullWatchers *)

(* storage.load; on an error the pull goes on with empty statuses and      *)
(* tries to write them out.                                                *)
BeginPull ==
    /\ phase' = "source"
    /\ left' = Watched
    /\ IF readable THEN mem' = file /\ UNCHANGED storage
                   ELSE mem' = EmptyStatuses /\ Save(EmptyStatuses)
    /\ UNCHANGED <<watch, changes, crashes, registered, obs, src, confs, todo, cur>>

(* NewController: the first pull precedes everything else. *)
StartProcess == ~up /\ up' = TRUE /\ BeginPull

Tick == Serving /\ BeginPull /\ UNCHANGED up

(* for source, watcher := range c.watchers: the map order is arbitrary *)
PullSource(s) ==
    /\ phase = "source"
    /\ s \in left
    /\ left' = left \ {s}
    /\ src' = s
    /\ confs' = watch[s]
    /\ phase' = "delete"
    /\ UNCHANGED <<watch, changes, crashes, storage, up, registered, obs, mem, todo, cur>>

(* Mutant of Stale: nothing is ever removed. *)
StaleNever(k) == FALSE

Stale(k) == Exists(mem, src, k) /\ confs[k] = NoConf

(* remove existing configs that are no longer present in the source *)
PullDelete(k) ==
    /\ phase = "delete"
    /\ Stale(k)
    /\ mem' = Removed(mem, src, k)
    /\ Broadcast(ActiveKey(mem, src, k), {}, NoConf)
    /\ Save(mem')
    /\ UNCHANGED <<watch, changes, crashes, up, registered, phase, left, src, confs, todo, cur>>

PullDeleted ==
    /\ phase = "delete"
    /\ \A k \in Keys : ~Stale(k)
    /\ phase' = "keys"
    /\ todo' = {k \in Keys : confs[k] # NoConf}
    /\ UNCHANGED <<watch, changes, crashes, storage, up, registered, obs, mem, left, src, confs, cur>>

(* Mutant of PullUnchanged: a config that is still there is made active. *)
PullUnchangedReactivates(k) ==
    /\ phase = "keys"
    /\ k \in todo
    /\ mem[src][k].ver = confs[k]
    /\ todo' = todo \ {k}
    /\ mem' = Inserted(mem, src, k, confs[k])
    /\ UNCHANGED <<watch, changes, crashes, storage, up, registered, obs, phase, left, src, confs, cur>>

(* if config has not changed continue *)
PullUnchanged(k) ==
    /\ phase = "keys"
    /\ k \in todo
    /\ mem[src][k].ver = confs[k]
    /\ todo' = todo \ {k}
    /\ UNCHANGED <<watch, changes, crashes, storage, up, registered, obs, phase, mem, left, src, confs, cur>>

(* A new config, or a changed one whose old status is deleted (and saved). *)
PullChanged(k) ==
    /\ phase = "keys"
    /\ k \in todo
    /\ mem[src][k].ver # confs[k]
    /\ cur' = k
    /\ phase' = "insert"
    /\ IF Exists(mem, src, k)
       THEN /\ mem' = Removed(mem, src, k)
            /\ Broadcast(ActiveKey(mem, src, k), {}, NoConf)
            /\ Save(mem')
       ELSE UNCHANGED <<storage, obs, mem>>
    /\ UNCHANGED <<watch, changes, crashes, up, registered, left, src, confs, todo>>

(* A valid new config of source src displaces the active ones with its key *)
(* and, between helm and config file, all active ones.                     *)
Displaces(t, k) ==
    /\ mem[t][k].active
    /\ k = cur \/ (src \in NonMulti /\ t \in NonMulti)

PullInsert ==
    LET v == confs[cur]
        hit == {p \in Sources \X Keys : IsValid(v) /\ Displaces(p[1], p[2])}
        cleared == [t \in Sources |-> [k \in Keys |->
                      IF <<t, k>> \in hit THEN [mem[t][k] EXCEPT !.active = FALSE] ELSE mem[t][k]]]
    IN
    /\ phase = "insert"
    /\ phase' = "keys"
    /\ todo' = todo \ {cur}
    /\ IF IsKnown(v)
       THEN /\ mem' = Inserted(cleared, src, cur, v)
            /\ Broadcast({p[2] : p \in hit}, IF IsValid(v) THEN {cur} ELSE {}, v)
            /\ Save(mem')
       ELSE UNCHANGED <<storage, obs, mem>>
    /\ UNCHANGED <<watch, changes, crashes, up, registered, left, src, confs, cur>>

PullSourceDone ==
    /\ phase = "keys"
    /\ todo = {}
    /\ phase' = "source"
    /\ UNCHANGED <<watch, changes, crashes, storage, up, registered, obs, mem, left, src, confs, todo, cur>>

(* The local variables of a pull that is over. *)
PullReturns ==
    /\ phase' = "idle"
    /\ mem' = EmptyStatuses
    /\ left' = {}
    /\ src' = Ctl
    /\ confs' = NoConfs
    /\ todo' = {}
    /\ cur' = NoConf

EndPull ==
    /\ phase = "source"
    /\ left = {}
    /\ PullReturns
    /\ UNCHANGED <<watch, changes, crashes, storage, up, registered, obs>>

-----------------------------------------------------------------------------
(* Environment *)

(* The helm and config file watchers return at most one config. A watcher  *)
(* that fails to read its file returns none.                               *)
WatcherMay(s, m) == s \in NonMulti => Cardinality({k \in Keys : m[k] # NoConf}) <= 1

WatchedFileChanges(s) ==
    /\ changes < MaxChanges
    /\ changes' = changes + 1
    /\ \E m \in [Keys -> Conf] : WatcherMay(s, m) /\ watch' = [watch EXCEPT ![s] = m]
    /\ UNCHANGED <<storage, up, crashes, registered, obs, pullVars>>

(* The process dies: the observers and a pull in progress die with it. *)
Crash ==
    /\ up
    /\ crashes < MaxCrashes
    /\ crashes' = crashes + 1
    /\ up' = FALSE
    /\ registered' = {}
    /\ obs' = [o \in Observers |-> NoConfs]
    /\ PullReturns
    /\ \/ UNCHANGED <<readable, faults>>
       \/ faults < MaxFaults /\ faults' = faults + 1 /\ readable' = FALSE
    /\ UNCHANGED <<watch, changes, file>>

Api ==
    \/ \E k \in Keys, v \in Versions : CreateConfig(k, v) \/ UpdateConfig(k, v)
    \/ \E k \in Keys, s \in Sources : EnableConfig(k, s) \/ DisableConfig(k, s)
    \/ \E k \in Keys : DeleteConfig(k)
    \/ \E o \in Observers : RegisterObserver(o)

PullStep ==
    \/ \E s \in Watched : PullSource(s)
    \/ \E k \in Keys : PullDelete(k) \/ PullUnchanged(k) \/ PullChanged(k)
    \/ PullDeleted \/ PullInsert \/ PullSourceDone \/ EndPull

Next ==
    \/ Api
    \/ StartProcess
    \/ Tick
    \/ PullStep
    \/ \E s \in Watched : WatchedFileChanges(s)
    \/ Crash

Spec == Init /\ [][Next]_vars

(* The ticker fires every ten seconds and a pull runs to its end; a        *)
(* crashed process is restarted by Kubernetes.                             *)
FairSpec == Spec /\ WF_vars(StartProcess) /\ WF_vars(PullStep) /\ SF_vars(Tick)

-----------------------------------------------------------------------------
(* The statuses an observer can hold the controller to: during a pull the  *)
(* ones in memory, otherwise the ones in the file, if it can be read.      *)
Current == IF phase # "idle" THEN mem ELSE IF readable THEN file ELSE EmptyStatuses

(* No orphan: an observer runs a config for a key only while some status   *)
(* of that key with that very config is active. Disabling, deleting,       *)
(* replacing or displacing a config always reaches the observers, as long  *)
(* as no save has failed: a call broadcasts before it saves.               *)
NoOrphan ==
    faults = 0 => \A o \in registered, k \in Keys :
        obs[o][k] # NoConf => obs[o][k] \in ActiveVersions(Current, k)

(* "Access to the up-to-date list of active configs": every key with an    *)
(* active status is run by every registered observer.                      *)
Served(o, k) ==
    ActiveVersions(Current, k) # {} => obs[o][k] \in ActiveVersions(Current, k)
ActiveServed == \A o \in registered, k \in Keys : Served(o, k)

(* What holds of it although removals are broadcast by key alone: no step  *)
(* takes an active config away from an observer, unless two sources were   *)
(* active for its key or a save has failed; and a new observer is served   *)
(* from the start.                                                         *)
Doubled(k) == Cardinality({s \in Sources : Current[s][k].active}) > 1
ServedUnlessDoubled ==
    [][faults' = 0 => \A o \in registered', k \in Keys :
         (o \in registered => Served(o, k) /\ ~Doubled(k)) => Served(o, k)']_vars

(* Only UpdateConfig can make a second status of a key active (as long as  *)
(* storage keeps what is saved).                                           *)
OnlyUpdateDoubles ==
    [][faults' = 0 => \A k \in Keys :
         Doubled(k)' => \/ Doubled(k)
                        \/ \E v \in Versions : UpdateConfig(k, v)]_vars

(* The pull found that source s no longer has the config of k it had. *)
Withdrawn(s, k) == phase \in {"delete", "keys"} /\ s = src /\ confs[k] # Current[s][k].ver

(* A config that is switched off stays in the statuses and stays off for   *)
(* as long as its source offers it: across pulls, crashes, the next        *)
(* process and changes of other configs, only EnableConfig, UpdateConfig   *)
(* or DeleteConfig of that very config, or a pull that finds it gone or    *)
(* changed, ends it. (That pull forgets that it was off, so a config that  *)
(* was gone for one pull, by a read error too, comes back active.) It is   *)
(* said of the time before a fault of the storage.                         *)
DisabledStays ==
    [][faults' = 0 => \A s \in Sources, k \in Keys :
         Exists(Current, s, k) /\ ~Current[s][k].active =>
             \/ Current'[s][k].ver = Current[s][k].ver /\ ~Current'[s][k].active
             \/ EnableConfig(k, s)
             \/ s = Ctl /\ (DeleteConfig(k) \/ \E v \in Versions : UpdateConfig(k, v))
             \/ Withdrawn(s, k)]_vars

(* Once the watched files stop changing and the storage faults are over,   *)
(* the statuses of every watched source become and stay exactly the        *)
(* recognised configs of that source, in spite of crashes, API calls and   *)
(* whatever the faults did to the file.                                    *)
Expected(s, k) == IF watch[s][k] \in UnknownVersions THEN NoConf ELSE watch[s][k]
WatchersConverge ==
    <>[](changes = MaxChanges /\ faults = MaxFaults =>
            \A s \in Watched, k \in Keys : Current[s][k].ver = Expected(s, k))
=============================================================================

----------------------------- MODULE ConfigFile -----------------------------
(***************************************************************************)
(* A watched configuration file (pkg/config/configfile.go) and the custom  *)
(* pricing that a cloud provider keeps in it                               *)
(* (pkg/cloud/provider/providerconfig.go). The file can be edited, deleted *)
(* and created by others; ConfigFile caches its bytes and polls its        *)
(* modification time, and ProviderConfig caches the decoded pricing, which *)
(* its change handler replaces and its Update changes and writes back.     *)
(*                                                                         *)
(* A content is what distinguishes one version from another: the edit that *)
(* it began as (0 is DefaultPricing) and the fields that Updates have set  *)
(* since. The run state of the polling loop is the one of RunState, with   *)
(* its three states only. No two modifications have the same time.         *)
(***************************************************************************)
EXTENDS Naturals, FiniteSets

CONSTANTS
    Updates,    \* calls of Update, each setting a field of its own
    Handlers,   \* change handlers; Pricing is the one of ProviderConfig
    Pricing,
    Bad,        \* edits that leave a file that cannot be decoded
    MaxEdits,   \* bound: edits of the file by others
    MaxRemoves, \* bound: handlers removed
    MaxFaults   \* bound: calls that fail

ASSUME ConfigFileAssumption ==
    /\ Pricing \in Handlers
    /\ Bad \subseteq 1 .. MaxEdits
    /\ "free" \notin Handlers \cup Updates /\ "nothing" \notin Updates
    /\ MaxEdits \in Nat \ {0} /\ {MaxRemoves, MaxFaults} \subseteq Nat

VARIABLES
    file,     \* on storage: whether it is there, its modification time, its content
    data,     \* cf.data
    pricing,  \* pc.customPricing
    pcLock,   \* pc.lock: the Update that holds it, or Free
    upd,      \* upd[u]: where Update u is
    new,      \* the content it is about to write
    watchers, \* cf.watchers
    adding,   \* a handler whose Add holds watchLock and waits for the reset, or Free
    runState, \* cf.runState
    poll,     \* the polling loop: where it is, and its variables
    edits, removes, faults,
    missed    \* history: bytes, pricing: behind the file without the loop knowing

fileVars == <<file, edits>>
pcVars == <<pricing, pcLock, upd, new>>
watchVars == <<watchers, adding, runState, removes>>
vars == <<fileVars, data, pcVars, watchVars, poll, faults, missed>>

Free == "free"
Nothing == [base |-> 0, fields |-> {"nothing"}]    \* nil
Default == [base |-> 0, fields |-> {}]             \* DefaultPricing()

NewLoop == [at |-> "select", first |-> TRUE, exists |-> FALSE, last |-> 0,
            mtime |-> 0, created |-> FALSE, data |-> Nothing, notify |-> FALSE]
NoLoop == [NewLoop EXCEPT !.at = "off"]

Fault == faults < MaxFaults /\ faults' = faults + 1

(* NewProviderConfig has added its handler. The file may be there. *)
Init ==
    /\ file \in [there : BOOLEAN, mtime : {1}, content : {[base |-> 1, fields |-> {}]}]
    /\ data = Nothing
    /\ pricing = Nothing
    /\ pcLock = Free
    /\ upd = [u \in Updates |-> "idle"]
    /\ new = Nothing
    /\ watchers = {Pricing}
    /\ adding = Free
    /\ runState = "running"
    /\ poll = NewLoop
    /\ edits = 1
    /\ removes = 0
    /\ faults = 0
    /\ missed = {}

-----------------------------------------------------------------------------
(* Another process or a user writes a new version of the file, or deletes it. *)
Edit ==
    /\ edits < MaxEdits
    /\ edits' = edits + 1
    /\ file' = [there |-> TRUE, mtime |-> file.mtime + 1,
                content |-> [base |-> edits + 1, fields |-> {}]]
    /\ UNCHANGED <<data, pcVars, watchVars, poll, faults, missed>>

Remove ==
    /\ file.there
    /\ edits < MaxEdits
    /\ edits' = edits + 1
    /\ file' = [file EXCEPT !.there = FALSE]
    /\ UNCHANGED <<data, pcVars, watchVars, poll, faults, missed>>

-----------------------------------------------------------------------------
(* json.Unmarshal and updateDefaultsOnEmpty. *)
Decodes(c) == c.base \notin Bad
Decoded(c) == IF Decodes(c) THEN c ELSE Default

(* loadConfig: the cached pricing, or the decoded file, or DefaultPricing. *)
(* The outcomes are [get: the pricing returned, cache: pc.customPricing    *)
(* after it, data: cf.data after it, fault: whether storage failed].       *)
Loaded ==
    LET bytes == IF data # Nothing THEN data ELSE file.content
        outcome(g, c, d, f) == [get |-> g, cache |-> c, data |-> d, fault |-> f]
    IN  IF pricing # Nothing THEN {outcome(pricing, pricing, data, FALSE)}
        ELSE {outcome(Default, Nothing, data, TRUE)} \cup
             IF ~file.there THEN {outcome(Default, Default, data, FALSE)}
             ELSE IF Decodes(bytes) THEN {outcome(bytes, bytes, bytes, FALSE)}
             ELSE {outcome(Default, Nothing, bytes, FALSE)}

(* GetCustomPricingData when nothing is cached: loadConfig(true), which    *)
(* writes the default if there is no file.                                 *)
GetCustomPricingData ==
    /\ pricing = Nothing
    /\ pcLock = Free
    /\ \E o \in Loaded :
          /\ pricing' = o.cache
          /\ \/ /\ o.cache = Default /\ ~file.there
                /\ file' = [there |-> TRUE, mtime |-> file.mtime + 1, content |-> Default]
                /\ data' = Default
                /\ UNCHANGED faults
             \/ /\ o.cache = Default /\ ~file.there
                /\ Fault
                /\ UNCHANGED <<file, data>>
             \/ /\ file.there \/ o.fault
                /\ IF o.fault THEN Fault ELSE UNCHANGED faults
                /\ data' = o.data
                /\ UNCHANGED file
    /\ UNCHANGED <<edits, pcLock, upd, new, watchVars, poll, missed>>

(* Update: load the pricing (errors are ignored), set the field ... *)
UpdateBegins(u) ==
    /\ upd[u] = "idle"
    /\ pcLock = Free
    /\ pcLock' = u
    /\ upd' = [upd EXCEPT ![u] = "write"]
    /\ \E o \in Loaded :
          /\ IF o.fault THEN Fault ELSE UNCHANGED faults
          /\ data' = o.data
          /\ new' = [o.get EXCEPT !.fields = @ \cup {u}]
          /\ pricing' = new'
    /\ UNCHANGED <<fileVars, watchVars, poll, missed>>

(* ... or its updateFunc fails: nothing is written and nothing cached, but *)
(* the pricing it was given is the cached one, if there is one, and it may *)
(* have set its field there before it failed.                              *)
UpdateFails(u) ==
    /\ upd[u] = "idle"
    /\ pcLock = Free
    /\ upd' = [upd EXCEPT ![u] = "failed"]
    /\ \E o \in Loaded :
          /\ IF o.fault THEN Fault ELSE UNCHANGED faults
          /\ data' = o.data
          /\ \/ pricing' = o.cache /\ UNCHANGED missed
             \/ /\ o.cache # Nothing
                /\ pricing' = [o.cache EXCEPT !.fields = @ \cup {u}]
                /\ missed' = missed \cup {"pricing"}
    /\ UNCHANGED <<fileVars, pcLock, new, watchVars, poll>>

(* ... write the file, which may fail ... *)
UpdateWrites(u) ==
    /\ upd[u] = "write"
    /\ \/ /\ file' = [there |-> TRUE, mtime |-> file.mtime + 1, content |-> new]
          /\ upd' = [upd EXCEPT ![u] = "cache"]
          /\ UNCHANGED <<pcLock, faults, missed>>
       \/ /\ Fault
          /\ upd' = [upd EXCEPT ![u] = "failed"]
          /\ pcLock' = Free
          /\ missed' = missed \cup {"pricing"}
          /\ UNCHANGED file
    /\ UNCHANGED <<edits, data, pricing, new, watchVars, poll>>

(* ... and then the cache of the bytes. *)
UpdateReturns(u) ==
    /\ upd[u] = "cache"
    /\ upd' = [upd EXCEPT ![u] = "done"]
    /\ data' = new
    /\ missed' = IF file.content = new THEN missed \ {"bytes"} ELSE missed \cup {"bytes"}
    /\ pcLock' = Free
    /\ new' = Nothing
    /\ UNCHANGED <<fileVars, pricing, watchVars, poll, faults>>

-----------------------------------------------------------------------------
(* An iteration of the loop: a failed Stat ends it, the first one records  *)
(* what is there, and the others look for a change.                        *)
Baseline ==
    /\ poll.first
    /\ poll' = [poll EXCEPT !.first = FALSE, !.exists = file.there,
                            !.last = IF file.there THEN file.mtime ELSE @]
    /\ missed' = {m \in {"bytes", "pricing"} :
                    /\ file.there
                    /\ IF m = "bytes" THEN data \notin {Nothing, file.content}
                       ELSE pricing \notin {Nothing, Decoded(file.content)}}

Deleted ==
    /\ ~poll.first /\ ~file.there
    /\ poll' = IF poll.exists THEN [poll EXCEPT !.exists = FALSE, !.at = "notify"] ELSE poll
    /\ UNCHANGED missed

Changed ==
    /\ ~poll.first /\ file.there
    /\ poll' = IF ~poll.exists
               THEN [poll EXCEPT !.at = "read", !.created = TRUE, !.mtime = file.mtime]
               ELSE IF file.mtime # poll.last
               THEN [poll EXCEPT !.at = "read", !.created = FALSE, !.last = file.mtime]
               ELSE poll
    /\ UNCHANGED missed

PollStat ==
    /\ poll.at = "select"
    /\ Baseline \/ Deleted \/ Changed
    /\ UNCHANGED <<fileVars, data, pcVars, watchVars, faults>>

(* Mutant of PollRead: the bytes in the cache are good enough. *)
PollReadCached ==
    /\ poll.at = "read"
    /\ data' = IF data # Nothing THEN data ELSE file.content
    /\ poll' = [poll EXCEPT !.at = "notify", !.data = data', !.exists = TRUE,
                            !.last = IF poll.created THEN poll.mtime ELSE @]
    /\ UNCHANGED <<fileVars, pcVars, watchVars, faults, missed>>

(* internalRead(true). A file that has been created is known only when it  *)
(* was read; the time of a modified one was recorded before.               *)
PollRead ==
    /\ poll.at = "read"
    /\ \/ /\ file.there
          /\ data' = file.content
          /\ poll' = [poll EXCEPT !.at = "notify", !.data = data', !.exists = TRUE,
                                  !.last = IF poll.created THEN poll.mtime ELSE @]
          /\ missed' = missed \ {"bytes"}
          /\ UNCHANGED faults
       \/ /\ IF file.there THEN Fault ELSE UNCHANGED faults
          /\ poll' = [poll EXCEPT !.at = "select"]
          /\ missed' = IF poll.created THEN missed ELSE {"bytes", "pricing"}
          /\ UNCHANGED data
    /\ UNCHANGED <<fileVars, pcVars, watchVars>>

(* onFileChange copies the handlers under watchLock ... *)
PollCopies ==
    /\ poll.at = "notify"
    /\ adding = Free
    /\ poll' = [poll EXCEPT !.at = "call", !.notify = Pricing \in watchers]
    /\ UNCHANGED <<fileVars, data, pcVars, watchVars, faults, missed>>

(* ... and calls them, onConfigFileUpdated among them, which takes pc.lock.*)
(* It keeps the pricing when the file was deleted.                         *)
PollCalls ==
    /\ poll.at = "call"
    /\ IF poll.notify /\ poll.data # Nothing
       THEN /\ pcLock = Free
            /\ pricing' = Decoded(poll.data)
            /\ missed' = missed \ {"pricing"}
       ELSE /\ missed' = IF poll.data = Nothing THEN missed ELSE missed \cup {"pricing"}
            /\ UNCHANGED pricing
    /\ poll' = [poll EXCEPT !.at = "select", !.data = Nothing, !.notify = FALSE,
                            !.created = FALSE, !.mtime = 0]
    /\ UNCHANGED <<fileVars, data, pcLock, upd, new, watchVars, faults>>

PollStops ==
    /\ poll.at = "select"
    /\ runState = "stopping"
    /\ runState' = "idle"
    /\ poll' = NoLoop
    /\ UNCHANGED <<fileVars, data, pcVars, watchers, adding, removes, faults, missed>>

-----------------------------------------------------------------------------
(* Mutant of RemoveChangeHandler: the watcher is stopped while there are   *)
(* other handlers.                                                         *)
RemoveChangeHandlerStops(h) ==
    /\ h \in watchers
    /\ adding = Free
    /\ removes < MaxRemoves
    /\ removes' = removes + 1
    /\ watchers' = watchers \ {h}
    /\ runState' = "stopping"
    /\ UNCHANGED <<fileVars, data, pcVars, adding, poll, faults, missed>>

(* RemoveChangeHandler; the last one stops the loop. *)
RemoveChangeHandler(h) ==
    /\ h \in watchers
    /\ adding = Free
    /\ removes < MaxRemoves
    /\ removes' = removes + 1
    /\ watchers' = watchers \ {h}
    /\ runState' = IF watchers' = {} THEN "stopping" ELSE runState
    /\ UNCHANGED <<fileVars, data, pcVars, adding, poll, faults, missed>>

RemoveAllHandlers ==
    /\ adding = Free
    /\ removes < MaxRemoves
    /\ removes' = removes + 1
    /\ watchers' = {}
    /\ runState' = IF runState = "running" THEN "stopping" ELSE runState
    /\ UNCHANGED <<fileVars, data, pcVars, adding, poll, faults, missed>>

(* AddPriorityChangeHandler; the first one starts the loop: WaitForReset,  *)
(* with watchLock held ...                                                 *)
AddChangeHandler(h) ==
    /\ h \notin watchers
    /\ adding = Free
    /\ watchers' = watchers \cup {h}
    /\ adding' = IF watchers = {} THEN h ELSE Free
    /\ UNCHANGED <<fileVars, data, pcVars, runState, removes, poll, faults, missed>>

(* ... and Start. *)
RunWatcher ==
    /\ adding # Free
    /\ runState = "idle"
    /\ runState' = "running"
    /\ poll' = NewLoop
    /\ adding' = Free
    /\ UNCHANGED <<fileVars, data, pcVars, watchers, removes, faults, missed>>

PollStep == PollStat \/ PollRead \/ PollCopies \/ PollCalls
UpdateStep(u) == UpdateWrites(u) \/ UpdateReturns(u)

Next ==
    \/ Edit \/ Remove \/ GetCustomPricingData
    \/ PollStep \/ PollStops \/ RunWatcher \/ RemoveAllHandlers
    \/ \E u \in Updates : UpdateBegins(u) \/ UpdateFails(u) \/ UpdateStep(u)
    \/ \E h \in Handlers : AddChangeHandler(h) \/ RemoveChangeHandler(h)

Spec == Init /\ [][Next]_vars

(* The loop wakes up every ten seconds, a select that finds the stop       *)
(* channel closed again and again takes it, and calls return. Nobody has   *)
(* to edit, update, add or remove.                                         *)
FairSpec ==
    /\ Spec
    /\ WF_vars(PollStep) /\ SF_vars(PollStops) /\ WF_vars(RunWatcher)
    /\ \A u \in Updates : WF_vars(UpdateStep(u))

-----------------------------------------------------------------------------
TypeOK ==
    LET Content == [base : 0 .. MaxEdits, fields : SUBSET Updates] \cup {Nothing}
    IN  /\ file.content \in Content /\ {data, pricing, new, poll.data} \subseteq Content
        /\ pcLock \in Updates \cup {Free} /\ adding \in Handlers \cup {Free}
        /\ watchers \subseteq Handlers
        /\ runState \in {"idle", "running", "stopping"}
        /\ poll.at \in {"off", "select", "read", "notify", "call"}

(* While there is a change handler, and nobody is adding the first one,    *)
(* the file is watched; and the loop is gone, or about to go, otherwise.   *)
HandledIsWatched ==
    adding = Free => (watchers # {} <=> runState = "running")

(* The loop waits for watchLock, which an Add holds that waits for it. *)
Stuck == adding # Free /\ poll.at = "notify"

(* With a handler, the data cache is "automatically updating on change":   *)
(* when edits and updates come to an end, the bytes and the pricing in     *)
(* memory end up being those of the file, for as long as it is there.      *)
(* Excepted is what the loop cannot know of (missed): a change between a   *)
(* read and the first iteration, one whose read failed or that a handler   *)
(* was not there for, an update that failed after it had set its field in  *)
(* the cache, and a write that reached the cache of the bytes too late;    *)
(* and the deadlock of AddHandlerReturns.                                  *)
BytesInSync == "bytes" \in missed \/ data \in {Nothing, file.content}
PricingInSync ==
    \/ "pricing" \in missed \/ pricing = Nothing
    \/ pricing = Decoded(file.content)
Converges ==
    <>[](Pricing \in watchers /\ ~Stuck /\ file.there => BytesInSync /\ PricingInSync)

(* "If read fails, we don't want to cache default, assuming that the file  *)
(* is valid" (providerconfig.go): no write of an Update replaces an edited *)
(* file by the default pricing with one field set.                         *)
EditedNotDefaulted ==
    [][\A u \in Updates :
          upd[u] = "write" /\ upd'[u] = "cache" /\ file.there /\ file.content.base > 0
              => file'.content.base > 0]_vars

(* "We don't want to lock while executing the handlers" and "only block    *)
(* iff the run state is in the process of stopping" (configfile.go): a     *)
(* handler that is added is added in the end.                              *)
AddHandlerReturns == adding # Free ~> adding = Free
=============================================================================

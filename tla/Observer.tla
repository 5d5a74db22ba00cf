------------------------------ MODULE Observer ------------------------------
(***************************************************************************)
(* What the config controller expects of an Observer                       *)
(* (pkg/cloud/config/observer.go): it keeps a table from integration key   *)
(* to the config that runs for it, and when a notification returns the     *)
(* table is what the notifications so far ask for. While one is in         *)
(* progress only the keys it is about change, one at a time, and to        *)
(* nothing but their removal or the config asked for: a config that is not *)
(* part of the notification keeps running. ConfigController takes its      *)
(* observer for this table; Ingestion is shown to implement it.            *)
(***************************************************************************)
CONSTANTS
    Keys,
    Versions,
    UnknownVersions,  \* configs an observer has no integration for
    NoConf

VARIABLES
    table,  \* table[k]: the config run for key k
    asked,  \* asked[k]: the config the notifications ask for
    scope   \* the keys the notification in progress is about, {} between two

promise == <<table, asked, scope>>

Init ==
    /\ table = [k \in Keys |-> NoConf]
    /\ asked = [k \in Keys |-> NoConf]
    /\ scope = {}

PutConfig(k, v) ==
    /\ scope = {}
    /\ scope' = {k}
    /\ asked' = [asked EXCEPT ![k] = v]
    /\ UNCHANGED table

DeleteConfig(k) ==
    /\ scope = {}
    /\ scope' = {k}
    /\ asked' = [asked EXCEPT ![k] = NoConf]
    /\ UNCHANGED table

(* The declarative form: what is not in m is to go. *)
SetConfigs(m) ==
    /\ scope = {}
    /\ scope' = Keys
    /\ asked' = m
    /\ UNCHANGED table

(* What runs for k when all is done: nothing, if there is no integration   *)
(* for its config.                                                         *)
Served(k) == IF asked[k] \in UnknownVersions THEN NoConf ELSE asked[k]

(* One key changes; a config is removed before another takes its place. *)
Change(k) ==
    /\ k \in scope
    /\ \/ table' = [table EXCEPT ![k] = NoConf]
       \/ table[k] = NoConf /\ table' = [table EXCEPT ![k] = Served(k)]
    /\ UNCHANGED <<asked, scope>>

Return ==
    /\ scope # {}
    /\ \A k \in Keys : table[k] = Served(k)
    /\ scope' = {}
    /\ UNCHANGED <<table, asked>>

Next ==
    \/ \E k \in Keys : DeleteConfig(k) \/ Change(k) \/ \E v \in Versions : PutConfig(k, v)
    \/ \E m \in [Keys -> Versions \cup {NoConf}] : SetConfigs(m)
    \/ Return

Spec == Init /\ [][Next]_promise
=============================================================================

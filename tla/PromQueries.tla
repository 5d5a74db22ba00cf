---------------------------- MODULE PromQueries -----------------------------
(***************************************************************************)
(* Queries of the Prometheus data source: the rate limited client          *)
(* (modules/prometheus-source/pkg/prom/prom.go) with its queue, its        *)
(* workers and their retries, a computation that runs a group of queries   *)
(* (core/pkg/source/querygroup.go), and the loop that refreshes the        *)
(* cluster map (clustermap.go), which retries its own query. The server    *)
(* answers, for all stores or for the ones it could reach (partial),       *)
(* refuses, throttles, cannot be reached or accepts a request and never    *)
(* answers it.                                                             *)
(*                                                                         *)
(* The queue is the one of WorkerPool; here Enqueue and Dequeue are steps. *)
(* A channel is unbuffered and has its receiver waiting, so that a send is *)
(* one step with what the receiver does next.                              *)
(***************************************************************************)
EXTENDS Naturals, Sequences

CONSTANTS
    Group,       \* the queries of a computation
    MapQuery,    \* the query of the cluster map
    Workers,     \* maxConcurrency goroutines
    Retry,       \* rateLimitRetry # nil
    MaxRetries,  \* rateLimitRetry.MaxRetries
    LoadRetries, \* attempts of a refresh of the cluster map
    MaxTroubles, \* bound: answers of the server that are not good
    MaxChanges   \* bound: changes of what the server knows of the clusters

ASSUME PromAssumption ==
    /\ MapQuery \notin Group
    /\ Retry \in BOOLEAN
    /\ LoadRetries \in Nat \ {0}
    /\ {MaxRetries, MaxTroubles, MaxChanges} \subseteq Nat

Queries == Group \cup {MapQuery}

VARIABLES
    info,     \* server: the version of the cluster info
    troubles, \* server: bad answers so far
    query,    \* query[q]: where runQuery is
    queue,    \* rlpc.queue
    worker,   \* the workers: where they are, their query and its retries left
    reply,    \* reply[q]: what Do has returned
    group,    \* the computation: where it is, the queries awaited, the errors
    refresh,  \* the loop of the cluster map: where it is, its attempts left,
              \* and whether its select holds the stop channel
    clusters, \* pcm.clusters, as the version it was read from
    stopped,  \* StopRefresh was called
    panicked, \* a goroutine panicked: the process is about to die
    last,     \* history: the last answer of the server for a query
    sends     \* history: how often a query under way was sent

serverVars == <<info, troubles>>
clientVars == <<query, queue, worker, reply, last, sends>>
mapVars == <<refresh, clusters, stopped>>
vars == <<serverVars, clientVars, group, mapVars, panicked>>

Answers == {"ok", "partial", "failed", "limited", "down"}
None == "none"
Unset == 0
NoReply == [result |-> None, info |-> Unset]
Nobody == [at |-> "idle", query |-> None, retries |-> 0, first |-> TRUE]

(* A new process: the clients, their workers and the loop of the map. *)
ProcessStarts ==
    [query    |-> [q \in Queries |-> "idle"],
     queue    |-> << >>,
     worker   |-> [w \in Workers |-> Nobody],
     reply    |-> [q \in Queries |-> NoReply],
     group    |-> [at |-> "idle", awaited |-> {}, errors |-> {}],
     refresh  |-> [at |-> "try", attempts |-> LoadRetries, chan |-> FALSE],
     clusters |-> Unset,
     last     |-> [q \in Queries |-> None],
     sends    |-> [q \in Queries |-> 0]]

Init ==
    /\ info = 1
    /\ troubles = 0
    /\ query = ProcessStarts.query
    /\ queue = ProcessStarts.queue
    /\ worker = ProcessStarts.worker
    /\ reply = ProcessStarts.reply
    /\ group = ProcessStarts.group
    /\ refresh = ProcessStarts.refresh
    /\ clusters = ProcessStarts.clusters
    /\ stopped = FALSE
    /\ panicked = FALSE
    /\ last = ProcessStarts.last
    /\ sends = ProcessStarts.sends

ClustersChange ==
    /\ info <= MaxChanges
    /\ info' = info + 1
    /\ UNCHANGED <<troubles, clientVars, group, mapVars, panicked>>

-----------------------------------------------------------------------------
(* RateLimitedPrometheusClient.Do puts the request into the queue ... *)
Enqueue(q) ==
    /\ query[q] = "started"
    /\ query' = [query EXCEPT ![q] = "queued"]
    /\ queue' = Append(queue, q)
    /\ UNCHANGED <<serverVars, worker, reply, last, sends, group, mapVars, panicked>>

(* ... a worker takes it ... *)
Dequeue(w) ==
    /\ worker[w].at = "idle"
    /\ queue # << >>
    /\ queue' = Tail(queue)
    /\ worker' = [worker EXCEPT ![w] =
          [at |-> "send", query |-> Head(queue), retries |-> MaxRetries, first |-> TRUE]]
    /\ UNCHANGED <<serverVars, query, reply, last, sends, group, mapVars, panicked>>

(* httputil.IsRateLimited *)
IsRateLimited(answer) == answer = "limited"

(* The condition of the retry loop. *)
Again(w, answer) ==
    Retry /\ IsRateLimited(answer) /\ worker[w].retries > 0

(* What the worker hands to the caller of Do: the answer, or a             *)
(* RateLimitedResponseError when the retries are exhausted.                *)
Result(answer) == IF Retry /\ IsRateLimited(answer) THEN "throttled" ELSE answer

(* What an answer says of the clusters. *)
Content(q, answer) == IF q = MapQuery /\ answer = "ok" THEN info ELSE Unset

(* Mutant of NextRequest: the worker returns after its first request. *)
WorkerReturns == [Nobody EXCEPT !.at = "gone"]

(* The worker goes back to the queue. *)
NextRequest == Nobody

(* ... sends it, with the answer of the server: it waits and tries again,  *)
(* or hands the result over. The loop asks a response of a retry whether   *)
(* it is rate limited although there is none when the server was not       *)
(* reached; the first response it does not.                                *)
Send(w) ==
    LET q == worker[w].query
    IN  /\ worker[w].at = "send"
        /\ \E a \in Answers :
              /\ a # "ok" => troubles < MaxTroubles
              /\ troubles' = IF a = "ok" THEN troubles ELSE troubles + 1
              /\ last' = [last EXCEPT ![q] = a]
              /\ sends' = [sends EXCEPT ![q] = @ + 1]
              /\ \/ /\ a = "down" /\ ~worker[w].first
                    /\ panicked' = TRUE
                    /\ UNCHANGED <<worker, query, reply>>
                 \/ /\ Again(w, a)
                    /\ worker' = [worker EXCEPT ![w].at = "wait", ![w].retries = @ - 1]
                    /\ UNCHANGED <<query, reply, panicked>>
                 \/ /\ ~Again(w, a)
                    /\ a = "down" => worker[w].first
                    /\ worker' = [worker EXCEPT ![w] = NextRequest]
                    /\ query' = [query EXCEPT ![q] = "replied"]
                    /\ reply' = [reply EXCEPT ![q] =
                          [result |-> Result(a), info |-> Content(q, a)]]
                    /\ UNCHANGED panicked
        /\ UNCHANGED <<info, queue, group, mapVars>>

(* The server accepts the request and never answers. The transport has     *)
(* timeouts for the dial and the TLS handshake only and the context of a   *)
(* query has no deadline, so that client.Do does not return: the worker is *)
(* held, with its request, until the process ends.                         *)
Hang(w) ==
    /\ worker[w].at = "send"
    /\ troubles < MaxTroubles
    /\ troubles' = troubles + 1
    /\ worker' = [worker EXCEPT ![w].at = "hung"]
    /\ UNCHANGED <<info, query, queue, reply, last, sends, group, mapVars, panicked>>

Wait(w) ==
    /\ worker[w].at = "wait"
    /\ worker' = [worker EXCEPT ![w].at = "send", ![w].first = FALSE]
    /\ UNCHANGED <<serverVars, query, queue, reply, last, sends, group, mapVars, panicked>>

-----------------------------------------------------------------------------
(* Mutant of Errored: the status code is not looked at. *)
ErroredNoStatus(q) == reply[q].result \in {"throttled", "down"}

(* RawQuery: an error of Do, or a status that is not 2xx. The warning of a *)
(* partial answer is not found: warningsFrom asserts []string of what the  *)
(* decoder has made a []interface{}.                                       *)
Errored(q) == reply[q].result \notin {"ok", "partial"}

(* The receiver takes the result of a query from its channel. *)
Awaited(q) ==
    /\ query[q] = "replied"
    /\ query' = [query EXCEPT ![q] = "idle"]
    /\ reply' = [reply EXCEPT ![q] = NoReply]
    /\ sends' = [sends EXCEPT ![q] = 0]
    /\ UNCHANGED <<serverVars, queue, worker, panicked>>

(* A computation starts all of its queries and then awaits them. *)
Compute ==
    /\ group.at = "idle"
    /\ group' = [at |-> "await", awaited |-> {}, errors |-> {}]
    /\ query' = [q \in Queries |-> IF q \in Group THEN "started" ELSE query[q]]
    /\ UNCHANGED <<serverVars, queue, worker, reply, last, sends, mapVars, panicked>>

(* QueryGroupAsyncResult.Await *)
Await(q) ==
    /\ group.at = "await"
    /\ q \in Group \ group.awaited
    /\ Awaited(q)
    /\ group' = [group EXCEPT !.awaited = @ \cup {q},
                              !.errors = IF Errored(q) THEN @ \cup {q} ELSE @]
    /\ UNCHANGED <<last, mapVars>>

(* The computation asks HasErrors and returns. *)
HasErrors == group.errors # {}
ComputeReturns ==
    /\ group.at = "await"
    /\ group.awaited = Group
    /\ group' = [at |-> "idle", awaited |-> {}, errors |-> {}]
    /\ last' = [q \in Queries |-> IF q \in Group THEN None ELSE last[q]]
    /\ UNCHANGED <<serverVars, query, queue, worker, reply, sends, mapVars, panicked>>

-----------------------------------------------------------------------------
(* loadClusters: retry.Retry of the query. *)
LoadQuery ==
    /\ refresh.at = "try"
    /\ refresh' = [refresh EXCEPT !.at = "await"]
    /\ query' = [query EXCEPT ![MapQuery] = "started"]
    /\ UNCHANGED <<serverVars, queue, worker, reply, last, sends, group, clusters, stopped, panicked>>

(* The loop is at its select, which evaluates the stop channel when it is  *)
(* entered: StopRefresh has set it to nil.                                 *)
AtSelect == [at |-> "select", attempts |-> LoadRetries, chan |-> ~stopped]

(* Mutant of GivesUp: the loop ends with the error. *)
GivesUpForGood == [AtSelect EXCEPT !.at = "done"]

(* refreshClusters logs the error of the last attempt and keeps the map. *)
GivesUp == AtSelect

LoadAwait ==
    /\ refresh.at = "await"
    /\ Awaited(MapQuery)
    /\ IF Errored(MapQuery)
       THEN /\ refresh' = IF refresh.attempts = 1 THEN GivesUp
                          ELSE [refresh EXCEPT !.at = "try", !.attempts = @ - 1]
            /\ UNCHANGED clusters
       ELSE /\ refresh' = AtSelect
            /\ clusters' = reply[MapQuery].info
    /\ last' = [last EXCEPT ![MapQuery] = None]
    /\ UNCHANGED <<group, stopped>>

RefreshTick ==
    /\ refresh.at = "select"
    /\ refresh' = [refresh EXCEPT !.at = "try", !.chan = FALSE]
    /\ UNCHANGED <<serverVars, clientVars, group, clusters, stopped, panicked>>

RefreshStops ==
    /\ refresh.at = "select"
    /\ refresh.chan /\ stopped
    /\ refresh' = [refresh EXCEPT !.at = "done", !.chan = FALSE]
    /\ UNCHANGED <<serverVars, clientVars, group, clusters, stopped, panicked>>

(* StopRefresh: close(pcm.stop) and pcm.stop = nil. *)
StopRefresh ==
    /\ ~stopped
    /\ stopped' = TRUE
    /\ UNCHANGED <<serverVars, clientVars, group, refresh, clusters, panicked>>

(* Kubernetes starts a process that has died again. *)
Restart ==
    /\ panicked
    /\ panicked' = FALSE
    /\ query' = ProcessStarts.query
    /\ queue' = ProcessStarts.queue
    /\ worker' = ProcessStarts.worker
    /\ reply' = ProcessStarts.reply
    /\ group' = ProcessStarts.group
    /\ refresh' = ProcessStarts.refresh
    /\ clusters' = ProcessStarts.clusters
    /\ stopped' = FALSE
    /\ last' = ProcessStarts.last
    /\ sends' = ProcessStarts.sends
    /\ UNCHANGED serverVars

WorkerStep(w) == Send(w) \/ Wait(w)
RefreshStep == LoadQuery \/ LoadAwait \/ RefreshTick
GroupStep == (\E q \in Group : Await(q)) \/ ComputeReturns

Running ==
    \/ \E q \in Queries : Enqueue(q)
    \/ \E w \in Workers : Dequeue(w) \/ WorkerStep(w) \/ Hang(w)
    \/ GroupStep \/ Compute
    \/ RefreshStep \/ RefreshStops \/ StopRefresh

Next == (~panicked /\ Running) \/ Restart \/ ClustersChange

Spec == Init /\ [][Next]_vars

(* Goroutines go on, sleeps end, the ticker fires, and a select that finds *)
(* the stop channel closed again and again takes it. A request is answered *)
(* or fails, unless it hangs (Hang): no timeout is assumed. Nobody has to  *)
(* compute anything or to stop the refresh.                                *)
FairSpec ==
    /\ Spec
    /\ \A q \in Queries : WF_vars(~panicked /\ Enqueue(q))
    /\ \A w \in Workers : WF_vars(~panicked /\ WorkerStep(w))
    /\ WF_vars(~panicked /\ \E w \in Workers : Dequeue(w))
    /\ WF_vars(~panicked /\ GroupStep)
    /\ WF_vars(~panicked /\ RefreshStep) /\ SF_vars(~panicked /\ RefreshStops)
    /\ WF_vars(Restart)

-----------------------------------------------------------------------------
(* A group has no error for a query to which the server, after all         *)
(* retries, gave a good answer, and one for each other query that it has   *)
(* awaited; a query fails for rate limiting only when it was sent          *)
(* MaxRetries + 1 times ("Rate Limited and Retries Exhausted"). What is to *)
(* become of a partial answer is not said here: see PartialIsError.        *)
HonestErrors ==
    /\ group.at = "await" =>
          \A q \in group.awaited : last[q] # "partial" => (q \in group.errors <=> last[q] # "ok")
    /\ \A q \in Queries :
          query[q] = "replied" /\ Retry /\ last[q] = "limited"
              => /\ reply[q].result = "throttled"
                 /\ sends[q] = MaxRetries + 1

Hung(q) == \E w \in Workers : worker[w].at = "hung" /\ worker[w].query = q
NobodyServes == \A w \in Workers : worker[w].at = "hung"

(* A computation ends unless a query of its own hangs or no worker is      *)
(* left: a hanging request costs its own caller and one worker, no more,   *)
(* though the workers sleep while they hold their place and the cluster    *)
(* map competes for them ("To prevent total starvation of request threads, *)
(* hard limit wait time").                                                 *)
ComputeEnds ==
    group.at = "await" ~> (group.at = "idle" \/ (\E q \in Group : Hung(q)) \/ NobodyServes)

(* "Run an updater to ensure cluster data stays relevant over time": when  *)
(* the clusters and the troubles of the server come to an end, the map     *)
(* becomes and stays what the server knows, unless its refresh is stopped, *)
(* its own query hangs or no worker is left.                               *)
MapIsRefreshed ==
    <>[](stopped \/ clusters = info \/ Hung(MapQuery) \/ NobodyServes)

(* "We also want quota limits/throttles to eventually pass through as an   *)
(* error" (prom.go): whatever the server answers, no worker panics.        *)
NoPanic == ~panicked

(* "It returns partial data [...] In order to ensure integrity of data     *)
(* across all clusters, we'll need to identify this warning and convert it *)
(* to an error" (query.go).                                                *)
PartialIsError ==
    group.at = "await" => {q \in group.awaited : last[q] = "partial"} \subseteq group.errors

(* "StopRefresh stops the automatic internal map refresh" (clustermap.go). *)
StopEndsRefresh == stopped ~> (refresh.at = "done" \/ ~stopped)
=============================================================================

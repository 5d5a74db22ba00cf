-------------------------- MODULE PromQueriesProofs -------------------------
(***************************************************************************)
(* Safety of the queries of the Prometheus data source, for any group of   *)
(* queries, any workers, retries and troubles of the server.               *)
(***************************************************************************)
EXTENDS PromQueries, TLAPS

QueryStates == {"idle", "started", "queued", "replied"}
WorkerState == [at : {"idle", "send", "wait", "hung"}, query : Queries \cup {None},
                retries : 0 .. MaxRetries, first : BOOLEAN]
ReplyState == [result : Answers \cup {"throttled", None}, info : Nat]
GroupState == [at : {"idle", "await"}, awaited : SUBSET Group, errors : SUBSET Group]
RefreshState == [at : {"try", "await", "select", "done"}, attempts : 1 .. LoadRetries, chan : BOOLEAN]

TypeOK ==
    /\ info \in 1 .. MaxChanges + 1
    /\ troubles \in 0 .. MaxTroubles
    /\ query \in [Queries -> QueryStates]
    /\ queue \in Seq(Queries)
    /\ worker \in [Workers -> WorkerState]
    /\ reply \in [Queries -> ReplyState]
    /\ group \in GroupState
    /\ refresh \in RefreshState
    /\ clusters \in Nat
    /\ stopped \in BOOLEAN
    /\ panicked \in BOOLEAN
    /\ last \in [Queries -> Answers \cup {None}]
    /\ sends \in [Queries -> Nat]

Busy(w) == worker[w].at # "idle"

(* A request is in one place at a time: once in the queue or in the hands  *)
(* of one worker, while its caller waits.                                  *)
OnePlace ==
    /\ \A w \in Workers : Busy(w) => worker[w].query \in Queries /\ query[worker[w].query] = "queued"
    /\ \A v, w \in Workers : Busy(v) /\ Busy(w) /\ worker[v].query = worker[w].query => v = w
    /\ \A i \in 1 .. Len(queue) : query[queue[i]] = "queued"
    /\ \A i \in 1 .. Len(queue), w \in Workers : Busy(w) => worker[w].query # queue[i]
    /\ \A i, j \in 1 .. Len(queue) : queue[i] = queue[j] => i = j

(* How often a request was sent: not at all before a worker has it, then   *)
(* once for each retry that is used up.                                    *)
Counted ==
    /\ \A q \in Queries : query[q] \in {"idle", "started"} => sends[q] = 0
    /\ \A i \in 1 .. Len(queue) : sends[queue[i]] = 0
    /\ ~panicked => \A w \in Workers : Busy(w) => sends[worker[w].query] + worker[w].retries = MaxRetries

(* The reply is what the last answer of the server makes it. *)
Honest ==
    \A q \in Queries : query[q] = "replied" =>
        /\ last[q] \in Answers
        /\ reply[q].result = Result(last[q])
        /\ Retry /\ last[q] = "limited" => sends[q] = MaxRetries + 1

(* The callers: a query that nobody awaits is idle, and what the group has *)
(* noted of the awaited ones is what the server answered.                  *)
Callers ==
    /\ group.at = "idle" => \A q \in Group : query[q] = "idle"
    /\ \A q \in group.awaited : query[q] = "idle"
    /\ group.at = "await" => group.errors = {q \in group.awaited : last[q] \notin {"ok", "partial"}}
    /\ refresh.at # "await" => query[MapQuery] = "idle"

IInv == TypeOK /\ OnePlace /\ Counted /\ Honest /\ Callers

-----------------------------------------------------------------------------
(* The states of a worker and of a query, field by field. *)
LEMMA WorkerAt ==
  ASSUME TypeOK, NEW w \in Workers
  PROVE  /\ worker[w] \in WorkerState
         /\ worker[w].at \in {"idle", "send", "wait", "hung"}
         /\ worker[w].query \in Queries \cup {None}
         /\ worker[w].retries \in 0 .. MaxRetries
         /\ worker[w].first \in BOOLEAN
  BY DEF TypeOK, WorkerState

(* An idle worker and an empty reply. *)
LEMMA NobodyIs == Nobody \in WorkerState /\ Nobody.at = "idle" /\ NoReply \in ReplyState
  <1>1. 0 \in 0 .. MaxRetries
    BY PromAssumption
  <1>2. Nobody \in WorkerState /\ Nobody.at = "idle"
    BY <1>1 DEF Nobody, WorkerState
  <1>3. NoReply \in ReplyState
    BY DEF NoReply, ReplyState, Unset
  <1> QED BY <1>2, <1>3

(* Every process begins in a state of the invariant. *)
Starts ==
    /\ info \in 1 .. MaxChanges + 1 /\ troubles \in 0 .. MaxTroubles
    /\ query = ProcessStarts.query /\ queue = ProcessStarts.queue /\ worker = ProcessStarts.worker
    /\ reply = ProcessStarts.reply /\ group = ProcessStarts.group /\ refresh = ProcessStarts.refresh
    /\ clusters = ProcessStarts.clusters /\ stopped = FALSE /\ panicked = FALSE
    /\ last = ProcessStarts.last /\ sends = ProcessStarts.sends

LEMMA StartsIInv == Starts => IInv
  <1> SUFFICES ASSUME Starts PROVE IInv
    OBVIOUS
  <1>1. /\ query = [q \in Queries |-> "idle"] /\ queue = << >>
        /\ worker = [w \in Workers |-> Nobody] /\ reply = [q \in Queries |-> NoReply]
        /\ group = [at |-> "idle", awaited |-> {}, errors |-> {}]
        /\ refresh = [at |-> "try", attempts |-> LoadRetries, chan |-> FALSE]
        /\ clusters = Unset /\ last = [q \in Queries |-> None] /\ sends = [q \in Queries |-> 0]
    BY DEF Starts, ProcessStarts
  <1>2. TypeOK
    <2>1. LoadRetries \in 1 .. LoadRetries
      BY PromAssumption
    <2>2. refresh \in RefreshState
      BY <1>1, <2>1 DEF RefreshState
    <2>3. group \in GroupState
      BY <1>1 DEF GroupState
    <2>4. worker \in [Workers -> WorkerState] /\ reply \in [Queries -> ReplyState]
      BY <1>1, NobodyIs
    <2>5. stopped \in BOOLEAN /\ panicked \in BOOLEAN
      BY DEF Starts
    <2>6. query \in [Queries -> QueryStates] /\ queue \in Seq(Queries) /\ clusters \in Nat
          /\ last \in [Queries -> Answers \cup {None}] /\ sends \in [Queries -> Nat]
      BY <1>1 DEF QueryStates, Unset
    <2> QED BY <2>2, <2>3, <2>4, <2>5, <2>6 DEF TypeOK, Starts
  <1>3. \A w \in Workers : ~Busy(w)
    BY <1>1, NobodyIs DEF Busy
  <1>4. OnePlace /\ Counted /\ Honest
    BY <1>1, <1>3 DEF OnePlace, Counted, Honest
  <1>5. Callers
    BY <1>1 DEF Callers, Queries
  <1> QED BY <1>2, <1>4, <1>5 DEF IInv

(* The first process begins this way, *)
LEMMA InitIInv == Init => IInv
  <1> SUFFICES ASSUME Init PROVE IInv
    OBVIOUS
  <1>1. info \in 1 .. MaxChanges + 1 /\ troubles \in 0 .. MaxTroubles
    BY PromAssumption DEF Init
  <1>2. Starts
    BY <1>1 DEF Init, Starts
  <1> QED BY <1>2, StartsIInv

(* and so does the one after a restart. *)
LEMMA RestartIInv == IInv /\ Restart => IInv'
  <1>1. IInv /\ Restart => Starts'
    <2>1. ProcessStarts' = ProcessStarts
      BY DEF ProcessStarts, NoReply, Nobody
    <2> QED BY <2>1 DEF Restart, Starts, IInv, TypeOK, serverVars
  <1> QED BY <1>1, StartsIInv, PTL

-----------------------------------------------------------------------------
(* A step that leaves the requests alone. *)
LEMMA RequestsKept ==
  ASSUME IInv, UNCHANGED <<query, queue, worker, reply, last, sends, panicked>>
  PROVE  OnePlace' /\ Counted' /\ Honest'
  BY DEF IInv, OnePlace, Counted, Honest, Busy, Result, IsRateLimited

(* A request is put into the queue, *)
LEMMA EnqueueIInv ==
  ASSUME IInv, NEW q \in Queries, Enqueue(q)
  PROVE  IInv'
  <1>1. /\ query[q] = "started" /\ query' = [query EXCEPT ![q] = "queued"] /\ queue' = Append(queue, q)
        /\ UNCHANGED <<info, troubles, worker, reply, last, sends, group, refresh, clusters, stopped, panicked>>
    BY DEF Enqueue, serverVars, mapVars
  <1>2. TypeOK'
    <2>1. query' \in [Queries -> QueryStates] /\ queue' \in Seq(Queries)
      BY <1>1 DEF IInv, TypeOK, QueryStates
    <2> QED BY <1>1, <2>1 DEF IInv, TypeOK
  <1>3. /\ Len(queue') = Len(queue) + 1 /\ Len(queue) \in Nat
        /\ \A i \in 1 .. Len(queue) : queue'[i] = queue[i] /\ queue[i] \in Queries
        /\ queue'[Len(queue) + 1] = q
    BY <1>1 DEF IInv, TypeOK
  <1>4. \A i \in 1 .. Len(queue') : i = Len(queue) + 1 \/ i \in 1 .. Len(queue)
    BY <1>3
  <1>5. /\ \A w \in Workers : (Busy(w)' <=> Busy(w)) /\ (Busy(w) => worker[w].query # q)
        /\ \A i \in 1 .. Len(queue) : queue[i] # q
        /\ \A p \in Queries : query'[p] = IF p = q THEN "queued" ELSE query[p]
    BY <1>1, <1>3 DEF IInv, TypeOK, OnePlace, Busy
  <1>6. OnePlace'
    <2>1. \A w \in Workers : Busy(w) => worker[w].query \in Queries /\ query'[worker[w].query] = "queued"
      BY <1>5 DEF IInv, OnePlace
    <2>2. \A i \in 1 .. Len(queue') : query'[queue'[i]] = "queued"
      BY <1>3, <1>4, <1>5 DEF IInv, OnePlace
    <2>3. \A i \in 1 .. Len(queue'), w \in Workers : Busy(w) => worker[w].query # queue'[i]
      BY <1>3, <1>4, <1>5 DEF IInv, OnePlace
    <2>4. \A i, j \in 1 .. Len(queue') : queue'[i] = queue'[j] => i = j
      BY <1>3, <1>4, <1>5 DEF IInv, OnePlace
    <2>5. \A v, w \in Workers : Busy(v) /\ Busy(w) /\ worker[v].query = worker[w].query => v = w
      BY DEF IInv, OnePlace
    <2> QED BY <1>1, <1>5, <2>1, <2>2, <2>3, <2>4, <2>5 DEF OnePlace, Busy
  <1>7. Counted'
    <2>1. \A p \in Queries : query'[p] \in {"idle", "started"} => sends[p] = 0
      BY <1>5 DEF IInv, Counted
    <2>2. \A i \in 1 .. Len(queue') : sends[queue'[i]] = 0
      BY <1>1, <1>3, <1>4 DEF IInv, Counted
    <2>3. ~panicked => \A w \in Workers : Busy(w) => sends[worker[w].query] + worker[w].retries = MaxRetries
      BY DEF IInv, Counted
    <2> QED BY <1>1, <2>1, <2>2, <2>3 DEF Counted, Busy
  <1>8. Honest'
    BY <1>1, <1>5 DEF IInv, Honest, Result, IsRateLimited
  <1>9. Callers'
    BY <1>1, <1>5 DEF IInv, Callers, TypeOK, GroupState, Queries
  <1> QED BY <1>2, <1>6, <1>7, <1>8, <1>9 DEF IInv

(* taken by a worker, *)
LEMMA DequeueIInv ==
  ASSUME IInv, NEW w \in Workers, Dequeue(w)
  PROVE  IInv'
  <1>1. PICK q : q = Head(queue)
    OBVIOUS
  <1>2. PICK n : n = [at |-> "send", query |-> q, retries |-> MaxRetries, first |-> TRUE]
    OBVIOUS
  <1>3. /\ worker[w].at = "idle" /\ queue # << >> /\ queue' = Tail(queue)
        /\ worker' = [worker EXCEPT ![w] = n]
        /\ UNCHANGED <<info, troubles, query, reply, last, sends, group, refresh, clusters, stopped, panicked>>
    BY <1>1, <1>2 DEF Dequeue, serverVars, mapVars
  <1>4. /\ Len(queue') = Len(queue) - 1 /\ Len(queue) \in Nat \ {0} /\ q = queue[1] /\ q \in Queries
        /\ \A i \in 1 .. Len(queue') : queue'[i] = queue[i + 1] /\ i + 1 \in 1 .. Len(queue) /\ i + 1 # 1
        /\ 1 \in 1 .. Len(queue) /\ queue' \in Seq(Queries)
    BY <1>1, <1>3 DEF IInv, TypeOK
  <1>5. n \in WorkerState /\ n.at = "send" /\ n.query = q /\ n.retries = MaxRetries
    <2>1. MaxRetries \in 0 .. MaxRetries
      BY PromAssumption
    <2>2. TRUE \in BOOLEAN
      OBVIOUS
    <2> QED BY <1>2, <1>4, <2>1, <2>2 DEF WorkerState
  <1>6. TypeOK'
    <2>1. worker' \in [Workers -> WorkerState]
      BY <1>3, <1>5 DEF IInv, TypeOK
    <2> QED BY <1>3, <1>4, <2>1 DEF IInv, TypeOK
  <1>7. \A v \in Workers : worker'[v] = IF v = w THEN n ELSE worker[v]
    BY <1>3 DEF IInv, TypeOK
  <1>8. /\ Busy(w)' /\ ~Busy(w) /\ worker'[w].query = q /\ worker'[w].retries = MaxRetries
        /\ \A v \in Workers : v # w => (Busy(v)' <=> Busy(v)) /\ worker'[v] = worker[v]
    BY <1>3, <1>5, <1>7 DEF Busy
  <1>9. OnePlace'
    <2>1. \A v \in Workers : Busy(v)' => worker'[v].query \in Queries /\ query[worker'[v].query] = "queued"
      BY <1>4, <1>8 DEF IInv, OnePlace
    <2>2. \A u, v \in Workers : Busy(u)' /\ Busy(v)' /\ worker'[u].query = worker'[v].query => u = v
      BY <1>4, <1>8 DEF IInv, OnePlace
    <2>3. \A i \in 1 .. Len(queue') : query[queue'[i]] = "queued"
      BY <1>4 DEF IInv, OnePlace
    <2>4. \A i \in 1 .. Len(queue') : queue'[i] # q
      BY <1>4 DEF IInv, OnePlace
    <2>5. \A i \in 1 .. Len(queue'), v \in Workers : Busy(v)' => worker'[v].query # queue'[i]
      BY <1>4, <1>8, <2>4 DEF IInv, OnePlace
    <2>6. \A i, j \in 1 .. Len(queue') : queue'[i] = queue'[j] => i = j
      <3> SUFFICES ASSUME NEW i \in 1 .. Len(queue'), NEW j \in 1 .. Len(queue'), queue'[i] = queue'[j]
                   PROVE  i = j
        OBVIOUS
      <3>1. i + 1 = j + 1
        BY <1>4 DEF IInv, OnePlace
      <3> QED BY <1>4, <3>1
    <2> QED BY <1>3, <2>1, <2>2, <2>3, <2>5, <2>6 DEF OnePlace
  <1>10. Counted'
    <2>1. sends[q] = 0
      BY <1>4 DEF IInv, Counted
    <2>2. \A i \in 1 .. Len(queue') : sends[queue'[i]] = 0
      BY <1>4 DEF IInv, Counted
    <2>3. ~panicked => \A v \in Workers : Busy(v)' => sends[worker'[v].query] + worker'[v].retries = MaxRetries
      <3>1. sends[worker'[w].query] + worker'[w].retries = MaxRetries
        BY <1>8, <2>1, PromAssumption
      <3> QED BY <1>8, <3>1 DEF IInv, Counted
    <2>4. \A p \in Queries : query[p] \in {"idle", "started"} => sends[p] = 0
      BY DEF IInv, Counted
    <2> QED BY <1>3, <2>2, <2>3, <2>4 DEF Counted
  <1>11. Honest' /\ Callers'
    BY <1>3 DEF IInv, Honest, Callers, Result, IsRateLimited
  <1> QED BY <1>6, <1>9, <1>10, <1>11 DEF IInv

(* and waits for the rate limit. *)
LEMMA WaitIInv ==
  ASSUME IInv, NEW w \in Workers, Wait(w)
  PROVE  IInv'
  <1>1. /\ worker[w].at = "wait"
        /\ worker' = [worker EXCEPT ![w] = [[@ EXCEPT !.at = "send"] EXCEPT !.first = FALSE]]
        /\ UNCHANGED <<info, troubles, query, queue, reply, last, sends, group, refresh, clusters, stopped, panicked>>
    BY DEF Wait, serverVars, mapVars
  <1>2. PICK n : n = [[worker[w] EXCEPT !.at = "send"] EXCEPT !.first = FALSE]
    OBVIOUS
  <1>3. n \in WorkerState /\ n.at = "send" /\ n.query = worker[w].query /\ n.retries = worker[w].retries
    BY <1>2, WorkerAt DEF WorkerState, IInv
  <1>4. \A v \in Workers : worker'[v] = IF v = w THEN n ELSE worker[v]
    BY <1>1, <1>2 DEF IInv, TypeOK
  <1>5. TypeOK'
    <2>1. worker' \in [Workers -> WorkerState]
      BY <1>1, <1>2, <1>3 DEF IInv, TypeOK
    <2> QED BY <1>1, <2>1 DEF IInv, TypeOK
  <1>6. \A v \in Workers : /\ Busy(v)' <=> Busy(v)
                           /\ worker'[v].query = worker[v].query
                           /\ worker'[v].retries = worker[v].retries
    BY <1>1, <1>3, <1>4 DEF Busy
  <1>7. OnePlace'
    BY <1>1, <1>6 DEF IInv, OnePlace
  <1>8. Counted'
    BY <1>1, <1>6 DEF IInv, Counted
  <1>9. Honest' /\ Callers'
    BY <1>1 DEF IInv, Honest, Callers, Result, IsRateLimited
  <1> QED BY <1>5, <1>7, <1>8, <1>9 DEF IInv

(* A request that hangs stays in the hands of its worker. *)
LEMMA HangIInv ==
  ASSUME IInv, NEW w \in Workers, Hang(w)
  PROVE  IInv'
  <1>1. /\ worker[w].at = "send" /\ troubles < MaxTroubles /\ troubles' = troubles + 1
        /\ worker' = [worker EXCEPT ![w] = [@ EXCEPT !.at = "hung"]]
        /\ UNCHANGED <<info, query, queue, reply, last, sends, group, refresh, clusters, stopped, panicked>>
    BY DEF Hang, mapVars
  <1>2. PICK n : n = [worker[w] EXCEPT !.at = "hung"]
    OBVIOUS
  <1>3. n \in WorkerState /\ n.at = "hung" /\ n.query = worker[w].query /\ n.retries = worker[w].retries
    BY <1>2, WorkerAt DEF WorkerState, IInv
  <1>4. \A v \in Workers : worker'[v] = IF v = w THEN n ELSE worker[v]
    BY <1>1, <1>2 DEF IInv, TypeOK
  <1>5. TypeOK'
    <2>1. worker' \in [Workers -> WorkerState]
      BY <1>1, <1>2, <1>3 DEF IInv, TypeOK
    <2>2. troubles' \in 0 .. MaxTroubles
      BY <1>1, PromAssumption DEF IInv, TypeOK
    <2> QED BY <1>1, <2>1, <2>2 DEF IInv, TypeOK
  <1>6. \A v \in Workers : /\ Busy(v)' <=> Busy(v)
                           /\ worker'[v].query = worker[v].query
                           /\ worker'[v].retries = worker[v].retries
    BY <1>1, <1>3, <1>4 DEF Busy
  <1>7. OnePlace'
    BY <1>1, <1>6 DEF IInv, OnePlace
  <1>8. Counted'
    BY <1>1, <1>6 DEF IInv, Counted
  <1>9. Honest' /\ Callers'
    BY <1>1 DEF IInv, Honest, Callers, Result, IsRateLimited
  <1> QED BY <1>5, <1>7, <1>8, <1>9 DEF IInv

(* A worker sends its request and has its answer. *)
LEMMA SendIInv ==
  ASSUME IInv, ~panicked, NEW w \in Workers, Send(w)
  PROVE  IInv'
  <1>0. PICK q : q = worker[w].query
    OBVIOUS
  <1>1. PICK a \in Answers :
          /\ a # "ok" => troubles < MaxTroubles
          /\ troubles' = IF a = "ok" THEN troubles ELSE troubles + 1
          /\ last' = [last EXCEPT ![q] = a]
          /\ sends' = [sends EXCEPT ![q] = @ + 1]
          /\ \/ /\ a = "down" /\ ~worker[w].first
                /\ panicked' = TRUE
                /\ UNCHANGED <<worker, query, reply>>
             \/ /\ Again(w, a)
                /\ worker' = [worker EXCEPT ![w].at = "wait", ![w].retries = @ - 1]
                /\ UNCHANGED <<query, reply, panicked>>
             \/ /\ ~Again(w, a)
                /\ a = "down" => worker[w].first
                /\ worker' = [worker EXCEPT ![w] = NextRequest]
                /\ query' = [query EXCEPT ![q] = "replied"]
                /\ reply' = [reply EXCEPT ![q] = [result |-> Result(a), info |-> Content(q, a)]]
                /\ UNCHANGED panicked
    BY <1>0 DEF Send
  <1>2. /\ worker[w].at = "send" /\ Busy(w)
        /\ UNCHANGED <<info, queue, group, refresh, clusters, stopped>>
    BY DEF Send, Busy, mapVars
  <1>3. /\ q \in Queries /\ query[q] = "queued" /\ sends[q] \in Nat /\ worker[w].retries \in 0 .. MaxRetries
        /\ sends[q] + worker[w].retries = MaxRetries
        /\ \A i \in 1 .. Len(queue) : queue[i] # q
        /\ \A v \in Workers : v # w /\ Busy(v) => worker[v].query # q
    <2>1. q \in Queries /\ query[q] = "queued" /\ sends[q] + worker[w].retries = MaxRetries
      BY <1>0, <1>2 DEF IInv, OnePlace, Counted
    <2>2. \A i \in 1 .. Len(queue) : queue[i] # q
      BY <1>0, <1>2 DEF IInv, OnePlace
    <2>3. \A v \in Workers : v # w /\ Busy(v) => worker[v].query # q
      BY <1>0, <1>2 DEF IInv, OnePlace
    <2>4. sends[q] \in Nat /\ worker[w].retries \in 0 .. MaxRetries
      BY <2>1, WorkerAt DEF IInv, TypeOK
    <2> QED BY <2>1, <2>2, <2>3, <2>4
  <1>4. /\ \A p \in Queries : last'[p] = IF p = q THEN a ELSE last[p]
        /\ \A p \in Queries : sends'[p] = IF p = q THEN sends[q] + 1 ELSE sends[p]
        /\ last' \in [Queries -> Answers \cup {None}] /\ sends' \in [Queries -> Nat]
        /\ troubles' \in 0 .. MaxTroubles
    <2>1. troubles' \in 0 .. MaxTroubles
      BY <1>1, PromAssumption DEF IInv, TypeOK
    <2>2. last' = [last EXCEPT ![q] = a] /\ sends' = [sends EXCEPT ![q] = @ + 1]
      BY <1>1
    <2> QED BY <1>3, <2>1, <2>2 DEF IInv, TypeOK
  <1>5. (\A i \in 1 .. Len(queue) : queue[i] \in Queries) /\ \A i \in 1 .. Len(queue) : sends'[queue[i]] = 0
    <2>1. \A i \in 1 .. Len(queue) : queue[i] \in Queries /\ queue[i] # q
      BY <1>3 DEF IInv, TypeOK
    <2> QED BY <1>4, <2>1 DEF IInv, Counted
  (* Awaited queries are idle, so that what the group noted stays true. *)
  <1>6. \A p \in group.awaited : p \in Queries /\ p # q /\ last'[p] = last[p]
    <2>1. \A p \in group.awaited : p \in Queries /\ p # q
      BY <1>3 DEF IInv, Callers, TypeOK, GroupState, Queries
    <2> QED BY <1>4, <2>1
  <1>7. ASSUME \A p \in Queries \ {q} : query'[p] = query[p], query'[q] # "idle"
        PROVE  Callers'
    <2>1. group.at = "idle" => q \notin Group
      BY <1>3 DEF IInv, Callers
    <2>2. refresh.at # "await" => q # MapQuery
      BY <1>3 DEF IInv, Callers
    <2>3. group.at = "idle" => \A p \in Group : query'[p] = "idle"
      BY <1>7, <2>1 DEF IInv, Callers, Queries
    <2>4. \A p \in group.awaited : query'[p] = "idle"
      BY <1>6, <1>7 DEF IInv, Callers
    <2>5. {p \in group.awaited : last'[p] \notin {"ok", "partial"}} = {p \in group.awaited : last[p] \notin {"ok", "partial"}}
      BY <1>6
    <2>6. refresh.at # "await" => query'[MapQuery] = "idle"
      BY <1>7, <2>2 DEF IInv, Callers, Queries
    <2> QED BY <1>2, <2>3, <2>4, <2>5, <2>6 DEF IInv, Callers
  <1>8. CASE /\ panicked' = TRUE
             /\ UNCHANGED <<worker, query, reply>>
    <2>1. TypeOK'
      <3>1. panicked' \in BOOLEAN
        BY <1>8
      <3> QED BY <1>2, <1>4, <1>8, <3>1 DEF IInv, TypeOK
    <2>2. OnePlace'
      BY <1>2, <1>8 DEF IInv, OnePlace, Busy
    <2>3. \A p \in Queries : query[p] \in {"idle", "started"} => sends'[p] = 0
      BY <1>3, <1>4 DEF IInv, Counted
    <2>4. Counted'
      BY <1>2, <1>5, <1>8, <2>3 DEF Counted
    <2>5. Honest'
      BY <1>3, <1>4, <1>8 DEF IInv, Honest, Result, IsRateLimited
    <2>6. Callers'
      BY <1>3, <1>7, <1>8
    <2> QED BY <2>1, <2>2, <2>4, <2>5, <2>6 DEF IInv
  <1>9. CASE /\ Again(w, a)
             /\ worker' = [worker EXCEPT ![w].at = "wait", ![w].retries = @ - 1]
             /\ UNCHANGED <<query, reply, panicked>>
    <2>0. worker[w].retries > 0
      BY <1>9 DEF Again
    <2>1. PICK n : n = [[worker[w] EXCEPT !.at = "wait"] EXCEPT !.retries = @ - 1]
      OBVIOUS
    <2>2. worker' = [worker EXCEPT ![w] = n]
      BY <1>9, <2>1
    <2>3. worker[w].retries - 1 \in 0 .. MaxRetries
      BY <1>3, <2>0, PromAssumption
    <2>4. n \in WorkerState /\ n.at = "wait" /\ n.query = q /\ n.retries = worker[w].retries - 1
      BY <1>0, <2>1, <2>3, WorkerAt DEF WorkerState, IInv
    <2>5. \A v \in Workers : worker'[v] = IF v = w THEN n ELSE worker[v]
      BY <2>2 DEF IInv, TypeOK
    <2>6. \A v \in Workers : /\ Busy(v)' <=> Busy(v)
                             /\ worker'[v].query = worker[v].query
                             /\ v # w => worker'[v].retries = worker[v].retries
      BY <1>0, <1>2, <2>4, <2>5 DEF Busy
    <2>7. TypeOK'
      <3>1. worker' \in [Workers -> WorkerState]
        BY <2>2, <2>4 DEF IInv, TypeOK
      <3> QED BY <1>2, <1>4, <1>9, <3>1 DEF IInv, TypeOK
    <2>8. OnePlace'
      <3>1. \A v \in Workers : Busy(v)' => worker'[v].query \in Queries /\ query[worker'[v].query] = "queued"
        BY <2>6 DEF IInv, OnePlace
      <3>2. \A u, v \in Workers : Busy(u)' /\ Busy(v)' /\ worker'[u].query = worker'[v].query => u = v
        BY <2>6 DEF IInv, OnePlace
      <3>3. \A i \in 1 .. Len(queue), v \in Workers : Busy(v)' => worker'[v].query # queue[i]
        BY <2>6 DEF IInv, OnePlace
      <3> QED BY <1>2, <1>9, <3>1, <3>2, <3>3 DEF IInv, OnePlace
    <2>9. Counted'
      <3>1. \A p \in Queries : query[p] \in {"idle", "started"} => sends'[p] = 0
        BY <1>3, <1>4 DEF IInv, Counted
      <3>2. sends'[worker'[w].query] + worker'[w].retries = MaxRetries
        <4>1. sends'[worker'[w].query] = sends[q] + 1 /\ worker'[w].retries = worker[w].retries - 1
          BY <1>0, <1>3, <1>4, <2>4, <2>5, <2>6
        <4> QED BY <1>3, <4>1, PromAssumption
      <3>3. \A v \in Workers : v # w /\ Busy(v) => sends'[worker'[v].query] + worker'[v].retries = MaxRetries
        <4>1. \A v \in Workers : v # w /\ Busy(v) => worker[v].query \in Queries
                                                     /\ sends[worker[v].query] + worker[v].retries = MaxRetries
          BY DEF IInv, OnePlace, Counted
        <4> QED BY <1>3, <1>4, <2>6, <4>1
      <3> QED BY <1>2, <1>5, <1>9, <2>6, <3>1, <3>2, <3>3 DEF Counted
    <2>10. Honest'
      BY <1>3, <1>4, <1>9 DEF IInv, Honest, Result, IsRateLimited
    <2>11. Callers'
      BY <1>3, <1>7, <1>9
    <2> QED BY <2>7, <2>8, <2>9, <2>10, <2>11 DEF IInv
  <1>10. CASE /\ ~Again(w, a)
              /\ worker' = [worker EXCEPT ![w] = NextRequest]
              /\ query' = [query EXCEPT ![q] = "replied"]
              /\ reply' = [reply EXCEPT ![q] = [result |-> Result(a), info |-> Content(q, a)]]
              /\ UNCHANGED panicked
    <2>1. \A v \in Workers : worker'[v] = IF v = w THEN Nobody ELSE worker[v]
      BY <1>10 DEF IInv, TypeOK, NextRequest
    <2>2. ~Busy(w)' /\ \A v \in Workers : v # w => (Busy(v)' <=> Busy(v)) /\ worker'[v] = worker[v]
      BY <2>1, NobodyIs DEF Busy
    <2>3. PICK r : r = [result |-> Result(a), info |-> Content(q, a)]
      OBVIOUS
    <2>4. r \in ReplyState /\ r.result = Result(a)
      <3>1. Result(a) \in Answers \cup {"throttled", None}
        BY DEF Result
      <3>2. Content(q, a) \in Nat
        BY PromAssumption DEF Content, Unset, IInv, TypeOK
      <3> QED BY <2>3, <3>1, <3>2 DEF ReplyState
    <2>5. reply' = [reply EXCEPT ![q] = r]
      BY <1>10, <2>3
    <2>6. \A p \in Queries : query'[p] = (IF p = q THEN "replied" ELSE query[p])
                             /\ reply'[p] = (IF p = q THEN r ELSE reply[p])
      BY <1>10, <2>5 DEF IInv, TypeOK
    <2>7. TypeOK'
      <3>1. worker' \in [Workers -> WorkerState]
        BY <1>10, NobodyIs DEF IInv, TypeOK, NextRequest
      <3>2. query' \in [Queries -> QueryStates]
        BY <1>10 DEF IInv, TypeOK, QueryStates
      <3>3. reply' \in [Queries -> ReplyState]
        BY <2>4, <2>5 DEF IInv, TypeOK
      <3> QED BY <1>2, <1>4, <1>10, <3>1, <3>2, <3>3 DEF IInv, TypeOK
    <2>8. OnePlace'
      <3>1. \A v \in Workers : Busy(v)' => worker'[v].query \in Queries /\ query'[worker'[v].query] = "queued"
        BY <1>3, <2>2, <2>6 DEF IInv, OnePlace
      <3>2. \A u, v \in Workers : Busy(u)' /\ Busy(v)' /\ worker'[u].query = worker'[v].query => u = v
        BY <2>2 DEF IInv, OnePlace
      <3>3. \A i \in 1 .. Len(queue) : query'[queue[i]] = "queued"
        BY <1>3, <1>5, <2>6 DEF IInv, OnePlace
      <3>4. \A i \in 1 .. Len(queue), v \in Workers : Busy(v)' => worker'[v].query # queue[i]
        BY <2>2 DEF IInv, OnePlace
      <3>5. \A i, j \in 1 .. Len(queue) : queue[i] = queue[j] => i = j
        BY DEF IInv, OnePlace
      <3> QED BY <1>2, <3>1, <3>2, <3>3, <3>4, <3>5 DEF OnePlace
    <2>9. Counted'
      <3>1. \A p \in Queries : query'[p] \in {"idle", "started"} => sends'[p] = 0
        BY <1>4, <2>6 DEF IInv, Counted
      <3>2. \A v \in Workers : Busy(v)' => sends'[worker'[v].query] + worker'[v].retries = MaxRetries
        <4>1. \A v \in Workers : v # w /\ Busy(v) => worker[v].query \in Queries
                                                     /\ sends[worker[v].query] + worker[v].retries = MaxRetries
          BY DEF IInv, OnePlace, Counted
        <4> QED BY <1>3, <1>4, <2>2, <4>1
      <3> QED BY <1>2, <1>5, <3>1, <3>2 DEF Counted
    <2>10. Honest'
      <3>1. ASSUME Retry, a = "limited" PROVE sends'[q] = MaxRetries + 1
        <4>1. ~(worker[w].retries > 0)
          BY <1>10, <3>1 DEF Again, IsRateLimited
        <4>2. worker[w].retries = 0
          BY <1>3, <4>1, PromAssumption
        <4> QED BY <1>3, <1>4, <4>2, PromAssumption
      <3>2. last'[q] = a /\ reply'[q].result = Result(a)
        BY <1>3, <1>4, <2>4, <2>6
      <3>3. ASSUME NEW p \in Queries, query'[p] = "replied"
            PROVE  /\ last'[p] \in Answers
                   /\ reply'[p].result = Result(last'[p])
                   /\ Retry /\ last'[p] = "limited" => sends'[p] = MaxRetries + 1
        <4>1. CASE p = q
          BY <3>1, <3>2, <4>1
        <4>2. CASE p # q
          BY <1>4, <2>6, <3>3, <4>2 DEF IInv, Honest
        <4> QED BY <4>1, <4>2
      <3> QED BY <3>3 DEF Honest, Result, IsRateLimited
    <2>11. Callers'
      BY <1>3, <1>7, <2>6
    <2> QED BY <2>7, <2>8, <2>9, <2>10, <2>11 DEF IInv
  <1> QED BY <1>1, <1>8, <1>9, <1>10

(* The caller of a query takes its result. *)
LEMMA AwaitedKept ==
  ASSUME IInv, NEW q \in Queries, Awaited(q), \A p \in Queries \ {q} : last'[p] = last[p]
  PROVE  /\ OnePlace' /\ Counted' /\ Honest'
         /\ query' \in [Queries -> QueryStates] /\ reply' \in [Queries -> ReplyState] /\ sends' \in [Queries -> Nat]
         /\ \A p \in Queries : query'[p] = IF p = q THEN "idle" ELSE query[p]
         /\ Errored(q) <=> last[q] \notin {"ok", "partial"}
  <1>1. /\ query[q] = "replied" /\ query' = [query EXCEPT ![q] = "idle"]
        /\ reply' = [reply EXCEPT ![q] = NoReply] /\ sends' = [sends EXCEPT ![q] = 0]
        /\ UNCHANGED <<queue, worker, panicked>>
    BY DEF Awaited
  <1>2. /\ \A p \in Queries : query'[p] = (IF p = q THEN "idle" ELSE query[p])
                              /\ sends'[p] = (IF p = q THEN 0 ELSE sends[p])
                              /\ (p # q => reply'[p] = reply[p])
        /\ query' \in [Queries -> QueryStates] /\ reply' \in [Queries -> ReplyState] /\ sends' \in [Queries -> Nat]
    BY <1>1, NobodyIs DEF IInv, TypeOK, QueryStates
  <1>3. /\ \A w \in Workers : Busy(w) => worker[w].query \in Queries /\ worker[w].query # q
        /\ \A i \in 1 .. Len(queue) : queue[i] \in Queries /\ queue[i] # q
    BY <1>1 DEF IInv, TypeOK, OnePlace
  <1>4. OnePlace'
    <2>1. \A w \in Workers : Busy(w) => worker[w].query \in Queries /\ query'[worker[w].query] = "queued"
      BY <1>2, <1>3 DEF IInv, OnePlace
    <2>2. \A i \in 1 .. Len(queue) : query'[queue[i]] = "queued"
      BY <1>2, <1>3 DEF IInv, OnePlace
    <2> QED BY <1>1, <2>1, <2>2 DEF IInv, OnePlace, Busy
  <1>5. Counted'
    <2>1. \A p \in Queries : query'[p] \in {"idle", "started"} => sends'[p] = 0
      BY <1>2 DEF IInv, Counted
    <2>2. \A i \in 1 .. Len(queue) : sends'[queue[i]] = 0
      BY <1>2, <1>3 DEF IInv, Counted
    <2>3. ~panicked => \A w \in Workers : Busy(w) => sends'[worker[w].query] + worker[w].retries = MaxRetries
      BY <1>2, <1>3 DEF IInv, Counted
    <2> QED BY <1>1, <2>1, <2>2, <2>3 DEF Counted, Busy
  <1>6. Honest'
    BY <1>2 DEF IInv, Honest, Result, IsRateLimited
  <1>7. Errored(q) <=> last[q] \notin {"ok", "partial"}
    <2>1. last[q] \in Answers /\ reply[q].result = Result(last[q])
      BY <1>1 DEF IInv, Honest
    <2>2. CASE Retry /\ last[q] = "limited"
      BY <2>1, <2>2 DEF Errored, Result, IsRateLimited
    <2>3. CASE ~(Retry /\ last[q] = "limited")
      BY <2>1, <2>3 DEF Errored, Result, IsRateLimited
    <2> QED BY <2>2, <2>3
  <1> QED BY <1>2, <1>4, <1>5, <1>6, <1>7

(* The computation and its queries. *)
LEMMA GroupIInv ==
  ASSUME IInv, Compute \/ ComputeReturns \/ \E q \in Group : Await(q)
  PROVE  IInv'
  <1>0. /\ group.at \in {"idle", "await"} /\ group.awaited \subseteq Group /\ group.errors \subseteq Group
        /\ Group \subseteq Queries /\ MapQuery \in Queries /\ MapQuery \notin Group
    BY PromAssumption DEF IInv, TypeOK, GroupState, Queries
  <1>1. CASE Compute
    <2>1. /\ group.at = "idle" /\ group' = [at |-> "await", awaited |-> {}, errors |-> {}]
          /\ query' = [q \in Queries |-> IF q \in Group THEN "started" ELSE query[q]]
          /\ UNCHANGED <<info, troubles, queue, worker, reply, last, sends, refresh, clusters, stopped, panicked>>
      BY <1>1 DEF Compute, serverVars, mapVars
    <2>2. \A q \in Group : query[q] = "idle" /\ sends[q] = 0
      BY <1>0, <2>1 DEF IInv, Callers, Counted
    <2>3. \A q \in Queries : query'[q] = IF q \in Group THEN "started" ELSE query[q]
      BY <2>1
    <2>4. TypeOK'
      <3>1. query' \in [Queries -> QueryStates]
        BY <2>1 DEF IInv, TypeOK, QueryStates
      <3>2. group' \in GroupState
        BY <2>1 DEF GroupState
      <3> QED BY <2>1, <3>1, <3>2 DEF IInv, TypeOK
    <2>5. OnePlace'
      <3>1. \A w \in Workers : Busy(w) => worker[w].query \in Queries /\ query'[worker[w].query] = "queued"
        BY <2>2, <2>3 DEF IInv, OnePlace
      <3>2. \A i \in 1 .. Len(queue) : queue[i] \in Queries
        BY DEF IInv, TypeOK
      <3>3. \A i \in 1 .. Len(queue) : query'[queue[i]] = "queued"
        BY <2>2, <2>3, <3>2 DEF IInv, OnePlace
      <3> QED BY <2>1, <3>1, <3>3 DEF IInv, OnePlace, Busy
    <2>6. Counted' /\ Honest'
      <3>1. \A q \in Queries : query'[q] \in {"idle", "started"} => sends[q] = 0
        BY <2>2, <2>3 DEF IInv, Counted
      <3>2. Counted'
        BY <2>1, <3>1 DEF IInv, Counted, Busy
      <3>3. Honest'
        BY <2>1, <2>3 DEF IInv, Honest, Result, IsRateLimited
      <3> QED BY <3>2, <3>3
    <2>7. Callers'
      BY <1>0, <2>1, <2>3 DEF IInv, Callers
    <2> QED BY <2>4, <2>5, <2>6, <2>7 DEF IInv
  <1>2. ASSUME NEW q \in Group, Await(q) PROVE IInv'
    <2>1. /\ group.at = "await" /\ q \notin group.awaited /\ Awaited(q)
          /\ UNCHANGED <<last, refresh, clusters, stopped, info, troubles, queue, worker, panicked>>
          /\ group' = [group EXCEPT !.awaited = @ \cup {q}, !.errors = IF Errored(q) THEN @ \cup {q} ELSE @]
      BY <1>2 DEF Await, Awaited, serverVars, mapVars
    <2>2. /\ OnePlace' /\ Counted' /\ Honest'
          /\ query' \in [Queries -> QueryStates] /\ reply' \in [Queries -> ReplyState] /\ sends' \in [Queries -> Nat]
          /\ \A p \in Queries : query'[p] = IF p = q THEN "idle" ELSE query[p]
          /\ Errored(q) <=> last[q] \notin {"ok", "partial"}
      BY <1>0, <2>1, AwaitedKept
    <2>3. /\ group' \in GroupState /\ group'.at = "await" /\ group'.awaited = group.awaited \cup {q}
          /\ group'.errors = IF Errored(q) THEN group.errors \cup {q} ELSE group.errors
      BY <1>0, <2>1 DEF IInv, TypeOK, GroupState
    <2>4. TypeOK'
      BY <2>1, <2>2, <2>3 DEF IInv, TypeOK
    <2>5. group.errors = {p \in group.awaited : last[p] \notin {"ok", "partial"}}
      BY <2>1 DEF IInv, Callers
    <2>6. group'.errors = {p \in group'.awaited : last'[p] \notin {"ok", "partial"}}
      <3>1. CASE Errored(q)
        BY <2>1, <2>2, <2>3, <2>5, <3>1
      <3>2. CASE ~Errored(q)
        BY <2>1, <2>2, <2>3, <2>5, <3>2
      <3> QED BY <3>1, <3>2
    <2>7. Callers'
      BY <1>0, <2>1, <2>2, <2>3, <2>6 DEF IInv, Callers
    <2> QED BY <2>2, <2>4, <2>7 DEF IInv
  <1>3. CASE ComputeReturns
    <2>1. /\ group.at = "await" /\ group.awaited = Group
          /\ group' = [at |-> "idle", awaited |-> {}, errors |-> {}]
          /\ last' = [q \in Queries |-> IF q \in Group THEN None ELSE last[q]]
          /\ UNCHANGED <<info, troubles, query, queue, worker, reply, sends, refresh, clusters, stopped, panicked>>
      BY <1>3 DEF ComputeReturns, serverVars, mapVars
    <2>2. \A q \in Group : query[q] = "idle"
      BY <2>1 DEF IInv, Callers
    <2>3. TypeOK'
      <3>1. last' \in [Queries -> Answers \cup {None}]
        BY <2>1 DEF IInv, TypeOK
      <3>2. group' \in GroupState
        BY <2>1 DEF GroupState
      <3> QED BY <2>1, <3>1, <3>2 DEF IInv, TypeOK
    <2>4. OnePlace'
      BY <2>1 DEF IInv, OnePlace, Busy
    <2>5. Counted'
      BY <2>1 DEF IInv, Counted, Busy
    <2>6. Honest'
      BY <2>1, <2>2 DEF IInv, Honest, Result, IsRateLimited
    <2>7. Callers'
      BY <2>1, <2>2 DEF IInv, Callers
    <2> QED BY <2>3, <2>4, <2>5, <2>6, <2>7 DEF IInv
  <1> QED BY <1>1, <1>2, <1>3

(* The loop of the cluster map and its query. *)
LEMMA MapIInv ==
  ASSUME IInv, RefreshStep \/ RefreshStops \/ StopRefresh
  PROVE  IInv'
  <1>0. /\ refresh.at \in {"try", "await", "select", "done"} /\ refresh.attempts \in 1 .. LoadRetries
        /\ group.awaited \subseteq Group /\ Group \subseteq Queries /\ MapQuery \in Queries /\ MapQuery \notin Group
    BY PromAssumption DEF IInv, TypeOK, GroupState, RefreshState, Queries
  <1>1. AtSelect \in RefreshState /\ AtSelect.at = "select"
    <2>1. LoadRetries \in 1 .. LoadRetries
      BY PromAssumption
    <2>2. (~stopped) \in BOOLEAN
      OBVIOUS
    <2> QED BY <2>1, <2>2 DEF AtSelect, RefreshState
  <1>2. CASE LoadQuery
    <2>1. /\ refresh.at = "try" /\ refresh' = [refresh EXCEPT !.at = "await"]
          /\ query' = [query EXCEPT ![MapQuery] = "started"]
          /\ UNCHANGED <<info, troubles, queue, worker, reply, last, sends, group, clusters, stopped, panicked>>
      BY <1>2 DEF LoadQuery, serverVars
    <2>2. query[MapQuery] = "idle" /\ sends[MapQuery] = 0
      BY <1>0, <2>1 DEF IInv, Callers, Counted
    <2>3. \A q \in Queries : query'[q] = IF q = MapQuery THEN "started" ELSE query[q]
      BY <2>1 DEF IInv, TypeOK
    <2>4. refresh' \in RefreshState /\ refresh'.at = "await"
      BY <2>1 DEF IInv, TypeOK, RefreshState
    <2>5. TypeOK'
      <3>1. query' \in [Queries -> QueryStates]
        BY <2>1 DEF IInv, TypeOK, QueryStates
      <3> QED BY <2>1, <2>4, <3>1 DEF IInv, TypeOK
    <2>6. OnePlace'
      <3>1. \A w \in Workers : Busy(w) => worker[w].query \in Queries /\ query'[worker[w].query] = "queued"
        BY <2>2, <2>3 DEF IInv, OnePlace
      <3>2. \A i \in 1 .. Len(queue) : queue[i] \in Queries
        BY DEF IInv, TypeOK
      <3>3. \A i \in 1 .. Len(queue) : query'[queue[i]] = "queued"
        BY <2>2, <2>3, <3>2 DEF IInv, OnePlace
      <3> QED BY <2>1, <3>1, <3>3 DEF IInv, OnePlace, Busy
    <2>7. Counted' /\ Honest'
      <3>1. \A q \in Queries : query'[q] \in {"idle", "started"} => sends[q] = 0
        BY <2>2, <2>3 DEF IInv, Counted
      <3>2. Counted'
        BY <2>1, <3>1 DEF IInv, Counted, Busy
      <3>3. Honest'
        BY <2>1, <2>3 DEF IInv, Honest, Result, IsRateLimited
      <3> QED BY <3>2, <3>3
    <2>8. Callers'
      BY <1>0, <2>1, <2>3, <2>4 DEF IInv, Callers
    <2> QED BY <2>5, <2>6, <2>7, <2>8 DEF IInv
  <1>3. CASE LoadAwait
    <2>1. /\ refresh.at = "await" /\ Awaited(MapQuery)
          /\ last' = [last EXCEPT ![MapQuery] = None]
          /\ UNCHANGED <<group, stopped, info, troubles, queue, worker, panicked>>
      BY <1>3 DEF LoadAwait, Awaited, serverVars
    <2>2. /\ \A p \in Queries \ {MapQuery} : last'[p] = last[p]
          /\ last' \in [Queries -> Answers \cup {None}]
      BY <2>1 DEF IInv, TypeOK
    <2>3. /\ OnePlace' /\ Counted' /\ Honest'
          /\ query' \in [Queries -> QueryStates] /\ reply' \in [Queries -> ReplyState] /\ sends' \in [Queries -> Nat]
          /\ \A p \in Queries : query'[p] = IF p = MapQuery THEN "idle" ELSE query[p]
      BY <1>0, <2>1, <2>2, AwaitedKept
    <2>4. refresh' \in RefreshState
      <3>1. CASE refresh' = AtSelect
        BY <1>1, <3>1
      <3>2. CASE refresh' = [refresh EXCEPT !.at = "try", !.attempts = @ - 1] /\ refresh.attempts # 1
        <4>1. refresh.attempts - 1 \in 1 .. LoadRetries
          BY <1>0, <3>2, PromAssumption
        <4> QED BY <3>2, <4>1 DEF IInv, TypeOK, RefreshState
      <3> QED BY <1>3, <3>1, <3>2 DEF LoadAwait, GivesUp
    <2>5. clusters' \in Nat
      <3>1. reply[MapQuery].info \in Nat
        BY <1>0 DEF IInv, TypeOK, ReplyState
      <3> QED BY <1>3, <3>1 DEF LoadAwait, IInv, TypeOK
    <2>6. TypeOK'
      BY <2>1, <2>2, <2>3, <2>4, <2>5 DEF IInv, TypeOK
    <2>7. Callers'
      <3>1. \A p \in group.awaited : p \in Queries /\ p # MapQuery /\ last'[p] = last[p]
        BY <1>0, <2>2
      <3>2. {p \in group.awaited : last'[p] \notin {"ok", "partial"}} = {p \in group.awaited : last[p] \notin {"ok", "partial"}}
        BY <3>1
      <3> QED BY <1>0, <2>1, <2>3, <3>1, <3>2 DEF IInv, Callers
    <2> QED BY <2>3, <2>6, <2>7 DEF IInv
  <1>4. CASE RefreshTick \/ RefreshStops \/ StopRefresh
    <2>1. UNCHANGED <<info, troubles, query, queue, worker, reply, last, sends, group, clusters, panicked>>
      BY <1>4 DEF RefreshTick, RefreshStops, StopRefresh, serverVars, clientVars
    <2>2. OnePlace' /\ Counted' /\ Honest'
      BY <2>1, RequestsKept
    <2>3. stopped' \in BOOLEAN
      BY <1>4 DEF RefreshTick, RefreshStops, StopRefresh, IInv, TypeOK
    <2>4. refresh' \in RefreshState /\ (refresh'.at # "await" => refresh.at # "await")
      <3>1. CASE refresh' = [refresh EXCEPT !.at = "try", !.chan = FALSE] /\ refresh.at = "select"
        BY <3>1 DEF IInv, TypeOK, RefreshState
      <3>2. CASE refresh' = [refresh EXCEPT !.at = "done", !.chan = FALSE] /\ refresh.at = "select"
        BY <3>2 DEF IInv, TypeOK, RefreshState
      <3>3. CASE refresh' = refresh
        BY <3>3 DEF IInv, TypeOK
      <3> QED BY <1>4, <3>1, <3>2, <3>3 DEF RefreshTick, RefreshStops, StopRefresh
    <2>5. TypeOK'
      BY <2>1, <2>3, <2>4 DEF IInv, TypeOK
    <2>6. Callers'
      BY <2>1, <2>4 DEF IInv, Callers
    <2> QED BY <2>2, <2>5, <2>6 DEF IInv
  <1> QED BY <1>2, <1>3, <1>4 DEF RefreshStep

-----------------------------------------------------------------------------
(* Every step keeps the invariant. *)
LEMMA NextIInv == IInv /\ [Next]_vars => IInv'
  <1> SUFFICES ASSUME IInv, [Next]_vars PROVE IInv'
    OBVIOUS
  <1>1. CASE ~panicked /\ Running
    BY <1>1, EnqueueIInv, DequeueIInv, WaitIInv, HangIInv, SendIInv, GroupIInv, MapIInv
       DEF Running, WorkerStep, GroupStep
  <1>2. CASE Restart
    BY <1>2, RestartIInv
  <1>3. CASE ClustersChange \/ UNCHANGED vars
    <2>1. UNCHANGED <<troubles, query, queue, worker, reply, last, sends, group, refresh, clusters, stopped, panicked>>
      BY <1>3 DEF ClustersChange, vars, serverVars, clientVars, mapVars
    <2>2. info' \in 1 .. MaxChanges + 1
      <3>1. CASE info' = info
        BY <3>1 DEF IInv, TypeOK
      <3>2. CASE info' = info + 1 /\ info <= MaxChanges
        BY <3>2, PromAssumption DEF IInv, TypeOK
      <3> QED BY <1>3, <3>1, <3>2 DEF ClustersChange, vars, serverVars
    <2>3. OnePlace' /\ Counted' /\ Honest'
      BY <2>1, RequestsKept
    <2>4. TypeOK' /\ Callers'
      BY <2>1, <2>2 DEF IInv, TypeOK, Callers
    <2> QED BY <2>3, <2>4 DEF IInv
  <1> QED BY <1>1, <1>2, <1>3 DEF Next

(* A request is always in one place, with the number of its sends telling  *)
(* the retries left, and a reply is what the last answer makes it.         *)
THEOREM Inductive == Spec => []IInv
  BY InitIInv, NextIInv, PTL DEF Spec

(* Type correctness, also across panics and restarts. *)
THEOREM TypeOKHolds == Spec => []TypeOK
  <1>1. IInv => TypeOK
    BY DEF IInv
  <1> QED BY <1>1, Inductive, PTL

(* The errors of a group tell the awaited queries with a good answer from  *)
(* those without one (a partial answer apart), and a query fails for rate  *)
(* limiting only when all retries were sent (query.go, RawQuery; prom.go,  *)
(* worker).                                                                *)
THEOREM HonestErrorsHolds == Spec => []HonestErrors
  <1>1. IInv => HonestErrors
    BY DEF IInv, Callers, Honest, HonestErrors, Result, IsRateLimited
  <1> QED BY <1>1, Inductive, PTL
=============================================================================

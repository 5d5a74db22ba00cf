----------------------------- MODULE WorkerPool -----------------------------
(***************************************************************************)
(* The worker pool and its work groups (core/pkg/util/worker/worker.go) on *)
(* top of the blocking queue (core/pkg/collections/blockingqueue.go).      *)
(*                                                                         *)
(* One driver goroutine plays a Concurrent* function: it makes a pool and  *)
(* a group of some kind, pushes the inputs 1 .. N, waits, and shuts the    *)
(* pool down. On a shared pool an outside goroutine may also call Shutdown *)
(* at any time, which the WorkerPool interface allows.                     *)
(*                                                                         *)
(* Queue operations run under the queue's lock and are single steps; a     *)
(* dequeuer that finds the queue empty parks on the condition variable.    *)
(* onComplete channels are unbuffered: a send and its receive are one      *)
(* rendezvous step. Input i's result is i, or Nil for i \in NilInputs.     *)
(***************************************************************************)
EXTENDS Naturals, Sequences, FiniteSets

CONSTANTS
    N,           \* number of inputs
    NilInputs,   \* inputs whose worker returns nil
    Sizes,       \* requested pool sizes
    Kinds,       \* group kinds explored, a subset of AllKinds
    Sharings     \* {FALSE}: the driver owns its pool; {TRUE}: others may call Shutdown

AllKinds == {"ordered", "noResult", "collector", "processor"}

ASSUME PoolAssumption ==
    /\ N \in Nat \ {0}
    /\ NilInputs \subseteq 1 .. N
    /\ Sizes \subseteq Nat
    /\ Kinds \subseteq AllKinds
    /\ Sharings \subseteq BOOLEAN

VARIABLES
    kind,        \* the group's kind
    shared,      \* another goroutine may call Shutdown
    size,        \* number of workers of the pool
    queue,       \* entries: an input, or Close
    isShutdown,  \* wq.isShutdown
    toClose,     \* close entries the winning Shutdown has still to enqueue
    worker,      \* worker[w]: [pc, item]
    driver,      \* the driver's program counter
    next,        \* the input the driver is pushing
    recv,        \* recv[i]: the goroutine that receives input i's result
    pos,         \* the processor goroutine's next channel; 0 before it starts
    results      \* ow.results, or the results processed so far

vars == <<kind, shared, size, queue, isShutdown, toClose, worker, driver, next, recv, pos, results>>

Close == 0
Nil == 0
Inputs == 1 .. N
Workers == 1 .. size
Output(i) == IF i \in NilInputs THEN Nil ELSE i

WorkerPCs == {"dequeue", "parked", "work", "send", "exited"}
DriverPCs == {"run", "enqueue", "spawn", "wait", "shutdown", "closing", "done"}
RecvPCs == {"none", "waiting", "got", "done"}

TypeOK ==
    /\ kind \in Kinds
    /\ shared \in Sharings
    /\ size \in Nat
    /\ queue \in Seq(Inputs \cup {Close})
    /\ isShutdown \in BOOLEAN
    /\ toClose \in 0 .. size
    /\ worker \in [Workers -> [pc : WorkerPCs, item : Inputs \cup {Close}]]
    /\ driver \in DriverPCs
    /\ next \in 1 .. N + 1
    /\ recv \in [Inputs -> RecvPCs]
    /\ pos \in 0 .. N + 1
    /\ results \in Seq(Inputs \cup {Nil})

(* "Size inputs < 1 will automatically be set to 1", except by             *)
(* ConcurrentOrderedProcessWith, whose callers pass OptimalWorkerCount().  *)
PoolSize(k, s) == IF k # "processor" /\ s < 1 THEN 1 ELSE s

Init ==
    /\ kind \in Kinds
    /\ shared \in Sharings
    /\ \E s \in Sizes : /\ kind = "processor" => s >= 1
                        /\ size = PoolSize(kind, s)
    /\ queue = <<>>
    /\ isShutdown = FALSE
    /\ toClose = 0
    /\ worker = [w \in Workers |-> [pc |-> "dequeue", item |-> Close]]
    /\ driver = "run"
    /\ next = 1
    /\ recv = [i \in Inputs |-> "none"]
    /\ pos = 0
    /\ results = IF kind = "ordered" THEN [i \in Inputs |-> Nil] ELSE <<>>

-----------------------------------------------------------------------------
(* BlockingQueue *)

(* Mutant of Enqueue: signals nobody. *)
EnqueueNoBroadcast(item) ==
    /\ queue' = Append(queue, item)
    /\ UNCHANGED worker

(* Enqueue appends and wakes every goroutine parked in Dequeue. *)
Enqueue(item) ==
    /\ queue' = Append(queue, item)
    /\ worker' = [w \in Workers |-> IF worker[w].pc = "parked"
                                    THEN [worker[w] EXCEPT !.pc = "dequeue"]
                                    ELSE worker[w]]

(* Mutant of Dequeue: the entry is read but not removed. *)
DequeueKeeps(w) ==
    IF queue = <<>>
    THEN /\ worker' = [worker EXCEPT ![w].pc = "parked"]
         /\ UNCHANGED queue
    ELSE /\ worker' = [worker EXCEPT ![w] =
                         IF Head(queue) = Close THEN [pc |-> "exited", item |-> Close]
                                                ELSE [pc |-> "work", item |-> Head(queue)]]
         /\ queue' = IF Head(queue) = Close THEN Tail(queue) ELSE queue

(* Mutant of Dequeue: a worker that sees the flag leaves the queue as it is. *)
DequeueAbandons(w) ==
    IF queue = <<>>
    THEN /\ worker' = [worker EXCEPT ![w].pc = "parked"]
         /\ UNCHANGED queue
    ELSE /\ worker' = [worker EXCEPT ![w] =
                         IF isShutdown THEN [pc |-> "exited", item |-> Close]
                                       ELSE [pc |-> "work", item |-> Head(queue)]]
         /\ queue' = IF isShutdown THEN queue ELSE Tail(queue)

(* Dequeue parks on an empty queue and otherwise takes the first entry; a  *)
(* close entry ends the worker.                                            *)
Dequeue(w) ==
    IF queue = <<>>
    THEN /\ worker' = [worker EXCEPT ![w].pc = "parked"]
         /\ UNCHANGED queue
    ELSE /\ worker' = [worker EXCEPT ![w] =
                         IF Head(queue) = Close THEN [pc |-> "exited", item |-> Close]
                                                ELSE [pc |-> "work", item |-> Head(queue)]]
         /\ queue' = Tail(queue)

-----------------------------------------------------------------------------
(* The driver: Push / Execute, Wait, and the deferred Shutdown *)

(* Where the driver goes after input `next` has been handled: the next     *)
(* input, or the end of the push loop.                                     *)
Advance == /\ next' = next + 1
           /\ driver' = IF next = N THEN "wait" ELSE "run"

(* Run's check of isShutdown. A group's Push returns the error, which the  *)
(* Concurrent* functions ignore; Execute returns at once.                  *)
RunCheck ==
    /\ driver = "run"
    /\ IF ~isShutdown
       THEN driver' = "enqueue" /\ UNCHANGED next
       ELSE IF kind = "processor" THEN driver' = "shutdown" /\ UNCHANGED next
                                  ELSE Advance
    /\ UNCHANGED <<kind, shared, size, queue, isShutdown, toClose, worker, recv, pos, results>>

(* Run's Enqueue: another step, the flag is not read again. *)
RunEnqueue ==
    /\ driver = "enqueue"
    /\ Enqueue(next)
    /\ driver' = "spawn"
    /\ UNCHANGED <<kind, shared, size, isShutdown, toClose, next, recv, pos, results>>

(* Push after a successful Run: wg.Add(1) and the receiving goroutine.     *)
(* Execute instead keeps the channel and, after the last input, spawns the *)
(* one goroutine that processes the results.                               *)
Spawn ==
    /\ driver = "spawn"
    /\ Advance
    /\ IF kind = "processor"
       THEN /\ pos' = IF next = N THEN 1 ELSE pos
            /\ UNCHANGED recv
       ELSE /\ recv' = [recv EXCEPT ![next] = "waiting"]
            /\ UNCHANGED pos
    /\ UNCHANGED <<kind, shared, size, queue, isShutdown, toClose, worker, results>>

(* Mutant of Pending: Wait does not wait for results already received. *)
PendingIgnoresGot == {i \in Inputs : recv[i] = "waiting"}

(* The wait group: receivers spawned and not yet done. *)
Pending == {i \in Inputs : recv[i] \in {"waiting", "got"}}

(* Wait returns, or Execute's <-done is received. *)
WaitReturns ==
    /\ driver = "wait"
    /\ IF kind = "processor" THEN pos = N + 1 ELSE Pending = {}
    /\ driver' = "shutdown"
    /\ UNCHANGED <<kind, shared, size, queue, isShutdown, toClose, worker, next, recv, pos, results>>

(* Mutant of CloseCount: one close entry too few. *)
CloseCountShort == size - 1

(* The number of close entries Shutdown enqueues. *)
CloseCount == size

(* The deferred Shutdown: the CompareAndSwap ... *)
DriverShutdown ==
    /\ driver = "shutdown"
    /\ IF isShutdown
       THEN driver' = "done" /\ UNCHANGED <<isShutdown, toClose>>
       ELSE driver' = "closing" /\ isShutdown' = TRUE /\ toClose' = CloseCount
    /\ UNCHANGED <<kind, shared, size, queue, worker, next, recv, pos, results>>

(* ... by the driver, or earlier by an outside goroutine ... *)
OutsideShutdown ==
    /\ shared
    /\ ~isShutdown
    /\ isShutdown' = TRUE
    /\ toClose' = CloseCount
    /\ UNCHANGED <<kind, shared, size, queue, worker, driver, next, recv, pos, results>>

(* ... and the winner's loop that enqueues one close entry per worker. *)
EnqueueClose ==
    /\ toClose > 0
    /\ Enqueue(Close)
    /\ toClose' = toClose - 1
    /\ UNCHANGED <<kind, shared, size, isShutdown, driver, next, recv, pos, results>>

ShutdownReturns ==
    /\ driver = "closing"
    /\ toClose = 0
    /\ driver' = "done"
    /\ UNCHANGED <<kind, shared, size, queue, isShutdown, toClose, worker, next, recv, pos, results>>

-----------------------------------------------------------------------------
(* Workers and receivers *)

WorkerDequeue(w) ==
    /\ worker[w].pc = "dequeue"
    /\ Dequeue(w)
    /\ UNCHANGED <<kind, shared, size, isShutdown, toClose, driver, next, recv, pos, results>>

(* result := wq.work(next.payload) *)
WorkerWork(w) ==
    /\ worker[w].pc = "work"
    /\ worker' = [worker EXCEPT ![w].pc = "send"]
    /\ UNCHANGED <<kind, shared, size, queue, isShutdown, toClose, driver, next, recv, pos, results>>

(* next.onComplete <- result meets the group's receiving goroutine ... *)
DeliverToGroup(w) ==
    LET i == worker[w].item IN
    /\ worker[w].pc = "send"
    /\ recv[i] = "waiting"
    /\ recv' = [recv EXCEPT ![i] = "got"]
    /\ worker' = [worker EXCEPT ![w] = [pc |-> "dequeue", item |-> Close]]
    /\ UNCHANGED <<kind, shared, size, queue, isShutdown, toClose, driver, next, pos, results>>

(* ... which stores or collects the result and calls wg.Done. *)
Receive(i) ==
    /\ recv[i] = "got"
    /\ recv' = [recv EXCEPT ![i] = "done"]
    /\ results' = CASE kind = "ordered" -> [results EXCEPT ![i] = Output(i)]
                    [] kind = "collector" /\ Output(i) # Nil -> Append(results, Output(i))
                    [] OTHER -> results
    /\ UNCHANGED <<kind, shared, size, queue, isShutdown, toClose, worker, driver, next, pos>>

(* Mutant of ProcessResult: results are processed as they complete. *)
ProcessResultAnyOrder(w) ==
    /\ worker[w].pc = "send"
    /\ pos \in Inputs
    /\ pos' = pos + 1
    /\ results' = Append(results, Output(worker[w].item))
    /\ worker' = [worker EXCEPT ![w] = [pc |-> "dequeue", item |-> Close]]
    /\ UNCHANGED <<kind, shared, size, queue, isShutdown, toClose, driver, next, recv>>

(* The processor goroutine receives from the channels in input order and   *)
(* processes each result before it turns to the next channel.              *)
ProcessResult(w) ==
    /\ worker[w].pc = "send"
    /\ pos = worker[w].item
    /\ pos' = pos + 1
    /\ results' = Append(results, Output(pos))
    /\ worker' = [worker EXCEPT ![w] = [pc |-> "dequeue", item |-> Close]]
    /\ UNCHANGED <<kind, shared, size, queue, isShutdown, toClose, driver, next, recv>>

DriverStep == RunCheck \/ RunEnqueue \/ Spawn \/ WaitReturns \/ DriverShutdown \/ ShutdownReturns
WorkerStep(w) == WorkerDequeue(w) \/ WorkerWork(w) \/ DeliverToGroup(w) \/ ProcessResult(w)

Next ==
    \/ DriverStep
    \/ OutsideShutdown
    \/ EnqueueClose
    \/ \E w \in Workers : WorkerStep(w)
    \/ \E i \in Inputs : Receive(i)

Spec == Init /\ [][Next]_vars

(* The Go scheduler runs every goroutine that can take a step; the worker  *)
(* function returns. An outside Shutdown need not happen.                  *)
Fairness ==
    /\ WF_vars(DriverStep)
    /\ WF_vars(EnqueueClose)
    /\ \A w \in UNION {1 .. PoolSize("ordered", s) : s \in Sizes} :
         WF_vars(w \in Workers /\ WorkerStep(w))
    /\ \A i \in Inputs : WF_vars(Receive(i))

FairSpec == Spec /\ Fairness

-----------------------------------------------------------------------------
InQueue(i) == {p \in 1 .. Len(queue) : queue[p] = i}
HeldBy(i) == {w \in Workers : worker[w].pc \in {"work", "send"} /\ worker[w].item = i}
Delivered(i) == recv[i] \in {"got", "done"} \/ (kind = "processor" /\ i < pos)

(* Run has returned nil for input i, or is about to: a group has spawned   *)
(* its receiver, a processor has gone on to the next input.                *)
Accepted(i) ==
    \/ i = next /\ driver = "spawn"
    \/ IF kind = "processor" THEN i < next ELSE recv[i] # "none"

(* Conservation, whoever shuts the pool down and when: an input that Run   *)
(* accepted is at any time in exactly one place, the queue, one worker, or *)
(* its receiver, so the pool neither drops it nor works on it twice; an    *)
(* input that Run refused is nowhere.                                      *)
EachInputOnce ==
    \A i \in Inputs :
        /\ \A p, q \in InQueue(i) : p = q
        /\ \A v, w \in HeldBy(i) : v = w
        /\ InQueue(i) # {} => HeldBy(i) = {}
        /\ Delivered(i) => InQueue(i) = {} /\ HeldBy(i) = {}
        /\ InQueue(i) # {} \/ HeldBy(i) # {} \/ Delivered(i) <=> Accepted(i)

(* The inputs behind every close entry that is in the queue. *)
Behind == {i \in Inputs : \E p \in InQueue(i) : \A q \in p .. Len(queue) : queue[q] # Close}

(* Run tests isShutdown and enqueues in two steps, so a Shutdown by        *)
(* another goroutine can put all its close entries in between. That is the *)
(* most that can go wrong: when Shutdown has enqueued its entries, at most *)
(* one accepted input is behind them, the last one, which the workers may  *)
(* never get to; a pool that only its driver shuts down has none.          *)
OneInputBehind ==
    isShutdown /\ toClose = 0 =>
        \A i \in Behind : shared /\ \A j \in Inputs : Accepted(j) => j <= i

(* Without an outside Shutdown the results returned by a Concurrent*       *)
(* function are complete when Wait returns: in input order for ordered     *)
(* groups and processors, all non-nil ones in any order for collectors.    *)
ResultsComplete ==
    (driver \in {"shutdown", "closing", "done"} /\ ~shared) =>
        /\ \A i \in Inputs : Delivered(i)
        /\ kind \in {"ordered", "processor"} => results = [i \in Inputs |-> Output(i)]
        /\ kind = "collector" =>
             \A i \in Inputs : Cardinality({p \in 1 .. Len(results) : results[p] = i})
                                 = IF i \in NilInputs THEN 0 ELSE 1

(* ConcurrentOrderedProcess "calls the process function on each result, as *)
(* it completes, in the same order as the inputs".                         *)
ProcessedInOrder ==
    kind = "processor" => \A p \in 1 .. Len(results) : results[p] = Output(p)

(* Every Concurrent* call on its own pool returns. *)
DriverTerminates == ~shared ~> (driver = "done")

(* What Run accepted is done, also when another goroutine shuts the pool   *)
(* down; only then can one input, the last one accepted, get behind the    *)
(* close entries and stay there. The exception is the one of               *)
(* ShutdownStopsWorkers.                                                   *)
LeftBehind(i) ==
    /\ shared /\ isShutdown /\ toClose = 0
    /\ i \in Behind /\ \A j \in Inputs : Accepted(j) => j <= i
AcceptedIsDone ==
    \A i \in Inputs :
        (Accepted(i) /\ ~(shared /\ kind = "processor")) ~> (Delivered(i) \/ LeftBehind(i))

(* "Shutdown stops all of the workers (if running)." The exception is an   *)
(* ordered processor on a pool that others shut down: Execute gives up on  *)
(* the first refused input and nobody receives what the workers send.      *)
ShutdownStopsWorkers ==
    (isShutdown /\ ~(shared /\ kind = "processor")) ~> (\A w \in Workers : worker[w].pc = "exited")

(* "Wait waits for all pending worker tasks to complete, then returns all  *)
(* the results", also when another goroutine shuts the pool down: Run      *)
(* "returns an error if the pool is shutdown, or is in the process of      *)
(* shutting down", so what it accepted must complete.                      *)
WaitAlwaysReturns == (driver = "wait") ~> (driver # "wait")
=============================================================================

-------------------------- MODULE WorkerPoolProofs --------------------------
(***************************************************************************)
(* What the worker pool promises for every number of inputs and workers:   *)
(* no input is lost inside the pool or worked on twice, results come in    *)
(* the promised order, and a Shutdown overtakes at most one input.         *)
(***************************************************************************)
EXTENDS WorkerPool, FiniteSetTheorems, TLAPS

(* Where the driver is tells which inputs have receivers, whether the      *)
(* processor has started and, on a pool of its own, that nobody has shut   *)
(* it down yet.                                                            *)
DriverState ==
    /\ driver \in {"run", "enqueue", "spawn"} => next <= N
    /\ \A i \in Inputs : recv[i] # "none" => i < next
    /\ pos # 0 => kind = "processor" /\ next = N + 1
    /\ ~shared /\ isShutdown => driver \in {"closing", "done"}

(* A worker that works or sends holds an input, never a close entry. *)
WorkerState ==
    \A w \in Workers : worker[w].pc \in {"work", "send"} => worker[w].item \in Inputs

(* The results an ordered processor has processed are those before pos,    *)
(* and an ordered group has a slot for every input.                        *)
ResultState ==
    /\ kind = "processor" => Len(results) = IF pos = 0 THEN 0 ELSE pos - 1
    /\ kind = "ordered" => Len(results) = N

IInv == TypeOK /\ DriverState /\ WorkerState /\ ResultState /\ EachInputOnce /\ ProcessedInOrder

-----------------------------------------------------------------------------
(* What Enqueue does to the positions of an entry. *)
LEMMA AppendPositions ==
    ASSUME TypeOK, NEW e \in Inputs \cup {Close}, queue' = Append(queue, e), NEW i \in Inputs
    PROVE  InQueue(i)' = InQueue(i) \cup (IF i = e THEN {Len(queue) + 1} ELSE {})
  <1>1. /\ Len(queue') = Len(queue) + 1
        /\ \A p \in 1 .. Len(queue) : queue'[p] = queue[p]
        /\ queue'[Len(queue) + 1] = e
        /\ Len(queue) \in Nat
    BY DEF TypeOK
  <1> QED BY <1>1 DEF InQueue

(* What Dequeue does to them: they move up by one. *)
LEMMA TailPositions ==
    ASSUME TypeOK, queue # <<>>, queue' = Tail(queue), NEW i \in Inputs
    PROVE  /\ \A p \in Nat : p \in InQueue(i)' <=> p # 0 /\ p + 1 \in InQueue(i)
           /\ 1 \in InQueue(i) <=> Head(queue) = i
           /\ Len(queue) \in Nat \ {0}
  <1>1. /\ Len(queue) \in Nat \ {0}
        /\ Len(queue') = Len(queue) - 1
        /\ \A p \in 1 .. Len(queue) - 1 : queue'[p] = queue[p + 1]
        /\ Head(queue) = queue[1]
    BY DEF TypeOK
  <1> QED BY <1>1 DEF InQueue

(* What Enqueue does to the workers: it may wake them up, and no more. *)
LEMMA EnqueueWorkers ==
    ASSUME TypeOK, NEW e, Enqueue(e)
    PROVE  /\ worker' \in [Workers -> [pc : WorkerPCs, item : Inputs \cup {Close}]]
           /\ \A w \in Workers : /\ worker'[w].item = worker[w].item
                                 /\ worker'[w].pc \in {"work", "send"} <=> worker[w].pc \in {"work", "send"}
  <1> DEFINE Woken(w) == IF worker[w].pc = "parked" THEN [worker[w] EXCEPT !.pc = "dequeue"] ELSE worker[w]
  <1>1. worker' = [w \in Workers |-> Woken(w)]
    BY DEF Enqueue
  <1>2. \A w \in Workers : /\ Woken(w) \in [pc : WorkerPCs, item : Inputs \cup {Close}]
                           /\ Woken(w).item = worker[w].item
                           /\ Woken(w).pc \in {"work", "send"} <=> worker[w].pc \in {"work", "send"}
    BY DEF TypeOK, WorkerPCs
  <1> HIDE DEF Woken
  <1> QED BY <1>1, <1>2

(* Positions are positive numbers. *)
LEMMA PositionsNat == TypeOK => \A i \in Inputs : InQueue(i) \subseteq Nat \ {0}
  BY DEF TypeOK, InQueue

-----------------------------------------------------------------------------
LEMMA InitIInv == Init => IInv
  <1> SUFFICES ASSUME Init PROVE IInv
    OBVIOUS
  <1> USE PoolAssumption
  <1>1. size \in Nat
    BY DEF Init, PoolSize
  <1>2. TypeOK
    <2>1. results \in Seq(Inputs \cup {Nil})
      <3>1. [i \in 1 .. N |-> Nil] \in Seq(Inputs \cup {Nil})
        OBVIOUS
      <3> QED BY <3>1 DEF Init, Inputs
    <2>2. worker \in [Workers -> [pc : WorkerPCs, item : Inputs \cup {Close}]]
      BY DEF Init, WorkerPCs
    <2>3. recv \in [Inputs -> RecvPCs] /\ driver \in DriverPCs
      BY DEF Init, RecvPCs, DriverPCs
    <2>4. queue \in Seq(Inputs \cup {Close})
      BY DEF Init
    <2>5. toClose \in 0 .. size /\ next \in 1 .. N + 1 /\ pos \in 0 .. N + 1
      BY <1>1 DEF Init
    <2>6. kind \in Kinds /\ shared \in Sharings /\ isShutdown \in BOOLEAN
      BY DEF Init
    <2> QED BY <1>1, <2>1, <2>2, <2>3, <2>4, <2>5, <2>6, Zenon DEF TypeOK
  <1>3. DriverState /\ WorkerState /\ ResultState /\ ProcessedInOrder
    BY <1>1 DEF Init, DriverState, WorkerState, ResultState, ProcessedInOrder, Inputs, Workers
  <1>4. EachInputOnce
    <2>1. \A i \in Inputs : InQueue(i) = {} /\ HeldBy(i) = {} /\ ~Delivered(i) /\ ~Accepted(i)
      BY DEF Init, InQueue, HeldBy, Delivered, Accepted, Inputs, Workers
    <2> QED BY <2>1 DEF EachInputOnce
  <1> QED BY <1>2, <1>3, <1>4 DEF IInv

-----------------------------------------------------------------------------
(* A step that touches neither the queue, the workers nor the receivers    *)
(* keeps EachInputOnce if it accepts no input.                             *)
LEMMA DriverFrame ==
    ASSUME EachInputOnce, UNCHANGED <<kind, shared, size, queue, worker, recv, pos>>,
           \A i \in Inputs : Accepted(i)' <=> Accepted(i)
    PROVE  EachInputOnce'
  <1>1. \A i \in Inputs : /\ InQueue(i)' = InQueue(i)
                          /\ HeldBy(i)' = HeldBy(i)
                          /\ Delivered(i)' <=> Delivered(i)
    BY DEF InQueue, HeldBy, Delivered, Workers
  <1> QED BY <1>1 DEF EachInputOnce

(* The steps of the driver that only move on or shut down. *)
LEMMA DriverMovesIInv ==
    ASSUME IInv, RunCheck \/ WaitReturns \/ DriverShutdown \/ ShutdownReturns
    PROVE  IInv'
  <1> USE PoolAssumption
  <1>1. UNCHANGED <<kind, shared, size, queue, worker, recv, pos, results>>
    BY DEF RunCheck, WaitReturns, DriverShutdown, ShutdownReturns
  <1>2. CASE RunCheck
    <2>1. driver' \in DriverPCs /\ next' \in 1 .. N + 1 /\ UNCHANGED <<toClose, isShutdown>>
      BY <1>2 DEF IInv, TypeOK, DriverState, RunCheck, Advance, DriverPCs
    <2>2. DriverState'
      BY <1>2, <2>1 DEF IInv, TypeOK, DriverState, RunCheck, Advance, Inputs
    <2>4. \A i \in Inputs : Accepted(i)' <=> Accepted(i)
      BY <1>1, <1>2 DEF RunCheck, Advance, Accepted
    <2>5. EachInputOnce'
      BY <1>1, <2>4, DriverFrame DEF IInv
    <2>6. TypeOK'
      BY <1>1, <2>1 DEF IInv, TypeOK, Workers
    <2> QED BY <1>1, <2>2, <2>5, <2>6 DEF IInv, WorkerState, ResultState, ProcessedInOrder, Workers
  <1>3. CASE WaitReturns \/ DriverShutdown \/ ShutdownReturns
    <2>1. /\ next' = next
          /\ driver \in {"wait", "shutdown", "closing"}
          /\ driver' \in {"shutdown", "closing", "done"}
          /\ toClose' \in 0 .. size
      BY <1>3 DEF IInv, TypeOK, WaitReturns, DriverShutdown, ShutdownReturns, CloseCount
    <2>0. isShutdown' \in BOOLEAN
      BY <1>3, Zenon DEF IInv, TypeOK, WaitReturns, DriverShutdown, ShutdownReturns
    <2>2. isShutdown' => driver' \in {"closing", "done"} \/ (isShutdown /\ driver = "wait")
      BY <1>3 DEF WaitReturns, DriverShutdown, ShutdownReturns
    <2>3. DriverState'
      BY <1>1, <2>1, <2>2 DEF IInv, DriverState
    <2>4. \A i \in Inputs : Accepted(i)' <=> Accepted(i)
      BY <1>1, <2>1 DEF Accepted
    <2>5. EachInputOnce'
      BY <1>1, <2>4, DriverFrame DEF IInv
    <2>6. TypeOK'
      BY <1>1, <2>0, <2>1 DEF IInv, TypeOK, Workers, DriverPCs
    <2> QED BY <1>1, <2>3, <2>5, <2>6 DEF IInv, WorkerState, ResultState, ProcessedInOrder, Workers
  <1> QED BY <1>2, <1>3

(* Run's Enqueue: the input is new to the pool and ends up in the queue. *)
LEMMA RunEnqueueIInv == ASSUME IInv, RunEnqueue PROVE IInv'
  <1> USE PoolAssumption
  <1>1. /\ UNCHANGED <<kind, shared, size, isShutdown, toClose, next, recv, pos, results>>
        /\ driver = "enqueue" /\ driver' = "spawn"
        /\ queue' = Append(queue, next)
    BY DEF RunEnqueue, Enqueue
  <1>2. next \in Inputs
    BY <1>1 DEF IInv, TypeOK, DriverState, Inputs
  <1>3. worker' \in [Workers -> [pc : WorkerPCs, item : Inputs \cup {Close}]]
    BY EnqueueWorkers DEF RunEnqueue, IInv
  <1>4. \A w \in Workers : /\ worker'[w].item = worker[w].item
                           /\ worker'[w].pc \in {"work", "send"} <=> worker[w].pc \in {"work", "send"}
    BY EnqueueWorkers DEF RunEnqueue, IInv
  <1>5. TypeOK'
    <2>1. queue' \in Seq(Inputs \cup {Close})
      BY <1>1, <1>2 DEF IInv, TypeOK
    <2> QED BY <1>1, <1>3, <2>1 DEF IInv, TypeOK, Workers, DriverPCs
  <1>6. DriverState' /\ WorkerState' /\ ResultState' /\ ProcessedInOrder'
    BY <1>1, <1>4 DEF IInv, TypeOK, DriverState, WorkerState, ResultState, ProcessedInOrder, Workers
  <1>7. EachInputOnce'
    <2>1. \A i \in Inputs : HeldBy(i)' = HeldBy(i) /\ (Delivered(i)' <=> Delivered(i))
      BY <1>1, <1>4 DEF HeldBy, Delivered, Workers
    <2>2. \A i \in Inputs : InQueue(i)' = InQueue(i) \cup (IF i = next THEN {Len(queue) + 1} ELSE {})
      BY <1>1, <1>2, AppendPositions DEF IInv
    <2>3. \A i \in Inputs : Accepted(i)' <=> (Accepted(i) \/ i = next)
      BY <1>1 DEF Accepted
    <2>4. ~Accepted(next)
      BY <1>1, <1>2 DEF IInv, DriverState, Accepted, Inputs
    <2>5. InQueue(next) = {} /\ HeldBy(next) = {} /\ ~Delivered(next)
      BY <1>2, <2>4 DEF IInv, EachInputOnce
    <2> QED BY <1>1, <2>1, <2>2, <2>3, <2>5 DEF IInv, EachInputOnce
  <1> QED BY <1>5, <1>6, <1>7 DEF IInv

(* Spawn: the input counts as accepted already, only its receiver is new. *)
LEMMA SpawnIInv == ASSUME IInv, Spawn PROVE IInv'
  <1> USE PoolAssumption
  <1>1. /\ UNCHANGED <<kind, shared, size, queue, isShutdown, toClose, worker, results>>
        /\ driver = "spawn" /\ driver' \in {"wait", "run"}
        /\ next' = next + 1
        /\ driver' = "run" => next # N
    BY DEF Spawn, Advance
  <1>2. next \in Inputs /\ next' \in 1 .. N + 1 /\ (driver' = "run" => next' <= N)
    BY <1>1 DEF IInv, TypeOK, DriverState, Inputs
  <1>3. pos = 0
    BY <1>2 DEF IInv, TypeOK, DriverState, Inputs
  <1>4. /\ recv' \in [Inputs -> RecvPCs]
        /\ \A i \in Inputs : /\ recv'[i] \in {"got", "done"} <=> recv[i] \in {"got", "done"}
                             /\ recv'[i] # "none" => i = next \/ recv[i] # "none"
        /\ pos' \in {0, 1}
        /\ pos' # 0 => kind = "processor" /\ next = N
    <2>1. CASE kind = "processor"
      BY <1>3, <2>1 DEF IInv, TypeOK, Spawn
    <2>2. CASE kind # "processor"
      <3>1. recv[next] = "none"
        BY <1>2 DEF IInv, TypeOK, DriverState, Inputs
      <3> QED BY <1>2, <1>3, <2>2, <3>1 DEF IInv, TypeOK, Spawn, RecvPCs
    <2> QED BY <2>1, <2>2
  <1>5. TypeOK'
    BY <1>1, <1>2, <1>4 DEF IInv, TypeOK, Workers, DriverPCs
  <1>6. DriverState'
    BY <1>1, <1>2, <1>4 DEF IInv, TypeOK, DriverState, Inputs
  <1>7. WorkerState' /\ ResultState' /\ ProcessedInOrder'
    BY <1>1, <1>3, <1>4 DEF IInv, WorkerState, ResultState, ProcessedInOrder, Workers
  <1>8. EachInputOnce'
    <2>1. \A i \in Inputs : /\ InQueue(i)' = InQueue(i)
                            /\ HeldBy(i)' = HeldBy(i)
                            /\ Delivered(i)' <=> Delivered(i)
      BY <1>1, <1>3, <1>4 DEF InQueue, HeldBy, Delivered, Workers, Inputs
    <2>2. \A i \in Inputs : Accepted(i)' <=> Accepted(i)
      <3>1. CASE kind = "processor"
        BY <1>1, <1>2, <3>1 DEF Accepted, Inputs
      <3>2. CASE kind # "processor"
        BY <1>1, <1>2, <3>2 DEF Spawn, IInv, TypeOK, Accepted
      <3> QED BY <3>1, <3>2
    <2> QED BY <1>1, <2>1, <2>2 DEF IInv, EachInputOnce
  <1> QED BY <1>5, <1>6, <1>7, <1>8 DEF IInv

(* Shutdown from outside, and the close entries of either shutdown. *)
LEMMA ShutdownIInv == ASSUME IInv, OutsideShutdown \/ EnqueueClose PROVE IInv'
  <1> USE PoolAssumption
  <1>1. CASE OutsideShutdown
    <2>1. /\ UNCHANGED <<kind, shared, size, queue, worker, driver, next, recv, pos, results>>
          /\ shared
      BY <1>1 DEF OutsideShutdown
    <2>2. toClose' \in 0 .. size
      BY <1>1 DEF IInv, TypeOK, OutsideShutdown, CloseCount
    <2>3. isShutdown' \in BOOLEAN
      BY <1>1 DEF OutsideShutdown
    <2>4. TypeOK'
      BY <2>1, <2>2, <2>3 DEF IInv, TypeOK, Workers
    <2>5. EachInputOnce'
      BY <2>1, DriverFrame DEF IInv, Accepted
    <2> QED BY <2>1, <2>4, <2>5 DEF IInv, DriverState, WorkerState, ResultState, ProcessedInOrder, Workers
  <1>2. CASE EnqueueClose
    <2>1. /\ UNCHANGED <<kind, shared, size, isShutdown, driver, next, recv, pos, results>>
          /\ queue' = Append(queue, Close)
      BY <1>2 DEF EnqueueClose, Enqueue
    <2>2. toClose' \in 0 .. size
      BY <1>2 DEF IInv, TypeOK, EnqueueClose
    <2>3. worker' \in [Workers -> [pc : WorkerPCs, item : Inputs \cup {Close}]]
      BY <1>2, EnqueueWorkers DEF EnqueueClose, IInv
    <2>4. \A w \in Workers : /\ worker'[w].item = worker[w].item
                             /\ worker'[w].pc \in {"work", "send"} <=> worker[w].pc \in {"work", "send"}
      BY <1>2, EnqueueWorkers DEF EnqueueClose, IInv
    <2>5. queue' \in Seq(Inputs \cup {Close})
      BY <2>1 DEF IInv, TypeOK
    <2>6. TypeOK'
      BY <2>1, <2>2, <2>3, <2>5 DEF IInv, TypeOK, Workers
    <2>7. EachInputOnce'
      <3>1. \A i \in Inputs : /\ HeldBy(i)' = HeldBy(i)
                              /\ Delivered(i)' <=> Delivered(i)
                              /\ Accepted(i)' <=> Accepted(i)
        BY <2>1, <2>4 DEF HeldBy, Delivered, Accepted, Workers
      <3>2. \A i \in Inputs : InQueue(i)' = InQueue(i)
        <4>1. \A i \in Inputs : i # Close
          BY DEF Inputs, Close
        <4> QED BY <2>1, <4>1, AppendPositions DEF IInv
      <3> QED BY <2>1, <3>1, <3>2 DEF IInv, EachInputOnce
    <2> QED BY <2>1, <2>4, <2>6, <2>7
            DEF IInv, DriverState, WorkerState, ResultState, ProcessedInOrder, Workers
  <1> QED BY <1>1, <1>2

(* Dequeue: an input moves from the head of the queue to the worker. *)
LEMMA DequeueIInv == ASSUME IInv, NEW w \in Workers, WorkerDequeue(w) PROVE IInv'
  <1> USE PoolAssumption
  <1>1. /\ UNCHANGED <<kind, shared, size, isShutdown, toClose, driver, next, recv, pos, results>>
        /\ worker[w].pc = "dequeue"
    BY DEF WorkerDequeue
  <1>2. \A i \in Inputs : (Delivered(i)' <=> Delivered(i)) /\ (Accepted(i)' <=> Accepted(i))
    BY <1>1 DEF Delivered, Accepted
  <1>3. \A i \in Inputs : i # Close
    BY DEF Inputs, Close
  <1>4. CASE queue = <<>>
    <2>1. queue' = queue /\ worker' = [worker EXCEPT ![w].pc = "parked"]
      BY <1>4 DEF WorkerDequeue, Dequeue
    <2>2. worker' \in [Workers -> [pc : WorkerPCs, item : Inputs \cup {Close}]]
      BY <2>1 DEF IInv, TypeOK, WorkerPCs
    <2>3. \A v \in Workers : /\ worker'[v].item = worker[v].item
                             /\ worker'[v].pc \in {"work", "send"} <=> worker[v].pc \in {"work", "send"}
      BY <1>1, <2>1 DEF IInv, TypeOK
    <2>4. TypeOK'
      BY <1>1, <2>1, <2>2 DEF IInv, TypeOK, Workers
    <2>5. \A i \in Inputs : HeldBy(i)' = HeldBy(i) /\ InQueue(i)' = InQueue(i)
      BY <1>1, <2>1, <2>3 DEF HeldBy, InQueue, Workers
    <2>6. EachInputOnce'
      BY <1>1, <1>2, <2>5 DEF IInv, EachInputOnce
    <2> QED BY <1>1, <2>3, <2>4, <2>6
            DEF IInv, DriverState, WorkerState, ResultState, ProcessedInOrder, Workers
  <1>5. CASE queue # <<>>
    <2> DEFINE e == Head(queue)
    <2>1. /\ queue' = Tail(queue)
          /\ worker' = [worker EXCEPT ![w] = IF e = Close THEN [pc |-> "exited", item |-> Close]
                                                          ELSE [pc |-> "work", item |-> e]]
      BY <1>5 DEF WorkerDequeue, Dequeue
    <2>2. e \in Inputs \cup {Close} /\ queue' \in Seq(Inputs \cup {Close})
      BY <1>5, <2>1 DEF IInv, TypeOK
    <2>3. worker' \in [Workers -> [pc : WorkerPCs, item : Inputs \cup {Close}]]
      BY <2>1, <2>2 DEF IInv, TypeOK, WorkerPCs
    <2>4. TypeOK'
      BY <1>1, <2>2, <2>3 DEF IInv, TypeOK, Workers
    <2>5. WorkerState'
      BY <1>1, <2>1, <2>2 DEF IInv, TypeOK, WorkerState, Workers
    <2>6. \A i \in Inputs : HeldBy(i)' = HeldBy(i) \cup (IF i = e THEN {w} ELSE {})
      BY <1>1, <1>3, <2>1, <2>2 DEF IInv, TypeOK, HeldBy, Workers
    <2>7. \A i \in Inputs : /\ \A p \in Nat : p \in InQueue(i)' <=> p # 0 /\ p + 1 \in InQueue(i)
                            /\ 1 \in InQueue(i) <=> e = i
      BY <1>5, <2>1, TailPositions DEF IInv
    <2>8. \A i \in Inputs : InQueue(i) \subseteq Nat \ {0} /\ InQueue(i)' \subseteq Nat \ {0}
      BY <2>4, PositionsNat DEF IInv, TypeOK, InQueue
    <2>9. EachInputOnce'
      <3> SUFFICES ASSUME NEW i \in Inputs
                   PROVE  /\ \A p, q \in InQueue(i)' : p = q
                          /\ \A u, v \in HeldBy(i)' : u = v
                          /\ InQueue(i)' # {} => HeldBy(i)' = {}
                          /\ Delivered(i)' => InQueue(i)' = {} /\ HeldBy(i)' = {}
                          /\ InQueue(i)' # {} \/ HeldBy(i)' # {} \/ Delivered(i)' <=> Accepted(i)'
        BY DEF EachInputOnce
      <3>1. /\ \A p, q \in InQueue(i) : p = q
            /\ \A u, v \in HeldBy(i) : u = v
            /\ InQueue(i) # {} => HeldBy(i) = {}
            /\ Delivered(i) => InQueue(i) = {} /\ HeldBy(i) = {}
            /\ InQueue(i) # {} \/ HeldBy(i) # {} \/ Delivered(i) <=> Accepted(i)
        BY DEF IInv, EachInputOnce
      <3>2. CASE i = e
        <4>1. 1 \in InQueue(i) /\ InQueue(i)' = {} /\ HeldBy(i)' = {w}
          BY <2>6, <2>7, <2>8, <3>1, <3>2
        <4> QED BY <1>1, <1>2, <3>1, <4>1
      <3>3. CASE i # e
        <4>1. HeldBy(i)' = HeldBy(i)
          BY <2>6, <3>3
        <4>2. \A p, q \in InQueue(i)' : p = q
          BY <2>7, <2>8, <3>1
        <4>3. InQueue(i)' # {} <=> InQueue(i) # {}
          <5>1. ASSUME NEW p \in InQueue(i) PROVE p - 1 \in InQueue(i)'
            BY <2>7, <2>8, <3>3, <5>1
          <5>2. ASSUME NEW p \in InQueue(i)' PROVE p + 1 \in InQueue(i)
            BY <2>7, <2>8, <5>2
          <5> QED BY <5>1, <5>2
        <4> QED BY <1>1, <1>2, <3>1, <4>1, <4>2, <4>3
      <3> QED BY <3>2, <3>3
    <2> QED BY <1>1, <2>4, <2>5, <2>9 DEF IInv, DriverState, ResultState, ProcessedInOrder
  <1> QED BY <1>4, <1>5

(* The worker function returns; what the worker holds stays the same. *)
LEMMA WorkIInv == ASSUME IInv, NEW w \in Workers, WorkerWork(w) PROVE IInv'
  <1> USE PoolAssumption
  <1>1. /\ UNCHANGED <<kind, shared, size, queue, isShutdown, toClose, driver, next, recv, pos, results>>
        /\ worker[w].pc = "work" /\ worker' = [worker EXCEPT ![w].pc = "send"]
    BY DEF WorkerWork
  <1>2. worker' \in [Workers -> [pc : WorkerPCs, item : Inputs \cup {Close}]]
    BY <1>1 DEF IInv, TypeOK, WorkerPCs
  <1>3. \A v \in Workers : /\ worker'[v].item = worker[v].item
                           /\ worker'[v].pc \in {"work", "send"} <=> worker[v].pc \in {"work", "send"}
    BY <1>1 DEF IInv, TypeOK
  <1>4. TypeOK'
    BY <1>1, <1>2 DEF IInv, TypeOK, Workers
  <1>5. EachInputOnce'
    <2>1. \A i \in Inputs : /\ HeldBy(i)' = HeldBy(i)
                            /\ InQueue(i)' = InQueue(i)
                            /\ Delivered(i)' <=> Delivered(i)
                            /\ Accepted(i)' <=> Accepted(i)
      BY <1>1, <1>3 DEF HeldBy, InQueue, Delivered, Accepted, Workers
    <2> QED BY <1>1, <2>1 DEF IInv, EachInputOnce
  <1> QED BY <1>1, <1>3, <1>4, <1>5
          DEF IInv, DriverState, WorkerState, ResultState, ProcessedInOrder, Workers

(* A result is sent: the worker lets go of the input, which is delivered.  *)
(* Common to the two kinds of receiver.                                    *)
LEMMA Handover ==
    ASSUME IInv, NEW w \in Workers, worker[w].pc = "send",
           UNCHANGED <<kind, shared, size, queue, driver, next>>,
           worker' = [worker EXCEPT ![w] = [pc |-> "dequeue", item |-> Close]],
           \A i \in Inputs : Delivered(i)' <=> (Delivered(i) \/ i = worker[w].item),
           \A i \in Inputs : recv'[i] # "none" <=> recv[i] # "none"
    PROVE  /\ worker' \in [Workers -> [pc : WorkerPCs, item : Inputs \cup {Close}]]
           /\ WorkerState'
           /\ EachInputOnce'
  <1>1. worker' \in [Workers -> [pc : WorkerPCs, item : Inputs \cup {Close}]]
    BY DEF IInv, TypeOK, WorkerPCs
  <1>2. PICK e \in Inputs : e = worker[w].item
    BY DEF IInv, WorkerState
  <1>3. WorkerState'
    BY DEF IInv, TypeOK, WorkerState, Workers
  <1>4. EachInputOnce'
    <2>1. \A i \in Inputs : InQueue(i)' = InQueue(i) /\ (Accepted(i)' <=> Accepted(i))
      BY DEF InQueue, Accepted
    <2>2. \A i \in Inputs : HeldBy(i)' = HeldBy(i) \ {w}
      BY DEF IInv, TypeOK, HeldBy, Workers
    <2>3. w \in HeldBy(e) /\ \A i \in Inputs : i # e => w \notin HeldBy(i)
      BY <1>2 DEF HeldBy
    <2>4. HeldBy(e)' = {} /\ InQueue(e) = {} /\ Accepted(e)
      BY <1>2, <2>2, <2>3 DEF IInv, EachInputOnce
    <2>5. \A i \in Inputs : i # e => HeldBy(i)' = HeldBy(i)
      BY <2>2, <2>3
    <2> QED BY <1>2, <2>1, <2>4, <2>5 DEF IInv, EachInputOnce
  <1> QED BY <1>1, <1>3, <1>4

LEMMA DeliverIInv == ASSUME IInv, NEW w \in Workers, DeliverToGroup(w) PROVE IInv'
  <1> USE PoolAssumption
  <1> DEFINE e == worker[w].item
  <1>1. /\ UNCHANGED <<kind, shared, size, queue, isShutdown, toClose, driver, next, pos, results>>
        /\ worker[w].pc = "send" /\ recv[e] = "waiting"
        /\ recv' = [recv EXCEPT ![e] = "got"]
        /\ worker' = [worker EXCEPT ![w] = [pc |-> "dequeue", item |-> Close]]
    BY DEF DeliverToGroup
  <1>2. e \in Inputs
    BY <1>1 DEF IInv, WorkerState
  <1>3. /\ recv' \in [Inputs -> RecvPCs]
        /\ \A i \in Inputs : recv'[i] # "none" <=> recv[i] # "none"
    BY <1>1, <1>2 DEF IInv, TypeOK, RecvPCs
  <1>4. \A i \in Inputs : Delivered(i)' <=> (Delivered(i) \/ i = e)
    BY <1>1, <1>2 DEF IInv, TypeOK, Delivered
  <1>5. /\ worker' \in [Workers -> [pc : WorkerPCs, item : Inputs \cup {Close}]]
        /\ WorkerState'
        /\ EachInputOnce'
    BY <1>1, <1>3, <1>4, Handover
  <1>6. TypeOK'
    BY <1>1, <1>3, <1>5 DEF IInv, TypeOK, Workers
  <1> QED BY <1>1, <1>3, <1>5, <1>6 DEF IInv, DriverState, ResultState, ProcessedInOrder

(* The processor appends the result of input pos as the pos-th result. *)
LEMMA ProcessIInv == ASSUME IInv, NEW w \in Workers, ProcessResult(w) PROVE IInv'
  <1> USE PoolAssumption
  <1>1. /\ UNCHANGED <<kind, shared, size, queue, isShutdown, toClose, driver, next, recv>>
        /\ worker[w].pc = "send" /\ pos = worker[w].item /\ pos' = pos + 1
        /\ results' = Append(results, Output(pos))
        /\ worker' = [worker EXCEPT ![w] = [pc |-> "dequeue", item |-> Close]]
    BY DEF ProcessResult
  <1>2. pos \in Inputs
    BY <1>1 DEF IInv, WorkerState
  <1>3. kind = "processor" /\ next = N + 1 /\ pos' \in 1 .. N + 1
    BY <1>1, <1>2 DEF IInv, DriverState, Inputs
  <1>4. \A i \in Inputs : Delivered(i)' <=> (Delivered(i) \/ i = worker[w].item)
    BY <1>1, <1>2, <1>3 DEF Delivered, Inputs
  <1>5. /\ worker' \in [Workers -> [pc : WorkerPCs, item : Inputs \cup {Close}]]
        /\ WorkerState'
        /\ EachInputOnce'
    BY <1>1, <1>4, Handover
  <1>6. /\ results' \in Seq(Inputs \cup {Nil})
        /\ Len(results) = pos - 1 /\ Len(results') = pos
        /\ \A p \in 1 .. Len(results) : results'[p] = results[p]
        /\ results'[pos] = Output(pos)
    <2>1. Output(pos) \in Inputs \cup {Nil}
      BY <1>2 DEF Output
    <2>2. Len(results) = pos - 1
      BY <1>2, <1>3 DEF IInv, ResultState, Inputs
    <2> QED BY <1>1, <1>2, <2>1, <2>2 DEF IInv, TypeOK, Inputs
  <1>7. TypeOK'
    BY <1>1, <1>3, <1>5, <1>6 DEF IInv, TypeOK, Workers
  <1>8. ResultState' /\ DriverState'
    BY <1>1, <1>2, <1>3, <1>6 DEF IInv, ResultState, DriverState, Inputs
  <1>9. ProcessedInOrder'
    <2> SUFFICES ASSUME NEW p \in 1 .. Len(results') PROVE results'[p] = Output(p)
      BY DEF ProcessedInOrder, Output
    <2>1. CASE p \in 1 .. Len(results)
      BY <1>3, <1>6, <2>1 DEF IInv, ProcessedInOrder
    <2>2. CASE p = pos
      BY <1>6, <2>2
    <2> QED BY <1>2, <1>6, <2>1, <2>2 DEF Inputs
  <1> QED BY <1>5, <1>7, <1>8, <1>9 DEF IInv

(* A group's receiver stores or collects the result. *)
LEMMA ReceiveIInv == ASSUME IInv, NEW i \in Inputs, Receive(i) PROVE IInv'
  <1> USE PoolAssumption
  <1>1. /\ UNCHANGED <<kind, shared, size, queue, isShutdown, toClose, worker, driver, next, pos>>
        /\ recv[i] = "got" /\ recv' = [recv EXCEPT ![i] = "done"]
    BY DEF Receive
  <1>2. /\ recv' \in [Inputs -> RecvPCs]
        /\ \A j \in Inputs : /\ recv'[j] # "none" <=> recv[j] # "none"
                             /\ recv'[j] \in {"got", "done"} <=> recv[j] \in {"got", "done"}
    BY <1>1 DEF IInv, TypeOK, RecvPCs
  <1>3. Output(i) \in Inputs \cup {Nil}
    BY DEF Output
  <1>4. /\ results' \in Seq(Inputs \cup {Nil})
        /\ kind = "ordered" => Len(results') = Len(results)
        /\ kind = "processor" => results' = results
    <2>1. CASE kind = "ordered"
      <3>1. results' = [results EXCEPT ![i] = Output(i)]
        BY <2>1 DEF Receive
      <3>2. Len(results) = N /\ results \in Seq(Inputs \cup {Nil})
        BY <2>1 DEF IInv, TypeOK, ResultState
      <3> QED BY <1>3, <2>1, <3>1, <3>2 DEF Inputs
    <2>2. CASE kind = "collector" /\ Output(i) # Nil
      BY <1>3, <2>2 DEF Receive, IInv, TypeOK
    <2>3. CASE kind # "ordered" /\ ~(kind = "collector" /\ Output(i) # Nil)
      BY <2>3 DEF Receive, IInv, TypeOK
    <2> QED BY <2>1, <2>2, <2>3
  <1>5. TypeOK'
    BY <1>1, <1>2, <1>4 DEF IInv, TypeOK, Workers
  <1>6. EachInputOnce'
    <2>1. \A j \in Inputs : /\ HeldBy(j)' = HeldBy(j)
                            /\ InQueue(j)' = InQueue(j)
                            /\ Delivered(j)' <=> Delivered(j)
                            /\ Accepted(j)' <=> Accepted(j)
      BY <1>1, <1>2 DEF HeldBy, InQueue, Delivered, Accepted, Workers
    <2> QED BY <1>1, <2>1 DEF IInv, EachInputOnce
  <1> QED BY <1>1, <1>2, <1>4, <1>5, <1>6
          DEF IInv, DriverState, WorkerState, ResultState, ProcessedInOrder, Workers

LEMMA NextIInv == IInv /\ [Next]_vars => IInv'
  <1> SUFFICES ASSUME IInv, [Next]_vars PROVE IInv'
    OBVIOUS
  <1>1. CASE DriverStep
    BY <1>1, DriverMovesIInv, RunEnqueueIInv, SpawnIInv DEF DriverStep
  <1>2. CASE OutsideShutdown \/ EnqueueClose
    BY <1>2, ShutdownIInv
  <1>3. CASE \E w \in Workers : WorkerStep(w)
    BY <1>3, DequeueIInv, WorkIInv, DeliverIInv, ProcessIInv DEF WorkerStep
  <1>4. CASE \E i \in Inputs : Receive(i)
    BY <1>4, ReceiveIInv
  <1>5. CASE UNCHANGED vars
    <2>1. \A i \in Inputs : Accepted(i)' <=> Accepted(i)
      BY <1>5 DEF vars, Accepted
    <2>2. EachInputOnce'
      BY <1>5, <2>1, DriverFrame DEF IInv, vars
    <2> QED BY <1>5, <2>2
            DEF IInv, vars, TypeOK, DriverState, WorkerState, ResultState, ProcessedInOrder, Workers
  <1> QED BY <1>1, <1>2, <1>3, <1>4, <1>5 DEF Next

LEMMA IInvHolds == Spec => []IInv
  BY InitIInv, NextIInv, PTL DEF Spec

(* The pool keeps its types, whatever the inputs and the pool's size. *)
THEOREM TypeOKHolds == Spec => []TypeOK
  <1>1. IInv => TypeOK
    BY DEF IInv
  <1> QED BY <1>1, IInvHolds, PTL

(* Run, the workers and the receivers of worker.go neither lose an input   *)
(* inside the pool nor work on one twice, for any number of inputs and     *)
(* workers and any kind of group, also while another goroutine shuts the   *)
(* pool down.                                                              *)
THEOREM EachInputOnceHolds == Spec => []EachInputOnce
  <1>1. IInv => EachInputOnce
    BY DEF IInv
  <1> QED BY <1>1, IInvHolds, PTL

(* ConcurrentOrderedProcessWith processes results in input order, for any  *)
(* number of inputs and workers.                                           *)
THEOREM ProcessedInOrderHolds == Spec => []ProcessedInOrder
  <1>1. IInv => ProcessedInOrder
    BY DEF IInv
  <1> QED BY <1>1, IInvHolds, PTL

-----------------------------------------------------------------------------
(* Completeness of the results. On an own pool every pushed input has a    *)
(* receiver, and Wait returns when all of them are done.                   *)
At(i) == {p \in 1 .. Len(results) : results[p] = i}

Pushed ==
    ~shared =>
        /\ kind # "processor" => \A i \in Inputs : i < next => recv[i] # "none"
        /\ driver \in {"wait", "shutdown", "closing", "done"} => next = N + 1
        /\ driver \in {"shutdown", "closing", "done"} =>
             IF kind = "processor" THEN pos = N + 1 ELSE \A i \in Inputs : recv[i] = "done"

(* The results of a group are those of the receivers that are done. *)
Collected ==
    /\ kind = "ordered" =>
         \A i \in Inputs : results[i] = IF recv[i] = "done" THEN Output(i) ELSE Nil
    /\ kind = "collector" =>
         \A i \in Inputs : /\ \A p, q \in At(i) : p = q
                           /\ At(i) # {} <=> recv[i] = "done" /\ Output(i) # Nil

LEMMA InitComplete == Init => Pushed /\ Collected
  BY PoolAssumption DEF Init, Pushed, Collected, At, Inputs

LEMMA NextPushed == IInv /\ Pushed /\ [Next]_vars => Pushed'
  <1> SUFFICES ASSUME IInv, Pushed, [Next]_vars, ~shared' PROVE Pushed'
    BY DEF Pushed
  <1> USE PoolAssumption
  <1>1. UNCHANGED <<kind, shared>>
    BY DEF Next, vars, DriverStep, WorkerStep, RunCheck, RunEnqueue, Spawn, WaitReturns, DriverShutdown,
           ShutdownReturns, OutsideShutdown, EnqueueClose, WorkerDequeue, WorkerWork, DeliverToGroup,
           ProcessResult, Receive
  <1>2. CASE RunCheck
    <2>1. ~isShutdown
      BY <1>1, <1>2 DEF RunCheck, IInv, DriverState
    <2> QED BY <1>1, <1>2, <2>1 DEF RunCheck, Pushed
  <1>3. CASE RunEnqueue \/ OutsideShutdown \/ EnqueueClose
    BY <1>1, <1>3 DEF RunEnqueue, OutsideShutdown, EnqueueClose, Pushed
  <1>4. CASE Spawn
    <2>1. /\ driver' = IF next = N THEN "wait" ELSE "run"
          /\ next' = next + 1 /\ next \in Nat
      BY <1>4 DEF Spawn, Advance, IInv, TypeOK
    <2>2. kind # "processor" => \A i \in Inputs : i < next' => recv'[i] # "none"
      BY <1>1, <1>4, <2>1 DEF Spawn, Pushed, IInv, TypeOK, Inputs
    <2> QED BY <1>1, <2>1, <2>2 DEF Pushed
  <1>5. CASE WaitReturns
    <2>1. /\ driver = "wait" /\ driver' = "shutdown"
          /\ UNCHANGED <<next, recv, pos>>
          /\ IF kind = "processor" THEN pos = N + 1 ELSE Pending = {}
      BY <1>5 DEF WaitReturns
    <2>2. next = N + 1
      BY <1>1, <2>1 DEF Pushed
    <2>3. kind # "processor" => \A i \in Inputs : recv[i] = "done"
      <3> SUFFICES ASSUME kind # "processor", NEW i \in Inputs PROVE recv[i] = "done"
        OBVIOUS
      <3>1. recv[i] # "none"
        BY <1>1, <2>2 DEF Pushed, Inputs
      <3>2. recv[i] \notin {"waiting", "got"}
        BY <2>1 DEF Pending
      <3> QED BY <3>1, <3>2 DEF IInv, TypeOK, RecvPCs
    <2> QED BY <1>1, <2>1, <2>2, <2>3 DEF Pushed
  <1>6. CASE DriverShutdown \/ ShutdownReturns
    <2>1. /\ driver \in {"shutdown", "closing"} /\ driver' \in {"closing", "done"}
          /\ UNCHANGED <<next, recv, pos>>
      BY <1>6 DEF DriverShutdown, ShutdownReturns
    <2> QED BY <1>1, <2>1 DEF Pushed
  <1>7. CASE \E w \in Workers : WorkerDequeue(w) \/ WorkerWork(w)
    BY <1>1, <1>7 DEF WorkerDequeue, WorkerWork, Pushed
  <1>8. ASSUME NEW w \in Workers, DeliverToGroup(w) PROVE Pushed'
    <2>1. /\ UNCHANGED <<driver, next, pos>> /\ worker[w].item \in Inputs
          /\ recv[worker[w].item] = "waiting" /\ recv' = [recv EXCEPT ![worker[w].item] = "got"]
      BY <1>8 DEF DeliverToGroup, IInv, WorkerState
    <2>2. \A i \in Inputs : recv[i] # "none" => recv'[i] # "none"
      BY <2>1 DEF IInv, TypeOK
    <2>3. kind # "processor" => driver \notin {"shutdown", "closing", "done"}
      BY <1>1, <2>1 DEF Pushed
    <2> QED BY <1>1, <2>1, <2>2, <2>3 DEF Pushed
  <1>9. ASSUME NEW w \in Workers, ProcessResult(w) PROVE Pushed'
    <2>1. UNCHANGED <<driver, next, recv>> /\ pos \in Inputs
      BY <1>9 DEF ProcessResult, IInv, WorkerState
    <2>2. kind = "processor" /\ pos # N + 1
      BY <2>1 DEF IInv, DriverState, Inputs
    <2> QED BY <1>1, <2>1, <2>2 DEF Pushed
  <1>10. ASSUME NEW i \in Inputs, Receive(i) PROVE Pushed'
    <2>1. /\ UNCHANGED <<driver, next, pos>>
          /\ recv[i] = "got" /\ recv' = [recv EXCEPT ![i] = "done"]
      BY <1>10 DEF Receive
    <2>2. /\ \A j \in Inputs : recv[j] # "none" => recv'[j] # "none"
          /\ \A j \in Inputs : recv[j] = "done" => recv'[j] = "done"
      BY <2>1 DEF IInv, TypeOK
    <2> QED BY <1>1, <2>1, <2>2 DEF Pushed
  <1>11. CASE UNCHANGED vars
    BY <1>11 DEF vars, Pushed
  <1> QED BY <1>2, <1>3, <1>4, <1>5, <1>6, <1>7, <1>8, <1>9, <1>10, <1>11
          DEF Next, DriverStep, WorkerStep

LEMMA NextCollected == IInv /\ Collected /\ [Next]_vars => Collected'
  <1> SUFFICES ASSUME IInv, Collected, [Next]_vars PROVE Collected'
    OBVIOUS
  <1> USE PoolAssumption
  <1>1. ASSUME UNCHANGED <<kind, results>>, \A i \in Inputs : recv'[i] = "done" <=> recv[i] = "done"
        PROVE  Collected'
    <2>1. \A i \in Inputs : At(i)' = At(i)
      BY <1>1 DEF At
    <2> QED BY <1>1, <2>1 DEF Collected
  <1>2. CASE DriverStep \/ OutsideShutdown \/ EnqueueClose
    <2>1. UNCHANGED <<kind, results>>
      BY <1>2 DEF DriverStep, RunCheck, RunEnqueue, Spawn, WaitReturns, DriverShutdown, ShutdownReturns,
                  OutsideShutdown, EnqueueClose
    <2>2. CASE Spawn
      <3>1. next \in Inputs
        BY <2>2 DEF Spawn, IInv, TypeOK, DriverState, Inputs
      <3>2. recv[next] = "none"
        BY <3>1 DEF IInv, DriverState, Inputs
      <3> QED BY <1>1, <2>1, <2>2, <3>1, <3>2 DEF Spawn, IInv, TypeOK
    <2>3. CASE ~Spawn
      <3>1. UNCHANGED recv
        BY <1>2, <2>3 DEF DriverStep, RunCheck, RunEnqueue, WaitReturns, DriverShutdown, ShutdownReturns,
                          OutsideShutdown, EnqueueClose
      <3> QED BY <1>1, <2>1, <3>1
    <2> QED BY <2>2, <2>3
  <1>3. CASE \E w \in Workers : WorkerDequeue(w) \/ WorkerWork(w)
    BY <1>1, <1>3 DEF WorkerDequeue, WorkerWork
  <1>4. ASSUME NEW w \in Workers, DeliverToGroup(w) PROVE Collected'
    <2>1. /\ UNCHANGED <<kind, results>> /\ worker[w].item \in Inputs
          /\ recv[worker[w].item] = "waiting" /\ recv' = [recv EXCEPT ![worker[w].item] = "got"]
      BY <1>4 DEF DeliverToGroup, IInv, WorkerState
    <2> QED BY <1>1, <2>1 DEF IInv, TypeOK
  <1>5. ASSUME NEW w \in Workers, ProcessResult(w) PROVE Collected'
    <2>1. kind' = "processor"
      BY <1>5 DEF ProcessResult, IInv, WorkerState, DriverState, Inputs
    <2> QED BY <2>1 DEF Collected
  <1>6. ASSUME NEW i \in Inputs, Receive(i) PROVE Collected'
    <2>1. /\ UNCHANGED kind
          /\ recv[i] = "got" /\ recv' = [recv EXCEPT ![i] = "done"]
      BY <1>6 DEF Receive
    <2>2. recv'[i] = "done" /\ \A j \in Inputs : j # i => recv'[j] = recv[j]
      BY <2>1 DEF IInv, TypeOK
    <2>3. CASE kind = "ordered"
      <3>1. results' = [results EXCEPT ![i] = Output(i)] /\ DOMAIN results = Inputs
        BY <1>6, <2>3 DEF Receive, IInv, TypeOK, ResultState, Inputs
      <3>2. results'[i] = Output(i) /\ \A j \in Inputs : j # i => results'[j] = results[j]
        BY <3>1
      <3>3. \A j \in Inputs : results'[j] = IF recv'[j] = "done" THEN Output(j) ELSE Nil
        BY <2>2, <2>3, <3>2 DEF Collected
      <3> QED BY <2>1, <2>3, <3>3 DEF Collected, Output
    <2>4. CASE kind = "collector" /\ Output(i) # Nil
      <3>1. /\ results' = Append(results, i) /\ results \in Seq(Inputs \cup {Nil})
            /\ Output(i) = i
        BY <1>6, <2>4 DEF Receive, IInv, TypeOK, Output
      <3>2. /\ Len(results') = Len(results) + 1 /\ Len(results) \in Nat
            /\ \A p \in 1 .. Len(results) : results'[p] = results[p]
            /\ results'[Len(results) + 1] = i
        BY <3>1
      <3>3. \A j \in Inputs : At(j)' = At(j) \cup (IF j = i THEN {Len(results) + 1} ELSE {})
        BY <3>2 DEF At
      <3>4. At(i) = {}
        BY <2>1, <2>4 DEF Collected
      <3> QED BY <2>1, <2>2, <2>4, <3>3, <3>4 DEF Collected, Output
    <2>5. CASE kind = "collector" /\ Output(i) = Nil
      <3>1. results' = results
        BY <1>6, <2>5 DEF Receive
      <3>2. \A j \in Inputs : At(j)' = At(j)
        BY <3>1 DEF At
      <3> QED BY <2>1, <2>2, <2>5, <3>2 DEF Collected, Output
    <2>6. CASE kind \notin {"ordered", "collector"}
      BY <2>1, <2>6 DEF Collected
    <2> QED BY <2>3, <2>4, <2>5, <2>6
  <1>7. CASE UNCHANGED vars
    BY <1>1, <1>7 DEF vars
  <1> QED BY <1>2, <1>3, <1>4, <1>5, <1>6, <1>7 DEF Next, WorkerStep

LEMMA Complete == IInv /\ Pushed /\ Collected => ResultsComplete
  <1> SUFFICES ASSUME IInv, Pushed, Collected, driver \in {"shutdown", "closing", "done"}, ~shared
               PROVE  /\ \A i \in Inputs : Delivered(i)
                      /\ kind \in {"ordered", "processor"} => results = [i \in Inputs |-> Output(i)]
                      /\ kind = "collector" =>
                           \A i \in Inputs : Cardinality({p \in 1 .. Len(results) : results[p] = i})
                                               = IF i \in NilInputs THEN 0 ELSE 1
    BY DEF ResultsComplete
  <1> USE PoolAssumption
  <1>1. \A i \in Inputs : Delivered(i)
    BY DEF Pushed, Delivered, Inputs
  <1>2. kind \in {"ordered", "processor"} => results = [i \in Inputs |-> Output(i)]
    <2>1. kind = "processor" => Len(results) = N /\ \A p \in Inputs : results[p] = Output(p)
      BY DEF IInv, Pushed, ResultState, ProcessedInOrder, Inputs
    <2>2. kind = "ordered" => Len(results) = N /\ \A p \in Inputs : results[p] = Output(p)
      BY DEF IInv, Pushed, ResultState, Collected
    <2>3. results \in Seq(Inputs \cup {Nil})
      BY DEF IInv, TypeOK
    <2> QED BY <2>1, <2>2, <2>3 DEF Inputs
  <1>3. ASSUME kind = "collector", NEW i \in Inputs
        PROVE  Cardinality({p \in 1 .. Len(results) : results[p] = i}) = IF i \in NilInputs THEN 0 ELSE 1
    <2>1. recv[i] = "done"
      BY <1>3 DEF Pushed
    <2>2. /\ \A p, q \in At(i) : p = q
          /\ At(i) # {} <=> Output(i) # Nil
      BY <1>3, <2>1 DEF Collected
    <2>3. Output(i) = Nil <=> i \in NilInputs
      BY DEF Output, Nil, Inputs
    <2>4. CASE i \in NilInputs
      BY <2>2, <2>3, <2>4, FS_EmptySet DEF At
    <2>5. CASE i \notin NilInputs
      <3>1. PICK p : p \in At(i)
        BY <2>2, <2>3, <2>5
      <3>2. At(i) = {p}
        BY <2>2, <3>1
      <3> QED BY <2>5, <3>2, FS_Singleton DEF At
    <2> QED BY <2>4, <2>5
  <1> QED BY <1>1, <1>2, <1>3

(* What the Concurrent* functions return is complete when Wait returns, in *)
(* input order for ordered groups and processors and exactly once for      *)
(* collectors, for any number of inputs and workers.                       *)
THEOREM ResultsCompleteHolds == Spec => []ResultsComplete
  <1>1. Init => IInv /\ Pushed /\ Collected
    BY InitIInv, InitComplete
  <1>2. (IInv /\ Pushed /\ Collected) /\ [Next]_vars => (IInv /\ Pushed /\ Collected)'
    BY NextIInv, NextPushed, NextCollected
  <1> QED BY <1>1, <1>2, Complete, PTL DEF Spec

-----------------------------------------------------------------------------
(* The race of Run and Shutdown. A Run that has seen the flag unset may    *)
(* still enqueue; until it does, nothing is behind the close entries.      *)
BehindInv ==
    /\ size # 0
    /\ isShutdown /\ toClose = 0 =>
         /\ \A i \in Behind, j \in Inputs : Accepted(j) => j <= i
         /\ driver = "enqueue" => Behind = {}

LEMMA InitBehind == Init => BehindInv
  BY PoolAssumption DEF Init, BehindInv, PoolSize

(* A step that leaves the queue alone and accepts nothing. *)
LEMMA BehindFrame ==
    ASSUME BehindInv, UNCHANGED <<size, queue>>,
           \A i \in Inputs : Accepted(i)' <=> Accepted(i),
           isShutdown' /\ toClose' = 0 => isShutdown /\ toClose = 0,
           isShutdown' /\ driver' = "enqueue" => driver = "enqueue"
    PROVE  BehindInv'
  <1>1. Behind' = Behind
    BY DEF Behind, InQueue
  <1> QED BY <1>1 DEF BehindInv

LEMMA NextBehind == IInv /\ BehindInv /\ [Next]_vars => BehindInv'
  <1> SUFFICES ASSUME IInv, BehindInv, [Next]_vars PROVE BehindInv'
    OBVIOUS
  <1> USE PoolAssumption
  <1>1. CASE RunCheck \/ WaitReturns \/ DriverShutdown \/ ShutdownReturns
    <2>1. /\ UNCHANGED <<kind, size, queue, recv>>
          /\ driver # "spawn" /\ driver' # "spawn"
      BY <1>1 DEF RunCheck, Advance, WaitReturns, DriverShutdown, ShutdownReturns
    <2>2. kind = "processor" => next' = next
      BY <1>1 DEF RunCheck, WaitReturns, DriverShutdown, ShutdownReturns
    <2>3. \A i \in Inputs : Accepted(i)' <=> Accepted(i)
      BY <2>1, <2>2 DEF Accepted
    <2>4. /\ isShutdown' /\ toClose' = 0 => isShutdown /\ toClose = 0
          /\ isShutdown' /\ driver' = "enqueue" => driver = "enqueue"
      BY <1>1 DEF RunCheck, Advance, WaitReturns, DriverShutdown, ShutdownReturns, CloseCount, BehindInv
    <2> QED BY <2>1, <2>3, <2>4, BehindFrame
  <1>2. CASE RunEnqueue
    <2>1. /\ UNCHANGED <<kind, size, isShutdown, toClose, next, recv>>
          /\ driver = "enqueue" /\ driver' = "spawn"
          /\ queue' = Append(queue, next)
      BY <1>2 DEF RunEnqueue, Enqueue
    <2>2. next \in Inputs
      BY <2>1 DEF IInv, TypeOK, DriverState, Inputs
    <2>3. \A i \in Inputs : InQueue(i)' = InQueue(i) \cup (IF i = next THEN {Len(queue) + 1} ELSE {})
      BY <2>1, <2>2, AppendPositions DEF IInv
    <2>4. /\ Len(queue') = Len(queue) + 1 /\ Len(queue) \in Nat
          /\ \A p \in 1 .. Len(queue) : queue'[p] = queue[p]
      BY <2>1, <2>2 DEF IInv, TypeOK
    <2>5. Behind' \subseteq Behind \cup {next}
      <3> SUFFICES ASSUME NEW i \in Behind', i # next PROVE i \in Behind
        OBVIOUS
      <3>1. PICK p \in InQueue(i)' : \A q \in p .. Len(queue') : queue'[q] # Close
        BY DEF Behind
      <3>2. i \in Inputs
        BY DEF Behind
      <3>3. p \in InQueue(i) /\ p \in 1 .. Len(queue)
        BY <2>3, <3>1, <3>2 DEF InQueue
      <3>4. \A q \in p .. Len(queue) : queue[q] # Close
        BY <2>4, <3>1, <3>3
      <3> QED BY <3>2, <3>3, <3>4 DEF Behind
    <2>6. \A j \in Inputs : Accepted(j)' => j <= next
      BY <2>1 DEF IInv, TypeOK, DriverState, Accepted, Inputs
    <2>7. isShutdown /\ toClose = 0 => Behind = {}
      BY <2>1 DEF BehindInv
    <2> QED BY <2>1, <2>5, <2>6, <2>7 DEF BehindInv
  <1>3. CASE Spawn
    <2>1. /\ UNCHANGED <<kind, size, queue, isShutdown, toClose>>
          /\ driver = "spawn" /\ driver' \in {"wait", "run"} /\ next' = next + 1
      BY <1>3 DEF Spawn, Advance
    <2>2. next \in Inputs
      BY <2>1 DEF IInv, TypeOK, DriverState, Inputs
    <2>3. \A i \in Inputs : Accepted(i)' <=> Accepted(i)
      <3>1. CASE kind = "processor"
        BY <2>1, <2>2, <3>1 DEF Accepted, Inputs
      <3>2. CASE kind # "processor"
        BY <1>3, <2>1, <2>2, <3>2 DEF Spawn, IInv, TypeOK, Accepted
      <3> QED BY <3>1, <3>2
    <2> QED BY <2>1, <2>3, BehindFrame
  <1>4. CASE OutsideShutdown
    <2>1. /\ UNCHANGED <<kind, size, queue, driver, next, recv>> /\ toClose' = size
      BY <1>4 DEF OutsideShutdown, CloseCount
    <2>2. \A i \in Inputs : Accepted(i)' <=> Accepted(i)
      BY <2>1 DEF Accepted
    <2> QED BY <2>1, <2>2, BehindFrame DEF BehindInv
  <1>5. CASE EnqueueClose
    <2>1. UNCHANGED size /\ queue' = Append(queue, Close)
      BY <1>5 DEF EnqueueClose, Enqueue
    <2>2. /\ Len(queue') \in Nat
          /\ queue'[Len(queue')] = Close
      BY <2>1 DEF IInv, TypeOK
    <2>3. Behind' = {}
      <3> SUFFICES ASSUME NEW i \in Behind' PROVE FALSE
        OBVIOUS
      <3>1. PICK p \in InQueue(i)' : \A q \in p .. Len(queue') : queue'[q] # Close
        BY DEF Behind
      <3>2. p \in 1 .. Len(queue')
        BY <3>1 DEF InQueue
      <3> QED BY <2>2, <3>1, <3>2
    <2> QED BY <2>1, <2>3 DEF BehindInv
  <1>6. ASSUME NEW w \in Workers, WorkerDequeue(w) PROVE BehindInv'
    <2>1. UNCHANGED <<kind, size, isShutdown, toClose, driver, next, recv>>
      BY <1>6 DEF WorkerDequeue
    <2>2. \A i \in Inputs : Accepted(i)' <=> Accepted(i)
      BY <2>1 DEF Accepted
    <2>3. CASE queue' = queue
      BY <2>1, <2>2, <2>3, BehindFrame
    <2>4. CASE queue # << >> /\ queue' = Tail(queue)
      <3>1. /\ Len(queue) \in Nat \ {0}
            /\ Len(queue') = Len(queue) - 1
            /\ \A p \in 1 .. Len(queue) - 1 : queue'[p] = queue[p + 1]
        BY <2>4 DEF IInv, TypeOK
      <3>2. Behind' \subseteq Behind
        <4> SUFFICES ASSUME NEW i \in Behind' PROVE i \in Behind
          OBVIOUS
        <4>1. PICK p \in InQueue(i)' : \A q \in p .. Len(queue') : queue'[q] # Close
          BY DEF Behind
        <4>2. i \in Inputs
          BY DEF Behind
        <4>3. p \in 1 .. Len(queue) - 1 /\ queue'[p] = i
          BY <3>1, <4>1 DEF InQueue
        <4>4. p + 1 \in InQueue(i)
          BY <3>1, <4>3 DEF InQueue
        <4>5. ASSUME NEW q \in p + 1 .. Len(queue) PROVE queue[q] # Close
          <5>1. q - 1 \in p .. Len(queue') /\ q - 1 \in 1 .. Len(queue) - 1 /\ q - 1 + 1 = q
            BY <3>1, <4>3, <4>5
          <5> QED BY <3>1, <4>1, <5>1
        <4> QED BY <4>2, <4>4, <4>5 DEF Behind
      <3> QED BY <2>1, <2>2, <3>2 DEF BehindInv
    <2> QED BY <1>6, <2>3, <2>4 DEF WorkerDequeue, Dequeue
  <1>7. CASE \E w \in Workers : WorkerWork(w) \/ ProcessResult(w)
    <2>1. UNCHANGED <<kind, size, queue, isShutdown, toClose, driver, next, recv>>
      BY <1>7 DEF WorkerWork, ProcessResult
    <2> QED BY <2>1, BehindFrame DEF Accepted
  <1>8. ASSUME NEW w \in Workers, DeliverToGroup(w) PROVE BehindInv'
    <2>1. /\ UNCHANGED <<kind, size, queue, isShutdown, toClose, driver, next>>
          /\ worker[w].item \in Inputs /\ recv[worker[w].item] = "waiting"
          /\ recv' = [recv EXCEPT ![worker[w].item] = "got"]
      BY <1>8 DEF DeliverToGroup, IInv, WorkerState
    <2>2. \A i \in Inputs : recv'[i] # "none" <=> recv[i] # "none"
      BY <2>1 DEF IInv, TypeOK
    <2> QED BY <2>1, <2>2, BehindFrame DEF Accepted
  <1>9. ASSUME NEW i \in Inputs, Receive(i) PROVE BehindInv'
    <2>1. /\ UNCHANGED <<kind, size, queue, isShutdown, toClose, driver, next>>
          /\ recv[i] = "got" /\ recv' = [recv EXCEPT ![i] = "done"]
      BY <1>9 DEF Receive
    <2>2. \A j \in Inputs : recv'[j] # "none" <=> recv[j] # "none"
      BY <2>1 DEF IInv, TypeOK
    <2> QED BY <2>1, <2>2, BehindFrame DEF Accepted
  <1>10. CASE UNCHANGED vars
    BY <1>10, BehindFrame DEF vars, Accepted
  <1> QED BY <1>1, <1>2, <1>3, <1>4, <1>5, <1>6, <1>7, <1>8, <1>9, <1>10 DEF Next, DriverStep, WorkerStep

(* On an own pool every input is delivered before the flag is set. *)
LEMMA NothingBehind ==
    ASSUME IInv, Pushed, Collected, ~shared, isShutdown
    PROVE  Behind = {}
  <1>1. driver \in {"closing", "done"}
    BY DEF IInv, DriverState
  <1>2. \A i \in Inputs : Delivered(i)
    BY <1>1, Complete DEF ResultsComplete
  <1>3. \A i \in Inputs : InQueue(i) = {}
    BY <1>2 DEF IInv, EachInputOnce
  <1> QED BY <1>3 DEF Behind

(* When Shutdown has enqueued its close entries, at most the last input    *)
(* that Run accepted is behind them, and none on a pool that only its      *)
(* driver shuts down: for any number of inputs and workers, any kind of    *)
(* group and a Shutdown between any two steps of Run.                      *)
THEOREM OneInputBehindHolds == Spec => []OneInputBehind
  <1> DEFINE Inv == IInv /\ Pushed /\ Collected /\ BehindInv
  <1>1. Init => Inv
    BY InitIInv, InitComplete, InitBehind
  <1>2. Inv /\ [Next]_vars => Inv'
    BY NextIInv, NextPushed, NextCollected, NextBehind
  <1>3. Inv => OneInputBehind
    <2> SUFFICES ASSUME Inv, isShutdown, toClose = 0, NEW i \in Behind
                 PROVE  shared /\ \A j \in Inputs : Accepted(j) => j <= i
      BY DEF OneInputBehind
    <2>1. shared
      BY NothingBehind
    <2> QED BY <2>1 DEF BehindInv
  <1> QED BY <1>1, <1>2, <1>3, PTL DEF Spec
=============================================================================

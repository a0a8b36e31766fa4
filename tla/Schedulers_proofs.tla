-------------------------- MODULE Schedulers_proofs --------------------------
(***************************************************************************)
(* The thread pool, for every number of workers and every set of items: no *)
(* wakeup is lost, and items are taken in the order of the queue.  The     *)
(* strand, for every set of items: it keeps its invariant, runs one item   *)
(* at a time, and implements the safety part of the serial executor.       *)
(***************************************************************************)
EXTENDS SimpleThreadPool, StrandSchedulerDecorator, SequenceTheorems, TLAPS

-----------------------------------------------------------------------------
(* The pool.                                                               *)

LEMMA InitPoolInv == Init => PoolInv
<1>. SUFFICES ASSUME Init PROVE PoolInv
  OBVIOUS
<1>1. queue = <<>> /\ <<>> \in Seq(Items)
  BY DEF Init
<1>. QED
  BY <1>1 DEF Init, PoolInv, TypeOK, QuitOnly, StartedHasWorker,
     ItemsAttended, Idle

(* A step that leaves the queue and the flag alone, and takes no worker    *)
(* from "top" or "running" to one of the places where it is not on its way.*)
LEMMA StaysAttended ==
  ASSUME PoolInv, UNCHANGED <<queue, quit, poolState>>,
         \A w \in Workers : Busy(w) => Busy(w)'
  PROVE  ItemsAttended'
BY DEF PoolInv, ItemsAttended

LEMMA StartWorkerPoolInv ==
  ASSUME PoolInv, NEW w \in Workers, StartWorker(w)
  PROVE  PoolInv'
<1>1. TypeOK' /\ QuitOnly'
  BY DEF StartWorker, Goto, PoolInv, TypeOK, QuitOnly
<1>2. Busy(w)' /\ pc'[w] # "unborn"
  BY DEF StartWorker, Goto, Busy, PoolInv, TypeOK
<1>. QED
  BY <1>1, <1>2 DEF PoolInv, StartedHasWorker, ItemsAttended

LEMMA WorkerStepPoolInv ==
  ASSUME PoolInv, NEW w \in Workers, WorkerStep(w) \/ WorkerSpurious(w)
  PROVE  PoolInv'
<1>1. CASE WorkerCheck(w)
  <2>1. queue' = <<>>
    BY <1>1 DEF WorkerCheck
  <2>. QED
    BY <1>1, <2>1 DEF WorkerCheck, Goto, PoolInv, TypeOK, QuitOnly, StartedHasWorker,
     ItemsAttended
<1>2. CASE WorkerBlock(w)
  <2>1. \A v \in Workers : Busy(v) => Busy(v)'
    BY <1>2 DEF WorkerBlock, Goto, Busy, PoolInv, TypeOK
  <2>2. ItemsAttended'
    BY <1>2, <2>1, StaysAttended DEF WorkerBlock
  <2>. QED
    BY <1>2, <2>2 DEF WorkerBlock, Goto, PoolInv, TypeOK, QuitOnly, StartedHasWorker
<1>3. CASE WorkerSpurious(w)
  <2>1. \A v \in Workers : Busy(v) => Busy(v)'
    BY <1>3 DEF WorkerSpurious, Goto, Busy, PoolInv, TypeOK
  <2>2. ItemsAttended'
    BY <1>3, <2>1, StaysAttended DEF WorkerSpurious
  <2>. QED
    BY <1>3, <2>2 DEF WorkerSpurious, Goto, PoolInv, TypeOK, QuitOnly, StartedHasWorker
<1>4. CASE WorkerQuit(w)
  BY <1>4 DEF WorkerQuit, Goto, PoolInv, TypeOK, QuitOnly, StartedHasWorker,
     ItemsAttended
<1>5. CASE WorkerTake(w)
  <2>1. Head(queue) \in Items /\ Tail(queue) \in Seq(Items)
    BY <1>5 DEF WorkerTake, PoolInv, TypeOK
  <2>2. TypeOK'
    BY <1>5, <2>1 DEF WorkerTake, Goto, PoolInv, TypeOK
  <2>3. Busy(w)'
    BY <1>5 DEF WorkerTake, Goto, Busy, PoolInv, TypeOK
  <2>. QED
    BY <1>5, <2>2, <2>3 DEF WorkerTake, Goto, PoolInv, TypeOK, QuitOnly, StartedHasWorker,
     ItemsAttended
<1>6. CASE WorkerRun(w)
  <2>1. TypeOK' /\ QuitOnly' /\ StartedHasWorker'
    BY <1>6 DEF WorkerRun, Goto, PoolInv, TypeOK, QuitOnly, StartedHasWorker
  <2>2. ~quit => Busy(w)'
    BY <1>6 DEF WorkerRun, Goto, Busy, PoolInv, TypeOK
  <2>. QED
    BY <1>6, <2>1, <2>2 DEF WorkerRun, PoolInv, ItemsAttended
<1>. QED
  BY <1>1, <1>2, <1>3, <1>4, <1>5, <1>6 DEF WorkerStep

(* Nobody holds the mutex, so every worker that does not wait is on its    *)
(* way; if one waits, one is woken.                                        *)
LEMMA EnqueueItemPoolInv ==
  ASSUME PoolInv, NEW i \in Items, EnqueueItem(i)
  PROVE  PoolInv'
<1>1. TypeOK'
  BY DEF EnqueueItem, WakeOne, Goto, PoolInv, TypeOK
<1>2. QuitOnly' /\ StartedHasWorker'
  BY DEF EnqueueItem, WakeOne, Goto, PoolInv, TypeOK, QuitOnly, StartedHasWorker
<1>3. ASSUME ~quit, poolState = "Started" PROVE \E w \in Workers : Busy(w)'
  <2>1. CASE \E w \in Workers : pc[w] = "waiting"
    <3>1. PICK w \in Workers : Goto(w, "waiting", "top")
      BY <2>1 DEF EnqueueItem, WakeOne
    <3>. QED
      BY <3>1 DEF Goto, Busy, PoolInv, TypeOK
  <2>2. CASE \A w \in Workers : pc[w] # "waiting"
    <3>1. PICK w \in Workers : pc[w] # "unborn"
      BY <1>3 DEF PoolInv, StartedHasWorker
    <3>2. pc[w] \in {"top", "running"}
      BY <1>3, <2>2, <3>1 DEF EnqueueItem, LockFree, PoolInv, TypeOK, QuitOnly, StartedHasWorker
    <3>3. pc' = pc
      BY <2>2 DEF EnqueueItem, WakeOne
    <3>. QED
      BY <3>2, <3>3 DEF Busy
  <2>. QED
    BY <2>1, <2>2
<1>4. quit' = quit /\ poolState' = poolState
  BY DEF EnqueueItem
<1>. QED
  BY <1>1, <1>2, <1>3, <1>4 DEF PoolInv, ItemsAttended

LEMMA StopPoolInv ==
  ASSUME PoolInv, StopThreadPool \/ StopStep
  PROVE  PoolInv'
<1>1. CASE StopThreadPool
  BY <1>1 DEF StopThreadPool, StopRequest, PoolInv, TypeOK, QuitOnly, StartedHasWorker,
     ItemsAttended
<1>2. CASE StopNotify
  <2>1. TypeOK' /\ QuitOnly' /\ StartedHasWorker'
    BY <1>2 DEF StopNotify, PoolInv, TypeOK, QuitOnly, StartedHasWorker
  <2>2. \A w \in Workers : Busy(w) => Busy(w)'
    BY <1>2 DEF StopNotify, Busy
  <2>. QED
    BY <1>2, <2>1, <2>2, StaysAttended DEF StopNotify, PoolInv
<1>3. CASE StopJoin
  BY <1>3 DEF StopJoin, PoolInv, TypeOK, QuitOnly, StartedHasWorker,
     ItemsAttended, Busy
<1>. QED
  BY <1>1, <1>2, <1>3 DEF StopStep

LEMMA NextPoolInv == PoolInv /\ [Next]_vars => PoolInv'
<1>. SUFFICES ASSUME PoolInv, [Next]_vars PROVE PoolInv'
  OBVIOUS
<1>1. CASE UNCHANGED vars
  BY <1>1 DEF vars, PoolInv, TypeOK, QuitOnly, StartedHasWorker,
     ItemsAttended, Busy
<1>. QED
  BY <1>1, StartWorkerPoolInv, WorkerStepPoolInv, EnqueueItemPoolInv, StopPoolInv DEF Next

(* No wakeup of an item is lost: EnqueueItem notifies one waiting worker,  *)
(* and a worker that is at the queue, or at an item, will find the rest.   *)
THEOREM PoolInvariant == SafeSpec => []PoolInv
BY InitPoolInv, NextPoolInv, PTL DEF SafeSpec

-----------------------------------------------------------------------------
LEMMA NextTakenInOrder == PoolInv /\ TakenInOrder /\ [Next]_vars => TakenInOrder'
<1>. SUFFICES ASSUME PoolInv, TakenInOrder, [Next]_vars PROVE TakenInOrder'
  OBVIOUS
<1>. USE DEF PoolInv, TypeOK, TakenInOrder
<1>1. CASE UNCHANGED <<queue, enqueued, started>>
  BY <1>1
<1>2. ASSUME NEW i \in Items, EnqueueItem(i) PROVE TakenInOrder'
  <2>1. <<i>> \in Seq(Items) /\ started \o queue \in Seq(Items)
    OBVIOUS
  <2>2. Append(started \o queue, i) = (started \o queue) \o <<i>>
    BY <2>1, AppendIsConcat
  <2>3. Append(queue, i) = queue \o <<i>>
    BY AppendIsConcat
  <2>4. (started \o queue) \o <<i>> = started \o (queue \o <<i>>)
    BY <2>1, ConcatAssociative
  <2>. QED
    BY <1>2, <2>2, <2>3, <2>4 DEF EnqueueItem
<1>3. ASSUME NEW w \in Workers, WorkerTake(w) PROVE TakenInOrder'
  <2>1. queue # <<>> /\ queue \in Seq(Items) /\ started \in Seq(Items)
    BY <1>3 DEF WorkerTake
  <2>2. Append(started, Head(queue)) \o Tail(queue) = started \o queue
    BY <2>1
  <2>. QED
    BY <1>3, <2>2 DEF WorkerTake
<1>. QED
  BY <1>1, <1>2, <1>3
  DEF vars, Next, WorkerStep, StopStep, WorkerCheck, WorkerBlock, WorkerQuit, WorkerRun,
      WorkerSpurious, StartWorker, StopThreadPool, StopRequest, StopNotify, StopJoin

(* Items are taken in the order in which they were enqueued, each once,    *)
(* and none vanishes.                                                      *)
THEOREM ItemsTakenInOrder == SafeSpec => []TakenInOrder
<1>1. Init => TakenInOrder
  BY DEF Init, TakenInOrder
<1>. QED
  BY <1>1, PoolInvariant, NextTakenInOrder, PTL DEF SafeSpec

-----------------------------------------------------------------------------
(* The strand.                                                             *)

IInv == StrandTypeOK /\ StrandInv

LEMMA InitIInv == StrandInit => IInv
<1>. SUFFICES ASSUME StrandInit PROVE IInv
  OBVIOUS
<1>1. strandQueue = <<>> /\ strandQueue \in Seq(WorkItems) /\ Len(strandQueue) = 0
  BY DEF StrandInit
<1>2. InHand = {}
  BY DEF StrandInit, InHand
<1>3. StrandTypeOK
  BY <1>1 DEF StrandInit, StrandTypeOK
<1>4. StrandInv
  BY <1>1, <1>2 DEF StrandInit, StrandInv
<1>. QED
  BY <1>3, <1>4 DEF IInv

(* At most one item is out of the queue, so an item that moves on leaves   *)
(* the other two sets empty.                                               *)
LEMMA OneInHand ==
  ASSUME IInv, NEW i \in WorkItems, i \in InHand
  PROVE  InHand = {i} /\ operationInProgress
BY DEF IInv, StrandInv

LEMMA EnqueueItemIInv ==
  ASSUME IInv, NEW i \in WorkItems, OnEnqueueItem(i)
  PROVE  IInv'
<1>1. CASE operationInProgress
  <2>1. /\ strandQueue' = Append(strandQueue, i)
        /\ UNCHANGED <<submitted, running, marking>>
        /\ operationInProgress' = TRUE
        /\ received' = received \cup {i}
        /\ i \notin received
    BY <1>1 DEF OnEnqueueItem
  <2>2. StrandTypeOK'
    BY <2>1 DEF IInv, StrandTypeOK
  <2>3. InHand' = InHand
    BY <2>1 DEF InHand
  <2>4. /\ Len(strandQueue') = Len(strandQueue) + 1
        /\ \A n \in 1..Len(strandQueue) : strandQueue'[n] = strandQueue[n]
        /\ strandQueue'[Len(strandQueue) + 1] = i
        /\ Len(strandQueue) \in Nat
    BY <2>1 DEF IInv, StrandTypeOK
  <2>5. \A n \in 1..Len(strandQueue') : strandQueue'[n] \in received' \ InHand'
    BY <2>1, <2>3, <2>4 DEF IInv, StrandInv
  <2>6. \A m, n \in 1..Len(strandQueue') : strandQueue'[m] = strandQueue'[n] => m = n
    BY <2>1, <2>4 DEF IInv, StrandInv
  <2>. QED
    BY <1>1, <2>1, <2>2, <2>3, <2>5, <2>6 DEF IInv, StrandInv
<1>2. CASE ~operationInProgress
  BY <1>2 DEF OnEnqueueItem, IInv, StrandTypeOK, StrandInv, InHand
<1>. QED
  BY <1>1, <1>2

LEMMA BeginIInv ==
  ASSUME IInv, NEW i \in WorkItems, Begin(i)
  PROVE  IInv'
<1>1. InHand' = InHand /\ i \in InHand
  BY DEF Begin, InHand
<1>. QED
  BY <1>1 DEF Begin, IInv, StrandTypeOK, StrandInv, InHand

LEMMA ReturnIInv ==
  ASSUME IInv, NEW i \in WorkItems, Return(i)
  PROVE  IInv'
<1>1. InHand' = InHand /\ i \in InHand
  BY DEF Return, InHand
<1>. QED
  BY <1>1 DEF Return, IInv, StrandTypeOK, StrandInv, InHand

LEMMA MarkDoneIInv ==
  ASSUME IInv, NEW i \in WorkItems, MarkDone(i)
  PROVE  IInv'
<1>1. InHand = {i} /\ operationInProgress
  BY OneInHand DEF MarkDone, InHand
<1>2. submitted = {} /\ running = {} /\ marking = {i}
  BY <1>1 DEF MarkDone, IInv, StrandInv, InHand
<1>3. CASE strandQueue = <<>>
  BY <1>2, <1>3 DEF MarkDone, IInv, StrandTypeOK, StrandInv, InHand
<1>4. CASE strandQueue # <<>>
  <2>. DEFINE h == Head(strandQueue)
  <2>1. /\ strandQueue' = Tail(strandQueue)
        /\ submitted' = {h}
        /\ running' = {} /\ marking' = {}
        /\ operationInProgress' = TRUE
        /\ received' = received
    BY <1>2, <1>4 DEF MarkDone
  <2>2. h \in WorkItems /\ h = strandQueue[1] /\ Len(strandQueue) \in Nat \ {0}
    BY <1>4 DEF IInv, StrandTypeOK
  <2>3. StrandTypeOK'
    BY <2>1, <2>2 DEF IInv, StrandTypeOK
  <2>4. InHand' = {h}
    BY <2>1 DEF InHand
  <2>5. /\ Len(strandQueue') = Len(strandQueue) - 1
        /\ \A n \in 1..Len(strandQueue') : /\ strandQueue'[n] = strandQueue[n + 1]
                                           /\ n + 1 \in 1..Len(strandQueue)
    BY <1>4, <2>1 DEF IInv, StrandTypeOK
  <2>6. \A n \in 1..Len(strandQueue') : strandQueue'[n] \in received' \ InHand'
    BY <2>1, <2>2, <2>4, <2>5 DEF IInv, StrandInv
  <2>7. \A m, n \in 1..Len(strandQueue') : strandQueue'[m] = strandQueue'[n] => m = n
    BY <2>2, <2>5 DEF IInv, StrandInv
  <2>8. h \in received
    BY <2>2 DEF IInv, StrandInv
  <2>. QED
    BY <2>1, <2>2, <2>3, <2>4, <2>6, <2>7, <2>8 DEF IInv, StrandInv
<1>. QED
  BY <1>3, <1>4

LEMMA NextIInv == IInv /\ [StrandNext]_strandVars => IInv'
<1>. SUFFICES ASSUME IInv, [StrandNext]_strandVars PROVE IInv'
  OBVIOUS
<1>1. CASE UNCHANGED strandVars
  BY <1>1 DEF strandVars, IInv, StrandTypeOK, StrandInv, InHand
<1>2. CASE StrandNext
  BY <1>2, EnqueueItemIInv, BeginIInv, ReturnIInv, MarkDoneIInv DEF StrandNext, Step
<1>. QED
  BY <1>1, <1>2

(* The strand's invariant holds for every set of items: the flag           *)
(* _operationInProgress is set exactly while one item is out of the queue. *)
THEOREM StrandInvariant == StrandSafeSpec => [](StrandTypeOK /\ StrandInv)
<1>1. StrandSafeSpec => []IInv
  BY InitIInv, NextIInv, PTL DEF StrandSafeSpec
<1>. QED
  BY <1>1, PTL DEF IInv

(* Two items of one strand never run at the same time.                     *)
THEOREM StrandMutualExclusion == StrandSafeSpec => []MutualExclusion
<1>1. IInv => MutualExclusion
  BY DEF IInv, StrandInv, StrandTypeOK, InHand, MutualExclusion
<1>. QED
  BY <1>1, StrandInvariant, PTL DEF IInv

-----------------------------------------------------------------------------
(* Refinement: every step of the strand is a step of the executor or       *)
(* leaves it alone.                                                        *)

LEMMA CurrentIs ==
  ASSUME IInv, NEW i \in WorkItems, i \in submitted \cup running
  PROVE  Current = <<i>>
<1>1. submitted \cup running = {i}
  BY OneInHand DEF InHand
<1>. QED
  BY <1>1 DEF Current

LEMMA EnqueueItemRefines ==
  ASSUME IInv, IInv', NEW i \in WorkItems, OnEnqueueItem(i)
  PROVE  [Executor!Next]_Executor!evars
<1>1. CASE operationInProgress
  <2>1. /\ strandQueue' = Append(strandQueue, i)
        /\ submitted' = submitted /\ running' = running
    BY <1>1 DEF OnEnqueueItem
  <2>2. Current' = Current
    BY <2>1 DEF Current
  <2>3. Current \in Seq(WorkItems) /\ strandQueue \in Seq(WorkItems)
    BY CurrentIs DEF Current, IInv, StrandTypeOK
  <2>4. Current \o Append(strandQueue, i) = Append(Current \o strandQueue, i)
    BY <2>3
  <2>. QED
    BY <2>1, <2>2, <2>4 DEF Executor!Next, Executor!Enqueue
<1>2. CASE ~operationInProgress
  <2>1. submitted = {} /\ running = {} /\ strandQueue = <<>>
    BY <1>2 DEF IInv, StrandInv, InHand
  <2>2. submitted' = {i} /\ running' = {} /\ strandQueue' = <<>>
    BY <1>2, <2>1 DEF OnEnqueueItem
  <2>3. Current = <<>> /\ Current' = <<i>>
    BY <2>1, <2>2 DEF Current
  <2>4. <<>> \o <<>> = <<>> /\ <<i>> \o <<>> = Append(<<>>, i)
    OBVIOUS
  <2>. QED
    BY <2>1, <2>2, <2>3, <2>4 DEF Executor!Next, Executor!Enqueue
<1>. QED
  BY <1>1, <1>2

LEMMA BeginRefines ==
  ASSUME IInv, IInv', NEW i \in WorkItems, Begin(i)
  PROVE  Executor!Begin
<1>1. strandQueue' = strandQueue
  BY DEF Begin
<1>2. running = {} /\ running' # {}
  BY OneInHand DEF Begin, IInv, StrandInv, InHand
<1>3. Current = <<i>>
  BY CurrentIs DEF Begin
<1>4. Current' = <<i>>
  <2>1. submitted' \cup running' = {i}
    BY OneInHand DEF Begin, InHand
  <2>. QED
    BY <2>1 DEF Current
<1>5. Current \o strandQueue # <<>>
  BY <1>3 DEF IInv, StrandTypeOK
<1>. QED
  BY <1>1, <1>2, <1>3, <1>4, <1>5 DEF Executor!Begin

LEMMA ReturnRefines ==
  ASSUME IInv, IInv', NEW i \in WorkItems, Return(i)
  PROVE  Executor!End
<1>1. submitted = {} /\ running = {i} /\ submitted' = {} /\ running' = {}
  BY OneInHand DEF Return, IInv, StrandInv, InHand
<1>2. Current = <<i>> /\ Current' = <<>> /\ strandQueue' = strandQueue
  BY <1>1, CurrentIs DEF Current, Return
<1>3. strandQueue \in Seq(WorkItems)
  BY DEF IInv, StrandTypeOK
<1>4. <<>> \o strandQueue = Tail(<<i>> \o strandQueue)
  BY <1>3
<1>. QED
  BY <1>1, <1>2, <1>4 DEF Executor!End

LEMMA MarkDoneRefines ==
  ASSUME IInv, IInv', NEW i \in WorkItems, MarkDone(i)
  PROVE  UNCHANGED Executor!evars
<1>1. submitted = {} /\ running = {}
  BY OneInHand DEF MarkDone, IInv, StrandInv, InHand
<1>2. Current = <<>> /\ running' = running /\ strandQueue \in Seq(WorkItems)
  BY <1>1 DEF Current, MarkDone, IInv, StrandTypeOK
<1>3. Current \o strandQueue = strandQueue
  BY <1>2
<1>4. CASE strandQueue = <<>>
  <2>1. strandQueue' = <<>> /\ submitted' = {}
    BY <1>1, <1>4 DEF MarkDone
  <2>2. Current' = <<>>
    BY <1>1, <1>2, <2>1 DEF Current
  <2>. QED
    BY <1>2, <1>4, <2>1, <2>2 DEF Executor!evars
<1>5. CASE strandQueue # <<>>
  <2>1. strandQueue' = Tail(strandQueue) /\ submitted' = {Head(strandQueue)}
    BY <1>1, <1>5 DEF MarkDone
  <2>2. Current' = <<Head(strandQueue)>>
    BY <1>1, <1>2, <2>1 DEF Current
  <2>3. <<Head(strandQueue)>> \o Tail(strandQueue) = strandQueue
    BY <1>2, <1>5
  <2>. QED
    BY <1>2, <1>3, <2>1, <2>2, <2>3 DEF Executor!evars
<1>. QED
  BY <1>4, <1>5

(* The strand implements the safety part of the serial executor: items     *)
(* begin in the order in which they were received, one at a time.          *)
THEOREM StrandRefinesExecutor == StrandSafeSpec => Executor!SafeSpec
<1>1. StrandInit => Executor!Init
  <2>. SUFFICES ASSUME StrandInit PROVE Executor!Init
    OBVIOUS
  <2>1. Current = <<>> /\ strandQueue = <<>> /\ running = {}
    BY DEF StrandInit, Current
  <2>2. <<>> \o <<>> = <<>>
    OBVIOUS
  <2>. QED
    BY <2>1, <2>2 DEF Executor!Init
<1>2. IInv /\ IInv' /\ [StrandNext]_strandVars => [Executor!Next]_Executor!evars
  <2>. SUFFICES ASSUME IInv, IInv', [StrandNext]_strandVars
                PROVE  [Executor!Next]_Executor!evars
    OBVIOUS
  <2>1. CASE UNCHANGED strandVars
    BY <2>1 DEF strandVars, Current, Executor!evars
  <2>2. CASE StrandNext
    BY <2>2, EnqueueItemRefines, BeginRefines, ReturnRefines, MarkDoneRefines
       DEF StrandNext, Step, Executor!Next
  <2>. QED
    BY <2>1, <2>2
<1>. QED
  BY <1>1, <1>2, InitIInv, NextIInv, PTL DEF StrandSafeSpec, Executor!SafeSpec
=============================================================================

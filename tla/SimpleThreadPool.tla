-------------------------- MODULE SimpleThreadPool --------------------------
(***************************************************************************)
(* SimpleThreadPool (Schedulers/SimpleThreadPool.cpp) with the calls that  *)
(* ThreadPoolScheduler makes on it.  Start and Stop are called by one      *)
(* thread, one after the other; items are enqueued by any, at any time.    *)
(*                                                                         *)
(* A worker holds _lockRoot from its check of the queue to the moment it   *)
(* blocks on the condition variable (pc "checked"); the other critical     *)
(* sections are one step.  EnqueueItem pushes and notifies under the lock; *)
(* Stop sets _quitRequest and notifies without it.                         *)
(***************************************************************************)
EXTENDS Integers, Sequences, FiniteSets

CONSTANTS Workers,      (* the threads of the pool                         *)
          Items         (* work items, each enqueued at most once          *)

ASSUME PoolAssumption == Workers # {}

VARIABLES
  queue,      (* _innerQueue                                               *)
  quit,       (* _quitRequest                                              *)
  poolState,  (* _threadPoolState                                          *)
  stopper,    (* how far the call of Stop has come                         *)
  pc,         (* pc[w]: what the worker w does                             *)
  item,       (* item[w]: its currentWorkItem, {} or {i}                   *)
  enqueued,   (* the items enqueued so far, in order                       *)
  started     (* the items taken off the queue so far, in order            *)

vars == <<queue, quit, poolState, stopper, pc, item, enqueued, started>>

Idle == {"checked", "waiting"}

(* The types of the variables; a worker has an item exactly while it runs. *)
TypeOK ==
  /\ queue \in Seq(Items)
  /\ quit \in BOOLEAN
  /\ poolState \in {"Created", "Started", "Stopped"}
  /\ stopper \in {"idle", "notify", "join", "done"}
  /\ pc \in [Workers -> {"unborn", "top", "checked", "waiting", "running",
                       "exited"}]
  /\ item \in [Workers -> SUBSET Items]
  /\ \A w \in Workers : item[w] # {} <=> pc[w] = "running"
  /\ enqueued \in Seq(Items)
  /\ started \in Seq(Items)

Init == /\ queue = <<>>
        /\ quit = FALSE
        /\ poolState = "Created"
        /\ stopper = "idle"
        /\ pc = [w \in Workers |-> "unborn"]
        /\ item = [w \in Workers |-> {}]
        /\ enqueued = <<>>
        /\ started = <<>>

LockFree == \A w \in Workers : pc[w] # "checked"

Goto(w, from, to) == pc[w] = from /\ pc' = [pc EXCEPT ![w] = to]

-----------------------------------------------------------------------------
(* Start, one thread after the other; the first one makes it "Started".    *)
StartWorker(w) ==
  /\ stopper = "idle"
  /\ Goto(w, "unborn", "top")
  /\ poolState' = "Started"
  /\ UNCHANGED <<queue, quit, stopper, item, enqueued, started>>

-----------------------------------------------------------------------------
(* The loop of a worker.                                                   *)

(* Nothing to do: block.                                                   *)
WorkerCheck(w) ==
  /\ LockFree
  /\ ~quit /\ queue = <<>>
  /\ Goto(w, "top", "checked")
  /\ UNCHANGED <<queue, quit, poolState, stopper, item, enqueued, started>>

WorkerBlock(w) ==
  /\ Goto(w, "checked", "waiting")
  /\ UNCHANGED <<queue, quit, poolState, stopper, item, enqueued, started>>

(* A condition variable may wake a thread for no reason.                   *)
WorkerSpurious(w) ==
  /\ Goto(w, "waiting", "top")
  /\ UNCHANGED <<queue, quit, poolState, stopper, item, enqueued, started>>

WorkerQuit(w) ==
  /\ LockFree
  /\ quit /\ queue = <<>>
  /\ Goto(w, "top", "exited")
  /\ UNCHANGED <<queue, quit, poolState, stopper, item, enqueued, started>>

WorkerPeek(w) ==
  /\ LockFree
  /\ queue # <<>>
  /\ Goto(w, "top", "running")
  /\ item' = [item EXCEPT ![w] = {Head(queue)}]
  /\ started' = Append(started, Head(queue))
  /\ UNCHANGED <<queue, quit, poolState, stopper, enqueued>>

(* An item is taken even after quit was requested.                         *)
WorkerTake(w) ==
  /\ LockFree
  /\ queue # <<>>
  /\ Goto(w, "top", "running")
  /\ item' = [item EXCEPT ![w] = {Head(queue)}]
  /\ queue' = Tail(queue)
  /\ started' = Append(started, Head(queue))
  /\ UNCHANGED <<quit, poolState, stopper, enqueued>>

(* The item returns; the loop ends if quit was requested, whatever is      *)
(* still queued.                                                           *)
WorkerRun(w) ==
  /\ Goto(w, "running", IF quit THEN "exited" ELSE "top")
  /\ item' = [item EXCEPT ![w] = {}]
  /\ UNCHANGED <<queue, quit, poolState, stopper, enqueued, started>>

-----------------------------------------------------------------------------
(* EnqueueItem: push and notify_one, in one critical section.              *)

WakeOne == IF \E w \in Workers : pc[w] = "waiting"
             THEN \E w \in Workers : Goto(w, "waiting", "top")
             ELSE UNCHANGED pc

EnqueueSilently(i) ==
  /\ LockFree
  /\ \A n \in 1..Len(enqueued) : enqueued[n] # i
  /\ queue' = Append(queue, i)
  /\ enqueued' = Append(enqueued, i)
  /\ UNCHANGED <<pc, quit, poolState, stopper, item, started>>

EnqueueItem(i) ==
  /\ LockFree
  /\ \A n \in 1..Len(enqueued) : enqueued[n] # i
  /\ queue' = Append(queue, i)
  /\ enqueued' = Append(enqueued, i)
  /\ WakeOne
  /\ UNCHANGED <<quit, poolState, stopper, item, started>>

-----------------------------------------------------------------------------
(* Stop: the flag, notify_all, join.                                       *)

StopRequest ==
  /\ poolState = "Started"
  /\ stopper = "idle" /\ \A w \in Workers : pc[w] # "unborn"
  /\ quit' = TRUE
  /\ stopper' = "notify"
  /\ UNCHANGED <<queue, poolState, pc, item, enqueued, started>>

(* The scheduler's Stop, which its destructor calls, too.                  *)
StopThreadPool == poolState # "Stopped" /\ StopRequest

StopNotify ==
  /\ stopper = "notify"
  /\ pc' = [w \in Workers |-> IF pc[w] = "waiting" THEN "top" ELSE pc[w]]
  /\ stopper' = "join"
  /\ UNCHANGED <<queue, quit, poolState, item, enqueued, started>>

StopJoin ==
  /\ stopper = "join"
  /\ \A w \in Workers : pc[w] = "exited"
  /\ stopper' = "done"
  /\ poolState' = "Stopped"
  /\ UNCHANGED <<queue, quit, pc, item, enqueued, started>>

-----------------------------------------------------------------------------
WorkerStep(w) == \/ WorkerCheck(w) \/ WorkerBlock(w) \/ WorkerQuit(w)
                 \/ WorkerTake(w) \/ WorkerRun(w)
StopStep == StopNotify \/ StopJoin

Next == \/ \E w \in Workers : StartWorker(w) \/ WorkerStep(w) \/ WorkerSpurious(w)
        \/ \E i \in Items : EnqueueItem(i)
        \/ StopThreadPool \/ StopStep

SafeSpec == Init /\ [][Next]_vars

(* Threads are scheduled, get the mutex if they keep asking, and work      *)
(* items end.                                                              *)
Fairness == /\ \A w \in Workers : SF_vars(WorkerStep(w))
            /\ WF_vars(StopStep)

Spec == SafeSpec /\ Fairness

-----------------------------------------------------------------------------
Busy(w) == pc[w] \in {"top", "running"}

(* No wakeup of an item is lost: while items are queued, a worker is on    *)
(* its way to the queue, or the pool is not started or is being stopped.   *)
ItemsAttended ==
  queue # <<>> /\ poolState = "Started" /\ ~quit => \E w \in Workers : Busy(w)

QuitOnly == ~quit => \A w \in Workers : pc[w] # "exited"
StartedHasWorker == poolState = "Started" => \E w \in Workers : pc[w] # "unborn"

(* These together, with the types: the invariant that is inductive.        *)
PoolInv == TypeOK /\ QuitOnly /\ StartedHasWorker /\ ItemsAttended

(* Items are taken in the order in which they were enqueued, each once,    *)
(* and none vanishes: what was enqueued is what was taken and what is      *)
(* still queued.                                                           *)
TakenInOrder == enqueued = started \o queue

(* Every item that is enqueued, before or after the start, runs, unless    *)
(* the pool is stopped: also when Start has come no further than to its    *)
(* first thread.                                                           *)
ItemsRun ==
  \A i \in Items :
    poolState = "Started" /\ (\E n \in 1..Len(enqueued) : enqueued[n] = i) ~>
      (\E n \in 1..Len(started) : started[n] = i) \/ quit
=============================================================================

---------------------- MODULE StrandSchedulerDecorator ----------------------
(***************************************************************************)
(* StrandSchedulerDecorator (Schedulers/StrandSchedulerDecorator.cpp) over *)
(* a scheduler that runs the items given to it concurrently and in any     *)
(* order, such as a ThreadPoolScheduler of several threads.  (Over a       *)
(* scheduler that is serialized already, OnEnqueueItem passes the items    *)
(* on and the strand has no state.)                                        *)
(*                                                                         *)
(* The underlying scheduler only stores an item in EnqueueItem, so a       *)
(* critical section of _queueMutex, which includes that call, is one step. *)
(* Names start with Strand where a scheduler of any kind has the like.     *)
(***************************************************************************)
EXTENDS Integers, Sequences

CONSTANTS WorkItems  (* each given to the strand at most once               *)

VARIABLES
  strandQueue,          (* _strandQueue                                    *)
  operationInProgress,  (* _operationInProgress                            *)
  submitted,            (* the wrapped items the underlying scheduler has  *)
                        (* and has not begun                               *)
  running,              (* the items whose function is running             *)
  marking,              (* the items whose function has returned, before   *)
                        (* markStrandOperationAsDone                       *)
  received              (* the items given to the strand so far            *)

strandVars ==
  <<strandQueue, operationInProgress, submitted, running, marking, received>>

(* The types of the variables.                                             *)
StrandTypeOK ==
  /\ strandQueue \in Seq(WorkItems)
  /\ operationInProgress \in BOOLEAN
  /\ submitted \in SUBSET WorkItems
  /\ running \in SUBSET WorkItems
  /\ marking \in SUBSET WorkItems
  /\ received \in SUBSET WorkItems

StrandInit ==
  /\ strandQueue = <<>>
  /\ operationInProgress = FALSE
  /\ submitted = {}
  /\ running = {}
  /\ marking = {}
  /\ received = {}

EnqueueWithoutCheck(i) ==
  /\ i \notin received
  /\ received' = received \cup {i}
  /\ submitted' = submitted \cup {i}
  /\ operationInProgress' = TRUE
  /\ UNCHANGED <<strandQueue, running, marking>>

EnqueueAtFront(i) ==
  /\ i \notin received
  /\ received' = received \cup {i}
  /\ operationInProgress' = TRUE
  /\ IF operationInProgress
       THEN strandQueue' = <<i>> \o strandQueue /\ UNCHANGED submitted
       ELSE submitted' = submitted \cup {i} /\ UNCHANGED strandQueue
  /\ UNCHANGED <<running, marking>>

(* OnEnqueueItem, tryRunItem: run at once, or stand in the queue.          *)
OnEnqueueItem(i) ==
  /\ i \notin received
  /\ received' = received \cup {i}
  /\ operationInProgress' = TRUE
  /\ IF operationInProgress
       THEN strandQueue' = Append(strandQueue, i) /\ UNCHANGED submitted
       ELSE submitted' = submitted \cup {i} /\ UNCHANGED strandQueue
  /\ UNCHANGED <<running, marking>>

(* A thread of the underlying scheduler calls the wrapped function.        *)
Begin(i) ==
  /\ i \in submitted
  /\ submitted' = submitted \ {i}
  /\ running' = running \cup {i}
  /\ UNCHANGED <<strandQueue, operationInProgress, marking, received>>

Return(i) ==
  /\ i \in running
  /\ running' = running \ {i}
  /\ marking' = marking \cup {i}
  /\ UNCHANGED <<strandQueue, operationInProgress, submitted, received>>

MarkWithoutDequeue(i) ==
  /\ i \in marking
  /\ marking' = marking \ {i}
  /\ operationInProgress' = FALSE
  /\ UNCHANGED <<strandQueue, submitted, running, received>>

(* markStrandOperationAsDone: the next item, if there is one, is submitted.*)
MarkDone(i) ==
  /\ i \in marking
  /\ marking' = marking \ {i}
  /\ IF strandQueue = <<>>
       THEN operationInProgress' = FALSE /\ UNCHANGED <<strandQueue, submitted>>
       ELSE /\ operationInProgress' = TRUE
            /\ submitted' = submitted \cup {Head(strandQueue)}
            /\ strandQueue' = Tail(strandQueue)
  /\ UNCHANGED <<running, received>>

Step(i) == Begin(i) \/ Return(i) \/ MarkDone(i)

StrandNext == \E i \in WorkItems : OnEnqueueItem(i) \/ Step(i)

StrandSafeSpec == StrandInit /\ [][StrandNext]_strandVars

(* The underlying scheduler runs what it has, and items end.               *)
StrandSpec == StrandSafeSpec /\ \A i \in WorkItems : WF_strandVars(Step(i))

-----------------------------------------------------------------------------
InHand == submitted \cup running \cup marking

(* _operationInProgress is what it says: set exactly while one item is     *)
(* with the underlying scheduler, so that nothing waits behind nothing.    *)
StrandInv ==
  /\ operationInProgress => \E i \in WorkItems : InHand = {i}
  /\ ~operationInProgress => InHand = {} /\ strandQueue = <<>>
  /\ submitted \cap running = {}
  /\ submitted \cap marking = {}
  /\ running \cap marking = {}
  /\ InHand \subseteq received
  /\ \A n \in 1..Len(strandQueue) : strandQueue[n] \in received \ InHand
  /\ \A m, n \in 1..Len(strandQueue) : strandQueue[m] = strandQueue[n] => m = n

(* Two items of a strand never run at the same time.                       *)
MutualExclusion == \A i, j \in running : i = j

(* The strand is a serial executor: one item at a time, first in first     *)
(* out, and every item runs in the end.                                    *)
Current == IF submitted \cup running = {} THEN <<>>
           ELSE <<CHOOSE i \in submitted \cup running : TRUE>>

Executor == INSTANCE SerialExecutor
              WITH Items <- WorkItems, todo <- Current \o strandQueue,
                   running <- running # {}

ImplementsExecutor == Executor!Spec
=============================================================================

--------------------------- MODULE AsyncCollection ---------------------------
(***************************************************************************)
(* SimpleAsyncProducerConsumerCollection (AsyncPrimitives): a thread-safe  *)
(* queue (Collections/ThreadSafeMinimalisticQueue) and a semaphore that    *)
(* counts its items, seen through its contract.                            *)
(*                                                                         *)
(* Add pushes, then releases; TakeAsync waits, then pops: two steps each,  *)
(* between which anything may happen.  Each item is added once, by a       *)
(* producer of its own, and each taker calls TakeAsync once, with the one  *)
(* shared token if it is in Cancelable.                                    *)
(***************************************************************************)
EXTENDS Integers, Sequences, FiniteSets

CONSTANTS Items,        (* what is added                                   *)
          Takers,       (* the calls of TakeAsync                          *)
          Cancelable,   (* those that pass a token that can be canceled    *)
          MaxCount      (* of the semaphore: numeric_limits<int>::max()    *)

ASSUME CollectionAssumption ==
  /\ IsFiniteSet(Items)
  /\ IsFiniteSet(Takers)
  /\ Cancelable \subseteq Takers
  /\ MaxCount \in Nat /\ Cardinality(Items) <= MaxCount

VARIABLES
  permits, line, request, canceled, closed,   (* _asyncSemaphore           *)
  queue,      (* _innerCollection                                          *)
  apc,        (* apc[i]: how far the Add of i has come                     *)
  outcome,    (* outcome[t]: {} until TakeAsync by t completes; then the   *)
              (* item it returned, or why it threw                         *)
  added,      (* the items pushed so far, in order                         *)
  removed,    (* the items popped so far, in order                         *)
  drained     (* those of them that TryTakeAll took                        *)

semaphore == <<permits, line, request, canceled, closed>>
vars == <<semaphore, queue, apc, outcome, added, removed, drained>>

Semaphore == INSTANCE SemaphoreContract
               WITH Waiters <- Takers, InitialCount <- 0

Failure == "could not take item"
Canceled == "operation canceled"

ASSUME ThrownAssumption == Failure \notin Items /\ Canceled \notin Items

(* The types of the variables.                                             *)
TypeOK ==
  /\ permits \in 0..MaxCount
  /\ line \in Seq(Takers)
  /\ request \in [Takers -> {"none", "waiting", "granted", "canceled"}]
  /\ canceled \in BOOLEAN /\ closed = FALSE
  /\ queue \in Seq(Items)
  /\ apc \in [Items -> {"idle", "pushed", "done"}]
  /\ outcome \in [Takers -> SUBSET (Items \cup {Failure, Canceled})]
  /\ added \in Seq(Items)
  /\ removed \in Seq(Items)
  /\ drained \in SUBSET Items

Init == /\ Semaphore!Init
        /\ queue = <<>>
        /\ apc = [i \in Items |-> "idle"]
        /\ outcome = [t \in Takers |-> {}]
        /\ added = <<>>
        /\ removed = <<>>
        /\ drained = {}

-----------------------------------------------------------------------------
(* Add.                                                                    *)

PushAndCount(i) ==
  /\ apc[i] = "idle"
  /\ apc' = [apc EXCEPT ![i] = "pushed"]
  /\ queue' = Append(queue, i)
  /\ added' = Append(added, i)
  /\ permits' = permits + 1
  /\ UNCHANGED <<line, request, canceled, closed, outcome, removed, drained>>

PushAtFront(i) ==
  /\ apc[i] = "idle"
  /\ apc' = [apc EXCEPT ![i] = "pushed"]
  /\ queue' = <<i>> \o queue
  /\ added' = Append(added, i)
  /\ UNCHANGED <<semaphore, outcome, removed, drained>>

Push(i) ==
  /\ apc[i] = "idle"
  /\ apc' = [apc EXCEPT ![i] = "pushed"]
  /\ queue' = Append(queue, i)
  /\ added' = Append(added, i)
  /\ UNCHANGED <<semaphore, outcome, removed, drained>>

ReleaseCountOnly(i) ==
  /\ apc[i] = "pushed"
  /\ apc' = [apc EXCEPT ![i] = "done"]
  /\ permits' = permits + 1
  /\ UNCHANGED <<line, request, canceled, closed, queue, outcome, added, removed,
                 drained>>

Release(i) ==
  /\ apc[i] = "pushed"
  /\ apc' = [apc EXCEPT ![i] = "done"]
  /\ Semaphore!ReleaseToFirst \/ Semaphore!ReleaseToNobody
  /\ UNCHANGED <<queue, outcome, added, removed, drained>>

-----------------------------------------------------------------------------
(* TakeAsync: WaitAsync, and the resumption of the coroutine.              *)

TakeBegin(t) ==
  /\ Semaphore!Acquire(t) \/ Semaphore!Join(t)
  /\ UNCHANGED <<queue, apc, outcome, added, removed, drained>>

(* The token is canceled before or while t waits.                          *)
TakeCanceled(t) ==
  /\ Semaphore!Abandon(t)
  /\ UNCHANGED <<queue, apc, outcome, added, removed, drained>>

TakeWithoutPop(t) ==
  /\ request[t] = "granted" /\ outcome[t] = {}
  /\ IF queue = <<>>
       THEN outcome' = [outcome EXCEPT ![t] = {Failure}] /\ UNCHANGED removed
       ELSE /\ outcome' = [outcome EXCEPT ![t] = {Head(queue)}]
            /\ removed' = Append(removed, Head(queue))
  /\ UNCHANGED <<semaphore, queue, apc, added, drained>>

(* TryPop, or logic_error when there is nothing to pop.                    *)
TakeEnd(t) ==
  /\ request[t] = "granted" /\ outcome[t] = {}
  /\ IF queue = <<>>
       THEN /\ outcome' = [outcome EXCEPT ![t] = {Failure}]
            /\ UNCHANGED <<queue, removed>>
       ELSE /\ outcome' = [outcome EXCEPT ![t] = {Head(queue)}]
            /\ removed' = Append(removed, Head(queue))
            /\ queue' = Tail(queue)
  /\ UNCHANGED <<semaphore, apc, added, drained>>

(* WaitAsync ends in OperationCanceledException, which leaves TakeAsync.   *)
TakeThrow(t) ==
  /\ request[t] = "canceled" /\ outcome[t] = {}
  /\ outcome' = [outcome EXCEPT ![t] = {Canceled}]
  /\ UNCHANGED <<semaphore, queue, apc, added, removed, drained>>

Cancel ==
  /\ ~canceled
  /\ Semaphore!Cancel
  /\ UNCHANGED <<queue, apc, outcome, added, removed, drained>>

(* TryTakeAll pops the items and leaves the permits.                       *)
TryTakeAll ==
  /\ queue # <<>>
  /\ drained' = drained \cup {queue[n] : n \in 1..Len(queue)}
  /\ removed' = removed \o queue
  /\ queue' = <<>>
  /\ UNCHANGED <<semaphore, apc, outcome, added>>

-----------------------------------------------------------------------------
TakeStep(t) == TakeEnd(t) \/ TakeThrow(t)

Next == \/ \E i \in Items : Push(i) \/ Release(i)
        \/ \E t \in Takers : TakeBegin(t) \/ TakeCanceled(t) \/ TakeStep(t)
        \/ Cancel
        \/ TryTakeAll

SafeSpec == Init /\ [][Next]_vars

(* A call goes on once it has begun, and the semaphore answers whoever     *)
(* passed a token that is canceled.                                        *)
Leave(t) == request[t] = "waiting" /\ TakeCanceled(t)

Fairness == /\ \A i \in Items : WF_vars(Release(i))
            /\ \A t \in Takers : WF_vars(TakeStep(t)) /\ WF_vars(Leave(t))

Spec == SafeSpec /\ Fairness

-----------------------------------------------------------------------------
(* What is in the queue is what was added and not yet taken, in order: no  *)
(* item is lost, taken twice or overtaken, TryTakeAll included.            *)
InOrder == added = removed \o queue

(* Who is granted a permit finds an item: "Could not take item" is thrown  *)
(* at most once for each item that TryTakeAll took, and never without it.  *)
Failures == {t \in Takers : Failure \in outcome[t]}

TakeNeverFails == Cardinality(Failures) <= Cardinality(drained)

(* Every item that a TakeAsync has not got stands for a permit: free, on   *)
(* its way to a taker, about to be released, or spent on an item that      *)
(* TryTakeAll took.                                                        *)
OnTheWay == {t \in Takers : request[t] = "granted" /\ outcome[t] = {}}
Unreleased == {i \in Items : apc[i] = "pushed"}

CountsItems ==
  Len(queue) + Cardinality(drained) =
    permits + Cardinality(OnTheWay) + Cardinality(Unreleased)
            + Cardinality(Failures)

(* An item is in the queue once, or drained, or returned by one TakeAsync. *)
TakenOnce ==
  /\ \A m, n \in 1..Len(queue) : queue[m] = queue[n] => m = n
  /\ \A n \in 1..Len(queue) : /\ apc[queue[n]] # "idle"
                              /\ queue[n] \notin drained
                              /\ \A t \in Takers : queue[n] \notin outcome[t]
  /\ \A i \in drained : apc[i] # "idle" /\ \A t \in Takers : i \notin outcome[t]
  /\ \A t \in Takers : \A i \in outcome[t] \cap Items :
       apc[i] # "idle" /\ \A s \in Takers : i \in outcome[s] => s = t

(* Who waits stands in line once, and is answered before TakeAsync ends.   *)
LineSound ==
  /\ \A n \in 1..Len(line) : request[line[n]] = "waiting"
  /\ \A m, n \in 1..Len(line) : line[m] = line[n] => m = n
  /\ \A t \in Takers : outcome[t] # {} => request[t] \in {"granted", "canceled"}

(* The types and the three parts: the inductive invariant behind           *)
(* TakeNeverFails.                                                         *)
CollectionInv == TypeOK /\ LineSound /\ TakenOnce /\ CountsItems

(* While there are items, a taker does not wait for ever: either it gets   *)
(* one, or the others, or TryTakeAll, take them all.                       *)
TakersServed ==
  \A t \in Takers :
    request[t] = "waiting" /\ queue # <<>> ~> outcome[t] # {} \/ queue = <<>>
=============================================================================

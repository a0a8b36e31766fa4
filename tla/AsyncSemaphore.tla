--------------------------- MODULE AsyncSemaphore ---------------------------
(***************************************************************************)
(* AsyncSemaphore (AsyncPrimitives/AsyncSemaphore.cpp), composed with the  *)
(* cancellation token its waiters may pass.                                *)
(*                                                                         *)
(* Every waiter calls WaitAsync once, with the one shared token if it is   *)
(* in Cancelable and with CancellationToken::None() otherwise.  Release    *)
(* may be called at any time, by anybody; at most ReleaseBound calls are   *)
(* made that do not throw SemaphoreFullException.  The destructor runs     *)
(* when no other call is in progress and is the last call made.            *)
(*                                                                         *)
(* _waitersLock is held by the waiter whose pc is "registering" or by the  *)
(* call of Release in progress.  The token's callbacks do not take it: a   *)
(* step of the cancellation source, as its contract has them, may fall     *)
(* between any two steps of WaitAsync, Release or Dispose.  A task's       *)
(* TrySet calls are atomic (TaskSharedState).                              *)
(***************************************************************************)
EXTENDS Integers, Sequences, FiniteSets, Subsequence

CONSTANTS Waiters,       (* the calls of WaitAsync                         *)
          Cancelable,    (* those that pass a token that can be canceled   *)
          MaxCount,      (* _maxCount                                      *)
          InitialCount,  (* _initialCount                                  *)
          ReleaseBound   (* how many calls of Release are considered       *)

ASSUME SemaphoreAssumption ==
  /\ IsFiniteSet(Waiters)
  /\ Cancelable \subseteq Waiters
  /\ MaxCount \in Nat
  /\ InitialCount \in 0..MaxCount
  /\ ReleaseBound \in Nat

VARIABLES
  count,          (* _currentCount                                         *)
  waiters,        (* _waiters, the waiters standing for their promises     *)
  task,           (* task[w]: the task WaitAsync has returned to w         *)
  pc,             (* pc[w]: how far WaitAsync has come                     *)
  mode,           (* the call in progress that walks through _waiters      *)
  popped,         (* the waiter that call is at: {} or {w}                 *)
  waiterReleased, (* the local of Release                                  *)
  releases,       (* how many calls of Release were accepted               *)
  canceled,       (* the token: canceled, and where its callbacks are      *)
  status

vars == <<count, waiters, task, pc, mode, popped, waiterReleased, releases,
          canceled, status>>

Source == INSTANCE CancellationContract WITH Callbacks <- Waiters

source == <<canceled, status>>

(* The types of the variables; the count stays within its bounds.          *)
TypeOK ==
  /\ count \in 0..MaxCount
  /\ waiters \in Seq(Waiters)
  /\ task \in [Waiters -> {"none", "pending", "granted", "canceled"}]
  /\ pc \in [Waiters -> {"idle", "registering", "done"}]
  /\ mode \in {"idle", "release", "dispose", "dead"}
  /\ popped \in SUBSET Waiters
  /\ waiterReleased \in BOOLEAN
  /\ releases \in 0..ReleaseBound
  /\ Source!ContractTypeOK

Init ==
  /\ count = InitialCount
  /\ waiters = <<>>
  /\ task = [w \in Waiters |-> "none"]
  /\ pc = [w \in Waiters |-> "idle"]
  /\ mode = "idle"
  /\ popped = {}
  /\ waiterReleased = FALSE
  /\ releases = 0
  /\ Source!Init

LockFree == mode = "idle" /\ \A w \in Waiters : pc[w] # "registering"

(* TrySetResult, TrySetException: only a pending task takes the outcome.   *)
TrySet(w, outcome) ==
  task' = [task EXCEPT ![w] = IF @ = "pending" THEN outcome ELSE @]

-----------------------------------------------------------------------------
(* WaitAsync.                                                              *)

(* A permit is there: the token is not even looked at.                     *)
WaitCompleted(w) ==
  /\ pc[w] = "idle"
  /\ LockFree
  /\ count > 0
  /\ count' = count - 1
  /\ task' = [task EXCEPT ![w] = "granted"]
  /\ pc' = [pc EXCEPT ![w] = "done"]
  /\ UNCHANGED <<waiters, mode, popped, waiterReleased, releases, source>>

WaitRegisterOutsideLock(w) ==
  /\ pc[w] = "idle"
  /\ count = 0
  /\ pc' = [pc EXCEPT ![w] = "registering"]
  /\ IF w \in Cancelable
       THEN /\ Source!Register(w)
            /\ task' = [task EXCEPT ![w] = IF canceled THEN "canceled" ELSE "pending"]
       ELSE /\ task' = [task EXCEPT ![w] = "pending"]
            /\ UNCHANGED source
  /\ UNCHANGED <<count, waiters, mode, popped, waiterReleased, releases>>

(* No permit: a promise is made and a callback registered, which runs      *)
(* inside Register when the token is canceled already.                     *)
WaitRegister(w) ==
  /\ pc[w] = "idle"
  /\ LockFree
  /\ count = 0
  /\ pc' = [pc EXCEPT ![w] = "registering"]
  /\ IF w \in Cancelable
       THEN /\ Source!Register(w)
            /\ task' = [task EXCEPT ![w] = IF canceled THEN "canceled" ELSE "pending"]
       ELSE /\ task' = [task EXCEPT ![w] = "pending"]
            /\ UNCHANGED source
  /\ UNCHANGED <<count, waiters, mode, popped, waiterReleased, releases>>

WaitEnqueueAtFront(w) ==
  /\ pc[w] = "registering"
  /\ waiters' = <<w>> \o waiters
  /\ pc' = [pc EXCEPT ![w] = "done"]
  /\ UNCHANGED <<count, task, mode, popped, waiterReleased, releases, source>>

(* emplace_back, even of a promise that has been canceled by now.          *)
WaitEnqueue(w) ==
  /\ pc[w] = "registering"
  /\ waiters' = Append(waiters, w)
  /\ pc' = [pc EXCEPT ![w] = "done"]
  /\ UNCHANGED <<count, task, mode, popped, waiterReleased, releases, source>>

-----------------------------------------------------------------------------
(* Release.  With _currentCount = _maxCount it throws and changes nothing. *)

ReleaseIgnoringWaiters ==
  /\ LockFree
  /\ count < MaxCount
  /\ releases < ReleaseBound
  /\ count' = count + 1
  /\ releases' = releases + 1
  /\ UNCHANGED <<waiters, task, pc, mode, popped, waiterReleased, source>>

ReleaseCountOnly ==
  /\ LockFree
  /\ count < MaxCount
  /\ releases < ReleaseBound
  /\ waiters = <<>>
  /\ count' = count + 1
  /\ releases' = releases + 1
  /\ UNCHANGED <<waiters, task, pc, mode, popped, waiterReleased, source>>

ReleaseBegin ==
  /\ LockFree
  /\ count < MaxCount
  /\ releases < ReleaseBound
  /\ waiters # <<>>
  /\ mode' = "release"
  /\ waiterReleased' = FALSE
  /\ releases' = releases + 1
  /\ UNCHANGED <<count, waiters, task, pc, popped, source>>

ReleasePopTrusting ==
  /\ mode = "release"
  /\ popped = {}
  /\ ~waiterReleased
  /\ waiters # <<>>
  /\ popped' = {Head(waiters)}
  /\ waiters' = Tail(waiters)
  /\ TrySet(Head(waiters), "granted")
  /\ waiterReleased' = TRUE
  /\ UNCHANGED <<count, pc, mode, releases, source>>

(* Pop the front; a waiter that was canceled does not count as released.   *)
ReleasePop ==
  /\ mode = "release"
  /\ popped = {}
  /\ ~waiterReleased
  /\ waiters # <<>>
  /\ popped' = {Head(waiters)}
  /\ waiters' = Tail(waiters)
  /\ TrySet(Head(waiters), "granted")
  /\ waiterReleased' = (task[Head(waiters)] = "pending")
  /\ UNCHANGED <<count, pc, mode, releases, source>>

(* cancellationRegistration->Dispose(), effective while it is still armed. *)
Unregister ==
  /\ popped # {}
  /\ popped' = {}
  /\ \E w \in popped :
       IF status[w] = "armed" THEN Source!Dispose(w) ELSE UNCHANGED source
  /\ UNCHANGED <<count, waiters, task, pc, mode, waiterReleased, releases>>

(* Nobody was left to take the permit: it goes back.                       *)
ReleaseEnd ==
  /\ mode = "release"
  /\ popped = {}
  /\ waiterReleased \/ waiters = <<>>
  /\ count' = IF waiterReleased THEN count ELSE count + 1
  /\ mode' = "idle"
  /\ UNCHANGED <<waiters, task, pc, popped, waiterReleased, releases, source>>

-----------------------------------------------------------------------------
(* Dispose, from the destructor: no lock is taken.  Each waiter's promise  *)
(* is canceled, then its registration disposed; the deque is cleared at    *)
(* the end, which nobody can tell from taking each waiter out as it goes.  *)

DisposeBegin ==
  /\ LockFree
  /\ mode' = "dispose"
  /\ UNCHANGED <<count, waiters, task, pc, popped, waiterReleased, releases, source>>

DisposePop ==
  /\ mode = "dispose"
  /\ popped = {}
  /\ waiters # <<>>
  /\ popped' = {Head(waiters)}
  /\ waiters' = Tail(waiters)
  /\ TrySet(Head(waiters), "canceled")
  /\ UNCHANGED <<count, pc, mode, waiterReleased, releases, source>>

DisposeEnd ==
  /\ mode = "dispose"
  /\ popped = {}
  /\ waiters = <<>>
  /\ mode' = "dead"
  /\ UNCHANGED <<count, waiters, task, pc, popped, waiterReleased, releases, source>>

-----------------------------------------------------------------------------
(* The token's source; the callback of w is TrySetException on its promise.*)

rest == <<count, waiters, pc, mode, popped, waiterReleased, releases>>

TokenCancel == Source!Cancel /\ UNCHANGED <<task, rest>>
TokenTake == Source!Take /\ UNCHANGED <<task, rest>>
TokenFire(w) == Source!Fire(w) /\ TrySet(w, "canceled") /\ UNCHANGED rest

-----------------------------------------------------------------------------
WalkStep == \/ ReleasePop \/ Unregister \/ ReleaseEnd
            \/ DisposePop \/ DisposeEnd

Next ==
  \/ \E w \in Waiters : \/ WaitCompleted(w) \/ WaitRegister(w) \/ WaitEnqueue(w)
                        \/ TokenFire(w)
  \/ ReleaseCountOnly \/ ReleaseBegin \/ DisposeBegin
  \/ WalkStep
  \/ TokenCancel \/ TokenTake

SafeSpec == Init /\ [][Next]_vars

(* A call in progress goes on, and so does a Cancel of the source.         *)
Fairness == /\ WF_vars(WalkStep)
            /\ \A w \in Waiters : WF_vars(WaitEnqueue(w)) /\ WF_vars(TokenFire(w))
            /\ WF_vars(TokenTake)

Spec == SafeSpec /\ Fairness

-----------------------------------------------------------------------------
Granted == {w \in Waiters : task[w] = "granted"}

(* The permit of a Release in progress that nobody has yet.                *)
Owed == IF mode = "release" /\ ~waiterReleased THEN 1 ELSE 0

(* No permit is lost or made up, however cancellations race releases: the  *)
(* free ones, those handed out and the one being handed over are what the  *)
(* semaphore started with and what was released.                           *)
PermitsConserved ==
  count + Cardinality(Granted) + Owed = InitialCount + releases

(* Nobody waits while there is a permit.                                   *)
NoIdlePermit == count > 0 => \A w \in Waiters : task[w] # "pending"

(* Where each waiter is: the strengthening of the two.                     *)
InLine(w) == \E i \in 1..Len(waiters) : waiters[i] = w

LineSound ==
  /\ \A i, j \in 1..Len(waiters) : waiters[i] = waiters[j] => i = j
  /\ \A w \in Waiters :
       /\ InLine(w) => pc[w] = "done"
       /\ pc[w] = "idle" <=> task[w] = "none"
       /\ task[w] = "pending" => pc[w] = "registering" \/ InLine(w)
       /\ pc[w] = "registering" => mode = "idle" /\ count = 0
  /\ \A v, w \in Waiters : pc[v] = "registering" /\ pc[w] = "registering" => v = w

CountSound ==
  /\ waiters # <<>> => count = 0
  /\ mode = "release" => count = 0 /\ MaxCount > 0
  /\ mode \notin {"release", "dispose"} => popped = {}
  /\ mode = "dead" => waiters = <<>>

(* Only a token that was passed and is canceled calls a callback.          *)
TokenSound ==
  \A w \in Waiters : /\ status[w] # "none" => w \in Cancelable
                     /\ status[w] \in {"taken", "fired"} => canceled

(* The types and the three parts together: the inductive invariant.        *)
SemInv == TypeOK /\ LineSound /\ CountSound /\ TokenSound

-----------------------------------------------------------------------------
Pending == {w \in Waiters : task[w] = "pending"}
Line == Only(waiters, Pending)
Request == [w \in Waiters |-> IF task[w] # "pending" THEN task[w]
                             ELSE IF pc[w] = "registering" THEN "none"
                                                           ELSE "waiting"]
Closed == mode \in {"dispose", "dead"}

(* The semaphore implements its contract: permits go to the longest        *)
(* waiting request that is still alive, a canceled request takes no permit *)
(* with it and is answered in the end, and so is everyone in line when the *)
(* semaphore is destroyed.                                                 *)
Contract == INSTANCE SemaphoreContract
  WITH permits <- count, line <- Line, request <- Request, closed <- Closed

ImplementsSemaphore == Contract!Spec
=============================================================================

--------------------------- MODULE TaskSharedState ---------------------------
(***************************************************************************)
(* One Task: the state machine of Detail::TaskSharedState                  *)
(* (Detail/Tasks/TaskHelpers.h) as Task, TaskCompletionSource and the      *)
(* coroutine promise types drive it.                                       *)
(*                                                                         *)
(* A task is of one of three kinds, fixed when it is constructed:          *)
(*   "tcs"        completed by the Set and TrySet calls of a               *)
(*                TaskCompletionSource, made by the threads of Completers; *)
(*   "coroutine"  returned by a coroutine, whose frame (the thread Runner) *)
(*                prepares the outcome and publishes it at final_suspend;  *)
(*   "func"       made from a function: the threads of Starters call       *)
(*                Start, and a scheduler runs the function (Runner).       *)
(*                                                                         *)
(* A critical section of _lockObject is one step, taken when the mutex is  *)
(* free.  Wait holds it from its check of _state to the moment it blocks,  *)
(* which is two steps: _state = RunToCompletion and notify_all are done    *)
(* without the mutex and may come in between.  A condition variable may    *)
(* also wake a waiter for no reason.  The unsynchronized store of _state   *)
(* is modelled as a step at which it takes effect.                         *)
(*                                                                         *)
(* The continuations of a task are kept as a set: the order in which they  *)
(* run, that of the vector, is left out.                                   *)
(***************************************************************************)
EXTENDS Integers

CONSTANTS
  Kinds,          (* the kinds of task considered                          *)
  Cancelable,     (* the tasks with a function have a cancellation token   *)
  Completers,     (* threads that call Set... or TrySet... once            *)
  Starters,       (* threads that call Start once                          *)
  Runner,         (* the thread that runs the function or the coroutine    *)
  Waiters,        (* threads that call Wait once                           *)
  Continuations   (* each is attached once, by a thread of its own         *)

ASSUME TaskAssumption ==
  /\ Kinds \subseteq {"tcs", "coroutine", "func"}
  /\ Cancelable \in BOOLEAN
  /\ Completers \cap Starters = {}
  /\ Runner \notin Completers \cup Starters

Threads == Completers \cup Starters \cup {Runner}

VARIABLES
  kind,           (* how the task was constructed                          *)
  tokenCanceled,  (* its cancellation token is canceled                    *)
  state,          (* _state                                                *)
  prepared,       (* _preparedNextState                                    *)
  exception,      (* _exceptionPtr: "none", "oce" (OperationCanceled-      *)
                  (* Exception) or "error" (any other)                     *)
  continuations,  (* _continuations                                        *)
  snapshot,       (* snapshot[t]: the copy t makes in runContinuations     *)
  pc,             (* what the thread t is about to do                      *)
  wpc,            (* how far the call of Wait by w has come                *)
  waitResult,     (* waitResult[w]: what Wait returned, or threw           *)
  attach,         (* attach[k]: how far AddContinuation(k) has come        *)
  runs            (* runs[k]: how often the continuation k has run         *)

vars == <<kind, tokenCanceled, state, prepared, exception, continuations,
          snapshot, pc, wpc, waitResult, attach, runs>>

TaskStates == {"Created", "Scheduled", "Running", "RunToCompletion", "Faulted",
               "Canceled"}
Terminal(s) == s \in {"RunToCompletion", "Faulted", "Canceled"}
Outcomes == {"result", "error", "canceled"}

PCs == {"idle", "lost",
        "cancelStart", "tryStart", "started", "queued", "setRunning", "body",
        "storeResult", "setCanceled", "setFaulted", "prepared",
        "notify", "snapshot", "continue", "done"}

(* The types of the variables; in particular no continuation runs twice.   *)
TypeOK ==
  /\ kind \in Kinds
  /\ tokenCanceled \in BOOLEAN
  /\ state \in TaskStates
  /\ prepared \in TaskStates
  /\ exception \in {"none", "oce", "error"}
  /\ continuations \in SUBSET Continuations
  /\ snapshot \in [Threads -> SUBSET Continuations]
  /\ pc \in [Threads -> PCs]
  /\ wpc \in [Waiters -> {"idle", "checked", "waiting", "woken", "returned"}]
  /\ waitResult \in [Waiters -> Outcomes \cup {"none"}]
  /\ attach \in [Continuations -> {"idle", "runNow", "done"}]
  /\ runs \in [Continuations -> {0, 1}]

Init ==
  /\ kind \in Kinds
  /\ tokenCanceled = FALSE
  /\ state = "Created"
  /\ prepared = "Created"
  /\ exception = "none"
  /\ continuations = {}
  /\ snapshot = [t \in Threads |-> {}]
  /\ pc = [t \in Threads |-> "idle"]
  /\ wpc = [w \in Waiters |-> "idle"]
  /\ waitResult = [w \in Waiters |-> "none"]
  /\ attach = [k \in Continuations |-> "idle"]
  /\ runs = [k \in Continuations |-> 0]

(* Only Wait keeps _lockObject from one step to the next.                  *)
LockFree == \A w \in Waiters : wpc[w] # "checked"

Goto(t, from, to) == pc[t] = from /\ pc' = [pc EXCEPT ![t] = to]

given == <<kind, tokenCanceled>>
task == <<kind, tokenCanceled, state, prepared, exception>>
lists == <<continuations, snapshot>>
waits == <<wpc, waitResult>>
conts == <<attach, runs>>
users == <<wpc, waitResult, attach, runs>>

-----------------------------------------------------------------------------
(* TaskCompletionSource.                                                   *)

StateOf(o) == CASE o = "result"   -> "RunToCompletion"
                [] o = "error"    -> "Faulted"
                [] o = "canceled" -> "Canceled"

(* SetResult, SetException, SetCanceled and their TrySet forms: the first  *)
(* to find the task Created completes it.                                  *)
Complete(t, o) ==
  /\ kind = "tcs"
  /\ LockFree
  /\ state = "Created"
  /\ state' = StateOf(o)
  /\ exception' = IF o = "error" THEN "error" ELSE exception
  /\ Goto(t, "idle", "notify")
  /\ UNCHANGED <<given, prepared, lists, users>>

(* Any later one returns false (TrySet) or throws logic_error (Set).       *)
CompleteTooLate(t) ==
  /\ kind = "tcs"
  /\ LockFree
  /\ state # "Created"
  /\ Goto(t, "idle", "lost")
  /\ UNCHANGED <<task, lists, users>>

-----------------------------------------------------------------------------
(* A coroutine: return_value, return_void or unhandled_exception prepares  *)
(* the outcome, final_suspend publishes it.                                *)

Prepare(o) ==
  /\ kind = "coroutine"
  /\ LockFree
  /\ state = "Created"
  /\ prepared' = StateOf(o)
  /\ exception' = IF o = "error" THEN "error" ELSE exception
  /\ Goto(Runner, "idle", "prepared")
  /\ UNCHANGED <<given, state, lists, users>>

PublishResult ==
  /\ LockFree
  /\ state = "Created"
  /\ state' = prepared
  /\ Goto(Runner, "prepared", "notify")
  /\ UNCHANGED <<given, prepared, exception, lists, users>>

-----------------------------------------------------------------------------
(* Start (RunTaskFunc) of a task with a function.                          *)

CancelToken ==
  /\ kind = "func"
  /\ Cancelable
  /\ ~tokenCanceled
  /\ tokenCanceled' = TRUE
  /\ UNCHANGED <<kind, state, prepared, exception, lists, pc, users>>

Start(t) ==
  /\ kind = "func"
  /\ Goto(t, "idle", IF tokenCanceled THEN "cancelStart" ELSE "tryStart")
  /\ UNCHANGED <<task, lists, users>>

(* A canceled token completes the task, whatever state it is in.           *)
CancelStart(t) ==
  /\ LockFree
  /\ state' = "Canceled"
  /\ Goto(t, "cancelStart", "notify")
  /\ UNCHANGED <<given, prepared, exception, lists, users>>

(* The item is handed to the scheduler right after the critical section;   *)
(* a task that is not Created any more throws logic_error.                 *)
TryStart(t) ==
  /\ pc[t] = "tryStart"
  /\ LockFree
  /\ IF state = "Created"
       THEN /\ state' = "Scheduled"
            /\ pc' = [pc EXCEPT ![t] = "started", ![Runner] = "queued"]
       ELSE /\ pc' = [pc EXCEPT ![t] = "lost"]
            /\ UNCHANGED state
  /\ UNCHANGED <<given, prepared, exception, lists, users>>

(* The scheduler calls the item: ThrowIfCancellationRequested first.       *)
RunCheckToken ==
  /\ exception' = IF tokenCanceled THEN "oce" ELSE exception
  /\ Goto(Runner, "queued", IF tokenCanceled THEN "setCanceled" ELSE "setRunning")
  /\ UNCHANGED <<given, state, prepared, lists, users>>

RunSetRunning ==
  /\ LockFree
  /\ state' = "Running"
  /\ Goto(Runner, "setRunning", "body")
  /\ UNCHANGED <<given, prepared, exception, lists, users>>

(* The function returns, or throws OperationCanceledException or else.     *)
RunBody(o) ==
  /\ exception' = CASE o = "result" -> exception
                    [] o = "canceled" -> "oce"
                    [] o = "error" -> "error"
  /\ Goto(Runner, "body", CASE o = "result"   -> "storeResult"
                            [] o = "canceled" -> "setCanceled"
                            [] o = "error"    -> "setFaulted")
  /\ UNCHANGED <<given, state, prepared, lists, users>>

StoreAndForget ==
  /\ state' = "RunToCompletion"
  /\ Goto(Runner, "storeResult", "done")
  /\ UNCHANGED <<given, prepared, exception, lists, users>>

(* The one write of _state that does not take the mutex.                   *)
RunStoreResult ==
  /\ state' = "RunToCompletion"
  /\ Goto(Runner, "storeResult", "notify")
  /\ UNCHANGED <<given, prepared, exception, lists, users>>

RunCatch(s, at) ==
  /\ LockFree
  /\ state' = s
  /\ Goto(Runner, at, "notify")
  /\ UNCHANGED <<given, prepared, exception, lists, users>>

-----------------------------------------------------------------------------
(* What every completion ends with: notify_all, without the mutex, and     *)
(* runContinuations on the completing thread.                              *)

NotifyOne(t) ==
  /\ \/ \E w \in Waiters : wpc[w] = "waiting" /\ wpc' = [wpc EXCEPT ![w] = "woken"]
     \/ (\A w \in Waiters : wpc[w] # "waiting") /\ UNCHANGED wpc
  /\ Goto(t, "notify", "snapshot")
  /\ UNCHANGED <<task, lists, waitResult, conts>>

Notify(t) ==
  /\ wpc' = [w \in Waiters |-> IF wpc[w] = "waiting" THEN "woken" ELSE wpc[w]]
  /\ Goto(t, "notify", "snapshot")
  /\ UNCHANGED <<task, lists, waitResult, conts>>

Snapshot(t) ==
  /\ LockFree
  /\ snapshot' = [snapshot EXCEPT ![t] = continuations]
  /\ continuations' = {}
  /\ Goto(t, "snapshot", "continue")
  /\ UNCHANGED <<task, users>>

RunContinuation(t, k) ==
  /\ pc[t] = "continue"
  /\ k \in snapshot[t]
  /\ snapshot' = [snapshot EXCEPT ![t] = @ \ {k}]
  /\ runs' = [runs EXCEPT ![k] = @ + 1]
  /\ UNCHANGED <<task, continuations, pc, waits, attach>>

Finish(t) ==
  /\ snapshot[t] = {}
  /\ Goto(t, "continue", "done")
  /\ UNCHANGED <<task, lists, users>>

-----------------------------------------------------------------------------
(* AddContinuation: stored when the task is not complete, else called at   *)
(* once, outside the critical section.                                     *)

AddWithoutCheck(k) ==
  /\ attach[k] = "idle"
  /\ LockFree
  /\ attach' = [attach EXCEPT ![k] = "done"]
  /\ continuations' = continuations \cup {k}
  /\ UNCHANGED <<task, snapshot, pc, waits, runs>>

AddContinuation(k) ==
  /\ attach[k] = "idle"
  /\ LockFree
  /\ attach' = [attach EXCEPT ![k] = IF Terminal(state) THEN "runNow" ELSE "done"]
  /\ continuations' = IF Terminal(state) THEN continuations
                                         ELSE continuations \cup {k}
  /\ UNCHANGED <<task, snapshot, pc, waits, runs>>

RunNow(k) ==
  /\ attach[k] = "runNow"
  /\ attach' = [attach EXCEPT ![k] = "done"]
  /\ runs' = [runs EXCEPT ![k] = @ + 1]
  /\ UNCHANGED <<task, lists, pc, waits>>

-----------------------------------------------------------------------------
(* Wait.                                                                   *)

(* What Wait returns for the state it finds: the exception of the task if  *)
(* it has one, else OperationCanceledException for a canceled task.        *)
(* (rethrow_exception(nullptr) for a faulted task would be undefined.)     *)
WaitOutcome ==
  CASE state = "RunToCompletion" -> "result"
    [] state = "Canceled" /\ exception \in {"none", "oce"} -> "canceled"
    [] state # "RunToCompletion" /\ exception = "error" -> "error"
    [] OTHER -> "none"

WaitIf(w) ==
  /\ wpc[w] \in {"idle", "woken"}
  /\ LockFree
  /\ IF Terminal(state) \/ wpc[w] = "woken"
       THEN /\ wpc' = [wpc EXCEPT ![w] = "returned"]
            /\ waitResult' = [waitResult EXCEPT ![w] = WaitOutcome]
       ELSE /\ wpc' = [wpc EXCEPT ![w] = "checked"]
            /\ UNCHANGED waitResult
  /\ UNCHANGED <<task, lists, pc, conts>>

WaitCheck(w) ==
  /\ wpc[w] \in {"idle", "woken"}
  /\ LockFree
  /\ IF Terminal(state)
       THEN /\ wpc' = [wpc EXCEPT ![w] = "returned"]
            /\ waitResult' = [waitResult EXCEPT ![w] = WaitOutcome]
       ELSE /\ wpc' = [wpc EXCEPT ![w] = "checked"]
            /\ UNCHANGED waitResult
  /\ UNCHANGED <<task, lists, pc, conts>>

(* _waitTaskCv.wait releases the mutex and blocks.                         *)
WaitBlock(w) ==
  /\ wpc[w] = "checked"
  /\ wpc' = [wpc EXCEPT ![w] = "waiting"]
  /\ UNCHANGED <<task, lists, pc, waitResult, conts>>

SpuriousWake(w) ==
  /\ wpc[w] = "waiting"
  /\ wpc' = [wpc EXCEPT ![w] = "woken"]
  /\ UNCHANGED <<task, lists, pc, waitResult, conts>>

-----------------------------------------------------------------------------
RunnerStep == \/ PublishResult \/ RunCheckToken \/ RunSetRunning
              \/ \E o \in Outcomes : RunBody(o)
              \/ RunStoreResult
              \/ RunCatch("Canceled", "setCanceled")
              \/ RunCatch("Faulted", "setFaulted")

CompletionStep(t) == \/ Notify(t) \/ Snapshot(t) \/ Finish(t)
                     \/ \E k \in Continuations : RunContinuation(t, k)

ThreadStep(t) == \/ CompletionStep(t)
                 \/ t \in Starters /\ (CancelStart(t) \/ TryStart(t))
                 \/ t = Runner /\ RunnerStep

WaitStep(w) == WaitBlock(w) \/ (wpc[w] = "woken" /\ WaitCheck(w))

(* The calls that users of the task make.                                  *)
Call == \/ \E t \in Completers : \/ CompleteTooLate(t)
                                \/ \E o \in Outcomes : Complete(t, o)
        \/ \E o \in Outcomes : Prepare(o)
        \/ \E t \in Starters : Start(t)
        \/ CancelToken
        \/ \E k \in Continuations : AddContinuation(k)
        \/ \E w \in Waiters : WaitCheck(w)

Next == \/ Call
        \/ \E t \in Threads : ThreadStep(t)
        \/ \E k \in Continuations : RunNow(k)
        \/ \E w \in Waiters : WaitBlock(w) \/ SpuriousWake(w)

SafeSpec == Init /\ [][Next]_vars

(* A thread inside a call goes on, and gets the mutex if it keeps asking   *)
(* (strong fairness: waiters that wake spuriously take it now and then).   *)
(* Nobody has to make a call, and no waiter is woken spuriously for sure.  *)
Fairness == /\ \A t \in Threads : SF_vars(ThreadStep(t))
            /\ \A k \in Continuations : WF_vars(RunNow(k))
            /\ \A w \in Waiters : SF_vars(WaitStep(w))

Spec == SafeSpec /\ Fairness

-----------------------------------------------------------------------------
(* At most one call of Start, unless nobody can cancel the task's token.   *)
StartedOnce == Cancelable => \A s, t \in Starters : s = t

Completing(t) == pc[t] \in {"notify", "snapshot", "continue", "done"}
Ran(t) == pc[t] \in {"continue", "done"}

(* Which threads act on a task of which kind.                              *)
KindSound ==
  /\ \A t \in Completers :
       /\ pc[t] # "idle" => kind = "tcs"
       /\ Completing(t) \/ pc[t] \in {"idle", "lost"}
  /\ \A t \in Starters :
       /\ pc[t] # "idle" => kind = "func"
       /\ Completing(t) \/ pc[t] \in {"idle", "cancelStart", "tryStart", "lost",
                                      "started"}
       /\ pc[t] = "cancelStart" => tokenCanceled
       /\ Completing(t) => tokenCanceled
  /\ kind = "tcs" => pc[Runner] = "idle"
  /\ kind = "coroutine" => Completing(Runner) \/ pc[Runner] \in {"idle", "prepared"}
  /\ kind = "func" => /\ pc[Runner] \notin {"prepared", "lost", "cancelStart",
                                            "tryStart", "started"}
                      /\ pc[Runner] # "idle" => \E t \in Starters : pc[t] = "started"
  /\ tokenCanceled => Cancelable

(* _state agrees with what every thread is about to do: the asserts of the *)
(* code hold where they stand, and exactly one thread completes the task,  *)
(* although one of the writes is not synchronized.                         *)
StateSound ==
  /\ \A t, u \in Threads : Completing(t) /\ Completing(u) => t = u
  /\ Terminal(state) <=> \E t \in Threads : Completing(t)
  /\ state = "Created" <=> /\ pc[Runner] \in {"idle", "prepared"}
                           /\ \A t \in Threads : ~Completing(t)
  /\ pc[Runner] \in {"queued", "setRunning"} => state = "Scheduled"
  /\ pc[Runner] \in {"body", "storeResult", "setFaulted"} => state = "Running"
  /\ pc[Runner] = "setCanceled" => state \in {"Scheduled", "Running"}
  /\ pc[Runner] = "prepared" => Terminal(prepared)

(* The exception is there when the outcome says that there is one.         *)
ExceptionSound ==
  /\ state = "Faulted" => exception = "error"
  /\ state = "Canceled" => exception # "error"
  /\ exception # "none" =>
       Terminal(state) \/ pc[Runner] \in {"setCanceled", "setFaulted", "prepared"}
  /\ pc[Runner] = "setCanceled" => exception = "oce"
  /\ pc[Runner] = "setFaulted" => exception = "error"
  /\ pc[Runner] = "prepared" => /\ prepared = "Faulted" => exception = "error"
                                /\ prepared = "Canceled" => exception = "none"

(* Until it runs, a continuation that was added is in exactly one place,   *)
(* and it is in a place from where it will run.                            *)
ContinuationsSound ==
  /\ \A k \in continuations : /\ attach[k] = "done"
                              /\ runs[k] = 0
                              /\ \A t \in Threads : k \notin snapshot[t]
  /\ \A t \in Threads : \A k \in snapshot[t] : /\ attach[k] = "done"
                                               /\ runs[k] = 0
                                               /\ pc[t] = "continue"
  /\ \A k \in Continuations :
       /\ attach[k] # "done" => runs[k] = 0
       /\ attach[k] = "runNow" \/ runs[k] = 1 => Terminal(state)
       /\ attach[k] = "done" /\ runs[k] = 0 =>
            k \in continuations \/ \E t \in Threads : k \in snapshot[t]
  /\ continuations # {} => \A t \in Threads : ~Ran(t)

(* Wait has returned only from a complete task, with its outcome; and a    *)
(* waiter that blocks on a complete task has a notify_all still to come -  *)
(* except when the task has stored its result without the mutex.           *)
StoredUnlocked == kind = "func" /\ state = "RunToCompletion"

WaitersSound ==
  \A w \in Waiters :
    /\ wpc[w] = "returned" => Terminal(state) /\ waitResult[w] = WaitOutcome
    /\ wpc[w] # "returned" => waitResult[w] = "none"
    /\ wpc[w] = "checked" /\ Terminal(state) => StoredUnlocked
    /\ wpc[w] = "waiting" /\ Terminal(state) =>
         StoredUnlocked \/ \E t \in Threads : pc[t] = "notify"

(* The types and the five together: the asserts and the unstated rules of  *)
(* the state machine, as one inductive invariant.                          *)
TaskInv ==
  /\ TypeOK
  /\ KindSound
  /\ StateSound
  /\ ExceptionSound
  /\ ContinuationsSound
  /\ WaitersSound

-----------------------------------------------------------------------------
(* A task that is complete keeps its state, whoever calls Start again.     *)
StateKept == [][Terminal(state) => state' = state]_vars

(* Every continuation of a complete task gets to run.                      *)
ContinuationsRun ==
  \A k \in Continuations :
    attach[k] # "idle" /\ Terminal(state) ~> runs[k] = 1

(* Wait returns once the task is complete, unless it was the function of   *)
(* the task that completed it: its result is stored without the mutex.     *)
WaitersServed ==
  \A w \in Waiters :
    wpc[w] # "idle" /\ Terminal(state) /\ ~StoredUnlocked ~> wpc[w] = "returned"

(* Wait returns once the task is complete, whatever completed it.          *)
WaitReturns ==
  \A w \in Waiters : wpc[w] # "idle" /\ Terminal(state) ~> wpc[w] = "returned"

-----------------------------------------------------------------------------
(* The task as its users see it.                                           *)
OutcomeOf(s) == CASE s = "RunToCompletion" -> "result"
                  [] s = "Faulted" -> "error"
                  [] s = "Canceled" -> "canceled"
                  [] OTHER -> "none"

Contract == INSTANCE TaskContract
  WITH outcome <- OutcomeOf(state),
       attached <- [k \in Continuations |->
                      IF runs[k] > 0 THEN "ran"
                      ELSE IF attach[k] = "idle" THEN "none" ELSE "pending"],
       waited <- [w \in Waiters |->
                    IF wpc[w] = "idle" THEN "none"
                    ELSE IF wpc[w] = "returned" THEN waitResult[w] ELSE "blocked"]

(* Whatever its kind, and however often its waiters wake for no reason, a  *)
(* task gets one outcome and keeps it, runs its continuations after it,    *)
(* and lets no waiter go before it or with another outcome.                *)
ImplementsTaskSafely == Contract!SafeSpec
=============================================================================

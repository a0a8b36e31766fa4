----------------------------- MODULE TaskAwaiter -----------------------------
(***************************************************************************)
(* Coroutines that co_await tasks (Tasks/Task.h, the promises of           *)
(* Tasks/TaskCompletionSource.h), shared futures                           *)
(* (AsyncPrimitives/FutureEx.h), schedulers (Schedulers/Scheduler.cpp) and *)
(* one another, the threads that call them, and the synchronization        *)
(* contexts they are resumed in (Threading).                               *)
(*                                                                         *)
(* A coroutine is a program: the tasks it awaits one after the other.  One *)
(* that is awaited by another is called by it, and runs in the thread of   *)
(* its caller until it is suspended for the first time.  The others are    *)
(* called by threads of their own, some in a SynchronizationContextScope.  *)
(*                                                                         *)
(* A task is what TaskContract promises: it has an outcome once, its       *)
(* continuations go to the default scheduler then, a late one at once.     *)
(* Futures have an outcome, too, but no continuations.                     *)
(***************************************************************************)
EXTENDS Integers, Sequences, FiniteSets, SequencesExt

CONSTANTS Sources,      (* tasks and futures that others complete          *)
          Futures,      (* the sources and coroutines that are futures     *)
          Outcomes,     (* Outcomes[s]: what s may come to                 *)
          Combined,     (* tasks that combinators complete                 *)
          Coroutines,
          Program,      (* Program[c]: what c awaits, and how              *)
          Collector,    (* Collector[c]: the coroutine in whose vector c   *)
                        (* puts the exceptions it catches, or Nobody       *)
          Ends,         (* Ends[c]: what c comes to if all its awaits do   *)
          Contexts,
          Scope,        (* Scope[c]: the context the thread that calls c   *)
                        (* sets for the call, or Default                   *)
          Default,      (* SynchronizationContext::_default                *)
          Settings,     (* what GlobalTaskSettings may be set to           *)
          Uses,         (* what a run of the program calls: the coroutines *)
                        (* and combinators of one of these sets            *)
          Nobody

Tasks == Sources \cup Combined \cup Coroutines
Settled == {"result", "error", "canceled"}
Ways == {"plain",          (* co_await task, or co_await future             *)
         "unconfigured",   (* co_await task.ConfigureAwait(false)          *)
         "blocking",       (* task.Wait()                                  *)
         "scheduler",      (* co_await *Scheduler::DefaultScheduler()      *)
         "thread",         (* co_await of a CurrentThreadScheduler         *)
         "context"}        (* co_await *FromCurrentSynchronizationContext()*)

Awaits(c) == ToSet(Program[c])
Roots == {c \in Coroutines : \A d \in Coroutines : \A w \in Awaits(d) : w.task # c}

ASSUME AwaiterAssumption ==
  /\ Futures \subseteq Sources \cup Coroutines
  /\ Sources \cap Coroutines = {} /\ Sources \cap Combined = {}
  /\ Combined \cap Coroutines = {} /\ Nobody \notin Tasks
  /\ Outcomes \in [Sources -> SUBSET Settled]
  /\ Program \in [Coroutines -> Seq([task : Tasks \cup {Nobody}, way : Ways])]
  /\ \A c \in Coroutines : \A w \in Awaits(c) :
       /\ w.task = Nobody <=> w.way \in {"scheduler", "thread", "context"}
       /\ w.task \in Futures => w.way = "plain"
  /\ Collector \in [Coroutines -> Coroutines \cup {Nobody}]
  /\ Ends \in [Coroutines -> SUBSET Settled]
  /\ Default \in Contexts
  /\ Scope \in [Coroutines -> Contexts]
  /\ Settings \subseteq [UseOnlyConfigureAwaitFalseBehavior : BOOLEAN,
                          TaskAwaiterAwaitReadyAlwaysReturnsFalse : BOOLEAN]
  /\ Uses \subseteq SUBSET Tasks

VARIABLES
  outcome,    (* outcome[t]: what the task came to, or "none"              *)
  pending,    (* pending[t]: the continuations t is to schedule            *)
  pool,       (* the continuations the pool is given                       *)
  phase,      (* phase[c]: what the coroutine is at                        *)
  step,       (* step[c]: which of its awaits                              *)
  returned,   (* returned[c]: the call of c has returned to its caller     *)
  capture,    (* capture[c]: _continueOnCapturedContext                    *)
  captured,   (* captured[c]: the context the continuation posts to        *)
  failures,   (* failures[c]: the exceptions in the vector of c            *)
  current,    (* SynchronizationContext::_current                          *)
  scope,      (* scope[c]: of the thread that calls c: not yet entered     *)
              (* ("before"), "in", or left ("after")                       *)
  old,        (* old[c]: _oldContext of that scope                         *)
  overlapped, (* a thread was in its scope while another one was           *)
  settings,   (* GlobalTaskSettings, set before the first task is awaited  *)
  used        (* what this run calls                                       *)

tasks == <<outcome, pending, pool>>
awaiter == <<capture, captured>>
threading == <<current, scope, old, overlapped, settings, used>>
coroutine == <<phase, step, returned, failures>>

AwaiterInit ==
  /\ outcome = [t \in Tasks |-> "none"]
  /\ pending = [t \in Tasks |-> {}]
  /\ pool = {}
  /\ phase = [c \in Coroutines |-> "new"]
  /\ step = [c \in Coroutines |-> 1]
  /\ returned = [c \in Coroutines |-> FALSE]
  /\ capture = [c \in Coroutines |-> FALSE]
  /\ captured = [c \in Coroutines |-> Default]
  /\ failures = [c \in Coroutines |-> <<>>]
  /\ current = Default
  /\ scope = [c \in Coroutines |-> "before"]
  /\ old = [c \in Coroutines |-> Default]
  /\ overlapped = FALSE
  /\ settings \in Settings
  /\ used \in Uses

-----------------------------------------------------------------------------
(* Tasks.                                                                  *)

IsCompleted(t) == outcome[t] # "none"

(* AddContinuation, and, of what is in the pool, all but the ones that ran.*)
AddContinuation(t, k, ran) ==
  IF IsCompleted(t)
    THEN pool' = (pool \ ran) \cup {k} /\ UNCHANGED pending
    ELSE /\ pending' = [pending EXCEPT ![t] = @ \cup {k}]
         /\ pool' = pool \ ran

Complete(t, o, ran) ==
  /\ outcome' = [outcome EXCEPT ![t] = o]
  /\ pending' = [pending EXCEPT ![t] = {}]
  /\ pool' = (pool \ ran) \cup pending[t]

(* Somebody completes the task, or keeps the promise of the future.        *)
Settle(s) ==
  /\ ~IsCompleted(s)
  /\ \E o \in Outcomes[s] : Complete(s, o, {})
  /\ UNCHANGED <<coroutine, awaiter, threading>>

-----------------------------------------------------------------------------
(* The thread that calls a coroutine: with no context of its own it has no *)
(* SynchronizationContextScope, but it sees the _current of the others.    *)

EnterScope(c) ==
  /\ c \in used /\ scope[c] = "before"
  /\ scope' = [scope EXCEPT ![c] = "in"]
  /\ old' = [old EXCEPT ![c] = current]
  /\ current' = IF Scope[c] = Default THEN current ELSE Scope[c]
  /\ overlapped' = (overlapped \/ \E d \in Roots : scope[d] = "in")
  /\ phase' = [phase EXCEPT ![c] = "run"]
  /\ UNCHANGED <<tasks, step, returned, failures, awaiter, settings, used>>

LeaveScope(c) ==
  /\ scope[c] = "in" /\ returned[c]
  /\ scope' = [scope EXCEPT ![c] = "after"]
  /\ current' = IF Scope[c] = Default THEN current ELSE old[c]
  /\ UNCHANGED <<tasks, coroutine, awaiter, old, overlapped, settings, used>>

-----------------------------------------------------------------------------
(* The awaiter.                                                            *)

Awaiting(c) == phase[c] = "run" /\ step[c] <= Len(Program[c])
Awaited(c) == Program[c][step[c]].task
Way(c) == Program[c][step[c]].way

(* A coroutine that awaits another one calls it first.                     *)
CallCoroutine(c) ==
  /\ Awaiting(c) /\ Awaited(c) \in Coroutines /\ phase[Awaited(c)] = "new"
  /\ phase' = [phase EXCEPT ![Awaited(c)] = "run"]
  /\ UNCHANGED <<tasks, step, returned, failures, awaiter, threading>>

HasTask(c) == Awaited(c) \in Coroutines => returned[Awaited(c)]

Asks(c) == Awaiting(c) /\ Way(c) \in {"plain", "unconfigured"} /\ HasTask(c)

IsReady(c) == /\ ~settings.TaskAwaiterAwaitReadyAlwaysReturnsFalse
              /\ IsCompleted(Awaited(c))
ContinuesInContext(c) == /\ ~settings.UseOnlyConfigureAwaitFalseBehavior
                         /\ capture[c] /\ current # Default

(* operator co_await and await_ready.                                      *)
CoAwait(c) ==
  /\ Asks(c) /\ Awaited(c) \notin Futures
  /\ capture' = [capture EXCEPT ![c] = Way(c) = "plain" /\ current # Default]
  /\ phase' = [phase EXCEPT ![c] = IF IsReady(c) THEN "resume" ELSE "suspend"]
  /\ UNCHANGED <<tasks, step, returned, failures, captured, threading>>

(* await_suspend asks again, and captures the context.                     *)
SuspendAnywhere(c) ==
  /\ phase[c] = "suspend"
  /\ phase' = [phase EXCEPT ![c] = IF IsReady(c) THEN "resume" ELSE "register"]
  /\ captured' = [captured EXCEPT ![c] = Default]
  /\ UNCHANGED <<tasks, step, returned, failures, capture, threading>>

Suspend(c) ==
  /\ phase[c] = "suspend"
  /\ phase' = [phase EXCEPT ![c] = IF IsReady(c) THEN "resume" ELSE "register"]
  /\ captured' = [captured EXCEPT ![c] = IF ContinuesInContext(c) THEN current
                                                                ELSE Default]
  /\ UNCHANGED <<tasks, step, returned, failures, capture, threading>>

RegisterBlindly(c) ==
  /\ phase[c] = "register"
  /\ phase' = [phase EXCEPT ![c] = "suspended"]
  /\ returned' = [returned EXCEPT ![c] = TRUE]
  /\ pending' = [pending EXCEPT ![Awaited(c)] = @ \cup {c}]
  /\ UNCHANGED <<outcome, pool, step, failures, awaiter, threading>>

(* ContinueWith.  The coroutine is suspended, its caller goes on.          *)
Register(c) ==
  /\ phase[c] = "register"
  /\ phase' = [phase EXCEPT ![c] = "suspended"]
  /\ returned' = [returned EXCEPT ![c] = TRUE]
  /\ AddContinuation(Awaited(c), c, {})
  /\ UNCHANGED <<outcome, step, failures, awaiter, threading>>

(* The awaiter of a future asks twice, too, and then detaches a thread     *)
(* that waits for the future and resumes the coroutine itself.             *)
CoAwaitFuture(c) ==
  /\ Asks(c) /\ Awaited(c) \in Futures
  /\ phase' = [phase EXCEPT ![c] = IF IsCompleted(Awaited(c)) THEN "resume"
                                                              ELSE "detach"]
  /\ UNCHANGED <<tasks, step, returned, failures, awaiter, threading>>

DetachThread(c) ==
  /\ phase[c] = "detach"
  /\ phase' = [phase EXCEPT ![c] = IF IsCompleted(Awaited(c)) THEN "resume"
                                                              ELSE "detached"]
  /\ returned' = [returned EXCEPT ![c] = @ \/ ~IsCompleted(Awaited(c))]
  /\ UNCHANGED <<tasks, step, failures, awaiter, threading>>

ResumeByThread(c) ==
  /\ phase[c] = "detached" /\ IsCompleted(Awaited(c))
  /\ phase' = [phase EXCEPT ![c] = "resume"]
  /\ UNCHANGED <<tasks, step, returned, failures, awaiter, threading>>

(* A scheduler as an awaiter is never ready: it is given the coroutine.    *)
SwitchToScheduler(c) ==
  /\ Awaiting(c) /\ Way(c) = "scheduler"
  /\ phase' = [phase EXCEPT ![c] = "suspended"]
  /\ returned' = [returned EXCEPT ![c] = TRUE]
  /\ captured' = [captured EXCEPT ![c] = Default]
  /\ pool' = pool \cup {c}
  /\ UNCHANGED <<outcome, pending, step, failures, capture, threading>>

(* The current thread runs it at once, before await_suspend returns: to    *)
(* the caller of the coroutine it has not been suspended.                  *)
StayInThread(c) ==
  /\ Awaiting(c) /\ Way(c) = "thread"
  /\ phase' = [phase EXCEPT ![c] = "resume"]
  /\ UNCHANGED <<tasks, step, returned, failures, awaiter, threading>>

(* The scheduler of the current context posts to it.                       *)
SwitchToContext(c) ==
  /\ Awaiting(c) /\ Way(c) = "context"
  /\ phase' = [phase EXCEPT ![c] = "posted"]
  /\ returned' = [returned EXCEPT ![c] = TRUE]
  /\ captured' = [captured EXCEPT ![c] = current]
  /\ UNCHANGED <<tasks, step, failures, capture, threading>>

(* Wait, in a thread that runs the program without suspending it.          *)
Wait(c) ==
  /\ Awaiting(c) /\ HasTask(c) /\ Way(c) = "blocking" /\ IsCompleted(Awaited(c))
  /\ phase' = [phase EXCEPT ![c] = "resume"]
  /\ UNCHANGED <<tasks, step, returned, failures, awaiter, threading>>

(* The pool runs the continuation, which resumes the coroutine or posts    *)
(* it to the context, which resumes it.                                    *)
RunContinuation(c) ==
  /\ c \in pool
  /\ pool' = pool \ {c}
  /\ phase' = [phase EXCEPT ![c] = IF captured[c] = Default THEN "resume"
                                                            ELSE "posted"]
  /\ UNCHANGED <<outcome, pending, step, returned, failures, awaiter, threading>>

Post(c) ==
  /\ phase[c] = "posted"
  /\ phase' = [phase EXCEPT ![c] = "resume"]
  /\ UNCHANGED <<tasks, step, returned, failures, awaiter, threading>>

Done(c) == /\ phase' = [phase EXCEPT ![c] = "done"]
           /\ returned' = [returned EXCEPT ![c] = TRUE]
           /\ UNCHANGED <<step, failures, awaiter, threading>>

(* The promise of a task: the outcome, and then it is published.           *)
Publish(c, o) == c \notin Futures /\ Complete(c, o, {}) /\ Done(c)

(* The promise of a shared future is kept at once.                         *)
KeepPromise(c, o) == /\ c \in Futures
                     /\ outcome' = [outcome EXCEPT ![c] = o]
                     /\ Done(c)
                     /\ UNCHANGED <<pending, pool>>

Finish(c, o) == Publish(c, o) \/ KeepPromise(c, o)

GoOn(c) == /\ step' = [step EXCEPT ![c] = @ + 1]
           /\ phase' = [phase EXCEPT ![c] = "run"]
           /\ UNCHANGED <<tasks, returned, awaiter, threading>>

Came(c) == IF Awaited(c) = Nobody THEN "result" ELSE outcome[Awaited(c)]

(* await_resume: the result, or the exception, which the coroutine         *)
(* catches and collects or which is its own outcome.                       *)
Succeed(c) == /\ phase[c] = "resume" /\ Came(c) = "result"
              /\ GoOn(c)
              /\ UNCHANGED failures

Catch(c) ==
  /\ phase[c] = "resume" /\ Came(c) # "result" /\ Collector[c] # Nobody
  /\ failures' = [failures EXCEPT ![Collector[c]] = Append(@, Awaited(c))]
  /\ GoOn(c)

Fail(c) ==
  /\ phase[c] = "resume" /\ Came(c) # "result" /\ Collector[c] = Nobody
  /\ Finish(c, Came(c))

EndForgiving(c) == /\ phase[c] = "run" /\ step[c] > Len(Program[c])
                   /\ \E o \in Ends[c] : Finish(c, o)

(* co_return, or the AggregateException of what was collected.             *)
End(c) == /\ phase[c] = "run" /\ step[c] > Len(Program[c])
          /\ \E o \in Ends[c] : Finish(c, IF failures[c] = <<>> THEN o ELSE "error")

-----------------------------------------------------------------------------
AwaitStep(c) ==
  \/ CallCoroutine(c) \/ CoAwait(c) \/ Suspend(c) \/ Register(c) \/ Wait(c)
  \/ CoAwaitFuture(c) \/ DetachThread(c) \/ ResumeByThread(c)
  \/ SwitchToScheduler(c) \/ StayInThread(c) \/ SwitchToContext(c)
  \/ RunContinuation(c) \/ Post(c) \/ Succeed(c) \/ Catch(c) \/ Fail(c) \/ End(c)
=============================================================================

# RStein.AsyncCpp in TLA+

RStein.AsyncCpp is a C++20 library of asynchronous primitives: tasks and
coroutines, cancellation, an asynchronous semaphore, mutex and collection,
schedulers, dataflow blocks and actors.  This directory holds TLA+ modules of
its concurrent core, the TLC configurations that check them on small instances,
and theorems about them that TLAPS proves for every instance.  Paths below are
relative to `src/RStein.AsyncCpp/`, those under `Samples/` to `src/`; `PROJECT.json` maps each definition to the
lines it models.

To check a run: `tlc -config <cfg> <module>`; to check the proofs:
`tlapm <module>_proofs.tla`.  A component's proofs are in `<component>_proofs`;
those of the pool and of the strand are together in `Schedulers_proofs`, those
of cancellation and mutex in `AsyncPrimitives_proofs`, those of the actor and of
the sample in `Actors_proofs`.

## 1. The parts of the system

| Part | State it keeps | Operations | Talks to |
|---|---|---|---|
| Cancellation (`Detail/AsyncPrimitives/CtsSharedState`, `CancellationToken`, `CancellationTokenSource`, `CancellationRegistration`) | an atomic flag, a list of callbacks under a mutex, a counter of ids | `Register`, `Dispose`, `Cancel`, `IsCancellationRequested` | calls the callbacks of semaphore waits; polled by tasks and dataflow blocks |
| Task state machine (`Detail/Tasks/TaskHelpers.h`, `Tasks/TaskCompletionSource.h`, `Tasks/TaskState.h`) | state, prepared state, exception, continuations, mutex and condition variable | `Start`, `Set...`/`TrySet...`, coroutine return and `final_suspend`, `AddContinuation`, `Wait` | a scheduler runs functions; continuations resume coroutines |
| Task interface and awaiter (`Tasks/Task.h`, `GlobalTaskSettings.h`) | a shared pointer to the above | `ContinueWith`, `Unwrap`, `co_await`, `ConfigureAwait` | task state, schedulers, synchronization context |
| `AsyncSemaphore` | count, queue of waiting promises, mutex | `WaitAsync`, `Release`, destructor | completes tasks; registers with cancellation tokens |
| `AsyncMutex`, `AsyncLockGuard` | a semaphore of one permit; a task and a pointer to it per guard | `Lock`, `co_await`, move, `Unlock`, destructor | the semaphore |
| `SimpleAsyncProducerConsumerCollection` | a locked queue and a semaphore | `Add`, `TakeAsync`, `TryTakeAll` | the semaphore |
| `SimpleThreadPool`, `ThreadPoolScheduler` | queue, quit flag, threads, mutex and condition variable | `EnqueueItem`, `Stop`, the worker loop | runs everything |
| `StrandSchedulerDecorator` | queue, operation-in-progress flag, mutex | `EnqueueItem`, end of an item | an underlying scheduler |
| Dataflow (`Detail/DataFlow/DataFlowBlockCommon.h`, `DataFlow/*`) | per block: state, number of starts, input collection, token source, processing task, completion promise, links | `ConnectTo`, `Start`, `AcceptInputAsync`, `Complete`, `SetFaulted`, the processing task | the collection, cancellation, tasks, other blocks |
| Actors (`Actors/SimpleActor.h`, `ReplyActor.h`) | an `ActionBlock`, a state, a promise per message asked | constructor, `Tell`, `Ask`, `Complete`, destructor | dataflow, tasks |
| `ActorPolicy`, and the sample built on it (`Samples/MapReduceActors`) | a queue of functions, a completion task; raw pointers to the next stage | `ScheduleFunction`, `Complete`, `CanCompleteNow`, `OnCompleted`, destructor | the default pool; other actors, by blocking calls |
| Combinators, factory (`Tasks/TaskCombinators.h`, `TaskFactory.h`) | a completion source, or a vector of exceptions, per call | `WhenAll`, `WhenAny`, `WaitAll`, `WaitAny`, `Fmap`, `Fbind`, `Run` | tasks |
| Synchronization contexts (`Threading/*`) | one static pointer to the current context; the old one per scope | `Current`, `Post`, scopes | the awaiter |
| `FutureEx` | a future; a detached thread per wait | `co_await`, coroutines that return futures | standard futures |
| Schedulers' base, `CurrentThreadScheduler` | the default pool, a thread-local pointer | `EnqueueItem`, `co_await`, `FromCurrentSynchronizationContext` | the pool, contexts |
| `ThreadSafeMinimalisticVector`, `Functional/F.h`, `Utils/*` | little or none | helpers | everything |

What is hard in them, and what makes each correct:

- **Cancellation.** `Register` reads the flag under the mutex while `Cancel`
  sets it without.  Correct when no callback is lost or called twice, a callback
  that throws stops no other, and a registration disposed in time never fires.
- **Task.** Completers race each other; continuations race completion; one of
  the stores of the state, and every notification, is made without the mutex
  of the condition variable; `Start` can be called twice.  Correct when there is
  one outcome that never changes, continuations run exactly once and after
  it, and every `Wait` returns it.
- **Semaphore.** The token of a waiter is canceled at any point of `WaitAsync`
  or `Release`, and without the semaphore's lock.  Correct when permits are
  conserved, go to the longest waiting live request, and are never idle.
- **Mutex.** Guards move, unlock early and die.  Correct when there is one owner
  and everybody in line becomes it.
- **Collection.** The queue and the semaphore change in separate steps.
  Correct when whoever is granted a permit finds an item.
- **Pool.** One notification per item; a quit flag outside the lock.  Correct
  when no item is forgotten and `Stop` returns.
- **Strand.** The end of one item races the arrival of the next.  Correct when
  it is a serial first-in first-out executor.
- **Dataflow.** Completion travels down a DAG holding the lock of every block on
  the way, while the processing tasks it waits for ask for the locks of their
  successors; a fault starts a thread of its own that does the same.  Correct
  when no item is lost on the way, a block completes after everything came to it,
  and nothing deadlocks.
- **Actors.**  Several threads ask, handlers throw or send to their own actor,
  `Complete` and the destructor come at any time.  Correct when the answers are
  those of a serial run, whatever was accepted in time is answered, and the
  destructor returns.
- **ActorPolicy.**  Completion is a blocking call that runs on the pool it
  waits for, and the destructor makes it once more, without the derived part.
  Correct when nothing is lost down a pipeline, the pool is never used up and no
  actor has work left when it dies.
- **Awaiter and combinators.**  A task completes between the awaiter's two
  questions and its registration; the first of several tasks to complete wins
  while the others are still being registered; the current context is
  shared by all threads.  Correct when a coroutine is resumed exactly once, in
  the context it asked for, and outcomes are what the combinator makes of those
  of its tasks.

`PROJECT.json` lists these hazards one by one ("hazards"), at their lines.

## 2. The modules

The detailed modules use each other through contracts: a component is modelled
in detail once, shown to implement its contract, and its users are composed with
the contract.

    CancellationContract <--implements-- CtsSharedState
            ^ used by
    AsyncSemaphore --implements--> SemaphoreContract
                                     ^ used by     ^ used by
                                  AsyncMutex   AsyncCollection
    TaskContract   <--implements-- TaskSharedState
         ^ its promise, for many tasks, is restated in
    TaskAwaiter <--extends-- TaskCombinators
    SerialExecutor <--implements-- StrandSchedulerDecorator
    SimpleThreadPool
    DataFlowBlock <--extends-- Actor
    ActorPolicy <--instantiated by-- MapReduce

- **`CtsSharedState`**.  Each callback is registered by a thread of its own and
  maybe disposed; each canceler calls `Cancel`.  `Register` is split around its
  read of the flag (`RegisterLock`, `RegisterCheck`, then `RegisterInline` or
  `RegisterPush`); `Cancel` is `CancelExchange` (the atomic flag), `CancelSwap`
  (the list is moved out), `CancelRun` (one callback) and `CancelReturn`.  The
  list is a set of pairs of an id and a callback, run in the order of ids.
- **`CancellationContract`**: a callback is armed, disposed, taken or fired.
  What it promises about `Dispose` is what the code gives: too late once the
  callbacks have been taken.
- **`TaskSharedState`**.  One task of each kind: of a `TaskCompletionSource`, of
  a coroutine, of a function.  Its threads are completers, starters, the runner
  of the function or of the coroutine, waiters, and one thread per continuation.
  Critical sections are single steps, except that `Wait` keeps the mutex from
  its check to the moment it blocks (`WaitCheck`, `WaitBlock`), because the
  unlocked store (`RunStoreResult`) and `notify_all` (`Notify`) may come in
  between.  Spurious wakeups are a step.
- **`TaskContract`**: one outcome, continuations exactly once and after it,
  waiters blocked until it.
- **`AsyncSemaphore`**.  `WaitCompleted` is a `WaitAsync` that ends at once,
  `WaitRegister` and `WaitEnqueue` one that waits; `ReleaseCountOnly` a release
  with nobody in line, `ReleaseBegin`, `ReleasePop`, `Unregister`, `ReleaseEnd`
  one that walks through the line; `DisposeBegin`, `DisposePop`, `DisposeEnd`
  the destructor.  The token is the `CancellationContract`; its steps fall
  between any two of these.
- **`SemaphoreContract`**: permits, a line, and who has been granted.  The line is
  the subsequence of the live requests in the semaphore's queue; **`Subsequence`**
  defines it by the rank of each element, without recursion, so that it can be
  proved about; the semaphore's run checks it against the library's `SelectSeq`
  (`OnlySelects`).
- **`AsyncMutex`**: `Lock`, `Resume`, `Move`, `Unlock`, `UnlockFull`, `Destroy`
  over `SemaphoreContract`.  `revived` records that somebody moved from a guard
  that was unlocked or moved from before.
- **`AsyncCollection`**: `Push` and `Release` are the halves of `Add`,
  `TakeBegin` and `TakeEnd` those of `TakeAsync`, over `SemaphoreContract`.
- **`SimpleThreadPool`**: `StartWorker`, a thread of `Start` at a time (the first
  one makes the pool started, as line 95 is inside the loop), the worker loop in the steps the lock allows
  (`WorkerCheck`, `WorkerBlock`, `WorkerTake`, `WorkerQuit`, `WorkerRun`,
  `WorkerSpurious`), `EnqueueItem`, and `Stop` as flag (`StopThreadPool`),
  notification (`StopNotify`) and join (`StopJoin`).
- **`StrandSchedulerDecorator`** over a scheduler that runs what it is given
  concurrently and in any order; **`SerialExecutor`** is what it promises.
- **`DataFlowBlock`**: a DAG of blocks.  The processing task of a block is
  `TestToken`, `TakeBegin`, `TakeEnd`, `Transform` (or `TransformFails`), `AskSuccessor`,
  `OfferCheck`, `OfferAdd`, `Passed`; `Complete` and `SetFaulted` are a stack of
  frames per calling thread (`Enter`, `CancelProcessing`, `WakeProcessing`,
  `WaitProcessing`, `NotifyNext`, `Leave`), since the code recurses into the
  successors with the locks held.  `Terminate` is `std::terminate`, where an
  exception would leave a destructor or a thread.  The input of a block is taken
  as `AsyncCollection` shows it to be; `promised` records what was in the flow
  when the user called `Complete`.
- **`Actor`** extends `DataFlowBlock`, with one block, whose transform is the
  handler: `SendFollowUp` (a handler that sends to its own actor), `Returns`,
  `ThrowsAtAsker` (a reply actor keeps the exception in the promise) or
  `ThrowsAtQueue` (a simple actor's block fails).  `CreateSimpleActor` and
  `CreateReplyActor` are the constructors, `Tell` and `Ask` the two steps of
  `AcceptInputAsync`, `Destroy`, `DestroyWait` and `DestroyEnd` the
  destructor.  `memory` is the state, as the sequence of the messages it is
  made of, `reply` what each promise came to, and from which state.
- **`ActorPolicy`**: actors that run one message after the other and call one
  another.  The calls of a function, of `OnCompleted` or of the main thread are a
  sequence; the thread that makes them is one of the pool's `PoolSize` and is
  taken while a call blocks: `ScheduleFunction`, `BeginComplete` and `WaitReturns`
  are those calls, `TakeMessage`, `MessageDone`, `Drained`, `OnCompleted` and
  `OnCompletedDone` what the pool does for an actor.  **`MapReduce`** says which
  calls the parser, the mappers, the reducer, the writer and `Run` make, counts
  words in `dictionary` (`CountWords`), and counts down `completedCallsRequired` in
  the reducer's `CanCompleteNow` (`CallComplete`).  A line stands for its words: a
  batch and a dictionary are functions that tell how often each line is in
  them, so that losing, repeating or misrouting one shows.
- **`TaskAwaiter`**: a coroutine is a program, the sequence of what it awaits and
  how.  `co_await` is `CallCoroutine` (it first calls a coroutine it awaits),
  `CoAwait` (`await_ready`), `Suspend` (`await_suspend` asks again and captures
  the context), `Register` (the continuation), `RunContinuation` and `Post` (pool
  and context resume it), then `Succeed`, `Catch` or `Fail` (`await_resume`).  A
  future detaches a thread instead (`CoAwaitFuture`, `DetachThread`,
  `ResumeByThread`); schedulers are awaited by `SwitchToScheduler`,
  `StayInThread` and `SwitchToContext`; `Wait` blocks.  `EnterScope` and
  `LeaveScope` are the scopes of the calling threads, around one static
  `current`.  `settings` are the `GlobalTaskSettings`.
- **`TaskCombinators`**: `WhenAll`, `WaitAll`, `Fmap`, `Fbind` and `Run` are
  programs of `TaskAwaiter`; `WhenAny`/`WaitAny` (`WaitAnyTask`, `TrySetIndex`)
  and `Unwrap` (`Unwrap`, `OuterDone`, `InnerDone`) are continuations.  `Helpers`
  are the coroutines `WhenAll` calls to collect its exceptions, and those they call.

In every module a group of operators next to an action, never part of `Next`,
is the action with a plausible mistake in it (for instance `NotifyOne` beside
`Notify`): substituted for the action, they show that the properties
notice.  `PROJECT.json` lists them ("mutants").

## 3. The runs

| Run | Instance | Distinct states | What it shows |
|---|---|---|---|
| `cancellation` | 4 registrations (1 inert, 1 throwing), 2 cancelers | 29,901 | `NoCallbackLost`; the inductive `CtsInv`; `ImplementsContract`, liveness included |
| `task` | all three kinds, 2 completers, 1 starter, 2 waiters, 2 continuations, a token | 15,702 | the state machine's unstated rules (`TaskInv`), the contract's safety - one outcome that is kept -, `ContinuationsRun`, `WaitersServed` |
| `task_wait_hangs` | a function, 1 starter, 2 waiters | violation | `WaitReturns` fails |
| `semaphore` | 4 waiters (2 cancelable), 2 permits, 4 releases | 7,846 | `PermitsConserved`, `NoIdlePermit`, `SemInv`, and the contract, liveness included |
| `mutex` | 3 calls of `Lock`, 4 guards | 37,351 | `MutualExclusion`, the inductive `MutexInv` (one live guard owns the permit), `LockGranted` |
| `pool` | 2 workers, 3 items | 2,316 | `PoolInv` (no queued item is forgotten), `TakenInOrder`, `ItemsRun` |
| `strand` | 5 items | 2,552 | `StrandInv`, `MutualExclusion`, the executor, liveness included |
| `collection` | 3 items, 3 takers (1 cancelable), `TryTakeAll` at any time | 33,306 | `TakeNeverFails`, the inductive `CollectionInv` (permits and items agree, none is taken twice), `InOrder`, `TakersServed` |
| `dataflow` | 3 blocks that fork and join, 2 items, 2 transforms that may throw | 184,348 | `ArrivesUnlessFailed`, the inductive `FlowInv` (no item is lost or overtaken; `_startCallsCount` and the locks), `SettledIsFinal`, `AllComplete`, `CallsReturn` |
| `actors` | a simple or a reply actor, 3 messages, one sent by a handler, one whose handler may throw | 6,051 | `AnswersFollowOrder`, `AskedIsAnswered`, `DestructorReturns` |
| `mapreduce` | 3 mappers, 9 lines in batches of 2, the pool of 8 threads | 658 | `CountedOnce`, `DestroyedIsDone`, `Finishes` |
| `combinators` | 2 tasks and a future, 11 coroutines, `WhenAny` and `Unwrap`, 3 settings | 79,249 | `ResumedOnce`, `OutcomesFit`, `ContextKept`, `CoroutinesFinish`, `CombinatorsAnswer` |

**The bounds, and why they are enough.**  Threads interact pairwise in this
code: a race needs two of a kind and one of the other.  Two cancelers make one
lose the exchange; two completers make one come too late; two waiters tell
`notify_one` from `notify_all`; four waiters on two permits leave a
line of two or more in which the first, a middle or the last one is canceled; three items on two
workers leave one queued while both are busy; two paths into one block, of
different length, make the count of `Start` calls matter, and two items let one
be in hand while the other is queued or accepted late.  Three messages to an
actor are one that sends, the one it sends and one that fails, in any
order of arrival.  Four batches on three mappers give one mapper two, and nine
lines leave one over; the pool has the eight threads the code gives it at
least, and three, one per mapper, would not do: the blocking calls of
`Complete` use them up.  In `combinators` a run calls one of six
sets of coroutines and combinators (`Uses`), which are those that can interact:
two scopes that may overlap, a `WhenAny` whose result is awaited, a
coroutine that awaits another one, while their sources complete at any
moment; two tasks suffice for a first and a later one, a failing and a
successful one.  The setting with both flags on adds nothing to the two with
one, and is left out.  `ReleaseBound` caps the
releases at as many as there are waiters: enough to serve them all, and to find
the semaphore full when fewer wait.  The calls are made at most
once each; a repeated call is another member of the set.  Deadlock checking is
off everywhere: nobody has to call, and all of these systems may come to rest.
That nobody is stuck inside a call is stated by the liveness properties.

**Fairness.**  Weak fairness on the steps of a call in progress: a thread that
runs is scheduled, and nothing makes anybody begin a call, cancel a token, or
wake spuriously.  Strong fairness only in `TaskSharedState` and
`SimpleThreadPool`, for steps that need a mutex which other threads take and
release again and again: C++ gives no such promise for `std::mutex`, but its
implementations do not starve a thread for ever, and without it every
property that needs a lock would fail for that reason only.  In
`DataFlowBlock` a lock is held until the call that took it returns, and weak
fairness is enough.  A pool with a free thread for every processing task is
assumed there; on a smaller pool `Complete`, which blocks its thread,
could wait for a processing task that has no thread.  `Actor` takes over that
fairness, with one condition for the whole of the processing task, which is
sequential; nothing makes anybody call or destroy.  `MapReduce` has a pool of
the size the code gives it, and weak fairness per thread and per actor:
whoever waits for a free thread waits for the calls that occupy them.  In
`TaskCombinators` one condition on all that the runtime does is enough, as
the programs are finite; nobody has to complete a source, and the liveness
properties say what follows once they are.

## 4. What is proved

The theorems hold for any sets of threads, callbacks, waiters, items, blocks and
coroutines; those on flows for any graph of blocks, those on coroutines for
any programs, those on an actor for any handlers, those on the sample for any
number of mappers, lines and lines in a batch.

| Theorem | Says |
|---|---|
| `CtsInvariant` | types and `CtsInv` |
| `NoCallbackIsLost` | `NoCallbackLost` |
| `CtsRefinesContract` | the cancellation state implements the safety part of `CancellationContract` |
| `TaskInvariant` | types and `TaskInv` |
| `TaskKeepsState` | a complete task keeps its state (`StateKept`) |
| `TaskRefinesContract` | a task implements the safety part of `TaskContract` |
| `SemaphoreInvariant` | types and `SemInv` |
| `NoPermitIsIdle` | `NoIdlePermit` |
| `PermitsAreConserved` | `PermitsConserved` |
| `SemaphoreRefinesContract` | the semaphore implements the safety part of `SemaphoreContract`, whenever tokens are canceled |
| `MutexInvariant` | types and `MutexInv` |
| `OneCallerInside` | `MutualExclusion` of the mutex |
| `CollectionInvariant` | types and `CollectionInv` |
| `TakeFailsForDrainedOnly` | `TakeNeverFails` |
| `ItemsInOrder` | `InOrder` |
| `PoolInvariant` | types and `PoolInv` |
| `ItemsTakenInOrder` | `TakenInOrder` |
| `StrandInvariant` | types and `StrandInv` |
| `StrandMutualExclusion` | two items of a strand never run together |
| `StrandRefinesExecutor` | a strand implements the safety part of `SerialExecutor` |
| `CombinatorsInvariant` | types and the invariant of awaiters and combinators |
| `CoroutinesResumedOnce` | `ResumedOnce` |
| `CoroutinesKeepContext` | `ContextKept` |
| `CombinatorsOutcomesFit` | `OutcomesFit` |
| `FlowInvariant` | types and `FlowInv` |
| `BlocksSettle` | `SettledIsFinal` |
| `FlowArrives` | `ArrivesUnlessFailed` |
| `ActorInvariant` | types and `ActorInv` |
| `ActorAnswersFollowOrder` | `AnswersFollowOrder` |
| `MapReduceInvariant` | types and `MapReduceInv` |
| `MapReduceCountsOnce` | `CountedOnce` |
| `MapReduceDestroysDone` | `DestroyedIsDone` |

- **Cancellation.**  `NoCallbackLost` is not inductive: it says nothing while a
  `Cancel` runs.  `CtsInv` adds where each callback is meanwhile: in the list, or in
  the local list of the one active canceler (`PairsSound`), with an id of its own
  (`IdsSound`), run at most once and, when registered and neither run nor
  disposed, in one of the two (`CallsSound`); and once the flag is set and
  the swap is done the list stays empty and no registration is between its
  check and its push (`CancelSound`).  That last part is the argument why the
  flag may be set without the mutex: the swap takes the mutex, which no
  registration that saw the flag unset can still hold.
- **Task.**  Assumption: `StartedOnce` - a task with a cancellable token is
  started by one thread at most (section 5 says why it is needed; with a token that is never canceled any number may call `Start`).
  `TaskInv` says which thread may act on a task in which state: at most
  one completing thread, exactly when the state is terminal, though one store
  is not synchronized; where each continuation is; what each waiter may
  still miss.  `Advances`, `Progresses` and `UserStep` in the proofs classify
  the steps by what they do to the contract: complete the task, nothing, or an
  operation of a user.
- **Strand.**  `StrandInv` ties the flag to the one item that is with the
  underlying scheduler; the item at the head of the contract's list is the one
  submitted or running, and vanishes when its function returns, before
  `markStrandOperationAsDone` has run.

- **Semaphore.**  `SemInv` says where each waiter is: somebody who waits stands
  in line once, or is registering with the token, and then holds the lock and
  has seen no permit (`LineSound`); while there is a line, or a release under
  way, no permit is free (`CountSound`).  `NoIdlePermit` is a consequence.
  `PermitsConserved` is a sum over a set: each step changes it by granting one
  (`GrantsOne`, a fact about cardinalities) or by nothing (`GrantsNobody`), and
  the permit of a release in progress is counted until somebody has it.
- **Semaphore, the contract.**  What a user sees of the queue is its live part,
  `Only(waiters, ...)`.  Lemmas about `Only` say what an append, a removal of
  the head and the death of one request do to it; with them each step maps to one
  of the contract: a pop of a live head grants the head of the contract's line
  (`LinePops`), a pop of a dead one is a stutter, a cancellation takes one request
  out of the middle (`LineLoses`).  The token is itself a contract, whose state
  is tied to the waiters' by `TokenSound`.
- **Mutex.**  `OneOwner` alone is not inductive: that an unlock finds the permit
  taken needs that every call that is granted and not unlocked has exactly one
  live guard (`GuardsSound`), and that whoever is next in line is not
  unlocked yet (`LineSound`).  All of it is on condition that nobody has revived a
  guard, which the step that does so, `Move`, makes false.
- **Collection.**  `CountsItems` is the argument: the items in the queue are the
  free permits, the takers on their way, the items pushed and not yet
  released, less what `TryTakeAll` took.  It needs that no item is in two places
  (`TakenOnce`) and no taker in line twice (`LineSound`).  A taker with a permit
  therefore finds the queue empty only if some item was drained, and each
  drained item accounts for one such failure.  `InOrder` is by cases over the
  steps that touch the queue.
- **Pool.**  The lock is held from a worker's check to its blocking, so that an
  item pushed meanwhile waits for it and then wakes it.  `PoolInv`: while items
  are queued, some worker is on its way to the queue.  With none on its way, all
  are blocked or not created yet; the latter needs that a started pool has a
  worker (`StartedHasWorker`), the former that none has left (`QuitOnly`).

- **Awaiter and combinators.**  `CombInv` says for each phase of a coroutine where
  its continuation is: with the task it awaits, in the pool, or nowhere because
  it runs (`AwaitSound`, `TaskSound`); that a called coroutine runs for its
  caller (`CallSound`); and that `WhenAny` and `Unwrap` have registered a
  continuation with each task they still look at (`AnySound`, `ProxySound`).
  `ResumedOnce` follows.  `ContextKept` needs, in addition, that as long as no two
  scopes overlap a coroutine that has not been suspended yet is in its scope and
  sees its context as the current one (`ScopeSound`).  `OutcomesFit` needs what a
  coroutine has behind it (`PastSound`: each await it passed is on a completed
  task, which it failed with, or collected), that helpers never fail
  (`HelpersSound`, over a set that is closed under calls: `HelpersClosed`) and a
  count of the collected exceptions that is finite (`Counted`).
- **Dataflow.**  `FlowInv` is inductive only as a whole.  `StackSound` and
  `LockSound` describe the recursion of `completeCommon`: only the top call
  of a thread can be doing anything but notifying successors, and a block whose
  lock is taken has one owner, so that each successor is told once.  `CountSound`
  is the key: `_startCallsCount` is the number of calls that are still to
  come - from predecessors that have not stopped, or have yet to turn to the
  block - and of those waiting for its lock.  When it reaches zero and no transform
  has failed, every predecessor has stopped (`OrderSound`), after its
  processing task ended (`TaskSound`).  Therefore nothing is on offer to a block that
  drains its input (`DrainSound`), and every item that a predecessor processed was
  accepted, or is on offer still, as often as it was processed (`ArriveSound`,
  a count over all predecessors).  `ArrivesUnlessFailed` puts these together, and
  `SettledIsFinal` follows from the first half.  That the graph has no cycle is
  not used; that the first block is the only one without predecessors is.
- **Actor.**  The queue is a flow of one block, but the destructor calls
  `Complete` a second time, so that `_startCallsCount` no longer counts what is to
  come: `FlowInv` does not hold, and is not needed.  `TaskInv`, the part of it
  about processing, offers, stacks and locks, is inductive without the count, and
  every step of an actor but the destructor's is a step of a flow or leaves the
  queue alone (`ActorStepOfFlow` in the proofs).  It gives that what was
  processed is a beginning of what was accepted.  `AnswerSound` adds that exactly
  the processed messages are answered, each from the state the one before has left
  (`StateBefore`), and that the last has left `_state`; `AcceptedOnce` that a
  message has one place in the order.  `AnswersFollowOrder` says for every answer
  what it owes to the one before, and so on to the first; it is stated step by step
  because a fold of the handler over the messages would need an induction.
- **MapReduce.**  The invariant has two halves.  The first is control, since the
  pipeline waits by blocking calls: `MainSound` says where `Run` is before and
  after it has called `Complete` of the parser, `ParserSound` that the parser has
  one message and which of its calls are still to come, `PhaseSound` that a queue
  which has stopped is empty and that only `OnCompleted` makes calls then,
  `StagesSound` and `ReducerSound` that whoever completes was told to by the
  stage before, which waits for it.  `completedCallsRequired` is the number of
  mappers that have not told the reducer (`NotCompleted`, a cardinality), until
  the parser has completed; the last of them completes the reducer.
  `DestroyedIsDone` follows from that half: `Run` destroys nothing before the
  parser has completed, by when every stage has completed and has no call left.
  The second half is data: `DictionarySound` ties what has come to a mapper to the
  batches the parser has sent, what has come to the reducer to the mappers that
  have sent, the writer's message to both.  Nothing is summed: what a stage has
  received is a sequence of disjoint sets of lines, written as functions to 0 and
  1 (`CountsOnce`), so that a dictionary is the union of what was handled; the
  lines go to one batch each, and a batch to one mapper.

The constants need no assumption beyond those named in the modules
(`CallbacksAssumption`, `TaskAssumption`, `SemaphoreAssumption`,
`CollectionAssumption`, `ThrownAssumption`, `PoolAssumption`, `FlowAssumption`,
`ActorAssumption`, `MapReduceAssumption`, `AwaiterAssumption`,
`HelpersAssumption`, `CombinatorsAssumption`; strand and mutex have none).
`ActorAssumption` is that an actor's flow is one block, in which any item
may fail, and that a handler sends at most one message; `MapReduceAssumption` that
`hardware_concurrency()` is not 0 (finding 10).  `HelpersAssumption` is how
`WhenAll` is built: a coroutine that collects failures calls others that await only what it was given, catch
everything and return; TLC evaluates it on the programs of the run.

**Only model-checked.**  Every liveness property, and the fairness part of the
contracts: they are beyond the prover.  These are `ContinuationsRun`,
`WaitersServed`, `LockGranted`, `ItemsRun`, `TakersServed`, `AllComplete`,
`CallsReturn`, `AskedIsAnswered`, `DestructorReturns`, `Finishes`,
`CoroutinesFinish` and `CombinatorsAnswer`; of `ImplementsContract`,
`ImplementsSemaphore` and `ImplementsExecutor`, which name the fair
specification, the theorems show the safety part.  That `Subsequence` is the
library's recursive `SelectSeq` (`OnlySelects`) is evaluated, not proved.  Every
safety invariant and every action property that a run checks is stated by a
theorem.  `ActorInv` and `MapReduceInv` are not among the invariants of the
configurations; TLC confirms them when they are added, the latter on one, two and
four hardware threads, too.

## 5. Findings

Where the code does not do what its documentation, tests or messages say:

1. **`Wait` can sleep on a completed task** (`task_wait_hangs`).  The result of
   a task's function is stored, and waiters are notified, without the mutex
   (`TaskHelpers.h:168` and `:153`); both can fall between the check in `Wait`
   and its blocking.  `WaitersServed` shows that every other completion is safe.

The following are in the models, and the properties are stated around them; they
have no run of their own, because no document promises the contrary in so
many words, or because a passing property says as much:

2. **A second `Start` can overwrite an outcome**: a canceled token is acted on
   before the state is looked at (`TaskHelpers.h:125`), instead of "Task already
   started.".  The runs and theorems assume `StartedOnce`.
3. **`Stop` of the pool can hang**: the flag and the notification are outside the
   lock (`SimpleThreadPool.cpp:107`), and can fall between `WorkerCheck` and
   `WorkerBlock`.  No property says that `Stop` returns.
4. **A faulted flow can complete with success**: when the user's `Complete`
   reaches a failed block before the thread that faults it, the successors are
   completed, not faulted (`DataFlowBlockCommon.h:442`).  Hence
   `ArrivesUnlessFailed`.
5. **A guard moved from an unlocked or moved-from guard is live again**
   (`AsyncMutex.cpp:7`) and can unlock the mutex of another caller.  Hence
   `revived` in `MutualExclusion` and `MutexInv`.
6. **`Unwrap` of a task that has no result never completes** (`Task.h:218`): the
   continuation throws into a task nobody looks at.  `CombinatorsAnswer`
   excepts it.
7. **A handler that sends to its own actor can deadlock with `Complete`**, which
   holds the lock that the handler asks for until the handler is done
   (`DataFlowBlockCommon.h:218` and `:247`).  `AskedIsAnswered` and
   `DestructorReturns` except it (`SelfLocked`).
8. **The destructor of an actor can hang after a `Complete` that threw**: the
   queue is stopped, but its completion is never set (`SimpleActor.h:141`;
   `LeftUnsettled`).
9. **The current synchronization context is one for all threads**
   (`SynchronizationContext.cpp:8`): `ContextKept` holds only as long as no two
   scopes overlap.
10. **The MapReduce sample drops the lines after the last full batch**
    (`LineParserActor.cpp:41`), which `CountedOnce` says, and divides by zero
    where `hardware_concurrency()` is 0, which `MapReduceAssumption` excludes.

## 6. Assumptions, and what is left out

- Callbacks of a token, continuations and transforms do not call back into the
  object that calls them while it holds its mutex.  Relocking a `std::mutex`
  is undefined.  `PROJECT.json` lists where that bites.  A strand over
  `CurrentThreadScheduler`, which runs items inside `EnqueueItem`, is such a case.
- Continuations and wrapped items do not throw.  Awaiting coroutines and items
  of tasks catch everything; a raw `ContinueWith` on an inline scheduler does not.
  Functions of `ActorPolicy` do not throw, transforms throw `std::exception`s only:
  anything else ends the processing task without `SetFaulted`
  (`DataFlowBlockCommon.h:377`).
- A caller of `Lock` awaits the guard before letting go of it.
- The blocks of a flow are connected before `Start`, form a DAG with one first
  block, on which the user calls, and live as long as the flow.
- Nobody calls an actor once its destruction has begun; its handler may.  An
  async handler is awaited before the next message and is one step.
- A thread that creates a scope calls one coroutine in it.  The global settings
  are set before the first task is awaited.
- `Start` and `Stop` of the pool are called by one thread, as its header asks.
- A semaphore is destroyed when no other call is in progress, as C++ requires.
- Memory is sequentially consistent where the code uses atomics and mutexes
  (it uses the default orders).  The unsynchronized store of a task's state is
  taken to be one write that takes effect at some moment.
- Integer overflow: ids of callbacks, counts of permits and of starts are far
  from their limits in any run of the program; they are unbounded in the models,
  but for `MaxCount`, which is the code's own limit.
- Not modelled: payloads and results other than by kind, the order in which
  the continuations of one task run, construction and copying of the shared
  pointers and the lifetime of references (`WhenAll` keeps references to its
  arguments), the thread-local `CurrentScheduler`, on which no code of the
  library depends, `ThreadSafeMinimalisticVector` (a vector under a mutex), the
  helpers in `Functional` and `Utils`.

## 7. Plan

Written in this order, the most used and most delicate parts first, contracts
before their users:

1. cancellation, task, semaphore (done), with the contracts that the rest rests on;
2. mutex, collection, pool, strand, dataflow (done);
3. proofs of cancellation, task, strand (done);
4. actors over the dataflow block; `ActorPolicy` and the sample (done);
5. awaiter, combinators, futures, contexts and global settings (done);
6. proofs of semaphore, mutex, collection and pool (done);
7. the semaphore's contract as a theorem; proofs of awaiter and combinators, and
   of dataflow (done);
8. proofs of the actor and of the sample's pipeline (done).

What is left, for whoever goes on:

9. continuations that call back into the object that runs them, over
   `CurrentThreadScheduler`, once the code gives that a meaning;
10. a pool smaller than the number of processing tasks in `DataFlowBlock`.

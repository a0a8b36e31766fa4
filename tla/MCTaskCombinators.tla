-------------------------- MODULE MCTaskCombinators --------------------------
(* all1: WhenAll of both tasks, with the calls of awaitTask it is made of. *)
(* bind1: Fbind of the first and of what WhenAny of both comes to, called  *)
(* in a context.  block1: WaitAll, in a thread without one.  user1: in the *)
(* same context, awaits what Fmap makes of the first task, and a coroutine *)
(* that returns a future.  run1: Run of a function that returns a task.    *)
(* hop1: goes on in the current context, in that thread, and then in the   *)
(* default scheduler.                                                      *)
EXTENDS TaskCombinators

CONSTANTS task1, task2, future1, all1, rest1, one1, two1, bind1, block1, user1, map1,
          shared1, run1, hop1, any1, proxy1, ui1, none1, std1

MCCoroutines ==
  {all1, rest1, one1, two1, bind1, block1, user1, map1, shared1, run1, hop1}
MCProgram ==
  (all1 :> WhenAll(rest1))
  @@ (rest1 :> AwaitTasks(one1, two1))
  @@ (one1 :> AwaitTask(task1)) @@ (two1 :> AwaitTask(task2))
  @@ (bind1 :> Fbind(task1, any1))
  @@ (block1 :> WaitAll(<<task1, task2>>))
  @@ (user1 :> <<Plain(map1), Plain(shared1)>>)
  @@ (map1 :> Fmap(task1)) @@ (shared1 :> <<Plain(future1)>>)
  @@ (run1 :> RunNested(task1, task2))
  @@ (hop1 :> <<[task |-> none1, way |-> "context"],
                [task |-> none1, way |-> "thread"],
                [task |-> none1, way |-> "scheduler"]>>)
MCCollector == [c \in MCCoroutines |-> IF c \in {one1, two1} THEN all1
                                            ELSE IF c = block1 THEN block1 ELSE none1]
MCEnds == [c \in MCCoroutines |-> IF c \in {bind1, map1} THEN {"result", "error"}
                                         ELSE {"result"}]
MCScope == [c \in MCCoroutines |-> IF c \in {bind1, user1, hop1} THEN ui1 ELSE std1]
MCOutcomes == (task1 :> {"result", "canceled"}) @@ (task2 :> {"result", "error"})
              @@ (future1 :> {"result", "error"})
MCAny == (any1 :> <<task1, task2>>)
MCOuter == (proxy1 :> task2)
MCInner == (proxy1 :> task1)
MCUnused == [UseOnlyConfigureAwaitFalseBehavior |-> TRUE,
             TaskAwaiterAwaitReadyAlwaysReturnsFalse |-> TRUE]
MCSettings ==
  {[UseOnlyConfigureAwaitFalseBehavior |-> onlyFalse,
    TaskAwaiterAwaitReadyAlwaysReturnsFalse |-> neverReady] :
     onlyFalse \in BOOLEAN, neverReady \in BOOLEAN} \ {MCUnused}
MCUses == {{all1}, {bind1, any1}, {user1, block1}, {hop1, block1}, {run1}, {proxy1}}
=============================================================================

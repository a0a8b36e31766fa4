--------------------------- MODULE TaskCombinators ---------------------------
(***************************************************************************)
(* Tasks made of tasks (Tasks/TaskCombinators.h, Tasks/TaskFactory.h,      *)
(* Task::Unwrap).  WhenAll, WaitAll, Fmap, Fbind and Run of a function     *)
(* that returns a task are programs of TaskAwaiter; WhenAny, WaitAny and   *)
(* Unwrap are continuations of the tasks they are given.                   *)
(***************************************************************************)
EXTENDS TaskAwaiter

CONSTANTS AnyOf,    (* AnyOf[x]: the tasks WhenAny is given, in order      *)
          Outer,    (* Outer[p]: the task that is unwrapped                *)
          Inner     (* Inner[p]: the task that is its result               *)

Anys == DOMAIN AnyOf
Proxies == DOMAIN Outer

AnyContinuation(x, n) == <<"any", x, n>>
OuterContinuation(p) == <<"outer", p>>
InnerContinuation(p) == <<"inner", p>>

(* The continuations of the combinators.                                   *)
AnyCallbacks == UNION {{AnyContinuation(x, n) : n \in 1..Len(AnyOf[x])} : x \in Anys}
Callbacks == AnyCallbacks \cup {OuterContinuation(p) : p \in Proxies}
                          \cup {InnerContinuation(p) : p \in Proxies}

(* The coroutines that await what WhenAll is given: those it calls itself, *)
(* and those that these call (Detail::awaitTask).                          *)
Calls(c) == IF Collector[c] = Nobody THEN {w.task : w \in Awaits(c)} \cap Coroutines ELSE {}
Helpers(c) ==
  {d \in Coroutines : \A S \in SUBSET Coroutines :
                        (\A e \in S \cup {c} : Calls(e) \subseteq S) => d \in S}
Collects(c) == \E d \in Coroutines : d # c /\ Collector[d] = c

(* They await one another or what WhenAll is given, and never fail.        *)
ASSUME HelpersAssumption ==
  \A c \in Coroutines : Collects(c) =>
    /\ Collector[c] = Nobody
    /\ {d \in Coroutines : Collector[d] = c} \subseteq Helpers(c)
    /\ \A e \in Helpers(c) \cup {c} :
         Collector[e] = Nobody => {w.task : w \in Awaits(e)} \subseteq Helpers(c)
    /\ \A e \in Helpers(c) : /\ Collector[e] \in {Nobody, c} /\ Ends[e] \subseteq {"result"}
                             /\ \A d \in Coroutines : Collector[d] # e

ASSUME CombinatorsAssumption ==
  /\ Callbacks \cap Coroutines = {}
  /\ Combined = Anys \cup Proxies /\ Anys \cap Proxies = {}
  /\ AnyOf \in [Anys -> Seq(Tasks \ Futures)]
  /\ Outer \in [Proxies -> Sources \ Futures] /\ Inner \in [Proxies -> Tasks \ Futures]

VARIABLES next,    (* next[x]: the task waitAnyTask is called with next    *)
          index,   (* index[x]: the index that was the first, or 0         *)
          opened   (* the proxies: Unwrap was called                       *)

vars == <<tasks, coroutine, awaiter, threading, next, index, opened>>
combined == <<next, index, opened>>

Init == /\ AwaiterInit
        /\ next = [x \in Anys |-> 1]
        /\ index = [x \in Anys |-> 0]
        /\ opened = {}

-----------------------------------------------------------------------------
(* What the combinators await.                                             *)

Plain(x) == [task |-> x, way |-> "plain"]
Unconfigured(x) == [task |-> x, way |-> "unconfigured"]
Blocking(x) == [task |-> x, way |-> "blocking"]

AwaitTask(x) == <<Unconfigured(x)>>
AwaitTasks(first, rest) == <<Unconfigured(first), Unconfigured(rest)>>
WhenAll(awaitAll) == <<Unconfigured(awaitAll)>>
WaitAll(given) == [n \in 1..Len(given) |-> Blocking(given[n])]
Fmap(src) == <<Unconfigured(src)>>
Fbind(src, mapped) == <<Plain(src), Unconfigured(mapped)>>
RunNested(outer, nested) == <<Unconfigured(outer), Unconfigured(nested)>>

-----------------------------------------------------------------------------
WaitFirstTask(x) ==
  /\ x \in used /\ next[x] = 1
  /\ next' = [next EXCEPT ![x] = @ + 1]
  /\ AddContinuation(AnyOf[x][next[x]], AnyContinuation(x, next[x]), {})
  /\ UNCHANGED <<outcome, coroutine, awaiter, threading, index, opened>>

(* WhenAny and WaitAny register one continuation after the other.          *)
WaitAnyTask(x) ==
  /\ x \in used /\ next[x] <= Len(AnyOf[x])
  /\ next' = [next EXCEPT ![x] = @ + 1]
  /\ AddContinuation(AnyOf[x][next[x]], AnyContinuation(x, next[x]), {})
  /\ UNCHANGED <<outcome, coroutine, awaiter, threading, index, opened>>

(* TrySetResult of the index: the first continuation that runs.            *)
TrySetIndex(x, n) ==
  /\ AnyContinuation(x, n) \in pool
  /\ IF IsCompleted(x)
       THEN /\ pool' = pool \ {AnyContinuation(x, n)}
            /\ UNCHANGED <<outcome, pending, index>>
       ELSE /\ Complete(x, "result", {AnyContinuation(x, n)})
            /\ index' = [index EXCEPT ![x] = n]
  /\ UNCHANGED <<coroutine, awaiter, threading, next, opened>>

-----------------------------------------------------------------------------
(* Unwrap.  The continuation of an outer task that has no result throws,   *)
(* into a task that nobody looks at.                                       *)
Unwrap(p) ==
  /\ p \in used \ opened
  /\ opened' = opened \cup {p}
  /\ AddContinuation(Outer[p], OuterContinuation(p), {})
  /\ UNCHANGED <<outcome, coroutine, awaiter, threading, next, index>>

OuterDone(p) ==
  /\ OuterContinuation(p) \in pool
  /\ IF outcome[Outer[p]] = "result"
       THEN AddContinuation(Inner[p], InnerContinuation(p), {OuterContinuation(p)})
       ELSE pool' = pool \ {OuterContinuation(p)} /\ UNCHANGED pending
  /\ UNCHANGED <<outcome, coroutine, awaiter, threading, combined>>

InnerDone(p) ==
  /\ InnerContinuation(p) \in pool
  /\ Complete(p, outcome[Inner[p]], {InnerContinuation(p)})
  /\ UNCHANGED <<coroutine, awaiter, threading, combined>>

-----------------------------------------------------------------------------
AnyStep(x) == WaitAnyTask(x) \/ \E n \in 1..Len(AnyOf[x]) : TrySetIndex(x, n)
ProxyStep(p) == OuterDone(p) \/ InnerDone(p)

(* What the pool, the contexts and the detached threads do.                *)
Runtime == \/ \E c \in Coroutines : AwaitStep(c) /\ UNCHANGED combined
           \/ \E x \in Anys : AnyStep(x)
           \/ \E p \in Proxies : ProxyStep(p)

Next == \/ \E s \in Sources : Settle(s) /\ UNCHANGED combined
        \/ \E c \in Roots : (EnterScope(c) \/ LeaveScope(c)) /\ UNCHANGED combined
        \/ \E p \in Proxies : Unwrap(p)
        \/ Runtime

(* They run what they are given; nobody has to complete a source.  A       *)
(* program has finitely many steps: to go on with one that can be taken is *)
(* to take them all.                                                       *)
Spec == Init /\ [][Next]_vars /\ WF_vars(Runtime)

-----------------------------------------------------------------------------
(* The continuation of a coroutine that is suspended, and of no other, is  *)
(* in one place: a coroutine is resumed once, by one thread, and not lost. *)
ResumedOnce ==
  \A c \in Coroutines :
    /\ c \in pool => phase[c] = "suspended"
    /\ phase[c] = "suspended" => c \in pool \/ \E t \in Tasks : c \in pending[t]
    /\ \A t \in Tasks : c \in pending[t] =>
         /\ phase[c] = "suspended" /\ c \notin pool /\ t = Awaited(c)
         /\ ~IsCompleted(t)

Failing(t) == t \in Tasks /\ outcome[t] # "result"

(* The calls of WhenAll, and of the programs, that collect for a coroutine.*)
AwaitPoints == UNION {{<<d, n>> : n \in 1..Len(Program[d])} : d \in Coroutines}
Target(p) == Program[p[1]][p[2]].task
Collected(c) == {p \in AwaitPoints : Collector[p[1]] = c /\ Target(p) \in Tasks}

FirstFailure(c, n) == /\ Failing(Target(<<c, n>>))
                      /\ \A m \in 1..(n - 1) : ~Failing(Target(<<c, m>>))

(* What a coroutine comes to, from what it awaited: it ends as the first   *)
(* await that fails does; WhenAll waits for all, and fails if one did.     *)
CoroutineOutcome(c) ==
  LET first == {n \in 1..Len(Program[c]) : FirstFailure(c, n)}
  IN  IF Collector[c] = Nobody /\ first # {} THEN {outcome[Target(<<c, n>>)] : n \in first}
      ELSE IF \E p \in Collected(c) : Failing(Target(p)) THEN {"error"}
      ELSE Ends[c]

(* Every outcome is what its combinator makes of the outcomes of the tasks *)
(* it was given, whoever completed first and whenever it was asked for:    *)
(* also, an exception is collected for each task of WhenAll that fails,    *)
(* and WhenAny names a task that is completed.                             *)
OutcomesFit ==
  /\ \A c \in Coroutines : IsCompleted(c) =>
       /\ outcome[c] \in CoroutineOutcome(c)
       /\ \A p \in Collected(c) : IsCompleted(Target(p))
       /\ Len(failures[c]) = Cardinality({p \in Collected(c) : Failing(Target(p))})
  /\ \A x \in Anys : IsCompleted(x) => IsCompleted(AnyOf[x][index[x]])
  /\ \A p \in Proxies : IsCompleted(p) => outcome[p] = outcome[Inner[p]]

FirstAwait(c) == step[c] = 1 /\ phase[c] \in {"register", "suspended", "posted"}

Captures(c) == /\ Way(c) = "plain" /\ Awaited(c) \notin Futures
               /\ ~settings.UseOnlyConfigureAwaitFalseBehavior

(* As long as no two threads call at a time (_current is one for all), the *)
(* first co_await of a coroutine posts to the context of its scope, and to *)
(* none if GlobalTaskSettings say so; a scope leaves the context as it was.*)
ContextKept ==
  ~overlapped =>
    /\ \A c \in Roots : FirstAwait(c) =>
         captured[c] = IF Captures(c) \/ Way(c) = "context" THEN Scope[c] ELSE Default
    /\ (\A c \in Roots : scope[c] # "in") => current = Default

(* Once all sources are completed, every coroutine that was called comes   *)
(* to its end.                                                             *)
CoroutinesFinish ==
  (\A s \in Sources : IsCompleted(s))
    ~> \A c \in Coroutines : phase[c] # "new" => IsCompleted(c)

(* WhenAny answers once one of its tasks is completed; Unwrap once the     *)
(* inner task is, unless the outer one has none.                           *)
CombinatorsAnswer ==
  /\ \A x \in Anys :
       (x \in used /\ \E t \in ToSet(AnyOf[x]) : IsCompleted(t)) ~> IsCompleted(x)
  /\ \A p \in Proxies :
       (p \in opened /\ outcome[Outer[p]] = "result" /\ IsCompleted(Inner[p]))
         ~> IsCompleted(p)
=============================================================================

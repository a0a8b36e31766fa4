----------------------- MODULE TaskCombinators_proofs -----------------------
(***************************************************************************)
(* For any programs of coroutines, any combinators and any settings: where *)
(* every continuation is, so that each coroutine is resumed once; in which *)
(* context it goes on; and what its outcome, or that of a combinator, is.  *)
(***************************************************************************)
EXTENDS TaskCombinators, FiniteSetTheorems, SequenceTheorems, TLAPS

USE DEF tasks, awaiter, threading, coroutine, combined

Phases == {"new", "run", "suspend", "register", "suspended", "detach", "detached",
           "posted", "resume", "done"}
Continuations == Coroutines \cup Callbacks

TypeOK ==
  /\ outcome \in [Tasks -> Settled \cup {"none"}]
  /\ pending \in [Tasks -> SUBSET Continuations]
  /\ pool \in SUBSET Continuations
  /\ phase \in [Coroutines -> Phases]
  /\ step \in [Coroutines -> Nat \ {0}]
  /\ returned \in [Coroutines -> BOOLEAN]
  /\ capture \in [Coroutines -> BOOLEAN]
  /\ captured \in [Coroutines -> Contexts]
  /\ failures \in [Coroutines -> Seq(Tasks)]
  /\ current \in Contexts
  /\ scope \in [Coroutines -> {"before", "in", "after"}]
  /\ old \in [Coroutines -> Contexts]
  /\ overlapped \in BOOLEAN
  /\ settings \in Settings
  /\ used \in Uses
  /\ next \in [Anys -> Nat \ {0}]
  /\ index \in [Anys -> Nat]
  /\ opened \in SUBSET Proxies

(* A future, and a task that is completed, has no continuations to run.    *)
TaskSound == \A t \in Tasks : t \in Futures \/ IsCompleted(t) => pending[t] = {}

Outstanding(k) == k \in pool \/ \E t \in Tasks : k \in pending[t]

(* The task or the future the coroutine is at is there.                    *)
Served(c) == Awaited(c) = Nobody \/ IsCompleted(Awaited(c))

(* What a coroutine is at, and that it is not resumed too early.           *)
AwaitSound ==
  \A c \in Coroutines :
    /\ phase[c] \notin {"new", "run", "done"} => step[c] <= Len(Program[c])
    /\ phase[c] \in {"suspend", "register"} => Awaited(c) \in Tasks \ Futures
    /\ phase[c] \in {"detach", "detached"} => Awaited(c) \in Futures
    /\ phase[c] \in {"resume", "posted"} \/ c \in pool => Served(c)
    /\ phase[c] = "done" <=> IsCompleted(c)

(* How far its call is, and the thread that makes the call.                *)
CallSound ==
  \A c \in Coroutines :
    /\ phase[c] = "new" => step[c] = 1 /\ ~returned[c]
    /\ step[c] = 1 /\ phase[c] \in {"run", "suspend", "register", "detach"} => ~returned[c]
    /\ c \in Roots /\ scope[c] = "before" => phase[c] = "new"
    /\ c \in Roots /\ phase[c] # "new" /\ ~returned[c] => scope[c] = "in"

(* The continuations of WhenAny; it names a task that is completed.        *)
AnyRight(x) ==
  /\ \A n \in 1..Len(AnyOf[x]) :
       /\ \A t \in Tasks : AnyContinuation(x, n) \in pending[t] => t = AnyOf[x][n]
       /\ AnyContinuation(x, n) \in pool => IsCompleted(AnyOf[x][n])
  /\ IsCompleted(x) => index[x] \in 1..Len(AnyOf[x]) /\ IsCompleted(AnyOf[x][index[x]])
AnySound == \A x \in Anys : AnyRight(x)

(* The continuations of Unwrap: first the one of the outer task, then the  *)
(* one of the inner task, and then it is completed.                        *)
ProxyRight(p) ==
  /\ \A t \in Tasks : OuterContinuation(p) \in pending[t] =>
                        t = Outer[p] /\ OuterContinuation(p) \notin pool
  /\ \A t \in Tasks : InnerContinuation(p) \in pending[t] =>
                        t = Inner[p] /\ InnerContinuation(p) \notin pool
  /\ InnerContinuation(p) \in pool => IsCompleted(Inner[p])
  /\ Outstanding(OuterContinuation(p)) =>
       p \in opened /\ ~IsCompleted(p) /\ ~Outstanding(InnerContinuation(p))
  /\ Outstanding(InnerContinuation(p)) => p \in opened /\ ~IsCompleted(p)
  /\ IsCompleted(p) => /\ p \in opened
                       /\ IsCompleted(Inner[p]) /\ outcome[p] = outcome[Inner[p]]
ProxySound == \A p \in Proxies : ProxyRight(p)

CombInv == /\ TypeOK /\ TaskSound /\ AwaitSound /\ CallSound
           /\ ResumedOnce /\ AnySound /\ ProxySound

-----------------------------------------------------------------------------
(* The constants.                                                          *)

LEMMA AwaitFacts ==
  ASSUME NEW c \in Coroutines, NEW n \in 1..Len(Program[c])
  PROVE  LET w == Program[c][n]
         IN  /\ w.task \in Tasks \cup {Nobody} /\ w.way \in Ways
             /\ w.task = Nobody <=> w.way \in {"scheduler", "thread", "context"}
             /\ w.task \in Futures => w.way = "plain"
             /\ w.task \notin Roots
             /\ w \in Awaits(c)
<1>1. Program[c] \in Seq([task : Tasks \cup {Nobody}, way : Ways])
  BY AwaiterAssumption
<1>2. Program[c][n] \in [task : Tasks \cup {Nobody}, way : Ways]
  BY <1>1, ElementOfSeq
<1>3. Program[c][n] \in Awaits(c)
  <2>1. DOMAIN Program[c] = 1..Len(Program[c])
    BY <1>1, LenProperties
  <2>. QED
    BY <2>1 DEF Awaits, ToSet
<1>4. \A w \in Awaits(c) : /\ w.task = Nobody <=> w.way \in {"scheduler", "thread", "context"}
                           /\ w.task \in Futures => w.way = "plain"
  BY AwaiterAssumption
<1>. QED
  BY <1>2, <1>3, <1>4 DEF Roots

LEMMA Disjoint ==
  /\ Coroutines \subseteq Tasks /\ Sources \subseteq Tasks
  /\ Anys \subseteq Tasks /\ Proxies \subseteq Tasks
  /\ Nobody \notin Tasks
  /\ \A c \in Coroutines : c \notin Anys /\ c \notin Proxies /\ c \notin Sources
  /\ \A x \in Anys : x \notin Proxies /\ x \notin Sources /\ x \notin Futures
  /\ \A p \in Proxies : p \notin Sources /\ p \notin Futures
  /\ \A c \in Coroutines, x \in Anys : \A n \in 1..Len(AnyOf[x]) : c # AnyContinuation(x, n)
  /\ \A c \in Coroutines, p \in Proxies : c # OuterContinuation(p) /\ c # InnerContinuation(p)
  /\ \A x \in Anys : \A n \in 1..Len(AnyOf[x]) : AnyContinuation(x, n) \in Callbacks
  /\ \A p \in Proxies : OuterContinuation(p) \in Callbacks /\ InnerContinuation(p) \in Callbacks
<1>1. /\ Sources \cap Coroutines = {} /\ Sources \cap Combined = {}
      /\ Combined \cap Coroutines = {} /\ Nobody \notin Tasks
      /\ Futures \subseteq Sources \cup Coroutines
  BY AwaiterAssumption
<1>2. /\ Combined = Anys \cup Proxies /\ Anys \cap Proxies = {}
      /\ Callbacks \cap Coroutines = {}
  BY CombinatorsAssumption
<1>3. /\ \A x \in Anys : \A n \in 1..Len(AnyOf[x]) : AnyContinuation(x, n) \in Callbacks
      /\ \A p \in Proxies : OuterContinuation(p) \in Callbacks /\ InnerContinuation(p) \in Callbacks
  <2>. HIDE DEF AnyContinuation, OuterContinuation, InnerContinuation
  <2>1. ASSUME NEW x \in Anys, NEW n \in 1..Len(AnyOf[x])
        PROVE  AnyContinuation(x, n) \in Callbacks
    <3>1. AnyContinuation(x, n) \in {AnyContinuation(x, m) : m \in 1..Len(AnyOf[x])}
      OBVIOUS
    <3>2. AnyContinuation(x, n) \in AnyCallbacks
      BY <3>1 DEF AnyCallbacks
    <3>. QED
      BY <3>2 DEF Callbacks
  <2>2. ASSUME NEW p \in Proxies
        PROVE  OuterContinuation(p) \in Callbacks /\ InnerContinuation(p) \in Callbacks
    <3>1. /\ OuterContinuation(p) \in {OuterContinuation(q) : q \in Proxies}
          /\ InnerContinuation(p) \in {InnerContinuation(q) : q \in Proxies}
      OBVIOUS
    <3>. QED
      BY <3>1 DEF Callbacks
  <2>. QED
    BY <2>1, <2>2
<1>4. /\ Coroutines \subseteq Tasks /\ Sources \subseteq Tasks
      /\ Anys \subseteq Tasks /\ Proxies \subseteq Tasks
  BY <1>2 DEF Tasks
<1>5. /\ \A c \in Coroutines : c \notin Anys /\ c \notin Proxies /\ c \notin Sources
      /\ \A x \in Anys : x \notin Proxies /\ x \notin Sources /\ x \notin Futures
      /\ \A p \in Proxies : p \notin Sources /\ p \notin Futures
  BY <1>1, <1>2
<1>6. /\ \A c \in Coroutines, x \in Anys : \A n \in 1..Len(AnyOf[x]) : c # AnyContinuation(x, n)
      /\ \A c \in Coroutines, p \in Proxies : c # OuterContinuation(p) /\ c # InnerContinuation(p)
  BY <1>2, <1>3
<1>. QED
  BY <1>1, <1>3, <1>4, <1>5, <1>6

LEMMA Distinct ==
  /\ \A x, y, m, n : AnyContinuation(x, m) = AnyContinuation(y, n) => x = y /\ m = n
  /\ \A p, q : OuterContinuation(p) = OuterContinuation(q) => p = q
  /\ \A p, q : InnerContinuation(p) = InnerContinuation(q) => p = q
  /\ \A p, q : OuterContinuation(p) # InnerContinuation(q)
  /\ \A x, n, p : /\ AnyContinuation(x, n) # OuterContinuation(p)
                  /\ AnyContinuation(x, n) # InnerContinuation(p)
BY DEF AnyContinuation, OuterContinuation, InnerContinuation

LEMMA InitCombInv == Init => CombInv
<1>. SUFFICES ASSUME Init PROVE CombInv
  OBVIOUS
<1>. USE DEF Init, AwaiterInit
<1>1. TypeOK
  <2>1. Default \in Contexts
    BY AwaiterAssumption
  <2>2. <<>> \in Seq(Tasks)
    OBVIOUS
  <2>3. /\ outcome \in [Tasks -> Settled \cup {"none"}]
        /\ pending \in [Tasks -> SUBSET Continuations]
        /\ pool \in SUBSET Continuations
        /\ phase \in [Coroutines -> Phases]
    BY DEF Phases
  <2>4. /\ step \in [Coroutines -> Nat \ {0}]
        /\ returned \in [Coroutines -> BOOLEAN]
        /\ capture \in [Coroutines -> BOOLEAN]
    OBVIOUS
  <2>5. /\ captured \in [Coroutines -> Contexts] /\ old \in [Coroutines -> Contexts]
        /\ failures \in [Coroutines -> Seq(Tasks)]
    BY <2>1, <2>2
  <2>6. /\ current \in Contexts /\ scope \in [Coroutines -> {"before", "in", "after"}]
        /\ settings \in Settings /\ used \in Uses
    BY <2>1
  <2>7. overlapped \in BOOLEAN
    OBVIOUS
  <2>8. /\ next \in [Anys -> Nat \ {0}]
        /\ index \in [Anys -> Nat] /\ opened \in SUBSET Proxies
    OBVIOUS
  <2>. QED
    BY <2>3, <2>4, <2>5, <2>6, <2>7, <2>8 DEF TypeOK
<1>2. TaskSound
  BY DEF TaskSound
<1>3. AwaitSound
  BY Disjoint DEF AwaitSound, IsCompleted
<1>4. CallSound
  BY DEF CallSound
<1>5. ResumedOnce
  BY DEF ResumedOnce
<1>6. AnySound
  BY Disjoint DEF AnySound, AnyRight, IsCompleted
<1>7. ProxySound
  BY Disjoint DEF ProxySound, ProxyRight, IsCompleted, Outstanding
<1>. QED
  BY <1>1, <1>2, <1>3, <1>4, <1>5, <1>6, <1>7 DEF CombInv

-----------------------------------------------------------------------------
(* Tasks.                                                                  *)

LEMMA CompleteFacts ==
  ASSUME TypeOK, TaskSound, NEW t \in Tasks, NEW o \in Settled, NEW ran,
         Complete(t, o, ran)
  PROVE  /\ outcome' \in [Tasks -> Settled \cup {"none"}]
         /\ pending' \in [Tasks -> SUBSET Continuations]
         /\ pool' \in SUBSET Continuations
         /\ TaskSound'
         /\ outcome'[t] = o /\ \A s \in Tasks : s # t => outcome'[s] = outcome[s]
         /\ \A s \in Tasks : IsCompleted(s)' <=> IsCompleted(s) \/ s = t
         /\ \A s \in Tasks : \A k : k \in pending'[s] <=> s # t /\ k \in pending[s]
         /\ \A k : k \in pool' <=> (k \in pool /\ k \notin ran) \/ k \in pending[t]
<1>. USE DEF Complete, Settled
<1>1. /\ outcome' \in [Tasks -> Settled \cup {"none"}]
      /\ outcome'[t] = o /\ \A s \in Tasks : s # t => outcome'[s] = outcome[s]
  BY DEF TypeOK
<1>2. /\ pending' \in [Tasks -> SUBSET Continuations]
      /\ \A s \in Tasks : pending'[s] = IF s = t THEN {} ELSE pending[s]
  BY DEF TypeOK
<1>3. pool' \in SUBSET Continuations
  BY DEF TypeOK
<1>4. \A s \in Tasks : IsCompleted(s)' <=> IsCompleted(s) \/ s = t
  BY <1>1 DEF IsCompleted
<1>5. TaskSound'
  BY <1>2, <1>4 DEF TaskSound
<1>. QED
  BY <1>1, <1>2, <1>3, <1>4, <1>5

LEMMA AddFacts ==
  ASSUME TypeOK, TaskSound, NEW t \in Tasks \ Futures, NEW k \in Continuations, NEW ran,
         AddContinuation(t, k, ran), UNCHANGED outcome
  PROVE  /\ pending' \in [Tasks -> SUBSET Continuations]
         /\ pool' \in SUBSET Continuations
         /\ TaskSound'
         /\ \A s \in Tasks : IsCompleted(s)' <=> IsCompleted(s)
         /\ \A s \in Tasks : \A j :
              j \in pending'[s] <=> j \in pending[s] \/ (j = k /\ s = t /\ ~IsCompleted(t))
         /\ \A j : j \in pool' <=> (j \in pool /\ j \notin ran) \/ (j = k /\ IsCompleted(t))
<1>1. \A s \in Tasks : IsCompleted(s)' <=> IsCompleted(s)
  BY DEF IsCompleted
<1>2. CASE IsCompleted(t)
  BY <1>1, <1>2 DEF AddContinuation, TypeOK, TaskSound
<1>3. CASE ~IsCompleted(t)
  <2>1. pending' = [pending EXCEPT ![t] = @ \cup {k}] /\ pool' = pool \ ran
    BY <1>3 DEF AddContinuation
  <2>2. /\ pending' \in [Tasks -> SUBSET Continuations]
        /\ \A s \in Tasks : pending'[s] = IF s = t THEN pending[t] \cup {k} ELSE pending[s]
    BY <2>1 DEF TypeOK
  <2>3. TaskSound'
    BY <1>1, <1>3, <2>2 DEF TaskSound
  <2>. QED
    BY <1>1, <1>3, <2>1, <2>2, <2>3 DEF TypeOK
<1>. QED
  BY <1>2, <1>3

(* What a coroutine is at.                                                 *)
LEMMA AwaitedFacts ==
  ASSUME TypeOK, NEW c \in Coroutines, step[c] <= Len(Program[c])
  PROVE  /\ step[c] \in 1..Len(Program[c])
         /\ Awaited(c) \in Tasks \cup {Nobody} /\ Way(c) \in Ways
         /\ Awaited(c) = Nobody <=> Way(c) \in {"scheduler", "thread", "context"}
         /\ Awaited(c) \in Futures => Way(c) = "plain"
         /\ Awaited(c) \notin Roots
<1>1. Len(Program[c]) \in Nat
  BY AwaiterAssumption, LenProperties
<1>2. step[c] \in 1..Len(Program[c])
  BY <1>1 DEF TypeOK
<1>. QED
  BY <1>2, AwaitFacts DEF Awaited, Way

LEMMA WaitsForTask ==
  ASSUME CombInv, NEW c \in Coroutines,
         phase[c] \in {"resume", "posted"} \/ c \in pool
  PROVE  Awaited(c) \in Tasks \cup {Nobody}
<1>1. step[c] <= Len(Program[c])
  BY DEF CombInv, AwaitSound, ResumedOnce
<1>. QED
  BY <1>1, AwaitedFacts DEF CombInv

(* What a task that is completed does to the coroutines that wait for it.  *)
LEMMA CompleteResumes ==
  ASSUME CombInv, NEW t \in Tasks, NEW o \in Settled, NEW ran,
         ~IsCompleted(t), Complete(t, o, ran), ran \cap Coroutines = {},
         t \in Coroutines => phase[t] \in {"run", "resume"},
         \A c \in Coroutines : phase'[c] = IF c = t THEN "done" ELSE phase[c],
         UNCHANGED step
  PROVE  AwaitSound' /\ ResumedOnce'
<1>. USE DEF CombInv
<1>1. /\ \A s \in Tasks : IsCompleted(s)' <=> IsCompleted(s) \/ s = t
      /\ \A s \in Tasks : \A k : k \in pending'[s] <=> s # t /\ k \in pending[s]
      /\ \A k \in Coroutines : k \in pool' <=> k \in pool \/ k \in pending[t]
  BY CompleteFacts
<1>2. \A c \in Coroutines : Awaited(c)' = Awaited(c)
  BY DEF Awaited
<1>3. ASSUME NEW c \in Coroutines
      PROVE  /\ phase'[c] \notin {"new", "run", "done"} => step'[c] <= Len(Program[c])
             /\ phase'[c] \in {"suspend", "register"} => Awaited(c)' \in Tasks \ Futures
             /\ phase'[c] \in {"detach", "detached"} => Awaited(c)' \in Futures
             /\ phase'[c] \in {"resume", "posted"} \/ c \in pool' => Served(c)'
             /\ phase'[c] = "done" <=> IsCompleted(c)'
  <2>1. phase[c] \in {"resume", "posted"} \/ c \in pool => Served(c)'
    BY <1>1, <1>2, WaitsForTask DEF AwaitSound, Served
  <2>2. c \in pending[t] => Served(c)'
    BY <1>1, <1>2 DEF ResumedOnce, Served
  <2>3. c \in Tasks
    BY Disjoint
  <2>. QED
    BY <1>1, <1>2, <2>1, <2>2, <2>3 DEF AwaitSound
<1>4. ASSUME NEW c \in Coroutines
      PROVE  /\ c \in pool' => phase'[c] = "suspended"
             /\ phase'[c] = "suspended" => c \in pool' \/ \E s \in Tasks : c \in pending'[s]
             /\ \A s \in Tasks : c \in pending'[s] =>
                  /\ phase'[c] = "suspended" /\ c \notin pool' /\ s = Awaited(c)'
                  /\ ~IsCompleted(s)'
  BY <1>1, <1>2 DEF ResumedOnce
<1>. QED
  BY <1>3, <1>4 DEF AwaitSound, ResumedOnce

(* What a task that is completed does to the combinators that wait for it. *)
LEMMA CompleteAnswers ==
  ASSUME CombInv, NEW t \in Tasks, NEW o \in Settled, NEW ran, ~IsCompleted(t),
         Complete(t, o, ran), UNCHANGED opened
  PROVE  /\ \A x \in Anys : x # t /\ index'[x] = index[x] => AnyRight(x)'
         /\ \A p \in Proxies : p # t => ProxyRight(p)'
<1>. USE DEF CombInv
<1>1. /\ \A s \in Tasks : IsCompleted(s)' <=> IsCompleted(s) \/ s = t
      /\ \A s \in Tasks : \A k : k \in pending'[s] <=> s # t /\ k \in pending[s]
      /\ \A k : k \in pool' => k \in pool \/ k \in pending[t]
      /\ \A s \in Tasks : s # t => outcome'[s] = outcome[s]
  BY CompleteFacts
<1>2. ASSUME NEW x \in Anys, x # t, index'[x] = index[x]
      PROVE  AnyRight(x)'
  <2>1. \A n \in 1..Len(AnyOf[x]) : AnyOf[x][n] \in Tasks
    BY CombinatorsAssumption, ElementOfSeq
  <2>2. x \in Tasks
    BY Disjoint
  <2>3. \A n \in 1..Len(AnyOf[x]) :
          /\ \A s \in Tasks : AnyContinuation(x, n) \in pending'[s] => s = AnyOf[x][n]
          /\ AnyContinuation(x, n) \in pool' => IsCompleted(AnyOf[x][n])'
    BY <1>1, <2>1 DEF AnySound, AnyRight
  <2>4. IsCompleted(x)' => /\ index'[x] \in 1..Len(AnyOf[x])
                           /\ IsCompleted(AnyOf[x][index[x]])'
    BY <1>1, <1>2, <2>1, <2>2 DEF AnySound, AnyRight
  <2>. QED
    BY <2>3, <2>4 DEF AnyRight
<1>3. ASSUME NEW p \in Proxies, p # t
      PROVE  ProxyRight(p)'
  <2>1. p \in Tasks /\ Inner[p] \in Tasks /\ Outer[p] \in Tasks
    BY Disjoint, CombinatorsAssumption
  <2>2. \A k : Outstanding(k)' => Outstanding(k)
    BY <1>1 DEF Outstanding
  <2>3. IsCompleted(Inner[p]) => Inner[p] # t
    OBVIOUS
  <2>. QED
    BY <1>1, <1>3, <2>1, <2>2, <2>3 DEF ProxySound, ProxyRight
<1>. QED
  BY <1>2, <1>3

(* Steps that leave the coroutines and their continuations alone.          *)
LEMMA CoroutinesStay ==
  ASSUME CombInv, UNCHANGED <<step, phase, returned, scope>>,
         \A s \in Tasks : IsCompleted(s)' <=> IsCompleted(s),
         \A c \in Coroutines : c \in pool' <=> c \in pool,
         \A c \in Coroutines : \A s \in Tasks : c \in pending'[s] <=> c \in pending[s]
  PROVE  AwaitSound' /\ CallSound' /\ ResumedOnce'
<1>. USE DEF CombInv
<1>1. \A c \in Coroutines : Awaited(c)' = Awaited(c)
  BY DEF Awaited
<1>2. \A c \in Coroutines : phase[c] \in {"resume", "posted"} \/ c \in pool => Served(c)'
  BY <1>1, WaitsForTask DEF AwaitSound, Served
<1>. QED
  BY <1>1, <1>2, Disjoint DEF AwaitSound, CallSound, ResumedOnce

LEMMA AnyFacts ==
  ASSUME NEW x \in Anys, NEW n \in 1..Len(AnyOf[x])
  PROVE  /\ x \in Tasks /\ AnyOf[x][n] \in Tasks \ Futures
         /\ AnyContinuation(x, n) \in Continuations
         /\ AnyContinuation(x, n) \notin Coroutines
<1>1. AnyOf[x][n] \in Tasks \ Futures
  BY CombinatorsAssumption, ElementOfSeq
<1>. QED
  BY <1>1, Disjoint DEF Continuations

LEMMA ProxyFacts ==
  ASSUME NEW p \in Proxies
  PROVE  /\ p \in Tasks /\ Outer[p] \in Tasks \ Futures /\ Inner[p] \in Tasks \ Futures
         /\ OuterContinuation(p) \in Continuations /\ OuterContinuation(p) \notin Coroutines
         /\ InnerContinuation(p) \in Continuations /\ InnerContinuation(p) \notin Coroutines
BY Disjoint, CombinatorsAssumption DEF Continuations

LEMMA Unchanged ==
  ASSUME UNCHANGED <<index, opened>>, UNCHANGED tasks
  PROVE  /\ TaskSound => TaskSound'
         /\ AnySound => AnySound'
         /\ ProxySound => ProxySound'
BY DEF TaskSound, AnySound, AnyRight, ProxySound, ProxyRight, IsCompleted, Outstanding

-----------------------------------------------------------------------------
(* Steps that move a coroutine on, and nothing else.                       *)

LEMMA Moves ==
  ASSUME CombInv, NEW c \in Coroutines,
         NEW q \in {"suspend", "register", "detach", "detached", "posted", "resume"},
         phase' = [phase EXCEPT ![c] = q],
         phase[c] \notin {"new", "suspended", "done"},
         q \in {"suspend", "register", "detach"} => phase[c] \in {"run", "suspend"},
         step[c] <= Len(Program[c]),
         q \in {"suspend", "register"} => Awaited(c) \in Tasks \ Futures,
         q \in {"detach", "detached"} => Awaited(c) \in Futures,
         q \in {"resume", "posted"} => Served(c),
         returned' \in [Coroutines -> BOOLEAN],
         \A d \in Coroutines : d # c => returned'[d] = returned[d],
         returned[c] => returned'[c],
         q \in {"suspend", "register", "detach"} => returned'[c] = returned[c],
         capture' \in [Coroutines -> BOOLEAN],
         captured' \in [Coroutines -> Contexts],
         UNCHANGED <<tasks, step, failures, threading, combined>>
  PROVE  CombInv'
<1>. USE DEF CombInv
<1>1. phase' \in [Coroutines -> Phases] /\ phase'[c] = q
      /\ \A d \in Coroutines : d # c => phase'[d] = phase[d]
  BY DEF TypeOK, Phases
<1>2. TypeOK'
  BY <1>1 DEF TypeOK
<1>3. TaskSound' /\ AnySound' /\ ProxySound'
  BY Unchanged
<1>4. \A d \in Coroutines : Awaited(d)' = Awaited(d) /\ (Served(d)' <=> Served(d))
  BY DEF Awaited, Served, IsCompleted
<1>5. \A t \in Tasks : IsCompleted(t)' <=> IsCompleted(t)
  BY DEF IsCompleted
<1>6. AwaitSound'
  BY <1>1, <1>4, <1>5, Disjoint DEF AwaitSound
<1>7. CallSound'
  BY <1>1 DEF CallSound
<1>8. ResumedOnce'
  BY <1>1, <1>4, <1>5, Disjoint DEF ResumedOnce
<1>. QED
  BY <1>2, <1>3, <1>6, <1>7, <1>8

LEMMA EnterScopeInv == ASSUME CombInv, NEW c \in Roots, EnterScope(c), UNCHANGED combined
                       PROVE  CombInv'
<1>. USE DEF CombInv
<1>1. c \in Coroutines /\ phase[c] = "new"
  BY DEF Roots, CallSound, EnterScope
<1>2. phase' \in [Coroutines -> Phases] /\ phase'[c] = "run"
      /\ \A d \in Coroutines : d # c => phase'[d] = phase[d]
  BY <1>1 DEF TypeOK, Phases, EnterScope
<1>3. scope' \in [Coroutines -> {"before", "in", "after"}] /\ scope'[c] = "in"
      /\ \A d \in Coroutines : d # c => scope'[d] = scope[d]
  BY <1>1 DEF TypeOK, EnterScope
<1>4. TypeOK'
  <2>1. /\ current' \in Contexts /\ old' \in [Coroutines -> Contexts] /\ overlapped' \in BOOLEAN
    BY <1>1, AwaiterAssumption DEF TypeOK, EnterScope
  <2>. QED
    BY <1>2, <1>3, <2>1 DEF TypeOK, EnterScope
<1>5. TaskSound' /\ AnySound' /\ ProxySound'
  BY Unchanged DEF EnterScope
<1>6. \A d \in Coroutines : Awaited(d)' = Awaited(d) /\ (Served(d)' <=> Served(d))
  BY DEF Awaited, Served, IsCompleted, EnterScope
<1>7. \A t \in Tasks : IsCompleted(t)' <=> IsCompleted(t)
  BY DEF IsCompleted, EnterScope
<1>8. AwaitSound'
  BY <1>1, <1>2, <1>6, <1>7, Disjoint DEF AwaitSound, EnterScope, ResumedOnce
<1>9. CallSound'
  BY <1>1, <1>2, <1>3 DEF CallSound, EnterScope
<1>10. ResumedOnce'
  BY <1>1, <1>2, <1>6, <1>7, Disjoint DEF ResumedOnce, EnterScope
<1>. QED
  BY <1>4, <1>5, <1>8, <1>9, <1>10

LEMMA LeaveScopeInv == ASSUME CombInv, NEW c \in Roots, LeaveScope(c), UNCHANGED combined
                       PROVE  CombInv'
<1>. USE DEF CombInv, LeaveScope
<1>1. c \in Coroutines
  BY DEF Roots
<1>2. scope' \in [Coroutines -> {"before", "in", "after"}] /\ scope'[c] = "after"
      /\ \A d \in Coroutines : d # c => scope'[d] = scope[d]
  BY <1>1 DEF TypeOK
<1>3. TypeOK'
  BY <1>1, <1>2, AwaiterAssumption DEF TypeOK
<1>4. TaskSound' /\ AnySound' /\ ProxySound'
  BY Unchanged
<1>5. \A d \in Coroutines : Awaited(d)' = Awaited(d) /\ (Served(d)' <=> Served(d))
  BY DEF Awaited, Served, IsCompleted
<1>6. AwaitSound'
  BY <1>5 DEF AwaitSound, IsCompleted
<1>7. CallSound'
  BY <1>1, <1>2 DEF CallSound
<1>8. ResumedOnce'
  BY <1>5 DEF ResumedOnce, IsCompleted
<1>. QED
  BY <1>3, <1>4, <1>6, <1>7, <1>8

LEMMA CallCoroutineInv == ASSUME CombInv, NEW c \in Coroutines, CallCoroutine(c), UNCHANGED combined
                          PROVE  CombInv'
<1>. USE DEF CombInv, CallCoroutine
<1>. DEFINE d == Awaited(c)
<1>1. d \in Coroutines /\ phase[d] = "new" /\ d \notin Roots
  BY AwaitedFacts DEF Awaiting
<1>. HIDE DEF d
<1>2. phase' \in [Coroutines -> Phases] /\ phase'[d] = "run"
      /\ \A e \in Coroutines : e # d => phase'[e] = phase[e]
  BY <1>1 DEF TypeOK, Phases, d
<1>3. TypeOK'
  BY <1>2 DEF TypeOK
<1>4. TaskSound' /\ AnySound' /\ ProxySound'
  BY Unchanged
<1>5. \A e \in Coroutines : Awaited(e)' = Awaited(e) /\ (Served(e)' <=> Served(e))
  BY DEF Awaited, Served, IsCompleted
<1>6. \A t \in Tasks : IsCompleted(t)' <=> IsCompleted(t)
  BY DEF IsCompleted
<1>7. AwaitSound'
  BY <1>1, <1>2, <1>5, <1>6, Disjoint DEF AwaitSound, ResumedOnce
<1>8. CallSound'
  BY <1>1, <1>2 DEF CallSound
<1>9. ResumedOnce'
  BY <1>1, <1>2, <1>5, <1>6, Disjoint DEF ResumedOnce
<1>. QED
  BY <1>3, <1>4, <1>7, <1>8, <1>9

LEMMA MoveInv ==
  ASSUME CombInv, NEW c \in Coroutines, UNCHANGED combined,
         \/ CoAwait(c) \/ Suspend(c) \/ Wait(c) \/ CoAwaitFuture(c) \/ DetachThread(c)
         \/ ResumeByThread(c) \/ StayInThread(c) \/ SwitchToContext(c) \/ Post(c)
  PROVE  CombInv'
<1>. USE DEF CombInv, TypeOK
<1>1. ASSUME step[c] <= Len(Program[c])
      PROVE  /\ Awaited(c) \in Tasks \cup {Nobody}
             /\ Awaited(c) = Nobody <=> Way(c) \in {"scheduler", "thread", "context"}
             /\ Awaited(c) \in Futures => Way(c) = "plain"
             /\ Way(c) \in {"plain", "unconfigured"} /\ Awaited(c) \notin Futures
                  => Awaited(c) \in Tasks \ Futures
  BY <1>1, AwaitedFacts
<1>2. \A b \in BOOLEAN : /\ [returned EXCEPT ![c] = b] \in [Coroutines -> BOOLEAN]
                         /\ [capture EXCEPT ![c] = b] \in [Coroutines -> BOOLEAN]
  OBVIOUS
<1>3. \A x \in Contexts : [captured EXCEPT ![c] = x] \in [Coroutines -> Contexts]
  OBVIOUS
<1>4. IsReady(c) => Served(c)
  BY DEF IsReady, Served
<1>5. CASE CoAwait(c)
  <2>. DEFINE q == IF IsReady(c) THEN "resume" ELSE "suspend"
  <2>1. /\ phase[c] = "run" /\ step[c] <= Len(Program[c]) /\ Awaited(c) \in Tasks \ Futures
        /\ phase' = [phase EXCEPT ![c] = q]
        /\ capture' \in [Coroutines -> BOOLEAN]
        /\ UNCHANGED <<tasks, step, returned, failures, captured, threading>>
    <3>1. (Way(c) = "plain" /\ current # Default) \in BOOLEAN
      OBVIOUS
    <3>. QED
      BY <1>1, <1>2, <1>5, <3>1 DEF CoAwait, Asks, Awaiting
  <2>2. q \in {"suspend", "resume"} /\ (q = "resume" => Served(c))
    BY <1>4
  <2>. HIDE DEF q
  <2>. QED
    BY <2>1, <2>2, Moves
<1>6. CASE Suspend(c)
  <2>. DEFINE q == IF IsReady(c) THEN "resume" ELSE "register"
  <2>1. /\ phase[c] = "suspend" /\ step[c] <= Len(Program[c])
        /\ Awaited(c) \in Tasks \ Futures
        /\ phase' = [phase EXCEPT ![c] = q]
        /\ captured' \in [Coroutines -> Contexts]
        /\ UNCHANGED <<tasks, step, returned, failures, capture, threading>>
    BY <1>3, <1>6, AwaiterAssumption DEF Suspend, AwaitSound
  <2>2. q \in {"register", "resume"} /\ (q = "resume" => Served(c))
    BY <1>4
  <2>. HIDE DEF q
  <2>. QED
    BY <2>1, <2>2, Moves
<1>7. CASE CoAwaitFuture(c)
  <2>. DEFINE q == IF IsCompleted(Awaited(c)) THEN "resume" ELSE "detach"
  <2>1. /\ phase[c] = "run" /\ step[c] <= Len(Program[c]) /\ Awaited(c) \in Futures
        /\ phase' = [phase EXCEPT ![c] = q]
        /\ UNCHANGED <<tasks, step, returned, failures, awaiter, threading>>
    BY <1>7 DEF CoAwaitFuture, Asks, Awaiting
  <2>2. q \in {"detach", "resume"} /\ (q = "resume" => Served(c))
    BY DEF Served
  <2>. HIDE DEF q
  <2>. QED
    BY <2>1, <2>2, Moves
<1>8. CASE DetachThread(c)
  <2>. DEFINE q == IF IsCompleted(Awaited(c)) THEN "resume" ELSE "detached"
  <2>1. /\ phase[c] = "detach" /\ step[c] <= Len(Program[c]) /\ Awaited(c) \in Futures
        /\ phase' = [phase EXCEPT ![c] = q]
        /\ UNCHANGED <<tasks, step, failures, awaiter, threading>>
    BY <1>8 DEF DetachThread, AwaitSound
  <2>2. q \in {"detached", "resume"} /\ (q = "resume" => Served(c))
    BY DEF Served
  <2>3. /\ returned' \in [Coroutines -> BOOLEAN] /\ (returned[c] => returned'[c])
        /\ \A d \in Coroutines : d # c => returned'[d] = returned[d]
    <3>1. returned' = [returned EXCEPT ![c] = returned[c] \/ ~IsCompleted(Awaited(c))]
      BY <1>8 DEF DetachThread
    <3>2. (returned[c] \/ ~IsCompleted(Awaited(c))) \in BOOLEAN
      OBVIOUS
    <3>. HIDE DEF IsCompleted
    <3>. QED
      BY <3>1, <3>2
  <2>. HIDE DEF q
  <2>. QED
    BY <2>1, <2>2, <2>3, Moves
<1>9. CASE ResumeByThread(c)
  <2>1. step[c] <= Len(Program[c]) /\ Served(c)
    BY <1>9 DEF ResumeByThread, AwaitSound, Served
  <2>. QED
    BY <1>9, <2>1, Moves DEF ResumeByThread
<1>10. CASE Post(c)
  <2>1. step[c] <= Len(Program[c]) /\ Served(c)
    BY <1>10 DEF Post, AwaitSound, Served
  <2>. QED
    BY <1>10, <2>1, Moves DEF Post
<1>11. CASE Wait(c)
  <2>1. step[c] <= Len(Program[c]) /\ Served(c) /\ phase[c] = "run"
    BY <1>11 DEF Wait, Awaiting, Served
  <2>. QED
    BY <1>11, <2>1, Moves DEF Wait
<1>12. CASE StayInThread(c)
  <2>1. step[c] <= Len(Program[c]) /\ Served(c) /\ phase[c] = "run"
    BY <1>1, <1>12 DEF StayInThread, Awaiting, Served
  <2>. QED
    BY <1>12, <2>1, Moves DEF StayInThread
<1>13. CASE SwitchToContext(c)
  <2>1. step[c] <= Len(Program[c]) /\ Served(c) /\ phase[c] = "run"
    BY <1>1, <1>13 DEF SwitchToContext, Awaiting, Served
  <2>2. captured' \in [Coroutines -> Contexts]
    BY <1>13, <1>3 DEF SwitchToContext
  <2>3. /\ returned' \in [Coroutines -> BOOLEAN] /\ returned'[c]
        /\ \A d \in Coroutines : d # c => returned'[d] = returned[d]
    BY <1>13 DEF SwitchToContext
  <2>. QED
    BY <1>13, <2>1, <2>2, <2>3, Moves DEF SwitchToContext
<1>. QED
  BY <1>5, <1>6, <1>7, <1>8, <1>9, <1>10, <1>11, <1>12, <1>13

(* A coroutine registers its continuation, or is given to the scheduler.   *)
LEMMA Suspends ==
  ASSUME CombInv, NEW c \in Coroutines, phase[c] \in {"run", "register"},
         step[c] <= Len(Program[c]),
         phase' = [phase EXCEPT ![c] = "suspended"],
         returned' = [returned EXCEPT ![c] = TRUE],
         captured' \in [Coroutines -> Contexts],
         \/ /\ Awaited(c) \in Tasks \ Futures
            /\ AddContinuation(Awaited(c), c, {})
         \/ /\ Awaited(c) = Nobody
            /\ pool' = pool \cup {c} /\ UNCHANGED pending,
         UNCHANGED <<outcome, step, failures, capture, threading, combined>>
  PROVE  CombInv'
<1>. USE DEF CombInv
<1>1. /\ phase' \in [Coroutines -> Phases] /\ phase'[c] = "suspended"
      /\ \A d \in Coroutines : d # c => phase'[d] = phase[d]
  BY DEF TypeOK, Phases
<1>2. /\ returned' \in [Coroutines -> BOOLEAN] /\ returned'[c]
      /\ \A d \in Coroutines : d # c => returned'[d] = returned[d]
  BY DEF TypeOK
<1>3. c \in Continuations
  BY DEF Continuations
<1>4. \A t \in Tasks : IsCompleted(t)' <=> IsCompleted(t)
  BY DEF IsCompleted
<1>5. /\ pending' \in [Tasks -> SUBSET Continuations]
      /\ pool' \in SUBSET Continuations
      /\ TaskSound'
      /\ \A s \in Tasks : \A j : j \in pending'[s] <=>
           j \in pending[s] \/ (j = c /\ s = Awaited(c) /\ ~IsCompleted(s))
      /\ \A j : j \in pool' <=> j \in pool \/ (j = c /\ Served(c))
  <2>1. CASE Awaited(c) \in Tasks \ Futures /\ AddContinuation(Awaited(c), c, {})
    <3>1. Awaited(c) # Nobody
      BY <2>1, Disjoint
    <3>. QED
      BY <1>3, <2>1, <3>1, AddFacts DEF Served
  <2>2. CASE Awaited(c) = Nobody /\ pool' = pool \cup {c} /\ UNCHANGED pending
    <3>1. \A s \in Tasks : s # Nobody
      BY Disjoint
    <3>. QED
      BY <1>3, <1>4, <2>2, <3>1 DEF Served, TypeOK, TaskSound
  <2>. QED
    BY <2>1, <2>2
<1>6. TypeOK'
  BY <1>1, <1>2, <1>5 DEF TypeOK
<1>7. \A d \in Coroutines : Awaited(d)' = Awaited(d) /\ (Served(d)' <=> Served(d))
  BY DEF Awaited, Served, IsCompleted
<1>8. AwaitSound'
  BY <1>1, <1>4, <1>5, <1>7, Disjoint DEF AwaitSound
<1>9. CallSound'
  BY <1>1, <1>2 DEF CallSound
<1>10. ResumedOnce'
  <2>1. c \in pool' \/ \E t \in Tasks : c \in pending'[t]
    BY <1>5 DEF Served
  <2>2. c \notin pool /\ \A t \in Tasks : c \notin pending[t]
    BY DEF ResumedOnce
  <2>3. \A t \in Tasks : c \in pending'[t] => c \notin pool'
    BY <1>5, <2>2, Disjoint DEF Served
  <2>. QED
    BY <1>1, <1>4, <1>5, <1>7, <2>1, <2>2, <2>3 DEF ResumedOnce
<1>11. AnySound'
  BY <1>4, <1>5, Disjoint, CombinatorsAssumption, ElementOfSeq DEF AnySound, AnyRight, IsCompleted
<1>12. ProxySound'
  BY <1>4, <1>5, Disjoint DEF ProxySound, ProxyRight, IsCompleted, Outstanding
<1>. QED
  BY <1>5, <1>6, <1>8, <1>9, <1>10, <1>11, <1>12

LEMMA SuspendInv ==
  ASSUME CombInv, NEW c \in Coroutines, UNCHANGED combined, Register(c) \/ SwitchToScheduler(c)
  PROVE  CombInv'
<1>1. CASE Register(c)
  <2>1. /\ phase[c] = "register" /\ step[c] <= Len(Program[c])
        /\ Awaited(c) \in Tasks \ Futures
    BY <1>1 DEF Register, CombInv, AwaitSound
  <2>2. captured' \in [Coroutines -> Contexts]
    BY <1>1 DEF Register, CombInv, TypeOK
  <2>. QED
    BY <1>1, <2>1, <2>2, Suspends DEF Register
<1>2. CASE SwitchToScheduler(c)
  <2>1. phase[c] = "run" /\ step[c] <= Len(Program[c]) /\ Awaited(c) = Nobody
    BY <1>2, AwaitedFacts DEF SwitchToScheduler, Awaiting, CombInv
  <2>2. captured' \in [Coroutines -> Contexts]
    BY <1>2, AwaiterAssumption DEF SwitchToScheduler, CombInv, TypeOK
  <2>. QED
    BY <1>2, <2>1, <2>2, Suspends DEF SwitchToScheduler
<1>. QED
  BY <1>1, <1>2

LEMMA RunContinuationInv ==
  ASSUME CombInv, NEW c \in Coroutines, UNCHANGED combined, RunContinuation(c)
  PROVE  CombInv'
<1>. USE DEF CombInv, RunContinuation
<1>. DEFINE q == IF captured[c] = Default THEN "resume" ELSE "posted"
<1>1. /\ phase[c] = "suspended" /\ Served(c) /\ step[c] <= Len(Program[c])
      /\ \A t \in Tasks : c \notin pending[t]
  BY DEF ResumedOnce, AwaitSound
<1>2. /\ phase' \in [Coroutines -> Phases] /\ phase'[c] \in {"resume", "posted"}
      /\ \A d \in Coroutines : d # c => phase'[d] = phase[d]
  <2>1. phase' = [phase EXCEPT ![c] = q] /\ q \in {"resume", "posted"}
    OBVIOUS
  <2>. HIDE DEF q
  <2>. QED
    BY <2>1 DEF TypeOK, Phases
<1>3. \A t \in Tasks : IsCompleted(t)' <=> IsCompleted(t)
  BY DEF IsCompleted
<1>4. \A j : j \in pool' <=> j \in pool /\ j # c
  OBVIOUS
<1>5. TypeOK'
  BY <1>2 DEF TypeOK
<1>6. TaskSound'
  BY <1>3 DEF TaskSound
<1>7. \A d \in Coroutines : Awaited(d)' = Awaited(d) /\ (Served(d)' <=> Served(d))
  BY DEF Awaited, Served, IsCompleted
<1>8. AwaitSound'
  BY <1>1, <1>2, <1>3, <1>4, <1>7, Disjoint DEF AwaitSound
<1>9. CallSound'
  BY <1>1, <1>2 DEF CallSound
<1>10. ResumedOnce'
  BY <1>1, <1>2, <1>3, <1>4, <1>7 DEF ResumedOnce
<1>11. AnySound'
  BY <1>4, Disjoint DEF AnySound, AnyRight, IsCompleted
<1>12. ProxySound'
  BY <1>4, Disjoint DEF ProxySound, ProxyRight, IsCompleted, Outstanding
<1>. QED
  BY <1>5, <1>6, <1>8, <1>9, <1>10, <1>11, <1>12

(* await_resume: on with the next await.                                   *)
LEMMA GoesOn ==
  ASSUME CombInv, NEW c \in Coroutines, phase[c] = "resume", GoOn(c),
         failures' \in [Coroutines -> Seq(Tasks)], UNCHANGED combined
  PROVE  CombInv'
<1>. USE DEF CombInv, GoOn
<1>1. /\ phase' \in [Coroutines -> Phases] /\ phase'[c] = "run"
      /\ \A d \in Coroutines : d # c => phase'[d] = phase[d]
  BY DEF TypeOK, Phases
<1>2. /\ step' \in [Coroutines -> Nat \ {0}] /\ step'[c] > 1
      /\ \A d \in Coroutines : d # c => step'[d] = step[d]
  <2>1. step[c] \in Nat \ {0} /\ step' = [step EXCEPT ![c] = step[c] + 1]
    BY DEF TypeOK
  <2>2. step[c] + 1 \in Nat \ {0} /\ step[c] + 1 > 1
    BY <2>1
  <2>. QED
    BY <2>1, <2>2 DEF TypeOK
<1>3. TypeOK'
  BY <1>1, <1>2 DEF TypeOK
<1>4. TaskSound' /\ AnySound' /\ ProxySound'
  BY Unchanged
<1>5. \A t \in Tasks : IsCompleted(t)' <=> IsCompleted(t)
  BY DEF IsCompleted
<1>6. \A d \in Coroutines : d # c => Awaited(d)' = Awaited(d) /\ (Served(d)' <=> Served(d))
  BY <1>2 DEF Awaited, Served, IsCompleted
<1>7. c \notin pool /\ \A t \in Tasks : c \notin pending[t]
  BY DEF ResumedOnce
<1>8. AwaitSound'
  BY <1>1, <1>2, <1>5, <1>6, <1>7, Disjoint DEF AwaitSound
<1>9. CallSound'
  BY <1>1, <1>2 DEF CallSound
<1>10. ResumedOnce'
  BY <1>1, <1>5, <1>6, <1>7 DEF ResumedOnce
<1>. QED
  BY <1>3, <1>4, <1>8, <1>9, <1>10

LEMMA GoOnInv ==
  ASSUME CombInv, NEW c \in Coroutines, UNCHANGED combined, Succeed(c) \/ Catch(c)
  PROVE  CombInv'
<1>1. CASE Succeed(c)
  BY <1>1, GoesOn DEF Succeed, CombInv, TypeOK
<1>2. CASE Catch(c)
  <2>1. Awaited(c) \in Tasks /\ Collector[c] \in Coroutines
    BY <1>2, WaitsForTask, AwaiterAssumption DEF Catch, Came
  <2>2. failures' = [failures EXCEPT ![Collector[c]] = Append(@, Awaited(c))]
    BY <1>2 DEF Catch
  <2>3. failures' \in [Coroutines -> Seq(Tasks)]
    BY <2>1, <2>2, AppendProperties DEF CombInv, TypeOK
  <2>. QED
    BY <1>2, <2>3, GoesOn DEF Catch
<1>. QED
  BY <1>1, <1>2

(* The end of a coroutine: its outcome is published at once.               *)
LEMMA FinishCompletes ==
  ASSUME CombInv, NEW c \in Coroutines, NEW o, Finish(c, o)
  PROVE  Complete(c, o, {}) /\ Done(c)
<1>1. CASE Publish(c, o)
  BY <1>1 DEF Publish
<1>2. CASE KeepPromise(c, o)
  <2>1. pending \in [Tasks -> SUBSET Continuations] /\ pending[c] = {} /\ c \in Tasks
    BY <1>2, Disjoint DEF KeepPromise, CombInv, TypeOK, TaskSound
  <2>2. [pending EXCEPT ![c] = {}] = pending
    BY <2>1
  <2>. QED
    BY <1>2, <2>1, <2>2 DEF KeepPromise, Complete
<1>. QED
  BY <1>1, <1>2 DEF Finish

LEMMA Finishes ==
  ASSUME CombInv, NEW c \in Coroutines, phase[c] \in {"run", "resume"},
         NEW o \in Settled, Finish(c, o), UNCHANGED combined
  PROVE  CombInv'
<1>. USE DEF CombInv
<1>1. Complete(c, o, {}) /\ Done(c)
  BY FinishCompletes
<1>2. c \in Tasks /\ c \notin Anys /\ c \notin Proxies /\ ~IsCompleted(c)
  BY Disjoint DEF AwaitSound
<1>3. /\ phase' \in [Coroutines -> Phases]
      /\ \A d \in Coroutines : phase'[d] = IF d = c THEN "done" ELSE phase[d]
  BY <1>1 DEF Done, TypeOK, Phases
<1>4. /\ returned' \in [Coroutines -> BOOLEAN] /\ returned'[c]
      /\ \A d \in Coroutines : d # c => returned'[d] = returned[d]
  BY <1>1 DEF Done, TypeOK
<1>5. UNCHANGED <<step, failures, awaiter, threading>>
  BY <1>1 DEF Done
<1>6. AwaitSound' /\ ResumedOnce'
  BY <1>1, <1>2, <1>3, <1>5, CompleteResumes
<1>7. AnySound' /\ ProxySound'
  BY <1>1, <1>2, CompleteAnswers DEF AnySound, ProxySound
<1>8. TypeOK' /\ TaskSound'
  BY <1>1, <1>2, <1>3, <1>4, <1>5, CompleteFacts DEF TypeOK
<1>9. CallSound'
  BY <1>3, <1>4, <1>5 DEF CallSound
<1>. QED
  BY <1>6, <1>7, <1>8, <1>9

LEMMA FinishInv ==
  ASSUME CombInv, NEW c \in Coroutines, UNCHANGED combined, Fail(c) \/ End(c)
  PROVE  CombInv'
<1>1. CASE Fail(c)
  <2>1. Came(c) \in Settled
    BY <1>1, WaitsForTask DEF Fail, Came, CombInv, AwaitSound, Served, IsCompleted, TypeOK
  <2>. QED
    BY <1>1, <2>1, Finishes DEF Fail
<1>2. CASE End(c)
  <2>1. PICK o \in Ends[c] : Finish(c, IF failures[c] = <<>> THEN o ELSE "error")
    BY <1>2 DEF End
  <2>2. (IF failures[c] = <<>> THEN o ELSE "error") \in Settled
    BY AwaiterAssumption DEF Settled
  <2>. QED
    BY <1>2, <2>1, <2>2, Finishes DEF End
<1>. QED
  BY <1>1, <1>2

LEMMA SettleInv ==
  ASSUME CombInv, NEW s \in Sources, Settle(s), UNCHANGED combined
  PROVE  CombInv'
<1>. USE DEF CombInv
<1>1. PICK o \in Outcomes[s] : Complete(s, o, {})
  BY DEF Settle
<1>2. o \in Settled /\ s \in Tasks /\ ~IsCompleted(s)
  BY AwaiterAssumption, Disjoint DEF Settle
<1>3. s \notin Anys /\ s \notin Proxies /\ s \notin Coroutines
  BY Disjoint
<1>4. UNCHANGED <<coroutine, awaiter, threading>>
  BY DEF Settle
<1>5. AwaitSound' /\ ResumedOnce'
  BY <1>1, <1>2, <1>3, <1>4, CompleteResumes
<1>6. AnySound' /\ ProxySound'
  BY <1>1, <1>2, <1>3, CompleteAnswers DEF AnySound, ProxySound
<1>7. TypeOK' /\ TaskSound'
  BY <1>1, <1>2, <1>4, CompleteFacts DEF TypeOK
<1>8. CallSound'
  BY <1>4 DEF CallSound
<1>. QED
  BY <1>5, <1>6, <1>7, <1>8

-----------------------------------------------------------------------------
(* The combinators.                                                        *)

LEMMA WaitAnyTaskInv == ASSUME CombInv, NEW x \in Anys, WaitAnyTask(x)
                        PROVE  CombInv'
<1>. USE DEF CombInv, WaitAnyTask
<1>. DEFINE n == next[x]
            k == AnyContinuation(x, n)
            t == AnyOf[x][n]
<1>1. n \in 1..Len(AnyOf[x])
  <2>1. Len(AnyOf[x]) \in Nat
    BY CombinatorsAssumption, LenProperties
  <2>. QED
    BY <2>1 DEF TypeOK
<1>2. t \in Tasks \ Futures /\ k \in Continuations /\ k \notin Coroutines
  BY <1>1, AnyFacts
<1>3. next' \in [Anys -> Nat \ {0}]
  <2>1. next[x] + 1 \in Nat \ {0} /\ next' = [next EXCEPT ![x] = next[x] + 1]
    BY <1>1
  <2>. QED
    BY <2>1 DEF TypeOK
<1>4. AddContinuation(t, k, {}) /\ UNCHANGED <<outcome, coroutine, awaiter, threading, index, opened>>
  OBVIOUS
<1>. HIDE DEF k, t, n, WaitAnyTask
<1>5. /\ pending' \in [Tasks -> SUBSET Continuations]
      /\ pool' \in SUBSET Continuations
      /\ TaskSound'
      /\ \A s \in Tasks : IsCompleted(s)' <=> IsCompleted(s)
      /\ \A s \in Tasks : \A j : j \in pending'[s] <=> j \in pending[s] \/ (j = k /\ s = t /\ ~IsCompleted(t))
      /\ \A j : j \in pool' <=> j \in pool \/ (j = k /\ IsCompleted(t))
  BY <1>2, <1>4, AddFacts
<1>6. TypeOK'
  BY <1>3, <1>4, <1>5 DEF TypeOK
<1>7. AwaitSound' /\ CallSound' /\ ResumedOnce'
  BY <1>2, <1>4, <1>5, CoroutinesStay
<1>8. ASSUME NEW y \in Anys PROVE AnyRight(y)'
  <2>1. ASSUME NEW m \in 1..Len(AnyOf[y])
        PROVE  /\ \A s \in Tasks : AnyContinuation(y, m) \in pending'[s] => s = AnyOf[y][m]
               /\ AnyContinuation(y, m) \in pool' => IsCompleted(AnyOf[y][m])'
    <3>1. AnyContinuation(y, m) = k => AnyOf[y][m] = t
      BY Distinct DEF k, t
    <3>2. AnyOf[y][m] \in Tasks
      BY AnyFacts
    <3>. QED
      BY <1>5, <3>1, <3>2 DEF AnySound, AnyRight
  <2>2. IsCompleted(y)' => /\ index'[y] \in 1..Len(AnyOf[y])
                           /\ IsCompleted(AnyOf[y][index[y]])'
    BY <1>4 DEF AnySound, AnyRight, IsCompleted
  <2>. QED
    BY <2>1, <2>2 DEF AnyRight
<1>9. ASSUME NEW p \in Proxies PROVE ProxyRight(p)'
  <2>1. k # OuterContinuation(p) /\ k # InnerContinuation(p)
    BY Distinct DEF k
  <2>2. /\ Outstanding(OuterContinuation(p))' <=> Outstanding(OuterContinuation(p))
        /\ Outstanding(InnerContinuation(p))' <=> Outstanding(InnerContinuation(p))
    BY <1>5, <2>1 DEF Outstanding
  <2>. QED
    BY <1>4, <1>5, <2>1, <2>2 DEF ProxySound, ProxyRight, IsCompleted
<1>. QED
  BY <1>5, <1>6, <1>7, <1>8, <1>9 DEF AnySound, ProxySound

LEMMA TrySetIndexInv ==
  ASSUME CombInv, NEW x \in Anys, NEW n \in 1..Len(AnyOf[x]), TrySetIndex(x, n)
  PROVE  CombInv'
<1>. USE DEF CombInv
<1>. DEFINE k == AnyContinuation(x, n)
<1>1. /\ k \notin Coroutines /\ x \in Tasks /\ AnyOf[x][n] \in Tasks
      /\ x \notin Coroutines /\ x \notin Proxies
  BY AnyFacts, Disjoint
<1>2. UNCHANGED <<coroutine, awaiter, threading, next, opened>>
  BY DEF TrySetIndex
<1>3. k \in pool /\ IsCompleted(AnyOf[x][n])
  BY DEF TrySetIndex, AnySound, AnyRight
<1>4. CASE IsCompleted(x)
  <2>1. pool' = pool \ {k} /\ UNCHANGED <<outcome, pending, index>>
    BY <1>4 DEF TrySetIndex
  <2>. HIDE DEF k
  <2>2. TypeOK' /\ TaskSound'
    BY <1>2, <2>1 DEF TypeOK, TaskSound, IsCompleted
  <2>3. AwaitSound' /\ CallSound' /\ ResumedOnce'
    BY <1>1, <1>2, <2>1, CoroutinesStay DEF IsCompleted
  <2>4. AnySound'
    BY <2>1 DEF AnySound, AnyRight, IsCompleted
  <2>5. ASSUME NEW p \in Proxies PROVE ProxyRight(p)'
    <3>1. k # OuterContinuation(p) /\ k # InnerContinuation(p)
      BY Distinct DEF k
    <3>. QED
      BY <1>2, <2>1, <3>1 DEF ProxySound, ProxyRight, IsCompleted, Outstanding
  <2>. QED
    BY <2>2, <2>3, <2>4, <2>5 DEF ProxySound
<1>5. CASE ~IsCompleted(x)
  <2>1. Complete(x, "result", {k}) /\ index' = [index EXCEPT ![x] = n]
    BY <1>5 DEF TrySetIndex
  <2>2. {k} \cap Coroutines = {} /\ "result" \in Settled
    BY <1>1 DEF Settled
  <2>. HIDE DEF k
  <2>3. index' \in [Anys -> Nat] /\ index'[x] = n /\ \A y \in Anys : y # x => index'[y] = index[y]
    BY <2>1 DEF TypeOK
  <2>4. TypeOK' /\ TaskSound'
    BY <1>1, <1>2, <2>1, <2>2, <2>3, CompleteFacts DEF TypeOK
  <2>5. AwaitSound' /\ ResumedOnce'
    BY <1>1, <1>2, <1>5, <2>1, <2>2, CompleteResumes
  <2>6. CallSound'
    BY <1>2 DEF CallSound
  <2>7. ProxySound' /\ \A y \in Anys : y # x => AnyRight(y)'
    BY <1>1, <1>2, <1>5, <2>1, <2>2, <2>3, CompleteAnswers DEF ProxySound
  <2>8. AnyRight(x)'
    <3>1. /\ \A s \in Tasks : IsCompleted(s)' <=> IsCompleted(s) \/ s = x
          /\ \A s \in Tasks : \A j : j \in pending'[s] <=> s # x /\ j \in pending[s]
          /\ \A j : j \in pool' => j \in pool \/ j \in pending[x]
      BY <1>1, <2>1, <2>2, CompleteFacts
    <3>2. \A m \in 1..Len(AnyOf[x]) : AnyOf[x][m] \in Tasks
      BY AnyFacts
    <3>3. IsCompleted(AnyOf[x][index[x]])'
      BY <1>1, <1>3, <2>3, <3>1
    <3>. QED
      BY <1>1, <2>3, <3>1, <3>2, <3>3 DEF AnySound, AnyRight
  <2>. QED
    BY <2>4, <2>5, <2>6, <2>7, <2>8 DEF AnySound
<1>. QED
  BY <1>4, <1>5

(* A continuation of a proxy is registered, in the place of another one.   *)
LEMMA ProxyRegisters ==
  ASSUME CombInv, NEW p \in Proxies, ~IsCompleted(p), p \in opened', NEW k, NEW t, NEW ran,
         \/ /\ k = OuterContinuation(p) /\ t = Outer[p] /\ ran = {}
            /\ p \notin opened
         \/ /\ k = InnerContinuation(p) /\ t = Inner[p] /\ ran = {OuterContinuation(p)}
            /\ OuterContinuation(p) \in pool,
         AddContinuation(t, k, ran), opened \subseteq opened', opened' \in SUBSET Proxies,
         UNCHANGED <<outcome, coroutine, awaiter, threading, next, index>>
  PROVE  CombInv'
<1>. USE DEF CombInv
<1>1. /\ t \in Tasks \ Futures /\ k \in Continuations /\ k \notin Coroutines
      /\ ran \cap Coroutines = {}
      /\ k \in {OuterContinuation(p), InnerContinuation(p)} /\ ran \subseteq {OuterContinuation(p)}
  BY ProxyFacts
<1>2. /\ pending' \in [Tasks -> SUBSET Continuations]
      /\ pool' \in SUBSET Continuations
      /\ TaskSound'
      /\ \A s \in Tasks : IsCompleted(s)' <=> IsCompleted(s)
      /\ \A s \in Tasks : \A j : j \in pending'[s] <=> j \in pending[s] \/ (j = k /\ s = t /\ ~IsCompleted(t))
      /\ \A j : j \in pool' <=> (j \in pool /\ j \notin ran) \/ (j = k /\ IsCompleted(t))
  BY <1>1, AddFacts
<1>3. TypeOK'
  BY <1>2 DEF TypeOK
<1>4. AwaitSound' /\ CallSound' /\ ResumedOnce'
  BY <1>1, <1>2, CoroutinesStay
<1>5. ASSUME NEW x \in Anys PROVE AnyRight(x)'
  <2>1. ASSUME NEW n \in 1..Len(AnyOf[x])
        PROVE  /\ \A s \in Tasks : AnyContinuation(x, n) \in pending'[s] => s = AnyOf[x][n]
               /\ AnyContinuation(x, n) \in pool' => IsCompleted(AnyOf[x][n])'
    <3>1. AnyContinuation(x, n) # k
      BY <1>1, Distinct
    <3>2. AnyOf[x][n] \in Tasks
      BY AnyFacts
    <3>. QED
      BY <1>2, <3>1, <3>2 DEF AnySound, AnyRight
  <2>2. IsCompleted(x)' => /\ index'[x] \in 1..Len(AnyOf[x])
                           /\ IsCompleted(AnyOf[x][index[x]])'
    BY DEF AnySound, AnyRight, IsCompleted
  <2>. QED
    BY <2>1, <2>2 DEF AnyRight
<1>6. ASSUME NEW q \in Proxies, q # p PROVE ProxyRight(q)'
  <2>1. /\ OuterContinuation(q) \notin ran \cup {k}
        /\ InnerContinuation(q) \notin ran \cup {k}
    BY <1>1, <1>6, Distinct
  <2>2. /\ Outstanding(OuterContinuation(q))' <=> Outstanding(OuterContinuation(q))
        /\ Outstanding(InnerContinuation(q))' <=> Outstanding(InnerContinuation(q))
    BY <1>2, <2>1 DEF Outstanding
  <2>. QED
    BY <1>2, <2>1, <2>2, ProxyFacts DEF ProxySound, ProxyRight, IsCompleted
<1>7. ProxyRight(p)'
  <2>1. OuterContinuation(p) # InnerContinuation(p)
    BY Distinct
  <2>2. ~IsCompleted(p)'
    BY <1>2, ProxyFacts
  <2>3. CASE k = OuterContinuation(p) /\ t = Outer[p] /\ ran = {} /\ p \notin opened
    <3>1. ~Outstanding(OuterContinuation(p)) /\ ~Outstanding(InnerContinuation(p))
      BY <2>3 DEF ProxySound, ProxyRight
    <3>. QED
      BY <1>2, <2>1, <2>2, <2>3, <3>1 DEF ProxyRight, Outstanding
  <2>4. CASE k = InnerContinuation(p) /\ t = Inner[p] /\ ran = {OuterContinuation(p)}
             /\ OuterContinuation(p) \in pool
    <3>1. /\ ~Outstanding(InnerContinuation(p))
          /\ \A s \in Tasks : OuterContinuation(p) \notin pending[s]
      BY <2>4 DEF ProxySound, ProxyRight, Outstanding
    <3>. QED
      BY <1>2, <2>1, <2>2, <2>4, <3>1, ProxyFacts DEF ProxyRight, Outstanding
  <2>. QED
    BY <2>3, <2>4
<1>. QED
  BY <1>2, <1>3, <1>4, <1>5, <1>6, <1>7 DEF AnySound, ProxySound

LEMMA UnwrapInv == ASSUME CombInv, NEW p \in Proxies, Unwrap(p)
                   PROVE  CombInv'
<1>1. ~IsCompleted(p) /\ p \in opened' /\ opened \subseteq opened' /\ opened' \in SUBSET Proxies
  BY DEF Unwrap, CombInv, TypeOK, ProxySound, ProxyRight
<1>. QED
  BY <1>1, ProxyRegisters DEF Unwrap

LEMMA OuterDoneInv == ASSUME CombInv, NEW p \in Proxies, OuterDone(p)
                      PROVE  CombInv'
<1>. USE DEF CombInv
<1>. DEFINE k == OuterContinuation(p)
<1>1. k \in pool /\ UNCHANGED <<outcome, coroutine, awaiter, threading, combined>>
  BY DEF OuterDone
<1>2. p \in opened /\ ~IsCompleted(p) /\ opened \in SUBSET Proxies
  BY <1>1 DEF ProxySound, ProxyRight, Outstanding, TypeOK
<1>3. CASE outcome[Outer[p]] = "result"
  BY <1>1, <1>2, <1>3, ProxyRegisters DEF OuterDone
<1>4. CASE outcome[Outer[p]] # "result"
  <2>1. pool' = pool \ {k} /\ UNCHANGED pending
    BY <1>4 DEF OuterDone
  <2>2. k \notin Coroutines
    BY ProxyFacts
  <2>. HIDE DEF k
  <2>3. TypeOK' /\ TaskSound'
    BY <1>1, <2>1 DEF TypeOK, TaskSound, IsCompleted
  <2>4. AwaitSound' /\ CallSound' /\ ResumedOnce'
    BY <1>1, <2>1, <2>2, CoroutinesStay DEF IsCompleted
  <2>5. AnySound'
    BY <1>1, <2>1 DEF AnySound, AnyRight, IsCompleted
  <2>6. ASSUME NEW q \in Proxies PROVE ProxyRight(q)'
    BY <1>1, <2>1 DEF ProxySound, ProxyRight, IsCompleted, Outstanding
  <2>. QED
    BY <2>3, <2>4, <2>5, <2>6 DEF ProxySound
<1>. QED
  BY <1>3, <1>4

LEMMA InnerDoneInv == ASSUME CombInv, NEW p \in Proxies, InnerDone(p)
                      PROVE  CombInv'
<1>. USE DEF CombInv
<1>. DEFINE k == InnerContinuation(p)
            o == outcome[Inner[p]]
<1>1. k \in pool /\ Complete(p, o, {k}) /\ UNCHANGED <<coroutine, awaiter, threading, combined>>
  BY DEF InnerDone
<1>2. /\ ~IsCompleted(p) /\ IsCompleted(Inner[p]) /\ p \in opened
      /\ ~Outstanding(OuterContinuation(p)) /\ \A s \in Tasks : k \notin pending[s]
  BY <1>1 DEF ProxySound, ProxyRight, Outstanding
<1>3. p \in Tasks /\ Inner[p] \in Tasks /\ o \in Settled /\ k \notin Coroutines
  BY <1>2, ProxyFacts DEF TypeOK, IsCompleted
<1>4. p \notin Coroutines /\ p \notin Anys
  BY Disjoint
<1>. HIDE DEF k, o
<1>5. TypeOK' /\ TaskSound'
  BY <1>1, <1>3, CompleteFacts DEF TypeOK
<1>6. AwaitSound' /\ ResumedOnce'
  BY <1>1, <1>2, <1>3, <1>4, CompleteResumes
<1>7. CallSound'
  BY <1>1 DEF CallSound
<1>8. AnySound' /\ \A q \in Proxies : q # p => ProxyRight(q)'
  BY <1>1, <1>2, <1>3, <1>4, CompleteAnswers DEF AnySound
<1>9. ProxyRight(p)'
  <2>1. /\ \A s \in Tasks : IsCompleted(s)' <=> IsCompleted(s) \/ s = p
        /\ \A s \in Tasks : \A j : j \in pending'[s] <=> s # p /\ j \in pending[s]
        /\ \A j : j \in pool' <=> (j \in pool /\ j # k) \/ j \in pending[p]
        /\ outcome'[p] = o /\ \A s \in Tasks : s # p => outcome'[s] = outcome[s]
    BY <1>1, <1>3, CompleteFacts
  <2>2. ~Outstanding(OuterContinuation(p))' /\ ~Outstanding(k)'
    BY <1>2, <1>3, <2>1 DEF Outstanding
  <2>3. IsCompleted(Inner[p])' /\ outcome'[p] = outcome'[Inner[p]]
    BY <1>2, <1>3, <2>1 DEF o
  <2>. QED
    BY <1>1, <1>2, <2>2, <2>3 DEF ProxyRight, Outstanding, k
<1>. QED
  BY <1>5, <1>6, <1>7, <1>8, <1>9 DEF ProxySound

-----------------------------------------------------------------------------
LEMMA NextCombInv == CombInv /\ [Next]_vars => CombInv'
<1>. SUFFICES ASSUME CombInv, [Next]_vars PROVE CombInv'
  OBVIOUS
<1>1. ASSUME NEW s \in Sources, Settle(s), UNCHANGED combined PROVE CombInv'
  BY <1>1, SettleInv
<1>2. ASSUME NEW c \in Roots, EnterScope(c) \/ LeaveScope(c), UNCHANGED combined
      PROVE  CombInv'
  BY <1>2, EnterScopeInv, LeaveScopeInv
<1>3. ASSUME NEW c \in Coroutines, AwaitStep(c), UNCHANGED combined PROVE CombInv'
  BY <1>3, CallCoroutineInv, MoveInv, SuspendInv, RunContinuationInv, GoOnInv, FinishInv
  DEF AwaitStep
<1>4. ASSUME NEW x \in Anys, AnyStep(x) PROVE CombInv'
  BY <1>4, WaitAnyTaskInv, TrySetIndexInv DEF AnyStep
<1>5. ASSUME NEW p \in Proxies, Unwrap(p) \/ ProxyStep(p) PROVE CombInv'
  BY <1>5, UnwrapInv, OuterDoneInv, InnerDoneInv DEF ProxyStep
<1>6. CASE UNCHANGED vars
  <2>1. UNCHANGED <<tasks, coroutine, awaiter, threading, combined>>
    BY <1>6 DEF vars
  <2>2. TypeOK'
    BY <2>1 DEF CombInv, TypeOK
  <2>3. TaskSound' /\ AnySound' /\ ProxySound'
    BY <2>1, Unchanged DEF CombInv
  <2>4. AwaitSound' /\ CallSound' /\ ResumedOnce'
    BY <2>1, CoroutinesStay DEF IsCompleted
  <2>. QED
    BY <2>2, <2>3, <2>4 DEF CombInv
<1>. QED
  BY <1>1, <1>2, <1>3, <1>4, <1>5, <1>6 DEF Next, Runtime

THEOREM CombinatorsInvariant == Spec => []CombInv
<1>. QED
  BY InitCombInv, NextCombInv, PTL DEF Spec

(* Nothing is resumed twice, or too early, and no continuation is lost.    *)
THEOREM CoroutinesResumedOnce == Spec => []ResumedOnce
<1>1. CombInv => ResumedOnce
  BY DEF CombInv
<1>. QED
  BY <1>1, CombinatorsInvariant, PTL

-----------------------------------------------------------------------------
(* The contexts.  As long as the scopes do not overlap, _current is that   *)
(* of the only thread that is in one; a coroutine that has not been        *)
(* suspended yet is in its scope, and sees it.                             *)

ScopeSound ==
  ~overlapped =>
    /\ \A c \in Roots : scope[c] = "in" =>
         /\ old[c] = Default /\ current = Scope[c]
         /\ \A d \in Roots : scope[d] = "in" => d = c
    /\ (\A c \in Roots : scope[c] # "in") => current = Default

ContextAt(c) ==
  ~overlapped =>
    /\ step[c] = 1 /\ phase[c] = "suspend" =>
         capture[c] = (Way(c) = "plain" /\ Scope[c] # Default)
    /\ FirstAwait(c) =>
         captured[c] = IF Captures(c) \/ Way(c) = "context" THEN Scope[c] ELSE Default

ContextInv == CombInv /\ ScopeSound /\ \A c \in Roots : ContextAt(c)

LEMMA ContextStays ==
  ASSUME ContextInv, NEW c \in Roots,
         UNCHANGED <<overlapped, settings>>,
         \/ UNCHANGED <<step[c], phase[c], capture[c], captured[c]>>
         \/ phase'[c] \notin {"suspend", "register", "suspended", "posted"}
         \/ /\ UNCHANGED <<step[c], captured[c]>>
            /\ phase[c] \in {"register", "suspended"}
            /\ phase'[c] \in {"suspended", "posted"}
  PROVE  ContextAt(c)'
<1>. USE DEF ContextInv
<1>1. CASE UNCHANGED <<step[c], phase[c], capture[c], captured[c]>>
  <2>1. /\ Way(c)' = Way(c) /\ Awaited(c)' = Awaited(c) /\ Captures(c)' = Captures(c)
        /\ FirstAwait(c)' = FirstAwait(c)
    BY <1>1 DEF Way, Awaited, Captures, FirstAwait
  <2>. QED
    BY <1>1, <2>1 DEF ContextAt
<1>2. CASE phase'[c] \notin {"suspend", "register", "suspended", "posted"}
  BY <1>2 DEF ContextAt, FirstAwait
<1>3. CASE /\ UNCHANGED <<step[c], captured[c]>>
           /\ phase[c] \in {"register", "suspended"}
           /\ phase'[c] \in {"suspended", "posted"}
  <2>1. /\ Way(c)' = Way(c) /\ Awaited(c)' = Awaited(c) /\ Captures(c)' = Captures(c)
        /\ FirstAwait(c)' = FirstAwait(c)
    BY <1>3 DEF Way, Awaited, Captures, FirstAwait
  <2>. QED
    BY <1>3, <2>1 DEF ContextAt
<1>. QED
  BY <1>1, <1>2, <1>3

(* Nobody but c moves, and the threads stay where they are.                *)
LEMMA ContextKeeps ==
  ASSUME ContextInv, NEW c \in Coroutines, CombInv', UNCHANGED threading,
         \A d \in Coroutines : d # c => UNCHANGED <<step[d], phase[d], capture[d], captured[d]>>,
         c \in Roots => ContextAt(c)'
  PROVE  ContextInv'
<1>. USE DEF ContextInv
<1>1. ScopeSound'
  BY DEF ScopeSound
<1>2. ASSUME NEW d \in Roots PROVE ContextAt(d)'
  <2>1. d \in Coroutines
    BY DEF Roots
  <2>2. CASE d = c
    BY <2>2
  <2>3. CASE d # c
    BY <2>1, <2>3, ContextStays
  <2>. QED
    BY <2>2, <2>3
<1>. QED
  BY <1>1, <1>2

(* The thread that calls a coroutine sees its context until it returns.    *)
LEMMA SeesScope ==
  ASSUME ContextInv, NEW c \in Roots, ~overlapped, step[c] = 1,
         phase[c] \in {"run", "suspend"}
  PROVE  current = Scope[c]
<1>1. c \in Coroutines
  BY DEF Roots
<1>2. scope[c] = "in"
  BY <1>1 DEF ContextInv, CombInv, CallSound
<1>. QED
  BY <1>2 DEF ContextInv, ScopeSound

LEMMA CoAwaitContext ==
  ASSUME ContextInv, NEW c \in Coroutines, CoAwait(c), UNCHANGED combined
  PROVE  ContextInv'
<1>. USE DEF CoAwait, Asks, Awaiting
<1>1. CombInv'
  BY MoveInv DEF ContextInv
<1>2. /\ phase'[c] \in {"resume", "suspend"}
      /\ capture'[c] = (Way(c) = "plain" /\ current # Default)
      /\ \A d \in Coroutines : d # c => UNCHANGED <<phase[d], capture[d]>>
  BY DEF ContextInv, CombInv, TypeOK
<1>3. ASSUME c \in Roots PROVE ContextAt(c)'
  <2>1. Way(c)' = Way(c)
    BY DEF Way
  <2>2. ~overlapped /\ step[c] = 1 => current = Scope[c]
    BY <1>3, SeesScope
  <2>. QED
    BY <1>2, <2>1, <2>2 DEF ContextAt, FirstAwait
<1>. QED
  BY <1>1, <1>2, <1>3, ContextKeeps

LEMMA SuspendContext ==
  ASSUME ContextInv, NEW c \in Coroutines, Suspend(c), UNCHANGED combined
  PROVE  ContextInv'
<1>. USE DEF Suspend
<1>1. CombInv'
  BY MoveInv DEF ContextInv
<1>2. /\ phase'[c] \in {"resume", "register"}
      /\ captured'[c] = IF ContinuesInContext(c) THEN current ELSE Default
      /\ \A d \in Coroutines : d # c => UNCHANGED <<phase[d], captured[d]>>
  BY DEF ContextInv, CombInv, TypeOK
<1>3. ASSUME c \in Roots PROVE ContextAt(c)'
  <2>1. /\ Way(c)' = Way(c) /\ Captures(c)' = Captures(c)
        /\ FirstAwait(c)' => step[c] = 1
    BY DEF Way, Awaited, Captures, FirstAwait
  <2>2. ~overlapped /\ step[c] = 1 => current = Scope[c]
    BY <1>3, SeesScope
  <2>3. Awaited(c) \in Tasks \ Futures /\ Way(c) # "context"
    BY AwaitedFacts, Disjoint DEF ContextInv, CombInv, AwaitSound
  <2>4. ~overlapped /\ step[c] = 1 => capture[c] = (Way(c) = "plain" /\ Scope[c] # Default)
    BY <1>3 DEF ContextInv, ContextAt
  <2>5. ~overlapped /\ step[c] = 1 =>
          captured'[c] = IF Captures(c) THEN Scope[c] ELSE Default
    BY <1>2, <2>2, <2>3, <2>4 DEF ContinuesInContext, Captures
  <2>. QED
    BY <1>2, <2>1, <2>3, <2>5 DEF ContextAt
<1>. QED
  BY <1>1, <1>2, <1>3, ContextKeeps

LEMMA SwitchContext ==
  ASSUME ContextInv, NEW c \in Coroutines, UNCHANGED combined,
         SwitchToScheduler(c) \/ SwitchToContext(c)
  PROVE  ContextInv'
<1>. USE DEF SwitchToScheduler, SwitchToContext, Awaiting
<1>1. CombInv'
  BY MoveInv, SuspendInv DEF ContextInv
<1>2. /\ phase'[c] \in {"suspended", "posted"}
      /\ captured'[c] = IF Way(c) = "context" THEN current ELSE Default
      /\ \A d \in Coroutines : d # c => UNCHANGED <<phase[d], captured[d]>>
  BY DEF ContextInv, CombInv, TypeOK
<1>3. ASSUME c \in Roots PROVE ContextAt(c)'
  <2>1. /\ Way(c)' = Way(c) /\ Captures(c)' = Captures(c)
        /\ FirstAwait(c)' => step[c] = 1
    BY DEF Way, Awaited, Captures, FirstAwait
  <2>2. ~overlapped /\ step[c] = 1 => current = Scope[c]
    BY <1>3, SeesScope
  <2>. QED
    BY <1>2, <2>1, <2>2 DEF ContextAt, Captures
<1>. QED
  BY <1>1, <1>2, <1>3, ContextKeeps

(* The other steps: nothing is captured.                                   *)
LEMMA MoveContext ==
  ASSUME ContextInv, CombInv', NEW c \in Coroutines, UNCHANGED threading,
         NEW d \in Coroutines, NEW q,
         phase' = [phase EXCEPT ![d] = q],
         \/ q \notin {"suspend", "register", "suspended", "posted"}
         \/ phase[d] \in {"register", "suspended"} /\ q \in {"suspended", "posted"} /\ UNCHANGED step,
         \A e \in Coroutines : e # d => UNCHANGED step[e],
         UNCHANGED awaiter
  PROVE  ContextInv'
<1>1. phase'[d] = q /\ \A e \in Coroutines : e # d => phase'[e] = phase[e]
  BY DEF ContextInv, CombInv, TypeOK
<1>2. d \in Roots => ContextAt(d)'
  BY <1>1, ContextStays
<1>. QED
  BY <1>1, <1>2, ContextKeeps

LEMMA AwaitContext ==
  ASSUME ContextInv, NEW c \in Coroutines, AwaitStep(c), UNCHANGED combined
  PROVE  ContextInv'
<1>0. CombInv'
  BY NextCombInv DEF ContextInv, Next, Runtime
<1>1. CASE CoAwait(c) \/ Suspend(c) \/ SwitchToScheduler(c) \/ SwitchToContext(c)
  BY <1>1, CoAwaitContext, SuspendContext, SwitchContext
<1>2. CASE CallCoroutine(c)
  BY <1>0, <1>2, MoveContext DEF CallCoroutine
<1>3. CASE Register(c)
  BY <1>0, <1>3, MoveContext DEF Register
<1>4. CASE CoAwaitFuture(c)
  <2>. DEFINE q == IF IsCompleted(Awaited(c)) THEN "resume" ELSE "detach"
  <2>1. q \in {"resume", "detach"} /\ phase' = [phase EXCEPT ![c] = q]
    BY <1>4 DEF CoAwaitFuture
  <2>. HIDE DEF q
  <2>. QED
    BY <1>0, <1>4, <2>1, MoveContext DEF CoAwaitFuture
<1>5. CASE DetachThread(c)
  <2>. DEFINE q == IF IsCompleted(Awaited(c)) THEN "resume" ELSE "detached"
  <2>1. q \in {"resume", "detached"} /\ phase' = [phase EXCEPT ![c] = q]
    BY <1>5 DEF DetachThread
  <2>. HIDE DEF q
  <2>. QED
    BY <1>0, <1>5, <2>1, MoveContext DEF DetachThread
<1>6. CASE RunContinuation(c)
  <2>. DEFINE q == IF captured[c] = Default THEN "resume" ELSE "posted"
  <2>1. q \in {"resume", "posted"} /\ phase' = [phase EXCEPT ![c] = q]
    BY <1>6 DEF RunContinuation
  <2>2. phase[c] = "suspended"
    BY <1>6 DEF RunContinuation, ContextInv, CombInv, ResumedOnce
  <2>. HIDE DEF q
  <2>. QED
    BY <1>0, <1>6, <2>1, <2>2, MoveContext DEF RunContinuation
<1>7. CASE ResumeByThread(c) \/ StayInThread(c) \/ Wait(c) \/ Post(c)
  BY <1>0, <1>7, MoveContext DEF ResumeByThread, StayInThread, Wait, Post
<1>8. CASE Succeed(c) \/ Catch(c)
  <2>1. GoOn(c)
    BY <1>8 DEF Succeed, Catch
  <2>2. \A e \in Coroutines : e # c => step'[e] = step[e]
    BY <2>1 DEF GoOn, ContextInv, CombInv, TypeOK
  <2>. QED
    BY <1>0, <2>1, <2>2, MoveContext DEF GoOn
<1>9. CASE Fail(c) \/ End(c)
  <2>1. \E o : Finish(c, o)
    BY <1>9 DEF Fail, End
  <2>2. Done(c)
    BY <2>1 DEF Finish, Publish, KeepPromise
  <2>. QED
    BY <1>0, <2>2, MoveContext DEF Done
<1>. QED
  BY <1>1, <1>2, <1>3, <1>4, <1>5, <1>6, <1>7, <1>8, <1>9 DEF AwaitStep

(* Steps of the tasks.                                                     *)
LEMMA SameContext ==
  ASSUME ContextInv, CombInv', UNCHANGED <<coroutine, awaiter, threading>>
  PROVE  ContextInv'
<1>1. ScopeSound'
  BY DEF ContextInv, ScopeSound
<1>2. \A c \in Roots : ContextAt(c)'
  BY ContextStays
<1>. QED
  BY <1>1, <1>2 DEF ContextInv

LEMMA EnterScopeContext ==
  ASSUME ContextInv, CombInv', NEW c \in Roots, EnterScope(c)
  PROVE  ContextInv'
<1>. USE DEF EnterScope
<1>0. c \in Coroutines
  BY DEF Roots
<1>1. /\ phase'[c] = "run" /\ scope'[c] = "in" /\ old'[c] = current
      /\ \A d \in Coroutines : d # c =>
           phase'[d] = phase[d] /\ scope'[d] = scope[d] /\ old'[d] = old[d]
  BY <1>0 DEF ContextInv, CombInv, TypeOK
<1>2. ~overlapped' => ~overlapped /\ \A d \in Roots : scope[d] # "in"
  BY DEF ContextInv, CombInv, TypeOK
<1>3. \A d \in Roots : d \in Coroutines
  BY DEF Roots
<1>4. ScopeSound'
  <2>1. ~overlapped' => current = Default
    BY <1>2 DEF ContextInv, ScopeSound
  <2>2. ~overlapped' => current' = Scope[c]
    BY <2>1
  <2>. QED
    BY <1>1, <1>2, <1>3, <2>1, <2>2 DEF ScopeSound
<1>5. ASSUME NEW d \in Roots PROVE ContextAt(d)'
  <2>1. CASE d = c
    BY <1>1, <2>1 DEF ContextAt, FirstAwait
  <2>2. CASE d # c
    <3>1. /\ Way(d)' = Way(d) /\ Awaited(d)' = Awaited(d) /\ Captures(d)' = Captures(d)
          /\ FirstAwait(d)' = FirstAwait(d)
      BY <1>1, <1>3, <2>2 DEF Way, Awaited, Captures, FirstAwait
    <3>. QED
      BY <1>1, <1>2, <1>3, <2>2, <3>1 DEF ContextAt, ContextInv
  <2>. QED
    BY <2>1, <2>2
<1>. QED
  BY <1>4, <1>5 DEF ContextInv

LEMMA LeaveScopeContext ==
  ASSUME ContextInv, CombInv', NEW c \in Roots, LeaveScope(c)
  PROVE  ContextInv'
<1>. USE DEF LeaveScope
<1>0. c \in Coroutines
  BY DEF Roots
<1>1. /\ scope'[c] = "after" /\ \A d \in Coroutines : d # c => scope'[d] = scope[d]
  BY <1>0 DEF ContextInv, CombInv, TypeOK
<1>2. ScopeSound'
  <2>1. ~overlapped => current' = Default /\ \A d \in Roots : scope[d] = "in" => d = c
    BY DEF ContextInv, ScopeSound
  <2>2. \A d \in Roots : d \in Coroutines
    BY DEF Roots
  <2>. QED
    BY <1>1, <2>1, <2>2 DEF ScopeSound
<1>3. \A d \in Roots : ContextAt(d)'
  BY ContextStays
<1>. QED
  BY <1>2, <1>3 DEF ContextInv

LEMMA InitContextInv == Init => ContextInv
<1>1. Init => CombInv
  BY InitCombInv
<1>2. Init => ScopeSound
  BY DEF Init, AwaiterInit, ScopeSound, Roots
<1>3. ASSUME Init, NEW c \in Roots PROVE ContextAt(c)
  BY <1>3 DEF Init, AwaiterInit, ContextAt, FirstAwait, Roots
<1>. QED
  BY <1>1, <1>2, <1>3 DEF ContextInv

LEMMA NextContextInv == ContextInv /\ [Next]_vars => ContextInv'
<1>. SUFFICES ASSUME ContextInv, [Next]_vars PROVE ContextInv'
  OBVIOUS
<1>0. CombInv'
  BY NextCombInv DEF ContextInv
<1>1. ASSUME NEW s \in Sources, Settle(s) PROVE ContextInv'
  BY <1>0, <1>1, SameContext DEF Settle
<1>2. ASSUME NEW c \in Roots, EnterScope(c) \/ LeaveScope(c) PROVE ContextInv'
  BY <1>0, <1>2, EnterScopeContext, LeaveScopeContext
<1>3. ASSUME NEW c \in Coroutines, AwaitStep(c), UNCHANGED combined PROVE ContextInv'
  BY <1>3, AwaitContext
<1>4. ASSUME NEW x \in Anys, AnyStep(x) PROVE ContextInv'
  BY <1>0, <1>4, SameContext DEF AnyStep, WaitAnyTask, TrySetIndex
<1>5. ASSUME NEW p \in Proxies, Unwrap(p) \/ ProxyStep(p) PROVE ContextInv'
  BY <1>0, <1>5, SameContext DEF Unwrap, ProxyStep, OuterDone, InnerDone
<1>6. CASE UNCHANGED vars
  BY <1>0, <1>6, SameContext DEF vars
<1>. QED
  BY <1>1, <1>2, <1>3, <1>4, <1>5, <1>6 DEF Next, Runtime

(* A coroutine goes on in the context it was called in, a scope leaves the *)
(* context as it was, while no two threads call at a time.                 *)
THEOREM CoroutinesKeepContext == Spec => []ContextKept
<1>1. ContextInv => ContextKept
  BY DEF ContextInv, ContextAt, ScopeSound, ContextKept
<1>. QED
  BY <1>1, InitContextInv, NextContextInv, PTL DEF Spec

-----------------------------------------------------------------------------
(* The outcomes.  A coroutine is past an await once it is over; helpers of *)
(* WhenAll never fail; what was caught is what failed so far.              *)

Past(c, n) == n < step[c] /\ Target(<<c, n>>) \in Tasks
Missed(c) == {p \in Collected(c) : p[2] < step[p[1]] /\ Failing(Target(p))}

PastSound ==
  \A c \in Coroutines : \A n \in 1..Len(Program[c]) : Past(c, n) =>
    /\ IsCompleted(Target(<<c, n>>))
    /\ Collector[c] = Nobody => ~Failing(Target(<<c, n>>))

HelpersSound ==
  \A c \in Coroutines : Collects(c) => \A e \in Helpers(c) :
    outcome[e] \in {"none", "result"} /\ failures[e] = <<>>

EndSound ==
  \A c \in Coroutines : IsCompleted(c) =>
    \/ /\ step[c] > Len(Program[c])
       /\ IF failures[c] # <<>> THEN outcome[c] = "error" ELSE outcome[c] \in Ends[c]
    \/ /\ step[c] <= Len(Program[c]) /\ Collector[c] = Nobody
       /\ Failing(Awaited(c)) /\ outcome[c] = outcome[Awaited(c)]

Counted == \A c \in Coroutines : /\ IsFiniteSet(Missed(c))
                                 /\ Len(failures[c]) = Cardinality(Missed(c))

OutcomeInv == CombInv /\ PastSound /\ HelpersSound /\ EndSound /\ Counted

LEMMA TargetIs == ASSUME NEW c, NEW n
                  PROVE  Target(<<c, n>>) = Program[c][n].task
BY DEF Target

LEMMA Points == \A p : p \in AwaitPoints <=>
                         \E d \in Coroutines : \E n \in 1..Len(Program[d]) : p = <<d, n>>
BY DEF AwaitPoints

LEMMA CollectedIs ==
  \A c, p : p \in Collected(c) <=>
    \E d \in Coroutines : \E n \in 1..Len(Program[d]) :
      p = <<d, n>> /\ Collector[d] = c /\ Target(<<d, n>>) \in Tasks
<1>. SUFFICES ASSUME NEW c, NEW p
              PROVE  p \in Collected(c) <=>
                       \E d \in Coroutines : \E n \in 1..Len(Program[d]) :
                         p = <<d, n>> /\ Collector[d] = c /\ Target(<<d, n>>) \in Tasks
  OBVIOUS
<1>1. p \in Collected(c) <=> p \in AwaitPoints /\ Collector[p[1]] = c /\ Target(p) \in Tasks
  BY DEF Collected
<1>2. ASSUME NEW d, NEW n, p = <<d, n>>
      PROVE  p[1] = d
  BY <1>2
<1>. HIDE DEF Target
<1>3. p \in AwaitPoints <=> \E d \in Coroutines : \E n \in 1..Len(Program[d]) : p = <<d, n>>
  BY Points
<1>. QED
  BY <1>1, <1>2, <1>3

(* A coroutine that awaits is past what it awaited before, not past this.  *)
LEMMA PastStays ==
  ASSUME CombInv, PastSound, UNCHANGED step,
         \A t \in Tasks : IsCompleted(t) => outcome'[t] = outcome[t]
  PROVE  /\ PastSound'
         /\ \A c \in Coroutines : Missed(c)' = Missed(c)
<1>1. ASSUME NEW c \in Coroutines, NEW n \in 1..Len(Program[c]), n < step[c]
      PROVE  Failing(Target(<<c, n>>))' <=> Failing(Target(<<c, n>>))
  <2>1. Target(<<c, n>>) \in Tasks => IsCompleted(Target(<<c, n>>))
    BY <1>1 DEF PastSound, Past
  <2>2. Target(<<c, n>>)' = Target(<<c, n>>)
    BY DEF Target
  <2>. QED
    BY <2>1, <2>2 DEF Failing
<1>2. PastSound'
  BY <1>1 DEF PastSound, Past, IsCompleted
<1>3. ASSUME NEW c \in Coroutines PROVE Missed(c)' = Missed(c)
  <2>1. ASSUME NEW p \in Collected(c)
        PROVE  (p[2] < step[p[1]] /\ Failing(Target(p)))' <=> p[2] < step[p[1]] /\ Failing(Target(p))
    <3>0. p \in AwaitPoints
      BY DEF Collected
    <3>1. PICK d \in Coroutines : \E n \in 1..Len(Program[d]) : p = <<d, n>>
      BY <3>0, Points
    <3>2. PICK n \in 1..Len(Program[d]) : p = <<d, n>>
      BY <3>1
    <3>3. p[1] = d /\ p[2] = n
      BY <3>2
    <3>. QED
      BY <1>1, <3>2, <3>3
  <2>. QED
    BY <2>1 DEF Missed, Collected
<1>. QED
  BY <1>2, <1>3

LEMMA AwaitsAt ==
  ASSUME NEW c \in Coroutines, NEW w \in Awaits(c)
  PROVE  \E n \in 1..Len(Program[c]) : w = Program[c][n]
<1>1. DOMAIN Program[c] = 1..Len(Program[c])
  BY AwaiterAssumption, LenProperties
<1>. QED
  BY <1>1 DEF Awaits, ToSet

LEMMA HelpersFacts ==
  ASSUME NEW c \in Coroutines, Collects(c)
  PROVE  /\ Collector[c] = Nobody
         /\ \A d \in Coroutines : Collector[d] = c => d \in Helpers(c)
         /\ \A e \in Helpers(c) \cup {c} : Collector[e] = Nobody =>
              \A w \in Awaits(e) : w.task \in Helpers(c)
         /\ \A e \in Helpers(c) : /\ e \in Coroutines /\ Ends[e] \subseteq {"result"}
                                  /\ \A d \in Coroutines : Collector[d] # e
         /\ \A e \in Helpers(c) \cup {c} : Calls(e) \subseteq Helpers(c)
<1>1. /\ Collector[c] = Nobody
      /\ \A d \in Coroutines : Collector[d] = c => d \in Helpers(c)
      /\ \A e \in Helpers(c) \cup {c} : Collector[e] = Nobody =>
           \A w \in Awaits(e) : w.task \in Helpers(c)
      /\ \A e \in Helpers(c) : /\ Ends[e] \subseteq {"result"}
                               /\ \A d \in Coroutines : Collector[d] # e
  BY HelpersAssumption
<1>2. \A e \in Helpers(c) : e \in Coroutines
  BY DEF Helpers
<1>3. \A e \in Helpers(c) \cup {c} : Calls(e) \subseteq Helpers(c)
  BY <1>1 DEF Calls
<1>. QED
  BY <1>1, <1>2, <1>3

(* What holds for the coroutines that WhenAll calls, and for what the ones *)
(* for which it holds call, holds for all its helpers.                     *)
LEMMA HelpersClosed ==
  ASSUME NEW c \in Coroutines, NEW S \in SUBSET Coroutines,
         \A e \in S \cup {c} : Calls(e) \subseteq S
  PROVE  Helpers(c) \subseteq S
BY DEF Helpers

(* A coroutine that ended well is past all its awaits.                     *)
LEMMA EndedPastAll ==
  ASSUME CombInv, PastSound, EndSound, NEW c \in Coroutines, IsCompleted(c),
         outcome[c] = "result" \/ Collector[c] # Nobody,
         NEW w \in Awaits(c), w.task \in Tasks
  PROVE  IsCompleted(w.task)
<1>1. step[c] > Len(Program[c])
  BY DEF EndSound, Failing
<1>2. PICK n \in 1..Len(Program[c]) : w = Program[c][n]
  BY AwaitsAt
<1>3. Len(Program[c]) \in Nat /\ step[c] \in Nat
  BY AwaiterAssumption, LenProperties DEF CombInv, TypeOK
<1>4. n < step[c]
  BY <1>1, <1>3
<1>. QED
  BY <1>2, <1>4, TargetIs DEF PastSound, Past

(* When all that WhenAll awaits is there, so is all that is awaited for it.*)
LEMMA HelpersDone ==
  ASSUME CombInv, PastSound, HelpersSound, EndSound,
         NEW c \in Coroutines, Collects(c), \A w \in Awaits(c) : IsCompleted(w.task)
  PROVE  \A d \in Helpers(c) : IsCompleted(d)
<1>. DEFINE S == {e \in Helpers(c) : IsCompleted(e)}
<1>1. S \in SUBSET Coroutines
  BY DEF Helpers
<1>2. Calls(c) \subseteq S
  BY HelpersFacts DEF Calls
<1>3. ASSUME NEW e \in S PROVE Calls(e) \subseteq S
  <2>1. e \in Coroutines /\ e \in Helpers(c) /\ outcome[e] = "result" /\ IsCompleted(e)
    BY <1>1 DEF HelpersSound, IsCompleted
  <2>2. ASSUME Collector[e] = Nobody, NEW w \in Awaits(e), w.task \in Coroutines
        PROVE  w.task \in S
    <3>1. w.task \in Helpers(c)
      BY <2>1, <2>2, HelpersFacts
    <3>2. w.task \in Tasks
      BY <2>2, Disjoint
    <3>. QED
      BY <2>1, <2>2, <3>1, <3>2, EndedPastAll
  <2>. QED
    BY <2>2 DEF Calls
<1>. QED
  BY <1>1, <1>2, <1>3, HelpersClosed

(* WhenAll ends after everything that is awaited for it.                   *)
LEMMA CollectedDone ==
  ASSUME CombInv, PastSound, HelpersSound, EndSound,
         NEW c \in Coroutines, IsCompleted(c), NEW d \in Coroutines, Collector[d] = c
  PROVE  IsCompleted(d)
<1>1. CASE d = c
  BY <1>1
<1>2. CASE d # c
  <2>1. Collects(c)
    BY <1>2 DEF Collects
  <2>2. ASSUME NEW w \in Awaits(c) PROVE IsCompleted(w.task)
    <3>1. PICK n \in 1..Len(Program[c]) : w = Program[c][n]
      BY AwaitsAt
    <3>2. w.task \in Helpers(c) /\ w.task \in Tasks /\ outcome[w.task] \in {"none", "result"}
      BY <2>1, HelpersFacts, Disjoint DEF HelpersSound
    <3>3. Len(Program[c]) \in Nat /\ step[c] \in Nat \ {0}
      BY AwaiterAssumption, LenProperties DEF CombInv, TypeOK
    <3>4. step[c] > Len(Program[c])
      <4>1. CASE step[c] <= Len(Program[c]) /\ outcome[c] = outcome[Awaited(c)] /\ Failing(Awaited(c))
        <5>1. step[c] \in 1..Len(Program[c]) /\ Program[c][step[c]] \in Awaits(c)
          BY <4>1, <3>3, AwaitFacts
        <5>2. Awaited(c) \in Helpers(c)
          BY <2>1, <5>1, HelpersFacts DEF Awaited
        <5>3. outcome[Awaited(c)] \in {"none", "result"}
          BY <2>1, <5>2 DEF HelpersSound
        <5>. QED
          BY <4>1, <5>3 DEF IsCompleted, Failing
      <4>. QED
        BY <4>1 DEF EndSound
    <3>5. n < step[c]
      BY <3>3, <3>4
    <3>. QED
      BY <3>1, <3>2, <3>5, TargetIs DEF PastSound, Past
  <2>3. \A e \in Helpers(c) : IsCompleted(e)
    BY <2>1, <2>2, HelpersDone
  <2>. QED
    BY <2>1, <2>3, HelpersFacts
<1>. QED
  BY <1>1, <1>2

-----------------------------------------------------------------------------
(* Steps in which no coroutine goes on to its next await, or ends.         *)
LEMMA OutcomesStay ==
  ASSUME OutcomeInv, CombInv', UNCHANGED <<step, failures>>,
         \A t \in Tasks : IsCompleted(t) => outcome'[t] = outcome[t],
         \A c \in Coroutines : outcome'[c] = outcome[c]
  PROVE  OutcomeInv'
<1>. USE DEF OutcomeInv
<1>1. PastSound' /\ \A c \in Coroutines : Missed(c)' = Missed(c)
  BY PastStays
<1>2. Counted'
  BY <1>1 DEF Counted
<1>3. HelpersSound'
  BY HelpersFacts DEF HelpersSound
<1>4. ASSUME NEW c \in Coroutines, IsCompleted(c)'
      PROVE  \/ /\ step'[c] > Len(Program[c])
                /\ IF failures'[c] # <<>> THEN outcome'[c] = "error" ELSE outcome'[c] \in Ends[c]
             \/ /\ step'[c] <= Len(Program[c]) /\ Collector[c] = Nobody
                /\ Failing(Awaited(c))' /\ outcome'[c] = outcome'[Awaited(c)]
  <2>1. IsCompleted(c) /\ Awaited(c)' = Awaited(c)
    BY <1>4 DEF IsCompleted, Awaited
  <2>2. Failing(Awaited(c)) /\ outcome[c] = outcome[Awaited(c)] =>
          Failing(Awaited(c))' /\ outcome'[c] = outcome'[Awaited(c)]
    BY <2>1 DEF Failing, IsCompleted
  <2>. QED
    BY <2>1, <2>2 DEF EndSound
<1>5. EndSound'
  BY <1>4 DEF EndSound, Awaited
<1>. QED
  BY <1>1, <1>2, <1>3, <1>5

(* A coroutine ends.                                                       *)
LEMMA OutcomesEnd ==
  ASSUME OutcomeInv, CombInv', NEW c \in Coroutines, ~IsCompleted(c), NEW o \in Settled,
         outcome' = [outcome EXCEPT ![c] = o], UNCHANGED <<step, failures>>,
         \/ /\ step[c] > Len(Program[c])
            /\ IF failures[c] # <<>> THEN o = "error" ELSE o \in Ends[c]
         \/ /\ step[c] <= Len(Program[c]) /\ Collector[c] = Nobody
            /\ Failing(Awaited(c)) /\ IsCompleted(Awaited(c)) /\ o = outcome[Awaited(c)]
  PROVE  OutcomeInv'
<1>. USE DEF OutcomeInv
<1>1. /\ c \in Tasks /\ outcome'[c] = o
      /\ \A t \in Tasks : t # c => outcome'[t] = outcome[t]
  BY Disjoint DEF CombInv, TypeOK
<1>2. \A t \in Tasks : IsCompleted(t) => outcome'[t] = outcome[t]
  BY <1>1
<1>3. PastSound' /\ \A d \in Coroutines : Missed(d)' = Missed(d)
  BY <1>2, PastStays
<1>4. Counted'
  BY <1>3 DEF Counted
<1>5. HelpersSound'
  <2>1. ASSUME NEW d \in Coroutines, Collects(d), c \in Helpers(d)
        PROVE  o = "result"
    <3>1. CASE /\ step[c] > Len(Program[c])
               /\ IF failures[c] # <<>> THEN o = "error" ELSE o \in Ends[c]
      BY <2>1, <3>1, HelpersFacts DEF HelpersSound
    <3>2. CASE /\ step[c] <= Len(Program[c]) /\ Collector[c] = Nobody
               /\ Failing(Awaited(c)) /\ IsCompleted(Awaited(c)) /\ o = outcome[Awaited(c)]
      <4>1. step[c] \in 1..Len(Program[c])
        BY <3>2, AwaitedFacts DEF CombInv
      <4>2. Awaited(c) \in Helpers(d)
        BY <2>1, <3>2, <4>1, AwaitFacts, HelpersFacts DEF Awaited
      <4>. QED
        BY <2>1, <3>2, <4>2 DEF HelpersSound, Failing, IsCompleted
    <3>. QED
      BY <3>1, <3>2
  <2>2. \A d \in Coroutines : \A e \in Helpers(d) : e \in Tasks
    BY Disjoint DEF Helpers
  <2>. QED
    BY <1>1, <2>1, <2>2 DEF HelpersSound
<1>6. ASSUME NEW d \in Coroutines, IsCompleted(d)'
      PROVE  \/ /\ step'[d] > Len(Program[d])
                /\ IF failures'[d] # <<>> THEN outcome'[d] = "error" ELSE outcome'[d] \in Ends[d]
             \/ /\ step'[d] <= Len(Program[d]) /\ Collector[d] = Nobody
                /\ Failing(Awaited(d))' /\ outcome'[d] = outcome'[Awaited(d)]
  <2>1. Awaited(d)' = Awaited(d) /\ d \in Tasks
    BY Disjoint DEF Awaited
  <2>2. CASE d = c
    <3>1. Failing(Awaited(c)) /\ IsCompleted(Awaited(c)) =>
            Failing(Awaited(c))' /\ outcome'[Awaited(c)] = outcome[Awaited(c)]
      BY <1>2, <2>1, <2>2 DEF Failing
    <3>. QED
      BY <1>1, <2>2, <3>1
  <2>3. CASE d # c
    <3>1. IsCompleted(d) /\ outcome'[d] = outcome[d]
      BY <1>1, <1>6, <2>1, <2>3 DEF IsCompleted
    <3>2. Failing(Awaited(d)) /\ outcome[d] = outcome[Awaited(d)] =>
            Failing(Awaited(d))' /\ outcome'[d] = outcome'[Awaited(d)]
      BY <1>2, <2>1, <3>1 DEF Failing, IsCompleted
    <3>. QED
      BY <3>1, <3>2 DEF EndSound
  <2>. QED
    BY <2>2, <2>3
<1>7. EndSound'
  BY <1>6 DEF EndSound, Awaited
<1>. QED
  BY <1>3, <1>4, <1>5, <1>7

(* A coroutine goes on: the await it was at is one that was caught.        *)
LEMMA MissedGoesOn ==
  ASSUME CombInv, NEW c \in Coroutines, phase[c] = "resume", GoOn(c), NEW d \in Coroutines
  PROVE  /\ <<c, step[c]>> \notin Missed(d)
         /\ Collector[c] = d /\ Failing(Awaited(c)) =>
              Missed(d)' = Missed(d) \cup {<<c, step[c]>>}
         /\ ~(Collector[c] = d /\ Failing(Awaited(c))) => Missed(d)' = Missed(d)
<1>. DEFINE q == <<c, step[c]>>
<1>1. step[c] \in 1..Len(Program[c]) /\ Awaited(c) = Target(q)
  BY AwaitedFacts, TargetIs DEF CombInv, AwaitSound, Awaited
<1>2. /\ step'[c] = step[c] + 1 /\ \A e \in Coroutines : e # c => step'[e] = step[e]
      /\ UNCHANGED outcome
  BY DEF GoOn, CombInv, TypeOK
<1>3. \A p : Failing(Target(p))' <=> Failing(Target(p))
  BY <1>2 DEF Failing, Target
<1>4. ASSUME NEW p \in Collected(d)
      PROVE  /\ p # q => (p[2] < step'[p[1]] <=> p[2] < step[p[1]])
             /\ p = q => p[2] < step'[p[1]] /\ ~(p[2] < step[p[1]])
  <2>0. p \in AwaitPoints
    BY DEF Collected
  <2>1. PICK e \in Coroutines : \E n \in 1..Len(Program[e]) : p = <<e, n>>
    BY <2>0, Points
  <2>2. PICK n \in 1..Len(Program[e]) : p = <<e, n>>
    BY <2>1
  <2>3. p[1] = e /\ p[2] = n
    BY <2>2
  <2>4. CASE e # c
    BY <1>2, <2>2, <2>3, <2>4
  <2>5. CASE e = c
    <3>1. p = q <=> n = step[c]
      BY <2>2, <2>5
    <3>2. n \in Int /\ step[c] \in Int
      BY <1>1
    <3>. QED
      BY <1>2, <2>3, <2>5, <3>1, <3>2
  <2>. QED
    BY <2>4, <2>5
<1>5. q \in Collected(d) <=> Collector[c] = d /\ Awaited(c) \in Tasks
  <2>1. q \in AwaitPoints /\ q[1] = c
    BY <1>1, Points
  <2>. HIDE DEF q
  <2>. QED
    BY <1>1, <2>1 DEF Collected
<1>6. q \notin Missed(d)
  BY <1>4 DEF Missed
<1>7. Collected(d)' = Collected(d)
  BY DEF Collected, Target
<1>8. \A p : p \in Missed(d)' <=>
        p \in Missed(d) \/ (p = q /\ Collector[c] = d /\ Failing(Awaited(c)))
  <2>. HIDE DEF q
  <2>1. \A p : p \in Missed(d)' <=>
          p \in Collected(d) /\ p[2] < step'[p[1]] /\ Failing(Target(p))
    BY <1>3, <1>7 DEF Missed
  <2>2. \A p : p \in Missed(d) <=>
          p \in Collected(d) /\ p[2] < step[p[1]] /\ Failing(Target(p))
    BY DEF Missed
  <2>3. Failing(Awaited(c)) => Awaited(c) \in Tasks
    BY DEF Failing
  <2>. QED
    BY <1>1, <1>4, <1>5, <2>1, <2>2, <2>3
<1>. QED
  BY <1>6, <1>8

LEMMA OutcomesGoOn ==
  ASSUME OutcomeInv, CombInv', NEW c \in Coroutines, Succeed(c) \/ Catch(c)
  PROVE  OutcomeInv'
<1>. USE DEF OutcomeInv
<1>1. phase[c] = "resume" /\ GoOn(c)
  BY DEF Succeed, Catch
<1>2. /\ step' = [step EXCEPT ![c] = @ + 1] /\ UNCHANGED outcome
      /\ step'[c] = step[c] + 1 /\ \A e \in Coroutines : e # c => step'[e] = step[e]
  BY <1>1 DEF GoOn, CombInv, TypeOK
<1>3. /\ ~IsCompleted(c) /\ Served(c) /\ step[c] \in 1..Len(Program[c])
      /\ Awaited(c) \in Tasks \cup {Nobody}
  BY <1>1, AwaitedFacts DEF CombInv, AwaitSound
<1>4. \A t : IsCompleted(t)' <=> IsCompleted(t)
  BY <1>2 DEF IsCompleted
<1>5. Failing(Awaited(c)) <=> Catch(c)
  <2>1. CASE Awaited(c) = Nobody
    BY <2>1, Disjoint DEF Succeed, Catch, Came, Failing
  <2>2. CASE Awaited(c) # Nobody
    BY <1>3, <2>2 DEF Succeed, Catch, Came, Failing
  <2>. QED
    BY <2>1, <2>2
<1>6. PastSound'
  <2>1. ASSUME NEW d \in Coroutines, NEW n \in 1..Len(Program[d]),
               n < step'[d], Target(<<d, n>>) \in Tasks
        PROVE  /\ IsCompleted(Target(<<d, n>>))
               /\ Collector[d] = Nobody => ~Failing(Target(<<d, n>>))
    <3>1. CASE n < step[d]
      BY <2>1, <3>1 DEF PastSound, Past
    <3>2. CASE ~(n < step[d])
      <4>1. d = c /\ n = step[c]
        BY <1>2, <1>3, <2>1, <3>2
      <4>2. Target(<<d, n>>) = Awaited(c)
        BY <4>1, TargetIs DEF Awaited
      <4>. QED
        BY <1>3, <1>5, <2>1, <4>1, <4>2, Disjoint DEF Served, Catch
    <3>. QED
      BY <3>1, <3>2
  <2>2. \A d, n : Target(<<d, n>>)' = Target(<<d, n>>)
    BY DEF Target
  <2>. QED
    BY <1>2, <1>4, <2>1, <2>2 DEF PastSound, Past, Failing
<1>7. ASSUME Catch(c)
      PROVE  /\ Collector[c] \in Coroutines /\ ~IsCompleted(Collector[c])
             /\ failures'[Collector[c]] = Append(failures[Collector[c]], Awaited(c))
             /\ \A d \in Coroutines : d # Collector[c] => failures'[d] = failures[d]
  <2>1. Collector[c] \in Coroutines
    BY <1>7, AwaiterAssumption DEF Catch
  <2>2. ~IsCompleted(Collector[c])
    BY <1>3, <2>1, CollectedDone
  <2>. QED
    BY <1>7, <2>1, <2>2 DEF Catch, CombInv, TypeOK
<1>8. HelpersSound'
  <2>1. ASSUME NEW d \in Coroutines, Collects(d), NEW e \in Helpers(d)
        PROVE  failures'[e] = failures[e]
    <3>1. e \in Coroutines /\ Collector[c] # e
      BY <2>1, HelpersFacts
    <3>. QED
      BY <1>7, <3>1 DEF Succeed
  <2>. QED
    BY <1>2, <2>1 DEF HelpersSound
<1>9. EndSound'
  <2>1. ASSUME NEW d \in Coroutines, IsCompleted(d)
        PROVE  /\ d # c /\ step'[d] = step[d] /\ failures'[d] = failures[d]
               /\ Awaited(d)' = Awaited(d)
    BY <1>2, <1>3, <1>7, <2>1 DEF Succeed, Awaited
  <2>. QED
    BY <1>2, <1>4, <2>1 DEF EndSound, Failing
<1>10. ASSUME NEW d \in Coroutines
       PROVE  IsFiniteSet(Missed(d)') /\ Len(failures'[d]) = Cardinality(Missed(d)')
  <2>1. IsFiniteSet(Missed(d)) /\ Len(failures[d]) = Cardinality(Missed(d))
    BY DEF Counted
  <2>2. CASE Collector[c] = d /\ Catch(c)
    <3>1. /\ Missed(d)' = Missed(d) \cup {<<c, step[c]>>}
          /\ <<c, step[c]>> \notin Missed(d)
      BY <1>1, <1>5, <2>2, MissedGoesOn
    <3>2. /\ IsFiniteSet(Missed(d) \cup {<<c, step[c]>>})
          /\ Cardinality(Missed(d) \cup {<<c, step[c]>>}) = Cardinality(Missed(d)) + 1
      BY <2>1, <3>1, FS_AddElement
    <3>3. Awaited(c) \in Tasks /\ failures[d] \in Seq(Tasks)
      BY <1>5, <2>2 DEF Failing, CombInv, TypeOK
    <3>4. Len(failures'[d]) = Len(failures[d]) + 1
      BY <1>7, <2>2, <3>3, AppendProperties
    <3>. QED
      BY <2>1, <3>1, <3>2, <3>4
  <2>3. CASE ~(Collector[c] = d /\ Catch(c))
    <3>1. Missed(d)' = Missed(d)
      BY <1>1, <1>5, <2>3, MissedGoesOn
    <3>2. failures'[d] = failures[d]
      BY <1>7, <2>3 DEF Succeed
    <3>. QED
      BY <2>1, <3>1, <3>2
  <2>. QED
    BY <2>2, <2>3
<1>11. Counted'
  BY <1>10 DEF Counted
<1>. QED
  BY <1>6, <1>8, <1>9, <1>11

LEMMA AwaitOutcomes ==
  ASSUME OutcomeInv, NEW c \in Coroutines, AwaitStep(c), UNCHANGED combined
  PROVE  OutcomeInv'
<1>. USE DEF OutcomeInv
<1>0. CombInv'
  BY NextCombInv DEF Next, Runtime
<1>1. CASE Succeed(c) \/ Catch(c)
  BY <1>0, <1>1, OutcomesGoOn
<1>2. CASE Fail(c)
  <2>1. /\ Finish(c, Came(c)) /\ phase[c] = "resume" /\ Collector[c] = Nobody
        /\ Came(c) # "result"
    BY <1>2 DEF Fail
  <2>2. /\ ~IsCompleted(c) /\ Served(c) /\ step[c] <= Len(Program[c])
        /\ Awaited(c) \in Tasks \cup {Nobody}
    BY <2>1, AwaitedFacts DEF CombInv, AwaitSound
  <2>3. /\ Awaited(c) \in Tasks /\ Came(c) = outcome[Awaited(c)]
        /\ IsCompleted(Awaited(c)) /\ Failing(Awaited(c))
    BY <2>1, <2>2 DEF Came, Served, Failing
  <2>4. Came(c) \in Settled
    BY <2>3 DEF CombInv, TypeOK, IsCompleted
  <2>5. outcome' = [outcome EXCEPT ![c] = Came(c)] /\ UNCHANGED <<step, failures>>
    BY <2>1, FinishCompletes DEF Complete, Done
  <2>. QED
    BY <1>0, <2>1, <2>2, <2>3, <2>4, <2>5, OutcomesEnd
<1>3. CASE End(c)
  <2>1. phase[c] = "run" /\ step[c] > Len(Program[c])
    BY <1>3 DEF End
  <2>2. PICK o \in Ends[c] : Finish(c, IF failures[c] = <<>> THEN o ELSE "error")
    BY <1>3 DEF End
  <2>. DEFINE r == IF failures[c] = <<>> THEN o ELSE "error"
  <2>3. r \in Settled /\ IF failures[c] # <<>> THEN r = "error" ELSE r \in Ends[c]
    BY AwaiterAssumption DEF Settled
  <2>4. ~IsCompleted(c)
    BY <2>1 DEF CombInv, AwaitSound
  <2>5. Finish(c, r)
    BY <2>2
  <2>. HIDE DEF r
  <2>6. outcome' = [outcome EXCEPT ![c] = r] /\ UNCHANGED <<step, failures>>
    BY <2>5, FinishCompletes DEF Complete, Done
  <2>. QED
    BY <1>0, <2>1, <2>3, <2>4, <2>6, OutcomesEnd
<1>4. CASE \/ CallCoroutine(c) \/ CoAwait(c) \/ Suspend(c) \/ Register(c) \/ Wait(c)
           \/ CoAwaitFuture(c) \/ DetachThread(c) \/ ResumeByThread(c)
           \/ SwitchToScheduler(c) \/ StayInThread(c) \/ SwitchToContext(c)
           \/ RunContinuation(c) \/ Post(c)
  <2>1. UNCHANGED <<outcome, step, failures>>
    BY <1>4 DEF CallCoroutine, CoAwait, Suspend, Register, Wait, CoAwaitFuture,
                DetachThread, ResumeByThread, SwitchToScheduler, StayInThread,
                SwitchToContext, RunContinuation, Post
  <2>. QED
    BY <1>0, <2>1, OutcomesStay
<1>. QED
  BY <1>1, <1>2, <1>3, <1>4 DEF AwaitStep

(* The outcome of a task that no coroutine is.                             *)
LEMMA OthersComplete ==
  ASSUME OutcomeInv, CombInv', NEW t \in Tasks \ Coroutines, NEW o, ~IsCompleted(t),
         outcome' = [outcome EXCEPT ![t] = o], UNCHANGED coroutine
  PROVE  OutcomeInv'
<1>1. \A s \in Tasks : s # t => outcome'[s] = outcome[s]
  BY DEF OutcomeInv, CombInv, TypeOK
<1>. QED
  BY <1>1, OutcomesStay, Disjoint

LEMMA NextOutcomeInv == OutcomeInv /\ [Next]_vars => OutcomeInv'
<1>. SUFFICES ASSUME OutcomeInv, [Next]_vars PROVE OutcomeInv'
  OBVIOUS
<1>0. CombInv'
  BY NextCombInv DEF OutcomeInv
<1>1. ASSUME NEW s \in Sources, Settle(s) PROVE OutcomeInv'
  <2>1. s \in Tasks \ Coroutines /\ ~IsCompleted(s)
    BY <1>1, Disjoint DEF Settle
  <2>2. PICK o \in Outcomes[s] : Complete(s, o, {})
    BY <1>1 DEF Settle
  <2>. QED
    BY <1>0, <1>1, <2>1, <2>2, OthersComplete DEF Settle, Complete
<1>2. ASSUME NEW c \in Roots, EnterScope(c) \/ LeaveScope(c) PROVE OutcomeInv'
  BY <1>0, <1>2, OutcomesStay DEF EnterScope, LeaveScope
<1>3. ASSUME NEW c \in Coroutines, AwaitStep(c), UNCHANGED combined PROVE OutcomeInv'
  BY <1>3, AwaitOutcomes
<1>4. ASSUME NEW x \in Anys, AnyStep(x) PROVE OutcomeInv'
  <2>1. CASE UNCHANGED <<outcome, coroutine>>
    BY <1>0, <2>1, OutcomesStay
  <2>2. CASE ~UNCHANGED <<outcome, coroutine>>
    <3>1. PICK n \in 1..Len(AnyOf[x]) : TrySetIndex(x, n)
      BY <1>4, <2>2 DEF AnyStep, WaitAnyTask
    <3>2. /\ ~IsCompleted(x) /\ outcome' = [outcome EXCEPT ![x] = "result"]
          /\ UNCHANGED coroutine
      BY <2>2, <3>1 DEF TrySetIndex, Complete
    <3>. QED
      BY <1>0, <3>2, OthersComplete, Disjoint
  <2>. QED
    BY <2>1, <2>2
<1>5. ASSUME NEW p \in Proxies, Unwrap(p) \/ OuterDone(p) PROVE OutcomeInv'
  BY <1>0, <1>5, OutcomesStay DEF Unwrap, OuterDone
<1>6. ASSUME NEW p \in Proxies, InnerDone(p) PROVE OutcomeInv'
  <2>1. ~IsCompleted(p)
    BY <1>6 DEF InnerDone, OutcomeInv, CombInv, ProxySound, ProxyRight, Outstanding
  <2>2. outcome' = [outcome EXCEPT ![p] = outcome[Inner[p]]] /\ UNCHANGED coroutine
    BY <1>6 DEF InnerDone, Complete
  <2>. QED
    BY <1>0, <2>1, <2>2, OthersComplete, Disjoint
<1>7. CASE UNCHANGED vars
  BY <1>0, <1>7, OutcomesStay DEF vars
<1>. QED
  BY <1>1, <1>2, <1>3, <1>4, <1>5, <1>6, <1>7 DEF Next, Runtime, ProxyStep

LEMMA InitOutcomeInv == Init => OutcomeInv
<1>. SUFFICES ASSUME Init PROVE OutcomeInv
  OBVIOUS
<1>1. CombInv
  BY InitCombInv
<1>2. /\ \A c \in Coroutines : step[c] = 1 /\ failures[c] = <<>>
      /\ \A t \in Tasks : outcome[t] = "none"
  BY DEF Init, AwaiterInit
<1>3. PastSound
  BY <1>2 DEF PastSound, Past
<1>4. HelpersSound
  BY <1>2, HelpersFacts, Disjoint DEF HelpersSound
<1>5. EndSound
  BY <1>2, Disjoint DEF EndSound, IsCompleted
<1>6. ASSUME NEW c \in Coroutines PROVE Missed(c) = {}
  <2>1. ASSUME NEW p \in Collected(c) PROVE ~(p[2] < step[p[1]])
    <3>0. p \in AwaitPoints
      BY DEF Collected
    <3>1. PICK d \in Coroutines : \E n \in 1..Len(Program[d]) : p = <<d, n>>
      BY <3>0, Points
    <3>2. PICK n \in 1..Len(Program[d]) : p = <<d, n>>
      BY <3>1
    <3>. QED
      BY <1>2, <3>2
  <2>. QED
    BY <2>1 DEF Missed
<1>7. Counted
  <2>1. Len(<<>>) = 0 /\ IsFiniteSet({}) /\ Cardinality({}) = 0
    BY FS_EmptySet
  <2>. QED
    BY <1>2, <1>6, <2>1 DEF Counted
<1>. QED
  BY <1>1, <1>3, <1>4, <1>5, <1>7 DEF OutcomeInv

LEMMA PastAll ==
  ASSUME OutcomeInv, NEW c \in Coroutines, step[c] > Len(Program[c]),
         NEW n \in 1..Len(Program[c])
  PROVE  n < step[c]
<1>1. Len(Program[c]) \in Nat /\ step[c] \in Nat
  BY AwaiterAssumption, LenProperties DEF OutcomeInv, CombInv, TypeOK
<1>. QED
  BY <1>1

(* A coroutine that is completed: all that is collected for it is over.    *)
LEMMA CollectedPast ==
  ASSUME OutcomeInv, NEW c \in Coroutines, IsCompleted(c), NEW p \in Collected(c)
  PROVE  IsCompleted(Target(p)) /\ p[2] < step[p[1]]
<1>. USE DEF OutcomeInv
<1>0. p \in AwaitPoints /\ Collector[p[1]] = c /\ Target(p) \in Tasks
  BY DEF Collected
<1>1. PICK d \in Coroutines : \E n \in 1..Len(Program[d]) : p = <<d, n>>
  BY <1>0, Points
<1>2. PICK n \in 1..Len(Program[d]) : p = <<d, n>>
  BY <1>1
<1>3. p[1] = d /\ p[2] = n
  BY <1>2
<1>4. IsCompleted(d)
  BY <1>0, <1>3, CollectedDone
<1>5. step[d] > Len(Program[d])
  BY <1>0, <1>3, <1>4, Disjoint DEF EndSound
<1>6. n < step[d]
  BY <1>5, PastAll
<1>. QED
  BY <1>0, <1>2, <1>3, <1>6 DEF PastSound, Past

LEMMA OutcomeInvFits == OutcomeInv => OutcomesFit
<1>. SUFFICES ASSUME OutcomeInv PROVE OutcomesFit
  OBVIOUS
<1>. USE DEF OutcomeInv
<1>1. ASSUME NEW c \in Coroutines, IsCompleted(c)
      PROVE  /\ outcome[c] \in CoroutineOutcome(c)
             /\ \A p \in Collected(c) : IsCompleted(Target(p))
             /\ Len(failures[c]) = Cardinality({p \in Collected(c) : Failing(Target(p))})
  <2>1. \A p \in Collected(c) : IsCompleted(Target(p))
    BY <1>1, CollectedPast
  <2>2. Missed(c) = {p \in Collected(c) : Failing(Target(p))}
    BY <1>1, CollectedPast DEF Missed
  <2>3. /\ IsFiniteSet(Missed(c)) /\ Len(failures[c]) = Cardinality(Missed(c))
        /\ failures[c] \in Seq(Tasks)
    BY DEF Counted, CombInv, TypeOK
  <2>4. failures[c] # <<>> <=> \E p \in Collected(c) : Failing(Target(p))
    <3>1. failures[c] = <<>> <=> Len(failures[c]) = 0
      BY <2>3, EmptySeq
    <3>2. Missed(c) = {} <=> Cardinality(Missed(c)) = 0
      BY <2>3, FS_EmptySet
    <3>. QED
      BY <2>2, <2>3, <3>1, <3>2
  <2>. DEFINE first == {n \in 1..Len(Program[c]) : FirstFailure(c, n)}
  <2>5. outcome[c] \in CoroutineOutcome(c)
    <3>1. CASE step[c] > Len(Program[c])
      <4>1. Collector[c] = Nobody => first = {}
        <5>1. ASSUME Collector[c] = Nobody, NEW n \in 1..Len(Program[c])
              PROVE  ~Failing(Target(<<c, n>>))
          <6>1. n < step[c]
            BY <3>1, PastAll
          <6>. QED
            BY <5>1, <6>1 DEF PastSound, Past, Failing
        <5>. QED
          BY <5>1 DEF FirstFailure
      <4>2. outcome[c] \in (IF \E p \in Collected(c) : Failing(Target(p)) THEN {"error"} ELSE Ends[c])
        <5>1. Len(Program[c]) \in Nat /\ step[c] \in Nat
          BY AwaiterAssumption, LenProperties DEF CombInv, TypeOK
        <5>. QED
          BY <1>1, <2>4, <3>1, <5>1 DEF EndSound
      <4>. QED
        BY <4>1, <4>2 DEF CoroutineOutcome
    <3>2. CASE /\ step[c] <= Len(Program[c]) /\ Collector[c] = Nobody
               /\ Failing(Awaited(c)) /\ outcome[c] = outcome[Awaited(c)]
      <4>1. step[c] \in 1..Len(Program[c]) /\ Awaited(c) = Target(<<c, step[c]>>)
        BY <3>2, AwaitedFacts, TargetIs DEF CombInv, Awaited
      <4>2. ASSUME NEW m \in 1..(step[c] - 1) PROVE ~Failing(Target(<<c, m>>))
        <5>1. m \in 1..Len(Program[c]) /\ m < step[c]
          BY <4>1
        <5>. QED
          BY <3>2, <5>1 DEF PastSound, Past, Failing
      <4>3. step[c] \in first
        BY <3>2, <4>1, <4>2 DEF FirstFailure
      <4>4. outcome[c] \in {outcome[Target(<<c, n>>)] : n \in first}
        BY <3>2, <4>1, <4>3
      <4>. QED
        BY <3>2, <4>3, <4>4 DEF CoroutineOutcome
    <3>. QED
      BY <1>1, <3>1, <3>2 DEF EndSound
  <2>. QED
    BY <2>1, <2>2, <2>3, <2>5
<1>2. /\ \A x \in Anys : IsCompleted(x) => IsCompleted(AnyOf[x][index[x]])
      /\ \A p \in Proxies : IsCompleted(p) => outcome[p] = outcome[Inner[p]]
  BY DEF CombInv, AnySound, AnyRight, ProxySound, ProxyRight
<1>. QED
  BY <1>1, <1>2 DEF OutcomesFit

(* Every outcome is what its combinator makes of the outcomes of the tasks *)
(* it was given, for any number of them, in any order of completion.       *)
THEOREM CombinatorsOutcomesFit == Spec => []OutcomesFit
<1>. QED
  BY InitOutcomeInv, NextOutcomeInv, OutcomeInvFits, PTL DEF Spec
=============================================================================

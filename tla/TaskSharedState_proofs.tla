----------------------- MODULE TaskSharedState_proofs -----------------------
(***************************************************************************)
(* For every set of threads, waiters and continuations: the invariant of a *)
(* task, that a complete task keeps its state, and that the task keeps the *)
(* safety part of its contract.  They need StartedOnce: a second Start of  *)
(* a task whose token is canceled breaks all three.                        *)
(***************************************************************************)
EXTENDS TaskSharedState, TLAPS

USE DEF TaskInv, Threads, given, task, lists, waits, conts, users

LEMMA InitTaskInv == Init => TaskInv
<1>. SUFFICES ASSUME Init PROVE TaskInv
  OBVIOUS
<1>1. TypeOK
  BY DEF Init, TypeOK, TaskStates, PCs
<1>2. KindSound
  BY DEF Init, KindSound, Completing
<1>3. StateSound /\ ExceptionSound
  BY DEF Init, StateSound, ExceptionSound, Completing, Terminal
<1>4. ContinuationsSound
  BY DEF Init, ContinuationsSound
<1>5. WaitersSound
  BY DEF Init, WaitersSound
<1>. QED
  BY <1>1, <1>2, <1>3, <1>4, <1>5

LEMMA CompleteTaskInv ==
  ASSUME StartedOnce, TaskInv, NEW t \in Completers, NEW o \in Outcomes, Complete(t, o)
  PROVE  TaskInv'
<1>1. TypeOK'
  BY DEF Complete, Goto, StateOf, TypeOK, TaskStates, PCs, Outcomes
<1>2. KindSound'
  BY TaskAssumption DEF Complete, Goto, KindSound, Completing
<1>3. StateSound'
  BY DEF Complete, Goto, StateOf, TypeOK, StateSound, Completing, Terminal, Outcomes
<1>4. ExceptionSound'
  BY DEF Complete, Goto, StateOf, KindSound, ExceptionSound, Terminal, Outcomes
<1>5. ContinuationsSound'
  BY DEF Complete, Goto, ContinuationsSound, Terminal, Ran
<1>6. WaitersSound'
  BY DEF Complete, Goto, TypeOK, WaitersSound, LockFree, Terminal
<1>. QED
  BY <1>1, <1>2, <1>3, <1>4, <1>5, <1>6

LEMMA CompleteTooLateTaskInv ==
  ASSUME StartedOnce, TaskInv, NEW t \in Completers, CompleteTooLate(t)
  PROVE  TaskInv'
<1>1. TypeOK'
  BY DEF CompleteTooLate, Goto, TypeOK, PCs
<1>2. KindSound'
  BY TaskAssumption DEF CompleteTooLate, Goto, KindSound, Completing
<1>3. StateSound'
  BY DEF CompleteTooLate, Goto, StateSound, Completing
<1>4. ExceptionSound'
  BY DEF CompleteTooLate, Goto, ExceptionSound
<1>5. ContinuationsSound'
  BY DEF CompleteTooLate, Goto, ContinuationsSound, Ran
<1>6. WaitersSound'
  BY DEF CompleteTooLate, Goto, WaitersSound, WaitOutcome, StoredUnlocked
<1>. QED
  BY <1>1, <1>2, <1>3, <1>4, <1>5, <1>6

LEMMA PrepareTaskInv ==
  ASSUME StartedOnce, TaskInv, NEW o \in Outcomes, Prepare(o)
  PROVE  TaskInv'
<1>1. TypeOK'
  BY DEF Prepare, Goto, StateOf, TypeOK, TaskStates, PCs, Outcomes
<1>2. KindSound'
  BY TaskAssumption DEF Prepare, Goto, KindSound, Completing
<1>3. StateSound'
  BY DEF Prepare, Goto, StateOf, StateSound, Completing, Terminal, Outcomes
<1>4. ExceptionSound'
  BY DEF Prepare, Goto, StateOf, TypeOK, ExceptionSound, Terminal, Outcomes
<1>5. ContinuationsSound'
  BY DEF Prepare, Goto, ContinuationsSound, Ran
<1>6. WaitersSound'
  BY DEF Prepare, WaitersSound, Terminal
<1>. QED
  BY <1>1, <1>2, <1>3, <1>4, <1>5, <1>6

LEMMA PublishResultTaskInv ==
  ASSUME StartedOnce, TaskInv, PublishResult
  PROVE  TaskInv'
<1>1. TypeOK'
  BY DEF PublishResult, Goto, TypeOK, PCs
<1>2. KindSound'
  BY DEF PublishResult, Goto, KindSound, Completing
<1>3. StateSound'
  BY DEF PublishResult, Goto, TypeOK, StateSound, Completing
<1>4. ExceptionSound'
  BY DEF PublishResult, Goto, StateSound, ExceptionSound
<1>5. ContinuationsSound'
  BY DEF PublishResult, Goto, ContinuationsSound, Terminal, Ran
<1>6. WaitersSound'
  BY DEF PublishResult, Goto, TypeOK, WaitersSound, LockFree, Terminal
<1>. QED
  BY <1>1, <1>2, <1>3, <1>4, <1>5, <1>6

LEMMA CancelTokenTaskInv ==
  ASSUME StartedOnce, TaskInv, CancelToken
  PROVE  TaskInv'
<1>1. TypeOK'
  BY DEF CancelToken, TypeOK
<1>2. KindSound'
  BY DEF CancelToken, KindSound
<1>3. StateSound'
  BY DEF CancelToken, StateSound, Completing
<1>4. ExceptionSound'
  BY DEF CancelToken, ExceptionSound
<1>5. ContinuationsSound'
  BY DEF CancelToken, ContinuationsSound, Ran
<1>6. WaitersSound'
  BY DEF CancelToken, WaitersSound, WaitOutcome, StoredUnlocked
<1>. QED
  BY <1>1, <1>2, <1>3, <1>4, <1>5, <1>6

LEMMA StartTaskInv ==
  ASSUME StartedOnce, TaskInv, NEW t \in Starters, Start(t)
  PROVE  TaskInv'
<1>1. TypeOK'
  BY DEF Start, Goto, TypeOK, PCs
<1>2. KindSound'
  BY TaskAssumption DEF Start, Goto, KindSound, Completing
<1>3. StateSound'
  BY TaskAssumption DEF Start, Goto, StateSound, Completing
<1>4. ExceptionSound'
  BY DEF Start, Goto, ExceptionSound
<1>5. ContinuationsSound'
  BY DEF Start, Goto, ContinuationsSound, Ran
<1>6. WaitersSound'
  BY DEF Start, Goto, WaitersSound, WaitOutcome, StoredUnlocked
<1>. QED
  BY <1>1, <1>2, <1>3, <1>4, <1>5, <1>6

LEMMA CancelStartTaskInv ==
  ASSUME StartedOnce, TaskInv, NEW t \in Starters, CancelStart(t)
  PROVE  TaskInv'
<1>1. TypeOK'
  BY DEF CancelStart, Goto, TypeOK, TaskStates, PCs
<1>2. KindSound'
  BY DEF CancelStart, Goto, KindSound, Completing
<1>3. StateSound'
  BY DEF CancelStart, Goto, TypeOK, KindSound, StateSound, Completing, Terminal,
         StartedOnce
<1>4. ExceptionSound'
  BY DEF CancelStart, Goto, KindSound, StateSound, ExceptionSound, Completing,
         StartedOnce
<1>5. ContinuationsSound'
  BY DEF CancelStart, Goto, ContinuationsSound, Terminal, Ran
<1>6. WaitersSound'
  BY DEF CancelStart, Goto, TypeOK, KindSound, StateSound, WaitersSound, LockFree,
         Completing, StartedOnce
<1>. QED
  BY <1>1, <1>2, <1>3, <1>4, <1>5, <1>6

LEMMA TryStartTaskInv ==
  ASSUME StartedOnce, TaskInv, NEW t \in Starters, TryStart(t)
  PROVE  TaskInv'
<1>1. TypeOK'
  BY DEF TryStart, TypeOK, TaskStates, PCs
<1>2. KindSound'
  BY TaskAssumption DEF TryStart, TypeOK, KindSound, Completing
<1>3. StateSound'
  BY DEF TryStart, TypeOK, StateSound, Completing, Terminal
<1>4. ExceptionSound'
  BY DEF TryStart, TypeOK, KindSound, StateSound, ExceptionSound
<1>5. ContinuationsSound'
  BY DEF TryStart, TypeOK, StateSound, ContinuationsSound, Ran
<1>6. WaitersSound'
  BY DEF TryStart, TypeOK, WaitersSound, WaitOutcome, StoredUnlocked, Terminal
<1>. QED
  BY <1>1, <1>2, <1>3, <1>4, <1>5, <1>6

LEMMA RunCheckTokenTaskInv ==
  ASSUME StartedOnce, TaskInv, RunCheckToken
  PROVE  TaskInv'
<1>1. TypeOK'
  BY DEF RunCheckToken, Goto, TypeOK, PCs
<1>2. KindSound'
  BY DEF RunCheckToken, Goto, KindSound, Completing
<1>3. StateSound'
  BY DEF RunCheckToken, Goto, StateSound, Completing
<1>4. ExceptionSound'
  BY DEF RunCheckToken, Goto, TypeOK, StateSound, ExceptionSound
<1>5. ContinuationsSound'
  BY DEF RunCheckToken, Goto, ContinuationsSound, Ran
<1>6. WaitersSound'
  BY DEF RunCheckToken, Goto, StateSound, WaitersSound, Terminal
<1>. QED
  BY <1>1, <1>2, <1>3, <1>4, <1>5, <1>6

LEMMA RunSetRunningTaskInv ==
  ASSUME StartedOnce, TaskInv, RunSetRunning
  PROVE  TaskInv'
<1>1. TypeOK'
  BY DEF RunSetRunning, Goto, TypeOK, TaskStates, PCs
<1>2. KindSound'
  BY DEF RunSetRunning, Goto, KindSound, Completing
<1>3. StateSound'
  BY DEF RunSetRunning, Goto, TypeOK, StateSound, Completing, Terminal
<1>4. ExceptionSound'
  BY DEF RunSetRunning, Goto, StateSound, ExceptionSound, Terminal
<1>5. ContinuationsSound'
  BY DEF RunSetRunning, Goto, StateSound, ContinuationsSound, Terminal, Ran
<1>6. WaitersSound'
  BY DEF RunSetRunning, Goto, StateSound, WaitersSound, Terminal
<1>. QED
  BY <1>1, <1>2, <1>3, <1>4, <1>5, <1>6

LEMMA RunBodyTaskInv ==
  ASSUME StartedOnce, TaskInv, NEW o \in Outcomes, RunBody(o)
  PROVE  TaskInv'
<1>1. \E x \in {"storeResult", "setCanceled", "setFaulted"} :
        pc' = [pc EXCEPT ![Runner] = x]
  BY DEF RunBody, Goto, Outcomes
<1>2. /\ pc[Runner] = "body"
      /\ UNCHANGED <<kind, tokenCanceled, state, prepared, lists, users>>
  BY DEF RunBody, Goto
<1>3. TypeOK'
  BY DEF RunBody, Goto, TypeOK, PCs, Outcomes
<1>4. KindSound'
  BY DEF RunBody, Goto, KindSound, Completing, Outcomes
<1>5. StateSound'
  BY DEF RunBody, Goto, StateSound, Completing, Outcomes
<1>6. ExceptionSound'
  BY DEF RunBody, Goto, TypeOK, StateSound, ExceptionSound, Outcomes
<1>7. ContinuationsSound'
  BY <1>1, <1>2 DEF ContinuationsSound, Ran
<1>8. WaitersSound'
  BY DEF RunBody, Goto, StateSound, WaitersSound, Terminal
<1>. QED
  BY <1>3, <1>4, <1>5, <1>6, <1>7, <1>8

LEMMA RunStoreResultTaskInv ==
  ASSUME StartedOnce, TaskInv, RunStoreResult
  PROVE  TaskInv'
<1>1. TypeOK'
  BY DEF RunStoreResult, Goto, TypeOK, TaskStates, PCs
<1>2. KindSound'
  BY DEF RunStoreResult, Goto, KindSound, Completing
<1>3. StateSound'
  BY DEF RunStoreResult, Goto, TypeOK, StateSound, Completing, Terminal
<1>4. ExceptionSound'
  BY DEF RunStoreResult, Goto, ExceptionSound, Terminal
<1>5. ContinuationsSound'
  BY DEF RunStoreResult, Goto, ContinuationsSound, Terminal, Ran
<1>6. WaitersSound'
  BY TaskAssumption DEF RunStoreResult, Goto, TypeOK, KindSound, StateSound,
         WaitersSound, StoredUnlocked, Terminal
<1>. QED
  BY <1>1, <1>2, <1>3, <1>4, <1>5, <1>6

LEMMA RunCatchCanceledTaskInv ==
  ASSUME StartedOnce, TaskInv, RunCatch("Canceled", "setCanceled")
  PROVE  TaskInv'
<1>1. TypeOK'
  BY DEF RunCatch, Goto, TypeOK, TaskStates, PCs
<1>2. KindSound'
  BY TaskAssumption DEF RunCatch, Goto, TypeOK, PCs, KindSound, StateSound,
         Completing, StartedOnce
<1>3. StateSound'
  BY DEF RunCatch, Goto, TypeOK, StateSound, Completing, Terminal
<1>4. ExceptionSound'
  BY DEF RunCatch, Goto, ExceptionSound, Terminal
<1>5. ContinuationsSound'
  BY DEF RunCatch, Goto, ContinuationsSound, Terminal, Ran
<1>6. WaitersSound'
  BY DEF RunCatch, Goto, TypeOK, StateSound, WaitersSound, LockFree, Terminal
<1>. QED
  BY <1>1, <1>2, <1>3, <1>4, <1>5, <1>6

LEMMA RunCatchFaultedTaskInv ==
  ASSUME StartedOnce, TaskInv, RunCatch("Faulted", "setFaulted")
  PROVE  TaskInv'
<1>1. TypeOK'
  BY DEF RunCatch, Goto, TypeOK, TaskStates, PCs
<1>2. KindSound'
  BY DEF RunCatch, Goto, KindSound, Completing
<1>3. StateSound'
  BY DEF RunCatch, Goto, TypeOK, StateSound, Completing, Terminal
<1>4. ExceptionSound'
  BY DEF RunCatch, Goto, ExceptionSound, Terminal
<1>5. ContinuationsSound'
  BY DEF RunCatch, Goto, ContinuationsSound, Terminal, Ran
<1>6. WaitersSound'
  BY DEF RunCatch, Goto, TypeOK, StateSound, WaitersSound, LockFree, Terminal
<1>. QED
  BY <1>1, <1>2, <1>3, <1>4, <1>5, <1>6

LEMMA NotifyTaskInv ==
  ASSUME StartedOnce, TaskInv, NEW t \in Threads, Notify(t)
  PROVE  TaskInv'
<1>1. TypeOK'
  BY DEF Notify, Goto, TypeOK, PCs
<1>2. KindSound'
  BY DEF Notify, Goto, KindSound, Completing
<1>3. StateSound'
  BY DEF Notify, Goto, StateSound, Completing
<1>4. ExceptionSound'
  BY DEF Notify, Goto, ExceptionSound
<1>5. ContinuationsSound'
  BY DEF Notify, Goto, ContinuationsSound, Ran
<1>6. WaitersSound'
  BY DEF Notify, WaitersSound, WaitOutcome, StoredUnlocked
<1>. QED
  BY <1>1, <1>2, <1>3, <1>4, <1>5, <1>6

LEMMA SnapshotTaskInv ==
  ASSUME StartedOnce, TaskInv, NEW t \in Threads, Snapshot(t)
  PROVE  TaskInv'
<1>1. TypeOK'
  BY DEF Snapshot, Goto, TypeOK, PCs
<1>2. KindSound'
  BY DEF Snapshot, Goto, KindSound, Completing
<1>3. StateSound'
  BY DEF Snapshot, Goto, StateSound, Completing
<1>4. ExceptionSound'
  BY DEF Snapshot, Goto, ExceptionSound
<1>5. ContinuationsSound'
  BY DEF Snapshot, Goto, TypeOK, ContinuationsSound
<1>6. WaitersSound'
  BY DEF Snapshot, Goto, WaitersSound, WaitOutcome, StoredUnlocked
<1>. QED
  BY <1>1, <1>2, <1>3, <1>4, <1>5, <1>6

LEMMA RunContinuationTaskInv ==
  ASSUME StartedOnce, TaskInv, NEW t \in Threads, NEW k \in Continuations,
         RunContinuation(t, k)
  PROVE  TaskInv'
<1>1. TypeOK'
  BY DEF RunContinuation, TypeOK, ContinuationsSound
<1>2. KindSound'
  BY DEF RunContinuation, KindSound, Completing
<1>3. StateSound'
  BY DEF RunContinuation, StateSound, Completing
<1>4. ExceptionSound'
  BY TaskAssumption DEF RunContinuation, TypeOK, PCs, TaskStates, KindSound,
         StateSound, ExceptionSound, Completing, Terminal, StartedOnce, Outcomes
<1>5. ContinuationsSound'
  BY DEF RunContinuation, TypeOK, StateSound, ContinuationsSound, Completing, Ran
<1>6. WaitersSound'
  BY DEF RunContinuation, WaitersSound, WaitOutcome, StoredUnlocked
<1>. QED
  BY <1>1, <1>2, <1>3, <1>4, <1>5, <1>6

LEMMA FinishTaskInv ==
  ASSUME StartedOnce, TaskInv, NEW t \in Threads, Finish(t)
  PROVE  TaskInv'
<1>1. TypeOK'
  BY DEF Finish, Goto, TypeOK, PCs
<1>2. KindSound'
  BY DEF Finish, Goto, KindSound, Completing
<1>3. StateSound'
  BY DEF Finish, Goto, StateSound, Completing
<1>4. ExceptionSound'
  BY DEF Finish, Goto, ExceptionSound
<1>5. ContinuationsSound'
  BY DEF Finish, Goto, ContinuationsSound, Ran
<1>6. WaitersSound'
  BY DEF Finish, Goto, WaitersSound, WaitOutcome, StoredUnlocked
<1>. QED
  BY <1>1, <1>2, <1>3, <1>4, <1>5, <1>6

LEMMA AddContinuationTaskInv ==
  ASSUME StartedOnce, TaskInv, NEW k \in Continuations, AddContinuation(k)
  PROVE  TaskInv'
<1>1. TypeOK'
  BY DEF AddContinuation, TypeOK
<1>2. KindSound'
  BY DEF AddContinuation, KindSound, Completing
<1>3. StateSound'
  BY DEF AddContinuation, StateSound, Completing
<1>4. ExceptionSound'
  BY DEF AddContinuation, ExceptionSound
<1>5. ContinuationsSound'
  BY DEF AddContinuation, TypeOK, StateSound, ContinuationsSound, Completing, Ran
<1>6. WaitersSound'
  BY DEF AddContinuation, WaitersSound, WaitOutcome, StoredUnlocked
<1>. QED
  BY <1>1, <1>2, <1>3, <1>4, <1>5, <1>6

LEMMA RunNowTaskInv ==
  ASSUME StartedOnce, TaskInv, NEW k \in Continuations, RunNow(k)
  PROVE  TaskInv'
<1>1. TypeOK'
  BY DEF RunNow, TypeOK, ContinuationsSound
<1>2. KindSound'
  BY DEF RunNow, KindSound, Completing
<1>3. StateSound'
  BY DEF RunNow, StateSound, Completing
<1>4. ExceptionSound'
  BY DEF RunNow, ExceptionSound
<1>5. ContinuationsSound'
  BY DEF RunNow, TypeOK, ContinuationsSound, Ran
<1>6. WaitersSound'
  BY DEF RunNow, WaitersSound, WaitOutcome, StoredUnlocked
<1>. QED
  BY <1>1, <1>2, <1>3, <1>4, <1>5, <1>6

LEMMA WaitCheckTaskInv ==
  ASSUME StartedOnce, TaskInv, NEW w \in Waiters, WaitCheck(w)
  PROVE  TaskInv'
<1>1. TypeOK'
  BY DEF WaitCheck, TypeOK, WaitOutcome, Outcomes
<1>2. KindSound'
  BY DEF WaitCheck, KindSound, Completing
<1>3. StateSound'
  BY DEF WaitCheck, StateSound, Completing
<1>4. ExceptionSound'
  BY DEF WaitCheck, ExceptionSound
<1>5. ContinuationsSound'
  BY DEF WaitCheck, ContinuationsSound, Ran
<1>6. WaitersSound'
  BY DEF WaitCheck, TypeOK, WaitersSound, WaitOutcome, StoredUnlocked
<1>. QED
  BY <1>1, <1>2, <1>3, <1>4, <1>5, <1>6

LEMMA WaitBlockTaskInv ==
  ASSUME StartedOnce, TaskInv, NEW w \in Waiters, WaitBlock(w)
  PROVE  TaskInv'
<1>1. TypeOK'
  BY DEF WaitBlock, TypeOK
<1>2. KindSound'
  BY DEF WaitBlock, KindSound, Completing
<1>3. StateSound'
  BY DEF WaitBlock, StateSound, Completing
<1>4. ExceptionSound'
  BY DEF WaitBlock, ExceptionSound
<1>5. ContinuationsSound'
  BY DEF WaitBlock, ContinuationsSound, Ran
<1>6. WaitersSound'
  BY DEF WaitBlock, WaitersSound, WaitOutcome, StoredUnlocked
<1>. QED
  BY <1>1, <1>2, <1>3, <1>4, <1>5, <1>6

LEMMA SpuriousWakeTaskInv ==
  ASSUME StartedOnce, TaskInv, NEW w \in Waiters, SpuriousWake(w)
  PROVE  TaskInv'
<1>1. TypeOK'
  BY DEF SpuriousWake, TypeOK
<1>2. KindSound'
  BY DEF SpuriousWake, KindSound, Completing
<1>3. StateSound'
  BY DEF SpuriousWake, StateSound, Completing
<1>4. ExceptionSound'
  BY DEF SpuriousWake, ExceptionSound
<1>5. ContinuationsSound'
  BY DEF SpuriousWake, ContinuationsSound, Ran
<1>6. WaitersSound'
  BY DEF SpuriousWake, WaitersSound, WaitOutcome, StoredUnlocked
<1>. QED
  BY <1>1, <1>2, <1>3, <1>4, <1>5, <1>6

LEMMA NextTaskInv == ASSUME StartedOnce PROVE TaskInv /\ [Next]_vars => TaskInv'
<1>. SUFFICES ASSUME TaskInv, [Next]_vars PROVE TaskInv'
  OBVIOUS
<1>1. CASE UNCHANGED vars
  BY <1>1 DEF vars, TypeOK, KindSound, StateSound, ExceptionSound,
     ContinuationsSound, WaitersSound, WaitOutcome, StoredUnlocked, Completing,
     Terminal, Ran
<1>2. CASE Call
  BY <1>2, CompleteTooLateTaskInv, CompleteTaskInv, PrepareTaskInv, StartTaskInv,
     CancelTokenTaskInv, AddContinuationTaskInv, WaitCheckTaskInv DEF Call
<1>3. ASSUME NEW t \in Threads, ThreadStep(t) PROVE TaskInv'
  <2>1. CASE CompletionStep(t)
    BY <2>1, NotifyTaskInv, SnapshotTaskInv, FinishTaskInv, RunContinuationTaskInv
       DEF CompletionStep
  <2>2. CASE t \in Starters /\ (CancelStart(t) \/ TryStart(t))
    BY <2>2, CancelStartTaskInv, TryStartTaskInv
  <2>3. CASE t = Runner /\ RunnerStep
    BY <2>3, PublishResultTaskInv, RunCheckTokenTaskInv, RunSetRunningTaskInv, RunBodyTaskInv,
       RunStoreResultTaskInv, RunCatchCanceledTaskInv, RunCatchFaultedTaskInv DEF RunnerStep
  <2>. QED
    BY <1>3, <2>1, <2>2, <2>3 DEF ThreadStep
<1>4. ASSUME NEW k \in Continuations, RunNow(k) PROVE TaskInv'
  BY <1>4, RunNowTaskInv
<1>5. ASSUME NEW w \in Waiters, WaitBlock(w) \/ SpuriousWake(w) PROVE TaskInv'
  BY <1>5, WaitBlockTaskInv, SpuriousWakeTaskInv
<1>. QED
  BY <1>1, <1>2, <1>3, <1>4, <1>5 DEF Next

(* A task started once keeps its types and its invariant, for any number   *)
(* of threads: one completer, no continuation lost or run twice.           *)
THEOREM TaskInvariant == ASSUME StartedOnce PROVE SafeSpec => []TaskInv
BY InitTaskInv, NextTaskInv, PTL DEF SafeSpec

-----------------------------------------------------------------------------
(* What each step does to the state of the task: it leaves it as it is, or *)
(* changes a state that is not terminal.                                   *)

Advances == ~Terminal(state) /\ Terminal(state') /\ UNCHANGED users
Progresses == ~Terminal(state) /\ ~Terminal(state') /\ UNCHANGED users

LEMMA CompleteAdvances ==
  ASSUME NEW t, NEW o \in Outcomes, Complete(t, o)
  PROVE  Advances
BY DEF Complete, Advances, Terminal, StateOf, Outcomes

LEMMA PublishResultAdvances ==
  ASSUME TaskInv, PublishResult
  PROVE  Advances
BY DEF PublishResult, Goto, Advances, Terminal, StateSound

LEMMA CancelStartAdvances ==
  ASSUME StartedOnce, TaskInv, NEW t \in Starters, CancelStart(t)
  PROVE  Advances
<1>1. pc[t] = "cancelStart" /\ tokenCanceled /\ kind = "func"
  BY DEF CancelStart, Goto, KindSound
<1>2. pc[Runner] = "idle"
  BY <1>1 DEF KindSound, StartedOnce
<1>3. ~Terminal(state)
  BY <1>1, <1>2, TaskAssumption DEF KindSound, StateSound, StartedOnce, Completing
<1>. QED
  BY <1>3 DEF CancelStart, Advances, Terminal

LEMMA TryStartProgresses ==
  ASSUME NEW t, TryStart(t)
  PROVE  Progresses \/ UNCHANGED <<state, users>>
BY DEF TryStart, Progresses, Terminal

LEMMA RunnerStepAdvances ==
  ASSUME TaskInv, RunnerStep
  PROVE  Advances \/ Progresses \/ UNCHANGED <<state, users>>
<1>1. CASE PublishResult
  BY <1>1, PublishResultAdvances
<1>2. CASE RunCheckToken \/ (\E o \in Outcomes : RunBody(o))
  BY <1>2 DEF RunCheckToken, RunBody
<1>3. CASE RunSetRunning
  BY <1>3 DEF RunSetRunning, Goto, Progresses, Terminal, StateSound
<1>4. CASE RunStoreResult
  BY <1>4 DEF RunStoreResult, Goto, Advances, Terminal, StateSound
<1>5. CASE RunCatch("Canceled", "setCanceled") \/ RunCatch("Faulted", "setFaulted")
  BY <1>5 DEF RunCatch, Goto, Advances, Terminal, StateSound
<1>. QED
  BY <1>1, <1>2, <1>3, <1>4, <1>5 DEF RunnerStep

(* The steps that move a waiter or a continuation, or neither.             *)
UserStep ==
  \/ \E t \in Threads, k \in Continuations : RunContinuation(t, k)
  \/ \E k \in Continuations : AddContinuation(k) \/ RunNow(k)
  \/ \E w \in Waiters : WaitCheck(w) \/ WaitBlock(w) \/ SpuriousWake(w)
  \/ \E t \in Threads : Notify(t)

LEMMA EveryStep ==
  ASSUME StartedOnce, TaskInv, [Next]_vars
  PROVE  Advances \/ Progresses \/ UserStep \/ UNCHANGED <<state, users>>
<1>1. CASE UNCHANGED vars
  BY <1>1 DEF vars
<1>2. CASE Call
  <2>1. CASE \E t \in Completers : CompleteTooLate(t)
    BY <2>1 DEF CompleteTooLate
  <2>2. CASE \E t \in Starters : Start(t)
    BY <2>2 DEF Start
  <2>3. CASE CancelToken \/ (\E o \in Outcomes : Prepare(o))
    BY <2>3 DEF CancelToken, Prepare
  <2>. QED
    BY <1>2, <2>1, <2>2, <2>3, CompleteAdvances DEF Call, UserStep
<1>3. CASE \E t \in Threads : ThreadStep(t)
  <2>1. ASSUME NEW t \in Threads, CompletionStep(t)
        PROVE  UserStep \/ UNCHANGED <<state, users>>
    <3>1. Snapshot(t) \/ Finish(t) => UNCHANGED <<state, users>>
      BY DEF Snapshot, Finish
    <3>. QED
      BY <2>1, <3>1 DEF CompletionStep, UserStep
  <2>. QED
    BY <1>3, <2>1, CancelStartAdvances, TryStartProgresses, RunnerStepAdvances
       DEF ThreadStep
<1>4. CASE \/ \E k \in Continuations : RunNow(k)
           \/ \E w \in Waiters : WaitBlock(w) \/ SpuriousWake(w)
  BY <1>4 DEF UserStep
<1>. QED
  BY <1>1, <1>2, <1>3, <1>4 DEF Next

(* A complete task keeps its state.                                        *)
THEOREM TaskKeepsState == ASSUME StartedOnce PROVE SafeSpec => StateKept
<1>1. TaskInv /\ [Next]_vars => (Terminal(state) => state' = state)
  <2>1. UserStep => state' = state
    BY DEF UserStep, RunContinuation, AddContinuation, RunNow, WaitCheck, WaitBlock,
           SpuriousWake, Notify
  <2>. QED
    BY <2>1, EveryStep DEF Advances, Progresses
<1>. QED
  BY <1>1, TaskInvariant, PTL DEF SafeSpec, StateKept

-----------------------------------------------------------------------------
(* Refinement.                                                             *)

AttachedOf(k) == IF runs[k] > 0 THEN "ran"
                 ELSE IF attach[k] = "idle" THEN "none" ELSE "pending"
Attached == [k \in Continuations |-> AttachedOf(k)]
Waited == [w \in Waiters |->
             IF wpc[w] = "idle" THEN "none"
             ELSE IF wpc[w] = "returned" THEN waitResult[w] ELSE "blocked"]

LEMMA AdvancesRefines ==
  ASSUME TaskInv, TaskInv', Advances
  PROVE  \E o \in Contract!Outcomes : Contract!Complete(o)
<1>1. OutcomeOf(state) = "none" /\ OutcomeOf(state') \in Contract!Outcomes
  BY DEF Advances, OutcomeOf, Terminal, Contract!Outcomes
<1>. QED
  BY <1>1 DEF Advances, Contract!Complete

LEMMA ProgressesRefines ==
  ASSUME Progresses \/ UNCHANGED <<state, users>>
  PROVE  UNCHANGED Contract!tvars
<1>1. OutcomeOf(state') = OutcomeOf(state)
  BY DEF Progresses, OutcomeOf, Terminal
<1>. QED
  BY <1>1 DEF Progresses, Contract!tvars

(* What Wait returns is the outcome.                                       *)
LEMMA WaitReturnsOutcome ==
  ASSUME TaskInv, Terminal(state)
  PROVE  WaitOutcome = OutcomeOf(state) /\ OutcomeOf(state) # "none"
BY DEF WaitOutcome, OutcomeOf, Terminal, ExceptionSound, TypeOK

LEMMA RanRefines ==
  ASSUME TaskInv, NEW k \in Continuations, runs[k] = 0, attach[k] # "idle",
         Terminal(state), UNCHANGED <<state, waits>>,
         runs' = [runs EXCEPT ![k] = @ + 1],
         attach' = attach \/ attach' = [attach EXCEPT ![k] = "done"]
  PROVE  Contract!Run(k)
<1>1. Attached[k] = "pending"
  BY DEF Attached, AttachedOf
<1>2. Attached' = [Attached EXCEPT ![k] = "ran"]
  <2>1. runs'[k] = 1
    BY DEF TypeOK
  <2>2. \A j \in Continuations \ {k} : runs'[j] = runs[j] /\ attach'[j] = attach[j]
    BY DEF TypeOK
  <2>3. /\ AttachedOf(k)' = "ran"
        /\ \A j \in Continuations \ {k} : AttachedOf(j)' = AttachedOf(j)
    BY <2>1, <2>2 DEF AttachedOf
  <2>. QED
    BY <2>3 DEF Attached
<1>3. OutcomeOf(state) # "none"
  BY DEF OutcomeOf, Terminal
<1>. QED
  BY <1>1, <1>2, <1>3 DEF Contract!Run, Attached, AttachedOf

LEMMA WaitCheckRefines ==
  ASSUME TaskInv, NEW w \in Waiters, WaitCheck(w)
  PROVE  Contract!Wait(w) \/ Contract!Return(w) \/ UNCHANGED Contract!tvars
<1>1. UNCHANGED <<state, attach, runs>>
  BY DEF WaitCheck
<1>2. CASE Terminal(state)
  <2>1. Waited' = [Waited EXCEPT ![w] = OutcomeOf(state)]
    BY <1>2, WaitReturnsOutcome DEF WaitCheck, Waited, TypeOK
  <2>2. Waited[w] = IF wpc[w] = "idle" THEN "none" ELSE "blocked"
    BY DEF WaitCheck, Waited
  <2>3. OutcomeOf(state) # "none"
    BY <1>2, WaitReturnsOutcome
  <2>. QED
    BY <1>1, <2>1, <2>2, <2>3 DEF WaitCheck, Contract!Wait, Contract!Return, Waited
<1>3. CASE ~Terminal(state)
  <2>1. OutcomeOf(state) = "none"
    BY <1>3 DEF OutcomeOf, Terminal
  <2>2. Waited' = [Waited EXCEPT ![w] = "blocked"]
    BY <1>3 DEF WaitCheck, Waited, TypeOK
  <2>3. CASE wpc[w] = "idle"
    <3>1. Waited[w] = "none"
      BY <2>3 DEF Waited
    <3>. QED
      BY <1>1, <2>1, <2>2, <3>1 DEF Contract!Wait, Waited
  <2>4. CASE wpc[w] = "woken"
    <3>1. Waited' = Waited
      BY <2>2, <2>4 DEF Waited
    <3>. QED
      BY <1>1, <3>1 DEF Contract!tvars, Waited
  <2>. QED
    BY <2>3, <2>4 DEF WaitCheck
<1>. QED
  BY <1>2, <1>3

LEMMA UserStepRefines ==
  ASSUME TaskInv, UserStep
  PROVE  [Contract!Next]_Contract!tvars
<1>1. ASSUME NEW t \in Threads, NEW k \in Continuations, RunContinuation(t, k)
      PROVE  Contract!Run(k)
  <2>1. runs[k] = 0 /\ attach[k] = "done" /\ Terminal(state)
    BY <1>1 DEF RunContinuation, ContinuationsSound, StateSound, Completing
  <2>. QED
    BY <1>1, <2>1, RanRefines DEF RunContinuation
<1>2. ASSUME NEW k \in Continuations, RunNow(k)
      PROVE  Contract!Run(k)
  <2>1. runs[k] = 0 /\ Terminal(state)
    BY <1>2 DEF RunNow, ContinuationsSound
  <2>. QED
    BY <1>2, <2>1, RanRefines DEF RunNow
<1>3. ASSUME NEW k \in Continuations, AddContinuation(k)
      PROVE  Contract!Attach(k)
  <2>1. runs[k] = 0
    BY <1>3 DEF AddContinuation, ContinuationsSound
  <2>2. Attached[k] = "none" /\ Attached' = [Attached EXCEPT ![k] = "pending"]
    <3>1. attach[k] = "idle" /\ attach'[k] \in {"runNow", "done"} /\ runs' = runs
      BY <1>3 DEF AddContinuation, TypeOK
    <3>2. \A j \in Continuations \ {k} : attach'[j] = attach[j]
      BY <1>3 DEF AddContinuation, TypeOK
    <3>3. AttachedOf(k) = "none" /\ AttachedOf(k)' = "pending"
      BY <2>1, <3>1 DEF AttachedOf
    <3>4. \A j \in Continuations \ {k} : AttachedOf(j)' = AttachedOf(j)
      BY <3>1, <3>2 DEF AttachedOf
    <3>. QED
      BY <3>3, <3>4 DEF Attached
  <2>. QED
    BY <1>3, <2>2 DEF AddContinuation, Contract!Attach, Attached, AttachedOf
<1>4. ASSUME NEW w \in Waiters, WaitBlock(w) \/ SpuriousWake(w)
      PROVE  UNCHANGED Contract!tvars
  <2>1. Waited' = Waited
    BY <1>4 DEF WaitBlock, SpuriousWake, Waited, TypeOK
  <2>. QED
    BY <1>4, <2>1 DEF WaitBlock, SpuriousWake, Contract!tvars, Waited
<1>5. ASSUME NEW t \in Threads, Notify(t)
      PROVE  UNCHANGED Contract!tvars
  <2>1. Waited' = Waited
    BY <1>5 DEF Notify, Waited, TypeOK
  <2>. QED
    BY <1>5, <2>1 DEF Notify, Contract!tvars, Waited
<1>. QED
  BY <1>1, <1>2, <1>3, <1>4, <1>5, WaitCheckRefines DEF UserStep, Contract!Next

(* A task started once keeps the safety part of the contract: one outcome, *)
(* kept for good; continuations once and after it; Wait returns it.        *)
THEOREM TaskRefinesContract ==
  ASSUME StartedOnce PROVE SafeSpec => ImplementsTaskSafely
<1>1. Init => Contract!Init
  BY DEF Init, OutcomeOf, Contract!Init
<1>2. TaskInv /\ TaskInv' /\ [Next]_vars => [Contract!Next]_Contract!tvars
  BY EveryStep, AdvancesRefines, ProgressesRefines, UserStepRefines
     DEF Contract!Next
<1>. QED
  BY <1>1, <1>2, InitTaskInv, NextTaskInv, PTL DEF SafeSpec, ImplementsTaskSafely,
     Contract!SafeSpec
=============================================================================

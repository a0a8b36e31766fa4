---------------------------- MODULE DataFlowBlock ----------------------------
(***************************************************************************)
(* A dataflow: a DAG of DataFlowBlockCommon (Detail/DataFlow), the blocks  *)
(* behind ActionBlock and TransformBlock, which forward every call.        *)
(*                                                                         *)
(* Each block has a processing task, which takes items from the input of   *)
(* the block, transforms them and offers the results to the successors.    *)
(* The user starts the first block, adds items to it and completes it.     *)
(* Completion and faults travel down the DAG in the thread of the caller,  *)
(* which holds the lock of every block on its way; a block whose transform *)
(* throws starts a thread that faults it.                                  *)
(*                                                                         *)
(* The input is taken for what AsyncCollection shows it to be: one step    *)
(* adds an item and wakes the task.  An item and what it is transformed to *)
(* are one value.  Blocks stay alive as long as the flow does.             *)
(***************************************************************************)
EXTENDS Integers, Sequences, FiniteSets, SequencesExt

CONSTANTS Blocks,
          First,        (* the block the user calls                        *)
          Successors,   (* Successors[b]: _outputNodes, in their order     *)
          Accepts,      (* Accepts[b]: the items _canAcceptFunc lets in    *)
          Items,        (* what the user adds, each by a call of its own   *)
          MayFail       (* <<b, i>>: the transform of b may throw on i     *)

User == "user"
Callers == Blocks \cup {User}   (* b: the thread that faults b             *)

Predecessors(b) == {a \in Blocks : b \in ToSet(Successors[a])}

ASSUME FlowAssumption ==
  /\ IsFiniteSet(Blocks) /\ First \in Blocks /\ User \notin Blocks
  /\ Successors \in [Blocks -> Seq(Blocks)]
  /\ \A b \in Blocks : IsInjective(Successors[b])
  /\ Accepts \in [Blocks -> SUBSET Items]
  /\ MayFail \subseteq Blocks \X Items
  /\ \A b \in Blocks : b = First <=> Predecessors(b) = {}

VARIABLES
  state,        (* state[b]: _state                                        *)
  startCalls,   (* startCalls[b]: _startCallsCount                         *)
  canceled,     (* canceled[b]: _processingCts                             *)
  queue,        (* queue[b]: _inputItems                                   *)
  ppc,          (* ppc[b]: where runProcessingTask of b is                 *)
  inHand,       (* inHand[b]: the items it took and has not passed on      *)
  draining,     (* draining[b]: they come from TryTakeAll                  *)
  asked,        (* asked[b]: the successors CanAcceptInput is yet to ask   *)
  targets,      (* targets[b]: those that are yet to be given the item     *)
  completion,   (* completion[b]: _completedTaskPromise                    *)
  accepted,     (* accepted[b]: what was added to the input so far         *)
  processed,    (* processed[b]: what was transformed so far               *)
  upc,          (* upc[i]: the user's AcceptInputAsync of i                *)
  stack,        (* stack[c]: the calls of Complete or SetFaulted c is in   *)
  answer,       (* what the user's Complete came to                        *)
  promised,     (* the items that were in before the user called it        *)
  terminated    (* std::terminate was called                               *)

task == <<ppc, inHand, draining, asked, targets>>
input == <<queue, accepted>>
control == <<state, startCalls, canceled, completion>>
user == <<upc, answer, promised>>
vars == <<control, task, input, processed, user, stack, terminated>>

Frame == [block : Blocks, exceptional : BOOLEAN, raising : BOOLEAN,
          phase : {"lock", "cancel", "wake", "wait", "finally"},
          todo : Seq(Blocks)]

(* The types of the variables.                                             *)
TypeOK ==
  /\ state \in [Blocks -> {"Created", "Started", "Stopping", "Stopped"}]
  /\ startCalls \in [Blocks -> Int]
  /\ canceled \in [Blocks -> BOOLEAN]
  /\ queue \in [Blocks -> Seq(Items)]
  /\ ppc \in [Blocks -> {"await", "loop", "take", "waiting", "granted",
                         "transform", "offer", "add", "ended", "failed"}]
  /\ inHand \in [Blocks -> Seq(Items)]
  /\ draining \in [Blocks -> BOOLEAN]
  /\ asked \in [Blocks -> Seq(Blocks)]
  /\ targets \in [Blocks -> Seq(Blocks)]
  /\ completion \in [Blocks -> {"none", "result", "error"}]
  /\ accepted \in [Blocks -> Seq(Items)]
  /\ processed \in [Blocks -> Seq(Items)]
  /\ upc \in [Items -> {"idle", "checked", "accepted", "threw"}]
  /\ stack \in [Callers -> Seq(Frame)]
  /\ answer \in {"none", "returned", "threw"}
  /\ promised \in SUBSET Items
  /\ terminated \in BOOLEAN

Init == /\ state = [b \in Blocks |-> "Created"]
        /\ startCalls = [b \in Blocks |-> 0]
        /\ canceled = [b \in Blocks |-> FALSE]
        /\ queue = [b \in Blocks |-> <<>>]
        /\ ppc = [b \in Blocks |-> "await"]
        /\ inHand = [b \in Blocks |-> <<>>]
        /\ draining = [b \in Blocks |-> FALSE]
        /\ asked = [b \in Blocks |-> <<>>]
        /\ targets = [b \in Blocks |-> <<>>]
        /\ completion = [b \in Blocks |-> "none"]
        /\ accepted = [b \in Blocks |-> <<>>]
        /\ processed = [b \in Blocks |-> <<>>]
        /\ upc = [i \in Items |-> "idle"]
        /\ stack = [c \in Callers |-> <<>>]
        /\ answer = "none"
        /\ promised = {}
        /\ terminated = FALSE

(* _stateMutex of b is held by the callers of completeCommon.              *)
Holds(c, b) ==
  \E n \in 1..Len(stack[c]) : stack[c][n].block = b /\ stack[c][n].phase # "lock"
Unlocked(b) == \A c \in Callers : ~Holds(c, b)

-----------------------------------------------------------------------------
(* Start of the first block starts every block, each as often as it has    *)
(* predecessors; nothing sees the flow half started, as _startTask of a    *)
(* block completes last and the locks are held until then.                 *)
Starts(b) == IF b = First THEN 1 ELSE Cardinality(Predecessors(b))

Start ==
  /\ state[First] = "Created" /\ Unlocked(First)
  /\ startCalls' = [b \in Blocks |-> startCalls[b] + Starts(b)]
  /\ state' = [b \in Blocks |-> "Started"]
  /\ ppc' = [b \in Blocks |-> "loop"]
  /\ UNCHANGED <<canceled, completion, inHand, draining, asked, targets, input,
                 processed, user, stack, terminated>>

-----------------------------------------------------------------------------
(* AcceptInputAsync: throwIfNotStarted, and, the lock released, Add.       *)

Woken(at) == IF at = "waiting" THEN "granted" ELSE at

AddTo(b, i) == /\ queue' = [queue EXCEPT ![b] = Append(@, i)]
               /\ accepted' = [accepted EXCEPT ![b] = Append(@, i)]

CheckStarted(i) ==
  /\ upc[i] = "idle" /\ Unlocked(First)
  /\ upc' = [upc EXCEPT ![i] =
                          IF state[First] = "Started" THEN "checked" ELSE "threw"]
  /\ UNCHANGED <<control, task, input, processed, stack, answer, promised,
                 terminated>>

Add(i) ==
  /\ upc[i] = "checked"
  /\ upc' = [upc EXCEPT ![i] = "accepted"]
  /\ AddTo(First, i)
  /\ ppc' = [ppc EXCEPT ![First] = Woken(@)]
  /\ UNCHANGED <<control, inHand, draining, asked, targets, processed, stack, answer,
                 promised, terminated>>

-----------------------------------------------------------------------------
(* runProcessingTask.                                                      *)

TestTokenCopying(b) ==
  /\ ppc[b] = "loop"
  /\ IF ~canceled[b]
       THEN ppc' = [ppc EXCEPT ![b] = "take"] /\ UNCHANGED <<inHand, draining>>
       ELSE /\ inHand' = [inHand EXCEPT ![b] = queue[b]]
            /\ draining' = [draining EXCEPT ![b] = TRUE]
            /\ ppc' = [ppc EXCEPT ![b] = IF queue[b] = <<>> THEN "ended"
                                                            ELSE "transform"]
  /\ UNCHANGED <<control, asked, targets, input, processed, user, stack, terminated>>

(* The loop tests the token; once it is canceled, TryTakeAll.              *)
TestToken(b) ==
  /\ ppc[b] = "loop"
  /\ IF ~canceled[b]
       THEN /\ ppc' = [ppc EXCEPT ![b] = "take"]
            /\ UNCHANGED <<queue, inHand, draining>>
       ELSE /\ queue' = [queue EXCEPT ![b] = <<>>]
            /\ inHand' = [inHand EXCEPT ![b] = queue[b]]
            /\ draining' = [draining EXCEPT ![b] = TRUE]
            /\ ppc' = [ppc EXCEPT ![b] = IF queue[b] = <<>> THEN "ended"
                                                            ELSE "transform"]
  /\ UNCHANGED <<control, asked, targets, accepted, processed, user, stack,
                 terminated>>

(* TakeAsync: an item is there, or the token is canceled, or it waits.     *)
TakeBegin(b) ==
  /\ ppc[b] = "take"
  /\ ppc' = [ppc EXCEPT ![b] = IF queue[b] # <<>> THEN "granted"
                               ELSE IF canceled[b] THEN "loop" ELSE "waiting"]
  /\ UNCHANGED <<control, inHand, draining, asked, targets, input, processed, user,
                 stack, terminated>>

TakeEnd(b) ==
  /\ ppc[b] = "granted"
  /\ ppc' = [ppc EXCEPT ![b] = "transform"]
  /\ inHand' = [inHand EXCEPT ![b] = <<Head(queue[b])>>]
  /\ queue' = [queue EXCEPT ![b] = Tail(@)]
  /\ UNCHANGED <<control, draining, asked, targets, accepted, processed, user, stack,
                 terminated>>

Transform(b) ==
  /\ ppc[b] = "transform"
  /\ processed' = [processed EXCEPT ![b] = Append(@, Head(inHand[b]))]
  /\ ppc' = [ppc EXCEPT ![b] = "offer"]
  /\ asked' = [asked EXCEPT ![b] = Successors[b]]
  /\ UNCHANGED <<control, inHand, draining, targets, input, user, stack, terminated>>

Call(b, exceptional) == [block |-> b, exceptional |-> exceptional, raising |-> FALSE,
                         phase |-> "lock", todo |-> <<>>]

(* The transform throws: a thread is started to fault the block, and the   *)
(* exception is the outcome of the processing task.                        *)
TransformFails(b) ==
  /\ ppc[b] = "transform"
  /\ <<b, Head(inHand[b])>> \in MayFail
  /\ ppc' = [ppc EXCEPT ![b] = "failed"]
  /\ stack' = [stack EXCEPT ![b] = <<Call(b, TRUE)>>]
  /\ UNCHANGED <<control, inHand, draining, asked, targets, input, processed, user,
                 terminated>>

CanAcceptInput(s, i) == state[s] = "Started" /\ i \in Accepts[s]

(* propagateOutput: first CanAcceptInput of every successor.               *)
AskSuccessor(b) ==
  /\ ppc[b] = "offer" /\ asked[b] # <<>>
  /\ LET s == Head(asked[b]) IN
       /\ Unlocked(s)
       /\ targets' = [targets EXCEPT ![b] =
                        IF CanAcceptInput(s, Head(inHand[b])) THEN Append(@, s)
                                                              ELSE @]
  /\ asked' = [asked EXCEPT ![b] = Tail(@)]
  /\ UNCHANGED <<control, ppc, inHand, draining, input, processed, user, stack,
                 terminated>>

(* Then AcceptInputAsync of those that can, in two steps again.  If one    *)
(* has stopped meanwhile, the exception is left in a task that nobody      *)
(* looks at, and the item is not offered to the rest.                      *)
OfferCheck(b) ==
  /\ ppc[b] = "offer" /\ asked[b] = <<>> /\ targets[b] # <<>>
  /\ Unlocked(Head(targets[b]))
  /\ IF state[Head(targets[b])] = "Started"
       THEN ppc' = [ppc EXCEPT ![b] = "add"] /\ UNCHANGED targets
       ELSE targets' = [targets EXCEPT ![b] = <<>>] /\ UNCHANGED ppc
  /\ UNCHANGED <<control, inHand, draining, asked, input, processed, user, stack,
                 terminated>>

OfferAdd(b) ==
  /\ ppc[b] = "add"
  /\ LET s == Head(targets[b]) IN
       /\ AddTo(s, Head(inHand[b]))
       /\ ppc' = [ppc EXCEPT ![b] = "offer", ![s] = Woken(@)]
  /\ targets' = [targets EXCEPT ![b] = Tail(@)]
  /\ UNCHANGED <<control, inHand, draining, asked, processed, user, stack,
                 terminated>>

(* The next item of the batch, the next turn of the loop, or the end.      *)
Passed(b) ==
  /\ ppc[b] = "offer" /\ asked[b] = <<>> /\ targets[b] = <<>>
  /\ inHand' = [inHand EXCEPT ![b] = Tail(@)]
  /\ ppc' = [ppc EXCEPT ![b] = IF ~draining[b] THEN "loop"
                               ELSE IF Len(inHand[b]) = 1 THEN "ended"
                               ELSE "transform"]
  /\ UNCHANGED <<control, draining, asked, targets, input, processed, user, stack,
                 terminated>>

-----------------------------------------------------------------------------
(* Complete and SetFaulted: completeCommon under the lock of the block.    *)

Top(c) == Last(stack[c])
At(c, phase) == stack[c] # <<>> /\ Top(c).phase = phase
Return(c) == stack' = [stack EXCEPT ![c] = Front(@)]
SetTop(c, frame) == stack' = [stack EXCEPT ![c] = Append(Front(@), frame)]
GoOn(c, phase) == SetTop(c, [Top(c) EXCEPT !.phase = phase])

(* The user's call has left the stack: what it came to.                    *)
Answered(c, a) ==
  answer' = IF c = User /\ Len(stack[c]) = 1 THEN a ELSE answer

UserComplete ==
  /\ answer = "none" /\ stack[User] = <<>>
  /\ stack' = [stack EXCEPT ![User] = <<Call(First, FALSE)>>]
  /\ promised' = {i \in Items : upc[i] = "accepted"}
  /\ UNCHANGED <<control, task, input, processed, upc, answer, terminated>>

EnterWhen(c, early) ==
  LET b == Top(c).block
  IN  /\ startCalls' = [startCalls EXCEPT ![b] = @ - 1]
      /\ IF early \/ state[b] = "Created"
           THEN /\ Return(c)
                /\ Answered(c, IF early THEN "returned" ELSE "threw")
                /\ UNCHANGED state
           ELSE /\ state' = [state EXCEPT ![b] = "Stopping"]
                /\ GoOn(c, "cancel")
                /\ UNCHANGED answer
      /\ UNCHANGED <<canceled, completion, task, input, processed, upc, promised,
                     terminated>>

CountsDown(c) == startCalls[Top(c).block] > 1 /\ ~Top(c).exceptional

EnterEagerly(c) ==
  /\ At(c, "lock") /\ Unlocked(Top(c).block)
  /\ EnterWhen(c, state[Top(c).block] = "Stopped")

(* One call counts for each Start, a fault for all; a block never started  *)
(* throws, a stopped one is left alone.                                    *)
Enter(c) ==
  /\ At(c, "lock") /\ Unlocked(Top(c).block)
  /\ EnterWhen(c, CountsDown(c) \/ state[Top(c).block] = "Stopped")

CancelProcessing(c) ==
  /\ At(c, "cancel")
  /\ canceled' = [canceled EXCEPT ![Top(c).block] = TRUE]
  /\ GoOn(c, "wake")
  /\ UNCHANGED <<state, startCalls, completion, task, input, processed, user,
                 terminated>>

WakeNobody(c) == /\ At(c, "wake")
                 /\ GoOn(c, "wait")
                 /\ UNCHANGED <<control, task, input, processed, user, terminated>>

(* The callback of the token ends the wait of TakeAsync.                   *)
WakeProcessing(c) ==
  /\ At(c, "wake")
  /\ ppc' = [ppc EXCEPT ![Top(c).block] = IF @ = "waiting" THEN "loop" ELSE @]
  /\ GoOn(c, "wait")
  /\ UNCHANGED <<control, inHand, draining, asked, targets, input, processed, user,
                 terminated>>

(* What the wait for the processing task leads to: the completion is set,  *)
(* or, when it failed, Wait throws and the completion is left as it is;    *)
(* FinallyBlock stops the block in both cases and turns to the successors. *)
Conclude(c) ==
  LET b == Top(c).block
      failed == ppc[b] = "failed"
  IN  /\ completion' = [completion EXCEPT ![b] =
                          IF failed \/ @ # "none" THEN @
                          ELSE IF Top(c).exceptional THEN "error" ELSE "result"]
      /\ state' = [state EXCEPT ![b] = "Stopped"]
      /\ SetTop(c, [Top(c) EXCEPT !.phase = "finally", !.raising = failed,
                                  !.todo = Successors[b]])
      /\ UNCHANGED <<startCalls, canceled, task, input, processed, user, terminated>>

ConcludeAtOnce(c) == At(c, "wait") /\ Conclude(c)

WaitProcessing(c) ==
  /\ At(c, "wait") /\ ppc[Top(c).block] \in {"ended", "failed"}
  /\ Conclude(c)

NotifyNext(c) ==
  /\ At(c, "finally") /\ Top(c).todo # <<>>
  /\ stack' = [stack EXCEPT ![c] =
                 Append(Front(@), [Top(c) EXCEPT !.todo = Tail(@)])
                   \o <<Call(Head(Top(c).todo), Top(c).exceptional)>>]
  /\ UNCHANGED <<control, task, input, processed, user, terminated>>

(* An exception that no one can catch: it would leave the destructor of a  *)
(* FinallyBlock, or the function of a thread.                              *)
Uncaught(c) == Top(c).raising /\ (c # User \/ Len(stack[c]) > 1)

Leave(c) ==
  /\ At(c, "finally") /\ Top(c).todo = <<>> /\ ~Uncaught(c)
  /\ Return(c)
  /\ Answered(c, IF Top(c).raising THEN "threw" ELSE "returned")
  /\ UNCHANGED <<control, task, input, processed, upc, promised, terminated>>

(* std::terminate, before, while or after the stack is unwound: the build  *)
(* decides.                                                                *)
Terminate(c) ==
  /\ At(c, "finally") /\ Uncaught(c)
  /\ terminated' = TRUE
  /\ UNCHANGED <<control, task, input, processed, user, stack>>

-----------------------------------------------------------------------------
ProcessingStep(b) ==
  \/ TestToken(b) \/ TakeBegin(b) \/ TakeEnd(b) \/ Transform(b) \/ TransformFails(b)
  \/ AskSuccessor(b) \/ OfferCheck(b) \/ OfferAdd(b) \/ Passed(b)

CallStep(c) ==
  \/ Enter(c) \/ CancelProcessing(c) \/ WakeProcessing(c) \/ WaitProcessing(c)
  \/ NotifyNext(c) \/ Leave(c) \/ Terminate(c)

Next == /\ ~terminated
        /\ \/ Start
           \/ \E i \in Items : CheckStarted(i) \/ Add(i)
           \/ UserComplete
           \/ \E b \in Blocks : ProcessingStep(b)
           \/ \E c \in Callers : CallStep(c)

SafeSpec == Init /\ [][Next]_vars

(* The pool runs the processing tasks, threads run, locks are passed on.   *)
Fairness == /\ \A b \in Blocks : WF_vars(~terminated /\ ProcessingStep(b))
            /\ \A c \in Callers : WF_vars(~terminated /\ CallStep(c))

Spec == SafeSpec /\ Fairness

-----------------------------------------------------------------------------
Failed == \E b \in Blocks : ppc[b] = "failed"
UserCalled == answer # "none" \/ stack[User] # <<>>

(* Every item added to a block is processed, in hand or in the queue, in   *)
(* the order of the additions: none is lost, doubled or overtaken, the     *)
(* move from the loop to TryTakeAll included.                              *)
Pending(b) == IF ppc[b] \in {"offer", "add"} THEN Tail(inHand[b]) ELSE inHand[b]

InOrder == \A b \in Blocks : accepted[b] = processed[b] \o Pending(b) \o queue[b]

(* Nobody sees the flow half started.                                      *)
StartSound ==
  \A b \in Blocks : /\ state[b] = "Created" <=> state[First] = "Created"
                    /\ ppc[b] = "await" <=> state[First] = "Created"

(* The processing task: what it holds where, and how far it can be while   *)
(* its block stops.                                                        *)
TaskFits(b) ==
  /\ inHand[b] # <<>> <=> ppc[b] \in {"transform", "offer", "add", "failed"}
  /\ ~draining[b] => Len(inHand[b]) <= 1
  /\ ppc[b] \in {"await", "loop", "take", "waiting", "granted"} => ~draining[b]
  /\ ppc[b] = "granted" => queue[b] # <<>>
  /\ ppc[b] = "ended" => draining[b]
  /\ draining[b] => canceled[b]
  /\ canceled[b] => state[b] \in {"Stopping", "Stopped"}
  /\ state[b] = "Stopped" => ppc[b] \in {"ended", "failed"}
  /\ completion[b] # "none" => state[b] = "Stopped"

TaskSound == \A b \in Blocks : TaskFits(b)

(* The offers of an item: a successor is asked once, and is given the item *)
(* at most once, if it accepts it.                                         *)
OfferFits(b) ==
  /\ asked[b] # <<>> => ppc[b] = "offer"
  /\ targets[b] # <<>> => ppc[b] \in {"offer", "add"}
  /\ ppc[b] = "add" => targets[b] # <<>> /\ asked[b] = <<>>
  /\ IsInjective(asked[b]) /\ IsInjective(targets[b])
  /\ ToSet(asked[b]) \cap ToSet(targets[b]) = {}
  /\ ToSet(asked[b]) \cup ToSet(targets[b]) \subseteq ToSet(Successors[b])
  /\ \A s \in ToSet(targets[b]) : Head(inHand[b]) \in Accepts[s]

OfferSound == \A b \in Blocks : OfferFits(b)

(* The calls of Complete and SetFaulted: a call below the top of the stack *)
(* is notifying successors, a block that stops is locked, and only a       *)
(* failed block starts a thread.                                           *)
CallFits(c, n) ==
  LET call == stack[c][n]
  IN  /\ n < Len(stack[c]) => call.phase = "finally"
      /\ call.phase \in {"cancel", "wake", "wait"} => state[call.block] = "Stopping"
      /\ call.phase = "finally" => state[call.block] = "Stopped"
      /\ call.todo # <<>> => call.phase = "finally"
      /\ IsInjective(call.todo)
      /\ ToSet(call.todo) \subseteq ToSet(Successors[call.block])
      /\ c \in Blocks => ppc[c] = "failed"
      /\ c = User /\ n = 1 => call.block = First
      /\ call.exceptional => Failed

StackSound == \A c \in Callers : \A n \in 1..Len(stack[c]) : CallFits(c, n)

(* A block has one owner of its lock.                                      *)
LockSound ==
  \A c, d \in Callers : \A m \in 1..Len(stack[c]), n \in 1..Len(stack[d]) :
    /\ stack[c][m].block = stack[d][n].block
    /\ stack[c][m].phase # "lock" /\ stack[d][n].phase # "lock"
    => c = d /\ m = n

(* The calls of Complete that b can still expect: from predecessors that   *)
(* have not come to it, or from the user.                                  *)
ToNotify(a, b) ==
  \E c \in Callers : \E n \in 1..Len(stack[c]) :
    stack[c][n].block = a /\ b \in ToSet(stack[c][n].todo)

Remaining(b) == {a \in Predecessors(b) : state[a] # "Stopped" \/ ToNotify(a, b)}
Expected(b) == IF b # First THEN Cardinality(Remaining(b))
               ELSE IF UserCalled THEN 0 ELSE 1
Asking(b) == {c \in Callers : At(c, "lock") /\ Top(c).block = b}

(* _startCallsCount counts the calls that are expected and the threads     *)
(* that are at it, less the one call for which nobody has called Start.    *)
CountFits(b) ==
  startCalls[b] = Expected(b) + Cardinality(Asking(b))
                    - (IF ppc[b] = "failed" THEN 1 ELSE 0)
                    - (IF state[First] = "Created" THEN Starts(b) ELSE 0)

CountSound == \A b \in Blocks : CountFits(b)

(* As long as no transform throws, a block stops with the last call that   *)
(* is expected, hence after all of its predecessors, and completes with    *)
(* success.                                                                *)
OrderSound ==
  ~Failed => \A b \in Blocks :
    /\ state[b] \in {"Stopping", "Stopped"} => Expected(b) = 0
    /\ state[b] = "Stopped" => completion[b] = "result"

(* How often an item comes up in a sequence, and in what the predecessors  *)
(* of b have processed; and which of them still offer it to b.             *)
Positions(i, s) == {n \in 1..Len(s) : s[n] = i}
Count(i, s) == Cardinality(Positions(i, s))

PassedOn(b, i) == UNION {{a} \X Positions(i, processed[a]) : a \in Predecessors(b)}
Offering(b, i) ==
  {a \in Predecessors(b) : /\ ppc[a] \in {"offer", "add"} /\ Head(inHand[a]) = i
                           /\ b \in ToSet(asked[a]) \cup ToSet(targets[a])}

(* As long as no transform throws, what predecessors process is accepted,  *)
(* or on offer.                                                            *)
ArriveFits(b, i) ==
  IF i \in Accepts[b]
    THEN Count(i, accepted[b]) + Cardinality(Offering(b, i)) = Cardinality(PassedOn(b, i))
    ELSE Count(i, accepted[b]) = 0

ArriveSound ==
  /\ \A i \in Items : Count(i, accepted[First]) = IF upc[i] = "accepted" THEN 1 ELSE 0
  /\ ~Failed => \A b \in Blocks \ {First}, i \in Items : ArriveFits(b, i)

(* TryTakeAll is the last word: what comes after it comes to the first     *)
(* block only, and was not in the flow when the user called Complete.      *)
DrainFits(b) ==
  draining[b] => \A n \in 1..Len(queue[b]) : b = First /\ queue[b][n] \notin promised

DrainSound == /\ \A i \in promised : upc[i] = "accepted"
              /\ ~Failed => \A b \in Blocks : DrainFits(b)

(* The types, the order, and what they rest on; however often the user     *)
(* calls Complete.                                                         *)
TaskInv == /\ TypeOK /\ InOrder /\ StartSound /\ TaskSound /\ OfferSound
           /\ StackSound /\ LockSound

(* With what comes of the one call of the user: the invariant that is      *)
(* inductive.                                                              *)
FlowInv == TaskInv /\ CountSound /\ OrderSound /\ ArriveSound /\ DrainSound

(* Once its completion is set, or the block has stopped, it transforms     *)
(* nothing more: Complete waits for the processing task.                   *)
SettledIsFinal ==
  [][\A b \in Blocks : state[b] = "Stopped" \/ completion[b] # "none"
                         => processed'[b] = processed[b]]_vars

(* "When finalAction (last block) completes, all data were processed": the *)
(* first block has processed every item that was in the flow when the user *)
(* called Complete, once; and every other block, as often as all of its    *)
(* predecessors together, which are complete, too - so once for every path *)
(* to it that accepts the item.                                            *)
EverythingArrives ==
  \A b \in Blocks : completion[b] = "result" =>
    /\ b = First => \A i \in promised : Count(i, processed[b]) = 1
    /\ b # First => \A i \in Items :
         Count(i, processed[b]) =
           IF i \in Accepts[b] THEN Cardinality(PassedOn(b, i)) ELSE 0
    /\ \A a \in Predecessors(b) : completion[a] = "result"

(* That holds as long as no transform throws, however the blocks race.     *)
ArrivesUnlessFailed == Failed \/ EverythingArrives

(* Completing the first block completes every block, if no transform       *)
(* throws.                                                                 *)
AllComplete ==
  state[First] = "Stopping" ~>
    Failed \/ terminated \/ \A b \in Blocks : completion[b] # "none"

(* Nobody waits for ever: the threads that complete or fault blocks come   *)
(* back from it, with the locks they took, and again and again nobody is   *)
(* inside such a call; or the program ends.                                *)
CallsReturn == []<>(terminated \/ \A c \in Callers : stack[c] = <<>>)
=============================================================================

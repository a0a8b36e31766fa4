-------------------------------- MODULE Actor --------------------------------
(***************************************************************************)
(* An actor (Actors/SimpleActor.h, Actors/ReplyActor.h): a dataflow of one *)
(* ActionBlock, started by the constructor, whose action is the handler.   *)
(*                                                                         *)
(* kind = "simple": Tell; what the handler throws faults the block.        *)
(* kind = "reply": Ask; each message carries a promise, which takes what   *)
(* the handler returns or throws.  Either keeps _state, which the handler  *)
(* is given and replaces; a stateless actor is one that ignores it.        *)
(*                                                                         *)
(* A handler may send a message of its own to its actor before it returns. *)
(* An async handler is awaited before the next message is taken, so that   *)
(* nobody sees it half done: it is one step here, like a sync one.         *)
(***************************************************************************)
EXTENDS DataFlowBlock

CONSTANTS FollowUp,   (* FollowUp[m]: the messages m's handler sends, <<>> *)
                      (* or one                                            *)
          MayThrow    (* the messages whose handler may throw              *)

Queue == First
FollowUps == UNION {ToSet(FollowUp[m]) : m \in Items}

ASSUME ActorAssumption ==
  /\ Blocks = {Queue} /\ Successors[Queue] = <<>>
  /\ FollowUp \in [Items -> {<<>>} \cup {<<m>> : m \in Items}]
  /\ MayFail = Blocks \X Items
  /\ MayThrow \subseteq Items

VARIABLES kind,     (* "simple" or "reply", "none" before it is created    *)
          memory,   (* _state: the messages it is made of, in their order  *)
          reply,    (* reply[m]: what became of the promise sent with m    *)
          dtor      (* how far the destructor is                           *)

avars == <<vars, kind, memory, reply, dtor>>
actor == <<kind, memory, reply, dtor>>

NoReply == [is |-> "none", seen |-> <<>>]

ActorInit == /\ Init
             /\ kind = "none"
             /\ memory = <<>>
             /\ reply = [m \in Items |-> NoReply]
             /\ dtor = "none"

(* The constructor starts the queue.                                       *)
Construct(k) == /\ kind = "none" /\ kind' = k
                /\ Start
                /\ UNCHANGED <<memory, reply, dtor>>

CreateSimpleActor == Construct("simple")
CreateReplyActor == Construct("reply")

-----------------------------------------------------------------------------
(* AcceptInputAsync, in its two steps.  Several threads may be at it; none *)
(* of them once the actor is being destroyed.                              *)
Send(m) == /\ kind # "none" /\ dtor = "none"
           /\ m \notin FollowUps
           /\ CheckStarted(m) \/ Add(m)
           /\ UNCHANGED actor

Tell(m) == kind = "simple" /\ Send(m)

(* The task that Ask returns is that of the promise sent with the message. *)
Ask(m) == kind = "reply" /\ Send(m)

-----------------------------------------------------------------------------
(* The handler.                                                            *)

Handling == ppc[Queue] = "transform"
Message == Head(inHand[Queue])

(* It sends its own message first; a message that is refused is thrown     *)
(* back at the handler.                                                    *)
SendFollowUp == /\ Handling
                /\ \E m \in ToSet(FollowUp[Message]) : CheckStarted(m) \/ Add(m)
                /\ UNCHANGED actor

Sent == \A m \in ToSet(FollowUp[Message]) : upc[m] = "accepted"
Refused == \E m \in ToSet(FollowUp[Message]) : upc[m] = "threw"

Promise(answerIs) ==
  reply' = IF kind = "reply" THEN [reply EXCEPT ![Message] = answerIs] ELSE reply

ReturnsForgetful == /\ Handling /\ Sent
                    /\ Transform(Queue)
                    /\ memory' = <<Message>>
                    /\ Promise([is |-> "value", seen |-> memory])
                    /\ UNCHANGED <<kind, dtor>>

(* The handler returns: the new state is stored, then the promise is kept. *)
Returns == /\ Handling /\ Sent
           /\ Transform(Queue)
           /\ memory' = Append(memory, Message)
           /\ Promise([is |-> "value", seen |-> memory])
           /\ UNCHANGED <<kind, dtor>>

MayRaise == Handling /\ (Refused \/ (Sent /\ Message \in MayThrow))

ThrowsUnanswered == /\ kind = "reply" /\ MayRaise
                    /\ Transform(Queue)
                    /\ UNCHANGED actor

(* It throws: the promise takes the exception, the state stays, and the    *)
(* queue is none the wiser.                                                *)
ThrowsAtAsker == /\ kind = "reply" /\ MayRaise
                 /\ Transform(Queue)
                 /\ Promise([is |-> "error", seen |-> memory])
                 /\ UNCHANGED <<kind, memory, dtor>>

(* Without a promise the exception is the end of the queue.                *)
ThrowsAtQueue == /\ kind = "simple" /\ MayRaise
                 /\ TransformFails(Queue)
                 /\ UNCHANGED actor

-----------------------------------------------------------------------------
(* Complete, and the destructor: Complete once more, then the completion   *)
(* is waited for, unless Complete has thrown.                              *)

Complete == /\ kind # "none" /\ dtor = "none"
            /\ UserComplete
            /\ UNCHANGED actor

Destroy == /\ kind # "none" /\ dtor = "none"
           /\ stack[User] = <<>>
           /\ \A m \in Items \ FollowUps : upc[m] # "checked"
           /\ dtor' = "completing"
           /\ stack' = [stack EXCEPT ![User] = <<Call(Queue, FALSE)>>]
           /\ answer' = "none"
           /\ UNCHANGED <<control, task, input, processed, upc, promised, terminated,
                          kind, memory, reply>>

DestroyWaitAlways ==
  /\ dtor = "completing" /\ answer # "none"
  /\ dtor' = "waiting"
  /\ UNCHANGED <<vars, kind, memory, reply>>

DestroyWait == /\ dtor = "completing" /\ answer # "none"
               /\ dtor' = IF answer = "threw" THEN "done" ELSE "waiting"
               /\ UNCHANGED <<vars, kind, memory, reply>>

DestroyEnd == /\ dtor = "waiting" /\ completion[Queue] # "none"
              /\ dtor' = "done"
              /\ UNCHANGED <<vars, kind, memory, reply>>

-----------------------------------------------------------------------------
ProcessMessage ==
  \/ SendFollowUp \/ Returns \/ ThrowsAtAsker \/ ThrowsAtQueue
  \/ /\ \/ TestToken(Queue) \/ TakeBegin(Queue) \/ TakeEnd(Queue) \/ Passed(Queue)
     /\ UNCHANGED actor

CompleteStep(c) == CallStep(c) /\ UNCHANGED actor

ActorNext == /\ ~terminated
             /\ \/ CreateSimpleActor \/ CreateReplyActor
                \/ \E m \in Items : Tell(m) \/ Ask(m)
                \/ ProcessMessage
                \/ Complete \/ Destroy \/ DestroyWait \/ DestroyEnd
                \/ \E c \in Callers : CompleteStep(c)

(* The pool runs the handler and the rest of the processing task, threads  *)
(* run, locks are passed on.                                               *)
ActorFairness ==
  /\ WF_avars(~terminated /\ ProcessMessage)
  /\ WF_avars(~terminated /\ (DestroyWait \/ DestroyEnd))
  /\ \A c \in Callers : WF_avars(~terminated /\ CompleteStep(c))

ActorSafeSpec == ActorInit /\ [][ActorNext]_avars

ActorSpec == ActorSafeSpec /\ ActorFairness

-----------------------------------------------------------------------------
(* The state that the n-th message of a sequence finds: what the handler   *)
(* of the one before has returned, or was given if it has thrown.          *)
StateAfter(m) == IF reply[m].is = "value" THEN Append(reply[m].seen, m)
                                          ELSE reply[m].seen
StateBefore(s, n) == IF n = 1 THEN <<>> ELSE StateAfter(s[n - 1])

(* The answers are what one message after the other makes of them: Ask is  *)
(* answered from the state that the message accepted before has left, and  *)
(* that one is answered then, and so on to the first; a message that       *)
(* fails leaves the state as it was, whoever asks at the same time.        *)
AnswersFollowOrder ==
  LET all == accepted[Queue]
  IN  \A m \in Items : reply[m].is # "none" =>
        \E n \in 1..Len(all) :
          /\ all[n] = m /\ reply[m].seen = StateBefore(all, n)
          /\ n > 1 => reply[all[n - 1]].is # "none"

(* What that rests on, besides the order of the flow.  The types; the      *)
(* queue is started with the actor; a message is accepted once.            *)
ActorTypeOK ==
  /\ kind \in {"none", "simple", "reply"}
  /\ memory \in Seq(Items)
  /\ reply \in [Items -> [is : {"none", "value", "error"}, seen : Seq(Items)]]
  /\ dtor \in {"none", "completing", "waiting", "done"}

KindSound == /\ kind = "none" <=> state[Queue] = "Created"
             /\ kind = "none" => memory = <<>> /\ processed[Queue] = <<>>

AcceptedOnce ==
  /\ IsInjective(accepted[Queue])
  /\ \A n \in 1..Len(accepted[Queue]) : upc[accepted[Queue][n]] = "accepted"

(* Exactly the messages that were processed are answered, each from the    *)
(* state that the one processed before has left, and the last of them has  *)
(* left _state.                                                            *)
AnswerSound ==
  LET done == processed[Queue]
  IN  IF kind # "reply"
        THEN \A m \in Items : reply[m].is = "none"
        ELSE /\ \A m \in Items : reply[m].is # "none" <=>
                                   \E n \in 1..Len(done) : done[n] = m
             /\ \A n \in 1..Len(done) : reply[done[n]].seen = StateBefore(done, n)
             /\ memory = StateBefore(done, Len(done) + 1)

ActorInv == TaskInv /\ ActorTypeOK /\ KindSound /\ AcceptedOnce /\ AnswerSound

(* A handler that sends to its own actor waits for the lock that Complete  *)
(* holds until the handler is done.                                        *)
SelfLocked == /\ Handling /\ ~Unlocked(Queue)
              /\ \E m \in ToSet(FollowUp[Message]) : upc[m] = "idle"

(* Everything that was accepted before Complete was called is answered, a  *)
(* message whose handler throws included; the exception is that deadlock.  *)
AskedIsAnswered ==
  \A m \in Items :
    kind = "reply" /\ m \in promised ~> reply[m].is # "none" \/ SelfLocked

(* What a Complete that has thrown leaves behind: the queue is stopped     *)
(* but not completed, and never will be.                                   *)
LeftUnsettled == state[Queue] = "Stopped" /\ completion[Queue] = "none"

(* The destructor comes to its end, a handler of a simple actor that       *)
(* throws meanwhile included, or the program ends; the exceptions are that *)
(* deadlock, and a Complete that has thrown before it.                     *)
DestructorReturns ==
  dtor = "completing" /\ ~LeftUnsettled ~> dtor = "done" \/ SelfLocked \/ terminated
=============================================================================

----------------------------- MODULE ActorPolicy -----------------------------
(***************************************************************************)
(* Actors derived from ActorPolicy (Actors/ActorPolicy.h): each has a      *)
(* queue of functions, one ActionBlock, and a completion task, which runs  *)
(* OnCompleted after the queue has completed.                              *)
(*                                                                         *)
(* What they do to one another is a sequence of calls: a thread of the     *)
(* default pool makes the calls of a function or of OnCompleted one by one *)
(* and is taken as long as one of them blocks.  Which calls these are is   *)
(* the business of the module that instantiates this one.                  *)
(*                                                                         *)
(* The queue is taken for what DataFlowBlock and Actor show it to be.  No  *)
(* function throws here.                                                   *)
(***************************************************************************)
EXTENDS Integers, Sequences, FiniteSets

CONSTANTS Actors,
          PoolSize    (* the threads of the default pool                   *)

Main == <<"main">>
Handler(a) == <<a, "handler">>       (* what runs the function of a message *)
Completed(a) == <<a, "completed">>   (* what runs OnCompleted              *)
Threads == {Main} \cup {Handler(a) : a \in Actors} \cup {Completed(a) : a \in Actors}

VARIABLES mail,      (* mail[a]: the queue, at its head what is being run  *)
          handled,   (* handled[a]: what was run so far                    *)
          phase,     (* phase[a]: of the queue and the completion task     *)
          busy,      (* the actors that run a function                     *)
          calls      (* calls[t]: the calls t is still to make             *)

policy == <<mail, handled, phase, busy, calls>>

PolicyInit(main) ==
  /\ mail = [a \in Actors |-> <<>>]
  /\ handled = [a \in Actors |-> <<>>]
  /\ phase = [a \in Actors |-> "started"]
  /\ busy = {}
  /\ calls = [t \in Threads |-> IF t = Main THEN main ELSE <<>>]

(* A thread of the pool is free.                                           *)
FreeThread ==
  Cardinality(busy) + Cardinality({a \in Actors : phase[a] = "completing"}) < PoolSize

NewCall(op, to, what) == [op |-> op, to |-> to, what |-> what]
Schedule(to, what) == NewCall("schedule", to, what)
CompleteCall(to) == NewCall("complete", to, <<>>)
DestroyCall(to) == NewCall("destroy", to, <<>>)
AwaitFirst(to) == NewCall("awaitFirst", to, <<>>)
AwaitCompletion(to) == NewCall("awaitCompletion", to, <<>>)

Calls(t, ops) == calls[t] # <<>> /\ Head(calls[t]).op \in ops
To(t) == Head(calls[t]).to
Go(t, next) == calls' = [calls EXCEPT ![t] = next \o Tail(@)]

-----------------------------------------------------------------------------
(* ScheduleFunction: a queue that is being completed throws, which is left *)
(* in the task of the coroutine.                                           *)
ScheduleFunction(t) ==
  /\ Calls(t, {"schedule"})
  /\ mail' = IF phase[To(t)] = "started"
               THEN [mail EXCEPT ![To(t)] = Append(@, Head(calls[t]).what)]
               ELSE mail
  /\ Go(t, <<>>)
  /\ UNCHANGED <<handled, phase, busy>>

(* Complete, and the destructor: unless CanCompleteNow says no, the queue  *)
(* is completed, and the completion task waited for.                       *)
BeginComplete(t, canCompleteNow) ==
  /\ phase' = IF canCompleteNow /\ phase[To(t)] = "started"
                THEN [phase EXCEPT ![To(t)] = "draining"] ELSE phase
  /\ Go(t, IF canCompleteNow THEN <<AwaitCompletion(To(t))>> ELSE <<>>)
  /\ UNCHANGED <<mail, handled, busy>>

WaitReturnsAlways(t) ==
  /\ Calls(t, {"awaitFirst", "awaitCompletion"})
  /\ Go(t, <<>>)
  /\ UNCHANGED <<mail, handled, phase, busy>>

(* Wait returns: for the function of the first message, for OnCompleted.   *)
WaitReturns(t) ==
  /\ \/ Calls(t, {"awaitFirst"}) /\ handled[To(t)] # <<>>
     \/ Calls(t, {"awaitCompletion"}) /\ phase[To(t)] = "completed"
  /\ Go(t, <<>>)
  /\ UNCHANGED <<mail, handled, phase, busy>>

-----------------------------------------------------------------------------
(* The processing task takes a message and makes the calls of its function.*)
TakeMessage(a, todo) ==
  /\ mail[a] # <<>> /\ a \notin busy /\ FreeThread
  /\ busy' = busy \cup {a}
  /\ calls' = [calls EXCEPT ![Handler(a)] = todo]
  /\ UNCHANGED <<mail, handled, phase>>

MessageDone(a) ==
  /\ a \in busy /\ calls[Handler(a)] = <<>>
  /\ busy' = busy \ {a}
  /\ handled' = [handled EXCEPT ![a] = Append(@, Head(mail[a]))]
  /\ mail' = [mail EXCEPT ![a] = Tail(@)]
  /\ UNCHANGED <<phase, calls>>

(* A queue that is being completed first runs all that is in it; the end   *)
(* of the processing task takes a thread, too.                             *)
Drained(a) ==
  /\ phase[a] = "draining" /\ mail[a] = <<>> /\ FreeThread
  /\ phase' = [phase EXCEPT ![a] = "stopped"]
  /\ UNCHANGED <<mail, handled, busy, calls>>

(* The continuation of the queue's completion makes the calls of           *)
(* OnCompleted.                                                            *)
OnCompleted(a, todo) ==
  /\ phase[a] = "stopped" /\ FreeThread
  /\ phase' = [phase EXCEPT ![a] = "completing"]
  /\ calls' = [calls EXCEPT ![Completed(a)] = todo]
  /\ UNCHANGED <<mail, handled, busy>>

OnCompletedDone(a) ==
  /\ phase[a] = "completing" /\ calls[Completed(a)] = <<>>
  /\ phase' = [phase EXCEPT ![a] = "completed"]
  /\ UNCHANGED <<mail, handled, busy, calls>>
=============================================================================

---------------------------- MODULE TaskContract ----------------------------
(***************************************************************************)
(* What a Task promises to its users.  It gets an outcome once and keeps   *)
(* it.  A continuation attached before or after that runs exactly once,    *)
(* and only after it.  Wait does not return before there is an outcome,    *)
(* and returns (or throws) what the outcome is.                            *)
(*                                                                         *)
(* TaskSharedState implements this contract.                               *)
(***************************************************************************)
CONSTANTS Waiters,         (* the calls of Wait                            *)
          Continuations    (* the continuations that may be attached       *)

VARIABLES outcome,         (* "none" until the task completes              *)
          attached,        (* attached[k]: the life of the continuation k  *)
          waited           (* waited[w]: "none", "blocked" or the outcome  *)
                           (* that Wait has returned                       *)

tvars == <<outcome, attached, waited>>

Outcomes == {"result", "error", "canceled"}

Init == /\ outcome = "none"
        /\ attached = [k \in Continuations |-> "none"]
        /\ waited = [w \in Waiters |-> "none"]

Complete(o) == /\ outcome = "none"
               /\ outcome' = o
               /\ UNCHANGED <<attached, waited>>

Attach(k) == /\ attached[k] = "none"
             /\ attached' = [attached EXCEPT ![k] = "pending"]
             /\ UNCHANGED <<outcome, waited>>

Run(k) == /\ attached[k] = "pending"
          /\ outcome # "none"
          /\ attached' = [attached EXCEPT ![k] = "ran"]
          /\ UNCHANGED <<outcome, waited>>

Wait(w) == /\ waited[w] = "none"
           /\ waited' = [waited EXCEPT ![w] = IF outcome = "none" THEN "blocked"
                                                                 ELSE outcome]
           /\ UNCHANGED <<outcome, attached>>

Return(w) == /\ waited[w] = "blocked"
             /\ outcome # "none"
             /\ waited' = [waited EXCEPT ![w] = outcome]
             /\ UNCHANGED <<outcome, attached>>

Next == \/ \E o \in Outcomes : Complete(o)
        \/ \E k \in Continuations : Attach(k) \/ Run(k)
        \/ \E w \in Waiters : Wait(w) \/ Return(w)

SafeSpec == Init /\ [][Next]_tvars

(* Once the task is complete its continuations run and its waiters return. *)
Spec == /\ SafeSpec
        /\ \A k \in Continuations : WF_tvars(Run(k))
        /\ \A w \in Waiters : WF_tvars(Return(w))
=============================================================================

--------------------------- MODULE SerialExecutor ---------------------------
(***************************************************************************)
(* What a strand promises: the items enqueued run one at a time, in the    *)
(* order in which they were enqueued.                                      *)
(***************************************************************************)
EXTENDS Sequences

CONSTANT Items

VARIABLES todo,      (* the items not yet run, the first may be running    *)
          running    (* the first item is running                          *)

evars == <<todo, running>>

Init == todo = <<>> /\ running = FALSE

Enqueue(i) == todo' = Append(todo, i) /\ UNCHANGED running

Begin == /\ ~running /\ todo # <<>>
         /\ running' = TRUE
         /\ UNCHANGED todo

End == /\ running
       /\ running' = FALSE
       /\ todo' = Tail(todo)

Next == Begin \/ End \/ \E i \in Items : Enqueue(i)

SafeSpec == Init /\ [][Next]_evars
Spec == SafeSpec /\ WF_evars(Begin \/ End)
=============================================================================

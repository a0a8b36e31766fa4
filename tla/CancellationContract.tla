------------------------ MODULE CancellationContract ------------------------
(***************************************************************************)
(* What a cancellation source promises to the code that registers          *)
(* callbacks with one of its tokens.  A callback is armed when it is       *)
(* registered with a source that is not canceled, and fires at once when   *)
(* the source already is.  Canceling takes all the armed callbacks         *)
(* together; a taken callback fires exactly once, and disposing its        *)
(* registration comes too late.  Disposing an armed callback disarms it    *)
(* for good.                                                               *)
(*                                                                         *)
(* CtsSharedState implements this contract; AsyncSemaphore relies on it.   *)
(***************************************************************************)
CONSTANT Callbacks     (* the callbacks that may be registered             *)

VARIABLES canceled,    (* the source has been canceled                     *)
          status       (* status[r]: where the callback r is in its life   *)

cvars == <<canceled, status>>

Status == {"none", "armed", "taken", "fired", "disposed"}

ContractTypeOK == /\ canceled \in BOOLEAN
                  /\ status \in [Callbacks -> Status]

Init == /\ canceled = FALSE
        /\ status = [r \in Callbacks |-> "none"]

Register(r) ==
  /\ status[r] = "none"
  /\ status' = [status EXCEPT ![r] = IF canceled THEN "fired" ELSE "armed"]
  /\ UNCHANGED canceled

Cancel ==
  /\ ~canceled
  /\ canceled' = TRUE
  /\ UNCHANGED status

Take ==
  /\ canceled
  /\ \E r \in Callbacks : status[r] = "armed"
  /\ status' = [r \in Callbacks |->
                  IF status[r] = "armed" THEN "taken" ELSE status[r]]
  /\ UNCHANGED canceled

Fire(r) ==
  /\ status[r] = "taken"
  /\ status' = [status EXCEPT ![r] = "fired"]
  /\ UNCHANGED canceled

Dispose(r) ==
  /\ status[r] = "armed"
  /\ status' = [status EXCEPT ![r] = "disposed"]
  /\ UNCHANGED canceled

Next == \/ Cancel
        \/ Take
        \/ \E r \in Callbacks : Register(r) \/ Fire(r) \/ Dispose(r)

SafeSpec == Init /\ [][Next]_cvars

(* A canceled source gets round to every callback it still has.            *)
Spec == /\ SafeSpec
        /\ WF_cvars(Take)
        /\ \A r \in Callbacks : WF_cvars(Fire(r))
=============================================================================

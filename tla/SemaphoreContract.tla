------------------------- MODULE SemaphoreContract -------------------------
(***************************************************************************)
(* What an asynchronous counting semaphore promises.  A request gets a     *)
(* permit at once when there is one, else it stands in line.  A release    *)
(* hands its permit to the first request in line, or keeps it when nobody  *)
(* waits.  A request whose token is canceled leaves the line, wherever it  *)
(* stands, and takes no permit with it.  Closing the semaphore cancels     *)
(* the requests in line.                                                   *)
(***************************************************************************)
EXTENDS Integers, Sequences

CONSTANTS Waiters, Cancelable, MaxCount, InitialCount

VARIABLES permits,      (* the permits nobody has                          *)
          line,         (* the requests waiting, in the order they came    *)
          request,      (* request[w]: none, waiting, granted or canceled  *)
          canceled,     (* the token of the requests in Cancelable         *)
          closed        (* the semaphore is being, or has been, destroyed  *)

svars == <<permits, line, request, canceled, closed>>

(* s without w, which stands at most once in a line.                       *)
Stands(s, w) == \E n \in 1..Len(s) : s[n] = w
Place(s, w) == CHOOSE n \in 1..Len(s) : s[n] = w

Without(s, w) ==
  IF Stands(s, w)
    THEN SubSeq(s, 1, Place(s, w) - 1) \o SubSeq(s, Place(s, w) + 1, Len(s))
    ELSE s

Init == /\ permits = InitialCount
        /\ line = <<>>
        /\ request = [w \in Waiters |-> "none"]
        /\ canceled = FALSE
        /\ closed = FALSE

Acquire(w) == /\ request[w] = "none"
              /\ permits > 0
              /\ permits' = permits - 1
              /\ request' = [request EXCEPT ![w] = "granted"]
              /\ UNCHANGED <<line, canceled, closed>>

Join(w) == /\ request[w] = "none"
           /\ permits = 0
           /\ request' = [request EXCEPT ![w] = "waiting"]
           /\ line' = Append(line, w)
           /\ UNCHANGED <<permits, canceled, closed>>

(* A request that came too late, or is taken out of the line.              *)
Abandon(w) == /\ (canceled /\ w \in Cancelable) \/ closed
              /\ request[w] = "waiting" \/ (request[w] = "none" /\ permits = 0)
              /\ request' = [request EXCEPT ![w] = "canceled"]
              /\ line' = Without(line, w)
              /\ UNCHANGED <<permits, canceled, closed>>

ReleaseToFirst == /\ line # <<>>
                  /\ request' = [request EXCEPT ![Head(line)] = "granted"]
                  /\ line' = Tail(line)
                  /\ UNCHANGED <<permits, canceled, closed>>

ReleaseToNobody == /\ line = <<>>
                   /\ permits < MaxCount
                   /\ permits' = permits + 1
                   /\ UNCHANGED <<line, request, canceled, closed>>

Cancel == canceled' = TRUE /\ UNCHANGED <<permits, line, request, closed>>
Close == closed' = TRUE /\ UNCHANGED <<permits, line, request, canceled>>

Next == \/ \E w \in Waiters : Acquire(w) \/ Join(w) \/ Abandon(w)
        \/ ReleaseToFirst \/ ReleaseToNobody
        \/ Cancel \/ Close

SafeSpec == Init /\ [][Next]_svars

(* Whoever must leave the line does so in the end.                         *)
Leave(w) == request[w] = "waiting" /\ Abandon(w)
Spec == SafeSpec /\ \A w \in Waiters : WF_svars(Leave(w))
=============================================================================

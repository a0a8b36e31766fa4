-------------------------- MODULE MCAsyncSemaphore --------------------------
(* Four waiters, two of which pass a token that is canceled at some point, *)
(* on a semaphore of two permits.                                          *)
EXTENDS AsyncSemaphore
CONSTANTS w1, w2, w3, w4
MCWaiters == {w1, w2, w3, w4}
MCCancelable == {w1, w2}

(* Only is SelectSeq.                                                      *)
ASSUME OnlySelects ==
  \A n \in 0..4 : \A s \in [1..n -> MCWaiters] : \A A \in SUBSET MCWaiters :
    Only(s, A) = SelectSeq(s, LAMBDA w : w \in A)
=============================================================================

------------------------- MODULE MCSimpleThreadPool -------------------------
(* Two workers and three items.                                            *)
EXTENDS SimpleThreadPool
CONSTANTS w1, w2, i1, i2, i3
MCWorkers == {w1, w2}
MCItems == {i1, i2, i3}
=============================================================================

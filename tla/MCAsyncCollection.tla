-------------------------- MODULE MCAsyncCollection --------------------------
(* Three items and three takers, one of which may be canceled.             *)
EXTENDS AsyncCollection
CONSTANTS i1, i2, i3, t1, t2, t3
MCItems == {i1, i2, i3}
MCTakers == {t1, t2, t3}
MCCancelable == {t1}
=============================================================================

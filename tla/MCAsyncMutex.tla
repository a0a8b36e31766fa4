---------------------------- MODULE MCAsyncMutex ----------------------------
(* Three callers of Lock, and one more guard to move to.                   *)
EXTENDS AsyncMutex
CONSTANTS c1, c2, c3, g1, g2, g3, g4
MCCalls == {c1, c2, c3}
MCGuards == {g1, g2, g3, g4}
=============================================================================

----------------------------- MODULE MCDataFlow -----------------------------
(* A fork and a join: b1 passes both items to b3 and one of them to b2,    *)
(* which passes it to b3 too.  The transforms of b1 and b2 may throw.      *)
EXTENDS DataFlowBlock
CONSTANTS b1, b2, b3, i1, i2
MCBlocks == {b1, b2, b3}
MCItems == {i1, i2}
MCSuccessors == (b1 :> <<b3, b2>>) @@ (b2 :> <<b3>>) @@ (b3 :> <<>>)
MCAccepts == [x \in MCBlocks |-> IF x = b2 THEN {i1} ELSE MCItems]
MCMayFail == {<<b1, i2>>, <<b2, i1>>}
=============================================================================

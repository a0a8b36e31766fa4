------------------------------- MODULE MCActor -------------------------------
EXTENDS Actor

CONSTANTS q1, m1, m2, m3

MCSuccessors == (q1 :> <<>>)
MCAccepts == (q1 :> {m1, m2, m3})
MCFollowUp == (m1 :> <<m3>>) @@ (m2 :> <<>>) @@ (m3 :> <<>>)
MCMayFail == {q1} \X {m1, m2, m3}
=============================================================================

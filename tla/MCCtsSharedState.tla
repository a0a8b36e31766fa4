-------------------------- MODULE MCCtsSharedState --------------------------
(* Three registrations race two calls of Cancel; one callback throws and   *)
(* one registration is inert.                                              *)
EXTENDS CtsSharedState
CONSTANTS r1, r2, r3, r4, c1, c2

MCCallbacks == {r1, r2, r3, r4}
MCCancelers == {c1, c2}
MCInert == {r4}
MCThrowing == {r1}
=============================================================================

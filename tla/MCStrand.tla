------------------------------ MODULE MCStrand ------------------------------
(* Five items on one strand.                                               *)
EXTENDS StrandSchedulerDecorator
CONSTANTS i1, i2, i3, i4, i5
MCItems == {i1, i2, i3, i4, i5}
=============================================================================

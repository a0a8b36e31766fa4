----------------------------- MODULE MCMapReduce -----------------------------
(* Three mappers, four batches of two lines and a line that is left over.  *)
EXTENDS MapReduce
=============================================================================

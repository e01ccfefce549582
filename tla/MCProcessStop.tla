--------------------------- MODULE MCProcessStop ---------------------------
(* TLC instance of ProcessStop: one attempt with two faults, and a retry.   *)
EXTENDS ProcessStop

MCLimits == {[attempts |-> 1, faults |-> 2], [attempts |-> 2, faults |-> 0]}
=============================================================================

-------------------------- MODULE MCProgressLease --------------------------
(* Model-checking instances of ProgressLease.                              *)
EXTENDS ProgressLease, TLC

\* The profiles' order of magnitude: a deeper profile is no shorter, and all but the
\* first outlast the attempt's initial window.
MCIdleTimeouts == [fast |-> 1, standard |-> 1, deep |-> 2, critical |-> 2]
MCHardCaps == [fast |-> 1, standard |-> 3, deep |-> 6, critical |-> 6]

ContentHashes == Permutations(Prints)
=============================================================================

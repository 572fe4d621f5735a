----------------------------- MODULE MCMasterInit -----------------------------
(* Instances of MasterInit for TLC. *)
EXTENDS MasterInit, TLC

CONSTANTS m, w1, w2, a, b

\* Workers are interchangeable, and so are subjects.
Symmetry == Permutations(Workers) \cup Permutations(Subjects)
=============================================================================

---------------------------- MODULE MCCoreStream ----------------------------
(* One Core with two interchangeable subjects: the bounds and the deployments *)
(* are in the .cfg files.                                                     *)
EXTENDS CoreStream, TLC

Symmetry == Permutations(Subjects)
=============================================================================

--------------------------- MODULE MCMasterStream ---------------------------
(* Instances of MasterStream for TLC: one master, one or two workers. *)
EXTENDS MasterStream, TLC

CONSTANTS m, w1, w2, a, b

\* One subject on the master and one on a worker.
AssignSplit == (a :> m) @@ (b :> w1)

\* Both subjects on workers: the master only coordinates.
AssignRemote == (a :> w1) @@ (b :> w2)
=============================================================================

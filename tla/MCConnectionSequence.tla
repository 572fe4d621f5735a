------------------------ MODULE MCConnectionSequence ------------------------
(* Instances of ConnectionSequence for TLC: two subjects on two nodes. *)
EXTENDS ConnectionSequence, TLC

CONSTANTS m, w, a, b, x1, x2, x3

\* One subject on the master, one on a worker; one sensor each.
NodeOfTwo == (a :> m) @@ (b :> w)
OrderTwo == <<a, b>>
OneSlot == [s \in Subjects |-> 1]

\* The first subject wears two sensors.
TwoSlots == (a :> 2) @@ (b :> 1)

\* Sensors are interchangeable.
Symmetry == Permutations(Addresses)
=============================================================================

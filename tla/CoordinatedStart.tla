--------------------------- MODULE CoordinatedStart ---------------------------
(***************************************************************************)
(* What a coordinated start promises, without threads, messages or         *)
(* retries: a start names its participants once; each of them may become   *)
(* ready; the start may be committed once all of them are; and only then   *)
(* may a participant open its official recording.                          *)
(***************************************************************************)
CONSTANTS Nodes, StartIds

VARIABLES
  expected,   \* the participants of each start, {} before it begins
  ready,      \* the participants that have passed their startup gate
  committed,  \* the starts that have been committed
  opened      \* the participants that have opened their official recording

barrierVars == <<expected, ready, committed, opened>>

Init ==
  /\ expected = [i \in StartIds |-> {}]
  /\ ready = [i \in StartIds |-> {}]
  /\ committed = {}
  /\ opened = [i \in StartIds |-> {}]

Begin(i, N) ==
  /\ expected[i] = {}
  /\ expected' = [expected EXCEPT ![i] = N]
  /\ UNCHANGED <<ready, committed, opened>>

BecomeReady(i, n) ==
  /\ n \in expected[i]
  /\ ready' = [ready EXCEPT ![i] = @ \cup {n}]
  /\ UNCHANGED <<expected, committed, opened>>

Commit(i) ==
  /\ expected[i] # {}
  /\ expected[i] \subseteq ready[i]
  /\ committed' = committed \cup {i}
  /\ UNCHANGED <<expected, ready, opened>>

Open(i, n) ==
  /\ i \in committed
  /\ n \in ready[i]
  /\ opened' = [opened EXCEPT ![i] = @ \cup {n}]
  /\ UNCHANGED <<expected, ready, committed>>

Next ==
  \E i \in StartIds :
    \/ \E N \in (SUBSET Nodes) \ {{}} : Begin(i, N)
    \/ Commit(i)
    \/ \E n \in Nodes : BecomeReady(i, n) \/ Open(i, n)

Spec == Init /\ [][Next]_barrierVars
=============================================================================

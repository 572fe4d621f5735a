----------------------- MODULE ConnectionSequenceProofs -----------------------
(***************************************************************************)
(* The ordered Connect All for any number of subjects, nodes, sensors,     *)
(* late replies, lost links and Resets: no sensor is selected for two      *)
(* subjects, a step that is no longer awaited finds no configured Core,    *)
(* "connected" is true of the links, and "completed" of the subjects.      *)
(***************************************************************************)
EXTENDS ConnectionSequence, QueueLemmas, FiniteSetTheorems, WellFoundedInduction, TLAPS

-----------------------------------------------------------------------------
(* The inductive invariant. *)

StepOps == {"discovering", "connecting"}
Kinds == {"started", "cleaned", "lost", "discovered", "connected", "error"}
Commands == [op : StepOps \cup {"search", "reset"}, token : Nat, subject : Subjects, addrs : SUBSET Addresses]
Events == [kind : Kinds, token : Nat, subject : Subjects, addrs : SUBSET Addresses]

TypesOK ==
  /\ TypeOK
  /\ tokens \in Nat
  /\ cmds \in [Nodes -> Seq(Commands)]
  /\ evts \in [Nodes -> Seq(Events)]
  /\ count \in [Counters -> Nat]

\* A step has a token and goes to the node of its subject; other commands have none.
IsStep(c) == c.op \in StepOps
CommandOK(n, c) == /\ IsStep(c) => c.token \in 1..tokens /\ NodeOf[c.subject] = n
                   /\ ~IsStep(c) => c.token = NoToken

\* The answer to a step has its token; a connection is answered by the node of the subject.
EventOK(n, e) ==
  /\ e.token <= tokens
  /\ e.kind \in {"started", "cleaned", "lost"} => e.token = NoToken
  /\ e.kind \in {"connected", "error"} => e.token # NoToken
  /\ e.kind = "connected" => NodeOf[e.subject] = n
  \* The outstanding step is answered as what it is.
  /\ e.token # NoToken /\ e.token = pending.token =>
       /\ e.subject = pending.subject /\ NodeOf[pending.subject] = n
       /\ e.kind = "discovered" => pending.op = "discovering"
       /\ e.kind = "connected" => pending.op = "connecting"

\* No two steps in a queue have the same token.
DistinctSteps(q) == \A i, j \in DOMAIN q : IsStep(q[i]) /\ IsStep(q[j]) /\ q[i].token = q[j].token => i = j

\* A node's queues: the outstanding step is on its way or answered, never both, and what
\* is not the outstanding step finds a Core that has been retired.
NodeOK(n) ==
  /\ \A c \in InFlight(cmds[n]) :
       /\ CommandOK(n, c)
       /\ IsStep(c) /\ c.token = pending.token => c.subject = pending.subject /\ c.op = pending.op
       /\ IsStep(c) /\ c.token # pending.token => n \notin configured
  /\ \A e \in InFlight(evts[n]) :
       /\ EventOK(n, e)
       /\ e.token # NoToken /\ e.token = pending.token =>
            \A c \in InFlight(cmds[n]) : IsStep(c) => c.token # pending.token
       /\ e.kind = "cleaned" => n \notin configured
  /\ DistinctSteps(cmds[n])

\* The outstanding step is that of the subject at the position of a running Connect All.
\* Its subject is not connected, and not discovered while its discovery is outstanding.
PendingOK ==
  /\ pending = NoStep \/ (pending.token \in 1..tokens /\ pending.op \in StepOps)
  /\ pending # NoStep => pending.subject \notin completed
  /\ pending.op = "discovering" => pending.subject \notin discovered

\* The subjects that a running Connect All has passed.
PassedOK ==
  active => /\ pending # NoStep /\ index \in 1..Len(Order) /\ pending.subject = Order[index]
            /\ \A i \in 1..(index - 1) : Order[i] \in completed \/ Order[i] \notin discovered

\* An event says that a link to one of the sensors A is gone.
Tells(e, A) == e.kind = "cleaned" \/ (e.kind = "lost" /\ e.addrs \cap A # {})

\* A confirmed connection still holds, or its loss follows in the queue.
Held(q, links) ==
  \A i \in DOMAIN q : q[i].kind = "connected" =>
    \/ q[i].addrs \subseteq links[q[i].subject]
    \/ \E j \in DOMAIN q : i < j /\ Tells(q[j], q[i].addrs)

LinksOK(n) == Held(evts[n], linked)

\* A subject that counts as connected is, or its loss is on its way.
SubjectOK(s) ==
  s \in completed => \/ selected[s] \subseteq linked[s]
                     \/ \E e \in InFlight(evts[NodeOf[s]]) : Tells(e, selected[s])

StepsInv == TypesOK /\ PendingOK /\ \A n \in Nodes : NodeOK(n)
LinksInv == count["faults"] = 0 => (\A n \in Nodes : LinksOK(n)) /\ (\A s \in Subjects : SubjectOK(s))
IInv == StepsInv /\ DisjointSelections /\ PassedOK /\ LinksInv


-----------------------------------------------------------------------------
(* The order of the subjects *)

\* A set of numbers has a smallest one.
LEMMA MinIs ==
  ASSUME NEW S \in SUBSET Nat, S # {}
  PROVE  Min(S) \in S /\ \A y \in S : Min(S) <= y
<1>1. PICK x \in S : \A y \in S : <<y, x>> \notin OpToRel(<, Nat)
  BY NatLessThanWellFounded, WFMin, Zenon
<1>2. \A y \in S : ~(y < x)
  BY <1>1 DEF OpToRel
<1>3. \A y \in S : x <= y
  BY <1>2
<1>4. QED
  BY <1>3 DEF Min

\* There is a first subject, and every subject has one position.
LEMMA OrderIs ==
  /\ Len(Order) \in Nat /\ DOMAIN Order = 1..Len(Order) /\ 1 \in DOMAIN Order
  /\ \A i \in 1..Len(Order) : Order[i] \in Subjects
  /\ \A s \in Subjects : \E i \in 1..Len(Order) : s = Order[i]
  /\ \A i, j \in 1..Len(Order) : Order[i] = Order[j] => i = j
<1>1. Len(Order) \in Nat /\ DOMAIN Order = 1..Len(Order) /\ Order \in [1..Len(Order) -> Subjects]
  BY SequenceAssumption
<1>2. \A s \in Subjects : \E i \in 1..Len(Order) : s = Order[i]
  BY <1>1, SequenceAssumption
<1>3. 1 \in DOMAIN Order
  BY <1>1, <1>2, SequenceAssumption
<1>4. Order \in Surjection(1..Len(Order), Subjects)
  BY <1>1, <1>2 DEF Surjection
<1>5. IsFiniteSet(1..Len(Order)) /\ Cardinality(1..Len(Order)) = Len(Order)
  BY <1>1, FS_Interval
<1>6. Order \in Injection(1..Len(Order), Subjects)
  BY <1>4, <1>5, SequenceAssumption, FS_SurjSameCardinalityImpliesInj
<1>7. \A i, j \in 1..Len(Order) : Order[i] = Order[j] => i = j
  BY <1>1, <1>6 DEF Injection, IsInjective
<1>8. QED
  BY <1>1, <1>2, <1>3, <1>7


-----------------------------------------------------------------------------
(* What the parts of a step do *)

\* What there is when no step is outstanding.
LEMMA NoStepIs ==
  NoStep.token = NoToken /\ NoStep.subject \in Subjects /\ NoStep.op = "none" /\ (tokens \in Nat => NoStep \in Steps)
BY OrderIs DEF NoStep, NoToken, Steps

\* The step is over, and no other was sent.
Ended == /\ pending' = NoStep /\ cmds' = cmds /\ (tokens' = tokens \/ tokens' = tokens + 1)
         /\ ~active'

\* A new step was sent.
SentStep(s, op) ==
  /\ tokens' = tokens + 1 /\ active' /\ timer' = tokens + 1 /\ outcome' = "running"
  /\ pending'.token = tokens + 1 /\ pending'.subject = s /\ pending'.op = op
  /\ \E c \in Commands : /\ c.op = op /\ c.token = tokens + 1 /\ c.subject = s
                         /\ cmds' = [cmds EXCEPT ![NodeOf[s]] = Append(@, c)]

\* A dispatch sends the step or ends it.
LEMMA DispatchMoves ==
  ASSUME TypesOK, NEW s \in Subjects, NEW op \in StepOps, selected' \in [Subjects -> SUBSET Addresses], Dispatch(s, op)
  PROVE  /\ pending' \in Steps' /\ timer' \in 0..tokens' /\ tokens' \in Nat /\ active' \in BOOLEAN
         /\ count' \in [Counters -> Nat] /\ outcome' \in {"running", "failed"}
         /\ \/ SentStep(s, op) /\ count' = count
            \/ Ended /\ count'["faults"] > 0 /\ outcome' = "failed"
<1>1. tokens \in Nat /\ count \in [Counters -> Nat]
  BY DEF TypesOK
<1>2. CASE Step(s, op) /\ UNCHANGED count
  <2> DEFINE A == IF op = "discovering" THEN Exclusions(selected', s) ELSE selected'[s]
             c == Cmd(op, tokens + 1, s, A)
  <2>1. A \in SUBSET Addresses
    BY DEF Exclusions
  <2>2. c.op = op /\ c.token = tokens + 1 /\ c.subject = s
    BY DEF Cmd
  <2>3. c \in Commands
    BY <1>1, <2>1 DEF Cmd, Commands
  <2>4. cmds' = [cmds EXCEPT ![NodeOf[s]] = Append(@, c)]
    BY <1>2 DEF Step
  <2> HIDE DEF c, A
  <2>5. tokens' = tokens + 1 /\ pending' = [token |-> tokens + 1, subject |-> s, op |-> op] /\ active' = TRUE /\ timer' = tokens + 1
        /\ outcome' = "running"
    BY <1>2 DEF Step
  <2>6. SentStep(s, op)
    BY <2>2, <2>3, <2>4, <2>5 DEF SentStep
  <2>7. pending' \in Steps'
    BY <1>1, <2>5 DEF Steps, StepOps
  <2>8. timer' \in 0..tokens' /\ tokens' \in Nat /\ active' \in BOOLEAN /\ outcome' \in {"running", "failed"} /\ count' = count
    BY <1>1, <1>2, <2>5
  <2>9. QED
    BY <1>1, <2>6, <2>7, <2>8, Zenon
<1>3. CASE StepRaises /\ Count("faults")
  <2>1. tokens' = tokens + 1 /\ pending' = NoStep /\ active' = FALSE /\ timer' = NoToken /\ outcome' = "failed" /\ cmds' = cmds
    BY <1>3 DEF StepRaises
  <2>2. count["faults"] + 1 \in Nat /\ count' = [count EXCEPT !["faults"] = @ + 1]
    BY <1>1, <1>3 DEF Count, Counters
  <2>3. count' \in [Counters -> Nat] /\ count'["faults"] > 0
    BY <1>1, <2>2 DEF Counters
  <2>4. pending' \in Steps'
    BY <1>1, <2>1, OrderIs DEF NoStep, NoToken, Steps
  <2>5. timer' \in 0..tokens' /\ tokens' \in Nat /\ active' \in BOOLEAN /\ outcome' \in {"running", "failed"}
    <3>1. 0 \in 0..(tokens + 1) /\ tokens + 1 \in Nat
      BY <1>1
    <3>2. active' \in BOOLEAN /\ outcome' \in {"running", "failed"}
      BY <2>1
    <3>3. timer' = 0 /\ tokens' = tokens + 1
      BY <2>1 DEF NoToken
    <3>4. QED
      BY <3>1, <3>2, <3>3
  <2>6. Ended
    BY <2>1 DEF Ended
  <2>7. QED
    BY <2>1, <2>3, <2>4, <2>5, <2>6, Zenon
<1>4. QED
  BY <1>2, <1>3 DEF Dispatch

\* The next subject is the first one that is not connected; when there is none the
\* Connect All is completed.
LEMMA NextSubjectMoves ==
  ASSUME TypesOK, NEW from \in 1..(Len(Order) + 1), NextSubject(from), selected' \in [Subjects -> SUBSET Addresses],
         completed' \subseteq Subjects, discovered' \subseteq Subjects
  PROVE  /\ pending' \in Steps' /\ timer' \in 0..tokens' /\ tokens' \in Nat /\ active' \in BOOLEAN
         /\ index' \in 0..(Len(Order) + 1)
         /\ count' \in [Counters -> Nat] /\ outcome' \in {"running", "failed", "completed"}
         /\ \A j \in from..(index' - 1) : Order[j] \in completed'
         /\ \/ \E s \in Subjects, op \in StepOps :
                 /\ SentStep(s, op) /\ count' = count
                 /\ index' \in from..Len(Order) /\ s = Order[index'] /\ s \notin completed'
                 /\ op = "discovering" => s \notin discovered'
            \/ Ended /\ outcome' # "completed" /\ count'["faults"] > 0
            \/ Ended /\ index' = Len(Order) + 1 /\ count' = count
<1> DEFINE S == {j \in from..Len(Order) : Order[j] \notin completed'} \cup {Len(Order) + 1}
           i == Min(S)
<1>1. Len(Order) \in Nat /\ \A j \in 1..Len(Order) : Order[j] \in Subjects
  BY OrderIs
<1>2. S \in SUBSET Nat /\ S # {}
  BY <1>1
<1>3. i \in S /\ \A j \in S : i <= j
  BY <1>2, MinIs
<1>4. i \in from..(Len(Order) + 1) /\ (i <= Len(Order) => Order[i] \notin completed')
  BY <1>1, <1>3
<1>5. \A j \in from..(i - 1) : Order[j] \in completed'
  BY <1>1, <1>3, <1>4
<1>6. index' = i
  BY DEF NextSubject
<1>7. CASE i <= Len(Order)
  <2> DEFINE op == IF Order[i] \in discovered' THEN "connecting" ELSE "discovering"
  <2>1. Dispatch(Order[i], op)
    BY <1>7 DEF NextSubject
  <2>2. Order[i] \in Subjects /\ op \in StepOps
    BY <1>1, <1>4, <1>7 DEF StepOps
  <2>3. op = "discovering" => Order[i] \notin discovered'
    OBVIOUS
  <2> HIDE DEF op, i, S
  <2>4. /\ pending' \in Steps' /\ timer' \in 0..tokens' /\ tokens' \in Nat /\ active' \in BOOLEAN
        /\ count' \in [Counters -> Nat] /\ outcome' \in {"running", "failed"}
        /\ \/ SentStep(Order[i], op) /\ count' = count
           \/ Ended /\ count'["faults"] > 0 /\ outcome' = "failed"
    BY <2>1, <2>2, DispatchMoves
  <2>5. index' \in 0..(Len(Order) + 1) /\ index' \in from..Len(Order)
    BY <1>1, <1>4, <1>6, <1>7
  <2>6. Order[i] = Order[index'] /\ Order[i] \notin completed' /\ \A j \in from..(index' - 1) : Order[j] \in completed'
    BY <1>4, <1>5, <1>6, <1>7
  <2>7. CASE SentStep(Order[i], op) /\ count' = count
    BY <2>2, <2>3, <2>4, <2>5, <2>6, <2>7, Zenon
  <2>8. CASE Ended /\ count'["faults"] > 0 /\ outcome' = "failed"
    BY <2>4, <2>5, <2>6, <2>8
  <2>9. QED
    BY <2>4, <2>7, <2>8
<1>8. CASE ~(i <= Len(Order))
  <2>1. /\ active' = FALSE /\ pending' = NoStep /\ timer' = NoToken /\ outcome' = "completed"
        /\ UNCHANGED <<cmds, tokens, count>>
    BY <1>8 DEF NextSubject
  <2>2. tokens \in Nat /\ count \in [Counters -> Nat]
    BY DEF TypesOK
  <2>3. pending' \in Steps'
    BY <2>1, <2>2, OrderIs DEF NoStep, NoToken, Steps
  <2> HIDE DEF i, S
  <2>4. i = Len(Order) + 1
    BY <1>1, <1>4, <1>8
  <2>5. Ended
    BY <2>1 DEF Ended
  <2>6. index' = Len(Order) + 1 /\ index' \in 0..(Len(Order) + 1) /\ \A j \in from..(index' - 1) : Order[j] \in completed'
    BY <1>1, <1>5, <1>6, <2>4
  <2>7. timer' \in 0..tokens' /\ tokens' \in Nat /\ active' \in BOOLEAN /\ outcome' \in {"running", "failed", "completed"}
    <3>1. 0 \in 0..tokens
      BY <2>2
    <3>2. active' \in BOOLEAN /\ outcome' \in {"running", "failed", "completed"}
      BY <2>1
    <3>3. timer' = 0 /\ tokens' = tokens
      BY <2>1 DEF NoToken
    <3>4. QED
      BY <2>2, <3>1, <3>2, <3>3
  <2>8. QED
    BY <2>1, <2>2, <2>3, <2>5, <2>6, <2>7, Zenon
<1>9. QED
  BY <1>7, <1>8


\* One more command for a node, whose last it is.
LEMMA SentCommand ==
  ASSUME cmds \in [Nodes -> Seq(Commands)], NEW n \in Nodes, NEW c \in Commands, cmds' = [cmds EXCEPT ![n] = Append(@, c)]
  PROVE  /\ cmds' \in [Nodes -> Seq(Commands)]
         /\ InFlight(cmds'[n]) = InFlight(cmds[n]) \cup {c}
         /\ cmds'[n] = Append(cmds[n], c)
         /\ \A k \in Nodes \ {n} : cmds'[k] = cmds[k]
<1>1. cmds[n] \in Seq(Commands)
  OBVIOUS
<1>2. Append(cmds[n], c) \in Seq(Commands) /\ InFlight(Append(cmds[n], c)) = InFlight(cmds[n]) \cup {c}
  BY <1>1, AppendInFlight
<1>3. QED
  BY <1>2

\* One more event of a node.
LEMMA SentEvent ==
  ASSUME evts \in [Nodes -> Seq(Events)], NEW n \in Nodes, NEW e \in Events, evts' = Sent(n, e)
  PROVE  /\ evts' \in [Nodes -> Seq(Events)]
         /\ InFlight(evts'[n]) = InFlight(evts[n]) \cup {e}
         /\ evts'[n] = Append(evts[n], e)
         /\ \A k \in Nodes \ {n} : evts'[k] = evts[k]
<1>1. evts[n] \in Seq(Events)
  OBVIOUS
<1>2. Append(evts[n], e) \in Seq(Events) /\ InFlight(Append(evts[n], e)) = InFlight(evts[n]) \cup {e}
  BY <1>1, AppendInFlight
<1>3. QED
  BY <1>2 DEF Sent

\* A node takes the next command.
LEMMA ReceivedCommand ==
  ASSUME cmds \in [Nodes -> Seq(Commands)], NEW n \in Nodes, NEW op, Receives(n, op)
  PROVE  /\ cmds' \in [Nodes -> Seq(Commands)] /\ cmds[n] # <<>> /\ cmds[n] \in Seq(Commands)
         /\ Head(cmds[n]) \in Commands /\ Head(cmds[n]) \in InFlight(cmds[n]) /\ Head(cmds[n]).op = op
         /\ cmds'[n] = Tail(cmds[n]) /\ InFlight(cmds'[n]) \subseteq InFlight(cmds[n])
         /\ \A k \in Nodes \ {n} : cmds'[k] = cmds[k]
<1>1. cmds[n] \in Seq(Commands) /\ cmds[n] # <<>>
  BY DEF Receives
<1>2. /\ Head(cmds[n]) \in Commands /\ Head(cmds[n]) \in InFlight(cmds[n]) /\ Tail(cmds[n]) \in Seq(Commands)
      /\ InFlight(Tail(cmds[n])) \subseteq InFlight(cmds[n])
  BY <1>1, TailInFlight
<1>3. QED
  BY <1>1, <1>2 DEF Receives

\* The bus hands over the next event of a node.
LEMMA ReceivedEvent ==
  ASSUME evts \in [Nodes -> Seq(Events)], NEW n \in Nodes, OnEvent(n)
  PROVE  /\ evts' \in [Nodes -> Seq(Events)] /\ evts[n] # <<>> /\ evts[n] \in Seq(Events)
         /\ Head(evts[n]) \in Events /\ Head(evts[n]) \in InFlight(evts[n])
         /\ evts'[n] = Tail(evts[n]) /\ InFlight(evts'[n]) \subseteq InFlight(evts[n])
         /\ InFlight(evts[n]) = InFlight(evts'[n]) \cup {Head(evts[n])}
         /\ \A k \in Nodes \ {n} : evts'[k] = evts[k]
<1>1. evts[n] \in Seq(Events) /\ evts[n] # <<>> /\ evts' = [evts EXCEPT ![n] = Tail(@)]
  BY DEF OnEvent
<1>2. /\ Head(evts[n]) \in Events /\ Head(evts[n]) \in InFlight(evts[n]) /\ Tail(evts[n]) \in Seq(Events)
      /\ InFlight(Tail(evts[n])) \subseteq InFlight(evts[n])
      /\ InFlight(evts[n]) = InFlight(Tail(evts[n])) \cup {Head(evts[n])}
  BY <1>1, TailInFlight, HeadInFlight
<1>3. QED
  BY <1>1, <1>2

\* What commands and events are made of.
LEMMA MessageTypes ==
  /\ \A c \in Commands : c.op \in StepOps \cup {"search", "reset"} /\ c.token \in Nat /\ c.subject \in Subjects
                         /\ c.addrs \in SUBSET Addresses
  /\ \A e \in Events : e.kind \in Kinds /\ e.token \in Nat /\ e.subject \in Subjects /\ e.addrs \in SUBSET Addresses
  /\ \A op \in StepOps \cup {"search", "reset"}, t \in Nat, s \in Subjects, A \in SUBSET Addresses :
       /\ Cmd(op, t, s, A) \in Commands /\ Cmd(op, t, s, A).op = op /\ Cmd(op, t, s, A).token = t
       /\ Cmd(op, t, s, A).subject = s /\ Cmd(op, t, s, A).addrs = A
  /\ \A kind \in Kinds, t \in Nat, s \in Subjects, A \in SUBSET Addresses :
       /\ Evt(kind, t, s, A) \in Events /\ Evt(kind, t, s, A).kind = kind /\ Evt(kind, t, s, A).token = t
       /\ Evt(kind, t, s, A).subject = s /\ Evt(kind, t, s, A).addrs = A
<1>1. \A op \in StepOps \cup {"search", "reset"}, t \in Nat, s \in Subjects, A \in SUBSET Addresses :
       /\ Cmd(op, t, s, A) \in Commands /\ Cmd(op, t, s, A).op = op /\ Cmd(op, t, s, A).token = t
       /\ Cmd(op, t, s, A).subject = s /\ Cmd(op, t, s, A).addrs = A
  BY DEF Commands, Cmd
<1>2. \A kind \in Kinds, t \in Nat, s \in Subjects, A \in SUBSET Addresses :
       /\ Evt(kind, t, s, A) \in Events /\ Evt(kind, t, s, A).kind = kind /\ Evt(kind, t, s, A).token = t
       /\ Evt(kind, t, s, A).subject = s /\ Evt(kind, t, s, A).addrs = A
  BY DEF Events, Evt
<1>3. QED
  BY <1>1, <1>2 DEF Commands, Events

-----------------------------------------------------------------------------
(* What each operation of a node and of the client does *)

\* The sequence is left alone.
Apart == UNCHANGED <<sequenceVars, tokens>>

\* A discovery, a search and a connection: at most one event, about the subject of the command.
Answers(n, c, Kind) ==
  \E e \in Events : /\ evts' = Sent(n, e) /\ e.kind \in Kind /\ e.token = c.token /\ e.subject = c.subject
                    /\ e.kind = "connected" => e.addrs = linked'[e.subject]

\* A node executes a discovery.
LEMMA DiscoversMoves ==
  ASSUME TypesOK, NEW n \in Nodes, NodeDiscovers(n)
  PROVE  /\ Apart /\ UNCHANGED <<configured, linked, count>> /\ addr' \in [Subjects -> SUBSET Addresses]
         /\ Receives(n, "discovering") /\ Answers(n, Head(cmds[n]), {"discovered", "error"})
<1> DEFINE c == Head(cmds[n])
           s == c.subject
<1>1. /\ addr \in [Subjects -> SUBSET Addresses] /\ linked \in [Subjects -> SUBSET Addresses]
      /\ cmds \in [Nodes -> Seq(Commands)]
  BY DEF TypesOK, TypeOK
<1>2. Receives(n, "discovering") /\ Apart /\ UNCHANGED <<configured, linked, count>>
  BY DEF NodeDiscovers, Apart
<1>3. c \in Commands
  BY <1>1, <1>2, ReceivedCommand
<1>4. s \in Subjects /\ c.token \in Nat
  BY <1>3, MessageTypes
<1> HIDE DEF c
<1>5. CASE Scan(s, c.addrs) /\ evts' = Sent(n, Evt("discovered", c.token, s, addr'[s]))
  <2>1. addr' \in [Subjects -> SUBSET Addresses]
    BY <1>1, <1>4, <1>5 DEF Scan
  <2>2. Evt("discovered", c.token, s, addr'[s]) \in Events
    BY <1>4, <2>1, MessageTypes DEF Kinds
  <2>3. Answers(n, c, {"discovered", "error"})
    BY <1>5, <2>2 DEF Answers, Evt
  <2>4. QED
    BY <1>2, <2>1, <2>3 DEF c
<1>6. CASE evts' = Sent(n, Evt("error", c.token, s, addr[s])) /\ UNCHANGED addr
  <2>1. Evt("error", c.token, s, addr[s]) \in Events
    BY <1>1, <1>4, MessageTypes DEF Kinds
  <2>2. Answers(n, c, {"discovered", "error"})
    BY <1>6, <2>1 DEF Answers, Evt
  <2>3. QED
    BY <1>1, <1>2, <1>6, <2>2 DEF c
<1>7. QED
  BY <1>5, <1>6 DEF NodeDiscovers, c

\* A node executes the client's own discovery.
LEMMA SearchesMoves ==
  ASSUME TypesOK, NEW n \in Nodes, NodeSearches(n)
  PROVE  /\ Apart /\ UNCHANGED <<configured, linked, count>> /\ addr' \in [Subjects -> SUBSET Addresses]
         /\ Receives(n, "search")
         /\ \/ evts' = evts
            \/ \E e \in Events : evts' = Sent(n, e) /\ e.kind = "discovered" /\ e.token = NoToken
<1> DEFINE c == Head(cmds[n])
           s == c.subject
<1>1. /\ addr \in [Subjects -> SUBSET Addresses] /\ linked \in [Subjects -> SUBSET Addresses]
      /\ cmds \in [Nodes -> Seq(Commands)]
  BY DEF TypesOK, TypeOK
<1>2. Receives(n, "search") /\ Apart /\ UNCHANGED <<configured, linked, count>>
  BY DEF NodeSearches, Apart
<1>3. c \in Commands
  BY <1>1, <1>2, ReceivedCommand
<1>4. s \in Subjects
  BY <1>3, MessageTypes
<1> HIDE DEF c
<1>5. CASE Scan(s, c.addrs) /\ evts' = Sent(n, Evt("discovered", NoToken, s, addr'[s]))
  <2>1. addr' \in [Subjects -> SUBSET Addresses]
    BY <1>1, <1>4, <1>5 DEF Scan
  <2>2. Evt("discovered", NoToken, s, addr'[s]) \in Events
    BY <1>4, <2>1, MessageTypes DEF Kinds, NoToken
  <2>3. QED
    BY <1>2, <1>5, <2>1, <2>2 DEF Evt
<1>6. CASE UNCHANGED <<addr, evts>>
  BY <1>1, <1>2, <1>6
<1>7. QED
  BY <1>5, <1>6 DEF NodeSearches, c

\* A node executes a connection.
LEMMA ConnectsMoves ==
  ASSUME TypesOK, NEW n \in Nodes, NodeConnects(n)
  PROVE  /\ Apart /\ UNCHANGED <<configured, addr, count>> /\ linked' \in [Subjects -> SUBSET Addresses]
         /\ \A t \in Subjects : linked[t] \subseteq linked'[t]
         /\ Receives(n, "connecting") /\ Answers(n, Head(cmds[n]), {"connected", "error"})
<1> DEFINE c == Head(cmds[n])
           s == c.subject
<1>1. /\ addr \in [Subjects -> SUBSET Addresses] /\ linked \in [Subjects -> SUBSET Addresses]
      /\ cmds \in [Nodes -> Seq(Commands)]
  BY DEF TypesOK, TypeOK
<1>2. Receives(n, "connecting") /\ Apart /\ UNCHANGED <<configured, addr, count>>
  BY DEF NodeConnects, Apart
<1>3. c \in Commands
  BY <1>1, <1>2, ReceivedCommand
<1>4. s \in Subjects /\ c.token \in Nat
  BY <1>3, MessageTypes
<1> HIDE DEF c
<1>5. CASE /\ \E X \in SUBSET (addr[s] \ LinkedToOthers(s)) : linked' = [linked EXCEPT ![s] = @ \cup X]
           /\ \E kind \in {"connected", "error"} : evts' = Sent(n, Evt(kind, c.token, s, linked'[s]))
  <2>1. linked' \in [Subjects -> SUBSET Addresses] /\ \A t \in Subjects : linked[t] \subseteq linked'[t]
    BY <1>1, <1>4, <1>5
  <2>2. \A kind \in {"connected", "error"} : Evt(kind, c.token, s, linked'[s]) \in Events
    BY <1>4, <2>1, MessageTypes DEF Kinds
  <2>3. Answers(n, c, {"connected", "error"})
    BY <1>5, <2>2 DEF Answers, Evt
  <2>4. QED
    BY <1>2, <2>1, <2>3 DEF c
<1>6. CASE evts' = Sent(n, Evt("error", c.token, s, {})) /\ UNCHANGED linked
  <2>1. Evt("error", c.token, s, {}) \in Events
    BY <1>4, MessageTypes DEF Kinds
  <2>2. Answers(n, c, {"connected", "error"})
    BY <1>6, <2>1 DEF Answers, Evt
  <2>3. QED
    BY <1>1, <1>2, <1>6, <2>2 DEF c
<1>7. QED
  BY <1>5, <1>6 DEF NodeConnects, c


\* Counting a command or a fault.
LEMMA Counted ==
  ASSUME count \in [Counters -> Nat], NEW c \in Counters, Count(c)
  PROVE  count' \in [Counters -> Nat] /\ (c = "faults" => count'["faults"] > 0) /\ (c # "faults" => count'["faults"] = count["faults"])
<1>1. count[c] + 1 \in Nat /\ count' = [count EXCEPT ![c] = @ + 1]
  BY DEF Count
<1>2. QED
  BY <1>1 DEF Counters

\* A Reset retires the Core of the node and says so, or is refused.
LEMMA ResetsMoves ==
  ASSUME TypesOK, NEW n \in Nodes, NodeResets(n)
  PROVE  /\ Apart /\ Receives(n, "reset")
         /\ configured' \subseteq Nodes /\ addr' \in [Subjects -> SUBSET Addresses] /\ linked' \in [Subjects -> SUBSET Addresses]
         /\ count' \in [Counters -> Nat]
         /\ \E a, b \in Events :
              /\ a.kind = "started" /\ a.token = NoToken /\ b.kind = "cleaned" /\ b.token = NoToken
              /\ \/ /\ evts' = [evts EXCEPT ![n] = @ \o <<a, b>>] /\ count' = count
                    /\ configured' = configured \ {n}
                    /\ \A s \in Subjects : NodeOf[s] # n => linked'[s] = linked[s]
                 \/ /\ evts' = Sent(n, a) /\ count'["faults"] > 0
                    /\ UNCHANGED nodeVars
<1>1. /\ configured \subseteq Nodes /\ addr \in [Subjects -> SUBSET Addresses] /\ linked \in [Subjects -> SUBSET Addresses]
      /\ count \in [Counters -> Nat]
  BY DEF TypesOK, TypeOK
<1>2. Apart /\ Receives(n, "reset")
  BY DEF NodeResets, Apart
<1> DEFINE a == Evt("started", NoToken, Order[1], {})
           b == Evt("cleaned", NoToken, Order[1], {})
<1>3. a \in Events /\ b \in Events /\ a.kind = "started" /\ a.token = NoToken /\ b.kind = "cleaned" /\ b.token = NoToken
  BY MessageTypes, OrderIs DEF Kinds, NoToken
<1>4. CASE /\ configured' = configured \ {n}
           /\ addr' = [s \in Subjects |-> IF NodeOf[s] = n THEN {} ELSE addr[s]]
           /\ linked' = [s \in Subjects |-> IF NodeOf[s] = n THEN {} ELSE linked[s]]
           /\ evts' = [evts EXCEPT ![n] = @ \o <<a, b>>]
           /\ UNCHANGED count
  <2> HIDE DEF a, b
  <2>1. /\ configured' \subseteq Nodes /\ addr' \in [Subjects -> SUBSET Addresses] /\ linked' \in [Subjects -> SUBSET Addresses]
        /\ \A s \in Subjects : NodeOf[s] # n => linked'[s] = linked[s]
    BY <1>1, <1>4
  <2>2. QED
    BY <1>1, <1>2, <1>3, <1>4, <2>1
<1>5. CASE Count("faults") /\ evts' = Sent(n, a) /\ UNCHANGED nodeVars
  <2> HIDE DEF a, b
  <2>1. count' \in [Counters -> Nat] /\ count'["faults"] > 0
    BY <1>1, <1>5, Counted DEF Counters
  <2>2. UNCHANGED <<configured, addr, linked>>
    BY <1>5 DEF nodeVars
  <2>3. QED
    BY <1>1, <1>2, <1>3, <1>5, <2>1, <2>2
<1>6. QED
  BY <1>4, <1>5 DEF NodeResets

\* A sensor loses its link and says so.
LEMMA LostMoves ==
  ASSUME TypesOK, NEW s \in Subjects, LinkLost(s)
  PROVE  /\ Apart /\ UNCHANGED <<configured, addr, cmds>> /\ linked' \in [Subjects -> SUBSET Addresses]
         /\ count' \in [Counters -> Nat] /\ count'["faults"] = count["faults"] /\ NodeOf[s] \in Nodes
         /\ \E x \in Addresses, e \in Events :
              /\ linked' = [linked EXCEPT ![s] = @ \ {x}]
              /\ evts' = Sent(NodeOf[s], e) /\ e.kind = "lost" /\ e.token = NoToken /\ e.addrs = {x}
<1>1. linked \in [Subjects -> SUBSET Addresses] /\ count \in [Counters -> Nat] /\ NodeOf[s] \in Nodes
  BY SequenceAssumption DEF TypesOK, TypeOK
<1>2. count' \in [Counters -> Nat] /\ count'["faults"] = count["faults"]
  BY <1>1, Counted DEF LinkLost, Counters
<1>3. PICK x \in linked[s] : /\ linked' = [linked EXCEPT ![s] = @ \ {x}]
                             /\ evts' = Sent(NodeOf[s], Evt("lost", NoToken, s, {x}))
  BY DEF LinkLost
<1>4. x \in Addresses /\ linked' \in [Subjects -> SUBSET Addresses]
  BY <1>1, <1>3
<1> DEFINE e == Evt("lost", NoToken, s, {x})
<1>5. e \in Events /\ e.kind = "lost" /\ e.token = NoToken /\ e.addrs = {x}
  BY <1>4, MessageTypes DEF Kinds, NoToken
<1>6. Apart /\ UNCHANGED <<configured, addr, cmds>>
  BY DEF LinkLost, Apart
<1> HIDE DEF e
<1>7. evts' = Sent(NodeOf[s], e)
  BY <1>3 DEF e
<1>8. QED
  BY <1>1, <1>2, <1>3, <1>4, <1>5, <1>6, <1>7

\* A worker reconnects.
LEMMA ReconnectMoves ==
  ASSUME TypesOK, NEW n \in Nodes, Reconnect(n)
  PROVE  /\ Apart /\ UNCHANGED nodeVars /\ count' \in [Counters -> Nat] /\ count'["faults"] > 0
         /\ cmds' \in [Nodes -> Seq(Commands)] /\ evts' \in [Nodes -> Seq(Events)]
         /\ cmds'[n] = <<>> /\ InFlight(evts'[n]) \subseteq InFlight(evts[n])
         /\ \A k \in Nodes \ {n} : cmds'[k] = cmds[k] /\ evts'[k] = evts[k]
<1>1. cmds \in [Nodes -> Seq(Commands)] /\ evts \in [Nodes -> Seq(Events)] /\ evts[n] \in Seq(Events) /\ count \in [Counters -> Nat]
  BY DEF TypesOK
<1>2. count' \in [Counters -> Nat] /\ count'["faults"] > 0
  BY <1>1, Counted DEF Reconnect, Counters
<1>3. PICK k \in 0..Len(evts[n]) : evts' = [evts EXCEPT ![n] = SubSeq(@, 1, k)]
  BY DEF Reconnect
<1>4. SubSeq(evts[n], 1, k) \in Seq(Events) /\ InFlight(SubSeq(evts[n], 1, k)) \subseteq InFlight(evts[n])
  BY <1>1, PrefixInFlight
<1>5. cmds' = [cmds EXCEPT ![n] = <<>>] /\ <<>> \in Seq(Commands)
  BY EmptyInFlight DEF Reconnect
<1>6. Apart /\ UNCHANGED nodeVars
  BY DEF Reconnect, Apart
<1>7. QED
  BY <1>1, <1>2, <1>3, <1>4, <1>5, <1>6

\* The client's Reset is announced and sent to every node.
LEMMA ResetMoves ==
  ASSUME TypesOK, Reset
  PROVE  /\ Apart /\ UNCHANGED nodeVars /\ count' \in [Counters -> Nat] /\ count'["faults"] = count["faults"]
         /\ \E e \in Events : evts' = Sent(Master, e) /\ e.kind = "started" /\ e.token = NoToken
         /\ cmds' \in [Nodes -> Seq(Commands)]
         /\ \E c \in Commands :
              /\ c.op = "reset" /\ c.token = NoToken
              /\ \A n \in Nodes : cmds'[n] = Append(cmds[n], c) /\ InFlight(cmds'[n]) = InFlight(cmds[n]) \cup {c}
<1>1. cmds \in [Nodes -> Seq(Commands)] /\ count \in [Counters -> Nat]
  BY DEF TypesOK
<1>2. count' \in [Counters -> Nat] /\ count'["faults"] = count["faults"]
  BY <1>1, Counted DEF Reset, Counters
<1> DEFINE e == Evt("started", NoToken, Order[1], {})
           c == Cmd("reset", NoToken, Order[1], {})
<1>3. e \in Events /\ e.kind = "started" /\ e.token = NoToken /\ c \in Commands /\ c.op = "reset" /\ c.token = NoToken
  <2>1. Order[1] \in Subjects /\ NoToken \in Nat
    BY OrderIs DEF NoToken
  <2>2. e \in Events /\ e.kind = "started" /\ e.token = NoToken
    BY <2>1, MessageTypes DEF Kinds
  <2>3. c \in Commands /\ c.op = "reset" /\ c.token = NoToken
    BY <2>1, MessageTypes
  <2>4. QED
    BY <2>2, <2>3
<1>4. evts' = Sent(Master, e) /\ cmds' = [n \in Nodes |-> Append(cmds[n], c)]
  BY DEF Reset
<1> HIDE DEF e, c
<1>5. ASSUME NEW n \in Nodes PROVE Append(cmds[n], c) \in Seq(Commands) /\ InFlight(Append(cmds[n], c)) = InFlight(cmds[n]) \cup {c}
  <2>1. cmds[n] \in Seq(Commands)
    BY <1>1
  <2>2. QED
    BY <1>3, <2>1, AppendInFlight
<1>6. cmds' \in [Nodes -> Seq(Commands)] /\ \A n \in Nodes : cmds'[n] = Append(cmds[n], c) /\ InFlight(cmds'[n]) = InFlight(cmds[n]) \cup {c}
  BY <1>4, <1>5
<1>7. Apart /\ UNCHANGED nodeVars
  BY DEF Reset, Apart
<1>8. QED
  BY <1>2, <1>3, <1>4, <1>6, <1>7

\* The client's own discovery.
LEMMA SearchMoves ==
  ASSUME TypesOK, NEW s \in Subjects, Search(s)
  PROVE  /\ Apart /\ UNCHANGED <<nodeVars, evts>> /\ count' \in [Counters -> Nat] /\ count'["faults"] = count["faults"]
         /\ \E c \in Commands : /\ c.op = "search" /\ c.token = NoToken
                                /\ cmds' = [cmds EXCEPT ![NodeOf[s]] = Append(@, c)]
<1>1. selected \in [Subjects -> SUBSET Addresses] /\ count \in [Counters -> Nat]
  BY DEF TypesOK, TypeOK
<1>2. count' \in [Counters -> Nat] /\ count'["faults"] = count["faults"]
  BY <1>1, Counted DEF Search, Counters
<1>3. Exclusions(selected, s) \in SUBSET Addresses
  BY <1>1 DEF Exclusions
<1> DEFINE c == Cmd("search", NoToken, s, Exclusions(selected, s))
<1>4. c \in Commands /\ c.op = "search" /\ c.token = NoToken
  BY <1>3, MessageTypes DEF NoToken
<1>5. cmds' = [cmds EXCEPT ![NodeOf[s]] = Append(@, c)]
  BY DEF Search
<1>6. Apart /\ UNCHANGED <<nodeVars, evts>>
  BY DEF Search, Apart
<1> HIDE DEF c
<1>7. QED
  BY <1>2, <1>4, <1>5, <1>6


-----------------------------------------------------------------------------
(* What each reaction of the sequence does *)

SequenceTypes ==
  /\ selected \in [Subjects -> SUBSET Addresses] /\ completed \subseteq Subjects /\ discovered \subseteq Subjects
  /\ active \in BOOLEAN /\ pending \in Steps /\ timer \in 0..tokens /\ tokens \in Nat
  /\ index \in 0..(Len(Order) + 1) /\ outcome \in {"none", "running", "failed", "completed"}
  /\ count \in [Counters -> Nat]

\* Handlers that leave the outstanding step alone, or give it up without having an answer.
LEMMA QuietTypes ==
  ASSUME SequenceTypes, NEW n \in Nodes, NEW e \in Events,
         OnCleanupStarted \/ OnCleaned(n) \/ OnDisconnected(e) \/ OnSearched(e) \/ Ignore(e)
  PROVE  SequenceTypes'
<1>1. e.subject \in Subjects /\ e.addrs \in SUBSET Addresses
  BY MessageTypes
<1>2. tokens' = tokens /\ count' = count /\ index' = index
  BY DEF OnCleanupStarted, OnCleaned, OnDisconnected, OnSearched, Ignore, sequenceVars
<1>3. Steps' = Steps
  BY <1>2 DEF Steps
<1>4. 0 \in 0..tokens
  BY DEF SequenceTypes
<1>5. selected' \in [Subjects -> SUBSET Addresses] /\ completed' \subseteq Subjects /\ discovered' \subseteq Subjects
  BY <1>1 DEF OnCleanupStarted, OnCleaned, OnDisconnected, OnSearched, Ignore, sequenceVars, SequenceTypes
<1>6. active' \in BOOLEAN
  BY DEF OnCleanupStarted, OnCleaned, OnDisconnected, OnSearched, Ignore, sequenceVars, SequenceTypes, Fail
<1>7. pending' \in Steps
  <2>1. pending' = pending \/ pending' = NoStep
    BY DEF OnCleanupStarted, OnCleaned, OnDisconnected, OnSearched, Ignore, sequenceVars, Fail
  <2>2. QED
    BY <2>1, NoStepIs DEF SequenceTypes
<1>8. timer' \in 0..tokens
  <2>1. timer' = timer \/ timer' = NoToken
    BY DEF OnCleanupStarted, OnCleaned, OnDisconnected, OnSearched, Ignore, sequenceVars, Fail
  <2>2. QED
    BY <1>4, <2>1 DEF SequenceTypes, NoToken
<1>9. outcome' \in {"none", "running", "failed", "completed"}
  <2>1. outcome' = outcome \/ outcome' = "failed"
    BY DEF OnCleanupStarted, OnCleaned, OnDisconnected, OnSearched, Ignore, sequenceVars, Fail
  <2>2. QED
    BY <2>1 DEF SequenceTypes
<1>10. QED
  BY <1>2, <1>3, <1>5, <1>6, <1>7, <1>8, <1>9 DEF SequenceTypes

\* The step is over.
LEMMA OverMoves ==
  ASSUME SequenceTypes, StepFailed
  PROVE  /\ Ended /\ UNCHANGED <<completed, discovered, index, count, tokens>> /\ outcome' \in {outcome, "failed"}
         /\ (selected' \in [Subjects -> SUBSET Addresses] => SequenceTypes')
<1>1. /\ active' = FALSE /\ timer' = NoToken /\ pending' = NoStep
      /\ outcome' \in {outcome, "failed"}
      /\ UNCHANGED <<completed, discovered, index, cmds, tokens, count>>
  BY DEF StepFailed
<1>2. Ended
  BY <1>1 DEF Ended
<1>3. pending' \in Steps'
  BY <1>1, OrderIs DEF NoStep, NoToken, Steps, SequenceTypes
<1>4. active' \in BOOLEAN /\ timer' \in 0..tokens'
  <2>1. active' \in BOOLEAN
    BY <1>1
  <2>2. timer' = 0 /\ tokens' = tokens
    BY <1>1 DEF NoToken
  <2>3. QED
    BY <2>1, <2>2 DEF SequenceTypes
<1>5. ASSUME selected' \in [Subjects -> SUBSET Addresses] PROVE SequenceTypes'
  BY <1>1, <1>3, <1>4, <1>5 DEF SequenceTypes
<1>6. QED
  BY <1>1, <1>2, <1>5

\* The answer to a discovery: refused, accepted by a sequence that has stopped, or
\* accepted and followed by the connection.
LEMMA DiscoveredMoves ==
  ASSUME TypesOK, SequenceTypes, NEW e \in Events, OnDiscovered(e)
  PROVE  /\ SequenceTypes' /\ UNCHANGED <<completed, index>>
         /\ selected' = [selected EXCEPT ![e.subject] = e.addrs]
         /\ \/ Ended /\ discovered' = discovered /\ outcome' \in {outcome, "failed"}
            \/ /\ discovered' = discovered \cup {e.subject} /\ e.addrs \cap Exclusions(selected, e.subject) = {}
               /\ Ended \/ (active /\ SentStep(e.subject, "connecting"))
               /\ outcome' = outcome \/ outcome' \in {"running", "failed"}
<1> DEFINE s == e.subject
<1>1. s \in Subjects /\ e.addrs \in SUBSET Addresses
  BY MessageTypes
<1>2. selected' = [selected EXCEPT ![s] = e.addrs] /\ selected' \in [Subjects -> SUBSET Addresses]
  BY <1>1 DEF OnDiscovered, SequenceTypes
<1>3. CASE ~AcceptsDiscovery(s, e.addrs)
  <2>1. StepFailed
    BY <1>3 DEF OnDiscovered
  <2>2. QED
    BY <1>2, <2>1, OverMoves
<1>4. CASE AcceptsDiscovery(s, e.addrs)
  <2>1. discovered' = discovered \cup {s} /\ UNCHANGED <<completed, index>> /\ e.addrs \cap Exclusions(selected, s) = {}
    BY <1>4 DEF OnDiscovered, AcceptsDiscovery
  <2>2. CASE active /\ Dispatch(s, "connecting")
    <3>1. /\ pending' \in Steps' /\ timer' \in 0..tokens' /\ tokens' \in Nat /\ active' \in BOOLEAN
          /\ count' \in [Counters -> Nat] /\ outcome' \in {"running", "failed"}
          /\ SentStep(s, "connecting") \/ Ended
      BY <1>1, <1>2, <2>2, DispatchMoves DEF StepOps
    <3>2. SequenceTypes'
      BY <1>1, <1>2, <2>1, <3>1 DEF SequenceTypes
    <3>3. QED
      BY <1>2, <2>1, <2>2, <3>1, <3>2
  <2>3. CASE pending' = NoStep /\ timer' = NoToken /\ UNCHANGED <<active, outcome, cmds, tokens, count>> /\ ~active
    <3>1. pending' \in Steps' /\ timer' \in 0..tokens'
      BY <2>3, OrderIs DEF NoStep, NoToken, Steps, SequenceTypes
    <3>2. SequenceTypes'
      BY <1>1, <1>2, <2>1, <2>3, <3>1 DEF SequenceTypes
    <3>3. Ended
      BY <2>3 DEF Ended
    <3>4. QED
      BY <1>2, <2>1, <2>3, <3>2, <3>3
  <2>4. QED
    BY <1>4, <2>2, <2>3 DEF OnDiscovered
<1>5. QED
  BY <1>3, <1>4

\* The answer to a connection: refused, accepted by a sequence that has stopped, or
\* accepted and followed by the next subject.
LEMMA ConnectedMoves ==
  ASSUME TypesOK, SequenceTypes, active => index \in 1..Len(Order), NEW e \in Events, OnConnected(e)
  PROVE  /\ SequenceTypes' /\ UNCHANGED <<selected, discovered>>
         /\ \/ Ended /\ completed' = completed /\ outcome' \in {outcome, "failed"}
            \/ /\ completed' = completed \cup {e.subject} /\ e.addrs = selected[e.subject]
               /\ \/ Ended /\ ~active /\ outcome' = outcome
                  \/ active /\ NextSubject(index + 1)
<1> DEFINE s == e.subject
<1>1. s \in Subjects /\ selected' = selected /\ selected' \in [Subjects -> SUBSET Addresses]
  BY MessageTypes DEF OnConnected, SequenceTypes
<1>2. CASE ~AcceptsConnection(s, e.addrs)
  <2>1. StepFailed
    BY <1>2 DEF OnConnected
  <2>2. QED
    BY <1>1, <2>1, OverMoves
<1>3. CASE AcceptsConnection(s, e.addrs)
  <2>1. completed' = completed \cup {s} /\ discovered' = discovered /\ e.addrs = selected[s]
    BY <1>3 DEF OnConnected, AcceptsConnection
  <2>2. completed' \subseteq Subjects /\ discovered' \subseteq Subjects
    BY <1>1, <2>1 DEF SequenceTypes
  <2>3. CASE active /\ NextSubject(index + 1)
    <3>1. index + 1 \in 1..(Len(Order) + 1)
      BY <2>3, OrderIs
    <3>2. /\ pending' \in Steps' /\ timer' \in 0..tokens' /\ tokens' \in Nat /\ active' \in BOOLEAN
          /\ index' \in 0..(Len(Order) + 1)
          /\ count' \in [Counters -> Nat] /\ outcome' \in {"running", "failed", "completed"}
      BY <1>1, <2>2, <2>3, <3>1, NextSubjectMoves
    <3>3. SequenceTypes'
      BY <1>1, <2>2, <3>2 DEF SequenceTypes
    <3>4. QED
      BY <1>1, <2>1, <2>3, <3>3
  <2>4. CASE pending' = NoStep /\ timer' = NoToken /\ UNCHANGED <<active, index, outcome, cmds, tokens, count>> /\ ~active
    <3>1. pending' \in Steps' /\ timer' \in 0..tokens'
      BY <2>4, OrderIs DEF NoStep, NoToken, Steps, SequenceTypes
    <3>2. SequenceTypes'
      BY <1>1, <2>2, <2>4, <3>1 DEF SequenceTypes
    <3>3. Ended
      BY <2>4 DEF Ended
    <3>4. QED
      BY <1>1, <2>1, <2>4, <3>2, <3>3
  <2>5. QED
    BY <1>3, <2>3, <2>4 DEF OnConnected
<1>4. QED
  BY <1>2, <1>3

\* The error of a step.
LEMMA ErrorMoves ==
  ASSUME SequenceTypes, NEW e \in Events, OnError(e)
  PROVE  /\ SequenceTypes' /\ UNCHANGED <<completed, discovered, index, count>> /\ Ended
         /\ outcome' \in {outcome, "failed"}
         /\ \/ selected' = selected
            \/ pending.op = "discovering" /\ selected' = [selected EXCEPT ![e.subject] = e.addrs]
<1>1. e.subject \in Subjects /\ e.addrs \in SUBSET Addresses
  BY MessageTypes
<1>2. selected' \in [Subjects -> SUBSET Addresses] /\ StepFailed
  BY <1>1 DEF OnError, SequenceTypes
<1>3. QED
  BY <1>2, OverMoves DEF OnError


-----------------------------------------------------------------------------
(* The queues *)

\* A step with a token of its own joins a queue, ...
LEMMA DistinctAppended ==
  ASSUME NEW q \in Seq(Commands), NEW c \in Commands, DistinctSteps(q),
         \A d \in InFlight(q) : IsStep(c) /\ IsStep(d) => d.token # c.token
  PROVE  DistinctSteps(Append(q, c))
<1>1. DOMAIN q = 1..Len(q) /\ DOMAIN Append(q, c) = 1..(Len(q) + 1) /\ Len(q) \in Nat /\ Append(q, c)[Len(q) + 1] = c
  OBVIOUS
<1>2. \A i \in 1..Len(q) : Append(q, c)[i] = q[i] /\ q[i] \in InFlight(q)
  BY <1>1 DEF InFlight
<1>3. ASSUME NEW i \in 1..(Len(q) + 1), NEW j \in 1..(Len(q) + 1), IsStep(Append(q, c)[i]), IsStep(Append(q, c)[j]),
             Append(q, c)[i].token = Append(q, c)[j].token
      PROVE  i = j
  <2>1. (i \in 1..Len(q) \/ i = Len(q) + 1) /\ (j \in 1..Len(q) \/ j = Len(q) + 1)
    BY <1>1
  <2>2. QED
    BY <1>1, <1>2, <1>3, <2>1 DEF DistinctSteps
<1>4. QED
  BY <1>1, <1>3 DEF DistinctSteps

\* ... and when it is received no other has its token.
LEMMA DistinctReceived ==
  ASSUME NEW q \in Seq(Commands), q # <<>>, DistinctSteps(q)
  PROVE  /\ DistinctSteps(Tail(q))
         /\ \A d \in InFlight(Tail(q)) : IsStep(Head(q)) /\ IsStep(d) => d.token # Head(q).token
<1>1. Len(q) \in Nat \ {0} /\ DOMAIN q = 1..Len(q) /\ Head(q) = q[1] /\ DOMAIN Tail(q) = 1..(Len(q) - 1)
  OBVIOUS
<1>2. \A i \in 1..(Len(q) - 1) : Tail(q)[i] = q[i + 1] /\ i + 1 \in 1..Len(q) /\ i + 1 # 1 /\ 1 \in 1..Len(q)
  BY <1>1
<1>3. \A i, j \in 1..(Len(q) - 1) : i + 1 = j + 1 => i = j
  BY <1>1
<1>4. DistinctSteps(Tail(q))
  BY <1>1, <1>2, <1>3 DEF DistinctSteps
<1>5. \A i \in 1..(Len(q) - 1) : IsStep(Head(q)) /\ IsStep(Tail(q)[i]) => Tail(q)[i].token # Head(q).token
  BY <1>1, <1>2 DEF DistinctSteps
<1>6. QED
  BY <1>1, <1>4, <1>5 DEF InFlight

\* A node whose queues a step leaves alone, or takes an event from.
LEMMA NodeKept ==
  ASSUME TypesOK, NEW k \in Nodes, NodeOK(k), UNCHANGED <<pending, tokens, cmds[k]>>,
         InFlight(evts'[k]) \subseteq InFlight(evts[k]), k \notin configured => k \notin configured'
  PROVE  NodeOK(k)'
<1>1. \A c \in InFlight(cmds[k]) : CommandOK(k, c)' = CommandOK(k, c)
  BY DEF CommandOK
<1>2. \A e \in InFlight(evts[k]) : EventOK(k, e)' = EventOK(k, e)
  BY DEF EventOK
<1>3. QED
  BY <1>1, <1>2 DEF NodeOK

\* No step that a configured Core could find is about to be given up.
Free(k) == \A c \in InFlight(cmds[k]) : IsStep(c) /\ c.token = pending.token => k \notin configured

\* The messages that a node has received and sent.
LEMMA MessagesOf ==
  ASSUME TypesOK, NEW k \in Nodes
  PROVE  /\ cmds[k] \in Seq(Commands) /\ evts[k] \in Seq(Events) /\ tokens \in Nat
         /\ \A c \in InFlight(cmds[k]) : c \in Commands /\ c.token \in Nat
         /\ \A e \in InFlight(evts[k]) : e \in Events /\ e.token \in Nat
<1>1. cmds[k] \in Seq(Commands) /\ evts[k] \in Seq(Events) /\ tokens \in Nat
  BY DEF TypesOK
<1>2. (\A c \in InFlight(cmds[k]) : c \in Commands) /\ (\A e \in InFlight(evts[k]) : e \in Events)
  BY <1>1 DEF InFlight
<1>3. QED
  BY <1>1, <1>2, MessageTypes

\* The outstanding step ends.
LEMMA NodeEnded ==
  ASSUME TypesOK, NEW k \in Nodes, NodeOK(k), Ended, Free(k), configured' = configured,
         InFlight(evts'[k]) \subseteq InFlight(evts[k])
  PROVE  NodeOK(k)'
<1>1. /\ tokens \in Nat /\ \A c \in InFlight(cmds[k]) : c.token \in Nat
      /\ \A e \in InFlight(evts[k]) : e.token \in Nat
  BY MessagesOf
<1>2. pending'.token = NoToken /\ cmds' = cmds /\ tokens' \in Nat /\ tokens <= tokens'
  BY <1>1, NoStepIs DEF Ended
<1>3. ASSUME NEW c \in InFlight(cmds[k])
      PROVE CommandOK(k, c)' /\ (IsStep(c) => c.token # pending'.token /\ k \notin configured')
  <2>1. CommandOK(k, c) /\ (IsStep(c) /\ c.token # pending.token => k \notin configured)
    BY <1>3 DEF NodeOK
  <2>2. CommandOK(k, c)'
    BY <1>1, <1>2, <2>1 DEF CommandOK
  <2>3. IsStep(c) => c.token # NoToken
    BY <1>1, <2>1 DEF CommandOK, NoToken
  <2>4. QED
    BY <1>2, <1>3, <2>1, <2>2, <2>3 DEF Free
<1>4. ASSUME NEW e \in InFlight(evts'[k])
      PROVE EventOK(k, e)' /\ (e.kind = "cleaned" => k \notin configured') /\ ~(e.token # NoToken /\ e.token = pending'.token)
  <2>1. e \in InFlight(evts[k]) /\ EventOK(k, e) /\ (e.kind = "cleaned" => k \notin configured) /\ e.token \in Nat
    BY <1>1, <1>4 DEF NodeOK
  <2>2. e.token <= tokens'
    BY <1>1, <1>2, <2>1 DEF EventOK
  <2>3. QED
    BY <1>2, <2>1, <2>2 DEF EventOK
<1>5. QED
  BY <1>2, <1>3, <1>4 DEF NodeOK

\* A new step is sent.
LEMMA NodeSent ==
  ASSUME TypesOK, NEW k \in Nodes, NodeOK(k), NEW s \in Subjects, NEW op \in StepOps, SentStep(s, op), Free(k),
         configured' = configured, InFlight(evts'[k]) \subseteq InFlight(evts[k])
  PROVE  NodeOK(k)' /\ cmds' \in [Nodes -> Seq(Commands)]
<1>1. /\ cmds[k] \in Seq(Commands) /\ tokens \in Nat /\ (\A c \in InFlight(cmds[k]) : c.token \in Nat)
      /\ \A e \in InFlight(evts[k]) : e.token \in Nat
  BY MessagesOf
<1>2. /\ pending'.token = tokens + 1 /\ pending'.subject = s /\ pending'.op = op /\ tokens' = tokens + 1
      /\ tokens + 1 # NoToken /\ NodeOf[s] \in Nodes
  BY <1>1, SequenceAssumption DEF SentStep, NoToken
<1>3. PICK c \in Commands : /\ c.op = op /\ c.token = tokens + 1 /\ c.subject = s
                            /\ cmds' = [cmds EXCEPT ![NodeOf[s]] = Append(@, c)]
  BY DEF SentStep
<1>4. /\ cmds' \in [Nodes -> Seq(Commands)]
      /\ k # NodeOf[s] => cmds'[k] = cmds[k]
      /\ k = NodeOf[s] => cmds'[k] = Append(cmds[k], c) /\ InFlight(cmds'[k]) = InFlight(cmds[k]) \cup {c}
  BY <1>2, <1>3, SentCommand DEF TypesOK
<1>5. ASSUME NEW d \in InFlight(cmds[k])
      PROVE CommandOK(k, d)' /\ (IsStep(d) => d.token # tokens + 1 /\ k \notin configured')
  <2>1. CommandOK(k, d) /\ (IsStep(d) /\ d.token # pending.token => k \notin configured)
    BY <1>5 DEF NodeOK
  <2>2. CommandOK(k, d)'
    BY <1>1, <1>2, <2>1 DEF CommandOK
  <2>3. IsStep(d) => d.token # tokens + 1
    BY <1>1, <2>1 DEF CommandOK
  <2>4. QED
    BY <1>5, <2>1, <2>2, <2>3 DEF Free
<1>6. k = NodeOf[s] => CommandOK(k, c)' /\ IsStep(c)
  BY <1>1, <1>2, <1>3 DEF CommandOK, IsStep
<1>7. ASSUME NEW d \in InFlight(cmds'[k])
      PROVE /\ CommandOK(k, d)'
            /\ IsStep(d) /\ d.token = pending'.token => d.subject = pending'.subject /\ d.op = pending'.op
            /\ IsStep(d) /\ d.token # pending'.token => k \notin configured'
  <2>1. CASE d \in InFlight(cmds[k])
    BY <1>2, <1>5, <2>1
  <2>2. CASE k = NodeOf[s] /\ d = c
    BY <1>2, <1>3, <1>6, <2>2
  <2>3. QED
    BY <1>4, <1>7, <2>1, <2>2
<1>8. ASSUME NEW e \in InFlight(evts'[k])
      PROVE EventOK(k, e)' /\ (e.kind = "cleaned" => k \notin configured') /\ e.token # pending'.token
  <2>1. e \in InFlight(evts[k]) /\ EventOK(k, e) /\ (e.kind = "cleaned" => k \notin configured) /\ e.token \in Nat
    BY <1>1, <1>8 DEF NodeOK
  <2>2. e.token <= tokens' /\ e.token # tokens + 1
    BY <1>1, <1>2, <2>1 DEF EventOK
  <2>3. QED
    BY <1>2, <2>1, <2>2 DEF EventOK
<1>9. DistinctSteps(cmds'[k])
  <2>1. DistinctSteps(cmds[k])
    BY DEF NodeOK
  <2>2. CASE k = NodeOf[s]
    <3>1. DistinctSteps(Append(cmds[k], c))
      BY <1>1, <1>3, <1>5, <2>1, DistinctAppended
    <3>2. QED
      BY <1>4, <2>2, <3>1
  <2>3. QED
    BY <1>4, <2>1, <2>2
<1>10. QED
  BY <1>4, <1>7, <1>8, <1>9 DEF NodeOK

\* A node answers the step it has received.
LEMMA NodeAnswered ==
  ASSUME TypesOK, PendingOK, NEW n \in Nodes, NodeOK(n), NEW op \in StepOps, Receives(n, op),
         NEW Kind, Answers(n, Head(cmds[n]), Kind),
         Kind \subseteq {IF op = "discovering" THEN "discovered" ELSE "connected", "error"},
         UNCHANGED <<pending, tokens, configured>>
  PROVE  NodeOK(n)'
<1> DEFINE c == Head(cmds[n])
<1>1. /\ cmds[n] \in Seq(Commands) /\ cmds[n] # <<>> /\ c \in Commands /\ c \in InFlight(cmds[n]) /\ c.op = op
      /\ cmds'[n] = Tail(cmds[n]) /\ InFlight(cmds'[n]) \subseteq InFlight(cmds[n])
  BY ReceivedCommand DEF TypesOK
<1>2. PICK e \in Events : evts' = Sent(n, e) /\ e.kind \in Kind /\ e.token = c.token /\ e.subject = c.subject
  BY DEF Answers
<1>3. InFlight(evts'[n]) = InFlight(evts[n]) \cup {e}
  BY <1>2, SentEvent DEF TypesOK
<1>4. IsStep(c) /\ CommandOK(n, c) /\ (c.token = pending.token => c.subject = pending.subject /\ c.op = pending.op)
  BY <1>1 DEF NodeOK, IsStep
<1>5. DistinctSteps(cmds'[n]) /\ \A d \in InFlight(cmds'[n]) : IsStep(d) => d.token # c.token
  BY <1>1, <1>4, DistinctReceived DEF NodeOK
<1> HIDE DEF c
<1>6. tokens \in Nat /\ c.token \in 1..tokens /\ NodeOf[c.subject] = n
  BY <1>4 DEF CommandOK, TypesOK
<1>7. c.token <= tokens /\ c.token # NoToken
  BY <1>6 DEF NoToken
<1>8. EventOK(n, e)'
  <2>1. e.kind \in {"discovered", "connected", "error"} /\ (e.kind = "discovered" => op = "discovering")
        /\ (e.kind = "connected" => op = "connecting")
    BY <1>2 DEF StepOps
  <2>2. QED
    BY <1>1, <1>2, <1>4, <1>6, <1>7, <2>1 DEF EventOK
<1>9. e.kind # "cleaned"
  BY <1>2 DEF StepOps
<1>10. (\A d \in InFlight(cmds'[n]) : CommandOK(n, d)' = CommandOK(n, d)) /\ \A f \in InFlight(evts[n]) : EventOK(n, f)' = EventOK(n, f)
  BY DEF CommandOK, EventOK
<1>11. ASSUME NEW d \in InFlight(cmds'[n])
       PROVE /\ CommandOK(n, d)'
             /\ IsStep(d) /\ d.token = pending'.token => d.subject = pending'.subject /\ d.op = pending'.op
             /\ IsStep(d) /\ d.token # pending'.token => n \notin configured'
  BY <1>1, <1>10, <1>11 DEF NodeOK
<1>12. ASSUME NEW f \in InFlight(evts'[n])
       PROVE /\ EventOK(n, f)'
             /\ f.token # NoToken /\ f.token = pending'.token => \A d \in InFlight(cmds'[n]) : IsStep(d) => d.token # pending'.token
             /\ f.kind = "cleaned" => n \notin configured'
  <2>1. CASE f = e
    BY <1>2, <1>5, <1>8, <1>9, <2>1
  <2>2. CASE f \in InFlight(evts[n])
    BY <1>1, <1>10, <2>2 DEF NodeOK
  <2>3. QED
    BY <1>3, <1>12, <2>1, <2>2
<1>13. QED
  BY <1>5, <1>11, <1>12 DEF NodeOK


\* Commands and events without a token come and go.
LEMMA NodeTold ==
  ASSUME TypesOK, NEW n \in Nodes, NodeOK(n), UNCHANGED <<pending, tokens>>, n \notin configured => n \notin configured',
         DistinctSteps(cmds'[n]),
         \A c \in InFlight(cmds'[n]) : c \in InFlight(cmds[n]) \/ (~IsStep(c) /\ c.token = NoToken),
         \A e \in InFlight(evts'[n]) :
           \/ e \in InFlight(evts[n])
           \/ e.token = NoToken /\ e.kind \notin {"connected", "error"} /\ (e.kind = "cleaned" => n \notin configured')
  PROVE  NodeOK(n)'
<1>1. tokens \in Nat
  BY DEF TypesOK
<1>2. (\A d \in InFlight(cmds[n]) : CommandOK(n, d)' = CommandOK(n, d)) /\ \A f \in InFlight(evts[n]) : EventOK(n, f)' = EventOK(n, f)
  BY DEF CommandOK, EventOK
<1>3. ASSUME NEW d \in InFlight(cmds'[n])
      PROVE /\ CommandOK(n, d)'
            /\ IsStep(d) /\ d.token = pending'.token => d.subject = pending'.subject /\ d.op = pending'.op
            /\ IsStep(d) /\ d.token # pending'.token => n \notin configured'
  <2>1. CASE d \in InFlight(cmds[n])
    BY <1>2, <2>1 DEF NodeOK
  <2>2. CASE ~IsStep(d) /\ d.token = NoToken
    BY <2>2 DEF CommandOK
  <2>3. QED
    BY <1>3, <2>1, <2>2
<1>4. ASSUME NEW f \in InFlight(evts'[n])
      PROVE /\ EventOK(n, f)'
            /\ f.token # NoToken /\ f.token = pending'.token => \A d \in InFlight(cmds'[n]) : IsStep(d) => d.token # pending'.token
            /\ f.kind = "cleaned" => n \notin configured'
  <2>1. CASE f \in InFlight(evts[n])
    BY <1>2, <2>1 DEF NodeOK
  <2>2. CASE f.token = NoToken /\ f.kind \notin {"connected", "error"} /\ (f.kind = "cleaned" => n \notin configured')
    <3>1. NoToken <= tokens
      BY <1>1 DEF NoToken
    <3>2. QED
      BY <2>2, <3>1 DEF EventOK
  <2>3. QED
    BY <1>4, <2>1, <2>2
<1>5. QED
  BY <1>3, <1>4 DEF NodeOK

\* The step that is answered is not on its way any more.
LEMMA AnsweredIsFree ==
  ASSUME TypesOK, \A k \in Nodes : NodeOK(k), NEW n \in Nodes, NEW e \in InFlight(evts[n]),
         e.token # NoToken, e.token = pending.token, NEW k \in Nodes
  PROVE  Free(k)
<1>1. EventOK(n, e) /\ \A c \in InFlight(cmds[n]) : IsStep(c) => c.token # pending.token
  BY DEF NodeOK
<1>2. NodeOf[pending.subject] = n
  BY <1>1 DEF EventOK
<1>3. \A c \in InFlight(cmds[k]) : IsStep(c) /\ c.token = pending.token => NodeOf[pending.subject] = k
  BY DEF NodeOK, CommandOK
<1>4. QED
  BY <1>1, <1>2, <1>3 DEF Free

\* The step of a node that was reset finds no configured Core.
LEMMA CleanedIsFree ==
  ASSUME TypesOK, \A k \in Nodes : NodeOK(k), NEW n \in Nodes, NEW e \in InFlight(evts[n]),
         e.kind = "cleaned", NodeOf[pending.subject] = n, NEW k \in Nodes
  PROVE  Free(k)
<1>1. n \notin configured
  BY DEF NodeOK
<1>2. \A c \in InFlight(cmds[k]) : IsStep(c) /\ c.token = pending.token => NodeOf[pending.subject] = k
  BY DEF NodeOK, CommandOK
<1>3. QED
  BY <1>1, <1>2 DEF Free

\* The types of the sequence.
LEMMA TypesSplit ==
  /\ TypesOK => SequenceTypes
  /\ TypesOK <=> /\ SequenceTypes
                 /\ configured \subseteq Nodes /\ addr \in [Subjects -> SUBSET Addresses] /\ linked \in [Subjects -> SUBSET Addresses]
                 /\ cmds \in [Nodes -> Seq(Commands)] /\ evts \in [Nodes -> Seq(Events)]
BY DEF TypesOK, TypeOK, SequenceTypes

\* What an event does to the outstanding step: nothing, or it is over, with or without a new one.
LEMMA EventMoves ==
  ASSUME StepsInv, PassedOK, NEW n \in Nodes, OnEvent(n)
  PROVE  /\ SequenceTypes' /\ UNCHANGED <<configured, addr, linked>>
         /\ \/ UNCHANGED <<pending, tokens, cmds>>
            \/ (Ended \/ \E s \in Subjects, op \in StepOps : SentStep(s, op)) /\ \A k \in Nodes : Free(k)
<1> DEFINE e == Head(evts[n])
           current == e.token # NoToken /\ e.token = pending.token
<1>1. TypesOK /\ SequenceTypes /\ PendingOK /\ (\A k \in Nodes : NodeOK(k)) /\ (active => index \in 1..Len(Order))
  BY TypesSplit DEF StepsInv, PassedOK
<1>2. e \in Events /\ e \in InFlight(evts[n]) /\ e.subject \in Subjects /\ UNCHANGED <<configured, addr, linked>>
  BY <1>1, ReceivedEvent, MessageTypes DEF TypesOK, OnEvent, nodeVars
<1>3. current => \A k \in Nodes : Free(k)
  BY <1>1, <1>2, AnsweredIsFree
<1>4. CASE OnCleanupStarted \/ OnDisconnected(e) \/ OnSearched(e) \/ Ignore(e)
  <2> HIDE DEF e
  <2>1. SequenceTypes'
    BY <1>1, <1>2, <1>4, QuietTypes
  <2>2. UNCHANGED <<pending, tokens, cmds>>
    BY <1>4 DEF OnCleanupStarted, OnDisconnected, OnSearched, Ignore, sequenceVars, Fail
  <2>3. QED
    BY <1>2, <2>1, <2>2
<1>5. CASE e.kind = "cleaned" /\ OnCleaned(n)
  <2>1. SequenceTypes'
    BY <1>1, <1>2, <1>5, QuietTypes
  <2>2. CASE pending # NoStep /\ NodeOf[pending.subject] = n
    <3>1. Ended
      BY <1>5, <2>2 DEF OnCleaned, Ended
    <3>2. \A k \in Nodes : Free(k)
      BY <1>1, <1>2, <1>5, <2>2, CleanedIsFree
    <3>3. QED
      BY <1>2, <2>1, <3>1, <3>2
  <2>3. CASE ~(pending # NoStep /\ NodeOf[pending.subject] = n)
    <3>1. UNCHANGED <<pending, tokens, cmds>>
      BY <1>5, <2>3 DEF OnCleaned
    <3>2. QED
      BY <1>2, <2>1, <3>1
  <2>4. QED
    BY <2>2, <2>3
<1>6. CASE current /\ OnDiscovered(e)
  <2>1. SequenceTypes' /\ (Ended \/ SentStep(e.subject, "connecting"))
    BY <1>1, <1>2, <1>6, DiscoveredMoves
  <2> HIDE DEF e
  <2>2. "connecting" \in StepOps
    BY DEF StepOps
  <2>3. Ended \/ \E s \in Subjects, op \in StepOps : SentStep(s, op)
    BY <1>2, <2>1, <2>2
  <2>4. QED
    BY <1>2, <1>3, <1>6, <2>1, <2>3
<1>7. CASE current /\ OnConnected(e)
  <2>1. /\ SequenceTypes' /\ UNCHANGED <<selected, discovered>>
        /\ Ended \/ (active /\ NextSubject(index + 1))
    BY <1>1, <1>2, <1>7, ConnectedMoves
  <2>2. ASSUME active, NextSubject(index + 1) PROVE Ended \/ \E s \in Subjects, op \in StepOps : SentStep(s, op)
    <3>1. index + 1 \in 1..(Len(Order) + 1)
      BY <1>1, <2>2, OrderIs
    <3>2. selected' \in [Subjects -> SUBSET Addresses] /\ completed' \subseteq Subjects /\ discovered' \subseteq Subjects
      BY <2>1 DEF SequenceTypes
    <3> DEFINE from == index + 1
    <3>3. NextSubject(from) /\ from \in 1..(Len(Order) + 1)
      BY <2>2, <3>1
    <3> HIDE DEF from
    <3>4. QED
      BY <1>1, <3>2, <3>3, NextSubjectMoves
  <2>3. QED
    BY <1>2, <1>3, <1>7, <2>1, <2>2
<1>8. CASE current /\ OnError(e)
  <2>1. SequenceTypes' /\ Ended
    BY <1>1, <1>2, <1>8, ErrorMoves
  <2>2. QED
    BY <1>2, <1>3, <1>8, <2>1
<1>9. QED
  BY <1>4, <1>5, <1>6, <1>7, <1>8 DEF OnEvent


\* An event keeps the queues in order.
LEMMA EventNodes ==
  ASSUME StepsInv, PassedOK, NEW n \in Nodes, OnEvent(n)
  PROVE  TypesOK' /\ \A k \in Nodes : NodeOK(k)'
<1>1. TypesOK /\ \A k \in Nodes : NodeOK(k)
  BY DEF StepsInv
<1>2. /\ SequenceTypes' /\ UNCHANGED <<configured, addr, linked>>
      /\ \/ UNCHANGED <<pending, tokens, cmds>>
         \/ (Ended \/ \E s \in Subjects, op \in StepOps : SentStep(s, op)) /\ \A k \in Nodes : Free(k)
  BY EventMoves
<1>3. evts' \in [Nodes -> Seq(Events)] /\ \A k \in Nodes : InFlight(evts'[k]) \subseteq InFlight(evts[k])
  <2>1. /\ evts' \in [Nodes -> Seq(Events)] /\ InFlight(evts'[n]) \subseteq InFlight(evts[n])
        /\ \A k \in Nodes \ {n} : evts'[k] = evts[k]
    BY <1>1, ReceivedEvent DEF TypesOK
  <2>2. QED
    BY <2>1
<1>4. ASSUME cmds' \in [Nodes -> Seq(Commands)] PROVE TypesOK'
  BY <1>1, <1>2, <1>3, <1>4, TypesSplit DEF TypesOK, TypeOK, SequenceTypes
<1>5. cmds \in [Nodes -> Seq(Commands)]
  BY <1>1 DEF TypesOK
<1>6. CASE UNCHANGED <<pending, tokens, cmds>>
  <2>1. \A k \in Nodes : NodeOK(k)'
    BY <1>1, <1>2, <1>3, <1>6, NodeKept
  <2>2. QED
    BY <1>4, <1>5, <1>6, <2>1
<1>7. CASE Ended /\ \A k \in Nodes : Free(k)
  <2>1. \A k \in Nodes : NodeOK(k)'
    BY <1>1, <1>2, <1>3, <1>7, NodeEnded
  <2>2. QED
    BY <1>4, <1>5, <1>7, <2>1 DEF Ended
<1>8. CASE (\E s \in Subjects, op \in StepOps : SentStep(s, op)) /\ \A k \in Nodes : Free(k)
  <2>1. PICK s \in Subjects, op \in StepOps : SentStep(s, op)
    BY <1>8
  <2>2. \A k \in Nodes : NodeOK(k)' /\ cmds' \in [Nodes -> Seq(Commands)]
    BY <1>1, <1>2, <1>3, <1>8, <2>1, NodeSent
  <2>3. QED
    BY <1>4, <2>2, SequenceAssumption
<1>9. QED
  BY <1>2, <1>6, <1>7, <1>8

\* A new Connect All, which starts only when no step is outstanding.
LEMMA ConnectAllMoves ==
  ASSUME StepsInv, ConnectAll
  PROVE  /\ SequenceTypes' /\ UNCHANGED <<selected, completed, discovered, configured, addr, linked, evts>>
         /\ NextSubject(1) /\ pending = NoStep /\ ~active
         /\ Ended \/ \E s \in Subjects, op \in StepOps : SentStep(s, op)
         /\ \A k \in Nodes : Free(k)
<1>1. TypesOK /\ SequenceTypes /\ \A k \in Nodes : NodeOK(k)
  BY TypesSplit DEF StepsInv
<1>2. UNCHANGED <<selected, completed, discovered, configured, addr, linked, evts>> /\ NextSubject(1) /\ pending = NoStep /\ ~active
  BY DEF ConnectAll, Busy, nodeVars
<1>3. 1 \in 1..(Len(Order) + 1)
  BY OrderIs
<1>4. selected' \in [Subjects -> SUBSET Addresses] /\ completed' \subseteq Subjects /\ discovered' \subseteq Subjects
  BY <1>1, <1>2 DEF SequenceTypes
<1>5. /\ pending' \in Steps' /\ timer' \in 0..tokens' /\ tokens' \in Nat /\ active' \in BOOLEAN
      /\ index' \in 0..(Len(Order) + 1) /\ count' \in [Counters -> Nat] /\ outcome' \in {"running", "failed", "completed"}
      /\ Ended \/ \E s \in Subjects, op \in StepOps : SentStep(s, op)
  BY <1>1, <1>2, <1>3, <1>4, NextSubjectMoves
<1>6. SequenceTypes'
  BY <1>4, <1>5 DEF SequenceTypes
<1>7. \A k \in Nodes : Free(k)
  BY <1>1, <1>2, NoStepIs DEF Free, NodeOK, CommandOK, NoToken
<1>8. QED
  BY <1>2, <1>5, <1>6, <1>7

\* A new Connect All keeps the queues in order.
LEMMA ConnectAllNodes ==
  ASSUME StepsInv, ConnectAll
  PROVE  TypesOK' /\ \A k \in Nodes : NodeOK(k)'
<1>1. TypesOK /\ (\A k \in Nodes : NodeOK(k)) /\ cmds \in [Nodes -> Seq(Commands)]
  BY DEF StepsInv, TypesOK
<1>2. /\ SequenceTypes' /\ UNCHANGED <<configured, addr, linked, evts>>
      /\ Ended \/ \E s \in Subjects, op \in StepOps : SentStep(s, op)
      /\ \A k \in Nodes : Free(k)
  BY ConnectAllMoves
<1>3. ASSUME cmds' \in [Nodes -> Seq(Commands)] PROVE TypesOK'
  BY <1>1, <1>2, <1>3 DEF TypesOK, TypeOK, SequenceTypes
<1>4. CASE Ended
  <2>1. \A k \in Nodes : NodeOK(k)'
    BY <1>1, <1>2, <1>4, NodeEnded
  <2>2. QED
    BY <1>1, <1>3, <1>4, <2>1 DEF Ended
<1>5. CASE \E s \in Subjects, op \in StepOps : SentStep(s, op)
  <2>1. PICK s \in Subjects, op \in StepOps : SentStep(s, op)
    BY <1>5
  <2>2. \A k \in Nodes : NodeOK(k)' /\ cmds' \in [Nodes -> Seq(Commands)]
    BY <1>1, <1>2, <2>1, NodeSent
  <2>3. QED
    BY <1>3, <2>2, SequenceAssumption
<1>6. QED
  BY <1>2, <1>4, <1>5

\* The steps of the nodes and of the client that leave the sequence alone.
LEMMA ApartNodes ==
  ASSUME StepsInv, Apart, configured' \subseteq Nodes, addr' \in [Subjects -> SUBSET Addresses], linked' \in [Subjects -> SUBSET Addresses],
         count' \in [Counters -> Nat], cmds' \in [Nodes -> Seq(Commands)], evts' \in [Nodes -> Seq(Events)]
  PROVE  TypesOK' /\ UNCHANGED <<pending, tokens>>
<1>1. UNCHANGED <<selected, completed, discovered, active, pending, timer, index, outcome, tokens>>
  BY DEF Apart, sequenceVars
<1>2. Steps' = Steps
  BY <1>1 DEF Steps
<1>3. SequenceTypes'
  BY <1>1, <1>2, TypesSplit DEF StepsInv, SequenceTypes
<1>4. QED
  BY <1>1, <1>3 DEF TypesOK, TypeOK, SequenceTypes

\* A node that executes a step and answers it keeps the queues in order.
LEMMA AnswerNodes ==
  ASSUME StepsInv, NEW n \in Nodes, NodeDiscovers(n) \/ NodeConnects(n)
  PROVE  TypesOK' /\ \A k \in Nodes : NodeOK(k)'
<1>1. TypesOK /\ PendingOK /\ (\A k \in Nodes : NodeOK(k)) /\ cmds \in [Nodes -> Seq(Commands)] /\ evts \in [Nodes -> Seq(Events)]
      /\ count \in [Counters -> Nat] /\ configured \subseteq Nodes /\ addr \in [Subjects -> SUBSET Addresses]
      /\ linked \in [Subjects -> SUBSET Addresses]
  BY DEF StepsInv, TypesOK, TypeOK
<1>2. PICK op \in StepOps :
        /\ Apart /\ UNCHANGED <<configured, count>> /\ addr' \in [Subjects -> SUBSET Addresses] /\ linked' \in [Subjects -> SUBSET Addresses]
        /\ Receives(n, op) /\ Answers(n, Head(cmds[n]), {IF op = "discovering" THEN "discovered" ELSE "connected", "error"})
  <2>1. CASE NodeDiscovers(n)
    <3>1. /\ Apart /\ UNCHANGED <<configured, linked, count>> /\ addr' \in [Subjects -> SUBSET Addresses]
          /\ Receives(n, "discovering") /\ Answers(n, Head(cmds[n]), {"discovered", "error"})
      BY <1>1, <2>1, DiscoversMoves
    <3>2. "discovering" \in StepOps
      BY DEF StepOps
    <3>3. QED
      BY <1>1, <3>1, <3>2
  <2>2. CASE NodeConnects(n)
    <3>1. /\ Apart /\ UNCHANGED <<configured, addr, count>> /\ linked' \in [Subjects -> SUBSET Addresses]
          /\ Receives(n, "connecting") /\ Answers(n, Head(cmds[n]), {"connected", "error"})
      BY <1>1, <2>2, ConnectsMoves
    <3>2. "connecting" \in StepOps
      BY DEF StepOps
    <3>3. QED
      BY <1>1, <3>1, <3>2
  <2>3. QED
    BY <2>1, <2>2
<1>3. cmds' \in [Nodes -> Seq(Commands)] /\ \A k \in Nodes \ {n} : cmds'[k] = cmds[k]
  BY <1>1, <1>2, ReceivedCommand
<1>4. PICK e \in Events : evts' = Sent(n, e)
  BY <1>2 DEF Answers
<1>5. evts' \in [Nodes -> Seq(Events)] /\ \A k \in Nodes \ {n} : evts'[k] = evts[k]
  BY <1>1, <1>4, SentEvent
<1>6. TypesOK' /\ UNCHANGED <<pending, tokens>>
  BY <1>1, <1>2, <1>3, <1>5, ApartNodes
<1>7. NodeOK(n)'
  BY <1>1, <1>2, <1>6, NodeAnswered
<1>8. \A k \in Nodes \ {n} : NodeOK(k)'
  BY <1>1, <1>2, <1>3, <1>5, <1>6, NodeKept
<1>9. QED
  BY <1>6, <1>7, <1>8


\* The other steps of a node: a search, a Reset, a lost link, a reconnection.
LEMMA SearchesNodes ==
  ASSUME StepsInv, NEW n \in Nodes, NodeSearches(n)
  PROVE  TypesOK' /\ \A k \in Nodes : NodeOK(k)'
<1>1. TypesOK /\ (\A k \in Nodes : NodeOK(k)) /\ cmds \in [Nodes -> Seq(Commands)] /\ evts \in [Nodes -> Seq(Events)]
      /\ count \in [Counters -> Nat] /\ configured \subseteq Nodes /\ linked \in [Subjects -> SUBSET Addresses]
  BY DEF StepsInv, TypesOK, TypeOK
<1>2. /\ Apart /\ UNCHANGED <<configured, linked, count>> /\ addr' \in [Subjects -> SUBSET Addresses]
      /\ Receives(n, "search")
      /\ \/ evts' = evts
         \/ \E e \in Events : evts' = Sent(n, e) /\ e.kind = "discovered" /\ e.token = NoToken
  BY <1>1, SearchesMoves
<1>3. /\ cmds' \in [Nodes -> Seq(Commands)] /\ (\A k \in Nodes \ {n} : cmds'[k] = cmds[k])
      /\ cmds[n] \in Seq(Commands) /\ cmds[n] # <<>> /\ cmds'[n] = Tail(cmds[n]) /\ InFlight(cmds'[n]) \subseteq InFlight(cmds[n])
  BY <1>1, <1>2, ReceivedCommand
<1>4. DistinctSteps(cmds'[n])
  BY <1>1, <1>3, DistinctReceived DEF NodeOK
<1>5. /\ evts' \in [Nodes -> Seq(Events)] /\ (\A k \in Nodes \ {n} : evts'[k] = evts[k])
      /\ \A e \in InFlight(evts'[n]) : e \in InFlight(evts[n]) \/ (e.token = NoToken /\ e.kind = "discovered")
  <2>1. CASE evts' = evts
    BY <1>1, <2>1
  <2>2. CASE \E e \in Events : evts' = Sent(n, e) /\ e.kind = "discovered" /\ e.token = NoToken
    BY <1>1, <2>2, SentEvent
  <2>3. QED
    BY <1>2, <2>1, <2>2
<1>6. TypesOK' /\ UNCHANGED <<pending, tokens>>
  BY <1>1, <1>2, <1>3, <1>5, ApartNodes
<1>7. NodeOK(n)'
  BY <1>1, <1>2, <1>3, <1>4, <1>5, <1>6, NodeTold
<1>8. \A k \in Nodes \ {n} : NodeOK(k)'
  BY <1>1, <1>2, <1>3, <1>5, <1>6, NodeKept
<1>9. QED
  BY <1>6, <1>7, <1>8

\* The queue of a node that was reset.
LEMMA TwoAppended ==
  ASSUME NEW q \in Seq(Events), NEW a \in Events, NEW b \in Events
  PROVE  q \o <<a, b>> = Append(Append(q, a), b)
<1>1. q \o <<a, b>> \in Seq(Events) /\ Append(Append(q, a), b) \in Seq(Events)
  OBVIOUS
<1>2. Len(q \o <<a, b>>) = Len(q) + 2 /\ Len(Append(Append(q, a), b)) = Len(q) + 2 /\ Len(q) \in Nat
  OBVIOUS
<1>3. ASSUME NEW i \in 1..(Len(q) + 2) PROVE (q \o <<a, b>>)[i] = Append(Append(q, a), b)[i]
  OBVIOUS
<1>4. QED
  BY <1>1, <1>2, <1>3

\* A node that is reset, or refuses to be, keeps the queues in order.
LEMMA ResetsNodes ==
  ASSUME StepsInv, NEW n \in Nodes, NodeResets(n)
  PROVE  TypesOK' /\ \A k \in Nodes : NodeOK(k)'
<1>1. TypesOK /\ (\A k \in Nodes : NodeOK(k)) /\ cmds \in [Nodes -> Seq(Commands)] /\ evts \in [Nodes -> Seq(Events)]
      /\ evts[n] \in Seq(Events)
  BY DEF StepsInv, TypesOK, TypeOK
<1>2. /\ Apart /\ Receives(n, "reset")
      /\ configured' \subseteq Nodes /\ addr' \in [Subjects -> SUBSET Addresses] /\ linked' \in [Subjects -> SUBSET Addresses]
      /\ count' \in [Counters -> Nat]
  BY <1>1, ResetsMoves
<1>3. PICK a, b \in Events :
              /\ a.kind = "started" /\ a.token = NoToken /\ b.kind = "cleaned" /\ b.token = NoToken
              /\ \/ /\ evts' = [evts EXCEPT ![n] = @ \o <<a, b>>]
                    /\ configured' = configured \ {n}
                 \/ /\ evts' = Sent(n, a)
                    /\ UNCHANGED nodeVars
  BY <1>1, ResetsMoves
<1>4. /\ cmds' \in [Nodes -> Seq(Commands)] /\ (\A k \in Nodes \ {n} : cmds'[k] = cmds[k])
      /\ cmds[n] \in Seq(Commands) /\ cmds[n] # <<>> /\ cmds'[n] = Tail(cmds[n]) /\ InFlight(cmds'[n]) \subseteq InFlight(cmds[n])
  BY <1>1, <1>2, ReceivedCommand
<1>5. DistinctSteps(cmds'[n])
  BY <1>1, <1>4, DistinctReceived DEF NodeOK
<1>6. /\ evts' \in [Nodes -> Seq(Events)] /\ (\A k \in Nodes \ {n} : evts'[k] = evts[k])
      /\ \A e \in InFlight(evts'[n]) : e \in InFlight(evts[n]) \/ e = a \/ (e = b /\ n \notin configured')
  <2>1. CASE evts' = [evts EXCEPT ![n] = @ \o <<a, b>>] /\ configured' = configured \ {n}
    <3> DEFINE q1 == Append(evts[n], a)
               q2 == Append(q1, b)
    <3>1. evts' = [evts EXCEPT ![n] = q2]
      BY <1>1, <2>1, TwoAppended
    <3>2. q1 \in Seq(Events) /\ InFlight(q1) = InFlight(evts[n]) \cup {a}
      BY <1>1, AppendInFlight
    <3> HIDE DEF q1
    <3>3. q2 \in Seq(Events) /\ InFlight(q2) = InFlight(q1) \cup {b}
      BY <3>2, AppendInFlight
    <3> HIDE DEF q2
    <3>4. evts' \in [Nodes -> Seq(Events)] /\ evts'[n] = q2 /\ \A k \in Nodes \ {n} : evts'[k] = evts[k]
      BY <1>1, <3>1, <3>3
    <3>5. n \notin configured'
      BY <2>1
    <3>6. QED
      BY <3>2, <3>3, <3>4, <3>5
  <2>2. CASE evts' = Sent(n, a)
    BY <1>1, <2>2, SentEvent
  <2>3. QED
    BY <1>3, <2>1, <2>2
<1>7. TypesOK' /\ UNCHANGED <<pending, tokens>>
  BY <1>2, <1>4, <1>6, ApartNodes
<1>8. configured' \subseteq configured
  BY <1>3 DEF nodeVars
<1>9. NodeOK(n)'
  BY <1>1, <1>3, <1>4, <1>5, <1>6, <1>7, <1>8, NodeTold
<1>10. \A k \in Nodes \ {n} : NodeOK(k)'
  BY <1>1, <1>4, <1>6, <1>7, <1>8, NodeKept
<1>11. QED
  BY <1>7, <1>9, <1>10

\* A lost link keeps the queues in order.
LEMMA LostNodes ==
  ASSUME StepsInv, NEW s \in Subjects, LinkLost(s)
  PROVE  TypesOK' /\ \A k \in Nodes : NodeOK(k)'
<1>1. TypesOK /\ (\A k \in Nodes : NodeOK(k)) /\ cmds \in [Nodes -> Seq(Commands)] /\ evts \in [Nodes -> Seq(Events)]
      /\ configured \subseteq Nodes /\ addr \in [Subjects -> SUBSET Addresses]
  BY DEF StepsInv, TypesOK, TypeOK
<1>2. /\ Apart /\ UNCHANGED <<configured, addr, cmds>> /\ linked' \in [Subjects -> SUBSET Addresses]
      /\ count' \in [Counters -> Nat] /\ NodeOf[s] \in Nodes
  BY <1>1, LostMoves
<1>3. PICK e \in Events : evts' = Sent(NodeOf[s], e) /\ e.kind = "lost" /\ e.token = NoToken
  BY <1>1, LostMoves
<1> DEFINE n == NodeOf[s]
<1> HIDE DEF n
<1>4. n \in Nodes /\ evts' = Sent(n, e)
  BY <1>2, <1>3 DEF n
<1>5. evts' \in [Nodes -> Seq(Events)] /\ InFlight(evts'[n]) = InFlight(evts[n]) \cup {e} /\ \A k \in Nodes \ {n} : evts'[k] = evts[k]
  BY <1>1, <1>4, SentEvent
<1>6. TypesOK' /\ UNCHANGED <<pending, tokens>>
  BY <1>1, <1>2, <1>5, ApartNodes
<1>7. DistinctSteps(cmds'[n])
  BY <1>1, <1>2, <1>4 DEF NodeOK
<1>8. NodeOK(n)'
  BY <1>1, <1>2, <1>3, <1>4, <1>5, <1>6, <1>7, NodeTold
<1>9. \A k \in Nodes \ {n} : NodeOK(k)'
  BY <1>1, <1>2, <1>5, <1>6, NodeKept
<1>10. QED
  BY <1>6, <1>8, <1>9

\* A worker that reconnects keeps the queues in order.
LEMMA ReconnectNodes ==
  ASSUME StepsInv, NEW n \in Nodes, Reconnect(n)
  PROVE  TypesOK' /\ \A k \in Nodes : NodeOK(k)'
<1>1. TypesOK /\ (\A k \in Nodes : NodeOK(k)) /\ configured \subseteq Nodes /\ addr \in [Subjects -> SUBSET Addresses]
      /\ linked \in [Subjects -> SUBSET Addresses]
  BY DEF StepsInv, TypesOK, TypeOK
<1>2. /\ Apart /\ UNCHANGED <<configured, addr, linked>> /\ count' \in [Counters -> Nat]
      /\ cmds' \in [Nodes -> Seq(Commands)] /\ evts' \in [Nodes -> Seq(Events)]
      /\ cmds'[n] = <<>> /\ InFlight(evts'[n]) \subseteq InFlight(evts[n])
      /\ \A k \in Nodes \ {n} : cmds'[k] = cmds[k] /\ evts'[k] = evts[k]
  BY <1>1, ReconnectMoves DEF nodeVars
<1>3. TypesOK' /\ UNCHANGED <<pending, tokens>>
  BY <1>1, <1>2, ApartNodes
<1>4. InFlight(cmds'[n]) = {} /\ DistinctSteps(cmds'[n])
  BY <1>2, EmptyInFlight DEF DistinctSteps
<1>5. NodeOK(n)'
  BY <1>1, <1>2, <1>3, <1>4, NodeTold
<1>6. \A k \in Nodes \ {n} : NodeOK(k)'
  BY <1>1, <1>2, <1>3, NodeKept
<1>7. QED
  BY <1>3, <1>5, <1>6

\* The client's Reset and search.
LEMMA ClientNodes ==
  ASSUME StepsInv, Reset \/ \E s \in Subjects : Search(s)
  PROVE  TypesOK' /\ \A k \in Nodes : NodeOK(k)'
<1>1. TypesOK /\ (\A k \in Nodes : NodeOK(k)) /\ cmds \in [Nodes -> Seq(Commands)] /\ evts \in [Nodes -> Seq(Events)]
      /\ configured \subseteq Nodes /\ addr \in [Subjects -> SUBSET Addresses] /\ linked \in [Subjects -> SUBSET Addresses]
  BY DEF StepsInv, TypesOK, TypeOK
<1>2. /\ Apart /\ UNCHANGED <<configured, addr, linked>> /\ count' \in [Counters -> Nat]
  BY <1>1, ResetMoves, SearchMoves DEF nodeVars
<1>3. PICK c \in Commands :
        /\ ~IsStep(c) /\ c.token = NoToken /\ cmds' \in [Nodes -> Seq(Commands)]
        /\ \A k \in Nodes : \/ cmds'[k] = cmds[k]
                            \/ cmds'[k] = Append(cmds[k], c) /\ InFlight(cmds'[k]) = InFlight(cmds[k]) \cup {c}
  <2>1. CASE Reset
    BY <1>1, <2>1, ResetMoves DEF IsStep, StepOps
  <2>2. ASSUME NEW s \in Subjects, Search(s)
        PROVE \E c \in Commands :
                /\ ~IsStep(c) /\ c.token = NoToken /\ cmds' \in [Nodes -> Seq(Commands)]
                /\ \A k \in Nodes : \/ cmds'[k] = cmds[k]
                                    \/ cmds'[k] = Append(cmds[k], c) /\ InFlight(cmds'[k]) = InFlight(cmds[k]) \cup {c}
    <3>1. PICK c \in Commands : c.op = "search" /\ c.token = NoToken /\ cmds' = [cmds EXCEPT ![NodeOf[s]] = Append(@, c)]
      BY <1>1, <2>2, SearchMoves
    <3> DEFINE n == NodeOf[s]
    <3> HIDE DEF n
    <3>2. n \in Nodes /\ cmds' = [cmds EXCEPT ![n] = Append(@, c)]
      BY <3>1, SequenceAssumption DEF n
    <3>3. /\ cmds' \in [Nodes -> Seq(Commands)] /\ InFlight(cmds'[n]) = InFlight(cmds[n]) \cup {c}
          /\ cmds'[n] = Append(cmds[n], c) /\ \A k \in Nodes \ {n} : cmds'[k] = cmds[k]
      BY <1>1, <3>2, SentCommand
    <3>4. ~IsStep(c)
      BY <3>1 DEF IsStep, StepOps
    <3>5. QED
      BY <3>1, <3>2, <3>3, <3>4
  <2>3. QED
    BY <2>1, <2>2
<1>4. /\ evts' \in [Nodes -> Seq(Events)]
      /\ \A k \in Nodes : \A e \in InFlight(evts'[k]) : e \in InFlight(evts[k]) \/ (e.token = NoToken /\ e.kind = "started")
  <2>1. CASE Reset
    <3>1. PICK e \in Events : evts' = Sent(Master, e) /\ e.kind = "started" /\ e.token = NoToken
      BY <1>1, <2>1, ResetMoves
    <3>2. /\ evts' \in [Nodes -> Seq(Events)] /\ InFlight(evts'[Master]) = InFlight(evts[Master]) \cup {e}
          /\ \A k \in Nodes \ {Master} : evts'[k] = evts[k]
      BY <1>1, <3>1, SentEvent, SequenceAssumption
    <3>3. QED
      BY <3>1, <3>2
  <2>2. CASE \E s \in Subjects : Search(s)
    BY <1>1, <2>2, SearchMoves
  <2>3. QED
    BY <2>1, <2>2
<1>5. TypesOK' /\ UNCHANGED <<pending, tokens>>
  BY <1>1, <1>2, <1>3, <1>4, ApartNodes
<1>6. ASSUME NEW k \in Nodes PROVE NodeOK(k)'
  <2>1. DistinctSteps(cmds'[k])
    <3>1. cmds[k] \in Seq(Commands) /\ DistinctSteps(cmds[k])
      BY <1>1 DEF NodeOK
    <3>2. DistinctSteps(Append(cmds[k], c))
      BY <1>3, <3>1, DistinctAppended
    <3>3. QED
      BY <1>3, <3>1, <3>2
  <2>2. \A d \in InFlight(cmds'[k]) : d \in InFlight(cmds[k]) \/ (~IsStep(d) /\ d.token = NoToken)
    BY <1>3
  <2>3. QED
    BY <1>1, <1>2, <1>4, <1>5, <2>1, <2>2, NodeTold
<1>7. QED
  BY <1>5, <1>6

\* The timer, a reconfiguration, and no step at all.
LEMMA OtherNodes ==
  ASSUME StepsInv, Expire \/ Configure \/ UNCHANGED vars
  PROVE  TypesOK' /\ \A k \in Nodes : NodeOK(k)'
<1>1. TypesOK /\ SequenceTypes /\ \A k \in Nodes : NodeOK(k)
  BY TypesSplit DEF StepsInv
<1>2. UNCHANGED <<pending, tokens, cmds, evts, index>>
  BY DEF Expire, Fail, Configure, vars, sequenceVars
<1>3. Steps' = Steps
  BY <1>2 DEF Steps
<1>4. CASE Expire
  <2>1. /\ active' = FALSE /\ timer' = NoToken /\ outcome' = "failed"
        /\ UNCHANGED <<selected, completed, discovered, configured, addr, linked, count>>
    BY <1>4 DEF Expire, Fail, nodeVars
  <2>2. timer' \in 0..tokens
    BY <1>1, <2>1 DEF SequenceTypes, NoToken
  <2>3. active' \in BOOLEAN
    BY <2>1
  <2>4. TypesOK'
    BY <1>1, <1>2, <1>3, <2>1, <2>2, <2>3 DEF TypesOK, TypeOK
  <2>5. QED
    BY <1>1, <1>2, <2>1, <2>4, NodeKept
<1>5. CASE Configure
  <2>1. /\ selected' = [s \in Subjects |-> {}] /\ completed' = {} /\ discovered' = {} /\ timer' = NoToken
        /\ configured' = Nodes /\ addr' = [s \in Subjects |-> {}] /\ linked' = [s \in Subjects |-> {}]
        /\ UNCHANGED <<active, outcome>> /\ \A n \in Nodes : cmds[n] = <<>> /\ evts[n] = <<>>
    BY <1>5 DEF Configure
  <2>2. count' \in [Counters -> Nat]
    BY <1>1, <1>5, Counted DEF Configure, SequenceTypes, Counters
  <2>3. timer' \in 0..tokens
    BY <1>1, <2>1 DEF SequenceTypes, NoToken
  <2>4. TypesOK'
    BY <1>1, <1>2, <1>3, <2>1, <2>2, <2>3 DEF TypesOK, TypeOK
  <2>5. ASSUME NEW k \in Nodes PROVE NodeOK(k)'
    <3>1. InFlight(cmds'[k]) = {} /\ InFlight(evts'[k]) = {} /\ DistinctSteps(cmds'[k])
      BY <1>2, <2>1, EmptyInFlight DEF DistinctSteps
    <3>2. QED
      BY <3>1 DEF NodeOK
  <2>6. QED
    BY <2>4, <2>5
<1>6. CASE UNCHANGED vars
  <2>1. UNCHANGED <<selected, completed, discovered, active, timer, outcome, configured, addr, linked, count>>
    BY <1>6 DEF vars, sequenceVars, nodeVars
  <2>2. TypesOK'
    BY <1>1, <1>2, <1>3, <2>1 DEF TypesOK, TypeOK
  <2>3. QED
    BY <1>1, <1>2, <2>1, <2>2, NodeKept
<1>7. QED
  BY <1>4, <1>5, <1>6

\* Every step keeps the queues in order.
LEMMA NodesStep ==
  ASSUME StepsInv, PassedOK, [Next]_vars
  PROVE  TypesOK' /\ \A k \in Nodes : NodeOK(k)'
BY EventNodes, ConnectAllNodes, AnswerNodes, SearchesNodes, ResetsNodes, LostNodes, ReconnectNodes, ClientNodes, OtherNodes
DEF Next, NodeNext


-----------------------------------------------------------------------------
(* The position of the sequence and its selections *)

SequenceInv == PendingOK /\ DisjointSelections /\ PassedOK

\* What CompletionHonest says of a step.
Honest == outcome' = "completed" /\ outcome # "completed" => \A s \in Subjects : s \in completed' \/ s \notin discovered'

\* A step that was sent is outstanding.
LEMMA SentIsOutstanding ==
  ASSUME tokens \in Nat, NEW s, NEW op \in StepOps, SentStep(s, op)
  PROVE  pending' # NoStep /\ pending'.token \in 1..tokens' /\ pending'.op \in StepOps /\ ~Ended
<1>1. pending'.token = tokens + 1 /\ tokens' = tokens + 1 /\ pending'.op = op /\ tokens + 1 # 0
  BY DEF SentStep
<1>2. pending' # NoStep
  BY <1>1, NoStepIs DEF NoToken
<1>3. QED
  BY <1>1, <1>2 DEF Ended

\* When nothing is outstanding only the selections matter.
LEMMA EndedSequence ==
  ASSUME Ended, DisjointSelections'
  PROVE  SequenceInv'
<1>1. pending' = NoStep /\ ~active' /\ pending'.op = "none"
  BY NoStepIs DEF Ended
<1>2. PendingOK'
  BY <1>1 DEF PendingOK
<1>3. PassedOK'
  BY <1>1 DEF PassedOK
<1>4. QED
  BY <1>2, <1>3 DEF SequenceInv

\* Selections that are not accepted any more, or were not, may change.
LEMMA SelectionKept ==
  ASSUME SequenceTypes, DisjointSelections, NEW s \in Subjects, NEW A \in SUBSET Addresses,
         selected' = selected \/ selected' = [selected EXCEPT ![s] = A],
         discovered' \subseteq discovered, s \notin discovered'
  PROVE  DisjointSelections'
<1>1. \A t \in discovered' : t \in Subjects /\ selected'[t] = selected[t]
  BY DEF SequenceTypes
<1>2. QED
  BY <1>1 DEF DisjointSelections

\* An accepted selection is disjoint from those of the other subjects.
LEMMA SelectionAdded ==
  ASSUME SequenceTypes, DisjointSelections, NEW s \in Subjects, NEW A \in SUBSET Addresses,
         selected' = [selected EXCEPT ![s] = A], discovered' = discovered \cup {s}, A \cap Exclusions(selected, s) = {}
  PROVE  DisjointSelections'
<1>1. \A t \in discovered \ {s} : t \in Subjects /\ selected'[t] = selected[t]
  BY DEF SequenceTypes
<1>2. selected'[s] = A
  BY DEF SequenceTypes
<1>3. \A t \in Subjects \ {s} : A \cap selected[t] = {}
  BY DEF Exclusions
<1>4. ASSUME NEW t \in discovered', NEW u \in discovered', t # u PROVE selected'[t] \cap selected'[u] = {}
  <2>1. CASE t = s
    BY <1>1, <1>2, <1>3, <1>4, <2>1
  <2>2. CASE u = s
    BY <1>1, <1>2, <1>3, <1>4, <2>2
  <2>3. CASE t # s /\ u # s
    BY <1>1, <1>4, <2>3 DEF DisjointSelections
  <2>4. QED
    BY <2>1, <2>2, <2>3
<1>5. QED
  BY <1>4 DEF DisjointSelections

\* A position lies before another one or not.
LEMMA Between ==
  \A a, b \in Nat : \A i \in 1..(b - 1) : i \in 1..(a - 1) \/ i \in a..(b - 1)
OBVIOUS

\* The next subject is taken, or the Connect All is over: what lies behind is connected.
LEMMA NextSubjectSequence ==
  ASSUME TypesOK, SequenceTypes', DisjointSelections, UNCHANGED <<selected, discovered>>,
         NEW from \in 1..(Len(Order) + 1), NextSubject(from),
         \A i \in 1..(from - 1) : Order[i] \in completed' \/ Order[i] \notin discovered'
  PROVE  SequenceInv' /\ Honest
<1>1. selected' \in [Subjects -> SUBSET Addresses] /\ completed' \subseteq Subjects /\ discovered' \subseteq Subjects
      /\ tokens \in Nat
  BY DEF SequenceTypes, TypesOK
<1>2. DisjointSelections'
  BY DEF DisjointSelections
<1>3. \A j \in from..(index' - 1) : Order[j] \in completed'
  BY <1>1, NextSubjectMoves
<1>4. Len(Order) \in Nat /\ \A s \in Subjects : \E i \in 1..Len(Order) : s = Order[i]
  BY OrderIs
<1>5. index' \in 0..(Len(Order) + 1)
  BY DEF SequenceTypes
<1>6. \A i \in 1..(index' - 1) : Order[i] \in completed' \/ Order[i] \notin discovered'
  <2>1. from \in Nat /\ index' \in Nat
    BY <1>4, <1>5
  <2>2. \A i \in 1..(index' - 1) : i \in 1..(from - 1) \/ i \in from..(index' - 1)
    BY <2>1, Between
  <2>3. QED
    BY <1>3, <2>2
<1>7. ASSUME NEW s \in Subjects, NEW op \in StepOps, SentStep(s, op), index' \in from..Len(Order), s = Order[index'], s \notin completed',
             op = "discovering" => s \notin discovered'
      PROVE  SequenceInv' /\ Honest
  <2>1. pending' # NoStep /\ pending'.token \in 1..tokens' /\ pending'.op \in StepOps
    BY <1>1, <1>7, SentIsOutstanding
  <2>2. pending'.subject = s /\ pending'.op = op /\ outcome' = "running"
    BY <1>7 DEF SentStep
  <2>3. PendingOK'
    BY <1>7, <2>1, <2>2 DEF PendingOK
  <2>4. index' \in 1..Len(Order)
    BY <1>4, <1>7
  <2>5. PassedOK'
    BY <1>6, <1>7, <2>1, <2>2, <2>4 DEF PassedOK
  <2>6. Honest
    BY <2>2 DEF Honest
  <2>7. QED
    BY <1>2, <2>3, <2>5, <2>6 DEF SequenceInv
<1>8. ASSUME Ended, outcome' # "completed" PROVE SequenceInv' /\ Honest
  BY <1>2, <1>8, EndedSequence DEF Honest
<1>9. ASSUME Ended, index' = Len(Order) + 1 PROVE SequenceInv' /\ Honest
  <2>1. \A s \in Subjects : s \in completed' \/ s \notin discovered'
    BY <1>4, <1>6, <1>9
  <2>2. QED
    BY <1>2, <1>9, <2>1, EndedSequence DEF Honest
<1>10. \/ \E s \in Subjects, op \in StepOps :
            /\ SentStep(s, op)
            /\ index' \in from..Len(Order) /\ s = Order[index'] /\ s \notin completed'
            /\ op = "discovering" => s \notin discovered'
       \/ Ended /\ outcome' # "completed"
       \/ Ended /\ index' = Len(Order) + 1
  BY <1>1, NextSubjectMoves
<1>11. QED
  BY <1>7, <1>8, <1>9, <1>10

\* Handlers that have no answer: the position stays, or the Connect All has stopped.
LEMMA QuietSequence ==
  ASSUME SequenceTypes, SequenceInv, NEW n \in Nodes, NEW e \in Events,
         OnCleanupStarted \/ OnCleaned(n) \/ OnDisconnected(e) \/ OnSearched(e) \/ Ignore(e)
  PROVE  SequenceInv' /\ outcome' \in {outcome, "failed"}
<1>1. e.subject \in Subjects /\ e.addrs \in SUBSET Addresses
  BY MessageTypes
<1>2. outcome' \in {outcome, "failed"}
  BY DEF OnCleanupStarted, OnCleaned, OnDisconnected, OnSearched, Ignore, sequenceVars, Fail
<1>3. completed' \subseteq completed /\ discovered' \subseteq discovered /\ index' = index /\ tokens' = tokens
      /\ (pending' = pending \/ (pending' = NoStep /\ ~active')) /\ (active' => active)
  <2>1. completed' \subseteq completed /\ discovered' \subseteq discovered /\ index' = index /\ tokens' = tokens
    BY DEF OnCleanupStarted, OnCleaned, OnDisconnected, OnSearched, Ignore, sequenceVars
  <2>2. pending' = pending \/ (pending' = NoStep /\ ~active')
    BY DEF OnCleanupStarted, OnCleaned, OnDisconnected, OnSearched, Ignore, sequenceVars, Fail
  <2>3. active' => active
    BY DEF OnCleanupStarted, OnCleaned, OnDisconnected, OnSearched, Ignore, sequenceVars, Fail
  <2>4. QED
    BY <2>1, <2>2, <2>3
<1>4. PendingOK'
  BY <1>3, NoStepIs DEF PendingOK, SequenceInv
<1>5. DisjointSelections'
  <2>1. \A t \in discovered' : t \in Subjects /\ selected'[t] = selected[t]
    BY <1>1, <1>3 DEF OnCleanupStarted, OnCleaned, OnDisconnected, OnSearched, Ignore, sequenceVars, SequenceTypes, SubjectsOf
  <2>2. QED
    BY <1>3, <2>1 DEF DisjointSelections, SequenceInv
<1>6. ASSUME active' PROVE \A s \in Subjects : s \in completed /\ s \notin completed' => s \notin discovered'
  BY <1>1, <1>6 DEF OnCleanupStarted, OnCleaned, OnDisconnected, OnSearched, Ignore, sequenceVars, SequenceTypes, SubjectsOf, Fail
<1>7. PassedOK'
  <2>1. SUFFICES ASSUME active' PROVE PassedOK'
    BY DEF PassedOK
  <2>2. active /\ pending' = pending
    BY <1>3, <2>1
  <2>3. /\ pending # NoStep /\ index \in 1..Len(Order) /\ pending.subject = Order[index]
        /\ \A i \in 1..(index - 1) : Order[i] \in completed \/ Order[i] \notin discovered
    BY <2>2 DEF SequenceInv, PassedOK
  <2>4. \A i \in 1..(index - 1) : Order[i] \in Subjects
    BY <2>3, OrderIs
  <2>5. \A i \in 1..(index - 1) : Order[i] \in completed' \/ Order[i] \notin discovered'
    BY <1>3, <1>6, <2>1, <2>3, <2>4
  <2>6. QED
    BY <1>3, <2>2, <2>3, <2>5 DEF PassedOK
<1>8. QED
  BY <1>2, <1>4, <1>5, <1>7 DEF SequenceInv


\* The answer to a discovery.
LEMMA DiscoveredSequence ==
  ASSUME TypesOK, SequenceTypes, SequenceInv, NEW e \in Events, OnDiscovered(e),
         e.subject = pending.subject, pending.op = "discovering"
  PROVE  SequenceInv' /\ outcome' \in {outcome, "running", "failed"}
<1> DEFINE s == e.subject
<1>1. s \in Subjects /\ e.addrs \in SUBSET Addresses
  BY MessageTypes
<1>2. /\ UNCHANGED <<completed, index>> /\ selected' = [selected EXCEPT ![s] = e.addrs]
      /\ \/ Ended /\ discovered' = discovered /\ outcome' \in {outcome, "failed"}
         \/ /\ discovered' = discovered \cup {s} /\ e.addrs \cap Exclusions(selected, s) = {}
            /\ Ended \/ (active /\ SentStep(s, "connecting"))
            /\ outcome' = outcome \/ outcome' \in {"running", "failed"}
  BY DiscoveredMoves
<1>3. /\ DisjointSelections /\ s \notin discovered /\ tokens \in Nat
      /\ pending # NoStep /\ s \notin completed
  BY NoStepIs DEF SequenceInv, PendingOK, TypesOK
<1>4. CASE Ended /\ discovered' = discovered /\ outcome' \in {outcome, "failed"}
  <2>1. DisjointSelections'
    BY <1>1, <1>2, <1>3, <1>4, SelectionKept
  <2>2. QED
    BY <1>4, <2>1, EndedSequence
<1>5. CASE discovered' = discovered \cup {s} /\ e.addrs \cap Exclusions(selected, s) = {}
  <2> HIDE DEF s
  <2>1. DisjointSelections'
    BY <1>1, <1>2, <1>3, <1>5, SelectionAdded
  <2>2. CASE Ended
    BY <1>2, <2>1, <2>2, EndedSequence
  <2>3. CASE active /\ SentStep(s, "connecting")
    <3>1. pending' # NoStep /\ pending'.token \in 1..tokens' /\ pending'.op \in StepOps
      BY <1>3, <2>3, SentIsOutstanding DEF StepOps
    <3>2. pending'.subject = s /\ pending'.op = "connecting" /\ outcome' = "running"
      BY <2>3 DEF SentStep
    <3>3. PendingOK'
      BY <1>2, <1>3, <3>1, <3>2 DEF PendingOK
    <3>4. /\ index \in 1..Len(Order) /\ pending.subject = Order[index]
          /\ \A i \in 1..(index - 1) : Order[i] \in completed \/ Order[i] \notin discovered
      BY <2>3 DEF SequenceInv, PassedOK
    <3>5. \A i \in 1..(index - 1) : i \in 1..Len(Order) /\ i # index
      BY <3>4, OrderIs
    <3>6. \A i \in 1..(index - 1) : Order[i] # s
      BY <3>4, <3>5, OrderIs DEF s
    <3>7. \A i \in 1..(index' - 1) : Order[i] \in completed' \/ Order[i] \notin discovered'
      BY <1>2, <1>5, <3>4, <3>6
    <3>8. PassedOK'
      BY <1>2, <3>1, <3>2, <3>4, <3>7 DEF PassedOK, s
    <3>9. QED
      BY <2>1, <3>2, <3>3, <3>8 DEF SequenceInv
  <2>4. QED
    BY <1>2, <1>3, <1>5, <2>2, <2>3 DEF s
<1>6. QED
  BY <1>2, <1>4, <1>5

\* The answer to a connection.
LEMMA ConnectedSequence ==
  ASSUME TypesOK, SequenceTypes, SequenceInv, NEW e \in Events, OnConnected(e), e.subject = pending.subject
  PROVE  SequenceInv' /\ Honest
<1>1. active => /\ index \in 1..Len(Order) /\ pending.subject = Order[index]
                /\ \A i \in 1..(index - 1) : Order[i] \in completed \/ Order[i] \notin discovered
  BY DEF SequenceInv, PassedOK
<1>2. /\ SequenceTypes' /\ UNCHANGED <<selected, discovered>>
      /\ \/ Ended /\ completed' = completed /\ outcome' \in {outcome, "failed"}
         \/ /\ completed' = completed \cup {e.subject}
            /\ \/ Ended /\ outcome' = outcome
               \/ active /\ NextSubject(index + 1)
  BY <1>1, ConnectedMoves
<1>3. DisjointSelections /\ DisjointSelections'
  BY <1>2 DEF SequenceInv, DisjointSelections
<1>4. CASE Ended /\ outcome' \in {outcome, "failed"}
  BY <1>3, <1>4, EndedSequence DEF Honest
<1>5. CASE completed' = completed \cup {e.subject} /\ active /\ NextSubject(index + 1)
  <2>1. index + 1 \in 1..(Len(Order) + 1) /\ \A i \in 1..((index + 1) - 1) : i \in 1..(index - 1) \/ i = index
    BY <1>1, <1>5, OrderIs
  <2>2. \A i \in 1..((index + 1) - 1) : Order[i] \in completed' \/ Order[i] \notin discovered'
    BY <1>1, <1>2, <1>5, <2>1
  <2> DEFINE from == index + 1
  <2>3. NextSubject(from) /\ from \in 1..(Len(Order) + 1) /\ \A i \in 1..(from - 1) : Order[i] \in completed' \/ Order[i] \notin discovered'
    BY <1>5, <2>1, <2>2
  <2> HIDE DEF from
  <2>4. QED
    BY <1>2, <1>3, <2>3, NextSubjectSequence
<1>6. QED
  BY <1>2, <1>4, <1>5

\* The error of a step.
LEMMA ErrorSequence ==
  ASSUME TypesOK, SequenceTypes, SequenceInv, NEW e \in Events, OnError(e), e.subject = pending.subject
  PROVE  SequenceInv' /\ outcome' \in {outcome, "failed"}
<1>1. e.subject \in Subjects /\ e.addrs \in SUBSET Addresses
  BY MessageTypes
<1>2. /\ UNCHANGED <<completed, discovered, index, count>> /\ Ended /\ outcome' \in {outcome, "failed"}
      /\ \/ selected' = selected
         \/ pending.op = "discovering" /\ selected' = [selected EXCEPT ![e.subject] = e.addrs]
  BY ErrorMoves
<1>3. DisjointSelections /\ (pending.op = "discovering" => e.subject \notin discovered)
  BY DEF SequenceInv, PendingOK
<1>4. CASE selected' = selected
  <2>1. DisjointSelections'
    BY <1>2, <1>3, <1>4 DEF DisjointSelections
  <2>2. QED
    BY <1>2, <2>1, EndedSequence
<1>5. CASE pending.op = "discovering" /\ selected' = [selected EXCEPT ![e.subject] = e.addrs]
  <2>1. DisjointSelections'
    BY <1>1, <1>2, <1>3, <1>5, SelectionKept
  <2>2. QED
    BY <1>2, <2>1, EndedSequence
<1>6. QED
  BY <1>2, <1>4, <1>5

\* The answer to the outstanding step is about its subject.
LEMMA CurrentEvent ==
  ASSUME StepsInv, NEW n \in Nodes, OnEvent(n)
  PROVE  LET e == Head(evts[n]) IN
         /\ e \in Events /\ EventOK(n, e)
         /\ e.token # NoToken /\ e.token = pending.token =>
              /\ e.subject = pending.subject
              /\ e.kind = "discovered" => pending.op = "discovering"
<1> DEFINE e == Head(evts[n])
<1>1. e \in Events /\ e \in InFlight(evts[n])
  BY ReceivedEvent DEF StepsInv, TypesOK
<1>2. EventOK(n, e)
  BY <1>1 DEF StepsInv, NodeOK
<1>3. QED
  BY <1>1, <1>2 DEF EventOK

\* An event keeps the position and the selections.
LEMMA EventSequence ==
  ASSUME StepsInv, SequenceInv, NEW n \in Nodes, OnEvent(n)
  PROVE  SequenceInv' /\ Honest
<1> DEFINE e == Head(evts[n])
           current == e.token # NoToken /\ e.token = pending.token
<1>1. /\ TypesOK /\ SequenceTypes /\ e \in Events
      /\ current => e.subject = pending.subject /\ (e.kind = "discovered" => pending.op = "discovering")
  BY CurrentEvent, TypesSplit DEF StepsInv
<1>2. \/ OnCleanupStarted \/ OnCleaned(n) \/ OnDisconnected(e) \/ OnSearched(e) \/ Ignore(e)
      \/ e.kind = "discovered" /\ current /\ OnDiscovered(e)
      \/ current /\ OnConnected(e)
      \/ current /\ OnError(e)
  BY DEF OnEvent
<1> HIDE DEF e
<1>3. CASE OnCleanupStarted \/ OnCleaned(n) \/ OnDisconnected(e) \/ OnSearched(e) \/ Ignore(e)
  BY <1>1, <1>3, QuietSequence DEF Honest
<1>4. CASE e.kind = "discovered" /\ current /\ OnDiscovered(e)
  BY <1>1, <1>4, DiscoveredSequence DEF Honest
<1>5. CASE current /\ OnConnected(e)
  BY <1>1, <1>5, ConnectedSequence
<1>6. CASE current /\ OnError(e)
  BY <1>1, <1>6, ErrorSequence DEF Honest
<1>7. QED
  BY <1>2, <1>3, <1>4, <1>5, <1>6

\* A new Connect All starts at the first subject.
LEMMA ConnectAllSequence ==
  ASSUME StepsInv, SequenceInv, ConnectAll
  PROVE  SequenceInv' /\ Honest
<1>1. TypesOK /\ DisjointSelections /\ SequenceTypes' /\ UNCHANGED <<selected, discovered>> /\ NextSubject(1)
  BY ConnectAllMoves DEF StepsInv, SequenceInv
<1>2. 1 \in 1..(Len(Order) + 1) /\ \A i \in 1..(1 - 1) : Order[i] \in completed' \/ Order[i] \notin discovered'
  BY OrderIs
<1>3. QED
  BY <1>1, <1>2, NextSubjectSequence

\* The other operations leave the sequence alone, stop it or start from nothing.
LEMMA OtherSequence ==
  ASSUME StepsInv, SequenceInv, Apart \/ Expire \/ Configure
  PROVE  SequenceInv' /\ Honest
<1>1. UNCHANGED <<pending, tokens, index>> /\ completed' \subseteq completed /\ discovered' \subseteq discovered
      /\ (active' => active /\ completed' = completed /\ discovered' = discovered)
      /\ (discovered' = {} \/ (discovered' = discovered /\ selected' = selected))
  BY DEF Apart, Expire, Configure, Fail, sequenceVars, Busy
<1>2. PendingOK'
  BY <1>1 DEF SequenceInv, PendingOK
<1>3. DisjointSelections'
  BY <1>1 DEF SequenceInv, DisjointSelections
<1>4. PassedOK'
  BY <1>1 DEF SequenceInv, PassedOK
<1>5. outcome' \in {outcome, "failed"}
  BY DEF Apart, Expire, Configure, Fail, sequenceVars
<1>6. QED
  BY <1>2, <1>3, <1>4, <1>5 DEF SequenceInv, Honest

\* Every step keeps the position and the selections, and reports "completed" truly.
LEMMA SequenceStep ==
  ASSUME StepsInv, SequenceInv, [Next]_vars
  PROVE  SequenceInv' /\ Honest
<1>1. ConnectAll \/ (\E n \in Nodes : OnEvent(n)) \/ Apart \/ Expire \/ Configure
  BY DEF Next, NodeNext, NodeDiscovers, NodeSearches, NodeConnects, NodeResets, LinkLost, Reconnect, Reset, Search, Apart, vars
<1>2. QED
  BY <1>1, ConnectAllSequence, EventSequence, OtherSequence


-----------------------------------------------------------------------------
(* The links *)

\* Faults are never uncounted.
LEMMA FaultsKept ==
  ASSUME TypesOK, [Next]_vars, count'["faults"] = 0
  PROVE  count["faults"] = 0
<1>1. count \in [Counters -> Nat]
  BY DEF TypesOK
<1>2. \A c \in Counters : Count(c) => count["faults"] = 0
  <2>1. ASSUME NEW c \in Counters, Count(c) PROVE count["faults"] = 0
    <3>1. count' = [count EXCEPT ![c] = @ + 1] /\ count[c] + 1 \in Nat /\ count[c] + 1 # 0
      BY <1>1, <2>1 DEF Count
    <3>2. count'["faults"] = count["faults"] \/ c = "faults"
      BY <1>1, <3>1 DEF Counters
    <3>3. QED
      BY <1>1, <3>1, <3>2 DEF Counters
  <2>2. QED
    BY <2>1
<1>3. ASSUME NEW s, NEW op, Dispatch(s, op) PROVE count["faults"] = 0
  BY <1>2, <1>3 DEF Dispatch, Counters
<1>4. ASSUME NEW from, NextSubject(from) PROVE count["faults"] = 0
  BY <1>3, <1>4 DEF NextSubject
<1>5. CASE ConnectAll
  BY <1>4, <1>5 DEF ConnectAll
<1>6. CASE Expire \/ Configure \/ Reset \/ UNCHANGED vars
  BY <1>2, <1>6 DEF Expire, Configure, Reset, vars, Counters
<1>7. ASSUME NEW s \in Subjects, Search(s) \/ LinkLost(s) PROVE count["faults"] = 0
  BY <1>2, <1>7 DEF Search, LinkLost, Counters
<1>8. ASSUME NEW n \in Nodes, NodeNext(n) \/ Reconnect(n) PROVE count["faults"] = 0
  BY <1>2, <1>8 DEF NodeNext, NodeDiscovers, NodeSearches, NodeConnects, NodeResets, Reconnect, Counters
<1>9. ASSUME NEW n \in Nodes, OnEvent(n) PROVE count["faults"] = 0
  <2>1. ASSUME NEW e, OnDiscovered(e) PROVE count["faults"] = 0
    BY <1>3, <2>1 DEF OnDiscovered, StepFailed
  <2>2. ASSUME NEW e, OnConnected(e) PROVE count["faults"] = 0
    BY <1>4, <2>2 DEF OnConnected, StepFailed
  <2>3. ASSUME NEW e, OnCleanupStarted \/ OnCleaned(n) \/ OnDisconnected(e) \/ OnSearched(e) \/ OnError(e) \/ Ignore(e)
        PROVE count["faults"] = 0
    BY <2>3 DEF OnCleanupStarted, OnCleaned, OnDisconnected, OnSearched, OnError, StepFailed, Ignore
  <2>4. QED
    BY <1>9, <2>1, <2>2, <2>3 DEF OnEvent
<1>10. QED
  BY <1>5, <1>6, <1>7, <1>8, <1>9 DEF Next

\* An event is added that tells of the links that are gone.
LEMMA HeldMore ==
  ASSUME NEW q \in Seq(Events), NEW e \in Events, NEW l, NEW m, Held(q, l),
         e.kind = "connected" => e.addrs \subseteq m[e.subject],
         \A s \in Subjects, A \in SUBSET Addresses : A \subseteq l[s] => A \subseteq m[s] \/ Tells(e, A)
  PROVE  Held(Append(q, e), m)
<1> DEFINE r == Append(q, e)
<1>1. Len(q) \in Nat /\ DOMAIN q = 1..Len(q) /\ DOMAIN r = 1..(Len(q) + 1) /\ r[Len(q) + 1] = e
  OBVIOUS
<1>2. \A i \in 1..Len(q) : r[i] = q[i] /\ q[i] \in Events /\ i \in DOMAIN r /\ i < Len(q) + 1
  BY <1>1
<1>3. Len(q) + 1 \in DOMAIN r
  BY <1>1
<1> HIDE DEF r
<1>4. ASSUME NEW i \in DOMAIN r, r[i].kind = "connected"
      PROVE  r[i].addrs \subseteq m[r[i].subject] \/ \E j \in DOMAIN r : i < j /\ Tells(r[j], r[i].addrs)
  <2>1. CASE i = Len(q) + 1
    BY <1>1, <1>4, <2>1
  <2>2. CASE i \in 1..Len(q)
    <3>1. r[i] = q[i] /\ q[i].subject \in Subjects /\ q[i].addrs \in SUBSET Addresses
      BY <1>2, <2>2, MessageTypes
    <3>2. q[i].addrs \subseteq l[q[i].subject] \/ \E j \in DOMAIN q : i < j /\ Tells(q[j], q[i].addrs)
      BY <1>1, <1>4, <2>2, <3>1 DEF Held
    <3>3. CASE q[i].addrs \subseteq l[q[i].subject]
      BY <1>1, <1>2, <1>3, <2>2, <3>1, <3>3
    <3>4. CASE \E j \in DOMAIN q : i < j /\ Tells(q[j], q[i].addrs)
      BY <1>1, <1>2, <3>1, <3>4
    <3>5. QED
      BY <3>2, <3>3, <3>4
  <2>3. QED
    BY <1>1, <2>1, <2>2
<1>5. QED
  BY <1>4 DEF Held, r

\* The links of the confirmed subjects are kept.
LEMMA HeldKept ==
  ASSUME NEW q \in Seq(Events), NEW l, NEW m, Held(q, l),
         \A e \in InFlight(q) : e.kind = "connected" => l[e.subject] \subseteq m[e.subject]
  PROVE  Held(q, m)
<1>1. \A i \in DOMAIN q : q[i] \in InFlight(q)
  BY DEF InFlight
<1>2. QED
  BY <1>1 DEF Held

\* The next event is taken.
LEMMA HeldTaken ==
  ASSUME NEW q \in Seq(Events), q # <<>>, NEW l, Held(q, l)
  PROVE  /\ Held(Tail(q), l)
         /\ Head(q).kind = "connected" =>
              Head(q).addrs \subseteq l[Head(q).subject] \/ \E e \in InFlight(Tail(q)) : Tells(e, Head(q).addrs)
<1> DEFINE r == Tail(q)
<1>1. Len(q) \in Nat \ {0} /\ DOMAIN q = 1..Len(q) /\ Head(q) = q[1] /\ DOMAIN r = 1..(Len(q) - 1) /\ 1 \in DOMAIN q
  OBVIOUS
<1>2. \A i \in DOMAIN r : r[i] = q[i + 1] /\ i + 1 \in DOMAIN q
  BY <1>1
<1>3. \A j \in DOMAIN q : 1 < j => j - 1 \in DOMAIN r /\ r[j - 1] = q[j]
  BY <1>1
<1> HIDE DEF r
<1>4. ASSUME NEW i \in DOMAIN r, r[i].kind = "connected"
      PROVE  r[i].addrs \subseteq l[r[i].subject] \/ \E j \in DOMAIN r : i < j /\ Tells(r[j], r[i].addrs)
  <2>1. r[i] = q[i + 1] /\ i + 1 \in DOMAIN q /\ i \in Nat \ {0}
    BY <1>1, <1>2
  <2>2. r[i].addrs \subseteq l[r[i].subject] \/ \E j \in DOMAIN q : i + 1 < j /\ Tells(q[j], r[i].addrs)
    BY <1>4, <2>1 DEF Held
  <2>3. ASSUME NEW j \in DOMAIN q, i + 1 < j, Tells(q[j], r[i].addrs)
        PROVE  \E k \in DOMAIN r : i < k /\ Tells(r[k], r[i].addrs)
    <3>1. j - 1 \in DOMAIN r /\ r[j - 1] = q[j] /\ i < j - 1
      BY <1>1, <1>3, <2>1, <2>3
    <3>2. QED
      BY <2>3, <3>1
  <2>4. QED
    BY <2>2, <2>3
<1>5. ASSUME Head(q).kind = "connected"
      PROVE  Head(q).addrs \subseteq l[Head(q).subject] \/ \E e \in InFlight(r) : Tells(e, Head(q).addrs)
  <2>1. Head(q).addrs \subseteq l[Head(q).subject] \/ \E j \in DOMAIN q : 1 < j /\ Tells(q[j], Head(q).addrs)
    BY <1>1, <1>5 DEF Held
  <2>2. \A j \in DOMAIN q : 1 < j => q[j] \in InFlight(r)
    BY <1>3 DEF InFlight
  <2>3. QED
    BY <2>1, <2>2
<1>6. QED
  BY <1>4, <1>5 DEF Held, r


LinksHold == (\A n \in Nodes : LinksOK(n)) /\ (\A s \in Subjects : SubjectOK(s))

\* Links are made, and a node says something.
LEMMA LinksMade ==
  ASSUME StepsInv, LinksHold, UNCHANGED <<selected, completed>>, linked' \in [Subjects -> SUBSET Addresses],
         \A t \in Subjects : linked[t] \subseteq linked'[t],
         NEW n \in Nodes, NEW e \in Events, evts' = Sent(n, e), e.kind = "connected" => e.addrs = linked'[e.subject]
  PROVE  LinksHold'
<1>1. TypesOK /\ evts \in [Nodes -> Seq(Events)]
  BY DEF StepsInv, TypesOK
<1>2. InFlight(evts'[n]) = InFlight(evts[n]) \cup {e} /\ evts'[n] = Append(evts[n], e) /\ \A k \in Nodes \ {n} : evts'[k] = evts[k]
  BY <1>1, SentEvent
<1>3. LinksOK(n)'
  <2>1. evts[n] \in Seq(Events) /\ Held(evts[n], linked)
    BY <1>1 DEF LinksHold, LinksOK
  <2>2. \A s \in Subjects, A \in SUBSET Addresses : A \subseteq linked[s] => A \subseteq linked'[s] \/ Tells(e, A)
    OBVIOUS
  <2>3. Held(Append(evts[n], e), linked')
    BY <2>1, <2>2, HeldMore
  <2>4. QED
    BY <1>2, <2>3 DEF LinksOK
<1>4. ASSUME NEW k \in Nodes \ {n} PROVE LinksOK(k)'
  <2>1. evts[k] \in Seq(Events) /\ Held(evts[k], linked) /\ evts'[k] = evts[k]
    BY <1>1, <1>2 DEF LinksHold, LinksOK
  <2>2. \A f \in InFlight(evts[k]) : f \in Events
    BY <2>1 DEF InFlight
  <2>3. \A f \in InFlight(evts[k]) : f.kind = "connected" => linked[f.subject] \subseteq linked'[f.subject]
    BY <2>2, MessageTypes
  <2>4. Held(evts[k], linked')
    BY <2>1, <2>3, HeldKept
  <2>5. QED
    BY <2>1, <2>4 DEF LinksOK
<1>5. ASSUME NEW s \in Subjects PROVE SubjectOK(s)'
  <2>1. NodeOf[s] \in Nodes /\ linked[s] \subseteq linked'[s] /\ SubjectOK(s)
    BY SequenceAssumption DEF LinksHold
  <2>2. InFlight(evts[NodeOf[s]]) \subseteq InFlight(evts'[NodeOf[s]])
    BY <1>2, <2>1
  <2>3. QED
    BY <2>1, <2>2 DEF SubjectOK
<1>6. QED
  BY <1>3, <1>4, <1>5 DEF LinksHold

\* A node was reset: it says so after everything else that it said.
LEMMA LinksReset ==
  ASSUME StepsInv, LinksHold, UNCHANGED <<selected, completed>>,
         NEW n \in Nodes, NEW a \in Events, NEW b \in Events, a.kind = "started", b.kind = "cleaned",
         evts' = [evts EXCEPT ![n] = @ \o <<a, b>>],
         \A s \in Subjects : NodeOf[s] # n => linked'[s] = linked[s]
  PROVE  LinksHold'
<1> DEFINE q1 == Append(evts[n], a)
           q2 == Append(q1, b)
<1>1. evts \in [Nodes -> Seq(Events)] /\ evts[n] \in Seq(Events) /\ Held(evts[n], linked)
  BY DEF StepsInv, TypesOK, LinksHold, LinksOK
<1>2. q1 \in Seq(Events) /\ Held(q1, linked)
  <2>1. \A s \in Subjects, A \in SUBSET Addresses : A \subseteq linked[s] => A \subseteq linked[s] \/ Tells(a, A)
    OBVIOUS
  <2>2. QED
    BY <1>1, <2>1, HeldMore, AppendInFlight
<1>3. evts' = [evts EXCEPT ![n] = q2]
  BY <1>1, TwoAppended
<1> HIDE DEF q1
<1>4. q2 \in Seq(Events) /\ b \in InFlight(q2) /\ Held(q2, linked')
  <2>1. \A s \in Subjects, A \in SUBSET Addresses : A \subseteq linked[s] => A \subseteq linked'[s] \/ Tells(b, A)
    BY DEF Tells
  <2>2. q2 \in Seq(Events) /\ InFlight(q2) = InFlight(q1) \cup {b}
    BY <1>2, AppendInFlight
  <2>3. QED
    BY <1>2, <2>1, <2>2, HeldMore
<1> HIDE DEF q2
<1>5. evts'[n] = q2 /\ \A k \in Nodes \ {n} : evts'[k] = evts[k]
  BY <1>1, <1>3
<1>6. LinksOK(n)'
  BY <1>4, <1>5 DEF LinksOK
<1>7. ASSUME NEW k \in Nodes \ {n} PROVE LinksOK(k)'
  <2>1. evts[k] \in Seq(Events) /\ Held(evts[k], linked) /\ evts'[k] = evts[k] /\ NodeOK(k)
    BY <1>1, <1>5 DEF LinksHold, LinksOK, StepsInv
  <2>2. \A f \in InFlight(evts[k]) : f \in Events /\ EventOK(k, f)
    BY <2>1 DEF InFlight, NodeOK
  <2>3. \A f \in InFlight(evts[k]) : f.kind = "connected" => linked[f.subject] \subseteq linked'[f.subject]
    BY <2>2, MessageTypes DEF EventOK
  <2>4. Held(evts[k], linked')
    BY <2>1, <2>3, HeldKept
  <2>5. QED
    BY <2>1, <2>4 DEF LinksOK
<1>8. ASSUME NEW s \in Subjects PROVE SubjectOK(s)'
  <2>1. NodeOf[s] \in Nodes /\ SubjectOK(s)
    BY SequenceAssumption DEF LinksHold
  <2>2. CASE NodeOf[s] = n
    BY <1>4, <1>5, <2>2 DEF SubjectOK, Tells
  <2>3. CASE NodeOf[s] # n
    BY <1>5, <2>1, <2>3 DEF SubjectOK
  <2>4. QED
    BY <2>2, <2>3
<1>9. QED
  BY <1>6, <1>7, <1>8 DEF LinksHold

\* A link is lost, and its node says so.
LEMMA LinksLost ==
  ASSUME StepsInv, LinksHold, UNCHANGED <<selected, completed>>, NEW s \in Subjects, NEW x \in Addresses, NEW e \in Events,
         linked' = [linked EXCEPT ![s] = @ \ {x}], evts' = Sent(NodeOf[s], e), e.kind = "lost", e.addrs = {x}
  PROVE  LinksHold'
<1> DEFINE n == NodeOf[s]
<1>1. /\ evts \in [Nodes -> Seq(Events)] /\ n \in Nodes
      /\ linked \in [Subjects -> SUBSET Addresses] /\ selected \in [Subjects -> SUBSET Addresses]
  BY SequenceAssumption DEF StepsInv, TypesOK, TypeOK
<1>2. \A t \in Subjects, A \in SUBSET Addresses : A \subseteq linked[t] => A \subseteq linked'[t] \/ (t = s /\ Tells(e, A))
  BY <1>1 DEF Tells
<1> HIDE DEF n
<1>3. InFlight(evts'[n]) = InFlight(evts[n]) \cup {e} /\ evts'[n] = Append(evts[n], e) /\ \A k \in Nodes \ {n} : evts'[k] = evts[k]
  BY <1>1, SentEvent DEF n
<1>4. LinksOK(n)'
  <2>1. evts[n] \in Seq(Events) /\ Held(evts[n], linked)
    BY <1>1 DEF LinksHold, LinksOK
  <2>2. /\ e.kind = "connected" => e.addrs \subseteq linked'[e.subject]
        /\ \A t \in Subjects, A \in SUBSET Addresses : A \subseteq linked[t] => A \subseteq linked'[t] \/ Tells(e, A)
    BY <1>2
  <2> DEFINE q == evts[n]
             m == linked'
  <2>3. /\ q \in Seq(Events) /\ Held(q, linked) /\ (e.kind = "connected" => e.addrs \subseteq m[e.subject])
        /\ \A t \in Subjects, A \in SUBSET Addresses : A \subseteq linked[t] => A \subseteq m[t] \/ Tells(e, A)
    BY <2>1, <2>2
  <2> HIDE DEF q, m
  <2>4. Held(Append(q, e), m)
    BY ONLY <2>3, e \in Events, HeldMore, Zenon
  <2>5. QED
    BY <1>3, <2>4 DEF LinksOK, q, m
<1>5. ASSUME NEW k \in Nodes \ {n} PROVE LinksOK(k)'
  <2>1. evts[k] \in Seq(Events) /\ Held(evts[k], linked) /\ evts'[k] = evts[k] /\ NodeOK(k)
    BY <1>1, <1>3 DEF LinksHold, LinksOK, StepsInv
  <2>2. \A f \in InFlight(evts[k]) : f \in Events /\ EventOK(k, f)
    BY <2>1 DEF InFlight, NodeOK
  <2>3. \A f \in InFlight(evts[k]) : f.kind = "connected" => f.subject \in Subjects /\ f.subject # s
    BY <2>2, MessageTypes DEF EventOK, n
  <2>4. \A f \in InFlight(evts[k]) : f.kind = "connected" => linked[f.subject] \subseteq linked'[f.subject]
    BY <1>1, <2>3
  <2>5. Held(evts[k], linked')
    BY <2>1, <2>4, HeldKept
  <2>6. QED
    BY <2>1, <2>5 DEF LinksOK
<1>6. ASSUME NEW t \in Subjects PROVE SubjectOK(t)'
  <2>1. NodeOf[t] \in Nodes /\ SubjectOK(t) /\ selected[t] \in SUBSET Addresses
    BY <1>1, SequenceAssumption DEF LinksHold
  <2>2. InFlight(evts[NodeOf[t]]) \subseteq InFlight(evts'[NodeOf[t]]) /\ (t = s => e \in InFlight(evts'[NodeOf[t]]))
    BY <1>3, <2>1 DEF n
  <2>3. QED
    BY <1>2, <2>1, <2>2 DEF SubjectOK
<1>7. QED
  BY <1>4, <1>5, <1>6 DEF LinksHold

\* What an event makes of a subject that counts as connected: it did already and the event
\* is not about it, or the event confirms its connection.
LEMMA EventCompleted ==
  ASSUME StepsInv, PassedOK, NEW n \in Nodes, OnEvent(n), NEW s \in completed'
  PROVE  LET e == Head(evts[n]) IN
         /\ s \in Subjects
         /\ \/ s \in completed /\ selected'[s] = selected[s] /\ ~(NodeOf[s] = n /\ Tells(e, selected[s]))
            \/ s = e.subject /\ e.kind = "connected" /\ e.addrs = selected'[s] /\ NodeOf[s] = n
<1> DEFINE e == Head(evts[n])
           current == e.token # NoToken /\ e.token = pending.token
<1>1. /\ TypesOK /\ SequenceTypes /\ PendingOK /\ e \in Events /\ EventOK(n, e) /\ (active => index \in 1..Len(Order))
      /\ current => e.subject = pending.subject
  BY CurrentEvent, TypesSplit DEF StepsInv, PassedOK
<1>2. SequenceTypes'
  BY EventMoves
<1>3. s \in Subjects /\ selected \in [Subjects -> SUBSET Addresses]
  BY <1>1, <1>2 DEF SequenceTypes
<1>4. \/ e.kind = "started" /\ OnCleanupStarted
      \/ e.kind = "cleaned" /\ OnCleaned(n)
      \/ e.kind = "lost" /\ OnDisconnected(e)
      \/ e.kind = "discovered" /\ OnSearched(e)
      \/ e.kind = "discovered" /\ current /\ OnDiscovered(e)
      \/ e.kind = "connected" /\ current /\ OnConnected(e)
      \/ e.kind = "error" /\ current /\ OnError(e)
      \/ Ignore(e)
  BY DEF OnEvent
<1>5. e.subject \in Subjects /\ e.addrs \in SUBSET Addresses /\ (e.kind \in {"cleaned", "lost"} => e.token = NoToken)
      /\ (e.kind = "connected" => NodeOf[e.subject] = n)
  BY <1>1, MessageTypes DEF EventOK
<1> HIDE DEF e
<1> DEFINE Rest == \/ s \in completed /\ selected'[s] = selected[s] /\ ~(NodeOf[s] = n /\ Tells(e, selected[s]))
                   \/ s = e.subject /\ e.kind = "connected" /\ e.addrs = selected'[s] /\ NodeOf[s] = n
<1>6. ASSUME e.kind = "started", OnCleanupStarted PROVE Rest
  BY <1>6 DEF OnCleanupStarted, Tells
<1>7. ASSUME e.kind = "cleaned", OnCleaned(n) PROVE Rest
  BY <1>3, <1>7 DEF OnCleaned, SubjectsOf, Tells
<1>8. ASSUME e.kind = "lost", OnDisconnected(e) PROVE Rest
  BY <1>3, <1>8 DEF OnDisconnected, Tells
<1>9. ASSUME e.kind = "discovered", OnSearched(e) PROVE Rest
  BY <1>3, <1>9 DEF OnSearched, Tells
<1>10. ASSUME e.kind = "discovered", current, OnDiscovered(e) PROVE Rest
  <2>1. completed' = completed /\ selected' = [selected EXCEPT ![e.subject] = e.addrs]
    BY <1>1, <1>10, DiscoveredMoves
  <2>2. e.subject \notin completed
    BY <1>1, <1>10, NoStepIs DEF PendingOK
  <2>3. QED
    BY <1>3, <1>10, <2>1, <2>2 DEF Tells
<1>11. ASSUME e.kind = "connected", current, OnConnected(e) PROVE Rest
  <2>1. selected' = selected /\ (completed' = completed \/ (completed' = completed \cup {e.subject} /\ e.addrs = selected[e.subject]))
    BY <1>1, <1>11, ConnectedMoves
  <2>2. QED
    BY <1>5, <1>11, <2>1 DEF Tells
<1>12. ASSUME e.kind = "error", current, OnError(e) PROVE Rest
  <2>1. completed' = completed /\ (selected' = selected \/ selected' = [selected EXCEPT ![e.subject] = e.addrs])
    BY <1>1, <1>12, ErrorMoves
  <2>2. e.subject \notin completed
    BY <1>1, <1>12, NoStepIs DEF PendingOK
  <2>3. QED
    BY <1>3, <1>12, <2>1, <2>2 DEF Tells
<1>13. ASSUME Ignore(e) PROVE Rest
  BY <1>5, <1>13 DEF Ignore, Tells, sequenceVars
<1>14. Rest
  BY <1>4, <1>6, <1>7, <1>8, <1>9, <1>10, <1>11, <1>12, <1>13
<1>15. QED
  BY <1>3, <1>14 DEF e


\* An event keeps the links held.
LEMMA LinksTaken ==
  ASSUME StepsInv, PassedOK, LinksHold, NEW n \in Nodes, OnEvent(n)
  PROVE  LinksHold'
<1> DEFINE e == Head(evts[n])
<1>1. /\ evts[n] # <<>> /\ evts[n] \in Seq(Events) /\ evts'[n] = Tail(evts[n])
      /\ InFlight(evts[n]) = InFlight(evts'[n]) \cup {e}
      /\ \A k \in Nodes \ {n} : evts'[k] = evts[k]
  BY ReceivedEvent DEF StepsInv, TypesOK
<1>2. linked' = linked
  BY DEF OnEvent, nodeVars
<1>3. /\ Held(Tail(evts[n]), linked)
      /\ e.kind = "connected" =>
           e.addrs \subseteq linked[e.subject] \/ \E f \in InFlight(Tail(evts[n])) : Tells(f, e.addrs)
  BY <1>1, HeldTaken DEF LinksHold, LinksOK
<1>4. ASSUME NEW k \in Nodes PROVE LinksOK(k)'
  BY <1>1, <1>2, <1>3 DEF LinksHold, LinksOK
<1>5. ASSUME NEW s \in Subjects, s \in completed'
      PROVE  selected'[s] \subseteq linked'[s] \/ \E f \in InFlight(evts'[NodeOf[s]]) : Tells(f, selected'[s])
  <2>1. \/ s \in completed /\ selected'[s] = selected[s] /\ ~(NodeOf[s] = n /\ Tells(e, selected[s]))
        \/ s = e.subject /\ e.kind = "connected" /\ e.addrs = selected'[s] /\ NodeOf[s] = n
    BY <1>5, EventCompleted
  <2> HIDE DEF e
  <2>2. CASE s \in completed /\ selected'[s] = selected[s] /\ ~(NodeOf[s] = n /\ Tells(e, selected[s]))
    <3>1. selected[s] \subseteq linked[s] \/ \E f \in InFlight(evts[NodeOf[s]]) : Tells(f, selected[s])
      BY <2>2 DEF LinksHold, SubjectOK
    <3>2. NodeOf[s] \in Nodes
      BY SequenceAssumption
    <3>3. \A f \in InFlight(evts[NodeOf[s]]) : Tells(f, selected[s]) => f \in InFlight(evts'[NodeOf[s]])
      BY <1>1, <2>2, <3>2
    <3>4. QED
      BY <1>2, <2>2, <3>1, <3>3
  <2>3. CASE s = e.subject /\ e.kind = "connected" /\ e.addrs = selected'[s] /\ NodeOf[s] = n
    BY <1>1, <1>2, <1>3, <2>3
  <2>4. QED
    BY <2>1, <2>2, <2>3
<1>6. QED
  BY <1>4, <1>5 DEF LinksHold, SubjectOK

\* A node that answers, or the client's Reset: links are made, and one event is added.
LEMMA LinksAnswered ==
  ASSUME StepsInv, LinksHold,
         Reset \/ \E n \in Nodes : NodeDiscovers(n) \/ NodeSearches(n) \/ NodeConnects(n)
  PROVE  LinksHold'
<1>1. TypesOK /\ linked \in [Subjects -> SUBSET Addresses] /\ Master \in Nodes
  BY SequenceAssumption DEF StepsInv, TypesOK, TypeOK
<1>2. ASSUME NEW n \in Nodes, NodeDiscovers(n) PROVE LinksHold'
  <2>1. Apart /\ linked' = linked /\ Answers(n, Head(cmds[n]), {"discovered", "error"})
    BY <1>1, <1>2, DiscoversMoves
  <2>2. PICK e \in Events : evts' = Sent(n, e) /\ (e.kind = "connected" => e.addrs = linked'[e.subject])
    BY <2>1 DEF Answers
  <2>3. UNCHANGED <<selected, completed>>
    BY <2>1 DEF Apart, sequenceVars
  <2>4. QED
    BY <1>1, <2>1, <2>2, <2>3, LinksMade
<1>3. ASSUME NEW n \in Nodes, NodeConnects(n) PROVE LinksHold'
  <2>1. /\ Apart /\ linked' \in [Subjects -> SUBSET Addresses] /\ (\A t \in Subjects : linked[t] \subseteq linked'[t])
        /\ Answers(n, Head(cmds[n]), {"connected", "error"})
    BY <1>1, <1>3, ConnectsMoves
  <2>2. PICK e \in Events : evts' = Sent(n, e) /\ (e.kind = "connected" => e.addrs = linked'[e.subject])
    BY <2>1 DEF Answers
  <2>3. UNCHANGED <<selected, completed>>
    BY <2>1 DEF Apart, sequenceVars
  <2>4. QED
    BY <2>1, <2>2, <2>3, LinksMade
<1>4. ASSUME NEW n \in Nodes, NodeSearches(n) PROVE LinksHold'
  <2>1. /\ Apart /\ linked' = linked
        /\ \/ evts' = evts
           \/ \E e \in Events : evts' = Sent(n, e) /\ e.kind = "discovered"
    BY <1>1, <1>4, SearchesMoves
  <2>2. UNCHANGED <<selected, completed>>
    BY <2>1 DEF Apart, sequenceVars
  <2>3. CASE evts' = evts
    BY <2>1, <2>2, <2>3 DEF LinksHold, LinksOK, SubjectOK
  <2>4. ASSUME NEW e \in Events, evts' = Sent(n, e), e.kind = "discovered" PROVE LinksHold'
    BY <1>1, <2>1, <2>2, <2>4, LinksMade
  <2>5. QED
    BY <2>1, <2>3, <2>4
<1>5. CASE Reset
  <2>1. Apart /\ linked' = linked /\ \E e \in Events : evts' = Sent(Master, e) /\ e.kind = "started"
    BY <1>1, <1>5, ResetMoves DEF nodeVars
  <2>2. UNCHANGED <<selected, completed>>
    BY <2>1 DEF Apart, sequenceVars
  <2>3. QED
    BY <1>1, <2>1, <2>2, LinksMade
<1>6. QED
  BY <1>2, <1>3, <1>4, <1>5

\* The other operations leave the links alone, tell of them, or are faults.
LEMMA LinksOther ==
  ASSUME StepsInv, LinksHold, count'["faults"] = 0,
         \/ ConnectAll \/ Expire \/ Configure \/ UNCHANGED vars
         \/ \E s \in Subjects : Search(s) \/ LinkLost(s)
         \/ \E n \in Nodes : NodeResets(n) \/ Reconnect(n)
  PROVE  LinksHold'
<1>1. TypesOK
  BY DEF StepsInv
<1>2. CASE ConnectAll \/ Expire \/ UNCHANGED vars \/ \E s \in Subjects : Search(s)
  <2>1. UNCHANGED <<selected, completed, linked, evts>>
    BY <1>2 DEF ConnectAll, Expire, vars, sequenceVars, nodeVars, Search
  <2>2. QED
    BY <2>1 DEF LinksHold, LinksOK, SubjectOK
<1>3. CASE Configure
  <2>1. completed' = {} /\ \A n \in Nodes : evts'[n] = <<>>
    BY <1>3 DEF Configure
  <2>2. QED
    BY <2>1 DEF LinksHold, LinksOK, SubjectOK, Held
<1>4. ASSUME NEW s \in Subjects, LinkLost(s) PROVE LinksHold'
  <2>1. UNCHANGED <<selected, completed>>
    BY <1>4 DEF LinkLost, sequenceVars
  <2>2. PICK x \in Addresses : \E e \in Events :
              /\ linked' = [linked EXCEPT ![s] = @ \ {x}]
              /\ evts' = Sent(NodeOf[s], e) /\ e.kind = "lost" /\ e.addrs = {x}
    BY <1>1, <1>4, LostMoves
  <2>3. PICK e \in Events :
              /\ linked' = [linked EXCEPT ![s] = @ \ {x}]
              /\ evts' = Sent(NodeOf[s], e) /\ e.kind = "lost" /\ e.addrs = {x}
    BY <2>2
  <2>4. QED
    BY <2>1, <2>3, LinksLost
<1>5. ASSUME NEW n \in Nodes, NodeResets(n) PROVE LinksHold'
  <2>1. UNCHANGED <<selected, completed>>
    BY <1>5 DEF NodeResets, sequenceVars
  <2>2. PICK a, b \in Events :
              /\ a.kind = "started" /\ a.token = NoToken /\ b.kind = "cleaned" /\ b.token = NoToken
              /\ \/ /\ evts' = [evts EXCEPT ![n] = @ \o <<a, b>>] /\ count' = count
                    /\ configured' = configured \ {n}
                    /\ \A s \in Subjects : NodeOf[s] # n => linked'[s] = linked[s]
                 \/ /\ evts' = Sent(n, a) /\ count'["faults"] > 0
                    /\ UNCHANGED nodeVars
    BY <1>1, <1>5, ResetsMoves, Zenon
  <2>3. QED
    BY <2>1, <2>2, LinksReset
<1>6. ASSUME NEW n \in Nodes, Reconnect(n) PROVE LinksHold'
  <2>1. count'["faults"] > 0
    BY <1>1, <1>6, ReconnectMoves
  <2>2. QED
    BY <2>1
<1>7. QED
  BY <1>2, <1>3, <1>4, <1>5, <1>6

\* Every step keeps the links held.
LEMMA LinksStep ==
  ASSUME StepsInv, PassedOK, LinksInv, [Next]_vars
  PROVE  LinksInv'
<1>1. SUFFICES ASSUME count'["faults"] = 0 PROVE LinksHold'
  BY DEF LinksInv, LinksHold
<1>2. LinksHold
  BY <1>1, FaultsKept DEF LinksInv, LinksHold, StepsInv
<1>3. QED
  BY <1>1, <1>2, LinksTaken, LinksAnswered, LinksOther DEF Next, NodeNext

-----------------------------------------------------------------------------
(* The theorems *)

\* The initial states satisfy the invariant.
LEMMA InitIInv ==
  Init => IInv
<1> SUFFICES ASSUME Init PROVE IInv
  OBVIOUS
<1>1. /\ selected = [s \in Subjects |-> {}] /\ completed = {} /\ discovered = {} /\ active = FALSE /\ pending = NoStep
      /\ timer = NoToken /\ index = 0 /\ outcome = "none" /\ configured = Nodes /\ addr = [s \in Subjects |-> {}]
      /\ linked = [s \in Subjects |-> {}] /\ tokens = 0 /\ count = [c \in Counters |-> 0]
  BY DEF Init
<1>2. cmds \in [Nodes -> Seq(Commands)] /\ evts \in [Nodes -> Seq(Events)] /\ \A n \in Nodes : cmds[n] = <<>> /\ evts[n] = <<>>
  BY DEF Init
<1>3. TypeOK
  <2>1. timer \in 0..tokens /\ index \in 0..(Len(Order) + 1) /\ pending \in Steps
    BY <1>1, OrderIs, NoStepIs DEF NoToken
  <2>2. active \in BOOLEAN
    BY <1>1
  <2>3. QED
    BY <1>1, <2>1, <2>2 DEF TypeOK
<1>4. TypesOK
  BY <1>1, <1>2, <1>3 DEF TypesOK
<1>5. PendingOK /\ PassedOK /\ DisjointSelections
  BY <1>1, NoStepIs DEF PendingOK, PassedOK, DisjointSelections
<1>6. ASSUME NEW n \in Nodes PROVE NodeOK(n) /\ LinksOK(n)
  <2>1. InFlight(cmds[n]) = {} /\ InFlight(evts[n]) = {} /\ DOMAIN cmds[n] = {} /\ DOMAIN evts[n] = {}
    BY <1>2, EmptyInFlight
  <2>2. QED
    BY <2>1 DEF NodeOK, LinksOK, Held, DistinctSteps
<1>7. \A s \in Subjects : SubjectOK(s)
  BY <1>1 DEF SubjectOK
<1>8. QED
  BY <1>4, <1>5, <1>6, <1>7 DEF IInv, StepsInv, LinksInv

\* Every step keeps the invariant.
LEMMA NextIInv ==
  IInv /\ [Next]_vars => IInv' /\ Honest
<1> SUFFICES ASSUME IInv, [Next]_vars PROVE IInv' /\ Honest
  OBVIOUS
<1>1. StepsInv /\ SequenceInv /\ PassedOK /\ LinksInv
  BY DEF IInv, StepsInv, SequenceInv
<1>2. TypesOK' /\ \A k \in Nodes : NodeOK(k)'
  BY <1>1, NodesStep
<1>3. PendingOK' /\ DisjointSelections' /\ PassedOK' /\ Honest
  BY <1>1, SequenceStep DEF SequenceInv
<1>4. LinksInv'
  BY <1>1, LinksStep
<1>5. QED
  BY <1>2, <1>3, <1>4 DEF IInv, StepsInv

\* A queue's members and its positions.
LEMMA PositionsInFlight ==
  ASSUME NEW q
  PROVE  (\A i \in DOMAIN q : q[i] \in InFlight(q)) /\ \A x \in InFlight(q) : \E i \in DOMAIN q : x = q[i]
BY Zenon DEF InFlight

\* What the invariant implies.
LEMMA IInvImplies ==
  IInv => TypeOK /\ DisjointSelections /\ OneStepAtATime /\ CompletedAreLinked
<1> SUFFICES ASSUME IInv PROVE TypeOK /\ DisjointSelections /\ OneStepAtATime /\ CompletedAreLinked
  OBVIOUS
<1>1. TypeOK /\ DisjointSelections /\ (\A n \in Nodes : NodeOK(n)) /\ completed \subseteq Subjects
  BY DEF IInv, StepsInv, TypesOK, TypeOK
<1>2. ASSUME NEW n \in Nodes, NEW i \in DOMAIN cmds[n], cmds[n][i].op \in {"discovering", "connecting"},
             cmds[n][i].token # pending.token
      PROVE  n \notin configured
  <2>1. cmds[n][i] \in InFlight(cmds[n])
    BY PositionsInFlight
  <2>2. QED
    BY <1>1, <1>2, <2>1 DEF NodeOK, IsStep, StepOps
<1>3. OneStepAtATime
  BY <1>2 DEF OneStepAtATime
<1>4. ASSUME count["faults"] = 0, NEW s \in completed, ~(selected[s] \subseteq linked[s])
      PROVE  \E i \in DOMAIN evts[NodeOf[s]] :
               \/ evts[NodeOf[s]][i].kind = "cleaned"
               \/ evts[NodeOf[s]][i].kind = "lost" /\ evts[NodeOf[s]][i].addrs \cap selected[s] # {}
  <2>1. \E e \in InFlight(evts[NodeOf[s]]) : Tells(e, selected[s])
    BY <1>1, <1>4 DEF IInv, LinksInv, SubjectOK
  <2>2. QED
    BY <2>1, PositionsInFlight DEF Tells
<1>5. CompletedAreLinked
  BY <1>4 DEF CompletedAreLinked
<1>6. QED
  BY <1>1, <1>3, <1>5

\* The invariant is one of the specification.
LEMMA Invariance ==
  Spec => []IInv
BY InitIInv, NextIInv, PTL DEF Spec

\* The attributes of the sequence and the nodes keep their types.
THEOREM TypeCorrect ==
  Spec => []TypeOK
BY Invariance, IInvImplies, PTL

\* No sensor is selected for two subjects, for any number of subjects and nodes: late
\* replies, searches, errors and resets included (on_event, the check of "others").
THEOREM SelectionsAreDisjoint ==
  Spec => []DisjointSelections
BY Invariance, IInvImplies, PTL

\* A step that the sequence no longer awaits never reaches a configured Core (_step, busy).
THEOREM StepsAreSingle ==
  Spec => []OneStepAtATime
BY Invariance, IInvImplies, PTL

\* A subject that counts as connected has its sensors linked, or the event that says
\* otherwise is on its way (_next_subject, on_event).
THEOREM ConnectedIsTrue ==
  Spec => []CompletedAreLinked
BY Invariance, IInvImplies, PTL

\* "completed" is reported only when every discovered subject is connected (_next_subject).
THEOREM CompletedIsTrue ==
  Spec => CompletionHonest
<1>1. IInv /\ [Next]_vars =>
        [outcome' = "completed" /\ outcome # "completed" => \A s \in Subjects : s \in completed' \/ s \notin discovered']_vars
  BY NextIInv DEF Honest
<1>2. QED
  BY <1>1, Invariance, PTL DEF Spec, CompletionHonest
=============================================================================

--------------------------- MODULE MasterInitProofs ---------------------------
(***************************************************************************)
(* The installation of a configuration for any set of nodes and subjects   *)
(* and any number of INITs, Resets and faults: the ownership map never     *)
(* names a node as owner while another one has the subject installed, no   *)
(* half-installed Core goes unnoticed, and a confirmed initialization is   *)
(* installed everywhere.                                                   *)
(***************************************************************************)
EXTENDS MasterInit, QueueLemmas, FiniteSetTheorems, TLAPS

-----------------------------------------------------------------------------
(* The inductive invariant. *)

\* An INIT is on its way to the node.
Awaits(n) == n \in Workers /\ \E c \in InFlight(cmds[n]) : c.op = "init"

\* A Core without configuration that needs no Reset and will not be sent one.
Clean(n) == installed[n] = {} /\ ~broken[n] /\ ~Awaits(n)

\* Nothing follows an INIT in the queue of a worker.
InitLast(q) == \A i \in DOMAIN q : q[i].op = "init" => i = Len(q)

\* No INIT follows the Reset `id`.
NoneAfter(q, id) == \A i, j \in DOMAIN q : q[i].op = "reset" /\ q[i].id = id /\ i < j => q[j].op # "init"

\* Ids in flight were given out.
IdsNode(n) ==
  /\ n \in Workers => \A c \in InFlight(cmds[n]) :
       c.id <= IF c.op = "init" THEN count["inits"] ELSE count["resets"]
  /\ \A e \in InFlight(evts[n]) :
       e.id <= IF e.kind \in {"installed", "failed"} THEN count["inits"] ELSE count["resets"]
  /\ \A id \in resetting[n] : id <= count["resets"]

IdsOK ==
  /\ count["inits"] <= MaxInits /\ count["resets"] <= MaxResets
  /\ dispatching => count["inits"] \in InitIds
  /\ \A n \in Nodes : IdsNode(n)

\* The node has confirmed the pending initialization, or its confirmation is on its way.
Vouches(n) == n \in replies \/ \E e \in InFlight(evts[n]) : e.kind = "installed" /\ e.id = pending

\* A node that has confirmed is left alone until the initialization ends: no command is
\* queued for it and no Reset of it runs, so it still has its part, unless it restarted.
Confirmed(n) ==
  /\ ~broken[n] /\ resetting[n] = {}
  /\ n \in Workers => cmds[n] = <<>>
  /\ n = Master => ~dispatching
  /\ installed[n] = Part(plan, n) \/ (installed[n] = {} /\ count["restarts"] > 0)

\* A node while the master accepts commands.
SettledNode(n) == installed[n] \subseteq Part(owner, n) /\ ~broken[n] /\ ~Awaits(n)

SettledInv == Settled => ~dispatching /\ \A n \in Nodes : SettledNode(n)

\* A node while an initialization is pending.
PendingNode(n) ==
  /\ n \notin expected => Clean(n)
  /\ n \in Workers => /\ InitLast(cmds[n])
                      /\ \A c \in InFlight(cmds[n]) :
                           c.op = "init" => c.id = pending /\ c.subjects = Part(plan, n)
  /\ Vouches(n) => Confirmed(n)

PendingInv ==
  pending # NoId =>
    /\ pending = count["inits"] /\ ~recovering /\ expected = Required(plan)
    /\ \A n \in Nodes : PendingNode(n)

\* The report of the Reset that the master waits for is on its way.
Reported(n) == \E e \in InFlight(evts[n]) : e.kind = "cleaned" /\ e.id = cleanup

\* A node after a failed initialization.  The Reset that the master waits for has reached
\* the node behind every INIT: once it is running no INIT can follow, and once it is
\* reported the Core is clean.
RecoveringNode(n) ==
  /\ n \notin participants => Clean(n)
  /\ cleanup # NoId => /\ n \in Workers => NoneAfter(cmds[n], cleanup)
                       /\ cleanup \in resetting[n] => ~Awaits(n)
                       /\ n \in cleaned \/ Reported(n) => Clean(n)

RecoveringInv ==
  recovering =>
    /\ pending = NoId /\ owner = [s \in Subjects |-> Nobody] /\ Master \in participants
    /\ cleanup = NoId => cleaned = {}
    /\ cleanup # NoId => ~dispatching
    /\ \A n \in Nodes : RecoveringNode(n)

IInv == TypeOK /\ IdsOK /\ SettledInv /\ PendingInv /\ RecoveringInv


-----------------------------------------------------------------------------
(* Queues *)

\* Sending an event, and several.
LEMMA SentInFlight ==
  ASSUME evts \in [Nodes -> Seq(Events)], NEW n \in Nodes, NEW e \in Events, evts' = Sent(n, e)
  PROVE  /\ evts' \in [Nodes -> Seq(Events)]
         /\ InFlight(evts'[n]) = InFlight(evts[n]) \cup {e}
         /\ \A k \in Nodes \ {n} : evts'[k] = evts[k]
<1>1. evts[n] \in Seq(Events)
  OBVIOUS
<1>2. Append(evts[n], e) \in Seq(Events) /\ InFlight(Append(evts[n], e)) = InFlight(evts[n]) \cup {e}
  BY <1>1, AppendInFlight
<1>3. QED
  BY <1>2 DEF Sent

\* The reports of a recovery: one for each Reset it answers.
LEMMA ReportsAre ==
  ASSUME NEW n \in Nodes, NEW ready \in BOOLEAN, NEW r \in Reports(n, ready)
  PROVE  r \in Seq(Events) /\ InFlight(r) = {Cleaned(id, ready) : id \in ResetIds \cap resetting[n]}
<1> DEFINE ids == {id \in ResetIds : id \in resetting[n]}
           all == {Cleaned(id, ready) : id \in ids}
<1>1. IsFiniteSet(ids)
  <2>1. IsFiniteSet(1..MaxResets)
    BY FS_Interval, InitBounds
  <2>2. QED
    BY <2>1, FS_Subset DEF ResetIds
<1>2. Cardinality(ids) \in Nat
  BY <1>1, FS_CardinalityType
<1>3. all \subseteq Events
  BY DEF Cleaned, Events
<1>4. r \in [1..Cardinality(ids) -> all] /\ {r[i] : i \in DOMAIN r} = all
  BY DEF Reports
<1> HIDE DEF all, ids
<1>5. r \in Seq(all)
  BY <1>2, <1>4, FunctionIsQueue
<1>6. r \in Seq(Events)
  BY <1>3, <1>5
<1>7. QED
  BY <1>4, <1>6 DEF InFlight, all, ids

\* The reports join what the node has in flight.
LEMMA SentReports ==
  ASSUME evts \in [Nodes -> Seq(Events)], NEW n \in Nodes, NEW ready \in BOOLEAN, NEW r \in Reports(n, ready),
         evts' = [evts EXCEPT ![n] = @ \o r]
  PROVE  /\ evts' \in [Nodes -> Seq(Events)]
         /\ InFlight(evts'[n]) = InFlight(evts[n]) \cup {Cleaned(id, ready) : id \in ResetIds \cap resetting[n]}
         /\ \A k \in Nodes \ {n} : evts'[k] = evts[k]
<1>1. evts[n] \in Seq(Events)
  OBVIOUS
<1>2. evts[n] \o r \in Seq(Events) /\ InFlight(evts[n] \o r) = InFlight(evts[n]) \cup InFlight(r)
  BY <1>1, ReportsAre, ConcatInFlight
<1>3. QED
  BY <1>2, ReportsAre

\* A fan-out: one more command for each of some workers.
LEMMA FanOut ==
  ASSUME cmds \in [Workers -> Seq(Commands)], NEW S, NEW C \in [Workers -> Commands],
         cmds' = [w \in Workers |-> IF w \in S THEN Append(cmds[w], C[w]) ELSE cmds[w]]
  PROVE  /\ cmds' \in [Workers -> Seq(Commands)]
         /\ \A w \in Workers : IF w \in S THEN /\ cmds'[w] = Append(cmds[w], C[w])
                                               /\ InFlight(cmds'[w]) = InFlight(cmds[w]) \cup {C[w]}
                               ELSE cmds'[w] = cmds[w]
<1>1. ASSUME NEW w \in Workers
      PROVE  /\ Append(cmds[w], C[w]) \in Seq(Commands)
             /\ InFlight(Append(cmds[w], C[w])) = InFlight(cmds[w]) \cup {C[w]}
  <2>1. cmds[w] \in Seq(Commands) /\ C[w] \in Commands
    OBVIOUS
  <2>2. QED
    BY <2>1, AppendInFlight
<1>2. QED
  BY <1>1

\* The order of a queue: an INIT stays the last command while none is added, ...
LEMMA LastAppended ==
  ASSUME NEW q \in Seq(Commands), NEW c \in Commands, \A e \in InFlight(q) : e.op # "init"
  PROVE  InitLast(Append(q, c))
<1>1. DOMAIN q = 1..Len(q) /\ DOMAIN Append(q, c) = 1..(Len(q) + 1) /\ Len(q) \in Nat /\ Len(Append(q, c)) = Len(q) + 1
  OBVIOUS
<1>2. \A i \in 1..Len(q) : Append(q, c)[i] = q[i] /\ q[i] \in InFlight(q)
  BY <1>1 DEF InFlight
<1>3. QED
  BY <1>1, <1>2 DEF InitLast

\* ... nor while one is received, after which nothing is left.
LEMMA LastReceived ==
  ASSUME NEW q \in Seq(Commands), q # <<>>, InitLast(q)
  PROVE  InitLast(Tail(q)) /\ (Head(q).op = "init" => Tail(q) = <<>>)
<1>1. Len(q) \in Nat \ {0} /\ DOMAIN q = 1..Len(q) /\ Head(q) = q[1] /\ DOMAIN Tail(q) = 1..(Len(q) - 1)
      /\ Len(Tail(q)) = Len(q) - 1
  OBVIOUS
<1>2. \A i \in 1..(Len(q) - 1) : Tail(q)[i] = q[i + 1] /\ i + 1 \in DOMAIN q
  BY <1>1
<1>3. InitLast(Tail(q))
  BY <1>1, <1>2 DEF InitLast
<1>4. ASSUME Head(q).op = "init" PROVE Tail(q) = <<>>
  <2>1. Len(q) = 1
    BY <1>1, <1>4 DEF InitLast
  <2>2. Tail(q) \in Seq(Commands) /\ Len(Tail(q)) = 0
    BY <1>1, <2>1
  <2>3. QED
    BY <2>2, ZeroIsEmpty
<1>5. QED
  BY <1>3, <1>4

\* ... and no INIT comes behind a Reset as long as only Resets are added.
LEMMA NoneAfterAppended ==
  ASSUME NEW q \in Seq(Commands), NEW c \in Commands, NEW id, c.op # "init", NoneAfter(q, id)
  PROVE  NoneAfter(Append(q, c), id)
<1>1. DOMAIN q = 1..Len(q) /\ DOMAIN Append(q, c) = 1..(Len(q) + 1) /\ Len(q) \in Nat
  OBVIOUS
<1>2. (\A i \in 1..Len(q) : Append(q, c)[i] = q[i]) /\ Append(q, c)[Len(q) + 1] = c
  OBVIOUS
<1>3. ASSUME NEW i \in 1..(Len(q) + 1), NEW j \in 1..(Len(q) + 1), Append(q, c)[i].op = "reset",
             Append(q, c)[i].id = id, i < j
      PROVE  Append(q, c)[j].op # "init"
  <2>1. i \in 1..Len(q) /\ (j \in 1..Len(q) \/ j = Len(q) + 1)
    BY <1>1, <1>3
  <2>2. QED
    BY <1>1, <1>2, <1>3, <2>1 DEF NoneAfter
<1>4. QED
  BY <1>1, <1>3 DEF NoneAfter

\* ... and receiving that Reset leaves no INIT in the queue.
LEMMA NoneAfterReceived ==
  ASSUME NEW q \in Seq(Commands), q # <<>>, NEW id, NoneAfter(q, id)
  PROVE  /\ NoneAfter(Tail(q), id)
         /\ Head(q).op = "reset" /\ Head(q).id = id => \A c \in InFlight(Tail(q)) : c.op # "init"
<1>1. Len(q) \in Nat \ {0} /\ DOMAIN q = 1..Len(q) /\ Head(q) = q[1] /\ DOMAIN Tail(q) = 1..(Len(q) - 1)
  OBVIOUS
<1>2. \A i \in 1..(Len(q) - 1) : Tail(q)[i] = q[i + 1] /\ i + 1 \in DOMAIN q /\ 1 < i + 1
  BY <1>1
<1>3. NoneAfter(Tail(q), id)
  <2>1. \A i, j \in 1..(Len(q) - 1) : i < j => i + 1 < j + 1
    BY <1>1
  <2>2. QED
    BY <1>1, <1>2, <2>1 DEF NoneAfter
<1>4. ASSUME Head(q).op = "reset", Head(q).id = id, NEW i \in 1..(Len(q) - 1) PROVE Tail(q)[i].op # "init"
  BY <1>1, <1>2, <1>4 DEF NoneAfter
<1>5. QED
  BY <1>1, <1>3, <1>4 DEF InFlight


-----------------------------------------------------------------------------
(* Types *)

MasterTypes ==
  /\ owner \in Plans /\ plan \in Plans
  /\ pending \in InitIds \cup {NoId}
  /\ expected \subseteq Nodes /\ replies \subseteq Nodes
  /\ dispatching \in BOOLEAN /\ recovering \in BOOLEAN
  /\ participants \subseteq Nodes /\ cleaned \subseteq Nodes
  /\ cleanup \in ResetIds \cup {NoId}
CoreTypes ==
  /\ installed \in [Nodes -> SUBSET Subjects]
  /\ broken \in [Nodes -> BOOLEAN]
  /\ resetting \in [Nodes -> SUBSET ResetIds]

\* The participants of a request are nodes, the master among them.
LEMMA RequiredAreNodes ==
  ASSUME owner \in Plans, NEW p \in Plans
  PROVE  /\ Required(p) \subseteq Nodes /\ Master \in Required(p)
         /\ \A n \in Nodes \ Required(p) : Part(owner, n) = {} /\ Part(p, n) = {}
<1>1. \A s \in Subjects : owner[s] \in Nodes \cup {Nobody} /\ p[s] \in Nodes \cup {Nobody}
  BY DEF Plans
<1>2. QED
  BY <1>1, InitAssumption DEF Required, OwnersIn, Part

\* The fields of the master.
LEMMA MasterStep ==
  ASSUME TypeOK, [Next]_vars
  PROVE  MasterTypes'
<1>t. MasterTypes /\ evts \in [Nodes -> Seq(Events)]
  BY DEF TypeOK, MasterTypes
<1>n. [s \in Subjects |-> Nobody] \in Plans
  BY DEF Plans
<1>f. ASSUME InitFails, plan' \in Plans, expected' \subseteq Nodes, dispatching' = dispatching PROVE MasterTypes'
  BY <1>t, <1>n, <1>f DEF InitFails, MasterTypes
<1>1. CASE UNCHANGED masterVars
  BY <1>t, <1>1 DEF masterVars, MasterTypes
<1>2. ASSUME NEW p \in Plans, BeginInit(p) PROVE MasterTypes'
  BY <1>t, <1>2, RequiredAreNodes DEF BeginInit, MasterTypes
<1>3. ASSUME NEW p \in Plans, BeginInitRaises(p) PROVE MasterTypes'
  BY <1>t, <1>f, <1>3, RequiredAreNodes DEF BeginInitRaises, MasterTypes
<1>4. CASE LocalInit
  BY <1>t, <1>4 DEF LocalInit, MasterTypes
<1>5. CASE InitExpires
  BY <1>t, <1>f, <1>5 DEF InitExpires, MasterTypes
<1>6. CASE Reset
  BY <1>t, <1>6 DEF Reset, MasterTypes
<1>7. ASSUME NEW n \in Nodes, HandleEvent(n) PROVE MasterTypes'
  <2> DEFINE e == Head(evts[n])
  <2>1. CASE RecordReply(n, e)
    BY <1>t, <1>f, <1>7, <2>1 DEF RecordReply, InitSucceeds, MasterTypes, HandleEvent
  <2>2. CASE RecordCleaned(n, e)
    BY <1>t, <1>n, <1>7, <2>2 DEF RecordCleaned, MasterTypes, HandleEvent
  <2>3. QED
    BY <1>7, <2>1, <2>2 DEF HandleEvent
<1>8. QED
  BY <1>1, <1>2, <1>3, <1>4, <1>5, <1>6, <1>7
  DEF Next, vars, ResetEnds, WorkerReceives, WorkerRestarts, WorkerReconnects

\* Every command in flight has the types of an INIT or a Reset.
LEMMA CommandTypes ==
  /\ \A id \in InitIds, S \in SUBSET Subjects : Cmd("init", id, S) \in Commands
  /\ \A id \in ResetIds : Cmd("reset", id, {}) \in Commands
  /\ \A id \in InitIds, S \in SUBSET Subjects, ok \in BOOLEAN : Reply(ok, id, S) \in Events
BY DEF Cmd, Commands, Reply, Events

\* What a command of the queue may be.
LEMMA CommandFields ==
  ASSUME NEW c \in Commands
  PROVE  /\ c.op \in {"init", "reset"} /\ c.subjects \in SUBSET Subjects
         /\ c.op = "init" => c.id \in InitIds
         /\ c.op = "reset" => c.id \in ResetIds
BY DEF Commands

\* What an event of the queue may be.
LEMMA EventFields ==
  ASSUME NEW e \in Events
  PROVE  /\ e.kind \in {"installed", "failed", "cleaned", "unready"}
         /\ e.kind \in {"installed", "failed"} => e.id \in InitIds
         /\ e.kind \in {"cleaned", "unready"} => e.id \in ResetIds
BY DEF Events

\* The Cores and their events.
LEMMA InstallTypes ==
  ASSUME TypeOK, NEW n \in Nodes, NEW id \in InitIds, NEW S \in SUBSET Subjects, Install(n, id, S)
  PROVE  CoreTypes' /\ evts' \in [Nodes -> Seq(Events)]
<1>1. CoreTypes /\ evts \in [Nodes -> Seq(Events)]
  BY DEF TypeOK, CoreTypes
<1>2. CoreTypes'
  BY <1>1 DEF Install, CoreTypes, coreVars
<1>3. PICK e \in Events : evts' = Sent(n, e)
  <2>1. \A T \in SUBSET Subjects, ok \in BOOLEAN : Reply(ok, id, T) \in Events
    BY CommandTypes
  <2>2. QED
    BY <2>1 DEF Install
<1>4. QED
  BY <1>1, <1>2, <1>3, SentInFlight

\* A Reset keeps the types of the Core.
LEMMA BeginResetTypes ==
  ASSUME TypeOK, NEW n \in Nodes, NEW id \in ResetIds, BeginReset(n, id)
  PROVE  CoreTypes'
BY DEF TypeOK, BeginReset, CoreTypes

\* The types are kept.
LEMMA TypeStep ==
  ASSUME TypeOK, IdsOK, [Next]_vars
  PROVE  TypeOK'
<1>t. /\ CoreTypes /\ evts \in [Nodes -> Seq(Events)] /\ cmds \in [Workers -> Seq(Commands)]
      /\ count \in [Counters -> Nat] /\ Workers \subseteq Nodes /\ Master \in Nodes
  BY InitAssumption DEF TypeOK, CoreTypes, Workers
<1> DEFINE Rest == /\ CoreTypes' /\ evts' \in [Nodes -> Seq(Events)] /\ cmds' \in [Workers -> Seq(Commands)]
                   /\ count' \in [Counters -> Nat]
<1>1. ASSUME NEW p \in Plans, BeginInit(p) \/ BeginInitRaises(p) PROVE Rest
  <2> DEFINE id == count["inits"] + 1
             C == [w \in Workers |-> Cmd("init", id, Part(p, w))]
  <2>1. id \in InitIds /\ C \in [Workers -> Commands]
    BY <1>1, CommandTypes DEF BeginInit, BeginInitRaises, Part
  <2>2. PICK S : cmds' = [w \in Workers |-> IF w \in S THEN Append(cmds[w], C[w]) ELSE cmds[w]]
    <3>1. CASE BeginInit(p)
      BY <3>1 DEF BeginInit
    <3>2. CASE BeginInitRaises(p)
      BY <3>2 DEF BeginInitRaises
    <3>3. QED
      BY <1>1, <3>1, <3>2
  <2> HIDE DEF C
  <2>3. cmds' \in [Workers -> Seq(Commands)]
    BY <1>t, <2>1, <2>2, FanOut
  <2>4. count' \in [Counters -> Nat]
    BY <1>t, <1>1, <2>1 DEF BeginInit, BeginInitRaises, InitIds, Counters
  <2>5. CoreTypes' /\ evts' = evts
    BY <1>t, <1>1 DEF BeginInit, BeginInitRaises, coreVars, CoreTypes
  <2>6. QED
    BY <1>t, <2>3, <2>4, <2>5
<1>2. ASSUME Reset PROVE Rest
  <2> DEFINE id == count["resets"] + 1
             C == [w \in Workers |-> Cmd("reset", id, {})]
  <2>1. id \in ResetIds /\ C \in [Workers -> Commands]
    BY <1>2, CommandTypes DEF Reset
  <2>2. cmds' = [w \in Workers |-> IF w \in ResetTargets THEN Append(cmds[w], C[w]) ELSE cmds[w]]
    BY <1>2 DEF Reset
  <2> HIDE DEF C
  <2>3. cmds' \in [Workers -> Seq(Commands)]
    BY <1>t, <2>1, <2>2, FanOut
  <2>4. count' \in [Counters -> Nat] /\ evts' = evts
    BY <1>t, <1>2, <2>1 DEF Reset, ResetIds, Counters
  <2>5. CoreTypes'
    <3>1. CASE BeginReset(Master, id)
      BY <1>t, <2>1, <3>1, BeginResetTypes
    <3>2. CASE UNCHANGED coreVars
      BY <1>t, <3>2 DEF coreVars, CoreTypes
    <3>3. QED
      BY <1>2, <3>1, <3>2 DEF Reset
  <2>6. QED
    BY <1>t, <2>3, <2>4, <2>5
<1>3. ASSUME LocalInit PROVE Rest
  <2>1. plan \in Plans /\ Part(plan, Master) \in SUBSET Subjects
    BY DEF TypeOK, Part
  <2>2. Install(Master, count["inits"], Part(plan, Master)) /\ UNCHANGED <<cmds, count>>
    BY <1>3 DEF LocalInit
  <2>3. count["inits"] \in InitIds
    BY <1>3 DEF LocalInit, IdsOK
  <2>4. QED
    BY <1>t, <2>1, <2>2, <2>3, InstallTypes
<1>4. ASSUME NEW n \in Nodes, HandleEvent(n) PROVE Rest
  <2>1. evts[n] \in Seq(Events) /\ evts[n] # <<>> /\ evts' = [evts EXCEPT ![n] = Tail(@)]
    BY <1>t, <1>4 DEF HandleEvent
  <2>2. Tail(evts[n]) \in Seq(Events)
    BY <2>1, TailInFlight
  <2>3. UNCHANGED <<coreVars, cmds, count>>
    BY <1>4 DEF HandleEvent
  <2>4. QED
    BY <1>t, <2>1, <2>2, <2>3 DEF coreVars, CoreTypes
<1>5. ASSUME NEW n \in Nodes, ResetEnds(n) PROVE Rest
  <2>1. PICK ready \in BOOLEAN : \E r \in Reports(n, ready) : evts' = [evts EXCEPT ![n] = @ \o r]
    BY <1>5 DEF ResetEnds
  <2>2. evts' \in [Nodes -> Seq(Events)]
    BY <1>t, <2>1, SentReports
  <2>3. CoreTypes' /\ UNCHANGED <<cmds, count>>
    BY <1>t, <1>5 DEF ResetEnds, CoreTypes
  <2>4. QED
    BY <1>t, <2>2, <2>3
<1>6. ASSUME NEW w \in Workers, WorkerReceives(w) PROVE Rest
  <2> DEFINE c == Head(cmds[w])
  <2>1. cmds[w] \in Seq(Commands) /\ cmds[w] # <<>> /\ cmds' = [cmds EXCEPT ![w] = Tail(@)] /\ count' = count
    BY <1>t, <1>6 DEF WorkerReceives
  <2>2. Tail(cmds[w]) \in Seq(Commands) /\ c \in Commands
    BY <2>1, TailInFlight
  <2>3. CASE c.op = "init" /\ Install(w, c.id, c.subjects)
    <3> HIDE DEF c
    <3>1. c.id \in InitIds /\ c.subjects \in SUBSET Subjects
      BY <2>2, <2>3, CommandFields
    <3>2. QED
      BY <1>t, <2>1, <2>2, <2>3, <3>1, InstallTypes
  <2>4. CASE c.op = "reset" /\ BeginReset(w, c.id) /\ UNCHANGED evts
    <3> HIDE DEF c
    <3>1. c.id \in ResetIds
      BY <2>2, <2>4, CommandFields
    <3>2. QED
      BY <1>t, <2>1, <2>2, <2>4, <3>1, BeginResetTypes
  <2>5. QED
    BY <1>6, <2>3, <2>4 DEF WorkerReceives
<1>7. ASSUME NEW w \in Workers, WorkerRestarts(w) \/ WorkerReconnects(w) PROVE Rest
  <2>1. cmds' \in [Workers -> Seq(Commands)]
    <3>1. <<>> \in Seq(Commands)
      BY EmptyInFlight
    <3>2. QED
      BY <1>t, <1>7, <3>1 DEF WorkerRestarts, WorkerReconnects
  <2>2. CoreTypes' /\ count' \in [Counters -> Nat]
    <3>1. CoreTypes'
      BY <1>t, <1>7 DEF WorkerRestarts, WorkerReconnects, CoreTypes, coreVars
    <3>2. count["restarts"] + 1 \in Nat /\ count["reconnects"] + 1 \in Nat
      BY <1>t DEF Counters
    <3>3. count' \in [Counters -> Nat]
      BY <1>t, <1>7, <3>2 DEF WorkerRestarts, WorkerReconnects
    <3>4. QED
      BY <3>1, <3>3
  <2>3. evts' \in [Nodes -> Seq(Events)]
    <3>1. CASE WorkerReconnects(w)
      <4>1. PICK k \in 0..Len(evts[w]) : evts' = [evts EXCEPT ![w] = SubSeq(@, 1, k)]
        BY <3>1 DEF WorkerReconnects
      <4>2. SubSeq(evts[w], 1, k) \in Seq(Events)
        BY <1>t, PrefixInFlight
      <4>3. QED
        BY <1>t, <4>1, <4>2
    <3>2. QED
      BY <1>t, <1>7, <3>1 DEF WorkerRestarts
  <2>4. QED
    BY <2>1, <2>2, <2>3
<1>8. ASSUME InitExpires \/ UNCHANGED vars PROVE Rest
  BY <1>t, <1>8 DEF InitExpires, vars, coreVars, CoreTypes
<1>9. Rest
  BY <1>1, <1>2, <1>3, <1>4, <1>5, <1>6, <1>7, <1>8 DEF Next
<1>10. QED
  BY <1>9, MasterStep DEF TypeOK, MasterTypes, CoreTypes


-----------------------------------------------------------------------------
(* Steps of one node *)

\* The record of the master, without the flag of its own part.
recordVars == <<owner, pending, plan, expected, replies, recovering, participants, cleanup, cleaned>>

\* A node that a step does not touch is as it was.
LEMMA Elsewhere ==
  ASSUME TypeOK, NEW k \in Nodes, UNCHANGED recordVars, dispatching' => dispatching,
         UNCHANGED <<installed[k], broken[k], resetting[k], evts[k]>>, k \in Workers => UNCHANGED cmds[k],
         count["restarts"] > 0 => count'["restarts"] > 0
  PROVE  /\ SettledNode(k) => SettledNode(k)'
         /\ PendingNode(k) => PendingNode(k)'
         /\ RecoveringNode(k) => RecoveringNode(k)'
<1>1. UNCHANGED <<Awaits(k), Clean(k), Vouches(k), Reported(k)>>
  BY DEF recordVars, Awaits, Clean, Vouches, Reported
<1>2. Part(owner', k) = Part(owner, k) /\ Part(plan', k) = Part(plan, k)
  BY DEF recordVars
<1>3. Confirmed(k) => Confirmed(k)'
  BY <1>2 DEF Confirmed
<1>4. SettledNode(k) => SettledNode(k)'
  BY <1>1, <1>2 DEF SettledNode
<1>5. PendingNode(k) => PendingNode(k)'
  BY <1>1, <1>2, <1>3 DEF PendingNode, recordVars
<1>6. RecoveringNode(k) => RecoveringNode(k)'
  BY <1>1 DEF RecoveringNode, recordVars
<1>7. QED
  BY <1>4, <1>5, <1>6

\* A step of one node keeps the invariant when that node is as the record requires.
LEMMA NodeStep ==
  ASSUME IInv, NEW n \in Nodes, UNCHANGED recordVars, dispatching' => dispatching,
         UNCHANGED count["inits"], count["restarts"] > 0 => count'["restarts"] > 0,
         \A k \in Nodes \ {n} : /\ UNCHANGED <<installed[k], broken[k], resetting[k], evts[k]>>
                                /\ k \in Workers => UNCHANGED cmds[k],
         Settled => SettledNode(n)',
         pending # NoId => PendingNode(n)',
         recovering => RecoveringNode(n)'
  PROVE  (SettledInv /\ PendingInv /\ RecoveringInv)'
<1>1. \A k \in Nodes \ {n} : /\ SettledNode(k) => SettledNode(k)'
                             /\ PendingNode(k) => PendingNode(k)'
                             /\ RecoveringNode(k) => RecoveringNode(k)'
  BY Elsewhere DEF IInv
<1>2. SettledInv'
  BY <1>1 DEF IInv, SettledInv, Settled, recordVars
<1>3. PendingInv'
  <2>1. Required(plan)' = Required(plan)
    BY DEF Required, OwnersIn, recordVars
  <2>2. QED
    BY <1>1, <2>1 DEF IInv, PendingInv, recordVars
<1>4. RecoveringInv'
  BY <1>1 DEF IInv, RecoveringInv, recordVars
<1>5. QED
  BY <1>2, <1>3, <1>4


\* What an INIT does to the node it reaches: it is installed and says so, or it says that it failed.
LEMMA InstallMoves ==
  ASSUME TypeOK, NEW n \in Nodes, NEW id \in InitIds, NEW S \in SUBSET Subjects, Install(n, id, S)
  PROVE  /\ resetting' = resetting
         /\ \A k \in Nodes \ {n} : UNCHANGED <<installed[k], broken[k], resetting[k], evts[k]>>
         /\ \E e \in Events :
              /\ InFlight(evts'[n]) = InFlight(evts[n]) \cup {e}
              /\ e.id = id
              /\ e.kind = "failed" \/ (e.kind = "installed" /\ resetting[n] = {} /\ ~broken'[n] /\ installed'[n] = S)
<1>1. installed \in [Nodes -> SUBSET Subjects] /\ broken \in [Nodes -> BOOLEAN] /\ evts \in [Nodes -> Seq(Events)]
  BY DEF TypeOK
<1>2. resetting' = resetting /\ \A k \in Nodes \ {n} : UNCHANGED <<installed[k], broken[k], resetting[k]>>
  BY <1>1 DEF Install, coreVars
<1>3. \A ok \in BOOLEAN, T \in SUBSET Subjects :
        Reply(ok, id, T) \in Events /\ Reply(ok, id, T).id = id
        /\ Reply(ok, id, T).kind = IF ok THEN "installed" ELSE "failed"
  BY CommandTypes DEF Reply
<1>4. PICK e \in Events :
        /\ evts' = Sent(n, e) /\ e.id = id
        /\ e.kind = "failed" \/ (e.kind = "installed" /\ resetting[n] = {} /\ ~broken'[n] /\ installed'[n] = S)
  <2>1. CASE /\ MayInstall(n) /\ installed' = [installed EXCEPT ![n] = S]
             /\ evts' = Sent(n, Reply(TRUE, id, S)) /\ UNCHANGED <<broken, resetting>>
    <3>1. resetting[n] = {} /\ ~broken'[n] /\ installed'[n] = S
      BY <1>1, <2>1 DEF MayInstall
    <3>2. QED
      BY <1>3, <2>1, <3>1
  <2>2. CASE evts' = Sent(n, Reply(FALSE, id, {}))
    BY <1>3, <2>2
  <2>3. QED
    BY <2>1, <2>2 DEF Install
<1>5. QED
  BY <1>1, <1>2, <1>4, SentInFlight

\* The master's own part.
LEMMA LocalInitStep ==
  ASSUME IInv, LocalInit
  PROVE  (SettledInv /\ PendingInv /\ RecoveringInv)'
<1>1. TypeOK /\ Master \in Nodes /\ Master \notin Workers /\ count["inits"] \in InitIds /\ Part(plan, Master) \in SUBSET Subjects
  BY InitAssumption DEF IInv, IdsOK, LocalInit, Workers, Part
<1>2. UNCHANGED recordVars /\ dispatching /\ ~dispatching' /\ cmds' = cmds /\ count' = count
  BY DEF LocalInit, recordVars
<1>3. /\ resetting' = resetting
      /\ \A k \in Nodes \ {Master} : UNCHANGED <<installed[k], broken[k], resetting[k], evts[k]>>
  BY <1>1, InstallMoves DEF LocalInit
<1>4. PICK e \in Events :
        /\ InFlight(evts'[Master]) = InFlight(evts[Master]) \cup {e}
        /\ e.id = count["inits"]
        /\ \/ e.kind = "failed"
           \/ /\ e.kind = "installed" /\ resetting[Master] = {} /\ ~broken'[Master]
              /\ installed'[Master] = Part(plan, Master)
  <2> DEFINE id == count["inits"]
             S == Part(plan, Master)
  <2>1. id \in InitIds /\ S \in SUBSET Subjects /\ Install(Master, id, S)
    BY <1>1 DEF LocalInit
  <2> HIDE DEF id, S
  <2>2. \E e \in Events :
          /\ InFlight(evts'[Master]) = InFlight(evts[Master]) \cup {e}
          /\ e.id = id
          /\ \/ e.kind = "failed"
             \/ e.kind = "installed" /\ resetting[Master] = {} /\ ~broken'[Master] /\ installed'[Master] = S
    BY <1>1, <2>1, InstallMoves
  <2>3. QED
    BY <2>2 DEF id, S
<1>5. ~Settled
  BY <1>2 DEF IInv, SettledInv
<1>6. ASSUME pending # NoId PROVE PendingNode(Master)'
  <2>1. Master \in expected /\ PendingNode(Master)
    BY <1>1, <1>6, RequiredAreNodes DEF IInv, PendingInv, TypeOK
  <2>2. ~Vouches(Master)
    BY <1>2, <2>1 DEF PendingNode, Confirmed
  <2>3. Vouches(Master)' => e.kind = "installed"
    BY <1>2, <1>4, <2>2 DEF Vouches, recordVars
  <2>4. Part(plan', Master) = Part(plan, Master)
    BY <1>2 DEF recordVars
  <2>5. Vouches(Master)' => Confirmed(Master)'
    BY <1>1, <1>2, <1>3, <1>4, <2>3, <2>4 DEF Confirmed
  <2>6. QED
    BY <1>1, <1>2, <2>1, <2>5 DEF PendingNode, recordVars
<1>7. ASSUME recovering PROVE RecoveringNode(Master)'
  BY <1>2, <1>7 DEF IInv, RecoveringInv, RecoveringNode, recordVars
<1>8. QED
  BY <1>1, <1>2, <1>3, <1>5, <1>6, <1>7, NodeStep

\* A recovery ends: the Core is retired, or it stays as it was and says that it is not ready.
LEMMA ResetEndsStep ==
  ASSUME IInv, NEW n \in Nodes, ResetEnds(n)
  PROVE  (SettledInv /\ PendingInv /\ RecoveringInv)'
<1>1. TypeOK /\ installed \in [Nodes -> SUBSET Subjects] /\ broken \in [Nodes -> BOOLEAN] /\ resetting \in [Nodes -> SUBSET ResetIds]
      /\ evts \in [Nodes -> Seq(Events)]
  BY DEF IInv, TypeOK
<1>2. UNCHANGED recordVars /\ dispatching' = dispatching /\ cmds' = cmds /\ count' = count
  BY DEF ResetEnds, recordVars, masterVars
<1>3. /\ resetting[n] # {} /\ resetting'[n] = {}
      /\ \A k \in Nodes \ {n} : UNCHANGED <<installed[k], broken[k], resetting[k]>>
  BY <1>1 DEF ResetEnds
<1>4. PICK ready \in BOOLEAN :
        /\ \E r \in Reports(n, ready) : evts' = [evts EXCEPT ![n] = @ \o r]
        /\ \/ installed'[n] = {} /\ (broken'[n] <=> broken[n] /\ ~ready)
           \/ ~ready /\ UNCHANGED <<installed[n], broken[n]>>
  BY <1>1 DEF ResetEnds
<1>5. /\ InFlight(evts'[n]) = InFlight(evts[n]) \cup {Cleaned(id, ready) : id \in ResetIds \cap resetting[n]}
      /\ \A k \in Nodes \ {n} : evts'[k] = evts[k]
  BY <1>1, <1>4, SentReports
<1>6. \A e \in InFlight(evts'[n]) : \/ e \in InFlight(evts[n])
                                    \/ /\ e.kind = IF ready THEN "cleaned" ELSE "unready"
                                       /\ e.id \in resetting[n]
  BY <1>5 DEF Cleaned
<1>7. Awaits(n)' = Awaits(n)
  BY <1>2 DEF Awaits
<1>8. Clean(n) => Clean(n)'
  BY <1>1, <1>4, <1>7 DEF Clean
<1>9. SettledNode(n) => SettledNode(n)'
  <2>1. Part(owner', n) = Part(owner, n)
    BY <1>2 DEF recordVars
  <2>2. QED
    BY <1>1, <1>4, <1>7, <2>1 DEF SettledNode
<1>10. PendingNode(n) => PendingNode(n)'
  <2>1. Vouches(n)' => Vouches(n)
    BY <1>2, <1>6 DEF Vouches, recordVars
  <2>2. Part(plan', n) = Part(plan, n)
    BY <1>2 DEF recordVars
  <2>3. QED
    BY <1>2, <1>3, <1>8, <2>1, <2>2 DEF PendingNode, Confirmed, recordVars
<1>11. RecoveringNode(n) => RecoveringNode(n)'
  <2>1. Reported(n)' => Reported(n) \/ (ready /\ cleanup \in resetting[n])
    BY <1>2, <1>6 DEF Reported, recordVars
  <2>2. ASSUME ready, ~Awaits(n) PROVE Clean(n)'
    BY <1>1, <1>4, <1>7, <2>2 DEF Clean
  <2>3. QED
    BY <1>2, <1>3, <1>7, <1>8, <2>1, <2>2 DEF RecoveringNode, recordVars
<1>12. QED
  BY <1>2, <1>3, <1>5, <1>9, <1>10, <1>11, NodeStep DEF IInv, SettledInv, PendingInv, RecoveringInv


\* A worker takes the next command of its queue.
LEMMA ReceiveMoves ==
  ASSUME TypeOK, NEW w \in Workers, WorkerReceives(w)
  PROVE  /\ UNCHANGED recordVars /\ dispatching' = dispatching /\ count' = count /\ w \in Nodes
         /\ cmds[w] \in Seq(Commands) /\ cmds[w] # <<>> /\ cmds'[w] = Tail(cmds[w])
         /\ Head(cmds[w]) \in Commands /\ InFlight(cmds[w]) = InFlight(cmds'[w]) \cup {Head(cmds[w])}
         /\ \A k \in Workers \ {w} : UNCHANGED cmds[k]
<1>1. cmds[w] \in Seq(Commands) /\ cmds[w] # <<>>
  BY DEF TypeOK, WorkerReceives
<1>2. Head(cmds[w]) \in Commands /\ InFlight(cmds[w]) = InFlight(Tail(cmds[w])) \cup {Head(cmds[w])}
  BY <1>1, TailInFlight, HeadInFlight
<1>3. QED
  BY <1>1, <1>2 DEF TypeOK, WorkerReceives, masterVars, recordVars, Workers

\* A worker receives a Reset.
LEMMA ReceiveResetStep ==
  ASSUME IInv, NEW w \in Workers, WorkerReceives(w), Head(cmds[w]).op = "reset"
  PROVE  (SettledInv /\ PendingInv /\ RecoveringInv)'
<1> DEFINE c == Head(cmds[w])
<1>1. TypeOK /\ resetting \in [Nodes -> SUBSET ResetIds]
  BY DEF IInv, TypeOK
<1>2. /\ UNCHANGED recordVars /\ dispatching' = dispatching /\ count' = count /\ w \in Nodes
      /\ cmds[w] \in Seq(Commands) /\ cmds[w] # <<>> /\ cmds'[w] = Tail(cmds[w])
      /\ InFlight(cmds[w]) = InFlight(cmds'[w]) \cup {c}
      /\ \A k \in Workers \ {w} : UNCHANGED cmds[k]
  BY <1>1, ReceiveMoves
<1>3. /\ UNCHANGED <<installed, broken, evts>>
      /\ \A k \in Nodes \ {w} : UNCHANGED resetting[k]
      /\ resetting'[w] \subseteq resetting[w] \cup {c.id}
  BY <1>1, <1>2 DEF WorkerReceives, BeginReset
<1> HIDE DEF c
<1>4. Awaits(w)' => Awaits(w)
  BY <1>2 DEF Awaits
<1>5. Clean(w) => Clean(w)'
  BY <1>3, <1>4 DEF Clean
<1>6. SettledNode(w) => SettledNode(w)'
  BY <1>2, <1>3, <1>4 DEF SettledNode, recordVars, Part
<1>7. ASSUME PendingNode(w) PROVE PendingNode(w)'
  <2>1. ~Vouches(w)
    BY <1>2, <1>7 DEF PendingNode, Confirmed
  <2>2. ~Vouches(w)'
    BY <1>2, <1>3, <2>1 DEF Vouches, recordVars
  <2>3. InitLast(cmds'[w])
    BY <1>2, <1>7, LastReceived DEF PendingNode
  <2>4. Part(plan', w) = Part(plan, w)
    BY <1>2 DEF recordVars
  <2>5. QED
    BY <1>2, <1>5, <1>7, <2>2, <2>3, <2>4 DEF PendingNode, recordVars
<1>8. ASSUME RecoveringNode(w) PROVE RecoveringNode(w)'
  <2>1. ASSUME cleanup # NoId PROVE NoneAfter(cmds'[w], cleanup) /\ (c.id = cleanup => ~Awaits(w)')
    <3>1. NoneAfter(cmds[w], cleanup)
      BY <1>8, <2>1 DEF RecoveringNode
    <3>2. QED
      BY <1>2, <3>1, NoneAfterReceived DEF c, Awaits
  <2>2. Reported(w)' => Reported(w)
    BY <1>2, <1>3 DEF Reported, recordVars
  <2>3. QED
    BY <1>2, <1>3, <1>4, <1>5, <1>8, <2>1, <2>2 DEF RecoveringNode, recordVars
<1>9. QED
  BY <1>2, <1>3, <1>6, <1>7, <1>8, NodeStep DEF IInv, SettledInv, PendingInv, RecoveringInv

\* A worker receives an INIT: none is in flight while the master accepts commands, and a
\* worker that has confirmed one has no other before it.
LEMMA ReceiveInitStep ==
  ASSUME IInv, NEW w \in Workers, WorkerReceives(w), Head(cmds[w]).op = "init"
  PROVE  (SettledInv /\ PendingInv /\ RecoveringInv)'
<1> DEFINE c == Head(cmds[w])
<1>1. TypeOK
  BY DEF IInv
<1>2. /\ UNCHANGED recordVars /\ dispatching' = dispatching /\ count' = count /\ w \in Nodes
      /\ cmds[w] \in Seq(Commands) /\ cmds[w] # <<>> /\ cmds'[w] = Tail(cmds[w])
      /\ c \in Commands /\ InFlight(cmds[w]) = InFlight(cmds'[w]) \cup {c}
      /\ \A k \in Workers \ {w} : UNCHANGED cmds[k]
  BY <1>1, ReceiveMoves
<1>3. Install(w, c.id, c.subjects)
  BY DEF WorkerReceives
<1>4. c.op = "init" /\ c \in InFlight(cmds[w]) /\ c.id \in InitIds /\ c.subjects \in SUBSET Subjects
  BY <1>2, CommandFields
<1> HIDE DEF c
<1>5. /\ resetting' = resetting
      /\ \A k \in Nodes \ {w} : UNCHANGED <<installed[k], broken[k], resetting[k], evts[k]>>
  BY <1>1, <1>2, <1>3, <1>4, InstallMoves
<1>6. PICK e \in Events :
        /\ InFlight(evts'[w]) = InFlight(evts[w]) \cup {e}
        /\ e.id = c.id
        /\ e.kind = "failed" \/ (e.kind = "installed" /\ resetting[w] = {} /\ ~broken'[w] /\ installed'[w] = c.subjects)
  <2> DEFINE id == c.id
             S == c.subjects
  <2>1. TypeOK /\ w \in Nodes /\ id \in InitIds /\ S \in SUBSET Subjects /\ Install(w, id, S)
    BY <1>1, <1>2, <1>3, <1>4
  <2> HIDE DEF id, S
  <2>2. \E e \in Events :
          /\ InFlight(evts'[w]) = InFlight(evts[w]) \cup {e}
          /\ e.id = id
          /\ e.kind = "failed" \/ (e.kind = "installed" /\ resetting[w] = {} /\ ~broken'[w] /\ installed'[w] = S)
    BY <2>1, InstallMoves
  <2>3. QED
    BY <2>2 DEF id, S
<1>7. Awaits(w) /\ ~Clean(w) /\ (Awaits(w)' => Awaits(w))
  BY <1>2, <1>4 DEF Awaits, Clean
<1>8. ~Settled
  BY <1>2, <1>7 DEF IInv, SettledInv, SettledNode
<1>9. ASSUME PendingNode(w) PROVE PendingNode(w)'
  <2>1. w \in expected /\ c.id = pending /\ c.subjects = Part(plan, w) /\ InitLast(cmds[w])
    BY <1>4, <1>7, <1>9 DEF PendingNode
  <2>2. ~Vouches(w)
    BY <1>2, <1>9 DEF PendingNode, Confirmed
  <2>3. cmds'[w] = <<>> /\ InitLast(cmds'[w])
    BY <1>2, <1>4, <2>1, LastReceived DEF c
  <2>4. InFlight(cmds'[w]) = {}
    BY <2>3, EmptyInFlight
  <2>5. Part(plan', w) = Part(plan, w) /\ w # Master
    BY <1>2 DEF recordVars, Workers
  <2>6. Vouches(w)' => e.kind = "installed"
    BY <1>2, <1>6, <2>2 DEF Vouches, recordVars
  <2>7. Vouches(w)' => Confirmed(w)'
    BY <1>5, <1>6, <2>1, <2>3, <2>5, <2>6 DEF Confirmed
  <2>8. QED
    BY <1>2, <2>1, <2>3, <2>4, <2>7 DEF PendingNode, recordVars
<1>10. ASSUME RecoveringNode(w) PROVE RecoveringNode(w)'
  <2>1. w \in participants
    BY <1>7, <1>10 DEF RecoveringNode
  <2>2. ASSUME cleanup # NoId PROVE NoneAfter(cmds'[w], cleanup) /\ ~(cleanup \in resetting[w]) /\ ~(w \in cleaned \/ Reported(w))
    <3>1. NoneAfter(cmds[w], cleanup) /\ ~(cleanup \in resetting[w]) /\ ~(w \in cleaned \/ Reported(w))
      BY <1>7, <1>10, <2>2 DEF RecoveringNode
    <3>2. QED
      BY <1>2, <3>1, NoneAfterReceived
  <2>3. Reported(w)' => Reported(w)
    BY <1>2, <1>6 DEF Reported, recordVars
  <2>4. QED
    BY <1>2, <1>5, <2>1, <2>2, <2>3 DEF RecoveringNode, recordVars
<1>11. QED
  BY <1>2, <1>5, <1>8, <1>9, <1>10, NodeStep DEF IInv, PendingInv, RecoveringInv

\* A worker loses its connection, and its Core too if the process restarts.
LEMMA WorkerFaultStep ==
  ASSUME IInv, NEW w \in Workers, WorkerRestarts(w) \/ WorkerReconnects(w)
  PROVE  (SettledInv /\ PendingInv /\ RecoveringInv)'
<1>1. /\ installed \in [Nodes -> SUBSET Subjects] /\ broken \in [Nodes -> BOOLEAN] /\ resetting \in [Nodes -> SUBSET ResetIds]
      /\ cmds \in [Workers -> Seq(Commands)] /\ evts \in [Nodes -> Seq(Events)] /\ count \in [Counters -> Nat]
  BY DEF IInv, TypeOK
<1>2. UNCHANGED recordVars /\ dispatching' = dispatching /\ w \in Nodes /\ w # Master
  BY DEF WorkerRestarts, WorkerReconnects, masterVars, recordVars, Workers
<1>3. UNCHANGED count["inits"] /\ (count["restarts"] > 0 => count'["restarts"] > 0) /\ (WorkerRestarts(w) => count'["restarts"] > 0)
  BY <1>1 DEF WorkerRestarts, WorkerReconnects, Counters
<1>4. cmds'[w] = <<>> /\ InFlight(cmds'[w]) = {} /\ \A k \in Workers \ {w} : UNCHANGED cmds[k]
  <2>1. cmds'[w] = <<>> /\ \A k \in Workers \ {w} : UNCHANGED cmds[k]
    BY <1>1 DEF WorkerRestarts, WorkerReconnects
  <2>2. QED
    BY <2>1, EmptyInFlight
<1>5. InFlight(evts'[w]) \subseteq InFlight(evts[w]) /\ \A k \in Nodes \ {w} : UNCHANGED evts[k]
  <2>1. CASE WorkerReconnects(w)
    <3>1. PICK k \in 0..Len(evts[w]) : evts' = [evts EXCEPT ![w] = SubSeq(@, 1, k)]
      BY <2>1 DEF WorkerReconnects
    <3>2. evts[w] \in Seq(Events)
      BY <1>1, <1>2
    <3>3. InFlight(SubSeq(evts[w], 1, k)) \subseteq InFlight(evts[w])
      BY <3>2, PrefixInFlight
    <3>4. QED
      BY <1>1, <1>2, <3>1, <3>3
  <2>2. CASE WorkerRestarts(w)
    BY <2>2 DEF WorkerRestarts
  <2>3. QED
    BY <2>1, <2>2
<1>6. /\ \A k \in Nodes \ {w} : UNCHANGED <<installed[k], broken[k], resetting[k]>>
      /\ \/ UNCHANGED <<installed[w], broken[w], resetting[w]>>
         \/ WorkerRestarts(w) /\ installed'[w] = {} /\ ~broken'[w] /\ resetting'[w] = {}
  BY <1>1, <1>2 DEF WorkerRestarts, WorkerReconnects, coreVars
<1>7. ~Awaits(w)' /\ (Clean(w) => Clean(w)')
  BY <1>4, <1>6 DEF Awaits, Clean
<1>8. (Vouches(w)' => Vouches(w)) /\ (Reported(w)' => Reported(w))
  BY <1>2, <1>5 DEF Vouches, Reported, recordVars
<1>9. UNCHANGED <<Part(owner, w), Part(plan, w)>>
  BY <1>2 DEF recordVars, Part
<1>10. SettledNode(w) => SettledNode(w)'
  BY <1>6, <1>7, <1>9 DEF SettledNode
<1>11. InitLast(cmds'[w]) /\ NoneAfter(cmds'[w], cleanup)
  BY <1>4 DEF InitLast, NoneAfter
<1>12. PendingNode(w) => PendingNode(w)'
  <2>1. Confirmed(w) => Confirmed(w)'
    BY <1>2, <1>3, <1>4, <1>6, <1>9 DEF Confirmed
  <2>2. QED
    BY <1>2, <1>4, <1>7, <1>8, <1>11, <2>1 DEF PendingNode, recordVars
<1>13. RecoveringNode(w) => RecoveringNode(w)'
  BY <1>2, <1>7, <1>8, <1>11 DEF RecoveringNode, recordVars
<1>14. QED
  BY <1>2, <1>3, <1>4, <1>5, <1>6, <1>10, <1>12, <1>13, NodeStep DEF IInv, SettledInv, PendingInv, RecoveringInv


-----------------------------------------------------------------------------
(* Steps of the master *)

\* A node that a request leaves out has nothing installed: it is clean already.
LEMMA LeftOut ==
  ASSUME TypeOK, NEW p \in Plans, NEW n \in Nodes, n \notin Required(p), SettledNode(n)
  PROVE  Clean(n)
<1>1. Part(owner, n) = {}
  BY RequiredAreNodes DEF TypeOK
<1>2. QED
  BY <1>1 DEF SettledNode, Clean

\* What the fan-out of an INIT does to the queue of a worker.
LEMMA InitSent ==
  ASSUME TypeOK, NEW p \in Plans, NEW id \in InitIds, NEW S,
         cmds' = [w \in Workers |-> IF w \in S THEN Append(cmds[w], Cmd("init", id, Part(p, w))) ELSE cmds[w]]
  PROVE  \A w \in Workers :
           /\ w \notin S => cmds'[w] = cmds[w]
           /\ w \in S => \E c \in Commands : /\ c.op = "init" /\ c.id = id /\ c.subjects = Part(p, w)
                                             /\ cmds'[w] = Append(cmds[w], c)
                                             /\ InFlight(cmds'[w]) = InFlight(cmds[w]) \cup {c}
<1> DEFINE C == [w \in Workers |-> Cmd("init", id, Part(p, w))]
<1>1. C \in [Workers -> Commands] /\ \A w \in Workers : C[w].op = "init" /\ C[w].id = id /\ C[w].subjects = Part(p, w)
  <2>1. \A w \in Workers : Part(p, w) \in SUBSET Subjects
    BY DEF Part
  <2>2. QED
    BY <2>1, CommandTypes DEF Cmd
<1>2. cmds \in [Workers -> Seq(Commands)] /\ cmds' = [w \in Workers |-> IF w \in S THEN Append(cmds[w], C[w]) ELSE cmds[w]]
  BY DEF TypeOK
<1> HIDE DEF C
<1>3. \A w \in Workers : IF w \in S THEN /\ cmds'[w] = Append(cmds[w], C[w])
                                         /\ InFlight(cmds'[w]) = InFlight(cmds[w]) \cup {C[w]}
                         ELSE cmds'[w] = cmds[w]
  BY <1>2, <1>1, FanOut
<1>4. \A w \in Workers : C[w] \in Commands
  BY <1>1
<1>5. QED
  BY <1>1, <1>3, <1>4

\* The fan-out reaches every participant.
LEMMA BeginInitStep ==
  ASSUME IInv, NEW p \in Plans, BeginInit(p)
  PROVE  (SettledInv /\ PendingInv /\ RecoveringInv)'
<1> DEFINE id == count["inits"] + 1
<1>1. TypeOK /\ Settled /\ id \in InitIds /\ count["inits"] \in Nat /\ cmds \in [Workers -> Seq(Commands)]
  BY DEF IInv, TypeOK, BeginInit, Counters
<1>2. /\ pending' = id /\ id # NoId /\ id > count["inits"] /\ plan' = p /\ owner' = owner /\ expected' = Required(p)
      /\ replies' = {} /\ ~recovering' /\ UNCHANGED <<installed, broken, resetting, evts>>
  BY <1>1 DEF BeginInit, Settled, coreVars, NoId
<1>3. count'["inits"] = id
  BY DEF BeginInit, IInv, TypeOK, Counters
<1>4. cmds' = [w \in Workers |-> IF w \in Required(p) THEN Append(cmds[w], Cmd("init", id, Part(p, w))) ELSE cmds[w]]
  BY DEF BeginInit
<1> HIDE DEF id
<1>5. \A w \in Workers :
        /\ w \notin Required(p) => cmds'[w] = cmds[w]
        /\ w \in Required(p) => \E c \in Commands : /\ c.op = "init" /\ c.id = id /\ c.subjects = Part(p, w)
                                                    /\ cmds'[w] = Append(cmds[w], c)
                                                    /\ InFlight(cmds'[w]) = InFlight(cmds[w]) \cup {c}
  BY <1>1, <1>4, InitSent
<1>6. ASSUME NEW n \in Nodes PROVE PendingNode(n)'
  <2>1. SettledNode(n) /\ IdsNode(n)
    BY <1>1 DEF IInv, SettledInv, IdsOK
  <2>2. ~Vouches(n)'
    <3>1. \A e \in InFlight(evts[n]) : e.kind = "installed" => e.id <= count["inits"]
      BY <2>1 DEF IdsNode
    <3>2. \A e \in InFlight(evts[n]) : e.kind = "installed" => e.id # id
      <4>1. ASSUME id <= count["inits"] PROVE FALSE
        BY <1>1, <4>1 DEF id
      <4>2. QED
        BY <3>1, <4>1
    <3>3. QED
      BY <1>2, <3>2 DEF Vouches
  <2>3. ASSUME n \notin Required(p) PROVE Clean(n)'
    <3>1. Clean(n)
      BY <1>1, <2>1, <2>3, LeftOut
    <3>2. QED
      BY <1>2, <1>5, <2>3, <3>1 DEF Clean, Awaits
  <2>4. ASSUME n \in Workers
        PROVE  /\ InitLast(cmds'[n])
               /\ \A c \in InFlight(cmds'[n]) : c.op = "init" => c.id = id /\ c.subjects = Part(p, n)
    <3>1. cmds[n] \in Seq(Commands) /\ \A c \in InFlight(cmds[n]) : c.op # "init"
      BY <1>1, <2>1, <2>4 DEF SettledNode, Awaits
    <3>2. CASE n \in Required(p)
      <4>1. PICK c \in Commands : /\ c.op = "init" /\ c.id = id /\ c.subjects = Part(p, n)
                                  /\ cmds'[n] = Append(cmds[n], c)
                                  /\ InFlight(cmds'[n]) = InFlight(cmds[n]) \cup {c}
        BY <1>5, <2>4, <3>2
      <4>2. InitLast(cmds'[n])
        BY <3>1, <4>1, LastAppended
      <4>3. QED
        BY <3>1, <4>1, <4>2
    <3>3. CASE n \notin Required(p)
      BY <1>5, <2>4, <3>1, <3>3 DEF InitLast, InFlight
    <3>4. QED
      BY <3>2, <3>3
  <2>5. Part(plan', n) = Part(p, n)
    BY <1>2
  <2>6. QED
    BY <1>2, <2>2, <2>3, <2>4, <2>5 DEF PendingNode
<1>7. PendingInv'
  <2>1. Required(plan)' = Required(p)
    BY <1>2 DEF Required, OwnersIn
  <2>2. QED
    BY <1>2, <1>3, <1>6, <2>1 DEF PendingInv
<1>8. SettledInv' /\ RecoveringInv'
  BY <1>2 DEF SettledInv, Settled, RecoveringInv
<1>9. QED
  BY <1>7, <1>8

\* An initialization fails: whoever has not been asked is clean, and nothing has been cleaned up yet.
LEMMA FailStep ==
  ASSUME InitFails, Master \in expected', \A n \in Nodes : n \notin expected' => Clean(n)'
  PROVE  (SettledInv /\ PendingInv /\ RecoveringInv)'
<1>1. /\ pending' = NoId /\ recovering' /\ participants' = expected' /\ cleanup' = NoId /\ cleaned' = {}
      /\ owner' = [s \in Subjects |-> Nobody]
  BY DEF InitFails
<1>2. \A n \in Nodes : RecoveringNode(n)'
  BY <1>1 DEF RecoveringNode
<1>3. RecoveringInv'
  BY <1>1, <1>2 DEF RecoveringInv
<1>4. QED
  BY <1>1, <1>3 DEF SettledInv, Settled, PendingInv

\* ... because the fan-out raises,
LEMMA BeginInitRaisesStep ==
  ASSUME IInv, NEW p \in Plans, BeginInitRaises(p)
  PROVE  (SettledInv /\ PendingInv /\ RecoveringInv)'
<1> DEFINE id == count["inits"] + 1
<1>1. TypeOK /\ Settled /\ id \in InitIds /\ InitFails /\ expected' = Required(p) /\ UNCHANGED <<installed, broken>>
  BY DEF IInv, BeginInitRaises, coreVars
<1>2. PICK S \in SUBSET (Workers \cap Required(p)) :
        cmds' = [w \in Workers |-> IF w \in S THEN Append(cmds[w], Cmd("init", id, Part(p, w))) ELSE cmds[w]]
  BY DEF BeginInitRaises
<1> HIDE DEF id
<1>3. ASSUME NEW n \in Nodes, n \notin Required(p) PROVE Clean(n)'
  <2>1. SettledNode(n)
    BY <1>1 DEF IInv, SettledInv
  <2>2. Clean(n)
    BY <1>1, <1>3, <2>1, LeftOut
  <2>3. n \in Workers => cmds'[n] = cmds[n]
    BY <1>2, <1>3
  <2>4. QED
    BY <1>1, <2>2, <2>3 DEF Clean, Awaits
<1>4. Master \in Required(p)
  BY <1>1, RequiredAreNodes DEF TypeOK
<1>5. QED
  BY <1>1, <1>3, <1>4, FailStep

\* ... because of the timer or of a reply.
LEMMA PendingFails ==
  ASSUME IInv, pending # NoId, InitFails, UNCHANGED <<expected, installed, broken, cmds>>
  PROVE  (SettledInv /\ PendingInv /\ RecoveringInv)'
<1>1. expected = Required(plan) /\ \A n \in Nodes : PendingNode(n)
  BY DEF IInv, PendingInv
<1>2. Master \in expected'
  BY <1>1, RequiredAreNodes DEF IInv, TypeOK
<1>3. \A n \in Nodes : n \notin expected' => Clean(n)'
  <2>1. \A n \in Nodes : n \notin expected' => Clean(n)
    BY <1>1 DEF PendingNode
  <2>2. \A n \in Nodes : Clean(n) => Clean(n)'
    BY DEF Clean, Awaits
  <2>3. QED
    BY <2>1, <2>2
<1>4. QED
  BY <1>2, <1>3, FailStep


\* A Reset that is new to the queue has nothing behind it.
LEMMA NewestLast ==
  ASSUME NEW q \in Seq(Commands), NEW id, \A c \in InFlight(q) : ~(c.op = "reset" /\ c.id = id)
  PROVE  NoneAfter(q, id) /\ \A c \in Commands : NoneAfter(Append(q, c), id)
<1>1. DOMAIN q = 1..Len(q) /\ Len(q) \in Nat /\ \A i \in 1..Len(q) : q[i] \in InFlight(q)
  BY DEF InFlight
<1>2. NoneAfter(q, id)
  BY <1>1 DEF NoneAfter
<1>3. ASSUME NEW c \in Commands PROVE NoneAfter(Append(q, c), id)
  <2>1. DOMAIN Append(q, c) = 1..(Len(q) + 1) /\ \A i \in 1..Len(q) : Append(q, c)[i] = q[i]
    OBVIOUS
  <2>2. ASSUME NEW i \in 1..(Len(q) + 1), NEW j \in 1..(Len(q) + 1), Append(q, c)[i].op = "reset",
               Append(q, c)[i].id = id, i < j
        PROVE  FALSE
    <3>1. i \in 1..Len(q)
      BY <1>1, <2>2
    <3>2. QED
      BY <1>1, <2>1, <2>2, <3>1
  <2>3. QED
    BY <2>1, <2>2 DEF NoneAfter
<1>4. QED
  BY <1>2, <1>3

\* What the fan-out of a Reset does to the queue of a worker.
LEMMA ResetSent ==
  ASSUME TypeOK, Reset
  PROVE  LET id == count["resets"] + 1
         IN /\ id \in ResetIds
            /\ \A w \in Workers :
                 \/ cmds'[w] = cmds[w]
                 \/ \E c \in Commands : /\ c.op = "reset" /\ c.id = id
                                        /\ cmds'[w] = Append(cmds[w], c)
                                        /\ InFlight(cmds'[w]) = InFlight(cmds[w]) \cup {c}
<1> DEFINE id == count["resets"] + 1
           C == [w \in Workers |-> Cmd("reset", id, {})]
<1>1. id \in ResetIds
  BY DEF Reset
<1>2. C \in [Workers -> Commands] /\ \A w \in Workers : C[w] \in Commands /\ C[w].op = "reset" /\ C[w].id = id
  BY <1>1, CommandTypes DEF Cmd
<1>3. cmds \in [Workers -> Seq(Commands)]
      /\ cmds' = [w \in Workers |-> IF w \in ResetTargets THEN Append(cmds[w], C[w]) ELSE cmds[w]]
  BY DEF Reset, TypeOK
<1> HIDE DEF C, id
<1>4. \A w \in Workers : IF w \in ResetTargets THEN /\ cmds'[w] = Append(cmds[w], C[w])
                                                    /\ InFlight(cmds'[w]) = InFlight(cmds[w]) \cup {C[w]}
                         ELSE cmds'[w] = cmds[w]
  BY <1>2, <1>3, FanOut
<1>5. QED
  BY <1>1, <1>2, <1>4 DEF id

\* The client's Reset.  While the master recovers, nothing in flight carries its id.
LEMMA ResetStep ==
  ASSUME IInv, Reset
  PROVE  (SettledInv /\ PendingInv /\ RecoveringInv)'
<1> DEFINE id == count["resets"] + 1
<1>1. /\ TypeOK /\ pending = NoId /\ ~dispatching /\ count["resets"] \in Nat /\ id \in ResetIds
      /\ cmds \in [Workers -> Seq(Commands)] /\ resetting \in [Nodes -> SUBSET ResetIds]
  BY DEF IInv, TypeOK, Reset, Counters
<1>2. /\ UNCHANGED <<owner, pending, dispatching, recovering, participants, installed, broken, evts>>
      /\ recovering => cleanup' = id /\ cleaned' = {}
      /\ \A n \in Nodes : resetting'[n] \subseteq resetting[n] \cup (IF n = Master THEN {id} ELSE {})
  <2>1. UNCHANGED <<owner, pending, dispatching, recovering, participants, evts>> /\ (recovering => cleanup' = id /\ cleaned' = {})
    BY DEF Reset
  <2>2. \/ resetting' = resetting
        \/ resetting' = [resetting EXCEPT ![Master] = @ \cup {id}]
    BY DEF Reset, BeginReset, coreVars
  <2>3. UNCHANGED <<installed, broken>>
    BY DEF Reset, BeginReset, coreVars
  <2>4. QED
    BY <1>1, <2>1, <2>2, <2>3
<1>3. \A w \in Workers :
         \/ cmds'[w] = cmds[w]
         \/ \E c \in Commands : /\ c.op = "reset" /\ c.id = id
                                /\ cmds'[w] = Append(cmds[w], c)
                                /\ InFlight(cmds'[w]) = InFlight(cmds[w]) \cup {c}
  BY <1>1, ResetSent
<1>4. ~(id <= count["resets"]) /\ id # NoId
  BY <1>1 DEF NoId
<1> HIDE DEF id
<1>5. \A n \in Nodes : Awaits(n)' <=> Awaits(n)
  BY <1>3 DEF Awaits
<1>6. \A n \in Nodes : Clean(n)' <=> Clean(n)
  BY <1>2, <1>5 DEF Clean
<1>7. SettledInv'
  <2>1. SUFFICES ASSUME Settled PROVE (~dispatching /\ \A n \in Nodes : SettledNode(n))'
    BY <1>2 DEF SettledInv, Settled
  <2>2. \A n \in Nodes : SettledNode(n) /\ Part(owner', n) = Part(owner, n)
    BY <1>2, <2>1 DEF IInv, SettledInv
  <2>3. QED
    BY <1>1, <1>2, <1>5, <2>2 DEF SettledNode
<1>8. PendingInv'
  BY <1>1, <1>2 DEF PendingInv
<1>9. ASSUME recovering PROVE RecoveringInv'
  <2>1. ASSUME NEW n \in Nodes PROVE RecoveringNode(n)'
    <3>1. IdsNode(n) /\ RecoveringNode(n)
      BY <1>9 DEF IInv, IdsOK, RecoveringInv
    <3>2. n \notin participants' => Clean(n)'
      BY <1>2, <1>6, <3>1 DEF RecoveringNode
    <3>3. ASSUME n \in Workers PROVE NoneAfter(cmds'[n], id)
      <4>1. cmds[n] \in Seq(Commands) /\ \A c \in InFlight(cmds[n]) : ~(c.op = "reset" /\ c.id = id)
        BY <1>1, <1>4, <3>1, <3>3 DEF IdsNode
      <4>2. NoneAfter(cmds[n], id) /\ \A c \in Commands : NoneAfter(Append(cmds[n], c), id)
        BY <4>1, NewestLast
      <4>3. QED
        BY <1>3, <3>3, <4>2
    <3>4. id \in resetting'[n] => ~Awaits(n)'
      <4>1. id \notin resetting[n]
        BY <1>4, <3>1 DEF IdsNode
      <4>2. id \in resetting'[n] => n = Master
        BY <1>2, <4>1
      <4>3. QED
        BY <4>2 DEF Awaits, Workers
    <3>5. ~Reported(n)'
      <4>1. \A e \in InFlight(evts[n]) : e.kind = "cleaned" => e.id <= count["resets"]
        BY <3>1 DEF IdsNode
      <4>2. QED
        BY <1>2, <1>4, <1>9, <4>1 DEF Reported
    <3>6. QED
      BY <1>2, <1>9, <3>2, <3>3, <3>4, <3>5 DEF RecoveringNode
  <2>2. QED
    BY <1>1, <1>2, <1>4, <1>9, <2>1 DEF IInv, RecoveringInv
<1>10. QED
  BY <1>2, <1>7, <1>8, <1>9 DEF RecoveringInv

\* What taking the next event of a node leaves behind.
LEMMA HandleMoves ==
  ASSUME TypeOK, NEW n \in Nodes, HandleEvent(n)
  PROVE  /\ UNCHANGED <<dispatching, installed, broken, resetting, cmds, count>>
         /\ Head(evts[n]) \in InFlight(evts[n]) /\ Head(evts[n]) \in Events
         /\ InFlight(evts'[n]) \subseteq InFlight(evts[n])
         /\ \A k \in Nodes \ {n} : UNCHANGED evts[k]
<1>1. evts \in [Nodes -> Seq(Events)] /\ evts[n] \in Seq(Events) /\ evts[n] # <<>> /\ evts' = [evts EXCEPT ![n] = Tail(@)]
  BY DEF HandleEvent, TypeOK
<1>2. /\ Head(evts[n]) \in InFlight(evts[n]) /\ Head(evts[n]) \in Events
      /\ InFlight(Tail(evts[n])) \subseteq InFlight(evts[n])
  BY <1>1, TailInFlight
<1>3. QED
  BY <1>1, <1>2 DEF HandleEvent, coreVars

\* An event that the master ignores.
LEMMA IgnoredStep ==
  ASSUME IInv, NEW n \in Nodes, HandleEvent(n), UNCHANGED recordVars
  PROVE  (SettledInv /\ PendingInv /\ RecoveringInv)'
<1>1. TypeOK
  BY DEF IInv
<1>2. /\ UNCHANGED <<dispatching, installed, broken, resetting, cmds, count>>
      /\ InFlight(evts'[n]) \subseteq InFlight(evts[n])
      /\ \A k \in Nodes \ {n} : UNCHANGED evts[k]
  BY <1>1, HandleMoves
<1>3. UNCHANGED <<Awaits(n), Clean(n), Confirmed(n), Part(owner, n), Part(plan, n)>>
  BY <1>2 DEF Awaits, Clean, Confirmed, Part, recordVars
<1>4. (Vouches(n)' => Vouches(n)) /\ (Reported(n)' => Reported(n))
  BY <1>2 DEF Vouches, Reported, recordVars
<1>5. SettledNode(n) => SettledNode(n)'
  BY <1>2, <1>3 DEF SettledNode
<1>6. PendingNode(n) => PendingNode(n)'
  BY <1>2, <1>3, <1>4 DEF PendingNode, recordVars
<1>7. RecoveringNode(n) => RecoveringNode(n)'
  BY <1>2, <1>3, <1>4 DEF RecoveringNode, recordVars
<1>8. QED
  BY <1>2, <1>5, <1>6, <1>7, NodeStep DEF IInv, SettledInv, PendingInv, RecoveringInv


\* A confirmation is recorded: the node vouched for its part before it was, and with the
\* last one every node is as the new ownership map says.
LEMMA ConfirmedStep ==
  ASSUME IInv, NEW n \in Nodes, HandleEvent(n), RecordReply(n, Head(evts[n])),
         pending # NoId, Head(evts[n]).id = pending, Head(evts[n]).kind = "installed", replies' = replies \cup {n},
         IF expected \subseteq replies' THEN InitSucceeds
         ELSE UNCHANGED <<owner, pending, recovering, participants, cleanup, cleaned>>
  PROVE  /\ (SettledInv /\ PendingInv /\ RecoveringInv)'
         /\ expected \subseteq replies' => \A k \in Nodes : k \in expected => Confirmed(k)
<1>1. TypeOK /\ replies \subseteq Nodes
  BY DEF IInv, TypeOK
<1>2. /\ UNCHANGED <<dispatching, installed, broken, resetting, cmds, count>>
      /\ Head(evts[n]) \in InFlight(evts[n])
      /\ InFlight(evts'[n]) \subseteq InFlight(evts[n])
      /\ \A k \in Nodes \ {n} : UNCHANGED evts[k]
  BY <1>1, HandleMoves
<1>3. UNCHANGED <<plan, expected>>
  BY DEF RecordReply
<1>4. ~recovering /\ expected = Required(plan) /\ \A k \in Nodes : PendingNode(k)
  BY DEF IInv, PendingInv
<1>5. \A k \in Nodes : k \in replies' \/ (\E e \in InFlight(evts'[k]) : e.kind = "installed" /\ e.id = pending) => Vouches(k)
  BY <1>2 DEF Vouches
<1>6. \A k \in Nodes : UNCHANGED <<Awaits(k), Clean(k), Confirmed(k)>>
  BY <1>2, <1>3 DEF Awaits, Clean, Confirmed, Part
<1>7. CASE expected \subseteq replies'
  <2>1. pending' = NoId /\ owner' = plan /\ ~recovering'
    BY <1>4, <1>7 DEF InitSucceeds
  <2>2. \A k \in Nodes : k \in expected => Confirmed(k)
    BY <1>4, <1>5, <1>7 DEF PendingNode
  <2>3. ASSUME NEW k \in Nodes PROVE SettledNode(k)'
    <3>1. CASE k \in expected
      <4>1. Confirmed(k)
        BY <2>2, <3>1
      <4>2. ~Awaits(k)
        BY <4>1, EmptyInFlight DEF Confirmed, Awaits
      <4>3. installed[k] \subseteq Part(plan, k)
        BY <4>1 DEF Confirmed
      <4>4. QED
        BY <1>2, <1>6, <2>1, <4>1, <4>2, <4>3 DEF SettledNode, Confirmed
    <3>2. CASE k \notin expected
      <4>1. Clean(k)
        BY <1>4, <3>2 DEF PendingNode
      <4>2. QED
        BY <1>2, <1>6, <4>1 DEF SettledNode, Clean
    <3>3. QED
      BY <3>1, <3>2
  <2>4. ~dispatching'
    <3>1. Master \in expected /\ Master \in Nodes
      BY <1>4, RequiredAreNodes, InitAssumption DEF IInv, TypeOK
    <3>2. QED
      BY <1>2, <2>2, <3>1 DEF Confirmed
  <2>5. QED
    BY <2>1, <2>2, <2>3, <2>4 DEF SettledInv, PendingInv, RecoveringInv
<1>8. CASE ~(expected \subseteq replies')
  <2>1. UNCHANGED <<owner, pending, recovering>>
    BY <1>8
  <2>2. ASSUME NEW k \in Nodes PROVE PendingNode(k)'
    <3>1. PendingNode(k) /\ Part(plan', k) = Part(plan, k) /\ (Vouches(k)' => Vouches(k))
      BY <1>3, <1>4, <1>5, <2>1 DEF Vouches
    <3>2. QED
      BY <1>2, <1>3, <1>6, <2>1, <3>1 DEF PendingNode
  <2>3. Required(plan)' = Required(plan)
    BY <1>3, <2>1 DEF Required, OwnersIn
  <2>4. PendingInv'
    BY <1>2, <1>3, <1>4, <2>1, <2>2, <2>3 DEF IInv, PendingInv
  <2>5. QED
    BY <1>4, <1>8, <2>1, <2>4 DEF SettledInv, Settled, RecoveringInv
<1>9. QED
  BY <1>7, <1>8

\* A reply.
LEMMA ReplyStep ==
  ASSUME IInv, NEW n \in Nodes, HandleEvent(n), Head(evts[n]).kind \in {"installed", "failed"}, RecordReply(n, Head(evts[n]))
  PROVE  (SettledInv /\ PendingInv /\ RecoveringInv)'
<1> DEFINE e == Head(evts[n])
           Counts == pending # NoId /\ e.id = pending /\ n \in expected \ replies
           Refused == e.kind = "failed" \/ e.subjects # Part(plan, n)
<1>1. UNCHANGED <<dispatching, installed, broken, resetting, cmds, count>> /\ UNCHANGED <<plan, expected>>
  BY HandleMoves DEF IInv, RecordReply
<1>2. CASE Counts /\ Refused
  <2>1. InitFails
    BY <1>2 DEF RecordReply
  <2>2. QED
    BY <1>1, <1>2, <2>1, PendingFails
<1>3. CASE Counts /\ ~Refused
  <2>1. /\ replies' = replies \cup {n}
        /\ IF expected \subseteq replies' THEN InitSucceeds
           ELSE UNCHANGED <<owner, pending, recovering, participants, cleanup, cleaned>>
    BY <1>3 DEF RecordReply
  <2>2. e.kind = "installed"
    BY <1>3
  <2>3. QED
    BY <1>3, <2>1, <2>2, ConfirmedStep
<1>4. CASE ~Counts
  <2>1. UNCHANGED recordVars
    BY <1>4 DEF RecordReply, recordVars
  <2>2. QED
    BY <2>1, IgnoredStep
<1>5. QED
  BY <1>2, <1>3, <1>4

\* The report of a Reset: with the last one every node is clean.
LEMMA CleanedStep ==
  ASSUME IInv, NEW n \in Nodes, HandleEvent(n), RecordCleaned(n, Head(evts[n]))
  PROVE  (SettledInv /\ PendingInv /\ RecoveringInv)'
<1> DEFINE e == Head(evts[n])
           Counts == recovering /\ cleanup # NoId /\ e.id = cleanup /\ n \in participants /\ e.kind = "cleaned"
<1>1. TypeOK
  BY DEF IInv
<1>2. /\ UNCHANGED <<dispatching, installed, broken, resetting, cmds, count>>
      /\ e \in InFlight(evts[n])
      /\ InFlight(evts'[n]) \subseteq InFlight(evts[n])
      /\ \A k \in Nodes \ {n} : UNCHANGED evts[k]
  BY <1>1, HandleMoves
<1>3. UNCHANGED <<pending, plan, expected, replies, participants, cleanup>>
  BY DEF RecordCleaned
<1>4. CASE ~Counts
  <2>1. UNCHANGED recordVars
    BY <1>3, <1>4 DEF RecordCleaned, recordVars
  <2>2. QED
    BY <2>1, IgnoredStep
<1>5. CASE Counts
  <2>1. /\ pending = NoId /\ owner = [s \in Subjects |-> Nobody] /\ Master \in participants /\ ~dispatching
        /\ \A k \in Nodes : RecoveringNode(k)
    BY <1>5 DEF IInv, RecoveringInv
  <2>2. /\ cleaned' = cleaned \cup {n} /\ (recovering' <=> ~Recovered(cleaned')) /\ owner' = [s \in Subjects |-> Nobody]
    BY <1>5, <2>1 DEF RecordCleaned
  <2>3. \A k \in Nodes : UNCHANGED <<Awaits(k), Clean(k)>>
    BY <1>2 DEF Awaits, Clean
  <2>4. \A k \in Nodes : k \in cleaned' \/ Reported(k)' => Clean(k)
    <3>1. Reported(n)
      BY <1>2, <1>5 DEF Reported
    <3>2. \A k \in Nodes : Reported(k)' => Reported(k)
      BY <1>2, <1>3 DEF Reported
    <3>3. QED
      BY <1>5, <2>1, <2>2, <3>1, <3>2 DEF RecoveringNode
  <2>5. ASSUME ~recovering' PROVE \A k \in Nodes : SettledNode(k)'
    <3>1. \A k \in Nodes : Clean(k)
      BY <2>1, <2>2, <2>4, <2>5 DEF Recovered, RecoveringNode
    <3>2. QED
      BY <1>2, <2>3, <3>1 DEF Clean, SettledNode
  <2>6. ASSUME NEW k \in Nodes PROVE RecoveringNode(k)'
    BY <1>2, <1>3, <2>1, <2>3, <2>4 DEF RecoveringNode
  <2>7. SettledInv'
    BY <1>2, <2>1, <2>5 DEF SettledInv, Settled
  <2>8. PendingInv'
    BY <1>3, <2>1 DEF PendingInv
  <2>9. RecoveringInv'
    BY <1>2, <1>3, <1>5, <2>1, <2>2, <2>6 DEF RecoveringInv
  <2>10. QED
    BY <2>7, <2>8, <2>9
<1>6. QED
  BY <1>4, <1>5


-----------------------------------------------------------------------------
(* Ids *)

\* The numbers a step may change.
LEMMA IdsElsewhere ==
  ASSUME NEW n \in Nodes, IdsNode(n), TypeOK,
         count["inits"] <= count'["inits"], count["resets"] <= count'["resets"], count' \in [Counters -> Nat],
         n \in Workers => \A c \in InFlight(cmds'[n]) :
           c \in InFlight(cmds[n]) \/ (c \in Commands /\ c.id <= IF c.op = "init" THEN count'["inits"] ELSE count'["resets"]),
         \A e \in InFlight(evts'[n]) :
           e \in InFlight(evts[n])
             \/ (e \in Events /\ e.id <= IF e.kind \in {"installed", "failed"} THEN count'["inits"] ELSE count'["resets"]),
         \A id \in resetting'[n] : id \in resetting[n] \/ id <= count'["resets"]
  PROVE  IdsNode(n)'
<1>1. count["inits"] \in Nat /\ count["resets"] \in Nat /\ count'["inits"] \in Nat /\ count'["resets"] \in Nat
  BY DEF TypeOK, Counters
<1>2. \A x \in Nat : (x <= count["inits"] => x <= count'["inits"]) /\ (x <= count["resets"] => x <= count'["resets"])
  BY <1>1
<1>3. ASSUME n \in Workers, NEW c \in InFlight(cmds[n]) PROVE c.id <= IF c.op = "init" THEN count'["inits"] ELSE count'["resets"]
  <2>1. cmds[n] \in Seq(Commands)
    BY <1>3 DEF TypeOK
  <2>2. c \in Commands
    BY <1>3, <2>1 DEF InFlight
  <2>3. c.id \in Nat
    BY <2>2, CommandFields DEF InitIds, ResetIds
  <2>4. QED
    BY <1>2, <1>3, <2>3 DEF IdsNode
<1>4. ASSUME NEW e \in InFlight(evts[n])
      PROVE  e.id <= IF e.kind \in {"installed", "failed"} THEN count'["inits"] ELSE count'["resets"]
  <2>1. evts[n] \in Seq(Events)
    BY DEF TypeOK
  <2>2. e \in Events
    BY <1>4, <2>1 DEF InFlight
  <2>3. e.id \in Nat
    BY <2>2, EventFields DEF InitIds, ResetIds
  <2>4. QED
    BY <1>2, <1>4, <2>3 DEF IdsNode
<1>5. ASSUME NEW id \in resetting[n] PROVE id <= count'["resets"]
  <2>1. id \in Nat
    BY <1>5 DEF TypeOK, ResetIds
  <2>2. QED
    BY <1>2, <1>5, <2>1 DEF IdsNode
<1>6. QED
  BY <1>3, <1>4, <1>5 DEF IdsNode

\* Nothing carries an id that was not given out.
LEMMA IdsStep ==
  ASSUME IInv, [Next]_vars, TypeOK'
  PROVE  IdsOK'
<1>t. /\ TypeOK /\ IdsOK /\ Workers \subseteq Nodes /\ Master \in Nodes /\ Master \notin Workers
      /\ count \in [Counters -> Nat] /\ count["inits"] \in Nat /\ count["resets"] \in Nat /\ count' \in [Counters -> Nat]
      /\ count["inits"] <= MaxInits /\ count["resets"] <= MaxResets /\ MaxInits \in Nat /\ MaxResets \in Nat
      /\ \A n \in Nodes : IdsNode(n)
      /\ cmds \in [Workers -> Seq(Commands)] /\ evts \in [Nodes -> Seq(Events)] /\ resetting \in [Nodes -> SUBSET ResetIds]
  BY InitAssumption, InitBounds DEF IInv, TypeOK, IdsOK, Counters, Workers
<1> DEFINE Sends(w) == \A c \in InFlight(cmds'[w]) :
             c \in InFlight(cmds[w]) \/ (c \in Commands /\ c.id <= IF c.op = "init" THEN count'["inits"] ELSE count'["resets"])
           Says(n) == \A e \in InFlight(evts'[n]) :
             e \in InFlight(evts[n])
               \/ (e \in Events /\ e.id <= IF e.kind \in {"installed", "failed"} THEN count'["inits"] ELSE count'["resets"])
           Resets(n) == \A id \in resetting'[n] : id \in resetting[n] \/ id <= count'["resets"]
           Counted == /\ count["inits"] <= count'["inits"] /\ count["resets"] <= count'["resets"]
                      /\ count'["inits"] <= MaxInits /\ count'["resets"] <= MaxResets
                      /\ dispatching' => count'["inits"] \in InitIds
<1>s. ASSUME Counted, \A w \in Workers : Sends(w), \A n \in Nodes : Says(n) /\ Resets(n) PROVE IdsOK'
  <2>1. \A n \in Nodes : IdsNode(n)'
    BY <1>t, <1>s, IdsElsewhere
  <2>2. QED
    BY <1>s, <2>1 DEF IdsOK
<1>c. ASSUME UNCHANGED <<count["inits"], count["resets"]>>, dispatching' => dispatching PROVE Counted
  BY <1>t, <1>c DEF IdsOK
<1>1. ASSUME NEW p \in Plans, BeginInit(p) \/ BeginInitRaises(p) PROVE IdsOK'
  <2> DEFINE id == count["inits"] + 1
  <2>1. id \in InitIds /\ evts' = evts /\ resetting' = resetting
    BY <1>1 DEF BeginInit, BeginInitRaises, coreVars
  <2>2. count'["inits"] = id /\ count'["resets"] = count["resets"]
    BY <1>t, <1>1 DEF BeginInit, BeginInitRaises, Counters
  <2>3. PICK S : cmds' = [w \in Workers |-> IF w \in S THEN Append(cmds[w], Cmd("init", id, Part(p, w))) ELSE cmds[w]]
    <3>1. CASE BeginInit(p)
      BY <3>1 DEF BeginInit
    <3>2. CASE BeginInitRaises(p)
      BY <3>2 DEF BeginInitRaises
    <3>3. QED
      BY <1>1, <3>1, <3>2
  <2>4. Counted
    BY <1>t, <2>1, <2>2 DEF InitIds
  <2> HIDE DEF id
  <2>5. \A w \in Workers :
           /\ w \notin S => cmds'[w] = cmds[w]
           /\ w \in S => \E c \in Commands : /\ c.op = "init" /\ c.id = id /\ c.subjects = Part(p, w)
                                             /\ cmds'[w] = Append(cmds[w], c)
                                             /\ InFlight(cmds'[w]) = InFlight(cmds[w]) \cup {c}
    BY <1>t, <2>1, <2>3, InitSent
  <2>6. id <= id
    BY <2>1 DEF InitIds
  <2>7. \A w \in Workers : Sends(w)
    BY <2>2, <2>5, <2>6
  <2>8. QED
    BY <1>s, <2>1, <2>4, <2>7
<1>2. CASE Reset
  <2> DEFINE id == count["resets"] + 1
  <2>1. id \in ResetIds /\ evts' = evts /\ dispatching' = dispatching
    BY <1>2 DEF Reset
  <2>2. count'["resets"] = id /\ count'["inits"] = count["inits"]
    BY <1>t, <1>2 DEF Reset, Counters
  <2>3. Counted
    BY <1>t, <2>1, <2>2 DEF ResetIds, IdsOK
  <2>4. \A w \in Workers :
         \/ cmds'[w] = cmds[w]
         \/ \E c \in Commands : /\ c.op = "reset" /\ c.id = id
                                /\ cmds'[w] = Append(cmds[w], c)
                                /\ InFlight(cmds'[w]) = InFlight(cmds[w]) \cup {c}
    BY <1>t, <1>2, ResetSent
  <2>5. \/ resetting' = resetting
        \/ resetting' = [resetting EXCEPT ![Master] = @ \cup {id}]
    BY <1>2 DEF Reset, BeginReset, coreVars
  <2>6. id <= id
    BY <2>1 DEF ResetIds
  <2> HIDE DEF id
  <2>7. \A w \in Workers : Sends(w)
    BY <2>2, <2>4, <2>6
  <2>8. \A n \in Nodes : Resets(n)
    <3>1. CASE resetting' = resetting
      BY <3>1
    <3>2. CASE resetting' = [resetting EXCEPT ![Master] = @ \cup {id}]
      <4>1. \A n \in Nodes : resetting'[n] \subseteq resetting[n] \cup {id}
        BY <1>t, <3>2
      <4>2. QED
        BY <2>2, <2>6, <4>1
    <3>3. QED
      BY <2>5, <3>1, <3>2
  <2>9. QED
    BY <1>s, <2>1, <2>3, <2>7, <2>8
<1>3. CASE LocalInit
  <2> DEFINE id == count["inits"]
             S == Part(plan, Master)
  <2>1. /\ TypeOK /\ Master \in Nodes /\ id \in InitIds /\ S \in SUBSET Subjects /\ Install(Master, id, S)
        /\ cmds' = cmds /\ count' = count /\ ~dispatching' /\ id <= count'["inits"]
    BY <1>t, <1>3 DEF LocalInit, IdsOK, Part
  <2> HIDE DEF id, S
  <2>2. /\ resetting' = resetting
        /\ \A k \in Nodes \ {Master} : evts'[k] = evts[k]
        /\ \E e \in Events : /\ InFlight(evts'[Master]) = InFlight(evts[Master]) \cup {e}
                             /\ e.id = id /\ e.kind \in {"installed", "failed"}
    BY <2>1, InstallMoves
  <2>3. Counted
    BY <1>c, <2>1
  <2>4. \A n \in Nodes : Says(n)
    BY <1>t, <2>1, <2>2
  <2>5. QED
    BY <1>s, <2>1, <2>2, <2>3, <2>4
<1>4. ASSUME NEW n \in Nodes, HandleEvent(n) PROVE IdsOK'
  <2>1. /\ UNCHANGED <<dispatching, resetting, cmds, count>>
        /\ InFlight(evts'[n]) \subseteq InFlight(evts[n])
        /\ \A k \in Nodes \ {n} : UNCHANGED evts[k]
    BY <1>t, <1>4, HandleMoves
  <2>2. QED
    BY <1>s, <1>c, <2>1
<1>5. ASSUME NEW n \in Nodes, ResetEnds(n) PROVE IdsOK'
  <2>1. PICK ready \in BOOLEAN : \E r \in Reports(n, ready) : evts' = [evts EXCEPT ![n] = @ \o r]
    BY <1>5 DEF ResetEnds
  <2>2. /\ InFlight(evts'[n]) = InFlight(evts[n]) \cup {Cleaned(id, ready) : id \in ResetIds \cap resetting[n]}
        /\ \A k \in Nodes \ {n} : evts'[k] = evts[k]
    BY <1>t, <2>1, SentReports
  <2>3. UNCHANGED <<cmds, count, dispatching>> /\ resetting' = [resetting EXCEPT ![n] = {}]
    BY <1>5 DEF ResetEnds, masterVars
  <2>4. \A id \in ResetIds \cap resetting[n] :
          /\ Cleaned(id, ready) \in Events /\ Cleaned(id, ready).id <= count'["resets"]
          /\ Cleaned(id, ready).kind \notin {"installed", "failed"}
    BY <1>t, <2>3 DEF Cleaned, Events, IdsNode
  <2>5. \A k \in Nodes : Says(k)
    BY <2>2, <2>4
  <2>6. \A k \in Nodes : Resets(k)
    BY <1>t, <2>3
  <2>7. QED
    BY <1>s, <1>c, <2>3, <2>5, <2>6
<1>6. ASSUME NEW w \in Workers, WorkerReceives(w) PROVE IdsOK'
  <2> DEFINE c == Head(cmds[w])
  <2>1. /\ dispatching' = dispatching /\ count' = count /\ c \in Commands
        /\ InFlight(cmds[w]) = InFlight(cmds'[w]) \cup {c} /\ \A k \in Workers \ {w} : UNCHANGED cmds[k]
    BY <1>t, <1>6, ReceiveMoves
  <2>2. Counted /\ \A k \in Workers : Sends(k)
    BY <1>c, <2>1
  <2>3. c.id <= IF c.op = "init" THEN count["inits"] ELSE count["resets"]
    BY <1>t, <2>1 DEF IdsNode
  <2>4. CASE c.op = "init" /\ Install(w, c.id, c.subjects)
    <3> DEFINE id == c.id
               S == c.subjects
    <3>1. TypeOK /\ w \in Nodes /\ id \in InitIds /\ S \in SUBSET Subjects /\ Install(w, id, S) /\ id <= count'["inits"]
      BY <1>t, <2>1, <2>3, <2>4, CommandFields
    <3> HIDE DEF id, S
    <3>2. /\ resetting' = resetting
          /\ \A k \in Nodes \ {w} : evts'[k] = evts[k]
          /\ \E e \in Events : /\ InFlight(evts'[w]) = InFlight(evts[w]) \cup {e}
                               /\ e.id = id /\ e.kind \in {"installed", "failed"}
      BY <3>1, InstallMoves
    <3>3. \A n \in Nodes : Says(n)
      BY <3>1, <3>2
    <3>4. QED
      BY <1>s, <2>2, <3>2, <3>3
  <2>5. CASE c.op = "reset" /\ BeginReset(w, c.id) /\ UNCHANGED evts
    <3>1. \A n \in Nodes : Resets(n)
      BY <1>t, <2>1, <2>3, <2>5 DEF BeginReset
    <3>2. QED
      BY <1>s, <2>2, <2>5, <3>1
  <2>6. QED
    BY <1>6, <2>4, <2>5 DEF WorkerReceives
<1>7. ASSUME NEW w \in Workers, WorkerRestarts(w) \/ WorkerReconnects(w) PROVE IdsOK'
  <2>1. dispatching' = dispatching /\ UNCHANGED <<count["inits"], count["resets"]>>
    BY <1>t, <1>7 DEF WorkerRestarts, WorkerReconnects, masterVars, Counters
  <2>2. \A k \in Workers : Sends(k)
    <3>1. cmds' = [cmds EXCEPT ![w] = <<>>]
      BY <1>7 DEF WorkerRestarts, WorkerReconnects
    <3>2. QED
      BY <1>t, <3>1, EmptyInFlight
  <2>3. \A k \in Nodes : Resets(k)
    BY <1>t, <1>7 DEF WorkerRestarts, WorkerReconnects, coreVars
  <2>4. \A k \in Nodes : Says(k)
    <3>1. CASE WorkerReconnects(w)
      <4>1. PICK j \in 0..Len(evts[w]) : evts' = [evts EXCEPT ![w] = SubSeq(@, 1, j)]
        BY <3>1 DEF WorkerReconnects
      <4>2. evts[w] \in Seq(Events)
        BY <1>t
      <4>3. InFlight(SubSeq(evts[w], 1, j)) \subseteq InFlight(evts[w])
        BY <4>2, PrefixInFlight
      <4>4. QED
        BY <1>t, <4>1, <4>3
    <3>2. CASE WorkerRestarts(w)
      BY <3>2 DEF WorkerRestarts
    <3>3. QED
      BY <1>7, <3>1, <3>2
  <2>5. QED
    BY <1>s, <1>c, <2>1, <2>2, <2>3, <2>4
<1>8. CASE InitExpires \/ UNCHANGED vars
  <2>1. UNCHANGED <<dispatching, resetting, cmds, evts, count>>
    BY <1>8 DEF InitExpires, vars, masterVars, coreVars
  <2>2. QED
    BY <1>s, <1>c, <2>1
<1>9. QED
  BY <1>1, <1>2, <1>3, <1>4, <1>5, <1>6, <1>7, <1>8 DEF Next


-----------------------------------------------------------------------------
(* The theorems *)

\* The invariant holds at first.
LEMMA InitIInv == Init => IInv
<1> SUFFICES ASSUME Init PROVE IInv
  OBVIOUS
<1>1. \A n \in Nodes : installed[n] = {} /\ ~broken[n] /\ resetting[n] = {} /\ InFlight(evts[n]) = {}
  BY EmptyInFlight DEF Init
<1>2. \A w \in Workers : InFlight(cmds[w]) = {}
  BY EmptyInFlight DEF Init
<1>3. TypeOK
  <2>1. [s \in Subjects |-> Nobody] \in Plans
    BY DEF Plans
  <2>2. cmds \in [Workers -> Seq(Commands)] /\ evts \in [Nodes -> Seq(Events)]
    <3>1. <<>> \in Seq(Commands) /\ <<>> \in Seq(Events)
      BY EmptyInFlight
    <3>2. QED
      BY <3>1 DEF Init
  <2>3. QED
    BY <2>1, <2>2 DEF Init, TypeOK
<1>4. count["inits"] = 0 /\ count["resets"] = 0 /\ ~dispatching
  BY DEF Init, Counters
<1>5. IdsOK
  BY <1>1, <1>2, <1>4, InitBounds DEF IdsOK, IdsNode
<1>6. SettledInv
  BY <1>1, <1>2, <1>4 DEF SettledInv, SettledNode, Awaits
<1>7. PendingInv /\ RecoveringInv
  BY DEF Init, PendingInv, RecoveringInv
<1>8. QED
  BY <1>3, <1>5, <1>6, <1>7 DEF IInv

\* Every step keeps it.
LEMMA NextIInv == IInv /\ [Next]_vars => IInv'
<1> SUFFICES ASSUME IInv, [Next]_vars PROVE IInv'
  OBVIOUS
<1>1. TypeOK'
  BY TypeStep DEF IInv
<1>2. IdsOK'
  BY <1>1, IdsStep
<1> DEFINE Rest == SettledInv /\ PendingInv /\ RecoveringInv
<1>3. ASSUME NEW p \in Plans, BeginInit(p) \/ BeginInitRaises(p) PROVE Rest'
  BY <1>3, BeginInitStep, BeginInitRaisesStep
<1>4. ASSUME LocalInit PROVE Rest'
  BY <1>4, LocalInitStep
<1>5. ASSUME InitExpires PROVE Rest'
  BY <1>5, PendingFails DEF InitExpires, coreVars
<1>6. ASSUME Reset PROVE Rest'
  BY <1>6, ResetStep
<1>7. ASSUME NEW n \in Nodes, HandleEvent(n) PROVE Rest'
  BY <1>7, ReplyStep, CleanedStep DEF HandleEvent
<1>8. ASSUME NEW n \in Nodes, ResetEnds(n) PROVE Rest'
  BY <1>8, ResetEndsStep
<1>9. ASSUME NEW w \in Workers, WorkerReceives(w) PROVE Rest'
  BY <1>9, ReceiveInitStep, ReceiveResetStep DEF WorkerReceives
<1>10. ASSUME NEW w \in Workers, WorkerRestarts(w) \/ WorkerReconnects(w) PROVE Rest'
  BY <1>10, WorkerFaultStep
<1>11. ASSUME UNCHANGED vars PROVE Rest'
  <2>1. \A k \in Nodes : /\ UNCHANGED <<installed[k], broken[k], resetting[k], evts[k]>>
                         /\ k \in Workers => UNCHANGED cmds[k]
    BY <1>11 DEF vars, coreVars
  <2>2. UNCHANGED recordVars /\ dispatching' = dispatching /\ count' = count
    BY <1>11 DEF vars, masterVars, recordVars
  <2>3. \A k \in Nodes : /\ SettledNode(k) => SettledNode(k)'
                         /\ PendingNode(k) => PendingNode(k)'
                         /\ RecoveringNode(k) => RecoveringNode(k)'
    BY <2>1, <2>2, Elsewhere DEF IInv
  <2>4. QED
    BY <2>1, <2>2, <2>3, NodeStep, InitAssumption DEF IInv, SettledInv, PendingInv, RecoveringInv
<1>12. Rest'
  BY <1>3, <1>4, <1>5, <1>6, <1>7, <1>8, <1>9, <1>10, <1>11 DEF Next
<1>13. QED
  BY <1>1, <1>2, <1>12 DEF IInv

\* The success of an initialization: the last confirmation.
LEMMA SuccessInstalled ==
  ASSUME IInv, [Next]_vars, pending # NoId, pending' = NoId, ~recovering', count["restarts"] = 0
  PROVE  \A n \in Nodes : installed'[n] = Part(plan, n)
<1>1. ~UNCHANGED pending /\ ~InitFails
  BY DEF InitFails
<1>2. PICK n \in Nodes : HandleEvent(n)
  BY <1>1 DEF Next, vars, masterVars, BeginInit, BeginInitRaises, Settled, LocalInit, InitExpires, Reset, ResetEnds,
              WorkerReceives, WorkerRestarts, WorkerReconnects
<1> DEFINE e == Head(evts[n])
<1>3. RecordReply(n, e) /\ e.kind \in {"installed", "failed"}
  BY <1>1, <1>2 DEF HandleEvent, RecordCleaned
<1>4. /\ e.id = pending /\ e.kind = "installed" /\ replies' = replies \cup {n} /\ expected \subseteq replies' /\ InitSucceeds
  BY <1>1, <1>3 DEF RecordReply
<1>5. \A k \in Nodes : k \in expected => Confirmed(k)
  BY <1>2, <1>3, <1>4, ConfirmedStep
<1>6. expected = Required(plan) /\ \A k \in Nodes : PendingNode(k)
  BY DEF IInv, PendingInv
<1>7. installed' = installed
  BY <1>2, HandleMoves DEF IInv
<1>8. ASSUME NEW k \in Nodes PROVE installed[k] = Part(plan, k)
  <2>1. CASE k \in expected
    <3>1. Confirmed(k) /\ ~(count["restarts"] > 0)
      BY <1>5, <2>1
    <3>2. QED
      BY <3>1 DEF Confirmed
  <2>2. CASE k \notin expected
    <3>1. Clean(k)
      BY <1>6, <2>2 DEF PendingNode
    <3>2. Part(plan, k) = {}
      BY <1>6, <2>2, RequiredAreNodes DEF IInv, TypeOK
    <3>3. QED
      BY <3>1, <3>2 DEF Clean
  <2>3. QED
    BY <2>1, <2>2
<1>9. QED
  BY <1>7, <1>8

\* The fields of MasterNode, of the Cores and of the queues keep their types.
THEOREM TypeCorrect == Spec => []TypeOK
<1>1. IInv => TypeOK
  BY DEF IInv
<1>2. QED
  BY <1>1, InitIInv, NextIInv, PTL DEF Spec

\* The ownership map is authoritative whenever the master accepts commands (MasterNode:
\* _begin_initialization, _record_initialization_reply, _record_initialization_recovery).
THEOREM OwnershipIsSound == Spec => []OwnershipSound
<1>1. IInv => OwnershipSound
  BY DEF IInv, SettledInv, SettledNode, OwnershipSound
<1>2. QED
  BY <1>1, InitIInv, NextIInv, PTL DEF Spec

\* No Core that failed half-way through init_core is left when the master accepts commands.
THEOREM NoCoreIsBroken == Spec => []NoBrokenCore
<1>1. IInv => NoBrokenCore
  BY DEF IInv, SettledInv, SettledNode, NoBrokenCore
<1>2. QED
  BY <1>1, InitIInv, NextIInv, PTL DEF Spec

\* A success that _finish_initialization reports is installed on every node, unless a
\* worker process died.
THEOREM ConfirmedIsInstalled == Spec => ConfirmedMeansInstalled
<1>1. IInv /\ [Next]_vars =>
        [(pending # NoId /\ pending' = NoId /\ ~recovering' /\ count["restarts"] = 0) =>
           \A n \in Nodes : installed'[n] = Part(plan, n)]_vars
  BY SuccessInstalled
<1>2. QED
  BY <1>1, InitIInv, NextIInv, PTL DEF Spec, ConfirmedMeansInstalled
=============================================================================

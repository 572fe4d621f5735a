--------------------------- MODULE CoreStreamProofs ---------------------------
(***************************************************************************)
(* The acquisition of one Core for any number of subjects, STARTs, STOPs   *)
(* and faults: the types, that every START comes to a decision, and, where *)
(* the commit does not run beside a STOP, that a sample is persisted only  *)
(* for a subject that became stable, never into an archived session and    *)
(* never after the subject was reported drained.                           *)
(***************************************************************************)
EXTENDS CoreStream, QueueLemmas, TLAPS

-----------------------------------------------------------------------------
(* The inductive invariants. *)

Commands == [op : {"start", "stop"}, subjects : SUBSET Subjects, stop : Nat]
CommandThreads == [at : {"idle", "start", "lock", "stop", "ack"}, subjects : SUBSET Subjects,
                   other : BOOLEAN, done : BOOLEAN]

\* A gate thread is a record.
Gate(g) == g = [n |-> g.n, token |-> g.token, at |-> g.at]

\* The types, with those of the queue, of the threads and of the histories; a warm-up has a
\* token, and the session is the last START's.
TypesOK ==
  /\ TypeOK
  /\ cmd \in CommandThreads /\ queue \in Seq(Commands) /\ manager \in Seq(Commands)
  /\ cmd.at = "start" => cmd.subjects # {}
  /\ count \in [Counters -> Nat] /\ count["starts"] <= MaxStarts
  /\ members # {} => token > 0
  /\ mode = "coordinated" => role # "standalone"
  /\ calm \in BOOLEAN
  /\ \A g \in gates : Gate(g)
  /\ session = IF cmd.at = "start" THEN count["starts"] - 1 ELSE count["starts"]

Starting == \E c \in InFlight(queue) : c.op = "start"
Stopping == \E c \in InFlight(queue) : c.op = "stop"

\* What brings the start to an end, in each phase.
Decides ==
  /\ phase = "starting" => cmd.at = "start" \/ (Starting /\ members # {})
  /\ phase = "warming_up" => \E g \in gates : g.token = token /\ g.at = "wait"
  /\ phase = "preparing_official" => \E g \in gates : g.token = token /\ g.at \in {"prepare", "announce"}
  /\ phase = "activating_official" => official # "idle"
  /\ phase = "stopping" => Stopping

DecidesInv == count["faults"] = 0 => Decides

\* The phases from which a recording may still be opened.
Forward == {"starting", "warming_up", "preparing_official", "ready_for_official", "activating_official"}

\* A START whose members may still be activated: _reset_startup_gate_state is done.
Underway == Starting \/ (phase \in Forward /\ cmd.at # "start")

\* The order in which START, STOP, sensor manager and official start meet.
OrderOK ==
  /\ \A i \in DOMAIN queue : queue[i].op = "start" => i = 1
  /\ cmd.at = "start" => phase = "starting" /\ official = "idle" /\ manager = Loop /\ queue = <<>>
  /\ Starting => /\ phase \in {"starting", "stopping"} /\ official = "idle" /\ manager = Loop
                 /\ phase = "stopping" => cmd.at = "stop"
  /\ cmd.at = "ack" \/ (cmd.at = "stop" /\ cmd.done) \/ manager # Loop => ~Underway
  /\ phase \in Forward /\ Stopping => cmd.at = "stop"
  /\ official # "idle" => phase = "activating_official" /\ cmd = Idle
  /\ cmd.at = "lock" => ~cmd.done

\* The files of a start that is under way are those of its session, which nobody has archived,
\* and none of its members has been reported drained.
UnderwayOK ==
  Underway => /\ \A s \in prepared \cap members : files[s] = session
              /\ session \notin archives
              /\ members \cap drained = {}

\* A streaming subject was stable for the session of its files, which is not archived, and is not
\* reported drained.
StreamingOK ==
  \A s \in streaming : <<files[s], s>> \in stable /\ files[s] \notin archives /\ s \notin drained

\* What holds of every history: nothing that streams is prepared again, the members of a start
\* past its gate are stable, and archived sessions are past or present ones.
HistoryOK ==
  /\ members \cap streaming \subseteq prepared
  /\ phase \in {"preparing_official", "ready_for_official", "activating_official"} =>
       \A s \in members : <<session, s>> \in stable
  /\ archives \subseteq 0..session

CalmOK == OrderOK /\ UnderwayOK /\ StreamingOK /\ (cmd.at = "ack" => cmd.subjects \cap streaming = {})

RecordInv == HistoryOK /\ (calm => CalmOK)


-----------------------------------------------------------------------------
(* Queues and threads *)

\* A command queued for the sensor manager.
LEMMA Enqueued ==
  ASSUME queue \in Seq(Commands), NEW op \in {"start", "stop"}, NEW S \in SUBSET Subjects, NEW stop \in Nat,
         Enqueue(op, S, stop)
  PROVE  /\ queue' \in Seq(Commands)
         /\ InFlight(queue) \subseteq InFlight(queue')
         /\ \A c \in InFlight(queue') : c \in InFlight(queue) \/ c.op = op
         /\ \E c \in InFlight(queue') : c.op = op
         /\ DOMAIN queue' = 1..(Len(queue) + 1)
         /\ \A i \in DOMAIN queue' : \/ i \in DOMAIN queue /\ queue'[i] = queue[i]
                                     \/ i = Len(queue) + 1 /\ queue'[i].op = op
<1> DEFINE c == [op |-> op, subjects |-> S, stop |-> stop]
<1>1. c \in Commands
  BY DEF Commands
<1>2. queue' = Append(queue, c)
  BY DEF Enqueue
<1>3. queue' \in Seq(Commands) /\ InFlight(queue') = InFlight(queue) \cup {c}
  BY <1>1, <1>2, AppendInFlight
<1>4. DOMAIN queue = 1..Len(queue) /\ Len(queue) \in Nat
  OBVIOUS
<1>5. DOMAIN queue' = 1..(Len(queue) + 1)
  BY <1>2, <1>1
<1>6. \A i \in 1..(Len(queue) + 1) : queue'[i] = IF i = Len(queue) + 1 THEN c ELSE queue[i]
  BY <1>1, <1>2, <1>4
<1>7. c.op = op
  OBVIOUS
<1> HIDE DEF c
<1>8. \A i \in DOMAIN queue' : \/ i \in DOMAIN queue /\ queue'[i] = queue[i]
                               \/ i = Len(queue) + 1 /\ queue'[i].op = op
  BY <1>4, <1>5, <1>6, <1>7
<1>9. QED
  BY <1>3, <1>5, <1>7, <1>8

\* A command taken by the sensor manager.
LEMMA Taken ==
  ASSUME queue \in Seq(Commands), NEW op, Takes(op)
  PROVE  /\ manager = Loop /\ Head(queue) \in Commands /\ Head(queue).op = op
         /\ Head(queue) \in InFlight(queue)
         /\ queue' \in Seq(Commands)
         /\ InFlight(queue) = InFlight(queue') \cup {Head(queue)}
         /\ \A i \in DOMAIN queue' : i + 1 \in DOMAIN queue /\ queue'[i] = queue[i + 1] /\ i + 1 # 1
<1>1. queue # <<>> /\ queue' = Tail(queue) /\ manager = Loop /\ Head(queue).op = op
  BY DEF Takes
<1>2. \A i \in DOMAIN queue' : i + 1 \in DOMAIN queue /\ queue'[i] = queue[i + 1] /\ i + 1 # 1
  BY <1>1
<1>3. QED
  BY <1>1, <1>2, TailInFlight, HeadInFlight

\* The completion of a sensor command only ends the wait of the STOP.
LEMMA Completed ==
  ASSUME cmd \in CommandThreads, NEW c, Completes(c)
  PROVE  /\ cmd' \in CommandThreads /\ cmd'.at = cmd.at /\ cmd'.subjects = cmd.subjects
         /\ cmd' # cmd => cmd.at = "stop"
         /\ cmd = Idle => cmd' = Idle
<1> DEFINE mine == cmd.at = "stop" /\ c.stop = count["stops"]
<1> DEFINE ends == cmd.done \/ mine
<1>1. cmd' = [cmd EXCEPT !.done = ends]
  BY DEF Completes
<1>2. cmd.done \in BOOLEAN /\ ends \in BOOLEAN /\ (~mine => ends = cmd.done)
  BY Zenon DEF CommandThreads
<1>3. mine => cmd.at = "stop"
  OBVIOUS
<1> HIDE DEF mine, ends
<1>4. cmd' \in CommandThreads /\ cmd'.at = cmd.at /\ cmd'.subjects = cmd.subjects
  BY <1>1, <1>2 DEF CommandThreads
<1>5. ~mine => cmd' = cmd
  BY <1>1, <1>2 DEF CommandThreads
<1>6. QED
  BY <1>3, <1>4, <1>5 DEF Idle

\* The counters: one more, and the others as before.
LEMMA Counted ==
  ASSUME count \in [Counters -> Nat], NEW c \in Counters, Count(c)
  PROVE  /\ count' \in [Counters -> Nat] /\ count'[c] = count[c] + 1
         /\ \A d \in Counters \ {c} : count'[d] = count[d]
  BY DEF Count

\* A fault is counted and leaves the other counters.
LEMMA Faulted ==
  ASSUME count \in [Counters -> Nat], Fault
  PROVE  /\ count' \in [Counters -> Nat] /\ count'["faults"] # 0
         /\ count'["starts"] = count["starts"] /\ count'["stops"] = count["stops"]
<1>1. Count("faults") /\ "faults" \in Counters /\ "starts" \in Counters /\ "stops" \in Counters
  BY DEF Fault, Counters
<1>2. QED
  BY <1>1, Counted

\* The idle command thread.
LEMMA IdleIs ==
  Idle \in CommandThreads /\ Idle.at = "idle" /\ Idle.subjects = {}
BY DEF Idle, CommandThreads


-----------------------------------------------------------------------------
(* Types *)

\* The types at the start.
LEMMA InitTypes == Init => TypesOK
<1> SUFFICES ASSUME Init PROVE TypesOK
  OBVIOUS
<1>1. <<>> \in Seq(Commands)
  BY EmptyInFlight
<1>2. Len(manager) <= 1 /\ queue \in Seq(Commands) /\ manager \in Seq(Commands)
  BY <1>1 DEF Init, Loop
<1>3. /\ {0, MaxStarts} \subseteq Nat /\ 0 \in Ids
      /\ count \in [Counters -> Nat] /\ count["starts"] = 0
  BY CoreAssumption DEF Init, Counters, Ids
<1>4. TypeOK
  BY <1>2, <1>3, IdleIs DEF Init, TypeOK, Phases, NoId
<1>5. QED
  BY <1>2, <1>3, <1>4, IdleIs DEF Init, TypesOK, NoId

\* Every step keeps the types.
LEMMA TypesStep == ASSUME TypesOK, [Next]_vars PROVE TypesOK'
<1> USE CoreAssumption, IdleIs
<1>t. /\ TypeOK /\ cmd \in CommandThreads /\ queue \in Seq(Commands) /\ manager \in Seq(Commands)
      /\ cmd.at \in {"idle", "start", "lock", "stop", "ack"} /\ cmd.subjects \in SUBSET Subjects
      /\ count \in [Counters -> Nat] /\ {count["starts"], count["stops"], count["faults"]} \subseteq Nat
      /\ members \in SUBSET Subjects /\ NoId \in Nat /\ NoId \in Ids
      /\ <<>> \in Seq(Commands)
      /\ \A g \in gates : g.token \in 1..token /\ g.at \in {"wait", "prepare", "announce"} /\ Gate(g)
  BY EmptyInFlight DEF TypesOK, TypeOK, CommandThreads, Counters, NoId, Ids
<1>1. ASSUME NEW S \in (SUBSET Subjects) \ {{}}, StartBegins(S) PROVE TypesOK'
  <2>1. Count("starts") /\ "starts" \in Counters
    BY <1>1 DEF StartBegins, Counters
  <2>2. count' \in [Counters -> Nat] /\ count'["starts"] = count["starts"] + 1
    BY <1>t, <2>1, Counted
  <2>3. cmd' \in CommandThreads /\ cmd'.at = "start" /\ cmd'.subjects = S /\ cmd = Idle
    BY <1>1 DEF StartBegins, Free, Idle, CommandThreads
  <2>4. role = "worker" => official = "idle"
    BY <1>1 DEF StartBegins, Free
  <2>5. calm' \in BOOLEAN
    BY <1>1, Zenon DEF StartBegins
  <2>6. phase' = "starting" /\ count["starts"] < MaxStarts
    BY <1>1 DEF StartBegins
  <2>7. UNCHANGED <<role, token, mode, sid, commit, outputs, members, fileVars, official, gates, managerVars, drained, wanted>>
    BY <1>1 DEF StartBegins
  <2>8. TypeOK'
    BY <1>t, <2>3, <2>4, <2>6, <2>7 DEF TypeOK, Phases, managerVars, fileVars
  <2>9. session = count["starts"] /\ count'["starts"] <= MaxStarts
    BY <1>t, <2>2, <2>3, <2>6 DEF TypesOK
  <2>10. QED
    BY <1>t, <2>2, <2>3, <2>5, <2>7, <2>8, <2>9 DEF TypesOK, managerVars, fileVars
<1>2. ASSUME NEW S \in (SUBSET Subjects) \ {{}}, StopBegins(S) PROVE TypesOK'
  <2>1. Count("stops") /\ "stops" \in Counters /\ "starts" \in Counters
    BY <1>2 DEF StopBegins, Counters
  <2>2. count' \in [Counters -> Nat] /\ count'["starts"] = count["starts"]
    BY <1>t, <2>1, Counted
  <2>3. cmd' \in CommandThreads /\ cmd'.at = "lock" /\ cmd'.subjects = S /\ cmd = Idle
    BY <1>2 DEF StopBegins, Free, Idle, CommandThreads
  <2>4. role = "worker" => official = "idle"
    BY <1>2 DEF StopBegins, Free
  <2>5. QED
    BY <1>t, <1>2, <2>2, <2>3, <2>4 DEF StopBegins, TypesOK, TypeOK, managerVars, fileVars, lockVars, historyVars
<1>3. ASSUME NEW id \in StartIds, OfficialChecks(id) PROVE TypesOK'
  BY <1>t, <1>3 DEF OfficialChecks, TypesOK, TypeOK, Phases, managerVars, fileVars, historyVars
<1>4. CASE StartEnds
  <2>1. queue' \in Seq(Commands)
    BY <1>t, <1>4, Enqueued DEF StartEnds
  <2>2. cmd.at = "start" /\ cmd' = Idle /\ cmd.subjects # {}
    BY <1>4 DEF StartEnds, TypesOK
  <2>3. count["starts"] \in Ids /\ count' = count
    BY <1>t, <1>4 DEF StartEnds, TypesOK, Ids
  <2>4. token' = token + 1 /\ token \in Nat
    BY <1>t, <1>4 DEF StartEnds, TypeOK
  <2>5. \A g \in gates : g.token \in 1..token'
    BY <1>t, <2>4
  <2>6. /\ sid' \in Ids /\ mode' \in {"local", "coordinated"}
        /\ mode' = "coordinated" => role # "standalone"
        /\ session' = count["starts"] /\ archived' = NoId /\ members' = cmd.subjects
        /\ prepared' = {} /\ streaming' \subseteq streaming /\ drained' \subseteq drained
    BY <1>t, <1>4, <2>3 DEF StartEnds
  <2>7. streaming \subseteq Subjects /\ wanted \subseteq Subjects
    BY <1>t DEF TypeOK
  <2>8. wanted' \subseteq Subjects
    BY <1>t, <1>4, <2>7 DEF StartEnds
  <2>9. commit' \in BOOLEAN /\ outputs' \in BOOLEAN
    BY <1>4, Zenon DEF StartEnds
  <2>10. phase' = "starting" /\ UNCHANGED <<role, files, official, gates, manager, measuring>>
    BY <1>4 DEF StartEnds
  <2>11. TypeOK'
    BY <1>t, <2>2, <2>3, <2>4, <2>5, <2>6, <2>7, <2>8, <2>9, <2>10 DEF TypeOK, Phases
  <2>12. QED
    BY <1>t, <1>4, <2>1, <2>2, <2>3, <2>4, <2>6, <2>11 DEF StartEnds, TypesOK
<1>5. CASE SensorsStart
  <2>1. queue' \in Seq(Commands) /\ Head(queue) \in Commands
    BY <1>t, <1>5, Taken DEF SensorsStart
  <2>2. measuring' \subseteq Subjects
    BY <1>t, <1>5, <2>1 DEF SensorsStart, Commands, TypeOK
  <2>3. \A g \in gates' : g.token \in 1..token /\ g.at \in {"wait", "prepare", "announce"} /\ Gate(g)
    <3>1. CASE members = {}
      BY <1>t, <1>5, <3>1 DEF SensorsStart
    <3>2. CASE members # {}
      <4>1. PICK n : gates' = gates \cup {[n |-> n, token |-> token, at |-> "wait"]}
        BY <1>5, <3>2 DEF SensorsStart
      <4>2. Gate([n |-> n, token |-> token, at |-> "wait"]) /\ token \in 1..token
        BY <1>t, <3>2 DEF TypesOK, TypeOK, Gate
      <4>3. QED
        BY <1>t, <4>1, <4>2
    <3>3. QED
      BY <3>1, <3>2
  <2>4. phase' \in Phases
    BY <1>t, <1>5 DEF SensorsStart, TypeOK, Phases
  <2>5. QED
    BY <1>t, <1>5, <2>1, <2>2, <2>3, <2>4 DEF SensorsStart, TypesOK, TypeOK, fileVars, historyVars
<1>6. CASE SensorsStartFails
  <2>1. queue' \in Seq(Commands) /\ Head(queue) \in Commands
    BY <1>t, <1>6, Taken DEF SensorsStartFails
  <2>2. measuring' \subseteq Subjects
    BY <1>t, <1>6, <2>1 DEF SensorsStartFails, Commands, TypeOK
  <2>3. count' \in [Counters -> Nat] /\ count'["starts"] = count["starts"]
    BY <1>t, <1>6, Faulted DEF SensorsStartFails
  <2>4. QED
    BY <1>t, <1>6, <2>1, <2>2, <2>3 DEF SensorsStartFails, TypesOK, TypeOK, lockVars, threadVars, fileVars, historyVars
<1>7. CASE SensorsStop
  <2>1. queue' \in Seq(Commands) /\ Head(queue) \in Commands
    BY <1>t, <1>7, Taken DEF SensorsStop
  <2>2. measuring' \subseteq Subjects
    BY <1>t, <1>7 DEF SensorsStop, TypeOK
  <2>3. count' \in [Counters -> Nat] /\ count'["starts"] = count["starts"]
    BY <1>t, <1>7, Faulted DEF SensorsStop
  <2>4. manager' \in Seq(Commands) /\ Len(manager') <= 1
    <3>2. manager' = manager \/ manager' = <<Head(queue)>>
      BY <1>7 DEF SensorsStop
    <3>3. manager \in Seq(Commands) /\ Len(manager) <= 1
      BY <1>t DEF TypeOK
    <3> DEFINE h == Head(queue)
    <3>4. h \in Commands /\ (manager' = manager \/ manager' = <<h>>)
      BY <2>1, <3>2
    <3> HIDE DEF h
    <3>5. CASE manager' = manager
      BY <3>3, <3>5
    <3>6. CASE manager' = <<h>>
      BY <3>4, <3>6
    <3>7. QED
      BY <3>4, <3>5, <3>6
  <2>5. cmd' \in CommandThreads /\ cmd'.at = cmd.at /\ cmd'.subjects = cmd.subjects /\ (cmd = Idle => cmd' = Idle)
    BY <1>t, <1>7, Completed DEF SensorsStop
  <2>6. phase' \in Phases
    BY <1>t, <1>7 DEF SensorsStop, TypeOK, Phases
  <2>7. QED
    BY <1>t, <1>7, <2>1, <2>2, <2>3, <2>4, <2>5, <2>6 DEF SensorsStop, TypesOK, TypeOK, fileVars, historyVars
<1>8. CASE SensorsCleanUp
  <2>1. cmd' \in CommandThreads /\ cmd'.at = cmd.at /\ cmd'.subjects = cmd.subjects /\ (cmd = Idle => cmd' = Idle)
    BY <1>t, <1>8, Completed DEF SensorsCleanUp
  <2>2. files' \in [Subjects -> Ids]
    BY <1>t, <1>8 DEF SensorsCleanUp, TypeOK
  <2>3. archived' \in Ids
    BY <1>t, <1>8 DEF SensorsCleanUp, TypeOK, Archive
  <2>4. manager' \in Seq(Commands) /\ Len(manager') <= 1
    BY <1>t, <1>8 DEF SensorsCleanUp, Loop
  <2>5. QED
    BY <1>t, <1>8, <2>1, <2>2, <2>3, <2>4 DEF SensorsCleanUp, TypesOK, TypeOK, lockVars
<1>9. CASE SensorsStopSkipped
  <2>1. queue' \in Seq(Commands)
    BY <1>t, <1>9, Taken DEF SensorsStopSkipped
  <2>2. count' \in [Counters -> Nat] /\ count'["starts"] = count["starts"]
    BY <1>t, <1>9, Faulted DEF SensorsStopSkipped
  <2>3. cmd' \in CommandThreads /\ cmd'.at = cmd.at /\ cmd'.subjects = cmd.subjects /\ (cmd = Idle => cmd' = Idle)
    BY <1>t, <1>9, Completed DEF SensorsStopSkipped
  <2>4. QED
    BY <1>t, <1>9, <2>1, <2>2, <2>3 DEF SensorsStopSkipped, TypesOK, TypeOK, lockVars, fileVars
<1>10. ASSUME NEW g \in gates, GateStable(g) PROVE TypesOK'
  <2>1. files' \in [Subjects -> Ids]
    BY <1>t, <1>10 DEF GateStable, Prepare, TypeOK
  <2>2. \A h \in gates' : h.token \in 1..token /\ h.at \in {"wait", "prepare", "announce"} /\ Gate(h)
    <3>1. [g EXCEPT !.at = "prepare"] = [n |-> g.n, token |-> g.token, at |-> "prepare"]
      BY <1>t DEF Gate
    <3>2. Gate([n |-> g.n, token |-> g.token, at |-> "prepare"])
      BY DEF Gate
    <3>3. gates' \subseteq gates \cup {[g EXCEPT !.at = "prepare"]}
      BY <1>10 DEF GateStable
    <3>4. QED
      BY <1>t, <3>1, <3>2, <3>3
  <2>3. prepared' \subseteq Subjects /\ streaming' \subseteq Subjects /\ phase' \in Phases /\ outputs' \in BOOLEAN
    BY <1>t, <1>10 DEF GateStable, Prepare, TypeOK, Phases
  <2>4. QED
    BY <1>t, <1>10, <2>1, <2>2, <2>3 DEF GateStable, TypesOK, TypeOK, managerVars
<1>11. ASSUME NEW g \in gates, GateTimesOut(g) PROVE TypesOK'
  <2>1. queue' \in Seq(Commands)
    BY <1>t, <1>11, Enqueued DEF GateTimesOut
  <2>2. QED
    BY <1>t, <1>11, <2>1 DEF GateTimesOut, TypesOK, TypeOK, Phases, fileVars, historyVars
<1>12. ASSUME NEW g \in gates, GateReturns(g) PROVE TypesOK'
  BY <1>t, <1>12 DEF GateReturns, TypesOK, TypeOK, lockVars, fileVars, managerVars, historyVars
<1>13. ASSUME NEW g \in gates, GatePrepares(g) PROVE TypesOK'
  <2>1. files' \in [Subjects -> Ids]
    BY <1>t, <1>13 DEF GatePrepares, Prepare, TypeOK
  <2>2. \A h \in gates' : h.token \in 1..token /\ h.at \in {"wait", "prepare", "announce"} /\ Gate(h)
    <3>1. [g EXCEPT !.at = "announce"] = [n |-> g.n, token |-> g.token, at |-> "announce"]
      BY <1>t DEF Gate
    <3>2. Gate([n |-> g.n, token |-> g.token, at |-> "announce"])
      BY DEF Gate
    <3>3. gates' \subseteq gates \cup {[g EXCEPT !.at = "announce"]}
      BY <1>13 DEF GatePrepares
    <3>4. QED
      BY <1>t, <3>1, <3>2, <3>3
  <2>3. prepared' \subseteq Subjects
    BY <1>t, <1>13 DEF GatePrepares, Prepare, TypeOK
  <2>4. QED
    BY <1>t, <1>13, <2>1, <2>2, <2>3 DEF GatePrepares, TypesOK, TypeOK, lockVars, managerVars, historyVars
<1>14. ASSUME NEW g \in gates, GatePrepareFails(g) PROVE TypesOK'
  <2>1. queue' \in Seq(Commands)
    BY <1>t, <1>14, Enqueued DEF GatePrepareFails
  <2>2. count' \in [Counters -> Nat] /\ count'["starts"] = count["starts"]
    BY <1>t, <1>14, Faulted DEF GatePrepareFails
  <2>3. phase' \in Phases
    BY <1>t, <1>14 DEF GatePrepareFails, TypeOK, Phases
  <2>4. QED
    BY <1>t, <1>14, <2>1, <2>2, <2>3 DEF GatePrepareFails, TypesOK, TypeOK, fileVars, historyVars
<1>15. ASSUME NEW g \in gates, GateAnnounces(g) PROVE TypesOK'
  <2>1. phase' \in Phases /\ gates' = gates \ {g}
    BY <1>t, <1>15 DEF GateAnnounces, TypeOK, Phases
  <2>2. QED
    BY <1>t, <1>15, <2>1 DEF GateAnnounces, TypesOK, TypeOK, fileVars, managerVars
<1>16. CASE OfficialActivates
  <2>1. files' \in [Subjects -> Ids] /\ prepared' \subseteq Subjects /\ streaming' \subseteq Subjects
    BY <1>t, <1>16 DEF OfficialActivates, Prepare, TypeOK
  <2>2. QED
    BY <1>t, <1>16, <2>1 DEF OfficialActivates, TypesOK, TypeOK, lockVars, managerVars, historyVars
<1>17. CASE OfficialFails
  <2>1. count' \in [Counters -> Nat] /\ count'["starts"] = count["starts"]
    BY <1>t, <1>17, Faulted DEF OfficialFails
  <2>2. QED
    BY <1>t, <1>17, <2>1 DEF OfficialFails, TypesOK, TypeOK, Phases, fileVars, managerVars
<1>18. CASE OfficialFinishes
  BY <1>t, <1>18 DEF OfficialFinishes, TypesOK, TypeOK, Phases, fileVars, managerVars, historyVars
<1>19. CASE StopLocks
  <2>1. queue' \in Seq(Commands)
    BY <1>t, <1>19, Enqueued DEF StopLocks
  <2>2. cmd' \in CommandThreads /\ cmd'.at = "stop" /\ cmd'.subjects = cmd.subjects /\ cmd # Idle /\ cmd.at = "lock"
    BY <1>t, <1>19 DEF StopLocks, CommandThreads, Idle
  <2>3. phase' \in Phases /\ token' \in Nat /\ token' >= token
    BY <1>t, <1>19 DEF StopLocks, TypeOK, Phases
  <2>4. \A g \in gates : g.token \in 1..token'
    BY <1>t, <2>3 DEF TypeOK
  <2>5. QED
    BY <1>t, <1>19, <2>1, <2>2, <2>3, <2>4 DEF StopLocks, TypesOK, TypeOK, fileVars
<1>20. CASE StopTimesOut
  <2>1. count' \in [Counters -> Nat] /\ count'["starts"] = count["starts"]
    BY <1>t, <1>20, Faulted DEF StopTimesOut
  <2>2. cmd' \in CommandThreads /\ cmd'.at = "stop" /\ cmd'.subjects = cmd.subjects /\ cmd # Idle
    BY <1>t, <1>20 DEF StopTimesOut, CommandThreads, Idle
  <2>3. QED
    BY <1>t, <1>20, <2>1, <2>2 DEF StopTimesOut, TypesOK, TypeOK, lockVars, fileVars, managerVars
<1>21. CASE StopCloses
  <2>1. cmd' \in CommandThreads /\ cmd'.at = "ack" /\ cmd'.subjects = cmd.subjects /\ cmd # Idle
    BY <1>t, <1>21 DEF StopCloses, CommandThreads, Idle
  <2>2. files' \in [Subjects -> Ids] /\ archived' \in Ids /\ streaming' \subseteq Subjects
    BY <1>t, <1>21 DEF StopCloses, TypeOK, Archive
  <2>3. QED
    BY <1>t, <1>21, <2>1, <2>2 DEF StopCloses, TypesOK, TypeOK, lockVars, managerVars
<1>22. CASE StopAcknowledges \/ StopFails
  <2>1. count' \in [Counters -> Nat] /\ count'["starts"] = count["starts"]
    BY <1>t, <1>22, Faulted DEF StopAcknowledges, StopFails
  <2>2. /\ phase' \in Phases /\ token' \in Nat /\ token' >= token /\ members' \subseteq Subjects
        /\ prepared' \subseteq Subjects /\ mode' \in {"local", "coordinated"} /\ sid' \in Ids
        /\ commit' \in BOOLEAN /\ outputs' \in BOOLEAN
        /\ mode' = "coordinated" => mode = "coordinated"
        /\ members' # {} => members # {}
    <3>1. CASE streaming = {}
      <4>1. ClearGateState
        BY <1>22, <3>1 DEF StopAcknowledges, StopFails
      <4>2. token \in Nat
        BY <1>t DEF TypeOK
      <4>3. commit' \in BOOLEAN /\ outputs' \in BOOLEAN
        BY <4>1, Zenon DEF ClearGateState
      <4>4. token' = token + 1 /\ phase' = "idle" /\ members' = {} /\ mode' = "local" /\ sid' = NoId /\ prepared' = {}
        BY <4>1 DEF ClearGateState
      <4>5. QED
        BY <1>t, <4>2, <4>3, <4>4 DEF Phases
    <3>2. CASE streaming # {}
      BY <1>t, <1>22, <3>2 DEF StopAcknowledges, StopFails, lockVars, TypeOK
    <3>3. QED
      BY <3>1, <3>2
  <2>3. \A g \in gates : g.token \in 1..token'
    BY <1>t, <2>2 DEF TypeOK
  <2>4. cmd' = Idle /\ cmd.at \in {"ack", "stop"} /\ drained' \subseteq Subjects /\ calm' = calm
    BY <1>t, <1>22 DEF StopAcknowledges, StopFails, historyVars, TypeOK
  <2>5. UNCHANGED <<role, session, streaming, files, archived, official, gates, managerVars, wanted>>
    BY <1>22 DEF StopAcknowledges, StopFails, historyVars
  <2>6. TypeOK'
    BY <1>t, <2>2, <2>3, <2>4, <2>5 DEF TypeOK, managerVars
  <2>7. members' # {} => token' > 0
    BY <1>t, <2>2 DEF TypesOK, TypeOK
  <2>8. session' = count'["starts"] /\ cmd'.at # "start"
    BY <2>1, <2>4, <2>5 DEF TypesOK
  <2>9. QED
    BY <1>t, <2>1, <2>2, <2>4, <2>5, <2>6, <2>7, <2>8 DEF TypesOK, managerVars
<1>23. CASE UNCHANGED vars
  BY <1>t, <1>23 DEF vars, lockVars, fileVars, threadVars, managerVars, historyVars, TypesOK, TypeOK
<1>24. QED
  BY <1>1, <1>2, <1>3, <1>4, <1>5, <1>6, <1>7, <1>8, <1>9, <1>10, <1>11, <1>12, <1>13, <1>14, <1>15, <1>16, <1>17, <1>18, <1>19, <1>20, <1>21, <1>22, <1>23
  DEF Next, CommandNext, ManagerNext, GateNext, OfficialNext


-----------------------------------------------------------------------------
(* A START comes to a decision. *)

\* Nothing is under way at the start.
LEMMA InitDecides == Init => DecidesInv
BY DEF Init, DecidesInv, Decides

\* While no fault has happened, no step leaves a start without a thread that decides it.
LEMMA DecidesStep == ASSUME TypesOK, DecidesInv, [Next]_vars PROVE DecidesInv'
<1> SUFFICES ASSUME count'["faults"] = 0 PROVE Decides'
  BY DEF DecidesInv
<1>t. /\ cmd \in CommandThreads /\ queue \in Seq(Commands) /\ count \in [Counters -> Nat]
      /\ cmd.subjects \in SUBSET Subjects /\ members \in SUBSET Subjects /\ NoId \in Nat
      /\ count["stops"] \in Nat
      /\ \A g \in gates : Gate(g)
  BY DEF TypesOK, TypeOK, CommandThreads, NoId, Counters
<1>f. ~Fault
  BY <1>t, Faulted
<1>0. count["faults"] = 0
  <2>1. CASE count' = count
    BY <2>1
  <2>2. CASE Count("starts") \/ Count("stops")
    <3>1. "starts" \in Counters /\ "stops" \in Counters /\ "faults" \in Counters \ {"starts", "stops"}
      BY DEF Counters
    <3>2. QED
      BY <1>t, <2>2, <3>1, Counted
  <2>3. QED
    BY <1>f, <2>1, <2>2
    DEF Next, CommandNext, ManagerNext, GateNext, OfficialNext, vars, StartBegins, StopBegins, OfficialChecks, StartEnds,
        SensorsStart, SensorsStop, SensorsCleanUp, GateStable, GateTimesOut, GateReturns, GatePrepares, GateAnnounces,
        OfficialActivates, OfficialFinishes, StopLocks, StopCloses, StopAcknowledges, SensorsStartFails,
        SensorsStopSkipped, StopTimesOut, StopFails, OfficialFails, GatePrepareFails, historyVars
<1>d. Decides
  BY <1>0 DEF DecidesInv
<1>1. ASSUME NEW S, StartBegins(S) PROVE Decides'
  BY <1>1 DEF StartBegins, Decides, Idle
<1>2. ASSUME NEW S, StopBegins(S) PROVE Decides'
  BY <1>2, <1>d, IdleIs DEF StopBegins, Free, Decides, lockVars, managerVars, Starting, Stopping
<1>3. ASSUME NEW id, OfficialChecks(id) PROVE Decides'
  BY <1>3 DEF OfficialChecks, Decides
<1>4. CASE StartEnds
  <2>1. Starting'
    BY <1>t, <1>4, Enqueued DEF StartEnds, Starting
  <2>2. members' # {} /\ phase' = "starting"
    BY <1>4 DEF StartEnds, TypesOK
  <2>3. QED
    BY <2>1, <2>2 DEF Decides
<1>5. CASE SensorsStart
  <2>1. InFlight(queue) = InFlight(queue') \cup {Head(queue)} /\ Head(queue).op = "start"
    BY <1>t, <1>5, Taken DEF SensorsStart
  <2>2. Stopping => Stopping'
    BY <2>1 DEF Stopping
  <2>3. CASE members # {}
    <3>1. PICK n : gates' = gates \cup {[n |-> n, token |-> token, at |-> "wait"]}
      BY <1>5, <2>3 DEF SensorsStart
    <3>2. phase' = "warming_up" /\ token' = token
      BY <1>5, <2>3 DEF SensorsStart
    <3>3. [n |-> n, token |-> token, at |-> "wait"].token = token /\ [n |-> n, token |-> token, at |-> "wait"].at = "wait"
      OBVIOUS
    <3>4. QED
      BY <3>1, <3>2, <3>3 DEF Decides
  <2>4. CASE members = {}
    BY <1>5, <1>d, <2>2, <2>4 DEF SensorsStart, Decides
  <2>5. QED
    BY <2>3, <2>4
<1>6. CASE SensorsStop
  BY <1>6 DEF SensorsStop, Decides
<1>7. CASE SensorsCleanUp
  <2>1. cmd'.at = cmd.at
    BY <1>t, <1>7, Completed DEF SensorsCleanUp
  <2>2. QED
    BY <1>7, <1>d, <2>1 DEF SensorsCleanUp, lockVars, Decides, Starting, Stopping
<1>8. ASSUME NEW g \in gates, GateStable(g) PROVE Decides'
  <2>1. CASE mode = "coordinated"
    <3>1. [g EXCEPT !.at = "prepare"] = [n |-> g.n, token |-> g.token, at |-> "prepare"]
      BY <1>t DEF Gate
    <3>2. /\ [g EXCEPT !.at = "prepare"] \in gates' /\ phase' = "preparing_official"
          /\ g.token = token /\ token' = token
      BY <1>8, <2>1 DEF GateStable, Current
    <3>3. [g EXCEPT !.at = "prepare"].token = token /\ [g EXCEPT !.at = "prepare"].at = "prepare"
      BY <3>1, <3>2
    <3>4. QED
      BY <3>2, <3>3 DEF Decides
  <2>2. CASE mode # "coordinated"
    BY <1>8, <2>2 DEF GateStable, Decides
  <2>3. QED
    BY <2>1, <2>2
<1>9. ASSUME NEW g \in gates, GateTimesOut(g) PROVE Decides'
  BY <1>9 DEF GateTimesOut, Decides
<1>10. ASSUME NEW g \in gates, GateReturns(g) PROVE Decides'
  BY <1>10, <1>d DEF GateReturns, Current, Decides, lockVars, managerVars, Starting, Stopping
<1>11. ASSUME NEW g \in gates, GatePrepares(g) PROVE Decides'
  <2>1. [g EXCEPT !.at = "announce"] = [n |-> g.n, token |-> g.token, at |-> "announce"]
    BY <1>t DEF Gate
  <2>2. [g EXCEPT !.at = "announce"].token = g.token /\ [g EXCEPT !.at = "announce"].at = "announce"
    BY <2>1
  <2>3. /\ gates' = (gates \ {g}) \cup {[g EXCEPT !.at = "announce"]} /\ g.at = "prepare"
        /\ UNCHANGED <<phase, token, members, cmd, official, queue>>
    BY <1>11 DEF GatePrepares, lockVars, managerVars
  <2>4. QED
    BY <1>d, <2>2, <2>3 DEF Decides, Starting, Stopping
<1>12. ASSUME NEW g \in gates, GateAnnounces(g) PROVE Decides'
  BY <1>12, <1>d DEF GateAnnounces, Decides, managerVars, Starting, Stopping
<1>13. CASE OfficialActivates
  BY <1>13, <1>d DEF OfficialActivates, lockVars, managerVars, Decides, Starting, Stopping
<1>14. CASE OfficialFails \/ OfficialFinishes
  BY <1>14 DEF OfficialFails, OfficialFinishes, Decides
<1>15. CASE StopLocks
  <2>1. InFlight(queue) \subseteq InFlight(queue') /\ Stopping'
    BY <1>t, <1>15, Enqueued DEF StopLocks, Stopping
  <2>2. CASE cmd.other
    BY <1>15, <1>d, <2>1, <2>2 DEF StopLocks, Decides, Starting, Stopping
  <2>3. CASE ~cmd.other
    BY <1>15, <2>1, <2>3 DEF StopLocks, Decides
  <2>4. QED
    BY <2>2, <2>3
<1>16. CASE StopCloses
  BY <1>16, <1>d DEF StopCloses, lockVars, managerVars, Decides, Starting, Stopping
<1>17. CASE StopAcknowledges
  <2>1. CASE streaming = {}
    BY <1>17, <2>1 DEF StopAcknowledges, ClearGateState, Decides
  <2>2. CASE streaming # {}
    BY <1>17, <1>d, <2>2 DEF StopAcknowledges, lockVars, managerVars, Decides, Starting, Stopping
  <2>3. QED
    BY <2>1, <2>2
<1>18. CASE UNCHANGED vars
  BY <1>18, <1>d DEF vars, lockVars, threadVars, managerVars, Decides, Starting, Stopping
<1>19. QED
  BY <1>f, <1>1, <1>2, <1>3, <1>4, <1>5, <1>6, <1>7, <1>8, <1>9, <1>10, <1>11, <1>12, <1>13, <1>14, <1>15, <1>16, <1>17, <1>18
  DEF Next, CommandNext, ManagerNext, GateNext, OfficialNext, SensorsStartFails, SensorsStopSkipped, StopTimesOut,
      StopFails, GatePrepareFails

\* The fields of the Core, its threads and its queues keep their types, and the official start
\* never shares the thread of a worker with a command.
THEOREM TypeCorrect == Spec => []TypeOK
<1>1. TypesOK => TypeOK
  BY DEF TypesOK
<1>2. QED
  BY <1>1, InitTypes, TypesStep, PTL DEF Spec

\* A START comes to a decision for any number of subjects and commands, also when STOPs, other
\* STARTs and gate threads of earlier ones interleave with it: a Core at rest that met no fault
\* is idle, failed, ready for the commit or official (_evaluate_startup_gate).
THEOREM StartsAreDecided == Spec => []StartDecided
<1>1. TypesOK /\ DecidesInv => StartDecided
  <2>1. queue = <<>> => ~Starting /\ ~Stopping
    BY EmptyInFlight DEF Starting, Stopping
  <2>2. QED
    BY <2>1, IdleIs DEF TypesOK, TypeOK, Phases, DecidesInv, Decides, StartDecided
<1>2. TypesOK /\ DecidesInv /\ [Next]_vars => (TypesOK /\ DecidesInv)'
  BY TypesStep, DecidesStep
<1>3. QED
  BY <1>1, <1>2, InitTypes, InitDecides, PTL DEF Spec


-----------------------------------------------------------------------------
(* What is recorded. *)

Later == {"preparing_official", "ready_for_official", "activating_official"}

\* A step that starts, prepares, opens and archives nothing.
LEMMA HistoryFrame ==
  ASSUME HistoryOK, UNCHANGED <<members, session, archives>>, stable \subseteq stable',
         streaming' \subseteq streaming, prepared \subseteq prepared', phase' \in Later => phase \in Later
  PROVE  HistoryOK'
BY DEF HistoryOK, Later

\* The histories at the start.
LEMMA InitRecord == Init => RecordInv
<1> SUFFICES ASSUME Init PROVE RecordInv
  OBVIOUS
<1>1. InFlight(queue) = {} /\ DOMAIN queue = {}
  BY EmptyInFlight DEF Init
<1>2. HistoryOK
  BY DEF Init, HistoryOK
<1>3. ~Underway
  BY <1>1 DEF Init, Underway, Starting, Forward
<1>4. OrderOK
  BY <1>1, <1>3, IdleIs DEF Init, OrderOK, Starting, Stopping, Loop
<1>5. UnderwayOK /\ StreamingOK
  BY <1>3 DEF Init, UnderwayOK, StreamingOK
<1>6. QED
  BY <1>2, <1>4, <1>5, IdleIs DEF RecordInv, CalmOK, Init

\* The files that _prepare_official_persistence opens.
LEMMA Prepared ==
  ASSUME Prepare, NEW s \in Subjects
  PROVE  /\ prepared' = prepared \cup members
         /\ files'[s] = IF s \in members \ prepared THEN session ELSE files[s]
BY DEF Prepare

\* Archiving adds the session, if there is one.
LEMMA Archived ==
  ASSUME Archive
  PROVE  archives' \subseteq archives \cup {session}
BY DEF Archive

\* Every step keeps the histories: nothing that streams is prepared again, what is past its
\* gate is stable.
LEMMA HistoryStep == ASSUME TypesOK, HistoryOK, [Next]_vars PROVE HistoryOK'
<1>t. session \in Nat /\ archives \subseteq 0..session /\ count["starts"] \in Nat
  BY CoreAssumption DEF TypesOK, TypeOK, Ids, Counters, HistoryOK
<1>1. ASSUME NEW S, StartBegins(S) PROVE HistoryOK'
  BY <1>1, HistoryFrame DEF StartBegins, fileVars, Later
<1>2. ASSUME NEW S, StopBegins(S) PROVE HistoryOK'
  BY <1>2, HistoryFrame DEF StopBegins, lockVars, fileVars, historyVars
<1>3. ASSUME NEW id, OfficialChecks(id) PROVE HistoryOK'
  BY <1>3, HistoryFrame DEF OfficialChecks, fileVars, historyVars, Later
<1>4. CASE StartEnds
  <2>1. session' = session + 1
    BY <1>t, <1>4 DEF StartEnds, TypesOK
  <2>2. archives' \subseteq 0..session'
    BY <1>t, <1>4, <2>1 DEF StartEnds
  <2>3. members' \cap streaming' = {} /\ phase' = "starting"
    BY <1>4 DEF StartEnds
  <2>4. QED
    BY <2>2, <2>3 DEF HistoryOK
<1>5. CASE SensorsStart
  BY <1>5, HistoryFrame DEF SensorsStart, fileVars, historyVars, Later
<1>6. CASE SensorsStop
  BY <1>6, HistoryFrame DEF SensorsStop, fileVars, historyVars, Later
<1>7. CASE SensorsCleanUp
  <2>1. archives' \subseteq 0..session
    <3>1. Archive \/ archives' = archives
      BY <1>7 DEF SensorsCleanUp
    <3>2. Archive => archives' \subseteq archives \cup {session}
      BY Archived
    <3>3. session \in 0..session
      BY <1>t
    <3>4. QED
      BY <1>t, <3>1, <3>2, <3>3
  <2>2. UNCHANGED <<members, session, stable, prepared, phase>> /\ streaming' \subseteq streaming
    BY <1>7 DEF SensorsCleanUp, lockVars
  <2>3. QED
    BY <2>1, <2>2 DEF HistoryOK
<1>8. ASSUME NEW g \in gates, GateStable(g) PROVE HistoryOK'
  <2>1. /\ UNCHANGED <<members, session, archives>>
        /\ stable' = stable \cup {<<session, s>> : s \in members \cap measuring}
        /\ members \subseteq measuring
    BY <1>8 DEF GateStable, AllDeliver
  <2>2. members' \cap streaming' \subseteq prepared'
    <3>1. CASE mode = "coordinated"
      BY <1>8, <2>1, <3>1 DEF GateStable, HistoryOK
    <3>2. CASE mode # "coordinated"
      BY <1>8, <2>1, <3>2 DEF GateStable, Prepare
    <3>3. QED
      BY <3>1, <3>2
  <2>3. QED
    BY <1>t, <2>1, <2>2 DEF HistoryOK
<1>9. ASSUME NEW g \in gates, GateTimesOut(g) PROVE HistoryOK'
  BY <1>9, HistoryFrame DEF GateTimesOut, fileVars, historyVars, Later
<1>10. ASSUME NEW g \in gates, GateReturns(g) PROVE HistoryOK'
  BY <1>10, HistoryFrame DEF GateReturns, lockVars, fileVars, historyVars
<1>11. ASSUME NEW g \in gates, GatePrepares(g) PROVE HistoryOK'
  BY <1>11, HistoryFrame DEF GatePrepares, Prepare, lockVars, historyVars
<1>12. ASSUME NEW g \in gates, GatePrepareFails(g) PROVE HistoryOK'
  BY <1>12, HistoryFrame DEF GatePrepareFails, fileVars, historyVars, Later
<1>13. ASSUME NEW g \in gates, GateAnnounces(g) PROVE HistoryOK'
  BY <1>13, HistoryFrame DEF GateAnnounces, fileVars, Later
<1>14. CASE OfficialActivates
  BY <1>14, <1>t DEF OfficialActivates, Prepare, lockVars, historyVars, HistoryOK
<1>15. CASE OfficialFails
  BY <1>15, HistoryFrame DEF OfficialFails, fileVars, Later
<1>16. CASE OfficialFinishes
  BY <1>16, HistoryFrame DEF OfficialFinishes, fileVars, historyVars, Later
<1>17. CASE StopLocks
  BY <1>17, HistoryFrame DEF StopLocks, fileVars, Later
<1>18. CASE StopCloses
  <2>1. archives' \subseteq 0..session
    <3>1. Archive \/ archives' = archives
      BY <1>18 DEF StopCloses
    <3>2. Archive => archives' \subseteq archives \cup {session}
      BY Archived
    <3>3. session \in 0..session
      BY <1>t
    <3>4. QED
      BY <1>t, <3>1, <3>2, <3>3
  <2>2. UNCHANGED <<members, session, stable, prepared, phase>> /\ streaming' \subseteq streaming
    BY <1>18 DEF StopCloses, lockVars
  <2>3. QED
    BY <2>1, <2>2 DEF HistoryOK
<1>19. CASE StopAcknowledges \/ StopFails
  <2>1. UNCHANGED <<session, archives, stable, streaming>>
    BY <1>19 DEF StopAcknowledges, StopFails, historyVars
  <2>2. CASE streaming = {}
    <3>1. phase' = "idle"
      BY <1>19, <2>2 DEF StopAcknowledges, StopFails, ClearGateState
    <3>2. QED
      BY <1>t, <2>1, <2>2, <3>1 DEF HistoryOK
  <2>3. CASE streaming # {}
    <3>1. UNCHANGED <<phase, members, prepared>>
      BY <1>19, <2>3 DEF StopAcknowledges, StopFails, lockVars
    <3>2. QED
      BY <2>1, <3>1 DEF HistoryOK
  <2>4. QED
    BY <2>2, <2>3
<1>20. CASE SensorsStartFails \/ SensorsStopSkipped \/ StopTimesOut
  <2>1. UNCHANGED <<phase, members, prepared, session, archives, stable, streaming>>
    BY <1>20 DEF SensorsStartFails, SensorsStopSkipped, StopTimesOut, lockVars, fileVars, historyVars
  <2>2. QED
    BY <2>1 DEF HistoryOK
<1>21. CASE UNCHANGED vars
  BY <1>21 DEF vars, lockVars, fileVars, historyVars, HistoryOK
<1>22. QED
  BY <1>1, <1>2, <1>3, <1>4, <1>5, <1>6, <1>7, <1>8, <1>9, <1>10, <1>11, <1>12, <1>13, <1>14, <1>15, <1>16, <1>17, <1>18,
     <1>19, <1>20, <1>21
  DEF Next, CommandNext, ManagerNext, GateNext, OfficialNext


-----------------------------------------------------------------------------
(* The order of the steps, in calm histories without a master. *)

\* What a step moves: the order is kept, a start gets under way by START only, and neither the
\* clean-up nor a STOP closes files while one is.
Moves ==
  /\ OrderOK'
  /\ Underway' => Underway \/ StartEnds
  /\ (\E s \in streaming' : s \notin streaming) => Underway /\ cmd.at # "ack"

\* A step of a thread that queues nothing, and leaves command thread and manager alone.
LEMMA OrderFrame ==
  ASSUME OrderOK, UNCHANGED <<phase, cmd, manager, queue>>, official' # "idle" => official # "idle",
         streaming' \subseteq streaming
  PROVE  Moves
<1>1. /\ Starting' <=> Starting
      /\ Stopping' <=> Stopping
  BY DEF Starting, Stopping
<1>2. Underway' <=> Underway
  BY <1>1 DEF Underway
<1>3. QED
  BY <1>1, <1>2 DEF OrderOK, Moves

\* The gate fails a start: its STOP is queued behind no START.
LEMMA OrderFails ==
  ASSUME TypesOK, OrderOK, phase \in {"warming_up", "preparing_official"}, phase' = "startup_failed",
         Enqueue("stop", members, NoId), UNCHANGED <<cmd, manager, official, streaming>>
  PROVE  Moves
<1>1. queue \in Seq(Commands) /\ members \in SUBSET Subjects /\ NoId \in Nat
  BY DEF TypesOK, TypeOK, NoId
<1>2. ~Starting /\ cmd.at # "start" /\ official = "idle"
  BY DEF OrderOK
<1>3. /\ \A c \in InFlight(queue') : c \in InFlight(queue) \/ c.op = "stop"
      /\ \A i \in DOMAIN queue' : \/ i \in DOMAIN queue /\ queue'[i] = queue[i]
                                  \/ i = Len(queue) + 1 /\ queue'[i].op = "stop"
  BY <1>1, Enqueued
<1>4. ~Starting'
  BY <1>2, <1>3 DEF Starting
<1>5. phase' \notin Forward /\ ~Underway'
  BY <1>4 DEF Forward, Underway
<1>6. \A i \in DOMAIN queue' : queue'[i].op = "start" => i = 1
  BY <1>3 DEF OrderOK
<1>7. QED
  BY <1>2, <1>4, <1>5, <1>6 DEF OrderOK, Moves

\* The phase advances without anything else: a start that is under way stays so or ends.
LEMMA OrderAdvances ==
  ASSUME TypesOK, OrderOK, phase \in {"warming_up", "preparing_official"},
         phase' \in {"preparing_official", "ready_for_official", "official_streaming"},
         UNCHANGED <<cmd, manager, official, queue>>
  PROVE  Moves
<1>1. ~Starting /\ cmd.at # "start" /\ official = "idle"
  BY DEF OrderOK
<1>2. (Starting' <=> Starting) /\ (Stopping' <=> Stopping)
  BY DEF Starting, Stopping
<1>3. phase \in Forward /\ Underway
  BY <1>1 DEF Forward, Underway
<1>4. manager = Loop /\ cmd.at # "ack" /\ ~(cmd.at = "stop" /\ cmd.done)
  BY <1>3 DEF OrderOK
<1>5. QED
  BY <1>1, <1>2, <1>3, <1>4 DEF OrderOK, Moves

\* STOP ends with nothing under way.
LEMMA OrderEnds ==
  ASSUME TypesOK, OrderOK, ~Underway, cmd.at \in {"stop", "ack"}, cmd'.at \in {"idle", "ack"},
         phase' = phase \/ phase' = "idle", UNCHANGED <<manager, official, queue>>,
         streaming' \subseteq streaming
  PROVE  Moves
<1>1. official = "idle"
  BY IdleIs DEF OrderOK
<1>2. (Starting' <=> Starting) /\ (Stopping' <=> Stopping)
  BY DEF Starting, Stopping
<1>3. ~Starting /\ phase \notin Forward
  BY DEF Underway
<1>4. phase' \notin Forward
  BY <1>3 DEF Forward
<1>5. ~Underway'
  BY <1>2, <1>3, <1>4 DEF Underway
<1>6. QED
  BY <1>1, <1>2, <1>3, <1>4, <1>5 DEF OrderOK, Moves

\* The sensor manager takes a START: it is the only one, and no STOP has got past it.
LEMMA OrderTakesStart ==
  ASSUME TypesOK, OrderOK, Takes("start"), phase' \in {phase, "warming_up"},
         UNCHANGED <<cmd, manager, official, streaming>>
  PROVE  Moves
<1>1. queue \in Seq(Commands)
  BY DEF TypesOK
<1>2. /\ manager = Loop /\ Head(queue).op = "start" /\ Head(queue) \in InFlight(queue)
      /\ InFlight(queue) = InFlight(queue') \cup {Head(queue)}
      /\ \A i \in DOMAIN queue' : i + 1 \in DOMAIN queue /\ queue'[i] = queue[i + 1] /\ i + 1 # 1
  BY <1>1, Taken
<1>3. Starting /\ Underway
  BY <1>2 DEF Starting, Underway
<1>4. \A i \in DOMAIN queue' : queue'[i].op # "start"
  BY <1>2 DEF OrderOK
<1>5. ~Starting'
  BY <1>4 DEF Starting, InFlight
<1>6. Stopping' => Stopping
  BY <1>2 DEF Stopping
<1>7. queue # <<>> /\ cmd.at # "start"
  BY DEF Takes, OrderOK
<1>8. official = "idle" /\ cmd.at # "ack" /\ ~(cmd.at = "stop" /\ cmd.done)
  BY <1>3 DEF OrderOK
<1>9. phase \in {"starting", "stopping"} /\ (phase = "stopping" => cmd.at = "stop")
  BY <1>3 DEF OrderOK
<1>10. Stopping' /\ phase' \in Forward => cmd.at = "stop"
  BY <1>6, <1>9 DEF OrderOK, Forward
<1>11. QED
  BY <1>2, <1>3, <1>4, <1>5, <1>7, <1>8, <1>10 DEF OrderOK, Moves

\* It takes a STOP: no START is left in the queue, and nothing is under way afterwards.
LEMMA OrderTakesStop ==
  ASSUME TypesOK, OrderOK, SensorsStop
  PROVE  Moves
<1>1. queue \in Seq(Commands) /\ cmd \in CommandThreads
  BY DEF TypesOK
<1>2. /\ manager = Loop /\ Head(queue).op = "stop" /\ Head(queue) \in InFlight(queue)
      /\ InFlight(queue) = InFlight(queue') \cup {Head(queue)}
      /\ \A i \in DOMAIN queue' : i + 1 \in DOMAIN queue /\ queue'[i] = queue[i + 1] /\ i + 1 # 1
  BY <1>1, Taken DEF SensorsStop
<1>3. \A i \in DOMAIN queue' : queue'[i].op # "start"
  BY <1>2 DEF OrderOK
<1>4. ~Starting'
  BY <1>3 DEF Starting, InFlight
<1>5. phase' \in {"startup_failed", "official_streaming", "idle"}
  BY DEF SensorsStop
<1>6. phase' \notin Forward /\ ~Underway'
  BY <1>4, <1>5 DEF Forward, Underway
<1>7. Stopping /\ queue # <<>>
  BY <1>2 DEF Stopping, SensorsStop, Takes
<1>8. official = "idle"
  BY <1>7, IdleIs DEF OrderOK, Forward
<1>9. cmd'.at = cmd.at /\ (cmd' # cmd => cmd.at = "stop") /\ cmd.at # "start"
  BY <1>1, <1>7, Completed DEF SensorsStop, OrderOK
<1>10. UNCHANGED <<official, streaming>>
  BY DEF SensorsStop, fileVars
<1>11. QED
  BY <1>3, <1>4, <1>6, <1>8, <1>9, <1>10 DEF OrderOK, Moves


\* A calm history stays in order, where no master runs the commit beside a STOP.
LEMMA OrderStep ==
  ASSUME "master" \notin Roles, TypesOK, calm, OrderOK, [Next]_vars, calm'
  PROVE  Moves
<1>t. /\ cmd \in CommandThreads /\ queue \in Seq(Commands) /\ cmd.subjects \in SUBSET Subjects
      /\ role \in {"standalone", "worker"} /\ NoId \in Nat
      /\ count["starts"] \in Nat /\ count["stops"] \in Nat
  BY CoreAssumption DEF TypesOK, TypeOK, CommandThreads, NoId, Counters
<1>1. ASSUME NEW S, StartBegins(S) PROVE Moves
  <2>1. Answered
    BY <1>1 DEF StartBegins
  <2>2. queue = <<>> /\ manager = Loop /\ official = "idle"
    BY <2>1 DEF Answered
  <2>3. UNCHANGED <<queue, manager, official, streaming>> /\ phase' = "starting"
    BY <1>1 DEF StartBegins, managerVars, fileVars
  <2>4. cmd'.at = "start"
    BY <1>1 DEF StartBegins, Idle
  <2>5. ~Starting' /\ ~Stopping' /\ DOMAIN queue' = {}
    BY <2>2, <2>3, EmptyInFlight DEF Starting, Stopping
  <2>6. ~Underway'
    BY <2>4, <2>5 DEF Underway
  <2>7. QED
    BY <2>2, <2>3, <2>4, <2>5, <2>6 DEF OrderOK, Moves
<1>2. ASSUME NEW S, StopBegins(S) PROVE Moves
  <2>1. cmd = Idle /\ official = "idle" /\ cmd.at = "idle"
    BY <1>t, <1>2, IdleIs DEF StopBegins, Free
  <2>2. cmd'.at = "lock" /\ ~cmd'.done
    BY <1>2 DEF StopBegins, Idle
  <2>3. UNCHANGED <<phase, queue, manager, official, streaming>>
    BY <1>2 DEF StopBegins, lockVars, managerVars, fileVars
  <2>4. (Starting' <=> Starting) /\ (Stopping' <=> Stopping)
    BY <2>3 DEF Starting, Stopping
  <2>5. Underway' <=> Underway
    BY <2>1, <2>2, <2>3, <2>4 DEF Underway
  <2>6. QED
    BY <2>1, <2>2, <2>3, <2>4, <2>5 DEF OrderOK, Moves
<1>3. ASSUME NEW id, OfficialChecks(id) PROVE Moves
  <2>1. cmd = Idle /\ cmd.at = "idle" /\ phase = "ready_for_official" /\ official = "idle"
    BY <1>t, <1>3, IdleIs DEF OfficialChecks, TypesOK
  <2>2. phase' = "activating_official" /\ UNCHANGED <<cmd, queue, manager, streaming>>
    BY <1>3 DEF OfficialChecks, managerVars, fileVars
  <2>3. ~Starting /\ phase \in Forward
    BY <2>1 DEF OrderOK, Forward
  <2>4. Underway
    BY <2>1, <2>3 DEF Underway
  <2>5. manager = Loop /\ ~Stopping
    BY <2>1, <2>3, <2>4 DEF OrderOK
  <2>6. ~Starting' /\ ~Stopping'
    BY <2>2, <2>3, <2>5 DEF Starting, Stopping
  <2>7. QED
    BY <2>1, <2>2, <2>4, <2>5, <2>6 DEF OrderOK, Moves
<1>4. CASE StartEnds
  <2>1. queue = <<>> /\ manager = Loop /\ official = "idle"
    BY <1>4 DEF StartEnds, OrderOK
  <2>2. /\ \A c \in InFlight(queue') : c \in InFlight(queue) \/ c.op = "start"
        /\ DOMAIN queue' = 1..(Len(queue) + 1)
    BY <1>t, <1>4, Enqueued DEF StartEnds
  <2>3. DOMAIN queue' = 1..1 /\ InFlight(queue) = {}
    BY <2>1, <2>2, EmptyInFlight
  <2>4. /\ ~Stopping'
        /\ \A i \in DOMAIN queue' : i = 1
    <3>1. \A c \in InFlight(queue') : c.op = "start"
      BY <2>2, <2>3
    <3>2. \A i \in 1..1 : i = 1
      OBVIOUS
    <3>3. QED
      BY <2>3, <3>1, <3>2 DEF Stopping
  <2>5. cmd' = Idle /\ phase' = "starting" /\ UNCHANGED <<manager, official>>
    BY <1>4 DEF StartEnds
  <2>6. streaming' \subseteq streaming
    BY <1>4 DEF StartEnds
  <2>7. QED
    BY <1>4, <2>1, <2>4, <2>5, <2>6, IdleIs DEF OrderOK, Moves
<1>5. CASE SensorsStart
  BY <1>5, OrderTakesStart DEF SensorsStart, fileVars
<1>6. CASE SensorsStartFails
  BY <1>6, OrderTakesStart DEF SensorsStartFails, lockVars, fileVars, threadVars
<1>7. CASE SensorsStop
  BY <1>7, OrderTakesStop
<1>8. CASE SensorsCleanUp
  <2>1. manager # Loop /\ manager' = Loop /\ UNCHANGED <<phase, queue, official>> /\ streaming' \subseteq streaming
    BY <1>8 DEF SensorsCleanUp, lockVars
  <2>2. ~Underway /\ cmd.at # "start"
    BY <2>1 DEF OrderOK
  <2>3. cmd'.at = cmd.at /\ (cmd' # cmd => cmd.at = "stop") /\ (cmd = Idle => cmd' = Idle)
    BY <1>t, <1>8, Completed DEF SensorsCleanUp
  <2>4. (Starting' <=> Starting) /\ (Stopping' <=> Stopping)
    BY <2>1 DEF Starting, Stopping
  <2>5. ~Starting /\ phase \notin Forward
    BY <2>2 DEF Underway
  <2>6. ~Underway'
    BY <2>1, <2>4, <2>5 DEF Underway
  <2>7. QED
    BY <2>1, <2>2, <2>3, <2>4, <2>5, <2>6 DEF OrderOK, Moves
<1>9. ASSUME NEW g \in gates, GateStable(g) PROVE Moves
  <2>1. phase = "warming_up" /\ phase' \in {"preparing_official", "official_streaming"}
    BY <1>9 DEF GateStable, Current
  <2>2. UNCHANGED <<cmd, manager, official, queue>>
    BY <1>9 DEF GateStable, managerVars
  <2>3. QED
    BY <2>1, <2>2, OrderAdvances
<1>10. ASSUME NEW g \in gates, GateTimesOut(g) PROVE Moves
  BY <1>10, OrderFails DEF GateTimesOut, Current, fileVars
<1>11. ASSUME NEW g \in gates, GateReturns(g) PROVE Moves
  BY <1>11, OrderFrame DEF GateReturns, lockVars, managerVars, fileVars
<1>12. ASSUME NEW g \in gates, GatePrepares(g) PROVE Moves
  BY <1>12, OrderFrame DEF GatePrepares, lockVars, managerVars
<1>13. ASSUME NEW g \in gates, GatePrepareFails(g) PROVE Moves
  <2>1. CASE g.token = token /\ phase = "preparing_official"
    BY <1>13, <2>1, OrderFails DEF GatePrepareFails, fileVars
  <2>2. CASE ~(g.token = token /\ phase = "preparing_official")
    BY <1>13, <2>2, OrderFrame DEF GatePrepareFails, fileVars
  <2>3. QED
    BY <2>1, <2>2
<1>14. ASSUME NEW g \in gates, GateAnnounces(g) PROVE Moves
  <2>1. CASE g.token = token /\ phase = "preparing_official"
    BY <1>14, <2>1, OrderAdvances DEF GateAnnounces, managerVars
  <2>2. CASE ~(g.token = token /\ phase = "preparing_official")
    BY <1>14, <2>2, OrderFrame DEF GateAnnounces, managerVars, fileVars
  <2>3. QED
    BY <2>1, <2>2
<1>15. CASE OfficialActivates
  <2>1. /\ official # "idle" /\ official' # "idle"
        /\ UNCHANGED <<phase, cmd, manager, queue>>
    BY <1>15 DEF OfficialActivates, lockVars, managerVars
  <2>2. phase = "activating_official" /\ cmd = Idle /\ cmd.at = "idle"
    BY <2>1, IdleIs DEF OrderOK
  <2>3. (Starting' <=> Starting) /\ (Stopping' <=> Stopping)
    BY <2>1 DEF Starting, Stopping
  <2>4. Underway /\ (Underway' <=> Underway)
    BY <2>1, <2>2, <2>3 DEF Underway, Forward
  <2>5. QED
    BY <2>1, <2>2, <2>3, <2>4 DEF OrderOK, Moves
<1>16. CASE OfficialFails \/ OfficialFinishes
  <2>1. /\ official # "idle" /\ official' = "idle" /\ phase' \in {"startup_failed", "official_streaming"}
        /\ UNCHANGED <<cmd, manager, queue, streaming>>
    BY <1>16 DEF OfficialFails, OfficialFinishes, managerVars, fileVars
  <2>2. ~Starting /\ cmd = Idle /\ cmd.at = "idle"
    BY <2>1, IdleIs DEF OrderOK
  <2>3. ~Starting' /\ phase' \notin Forward
    BY <2>1, <2>2 DEF Starting, Forward
  <2>4. ~Underway'
    BY <2>3 DEF Underway
  <2>5. QED
    BY <2>1, <2>2, <2>3, <2>4 DEF OrderOK, Moves
<1>17. CASE StopLocks
  <2>1. /\ \A c \in InFlight(queue') : c \in InFlight(queue) \/ c.op = "stop"
        /\ \A i \in DOMAIN queue' : \/ i \in DOMAIN queue /\ queue'[i] = queue[i]
                                    \/ i = Len(queue) + 1 /\ queue'[i].op = "stop"
    BY <1>t, <1>17, Enqueued DEF StopLocks
  <2>2. Starting' => Starting
    BY <2>1 DEF Starting
  <2>3. \A i \in DOMAIN queue' : queue'[i].op = "start" => i = 1
    BY <2>1 DEF OrderOK
  <2>4. cmd.at = "lock" /\ cmd'.at = "stop" /\ ~cmd'.done /\ official = "idle"
    BY <1>t, <1>17, IdleIs DEF StopLocks, OrderOK, CommandThreads
  <2>5. phase' \in {phase, "stopping"} /\ UNCHANGED <<manager, official, streaming>>
    BY <1>17 DEF StopLocks, fileVars
  <2>6. Underway' => Underway
    BY <2>2, <2>4, <2>5 DEF Underway, Forward
  <2>7. QED
    BY <2>2, <2>3, <2>4, <2>5, <2>6 DEF OrderOK, Moves
<1>18. CASE StopCloses
  <2>1. cmd.at = "stop" /\ cmd.done /\ cmd'.at = "ack"
    BY <1>t, <1>18 DEF StopCloses, CommandThreads
  <2>2. ~Underway
    BY <2>1 DEF OrderOK
  <2>3. QED
    BY <1>18, <2>1, <2>2, OrderEnds DEF StopCloses, lockVars, managerVars
<1>19. CASE StopAcknowledges \/ StopFails
  <2>1. (cmd.at = "ack" \/ (cmd.at = "stop" /\ cmd.done)) /\ cmd' = Idle
    BY <1>19 DEF StopAcknowledges, StopFails
  <2>2. ~Underway
    BY <2>1 DEF OrderOK
  <2>3. phase' = phase \/ phase' = "idle"
    BY <1>19 DEF StopAcknowledges, StopFails, ClearGateState, lockVars
  <2>4. UNCHANGED <<manager, official, queue, streaming>>
    BY <1>19 DEF StopAcknowledges, StopFails, managerVars
  <2>5. QED
    BY <2>1, <2>2, <2>3, <2>4, IdleIs, OrderEnds
<1>20. CASE SensorsStopSkipped \/ StopTimesOut
  BY <1>20 DEF SensorsStopSkipped, StopTimesOut
<1>21. CASE UNCHANGED vars
  BY <1>21, OrderFrame DEF vars, lockVars, fileVars, threadVars, managerVars
<1>22. QED
  BY <1>1, <1>2, <1>3, <1>4, <1>5, <1>6, <1>7, <1>8, <1>9, <1>10, <1>11, <1>12, <1>13, <1>14, <1>15, <1>16, <1>17, <1>18,
     <1>19, <1>20, <1>21
  DEF Next, CommandNext, ManagerNext, GateNext, OfficialNext


\* The files, the archives and the drained subjects of a start that is under way.
LEMMA UnderwayStep ==
  ASSUME "master" \notin Roles, TypesOK, HistoryOK, calm, CalmOK, [Next]_vars, calm'
  PROVE  UnderwayOK'
<1> SUFFICES ASSUME Underway'
             PROVE  /\ \A s \in prepared' \cap members' : files'[s] = session'
                    /\ session' \notin archives'
                    /\ members' \cap drained' = {}
  BY DEF UnderwayOK
<1>m. Moves
  BY OrderStep DEF CalmOK
<1>t. /\ session \in Nat /\ archives \subseteq 0..session /\ count["starts"] \in Nat
      /\ members \subseteq Subjects
  BY CoreAssumption DEF TypesOK, TypeOK, Ids, Counters, HistoryOK
<1>1. CASE StartEnds
  <2>1. session' = session + 1 /\ archives' = archives
    BY <1>t, <1>1 DEF StartEnds, TypesOK
  <2>2. session' \notin archives'
    BY <1>t, <2>1
  <2>3. prepared' = {} /\ members' \cap drained' = {}
    BY <1>1 DEF StartEnds
  <2>4. QED
    BY <2>2, <2>3
<1> SUFFICES ASSUME ~StartEnds
             PROVE  /\ \A s \in prepared' \cap members' : files'[s] = session'
                    /\ session' \notin archives'
                    /\ members' \cap drained' = {}
  BY <1>1
<1>u. /\ Underway
      /\ \A s \in prepared \cap members : files[s] = session
      /\ session \notin archives
      /\ members \cap drained = {}
  BY <1>m DEF Moves, CalmOK, UnderwayOK
<1>o. OrderOK
  BY DEF CalmOK
<1>2. CASE UNCHANGED <<files, prepared, members, session, archives, drained>>
  BY <1>2, <1>u
<1>3. CASE Prepare /\ UNCHANGED <<members, session, archives, drained>>
  BY <1>3, <1>t, <1>u, Prepared
<1>4. ASSUME NEW S, StartBegins(S) \/ StopBegins(S) PROVE UNCHANGED <<files, prepared, members, session, archives, drained>>
  BY <1>4 DEF StartBegins, StopBegins, lockVars, fileVars, historyVars
<1>5. ASSUME NEW id, OfficialChecks(id) PROVE UNCHANGED <<files, prepared, members, session, archives, drained>>
  BY <1>5 DEF OfficialChecks, fileVars, historyVars
<1>6. CASE SensorsStart \/ SensorsStop \/ SensorsStartFails
  BY <1>2, <1>6 DEF SensorsStart, SensorsStop, SensorsStartFails, lockVars, fileVars, historyVars
<1>7. CASE SensorsCleanUp \/ StopCloses \/ StopAcknowledges \/ StopFails
  BY <1>7, <1>o, <1>u DEF SensorsCleanUp, StopCloses, StopAcknowledges, StopFails, OrderOK
<1>8. ASSUME NEW g \in gates, GateStable(g)
      PROVE  \/ UNCHANGED <<files, prepared, members, session, archives, drained>>
             \/ Prepare /\ UNCHANGED <<members, session, archives, drained>>
  BY <1>8 DEF GateStable
<1>9. ASSUME NEW g \in gates, GateTimesOut(g) \/ GateReturns(g) \/ GatePrepareFails(g) \/ GateAnnounces(g)
      PROVE  UNCHANGED <<files, prepared, members, session, archives, drained>>
  BY <1>9 DEF GateTimesOut, GateReturns, GatePrepareFails, GateAnnounces, lockVars, fileVars, historyVars
<1>10. ASSUME NEW g \in gates, GatePrepares(g) PROVE Prepare /\ UNCHANGED <<members, session, archives, drained>>
  BY <1>10 DEF GatePrepares, lockVars, historyVars
<1>11. CASE OfficialActivates
  BY <1>3, <1>11 DEF OfficialActivates, lockVars, historyVars
<1>12. CASE OfficialFails \/ OfficialFinishes \/ StopLocks \/ SensorsStopSkipped \/ StopTimesOut
  BY <1>2, <1>12 DEF OfficialFails, OfficialFinishes, StopLocks, SensorsStopSkipped, StopTimesOut, lockVars, fileVars, historyVars
<1>13. CASE UNCHANGED vars
  BY <1>2, <1>13 DEF vars, lockVars, fileVars, historyVars
<1>14. QED
  BY <1>2, <1>3, <1>4, <1>5, <1>6, <1>7, <1>8, <1>9, <1>10, <1>11, <1>12, <1>13
  DEF Next, CommandNext, ManagerNext, GateNext, OfficialNext

\* A subject whose recording is opened was stable for the session, which is neither archived nor
\* one of a drained subject.
LEMMA Activated ==
  ASSUME TypesOK, HistoryOK, CalmOK, Underway, Prepare, stable \subseteq stable',
         \A s \in members : <<session, s>> \in stable',
         streaming' = streaming \cup members, UNCHANGED <<archives, drained>>
  PROVE  StreamingOK'
<1> SUFFICES ASSUME NEW s \in streaming'
             PROVE  <<files'[s], s>> \in stable' /\ files'[s] \notin archives /\ s \notin drained
  BY DEF StreamingOK
<1>1. streaming \subseteq Subjects /\ members \subseteq Subjects
  BY DEF TypesOK, TypeOK
<1>2. files'[s] = IF s \in members \ prepared THEN session ELSE files[s]
  BY <1>1, Prepared
<1>3. CASE s \in members
  BY <1>2, <1>3 DEF CalmOK, UnderwayOK
<1>4. CASE s \notin members
  BY <1>2, <1>4 DEF CalmOK, StreamingOK
<1>5. QED
  BY <1>3, <1>4

\* Every step keeps what is said of the streaming subjects.
LEMMA StreamingStep ==
  ASSUME "master" \notin Roles, TypesOK, HistoryOK, calm, CalmOK, [Next]_vars, calm'
  PROVE  StreamingOK'
<1>s. StreamingOK /\ OrderOK /\ streaming \subseteq Subjects /\ members \subseteq Subjects
  BY DEF CalmOK, TypesOK, TypeOK
<1>1. CASE streaming' \subseteq streaming /\ UNCHANGED <<files, archives>> /\ stable \subseteq stable' /\ drained' \subseteq drained
  BY <1>1, <1>s DEF StreamingOK
<1>2. ASSUME NEW S, StartBegins(S) \/ StopBegins(S) PROVE StreamingOK'
  BY <1>1, <1>2 DEF StartBegins, StopBegins, fileVars, historyVars
<1>3. ASSUME NEW id, OfficialChecks(id) PROVE StreamingOK'
  BY <1>1, <1>3 DEF OfficialChecks, fileVars, historyVars
<1>4. CASE StartEnds
  BY <1>1, <1>4 DEF StartEnds
<1>5. CASE SensorsStart \/ SensorsStop \/ SensorsStartFails
  BY <1>1, <1>5 DEF SensorsStart, SensorsStop, SensorsStartFails, fileVars, historyVars
<1>6. CASE SensorsCleanUp
  <2>1. streaming' = streaming \ members /\ (streaming' # {} => archives' = archives) /\ UNCHANGED <<stable, drained>>
    BY <1>6 DEF SensorsCleanUp
  <2>2. \A s \in Subjects \ members : files'[s] = files[s]
    BY <1>6 DEF SensorsCleanUp
  <2>3. QED
    BY <1>s, <2>1, <2>2 DEF StreamingOK
<1>7. CASE StopCloses
  <2>1. /\ streaming' = streaming \ cmd.subjects /\ (streaming' # {} => archives' = archives)
        /\ UNCHANGED <<stable, drained>>
    BY <1>7 DEF StopCloses
  <2>2. \A s \in Subjects \ cmd.subjects : files'[s] = files[s]
    BY <1>7 DEF StopCloses
  <2>3. QED
    BY <1>s, <2>1, <2>2 DEF StreamingOK
<1>8. CASE StopAcknowledges
  <2>1. /\ UNCHANGED <<streaming, files, archives, stable>> /\ drained' = drained \cup cmd.subjects
        /\ cmd.at = "ack"
    BY <1>8 DEF StopAcknowledges
  <2>2. cmd.subjects \cap streaming = {}
    BY <2>1 DEF CalmOK
  <2>3. QED
    BY <1>s, <2>1, <2>2 DEF StreamingOK
<1>9. ASSUME NEW g \in gates, GateStable(g) PROVE StreamingOK'
  <2>1. CASE mode = "coordinated"
    BY <1>1, <1>9, <2>1 DEF GateStable
  <2>2. CASE mode # "coordinated"
    <3>1. phase = "warming_up" /\ cmd.at # "start"
      BY <1>9, <1>s DEF GateStable, Current, OrderOK
    <3>2. Underway
      BY <3>1 DEF Underway, Forward
    <3>3. /\ Prepare /\ streaming' = streaming \cup members /\ UNCHANGED <<archives, drained>>
          /\ stable' = stable \cup {<<session, s>> : s \in members \cap measuring} /\ members \subseteq measuring
      BY <1>9, <2>2 DEF GateStable, AllDeliver
    <3>4. \A s \in members : <<session, s>> \in stable'
      BY <3>3
    <3>5. QED
      BY <3>2, <3>3, <3>4, Activated
  <2>3. QED
    BY <2>1, <2>2
<1>10. ASSUME NEW g \in gates, GateTimesOut(g) \/ GateReturns(g) \/ GatePrepareFails(g) \/ GateAnnounces(g) PROVE StreamingOK'
  BY <1>1, <1>10 DEF GateTimesOut, GateReturns, GatePrepareFails, GateAnnounces, fileVars, historyVars
<1>11. ASSUME NEW g \in gates, GatePrepares(g) PROVE StreamingOK'
  <2>1. Prepare /\ UNCHANGED <<streaming, archives, stable, drained>>
    BY <1>11 DEF GatePrepares, historyVars
  <2>2. \A s \in streaming : files'[s] = files[s]
    BY <1>s, <2>1, Prepared DEF HistoryOK
  <2>3. QED
    BY <1>s, <2>1, <2>2 DEF StreamingOK
<1>12. CASE OfficialActivates
  <2>1. phase = "activating_official" /\ cmd.at # "start"
    BY <1>12, <1>s, IdleIs DEF OfficialActivates, OrderOK
  <2>2. Underway /\ \A s \in members : <<session, s>> \in stable
    BY <2>1 DEF Underway, Forward, HistoryOK
  <2>3. Prepare /\ streaming' = streaming \cup members /\ UNCHANGED <<archives, drained, stable>>
    BY <1>12 DEF OfficialActivates, historyVars
  <2>4. QED
    BY <2>2, <2>3, Activated
<1>13. CASE OfficialFails \/ OfficialFinishes \/ StopLocks \/ SensorsStopSkipped \/ StopTimesOut \/ StopFails
  BY <1>1, <1>13 DEF OfficialFails, OfficialFinishes, StopLocks, SensorsStopSkipped, StopTimesOut, StopFails, fileVars, historyVars
<1>14. CASE UNCHANGED vars
  BY <1>1, <1>14 DEF vars, fileVars, historyVars
<1>15. QED
  BY <1>2, <1>3, <1>4, <1>5, <1>6, <1>7, <1>8, <1>9, <1>10, <1>11, <1>12, <1>13, <1>14
  DEF Next, CommandNext, ManagerNext, GateNext, OfficialNext

\* Between closing the files and the acknowledgement nothing of the subjects streams.
LEMMA AckStep ==
  ASSUME "master" \notin Roles, TypesOK, calm, CalmOK, [Next]_vars, calm', cmd'.at = "ack"
  PROVE  cmd'.subjects \cap streaming' = {}
<1>m. Moves
  BY OrderStep DEF CalmOK
<1>t. cmd \in CommandThreads
  BY DEF TypesOK
<1>1. CASE StopCloses
  BY <1>1, <1>t DEF StopCloses, CommandThreads
<1>2. CASE cmd' = cmd
  <2>1. ~Underway
    BY <1>2 DEF CalmOK, OrderOK
  <2>2. streaming' \subseteq streaming
    BY <1>m, <2>1 DEF Moves
  <2>3. QED
    BY <1>2, <2>2 DEF CalmOK
<1>3. ASSUME NEW c, Completes(c) PROVE cmd' = cmd
  BY <1>3, <1>t, Completed
<1>4. ASSUME NEW S, StartBegins(S) \/ StopBegins(S) PROVE FALSE
  BY <1>4 DEF StartBegins, StopBegins, Idle
<1>5. ASSUME NEW id, OfficialChecks(id) PROVE cmd' = cmd
  BY <1>5 DEF OfficialChecks
<1>6. CASE StartEnds \/ StopAcknowledges \/ StopFails
  BY <1>6, IdleIs DEF StartEnds, StopAcknowledges, StopFails
<1>7. CASE StopLocks \/ StopTimesOut
  BY <1>7, <1>t DEF StopLocks, StopTimesOut, CommandThreads
<1>8. CASE SensorsStop \/ SensorsCleanUp \/ SensorsStopSkipped
  BY <1>2, <1>3, <1>8 DEF SensorsStop, SensorsCleanUp, SensorsStopSkipped
<1>9. CASE SensorsStart \/ SensorsStartFails
  BY <1>2, <1>9 DEF SensorsStart, SensorsStartFails, threadVars
<1>10. ASSUME NEW g \in gates, \/ GateStable(g) \/ GateTimesOut(g) \/ GateReturns(g) \/ GatePrepares(g)
                               \/ GatePrepareFails(g) \/ GateAnnounces(g)
       PROVE  cmd' = cmd
  BY <1>10 DEF GateStable, GateTimesOut, GateReturns, GatePrepares, GatePrepareFails, GateAnnounces
<1>11. CASE OfficialActivates \/ OfficialFails \/ OfficialFinishes \/ UNCHANGED vars
  BY <1>2, <1>11 DEF OfficialActivates, OfficialFails, OfficialFinishes, vars, threadVars
<1>12. QED
  BY <1>1, <1>2, <1>4, <1>5, <1>6, <1>7, <1>8, <1>9, <1>10, <1>11
  DEF Next, CommandNext, ManagerNext, GateNext, OfficialNext

\* Once a history is not calm it stays so.
LEMMA CalmBefore ==
  ASSUME TypesOK, [Next]_vars, calm'
  PROVE  calm
<1>1. ASSUME NEW S, StartBegins(S) \/ StopBegins(S) PROVE calm
  BY <1>1 DEF StartBegins, StopBegins, historyVars
<1>2. CASE ~\E S \in (SUBSET Subjects) \ {{}} : StartBegins(S) \/ StopBegins(S)
  BY <1>2
  DEF Next, CommandNext, ManagerNext, GateNext, OfficialNext, vars, OfficialChecks, StartEnds, SensorsStart, SensorsStop,
      SensorsCleanUp, GateStable, GateTimesOut, GateReturns, GatePrepares, GateAnnounces, OfficialActivates,
      OfficialFinishes, StopLocks, StopCloses, StopAcknowledges, SensorsStartFails, SensorsStopSkipped, StopTimesOut,
      StopFails, OfficialFails, GatePrepareFails, historyVars
<1>3. QED
  BY <1>1, <1>2

\* The recording invariant is inductive.
LEMMA RecordStep ==
  ASSUME "master" \notin Roles, TypesOK, RecordInv, [Next]_vars
  PROVE  RecordInv'
<1>1. HistoryOK'
  BY HistoryStep DEF RecordInv
<1>2. ASSUME calm' PROVE CalmOK'
  <2>1. calm /\ CalmOK /\ HistoryOK
    BY <1>2, CalmBefore DEF RecordInv
  <2>2. OrderOK'
    BY <1>2, <2>1, OrderStep DEF CalmOK, Moves
  <2>3. UnderwayOK' /\ StreamingOK'
    BY <1>2, <2>1, UnderwayStep, StreamingStep
  <2>4. cmd'.at = "ack" => cmd'.subjects \cap streaming' = {}
    BY <1>2, <2>1, AckStep
  <2>5. QED
    BY <2>2, <2>3, <2>4 DEF CalmOK
<1>3. QED
  BY <1>1, <1>2 DEF RecordInv

\* The recording invariant holds in every reachable state.
LEMMA RecordInvariant ==
  ASSUME "master" \notin Roles
  PROVE  Spec => [](TypesOK /\ RecordInv)
<1>1. TypesOK /\ RecordInv /\ [Next]_vars => (TypesOK /\ RecordInv)'
  BY TypesStep, RecordStep
<1>2. QED
  BY <1>1, InitTypes, InitRecord, PTL DEF Spec

\* In a calm history, on a standalone Core or a worker, a sample is written only into the files of
\* a session whose gate has seen that subject deliver: no gate thread, commit or file of another
\* start opens the outputs of a subject that never became stable (_on_data).
THEOREM PersistedIsStable ==
  ASSUME "master" \notin Roles
  PROVE  Spec => []PersistedWasStable
<1>1. RecordInv => PersistedWasStable
  BY DEF RecordInv, CalmOK, StreamingOK, Persisted, PersistedWasStable
<1>2. QED
  BY <1>1, RecordInvariant, PTL

\* Under the same condition no sample is written into an archived session
\* (_finalize_session_archive).
THEOREM PersistedIsOpen ==
  ASSUME "master" \notin Roles
  PROVE  Spec => []PersistedNotArchived
<1>1. RecordInv => PersistedNotArchived
  BY DEF RecordInv, CalmOK, StreamingOK, Persisted, PersistedNotArchived
<1>2. QED
  BY <1>1, RecordInvariant, PTL

\* Under the same condition a subject that STREAM_DRAINED has reported drained records nothing
\* until it is started again.  (On the master the commit can run beside the STOP, and does not
\* keep this.)
THEOREM DrainedIsSilent ==
  ASSUME "master" \notin Roles
  PROVE  Spec => []DrainedStaysDrained
<1>1. RecordInv => DrainedStaysDrained
  BY DEF RecordInv, CalmOK, StreamingOK, Persisted, DrainedStaysDrained
<1>2. QED
  BY <1>1, RecordInvariant, PTL
=============================================================================

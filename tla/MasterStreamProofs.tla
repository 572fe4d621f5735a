-------------------------- MODULE MasterStreamProofs --------------------------
(***************************************************************************)
(* MasterStream for every set of nodes, every assignment of subjects and   *)
(* every bound: the types, the official-start barrier, that the threads    *)
(* and messages implement the abstract barrier of CoordinatedStart, and,   *)
(* for a client that waits, the drain barrier.                             *)
(***************************************************************************)
EXTENDS MasterStream, QueueLemmas, FiniteSetTheorems, TLAPS

-----------------------------------------------------------------------------
(* The inductive invariant. *)

\* A Core between START and STOP belongs to one start session.
CoreOK ==
  \A n \in Nodes : phase[n] \in {"starting", "ready", "official"} =>
    /\ sid[n] \in StartIds
    /\ session[n] = sid[n]
    /\ n \in expectedOf[sid[n]]

\* A Core past its gate is in the history, and a Core that records was committed.
GateOK ==
  \A n \in Nodes :
    /\ phase[n] \in {"ready", "official"} => n \in everReady[sid[n]]
    /\ phase[n] = "official" => sid[n] \in committed

\* The master's record of the start agrees with the history.
StartOK ==
  start.id # NoId =>
    /\ start.expected = expectedOf[start.id]
    /\ start.expected # {}
    /\ start.ready \subseteq everReady[start.id]

\* Commands and events in flight tell the truth about starts.
CommandsOK ==
  \A w \in Workers : \A c \in InFlight(cmds[w]) :
    /\ c.type = "start" => w \in expectedOf[c.id]
    /\ c.type = "commit" => c.id \in committed

EventsOK ==
  \A n \in Nodes : \A e \in InFlight(evts[n]) : e.type = "ready" => n \in everReady[e.id]

ThreadsOK ==
  \A t \in Threads : thread[t].at = "local" => thread[t].id \in committed

\* A committed start has participants, all of which have been ready; starts that were not
\* sent have none.
HistoryOK ==
  /\ \A i \in committed : expectedOf[i] # {} /\ expectedOf[i] \subseteq everReady[i]
  /\ \A i \in StartIds : i > count["starts"] => expectedOf[i] = {}

RecordingOK == \A s \in Subjects : recording[s] # NoId => recording[s] \in committed

BarrierInv ==
  /\ CoreOK
  /\ GateOK
  /\ StartOK
  /\ CommandsOK
  /\ EventsOK
  /\ ThreadsOK
  /\ HistoryOK
  /\ RecordingOK

\* The conjunction that every step of Next preserves.
IInv == TypeOK /\ BarrierInv

-----------------------------------------------------------------------------
(* The transport. *)

\* A node emits an event.
LEMMA EventSent ==
  ASSUME TransportTypeOK, NEW n \in Nodes, NEW e \in Events, evts' = Sent(n, e)
  PROVE  /\ evts' \in [Nodes -> Seq(Events)]
         /\ \A k \in Nodes : \A f \in InFlight(evts'[k]) : f \in InFlight(evts[k]) \/ (k = n /\ f = e)
<1>1. evts \in [Nodes -> Seq(Events)] /\ evts' = [evts EXCEPT ![n] = Append(evts[n], e)]
  BY DEF Sent, TransportTypeOK
<1>2. Append(evts[n], e) \in Seq(Events) /\ InFlight(Append(evts[n], e)) = InFlight(evts[n]) \cup {e}
  BY <1>1, AppendInFlight
<1>3. QED
  BY <1>1, <1>2

\* The master handles the next event of a node.
LEMMA EventReceived ==
  ASSUME TransportTypeOK, NEW n \in Nodes, evts[n] # <<>>, evts' = [evts EXCEPT ![n] = Tail(@)]
  PROVE  /\ Head(evts[n]) \in Events /\ Head(evts[n]) \in InFlight(evts[n])
         /\ evts' \in [Nodes -> Seq(Events)]
         /\ \A k \in Nodes : InFlight(evts'[k]) \subseteq InFlight(evts[k])
<1>1. evts \in [Nodes -> Seq(Events)] /\ evts' = [evts EXCEPT ![n] = Tail(evts[n])]
  BY DEF TransportTypeOK
<1>2. /\ Head(evts[n]) \in Events /\ Head(evts[n]) \in InFlight(evts[n])
      /\ Tail(evts[n]) \in Seq(Events) /\ InFlight(Tail(evts[n])) \subseteq InFlight(evts[n])
  BY <1>1, TailInFlight
<1>3. QED
  BY <1>1, <1>2

\* A worker receives its next command.
LEMMA CommandReceived ==
  ASSUME TransportTypeOK, NEW w \in Workers, cmds[w] # <<>>, cmds' = [cmds EXCEPT ![w] = Tail(@)]
  PROVE  /\ Head(cmds[w]) \in Commands /\ Head(cmds[w]) \in InFlight(cmds[w])
         /\ cmds' \in [Workers -> Seq(Commands)]
         /\ \A k \in Workers : InFlight(cmds'[k]) \subseteq InFlight(cmds[k])
<1>1. cmds \in [Workers -> Seq(Commands)] /\ cmds' = [cmds EXCEPT ![w] = Tail(cmds[w])]
  BY DEF TransportTypeOK
<1>2. /\ Head(cmds[w]) \in Commands /\ Head(cmds[w]) \in InFlight(cmds[w])
      /\ Tail(cmds[w]) \in Seq(Commands) /\ InFlight(Tail(cmds[w])) \subseteq InFlight(cmds[w])
  BY <1>1, TailInFlight
<1>3. QED
  BY <1>1, <1>2

\* The commands queued for a worker are lost.
LEMMA CommandsLost ==
  ASSUME TransportTypeOK, NEW w \in Workers, cmds' = [cmds EXCEPT ![w] = <<>>]
  PROVE  /\ cmds' \in [Workers -> Seq(Commands)]
         /\ \A k \in Workers : InFlight(cmds'[k]) \subseteq InFlight(cmds[k])
<1>1. cmds \in [Workers -> Seq(Commands)]
  BY DEF TransportTypeOK
<1>2. <<>> \in Seq(Commands) /\ InFlight(<<>>) = {}
  BY EmptyInFlight
<1>3. QED
  BY <1>1, <1>2

\* A command is sent to a worker.
LEMMA CommandQueued ==
  ASSUME TransportTypeOK, NEW w \in Workers, NEW d \in Commands
  PROVE  /\ Append(cmds[w], d) \in Seq(Commands)
         /\ InFlight(Append(cmds[w], d)) = InFlight(cmds[w]) \cup {d}
<1>1. cmds[w] \in Seq(Commands)
  BY DEF TransportTypeOK
<1>2. QED
  BY <1>1, AppendInFlight

\* What is in flight is typed.
LEMMA InFlightTyped ==
  ASSUME TransportTypeOK
  PROVE  /\ \A n \in Nodes : InFlight(evts[n]) \subseteq Events
         /\ \A w \in Workers : InFlight(cmds[w]) \subseteq Commands
BY DEF TransportTypeOK, InFlight

-----------------------------------------------------------------------------
(* The initial state. *)

\* The initial states satisfy the invariant.
LEMMA InitIInv == Init => IInv
<1> SUFFICES ASSUME Init PROVE IInv
  OBVIOUS
<1>1. MasterTypeOK
  BY DEF Init, MasterTypeOK, NoStart, NoId, DrainRecord, DrainRecords, Acks, NoAck, NodesOf, Idle,
         ThreadStates, Threads
<1>2. CoreTypeOK
  BY DEF Init, CoreTypeOK, NoStop, NoId
<1>3. TransportTypeOK
  BY DEF Init, TransportTypeOK
<1>4. HistoryTypeOK
  BY DEF Init, HistoryTypeOK, Counters
<1>5. CommandsOK /\ EventsOK
  BY EmptyInFlight DEF Init, CommandsOK, EventsOK
<1>6. CoreOK /\ GateOK /\ StartOK /\ ThreadsOK /\ HistoryOK /\ RecordingOK
  BY DEF Init, CoreOK, GateOK, StartOK, ThreadsOK, HistoryOK, RecordingOK, NoStart, Idle, NoId
<1>7. QED
  BY <1>1, <1>2, <1>3, <1>4, <1>5, <1>6 DEF IInv, TypeOK, BarrierInv

-----------------------------------------------------------------------------
(* One lemma per action: it preserves the inductive invariant.             *)

\* A node whose startup gate opens keeps the invariant.
LEMMA GateReadyIInv == ASSUME IInv, NEW n \in Nodes, GateReady(n) PROVE IInv'
<1> USE DEF IInv, TypeOK, BarrierInv
<1> DEFINE e == Evt("ready", sid[n], session[n], {}, TRUE)
<1>1. phase[n] = "starting" /\ sid[n] \in StartIds /\ session[n] = sid[n] /\ n \in expectedOf[sid[n]]
  BY DEF GateReady, CoreOK
<1>2. e \in Events /\ e.id = sid[n]
  BY <1>1 DEF Evt, Events
<1>3. /\ evts' \in [Nodes -> Seq(Events)]
      /\ \A k \in Nodes : \A f \in InFlight(evts'[k]) : f \in InFlight(evts[k]) \/ (k = n /\ f = e)
  <2>1. evts' = Sent(n, e)
    BY DEF GateReady
  <2> HIDE DEF e
  <2>2. QED
    BY <1>2, <2>1, EventSent
<1>4. /\ everReady' \in [StartIds -> SUBSET Nodes]
      /\ n \in everReady'[sid[n]]
      /\ \A i \in StartIds : everReady[i] \subseteq everReady'[i]
  BY <1>1 DEF GateReady, HistoryTypeOK
<1>5. phase' = [phase EXCEPT ![n] = "ready"] /\ sid' = sid /\ session' = session
  BY DEF GateReady
<1>6. MasterTypeOK' /\ CoreTypeOK' /\ TransportTypeOK' /\ HistoryTypeOK'
  BY <1>3, <1>4 DEF GateReady, MasterTypeOK, CoreTypeOK, TransportTypeOK, HistoryTypeOK, stopHistory
<1>7. CoreOK'
  BY <1>1, <1>5 DEF GateReady, CoreOK, CoreTypeOK
<1>8. GateOK'
  BY <1>1, <1>4, <1>5 DEF GateReady, GateOK, CoreTypeOK, CoreOK
<1>9. StartOK'
  BY <1>4 DEF GateReady, StartOK, MasterTypeOK, NoId
<1>10. EventsOK'
  <2> HIDE DEF e
  <2>1. \A f \in Events : f.type = "ready" => f.id \in StartIds
    BY DEF Events
  <2>2. QED
    BY <1>2, <1>3, <1>4, <2>1, InFlightTyped DEF EventsOK
<1>11. CommandsOK' /\ ThreadsOK' /\ RecordingOK'
  BY DEF GateReady, CommandsOK, ThreadsOK, RecordingOK
<1>12. HistoryOK'
  BY <1>4 DEF GateReady, HistoryOK, HistoryTypeOK
<1>13. QED
  BY <1>6, <1>7, <1>8, <1>9, <1>10, <1>11, <1>12

\* A node whose startup gate fails keeps the invariant.
LEMMA GateFailsIInv == ASSUME IInv, NEW n \in Nodes, GateFails(n) PROVE IInv'
<1> USE DEF IInv, TypeOK, BarrierInv
<1> DEFINE e == Evt("drained", NoId, session[n], members[n], TRUE)
<1>1. session[n] \in StartIds
  BY DEF GateFails, CoreOK
<1>2. e \in Events /\ e.type = "drained"
  BY DEF Evt, Events, CoreTypeOK
<1>3. /\ evts' \in [Nodes -> Seq(Events)]
      /\ \A k \in Nodes : \A f \in InFlight(evts'[k]) : f \in InFlight(evts[k]) \/ (k = n /\ f = e)
  <2>1. evts' = Sent(n, e)
    BY DEF GateFails
  <2> HIDE DEF e
  <2>2. QED
    BY <1>2, <2>1, EventSent
<1>4. recording' \in [Subjects -> StartIds \cup {NoId}] /\ \A s \in Subjects : recording'[s] \in {recording[s], NoId}
  BY DEF GateFails, Recording, CoreTypeOK
<1>5. archives' \subseteq [by : Nodes, ts : StartIds]
  BY <1>1 DEF GateFails, HistoryTypeOK
<1>6. MasterTypeOK' /\ CoreTypeOK' /\ TransportTypeOK' /\ HistoryTypeOK'
  BY <1>3, <1>4, <1>5 DEF GateFails, MasterTypeOK, CoreTypeOK, TransportTypeOK, HistoryTypeOK, startHistory
<1>7. CoreOK' /\ GateOK'
  BY DEF GateFails, CoreOK, GateOK, CoreTypeOK, startHistory
<1>8. EventsOK'
  BY <1>2, <1>3 DEF GateFails, EventsOK, startHistory
<1>9. RecordingOK'
  BY <1>4 DEF GateFails, RecordingOK, startHistory
<1>10. StartOK' /\ CommandsOK' /\ ThreadsOK' /\ HistoryOK'
  BY DEF GateFails, StartOK, CommandsOK, ThreadsOK, HistoryOK, startHistory
<1>11. QED
  BY <1>6, <1>7, <1>8, <1>9, <1>10

\* The end of a STOP in a Core leaves the recording of other subjects alone.
LEMMA CoreStoppedOK ==
  ASSUME CoreTypeOK, CoreOK, GateOK, NEW n \in Nodes, NEW left, CoreStopped(n, left),
         UNCHANGED startHistory
  PROVE  /\ phase' \in [Nodes -> {"idle", "starting", "ready", "official", "stopping", "failed"}]
         /\ sid' \in [Nodes -> StartIds \cup {NoId}]
         /\ members' \in [Nodes -> SUBSET Subjects]
         /\ stopping' \in [Nodes -> [id : StopIds, subjects : SUBSET Subjects] \cup {NoStop}]
         /\ CoreOK' /\ GateOK'
<1>1. /\ phase' \in [Nodes -> {"idle", "starting", "ready", "official", "stopping", "failed"}]
      /\ sid' \in [Nodes -> StartIds \cup {NoId}]
      /\ members' \in [Nodes -> SUBSET Subjects]
      /\ stopping' \in [Nodes -> [id : StopIds, subjects : SUBSET Subjects] \cup {NoStop}]
  BY DEF CoreStopped, CoreTypeOK
<1>2. \A k \in Nodes : phase'[k] \in {"starting", "ready", "official"} =>
        phase'[k] = phase[k] /\ sid'[k] = sid[k] /\ session'[k] = session[k]
  BY DEF CoreStopped, CoreTypeOK
<1>3. QED
  BY <1>1, <1>2 DEF CoreOK, GateOK, startHistory

\* A Core that has stopped keeps the invariant.
LEMMA CoreStopEndsIInv == ASSUME IInv, NEW n \in Nodes, CoreStopEnds(n) PROVE IInv'
<1> USE DEF IInv, TypeOK, BarrierInv
<1> DEFINE e == Evt("drained", stopping[n].id, session[n], stopping[n].subjects, TRUE)
<1>1. stopping[n].id \in StopIds /\ stopping[n].subjects \subseteq Subjects
  BY DEF CoreStopEnds, CoreTypeOK
<1>2. e \in Events /\ e.type = "drained"
  BY <1>1 DEF Evt, Events, CoreTypeOK
<1>3. /\ evts' \in [Nodes -> Seq(Events)]
      /\ \A k \in Nodes : \A f \in InFlight(evts'[k]) : f \in InFlight(evts[k]) \/ (k = n /\ f = e)
  <2>1. evts' = Sent(n, e)
    BY DEF CoreStopEnds
  <2> HIDE DEF e
  <2>2. QED
    BY <1>2, <2>1, EventSent
<1>4. recording' \in [Subjects -> StartIds \cup {NoId}] /\ \A s \in Subjects : recording'[s] \in {recording[s], NoId}
  BY DEF CoreStopEnds, Recording, CoreTypeOK
<1>5. CoreTypeOK' /\ CoreOK' /\ GateOK'
  <2>1. CoreStopped(n, Streaming(n) \ stopping[n].subjects) /\ UNCHANGED startHistory
    BY DEF CoreStopEnds
  <2>2. session' = session /\ configured' = configured
    BY <2>1 DEF CoreStopped
  <2>3. QED
    BY <1>4, <2>1, <2>2, CoreStoppedOK DEF CoreTypeOK
<1>6. MasterTypeOK' /\ TransportTypeOK' /\ HistoryTypeOK'
  BY <1>3 DEF CoreStopEnds, MasterTypeOK, TransportTypeOK, HistoryTypeOK, startHistory, stopHistory
<1>7. EventsOK'
  BY <1>2, <1>3 DEF CoreStopEnds, EventsOK, startHistory
<1>8. RecordingOK'
  BY <1>4 DEF CoreStopEnds, RecordingOK, startHistory
<1>9. StartOK' /\ CommandsOK' /\ ThreadsOK' /\ HistoryOK'
  BY DEF CoreStopEnds, StartOK, CommandsOK, ThreadsOK, HistoryOK, startHistory
<1>10. QED
  BY <1>5, <1>6, <1>7, <1>8, <1>9

\* A Core that fails to stop keeps the invariant.
LEMMA CoreStopFailsIInv == ASSUME IInv, NEW n \in Nodes, CoreStopFails(n) PROVE IInv'
<1> USE DEF IInv, TypeOK, BarrierInv
<1> DEFINE e == Evt("drained", stopping[n].id, session[n], stopping[n].subjects, FALSE)
<1>1. stopping[n].id \in StopIds /\ stopping[n].subjects \subseteq Subjects
  BY DEF CoreStopFails, CoreTypeOK
<1>2. e \in Events /\ e.type = "drained"
  BY <1>1 DEF Evt, Events, CoreTypeOK
<1>3. /\ evts' \in [Nodes -> Seq(Events)]
      /\ \A k \in Nodes : \A f \in InFlight(evts'[k]) : f \in InFlight(evts[k]) \/ (k = n /\ f = e)
  <2>1. evts' = Sent(n, e)
    BY DEF CoreStopFails
  <2> HIDE DEF e
  <2>2. QED
    BY <1>2, <2>1, EventSent
<1>4. CoreTypeOK' /\ CoreOK' /\ GateOK'
  <2>1. CoreStopped(n, Streaming(n)) /\ UNCHANGED startHistory /\ recording' = recording
    BY DEF CoreStopFails
  <2>2. session' = session /\ configured' = configured
    BY <2>1 DEF CoreStopped
  <2>3. QED
    BY <2>1, <2>2, CoreStoppedOK DEF CoreTypeOK
<1>5. count' \in [Counters -> Nat] /\ count'["starts"] = count["starts"]
  BY DEF CoreStopFails, Count, HistoryTypeOK, Counters
<1>6. MasterTypeOK' /\ TransportTypeOK' /\ HistoryTypeOK'
  BY <1>3, <1>5 DEF CoreStopFails, MasterTypeOK, TransportTypeOK, HistoryTypeOK, startHistory, stopHistory
<1>7. EventsOK'
  BY <1>2, <1>3 DEF CoreStopFails, EventsOK, startHistory
<1>8. StartOK' /\ CommandsOK' /\ ThreadsOK' /\ HistoryOK' /\ RecordingOK'
  BY <1>5 DEF CoreStopFails, StartOK, CommandsOK, ThreadsOK, HistoryOK, RecordingOK, startHistory
<1>9. QED
  BY <1>4, <1>6, <1>7, <1>8

\* A worker that restarts keeps the invariant.
LEMMA WorkerRestartsIInv == ASSUME IInv, NEW w \in Workers, WorkerRestarts(w) PROVE IInv'
<1> USE DEF IInv, TypeOK, BarrierInv
<1>1. /\ cmds' \in [Workers -> Seq(Commands)]
      /\ \A k \in Workers : InFlight(cmds'[k]) \subseteq InFlight(cmds[k])
  BY CommandsLost DEF WorkerRestarts
<1>2. count' \in [Counters -> Nat] /\ count'["starts"] = count["starts"]
  BY DEF WorkerRestarts, Count, HistoryTypeOK, Counters
<1>3. recording' \in [Subjects -> StartIds \cup {NoId}] /\ \A s \in Subjects : recording'[s] \in {recording[s], NoId}
  BY DEF WorkerRestarts, Recording, CoreTypeOK
<1>4. CoreTypeOK'
  BY <1>3 DEF WorkerRestarts, CoreTypeOK
<1>5. MasterTypeOK' /\ TransportTypeOK' /\ HistoryTypeOK'
  BY <1>1, <1>2 DEF WorkerRestarts, MasterTypeOK, TransportTypeOK, HistoryTypeOK, startHistory, stopHistory
<1>6. CoreOK' /\ GateOK'
  BY DEF WorkerRestarts, CoreOK, GateOK, CoreTypeOK, startHistory
<1>7. CommandsOK'
  BY <1>1 DEF WorkerRestarts, CommandsOK, startHistory
<1>8. StartOK' /\ EventsOK' /\ ThreadsOK' /\ HistoryOK' /\ RecordingOK'
  BY <1>2, <1>3 DEF WorkerRestarts, StartOK, EventsOK, ThreadsOK, HistoryOK, RecordingOK, startHistory
<1>9. QED
  BY <1>4, <1>5, <1>6, <1>7, <1>8

\* A worker that reconnects keeps the invariant.
LEMMA WorkerReconnectsIInv == ASSUME IInv, NEW w \in Workers, WorkerReconnects(w) PROVE IInv'
<1> USE DEF IInv, TypeOK, BarrierInv
<1>1. /\ cmds' \in [Workers -> Seq(Commands)]
      /\ \A k \in Workers : InFlight(cmds'[k]) \subseteq InFlight(cmds[k])
  BY CommandsLost DEF WorkerReconnects
<1>2. /\ evts' \in [Nodes -> Seq(Events)]
      /\ \A k \in Nodes : InFlight(evts'[k]) \subseteq InFlight(evts[k])
  <2>1. PICK k \in 0..Len(evts[w]) : evts' = [evts EXCEPT ![w] = SubSeq(evts[w], 1, k)]
    BY DEF WorkerReconnects
  <2>2. w \in Nodes /\ evts[w] \in Seq(Events) /\ evts \in [Nodes -> Seq(Events)]
    BY DEF Workers, TransportTypeOK
  <2>3. SubSeq(evts[w], 1, k) \in Seq(Events) /\ InFlight(SubSeq(evts[w], 1, k)) \subseteq InFlight(evts[w])
    BY <2>2, PrefixInFlight
  <2>4. QED
    BY <2>1, <2>2, <2>3
<1>3. count' \in [Counters -> Nat] /\ count'["starts"] = count["starts"]
  BY DEF WorkerReconnects, Count, HistoryTypeOK, Counters
<1>4. MasterTypeOK' /\ CoreTypeOK' /\ TransportTypeOK' /\ HistoryTypeOK'
  BY <1>1, <1>2, <1>3 DEF WorkerReconnects, MasterTypeOK, CoreTypeOK, TransportTypeOK, HistoryTypeOK,
     coreVars, startHistory, stopHistory
<1>5. CommandsOK' /\ EventsOK'
  BY <1>1, <1>2 DEF WorkerReconnects, CommandsOK, EventsOK, startHistory
<1>6. CoreOK' /\ GateOK' /\ StartOK' /\ ThreadsOK' /\ HistoryOK' /\ RecordingOK'
  BY <1>3 DEF WorkerReconnects, CoreOK, GateOK, StartOK, ThreadsOK, HistoryOK, RecordingOK, startHistory, coreVars
<1>7. QED
  BY <1>4, <1>5, <1>6

\* START in a Core: it leaves its earlier start session for the new one.
LEMMA CoreStartOK ==
  ASSUME CoreTypeOK, CoreOK, GateOK, NEW n \in Nodes, NEW id \in StartIds, NEW S \in SUBSET Subjects,
         CoreStart(n, id, S), n \in expectedOf'[id],
         \A i \in StartIds : expectedOf[i] \subseteq expectedOf'[i],
         UNCHANGED <<everReady, committed>>
  PROVE  /\ CoreTypeOK' /\ CoreOK' /\ GateOK'
         /\ \A s \in Subjects : recording'[s] \in {recording[s], NoId}
<1>1. CASE configured[n]
  <2>1. /\ phase' = [phase EXCEPT ![n] = "starting"]
        /\ sid' = [sid EXCEPT ![n] = id]
        /\ session' = [session EXCEPT ![n] = id]
        /\ members' = [members EXCEPT ![n] = S]
        /\ recording' = Recording(S, NoId)
        /\ UNCHANGED <<configured, stopping>>
    BY <1>1 DEF CoreStart
  <2>2. CoreTypeOK'
    BY <2>1 DEF CoreTypeOK, Recording
  <2>3. CoreOK'
    BY <2>1 DEF CoreTypeOK, CoreOK
  <2>4. GateOK'
    BY <2>1 DEF CoreTypeOK, GateOK
  <2>5. \A s \in Subjects : recording'[s] \in {recording[s], NoId}
    BY <2>1 DEF Recording
  <2>6. QED
    BY <2>2, <2>3, <2>4, <2>5
<1>2. CASE ~configured[n]
  <2>1. UNCHANGED coreVars
    BY <1>2 DEF CoreStart
  <2>2. CoreTypeOK' /\ GateOK' /\ \A s \in Subjects : recording'[s] \in {recording[s], NoId}
    BY <2>1 DEF coreVars, CoreTypeOK, GateOK
  <2>3. CoreOK'
    BY <2>1 DEF coreVars, CoreOK
  <2>4. QED
    BY <2>2, <2>3
<1>3. QED
  BY <1>1, <1>2

\* A commit in a Core: a Core opens its recording for its own, committed start session.
LEMMA CoreCommitOK ==
  ASSUME IInv, NEW n \in Nodes, NEW id \in committed, CoreCommit(n, id),
         UNCHANGED <<expectedOf, everReady, committed>>
  PROVE  /\ CoreTypeOK' /\ CoreOK' /\ GateOK' /\ RecordingOK' /\ EventsOK'
         /\ evts' \in [Nodes -> Seq(Events)]
         /\ opened' \in [StartIds -> SUBSET Nodes]
<1> USE DEF IInv, TypeOK, BarrierInv
<1> DEFINE opens == sid[n] = id /\ phase[n] = "ready"
           repeats == sid[n] = id /\ phase[n] = "official"
           e == Evt("official", id, session[n], {}, TRUE)
<1>1. id \in StartIds
  BY DEF HistoryTypeOK
<1>2. /\ phase' = IF opens THEN [phase EXCEPT ![n] = "official"] ELSE phase
      /\ recording' = IF opens THEN Recording(members[n], session[n]) ELSE recording
      /\ opened' = IF opens THEN [opened EXCEPT ![id] = @ \cup {n}] ELSE opened
      /\ evts' = IF opens \/ repeats THEN Sent(n, e) ELSE evts
      /\ UNCHANGED <<sid, session, members, configured, stopping>>
  BY DEF CoreCommit
<1>3. opens \/ repeats => session[n] = id
  BY DEF CoreOK
<1>4. CoreTypeOK' /\ opened' \in [StartIds -> SUBSET Nodes]
  BY <1>1, <1>2, <1>3 DEF CoreTypeOK, Recording, HistoryTypeOK
<1>5. CoreOK' /\ GateOK'
  BY <1>2 DEF CoreOK, GateOK, CoreTypeOK
<1>6. RecordingOK'
  BY <1>2, <1>3 DEF RecordingOK, Recording
<1>7. evts' \in [Nodes -> Seq(Events)] /\ EventsOK'
  <2>1. CASE opens \/ repeats
    <3>1. e \in Events /\ e.type = "official"
      BY <1>1, <1>3, <2>1 DEF Evt, Events
    <3>2. evts' = Sent(n, e)
      BY <1>2, <2>1
    <3> HIDE DEF e
    <3>3. /\ evts' \in [Nodes -> Seq(Events)]
          /\ \A k \in Nodes : \A f \in InFlight(evts'[k]) : f \in InFlight(evts[k]) \/ (k = n /\ f = e)
      BY <3>1, <3>2, EventSent
    <3>4. QED
      BY <3>1, <3>3 DEF EventsOK
  <2>2. CASE ~(opens \/ repeats)
    BY <1>2, <2>2 DEF EventsOK, TransportTypeOK
  <2>3. QED
    BY <2>1, <2>2
<1>8. QED
  BY <1>4, <1>5, <1>6, <1>7

\* The beginning of a STOP in a Core.
LEMMA CoreStopBeginsOK ==
  ASSUME CoreTypeOK, CoreOK, GateOK, NEW n \in Nodes, NEW k \in StopIds, NEW S \in SUBSET Subjects,
         CoreStopBegins(n, k, S), UNCHANGED startHistory
  PROVE  CoreTypeOK' /\ CoreOK' /\ GateOK' /\ recording' = recording
<1>1. /\ phase' = phase \/ phase' = [phase EXCEPT ![n] = "stopping"]
      /\ stopping' = [stopping EXCEPT ![n] = [id |-> k, subjects |-> S]]
      /\ UNCHANGED <<sid, session, members, configured, recording>>
  BY DEF CoreStopBegins
<1>2. CoreTypeOK'
  BY <1>1 DEF CoreTypeOK
<1>3. CoreOK' /\ GateOK'
  BY <1>1 DEF CoreOK, GateOK, CoreTypeOK, startHistory
<1>4. QED
  BY <1>1, <1>2, <1>3

\* A worker that receives a command keeps the invariant.
LEMMA WorkerReceivesIInv == ASSUME IInv, NEW w \in Workers, WorkerReceives(w) PROVE IInv'
<1> USE DEF IInv, TypeOK, BarrierInv
<1> DEFINE c == Head(cmds[w])
<1>1. /\ c \in Commands /\ c \in InFlight(cmds[w])
      /\ cmds' \in [Workers -> Seq(Commands)]
      /\ \A k \in Workers : InFlight(cmds'[k]) \subseteq InFlight(cmds[k])
  BY CommandReceived DEF WorkerReceives
<1>2. w \in Nodes
  BY DEF Workers
<1>3. UNCHANGED <<active, start, drain, thread, count, expectedOf, everReady, committed, stopHistory>>
  BY DEF WorkerReceives
<1> HIDE DEF c
<1>4. /\ CoreTypeOK' /\ CoreOK' /\ GateOK' /\ RecordingOK' /\ EventsOK'
      /\ evts' \in [Nodes -> Seq(Events)] /\ opened' \in [StartIds -> SUBSET Nodes]
  <2>1. CASE c.type = "start" /\ CoreStart(w, c.id, c.subjects) /\ UNCHANGED <<evts, opened>>
    <3>1. c.id \in StartIds /\ c.subjects \in SUBSET Subjects /\ w \in expectedOf[c.id]
      BY <1>1, <2>1 DEF Commands, CommandsOK
    <3>2. /\ CoreTypeOK' /\ CoreOK' /\ GateOK'
          /\ \A s \in Subjects : recording'[s] \in {recording[s], NoId}
      BY <1>2, <1>3, <2>1, <3>1, CoreStartOK
    <3>3. QED
      BY <1>3, <2>1, <3>2 DEF RecordingOK, EventsOK, TransportTypeOK, HistoryTypeOK
  <2>2. CASE c.type = "commit" /\ CoreCommit(w, c.id)
    <3>1. c.id \in committed
      BY <1>1, <2>2 DEF CommandsOK
    <3>2. QED
      BY <1>2, <1>3, <2>2, <3>1, CoreCommitOK
  <2>3. CASE c.type = "stop" /\ CoreStopBegins(w, c.id, c.subjects) /\ UNCHANGED <<evts, opened>>
    <3>1. c.id \in StopIds /\ c.subjects \in SUBSET Subjects
      BY <1>1, <2>3 DEF Commands
    <3>2. UNCHANGED startHistory
      BY <1>3, <2>3 DEF startHistory
    <3>3. CoreTypeOK' /\ CoreOK' /\ GateOK' /\ recording' = recording
      BY <1>2, <2>3, <3>1, <3>2, CoreStopBeginsOK
    <3>4. QED
      BY <1>3, <2>3, <3>3 DEF RecordingOK, EventsOK, TransportTypeOK, HistoryTypeOK
  <2>4. CASE /\ c.type = "stop"
             /\ evts' = IF c.all THEN Sent(w, Evt("drained", c.id, NoId, {}, TRUE)) ELSE evts
             /\ UNCHANGED <<coreVars, opened>>
    <3> DEFINE e == Evt("drained", c.id, NoId, {}, TRUE)
    <3>1. e \in Events /\ e.type = "drained"
      BY <1>1, <2>4 DEF Evt, Events, Commands
    <3>2. evts' = Sent(w, e) \/ evts' = evts
      BY <2>4
    <3> HIDE DEF e
    <3>3. evts' \in [Nodes -> Seq(Events)] /\ EventsOK'
      <4>1. CASE evts' = evts
        BY <1>3, <4>1 DEF EventsOK, TransportTypeOK
      <4>2. CASE evts' = Sent(w, e)
        <5>1. /\ evts' \in [Nodes -> Seq(Events)]
              /\ \A k \in Nodes : \A f \in InFlight(evts'[k]) : f \in InFlight(evts[k]) \/ (k = w /\ f = e)
          BY <1>2, <3>1, <4>2, EventSent
        <5>2. QED
          BY <1>3, <3>1, <5>1 DEF EventsOK
      <4>3. QED
        BY <3>2, <4>1, <4>2
    <3>4. CoreTypeOK' /\ CoreOK' /\ GateOK' /\ RecordingOK' /\ opened' \in [StartIds -> SUBSET Nodes]
      BY <1>3, <2>4 DEF coreVars, CoreTypeOK, CoreOK, GateOK, RecordingOK, HistoryTypeOK
    <3>5. QED
      BY <3>3, <3>4
  <2>5. QED
    BY <2>1, <2>2, <2>3, <2>4 DEF WorkerReceives, c
<1>5. MasterTypeOK' /\ TransportTypeOK' /\ HistoryTypeOK'
  BY <1>1, <1>3, <1>4 DEF MasterTypeOK, TransportTypeOK, HistoryTypeOK, stopHistory
<1>6. CommandsOK'
  BY <1>1, <1>3 DEF CommandsOK
<1>7. StartOK' /\ ThreadsOK' /\ HistoryOK'
  BY <1>3 DEF StartOK, ThreadsOK, HistoryOK
<1>8. QED
  BY <1>4, <1>5, <1>6, <1>7

\* The commit of the master's own Core keeps the invariant.
LEMMA LocalCommitIInv == ASSUME IInv, NEW t \in Threads, LocalCommit(t) PROVE IInv'
<1> USE DEF IInv, TypeOK, BarrierInv
<1>1. thread[t].id \in committed
  BY DEF LocalCommit, ThreadsOK
<1>2. /\ CoreCommit(Master, thread[t].id)
      /\ UNCHANGED <<active, start, drain, cmds, count, expectedOf, everReady, committed, stopHistory>>
  BY DEF LocalCommit
<1>3. /\ CoreTypeOK' /\ CoreOK' /\ GateOK' /\ RecordingOK' /\ EventsOK'
      /\ evts' \in [Nodes -> Seq(Events)] /\ opened' \in [StartIds -> SUBSET Nodes]
  BY <1>1, <1>2, MasterAssumption, CoreCommitOK
<1>4. thread' \in [Threads -> ThreadStates] /\ ThreadsOK'
  BY <1>2 DEF LocalCommit, MasterTypeOK, ThreadStates, ThreadsOK, Idle
<1>5. MasterTypeOK' /\ TransportTypeOK' /\ HistoryTypeOK'
  BY <1>2, <1>3, <1>4 DEF MasterTypeOK, TransportTypeOK, HistoryTypeOK, stopHistory
<1>6. StartOK' /\ CommandsOK' /\ HistoryOK'
  BY <1>2 DEF StartOK, CommandsOK, HistoryOK
<1>7. QED
  BY <1>3, <1>4, <1>5, <1>6

\* The fan-out of a commit: only of a start whose participants have all been ready.
LEMMA DispatchCommitOK ==
  ASSUME IInv, NEW t \in Threads, NEW id \in StartIds, DispatchCommit(t, id),
         UNCHANGED <<expectedOf, everReady>>, count'["starts"] = count["starts"]
  PROVE  /\ start' \in [id : StartIds \cup {NoId}, expected : SUBSET Nodes, ready : SUBSET Nodes,
                         official : SUBSET Nodes, announced : BOOLEAN, committed : BOOLEAN]
         /\ thread' \in [Threads -> ThreadStates]
         /\ cmds' \in [Workers -> Seq(Commands)]
         /\ committed' \subseteq StartIds /\ committed \subseteq committed'
         /\ StartOK' /\ CommandsOK' /\ ThreadsOK' /\ HistoryOK'
<1> USE DEF IInv, TypeOK, BarrierInv
<1>1. CASE start.id = id /\ start.ready = start.expected
  <2> DEFINE c == [w \in Workers |-> Cmd("commit", id, {}, FALSE)]
  <2>1. /\ start' = [start EXCEPT !.committed = TRUE]
        /\ committed' = committed \cup {id}
        /\ FanOut(start.expected, LAMBDA w : Cmd("commit", id, {}, FALSE))
        /\ thread' = [thread EXCEPT ![t] = IF Master \in start.expected
                                          THEN [at |-> "local", id |-> id, ts |-> NoId] ELSE Idle]
    BY <1>1 DEF DispatchCommit
  <2>2. c \in [Workers -> Commands] /\ \A w \in Workers : c[w].type = "commit" /\ c[w].id = id
    BY DEF Cmd, Commands
  <2>3. cmds' = [w \in Workers |-> IF w \in start.expected THEN Append(cmds[w], c[w]) ELSE cmds[w]]
    BY <2>1 DEF FanOut
  <2> HIDE DEF c
  <2>4. /\ cmds' \in [Workers -> Seq(Commands)]
        /\ \A w \in Workers : \A d \in InFlight(cmds'[w]) :
             d \in InFlight(cmds[w]) \/ (w \in start.expected /\ d = c[w])
    BY <2>2, <2>3, CommandQueued DEF TransportTypeOK
  <2>5. /\ start' \in [id : StartIds \cup {NoId}, expected : SUBSET Nodes, ready : SUBSET Nodes,
                        official : SUBSET Nodes, announced : BOOLEAN, committed : BOOLEAN]
        /\ start'.id = start.id /\ start'.expected = start.expected /\ start'.ready = start.ready
    BY <2>1 DEF MasterTypeOK
  <2>6. thread' \in [Threads -> ThreadStates] /\ ThreadsOK'
    BY <2>1 DEF MasterTypeOK, ThreadStates, ThreadsOK, Idle
  <2>7. CommandsOK'
    BY <2>1, <2>2, <2>4 DEF CommandsOK
  <2>8. id # NoId /\ start.expected = expectedOf[id] /\ start.expected # {} /\ start.ready \subseteq everReady[id]
    BY <1>1 DEF StartOK, StartIds, NoId
  <2>9. HistoryOK'
    BY <1>1, <2>1, <2>8 DEF HistoryOK
  <2>10. QED
    BY <2>1, <2>4, <2>5, <2>6, <2>7, <2>9 DEF StartOK, HistoryTypeOK
<1>2. CASE ~(start.id = id /\ start.ready = start.expected)
  <2>1. thread' = [thread EXCEPT ![t] = Idle] /\ UNCHANGED <<start, committed, cmds>>
    BY <1>2 DEF DispatchCommit
  <2>2. thread' \in [Threads -> ThreadStates] /\ ThreadsOK'
    BY <2>1 DEF MasterTypeOK, ThreadStates, ThreadsOK, Idle
  <2>3. QED
    BY <2>1, <2>2 DEF MasterTypeOK, TransportTypeOK, HistoryTypeOK, StartOK, CommandsOK, HistoryOK
<1>3. QED
  BY <1>1, <1>2

\* A commit by the client keeps the invariant.
LEMMA ClientCommitIInv == ASSUME IInv, NEW id \in StartIds, ClientCommit(id) PROVE IInv'
<1> USE DEF IInv, TypeOK, BarrierInv
<1>1. /\ DispatchCommit("gateway", id)
      /\ UNCHANGED <<active, drain, coreVars, evts, expectedOf, everReady, opened, stopHistory>>
  BY DEF ClientCommit
<1>2. count' \in [Counters -> Nat] /\ count'["starts"] = count["starts"]
  BY DEF ClientCommit, Count, HistoryTypeOK, Counters
<1>3. "gateway" \in Threads
  BY DEF Threads
<1>4. /\ start' \in [id : StartIds \cup {NoId}, expected : SUBSET Nodes, ready : SUBSET Nodes,
                      official : SUBSET Nodes, announced : BOOLEAN, committed : BOOLEAN]
      /\ thread' \in [Threads -> ThreadStates]
      /\ cmds' \in [Workers -> Seq(Commands)]
      /\ committed' \subseteq StartIds /\ committed \subseteq committed'
      /\ StartOK' /\ CommandsOK' /\ ThreadsOK' /\ HistoryOK'
  BY <1>1, <1>2, <1>3, DispatchCommitOK
<1>5. MasterTypeOK' /\ CoreTypeOK' /\ TransportTypeOK' /\ HistoryTypeOK'
  BY <1>1, <1>2, <1>4 DEF MasterTypeOK, CoreTypeOK, TransportTypeOK, HistoryTypeOK, coreVars, stopHistory
<1>6. CoreOK' /\ GateOK' /\ EventsOK' /\ RecordingOK'
  BY <1>1, <1>4 DEF CoreOK, GateOK, EventsOK, RecordingOK, coreVars
<1>7. QED
  BY <1>4, <1>5, <1>6

\* An automatic commit keeps the invariant.
LEMMA AutoCommitIInv == ASSUME IInv, NEW t \in Threads, AutoCommit(t) PROVE IInv'
<1> USE DEF IInv, TypeOK, BarrierInv
<1>1. /\ DispatchCommit(t, thread[t].id)
      /\ UNCHANGED <<active, drain, coreVars, evts, count, expectedOf, everReady, opened, stopHistory>>
  BY DEF AutoCommit
<1>2. thread[t].id \in StartIds
  BY DEF AutoCommit, MasterTypeOK, ThreadStates, Idle
<1>3. /\ start' \in [id : StartIds \cup {NoId}, expected : SUBSET Nodes, ready : SUBSET Nodes,
                      official : SUBSET Nodes, announced : BOOLEAN, committed : BOOLEAN]
      /\ thread' \in [Threads -> ThreadStates]
      /\ cmds' \in [Workers -> Seq(Commands)]
      /\ committed' \subseteq StartIds /\ committed \subseteq committed'
      /\ StartOK' /\ CommandsOK' /\ ThreadsOK' /\ HistoryOK'
  BY <1>1, <1>2, DispatchCommitOK
<1>4. MasterTypeOK' /\ CoreTypeOK' /\ TransportTypeOK' /\ HistoryTypeOK'
  BY <1>1, <1>3 DEF MasterTypeOK, CoreTypeOK, TransportTypeOK, HistoryTypeOK, coreVars, stopHistory
<1>5. CoreOK' /\ GateOK' /\ EventsOK' /\ RecordingOK'
  BY <1>1, <1>3 DEF CoreOK, GateOK, EventsOK, RecordingOK, coreVars
<1>6. QED
  BY <1>3, <1>4, <1>5

\* A Start of the client keeps the invariant.
LEMMA ClientStartIInv == ASSUME IInv, NEW S \in (SUBSET Subjects) \ {{}}, ClientStart(S) PROVE IInv'
<1> USE DEF IInv, TypeOK, BarrierInv
<1>0. PICK id \in StartIds : id = count["starts"] + 1
  BY DEF ClientStart
<1> DEFINE c == [w \in Workers |-> Cmd("start", id, S \cap OwnedBy(w), FALSE)]
<1>1. NodesOf(S) \in SUBSET Nodes /\ NodesOf(S) # {}
  BY AssignAssumption DEF NodesOf
<1>2. id \in StartIds /\ expectedOf[id] = {} /\ count["starts"] \in Nat
  BY <1>0 DEF ClientStart, HistoryOK, HistoryTypeOK, Counters
<1>3. /\ active' = active \cup S
      /\ start' = [id |-> id, expected |-> NodesOf(S), ready |-> {}, official |-> {},
                   announced |-> FALSE, committed |-> FALSE]
      /\ expectedOf' = [expectedOf EXCEPT ![id] = NodesOf(S)]
      /\ UNCHANGED <<drain, thread, evts, everReady, opened, committed, stopHistory>>
  BY <1>0 DEF ClientStart
<1>4. IF Master \in NodesOf(S) THEN CoreStart(Master, id, S \cap OwnedBy(Master)) ELSE UNCHANGED coreVars
  BY <1>0 DEF ClientStart
<1>5. c \in [Workers -> Commands] /\ \A w \in Workers : c[w].type = "start" /\ c[w].id = id
  BY <1>2 DEF Cmd, Commands
<1>6. count' \in [Counters -> Nat] /\ count'["starts"] = id
  BY <1>0 DEF ClientStart, Count, HistoryTypeOK, Counters
<1> HIDE DEF c
<1>7. /\ cmds' \in [Workers -> Seq(Commands)]
      /\ \A w \in Workers : \A d \in InFlight(cmds'[w]) :
           d \in InFlight(cmds[w]) \/ (w \in NodesOf(S) /\ d = c[w])
  <2>1. cmds' = [w \in Workers |-> IF w \in NodesOf(S) THEN Append(cmds[w], c[w]) ELSE cmds[w]]
    BY <1>0 DEF ClientStart, FanOut, c
  <2>2. QED
    BY <1>5, <2>1, CommandQueued DEF TransportTypeOK
<1>8. /\ expectedOf' \in [StartIds -> SUBSET Nodes] /\ expectedOf'[id] = NodesOf(S)
      /\ \A i \in StartIds : expectedOf[i] \subseteq expectedOf'[i] /\ (i # id => expectedOf'[i] = expectedOf[i])
  BY <1>1, <1>2, <1>3 DEF HistoryTypeOK
<1>9. CoreTypeOK' /\ CoreOK' /\ GateOK' /\ \A s \in Subjects : recording'[s] \in {recording[s], NoId}
  <2>1. CASE Master \in NodesOf(S)
    <3>1. S \cap OwnedBy(Master) \in SUBSET Subjects
      BY DEF OwnedBy
    <3>2. QED
      BY <1>2, <1>3, <1>4, <1>8, <2>1, <3>1, CoreStartOK, MasterAssumption
  <2>2. CASE Master \notin NodesOf(S)
    <3>1. UNCHANGED coreVars
      BY <1>4, <2>2
    <3>2. CoreOK'
      BY <1>8, <3>1 DEF CoreOK, coreVars
    <3>3. QED
      BY <1>3, <3>1, <3>2 DEF CoreTypeOK, GateOK, coreVars
  <2>3. QED
    BY <2>1, <2>2
<1>10. MasterTypeOK'
  BY <1>1, <1>2, <1>3 DEF MasterTypeOK
<1>11. TransportTypeOK' /\ HistoryTypeOK'
  BY <1>3, <1>6, <1>7, <1>8 DEF TransportTypeOK, HistoryTypeOK, stopHistory
<1>12. StartOK'
  BY <1>1, <1>3, <1>8 DEF StartOK
<1>13. CommandsOK'
  <2>1. \A d \in Commands : d.type = "start" => d.id \in StartIds
    BY DEF Commands
  <2>2. ASSUME NEW w \in Workers, NEW d \in InFlight(cmds'[w])
        PROVE  (d.type = "start" => w \in expectedOf'[d.id]) /\ (d.type = "commit" => d.id \in committed')
    <3>1. CASE d \in InFlight(cmds[w])
      BY <1>3, <1>8, <2>1, <2>2, <3>1, InFlightTyped DEF CommandsOK
    <3>2. CASE w \in NodesOf(S) /\ d = c[w]
      BY <1>5, <1>8, <2>2, <3>2
    <3>3. QED
      BY <1>7, <2>2, <3>1, <3>2
  <2>3. QED
    BY <2>2 DEF CommandsOK
<1>14. HistoryOK'
  <2>1. \A i \in committed : i # id
    BY <1>2 DEF HistoryOK
  <2>2. ASSUME NEW i \in StartIds, i > id PROVE i > count["starts"] /\ i # id
    BY <1>0, <1>2, <2>2 DEF StartIds
  <2>3. QED
    BY <1>3, <1>6, <1>8, <2>1, <2>2 DEF HistoryOK, HistoryTypeOK
<1>15. EventsOK' /\ ThreadsOK' /\ RecordingOK'
  BY <1>3, <1>9 DEF EventsOK, ThreadsOK, RecordingOK
<1>16. QED
  BY <1>9, <1>10, <1>11, <1>12, <1>13, <1>14, <1>15

\* A Stop that is accepted keeps the invariant.
LEMMA StopIInv ==
  ASSUME IInv, NEW k \in StopIds, NEW S \in SUBSET Subjects, NEW all \in BOOLEAN, Stop(k, S, all),
         count' \in [Counters -> Nat], count'["starts"] = count["starts"]
  PROVE  IInv'
<1> USE DEF IInv, TypeOK, BarrierInv
<1> DEFINE c == [w \in Workers |-> Cmd("stop", k, S \cap OwnedBy(w), all)]
<1>1. NodesOf(S) \in SUBSET Nodes
  BY AssignAssumption DEF NodesOf
<1>2. /\ drain' = [drain EXCEPT ![k] = DrainRecord(S, all)]
      /\ aggregated' = aggregated \ {k}
      /\ cmds' = [w \in Workers |-> IF w \in NodesOf(S) THEN Append(cmds[w], c[w]) ELSE cmds[w]]
      /\ UNCHANGED <<active, start, thread, evts, startHistory, archives, refused>>
  BY DEF Stop, FanOut
<1>3. IF Master \in NodesOf(S) THEN CoreStopBegins(Master, k, S \cap OwnedBy(Master)) ELSE UNCHANGED coreVars
  BY DEF Stop
<1>4. c \in [Workers -> Commands] /\ \A w \in Workers : c[w].type = "stop"
  BY DEF Cmd, Commands
<1> HIDE DEF c
<1>5. /\ cmds' \in [Workers -> Seq(Commands)]
      /\ \A w \in Workers : \A d \in InFlight(cmds'[w]) :
           d \in InFlight(cmds[w]) \/ (w \in NodesOf(S) /\ d = c[w])
  BY <1>2, <1>4, CommandQueued DEF TransportTypeOK
<1>6. drain' \in [StopIds -> DrainRecords]
  <2>1. DrainRecord(S, all) \in DrainRecords
    BY <1>1 DEF DrainRecord, DrainRecords, Acks, NoAck, NoId
  <2>2. QED
    BY <1>2, <2>1 DEF MasterTypeOK
<1>7. CoreTypeOK' /\ CoreOK' /\ GateOK' /\ recording' = recording
  <2>1. CASE Master \in NodesOf(S)
    <3>1. S \cap OwnedBy(Master) \in SUBSET Subjects /\ UNCHANGED startHistory
      BY <1>2 DEF OwnedBy
    <3>2. QED
      BY <1>3, <2>1, <3>1, CoreStopBeginsOK, MasterAssumption
  <2>2. CASE Master \notin NodesOf(S)
    BY <1>2, <1>3, <2>2 DEF CoreTypeOK, CoreOK, GateOK, coreVars, startHistory
  <2>3. QED
    BY <2>1, <2>2
<1>8. MasterTypeOK' /\ TransportTypeOK' /\ HistoryTypeOK'
  BY <1>2, <1>5, <1>6 DEF MasterTypeOK, TransportTypeOK, HistoryTypeOK, startHistory
<1>9. CommandsOK'
  BY <1>2, <1>4, <1>5 DEF CommandsOK, startHistory
<1>10. StartOK' /\ EventsOK' /\ ThreadsOK' /\ HistoryOK' /\ RecordingOK'
  BY <1>2, <1>7 DEF StartOK, EventsOK, ThreadsOK, HistoryOK, RecordingOK, startHistory
<1>11. QED
  BY <1>7, <1>8, <1>9, <1>10

\* A new Stop of the client keeps the invariant.
LEMMA ClientStopIInv ==
  ASSUME IInv, NEW S \in SUBSET Subjects, NEW all \in BOOLEAN, ClientStop(S, all) PROVE IInv'
<1>1. count["stops"] + 1 \in StopIds /\ Stop(count["stops"] + 1, S, all)
  BY DEF ClientStop
<1>2. count' \in [Counters -> Nat] /\ count'["starts"] = count["starts"]
  BY DEF ClientStop, Count, IInv, TypeOK, HistoryTypeOK, Counters
<1>3. QED
  BY <1>1, <1>2, StopIInv

\* A repeated Stop of the client keeps the invariant.
LEMMA ClientRetriesStopIInv == ASSUME IInv, NEW k \in StopIds, ClientRetriesStop(k) PROVE IInv'
<1>1. Stop(k, drain[k].subjects, drain[k].all)
  BY DEF ClientRetriesStop
<1>2. drain[k].subjects \in SUBSET Subjects /\ drain[k].all \in BOOLEAN
  BY DEF IInv, TypeOK, MasterTypeOK, DrainRecords
<1>3. count' \in [Counters -> Nat] /\ count'["starts"] = count["starts"]
  BY DEF ClientRetriesStop, Count, IInv, TypeOK, HistoryTypeOK, Counters
<1>4. QED
  BY <1>1, <1>2, <1>3, StopIInv

\* The handler of a ready event.
LEMMA RecordReadyOK ==
  ASSUME IInv, NEW n \in Nodes, NEW e \in Events, e.type = "ready", n \in everReady[e.id],
         RecordReady(n, e), UNCHANGED startHistory
  PROVE  /\ start' \in [id : StartIds \cup {NoId}, expected : SUBSET Nodes, ready : SUBSET Nodes,
                         official : SUBSET Nodes, announced : BOOLEAN, committed : BOOLEAN]
         /\ thread' \in [Threads -> ThreadStates]
         /\ StartOK' /\ ThreadsOK'
<1> USE DEF IInv, TypeOK, BarrierInv
<1>1. CASE start.id = e.id /\ n \in start.expected
  <2> DEFINE ready == start.ready \cup {n}
             announce == ready = start.expected /\ ~start.announced
             commit == [at |-> "commit", id |-> e.id, ts |-> NoId]
  <2>1. /\ start' = [start EXCEPT !.ready = ready, !.announced = start.announced \/ announce]
        /\ thread' = IF announce THEN [thread EXCEPT ![EventThread(n)] = commit] ELSE thread
    BY <1>1 DEF RecordReady
  <2>2. /\ start' \in [id : StartIds \cup {NoId}, expected : SUBSET Nodes, ready : SUBSET Nodes,
                        official : SUBSET Nodes, announced : BOOLEAN, committed : BOOLEAN]
        /\ start'.id = start.id /\ start'.expected = start.expected /\ start'.ready = start.ready \cup {n}
    BY <2>1 DEF MasterTypeOK
  <2>3. StartOK'
    BY <1>1, <2>2 DEF StartOK, startHistory
  <2>4. commit \in ThreadStates /\ commit.at = "commit" /\ EventThread(n) \in Threads
    BY DEF ThreadStates, Events, EventThread, Threads
  <2>5. thread' \in [Threads -> ThreadStates] /\ ThreadsOK'
    BY <2>1, <2>4 DEF MasterTypeOK, ThreadsOK, startHistory
  <2>6. QED
    BY <2>2, <2>3, <2>5
<1>2. CASE ~(start.id = e.id /\ n \in start.expected)
  <2>1. UNCHANGED <<start, thread>>
    BY <1>2 DEF RecordReady
  <2>2. QED
    BY <2>1 DEF MasterTypeOK, StartOK, ThreadsOK, startHistory
<1>3. QED
  BY <1>1, <1>2

\* SharedTimestamp yields a session or nothing.
LEMMA SharedTimestampType ==
  ASSUME NEW acks \in [Nodes -> Acks]
  PROVE  SharedTimestamp(acks) \in StartIds \cup {NoId}
<1> DEFINE stamps == {acks[n].ts : n \in {k \in Nodes : acks[k].acked}} \ {NoId}
<1>1. stamps \subseteq StartIds
  BY DEF Acks
<1>2. CASE Cardinality(stamps) = 1
  <2>1. stamps # {}
    BY <1>2, FS_EmptySet
  <2>2. (CHOOSE ts \in stamps : TRUE) \in stamps
    BY <2>1
  <2>3. QED
    BY <1>1, <1>2, <2>2 DEF SharedTimestamp
<1>3. CASE Cardinality(stamps) # 1
  BY <1>3 DEF SharedTimestamp
<1>4. QED
  BY <1>2, <1>3

\* The handler of a drained event.
LEMMA RecordDrainedOK ==
  ASSUME IInv, NEW n \in Nodes, NEW e \in Events, e.type = "drained", RecordDrained(n, e),
         UNCHANGED startHistory
  PROVE  /\ active' \subseteq Subjects
         /\ drain' \in [StopIds -> DrainRecords]
         /\ thread' \in [Threads -> ThreadStates]
         /\ aggregated' \subseteq StopIds
         /\ ThreadsOK'
<1> USE DEF IInv, TypeOK, BarrierInv
<1>1. CASE e.id = NoId \/ drain[e.id].subjects = {}
  <2>1. UNCHANGED <<active, drain, thread, aggregated>>
    BY <1>1 DEF RecordDrained
  <2>2. QED
    BY <2>1 DEF MasterTypeOK, HistoryTypeOK, ThreadsOK, startHistory
<1>2. CASE ~(e.id = NoId \/ drain[e.id].subjects = {})
  <2> DEFINE record == WithAck(drain[e.id], n, e)
             left == active \ DrainedSubjects(record)
             finalize == [at |-> "finalize", id |-> e.id, ts |-> SharedTimestamp(record.acks)]
  <2>1. e.id \in StopIds /\ e.ts \in StartIds \cup {NoId} /\ e.subjects \in SUBSET Subjects /\ e.drained \in BOOLEAN
    BY <1>2 DEF Events
  <2>2. record \in DrainRecords
    <3>1. drain[e.id] \in DrainRecords
      BY <2>1 DEF MasterTypeOK
    <3>2. [acked |-> TRUE, subjects |-> e.subjects, ts |-> e.ts, drained |-> e.drained] \in Acks
      BY <2>1 DEF Acks
    <3>3. QED
      BY <3>1, <3>2 DEF WithAck, DrainRecords
  <2>3. finalize \in ThreadStates /\ finalize.at = "finalize"
    <3>1. record.acks \in [Nodes -> Acks]
      BY <2>2 DEF DrainRecords
    <3> HIDE DEF record
    <3>2. SharedTimestamp(record.acks) \in StartIds \cup {NoId}
      BY <3>1, SharedTimestampType
    <3>3. QED
      BY <2>1, <3>2 DEF ThreadStates
  <2>4. EventThread(n) \in Threads
    BY DEF EventThread, Threads
  <2>5. CASE ~DrainComplete(record)
    <3>1. drain' = [drain EXCEPT ![e.id] = record] /\ UNCHANGED <<active, thread, aggregated>>
      BY <1>2, <2>5 DEF RecordDrained
    <3> HIDE DEF record
    <3>2. QED
      BY <2>1, <2>2, <3>1 DEF MasterTypeOK, HistoryTypeOK, ThreadsOK, startHistory
  <2>6. CASE DrainComplete(record)
    <3>1. /\ active' = left
          /\ drain' = [drain EXCEPT ![e.id] = [record EXCEPT !.finalizing = (left = {}),
                                                            !.finalized = (left # {})]]
          /\ thread' = IF left = {} THEN [thread EXCEPT ![EventThread(n)] = finalize] ELSE thread
          /\ aggregated' = IF left = {} THEN aggregated ELSE aggregated \cup {e.id}
      BY <1>2, <2>6 DEF RecordDrained
    <3>2. left \subseteq Subjects
      BY DEF MasterTypeOK
    <3> HIDE DEF record, left, finalize
    <3>3. [record EXCEPT !.finalizing = (left = {}), !.finalized = (left # {})] \in DrainRecords
      BY <2>2 DEF DrainRecords
    <3>4. drain' \in [StopIds -> DrainRecords]
      BY <2>1, <3>1, <3>3 DEF MasterTypeOK
    <3>5. thread' \in [Threads -> ThreadStates] /\ ThreadsOK'
      BY <2>3, <2>4, <3>1 DEF MasterTypeOK, ThreadsOK, startHistory
    <3>6. QED
      BY <2>1, <3>1, <3>2, <3>4, <3>5 DEF HistoryTypeOK
  <2>7. QED
    BY <2>5, <2>6
<1>3. QED
  BY <1>1, <1>2

\* The master's handling of an event keeps the invariant.
LEMMA HandleEventIInv == ASSUME IInv, NEW n \in Nodes, HandleEvent(n) PROVE IInv'
<1> USE DEF IInv, TypeOK, BarrierInv
<1> DEFINE e == Head(evts[n])
<1>1. /\ e \in Events /\ e \in InFlight(evts[n])
      /\ evts' \in [Nodes -> Seq(Events)]
      /\ \A k \in Nodes : InFlight(evts'[k]) \subseteq InFlight(evts[k])
  BY EventReceived DEF HandleEvent
<1>2. UNCHANGED <<coreVars, cmds, count, startHistory, archives, refused>>
  BY DEF HandleEvent
<1>3. /\ MasterTypeOK' /\ aggregated' \subseteq StopIds
      /\ StartOK' /\ ThreadsOK'
  <2>1. CASE e.type = "ready" /\ RecordReady(n, e) /\ UNCHANGED <<active, drain, aggregated>>
    <3>1. n \in everReady[e.id]
      BY <1>1, <2>1 DEF EventsOK
    <3> HIDE DEF e
    <3>2. /\ start' \in [id : StartIds \cup {NoId}, expected : SUBSET Nodes, ready : SUBSET Nodes,
                          official : SUBSET Nodes, announced : BOOLEAN, committed : BOOLEAN]
          /\ thread' \in [Threads -> ThreadStates] /\ StartOK' /\ ThreadsOK'
      BY <1>1, <1>2, <2>1, <3>1, RecordReadyOK
    <3>3. QED
      BY <2>1, <3>2 DEF MasterTypeOK, HistoryTypeOK
  <2>2. CASE e.type = "official" /\ RecordOfficial(n, e) /\ UNCHANGED <<active, drain, thread, aggregated>>
    <3>1. /\ start' \in [id : StartIds \cup {NoId}, expected : SUBSET Nodes, ready : SUBSET Nodes,
                          official : SUBSET Nodes, announced : BOOLEAN, committed : BOOLEAN]
          /\ start'.id = start.id /\ start'.expected = start.expected /\ start'.ready = start.ready
      BY <2>2 DEF RecordOfficial, MasterTypeOK
    <3>2. QED
      BY <1>2, <2>2, <3>1 DEF MasterTypeOK, HistoryTypeOK, StartOK, ThreadsOK, startHistory
  <2>3. CASE e.type = "drained" /\ RecordDrained(n, e) /\ UNCHANGED start
    <3> HIDE DEF e
    <3>1. /\ active' \subseteq Subjects
          /\ drain' \in [StopIds -> DrainRecords]
          /\ thread' \in [Threads -> ThreadStates]
          /\ aggregated' \subseteq StopIds
          /\ ThreadsOK'
      BY <1>1, <1>2, <2>3, RecordDrainedOK
    <3>2. QED
      BY <1>2, <2>3, <3>1 DEF MasterTypeOK, StartOK, startHistory
  <2>4. QED
    BY <2>1, <2>2, <2>3 DEF HandleEvent
<1>4. CoreTypeOK' /\ TransportTypeOK' /\ HistoryTypeOK'
  BY <1>1, <1>2, <1>3 DEF CoreTypeOK, TransportTypeOK, HistoryTypeOK, coreVars, startHistory
<1>5. EventsOK'
  BY <1>1, <1>2 DEF EventsOK, startHistory
<1>6. CoreOK' /\ GateOK' /\ CommandsOK' /\ HistoryOK' /\ RecordingOK'
  BY <1>2 DEF CoreOK, GateOK, CommandsOK, HistoryOK, RecordingOK, coreVars, startHistory
<1>7. QED
  BY <1>3, <1>4, <1>5, <1>6

\* The end of the finalization callback.
LEMMA FinalizedIInv ==
  ASSUME IInv, NEW t \in Threads, NEW ok \in BOOLEAN, thread[t].at = "finalize", Finalized(t, ok),
         ok => thread[t].ts # NoId,
         count' \in [Counters -> Nat], count'["starts"] = count["starts"], refused' \subseteq StartIds
  PROVE  IInv'
<1> USE DEF IInv, TypeOK, BarrierInv
<1>1. thread[t].id \in StopIds /\ thread[t].ts \in StartIds \cup {NoId}
  BY DEF MasterTypeOK, ThreadStates, Idle
<1>2. /\ thread' = [thread EXCEPT ![t] = Idle]
      /\ aggregated' = aggregated \cup {thread[t].id}
      /\ archives' = IF ok THEN archives \cup {[by |-> Master, ts |-> thread[t].ts]} ELSE archives
      /\ UNCHANGED <<active, start, coreVars, cmds, evts, startHistory>>
  BY DEF Finalized
<1>3. drain' \in [StopIds -> DrainRecords]
  <2>1. PICK k \in StopIds : k = thread[t].id
    BY <1>1
  <2>2. PICK f \in BOOLEAN : f = (drain[k].finalized \/ ok)
    OBVIOUS
  <2>3. drain' = [drain EXCEPT ![k].finalizing = FALSE, ![k].finalized = f]
    BY <2>1, <2>2 DEF Finalized
  <2>4. drain \in [StopIds -> DrainRecords] /\ drain[k] \in DrainRecords
    BY DEF MasterTypeOK
  <2>5. drain' = [drain EXCEPT ![k] = [drain[k] EXCEPT !.finalizing = FALSE, !.finalized = f]]
    BY <2>3, <2>4
  <2>6. [drain[k] EXCEPT !.finalizing = FALSE, !.finalized = f] \in DrainRecords
    BY <2>4 DEF DrainRecords
  <2>7. QED
    BY <2>4, <2>5, <2>6
<1>4. thread' \in [Threads -> ThreadStates] /\ ThreadsOK'
  BY <1>2 DEF MasterTypeOK, ThreadStates, ThreadsOK, Idle, startHistory
<1>5. archives' \subseteq [by : Nodes, ts : StartIds]
  BY <1>1, <1>2, MasterAssumption DEF HistoryTypeOK
<1>6. MasterTypeOK' /\ CoreTypeOK' /\ TransportTypeOK' /\ HistoryTypeOK'
  BY <1>1, <1>2, <1>3, <1>4, <1>5 DEF MasterTypeOK, CoreTypeOK, TransportTypeOK, HistoryTypeOK,
     coreVars, startHistory
<1>7. CoreOK' /\ GateOK' /\ StartOK' /\ CommandsOK' /\ EventsOK' /\ HistoryOK' /\ RecordingOK'
  BY <1>2 DEF CoreOK, GateOK, StartOK, CommandsOK, EventsOK, HistoryOK, RecordingOK, coreVars, startHistory
<1>8. QED
  BY <1>4, <1>6, <1>7

\* A finished session keeps the invariant.
LEMMA FinalizeIInv == ASSUME IInv, NEW t \in Threads, Finalize(t) PROVE IInv'
<1>1. /\ thread[t].at = "finalize"
      /\ Finalized(t, Accepts(thread[t].ts))
      /\ refused' = IF Accepts(thread[t].ts) THEN refused ELSE refused \cup ({thread[t].ts} \ {NoId})
      /\ UNCHANGED count
  BY DEF Finalize
<1>2. Accepts(thread[t].ts) \in BOOLEAN /\ (Accepts(thread[t].ts) => thread[t].ts # NoId)
  BY DEF Accepts
<1>3. refused' \subseteq StartIds
  BY <1>1 DEF IInv, TypeOK, HistoryTypeOK, MasterTypeOK, ThreadStates, Idle
<1>4. PICK ok \in BOOLEAN : ok = Accepts(thread[t].ts)
  BY <1>2
<1>5. Finalized(t, ok) /\ (ok => thread[t].ts # NoId)
  BY <1>1, <1>2, <1>4
<1>6. count' \in [Counters -> Nat] /\ count'["starts"] = count["starts"]
  BY <1>1 DEF IInv, TypeOK, HistoryTypeOK
<1>7. QED
  BY <1>1, <1>3, <1>5, <1>6, FinalizedIInv

\* A session that cannot be finished keeps the invariant.
LEMMA FinalizeFailsIInv == ASSUME IInv, NEW t \in Threads, FinalizeFails(t) PROVE IInv'
<1>1. thread[t].at = "finalize" /\ Finalized(t, FALSE) /\ refused' = refused
  BY DEF FinalizeFails
<1>2. count' \in [Counters -> Nat] /\ count'["starts"] = count["starts"]
  BY DEF FinalizeFails, Count, IInv, TypeOK, HistoryTypeOK, Counters
<1>3. refused' \subseteq StartIds
  BY <1>1 DEF IInv, TypeOK, HistoryTypeOK
<1>4. QED
  BY <1>1, <1>2, <1>3, FinalizedIInv

-----------------------------------------------------------------------------
(* The specification preserves the invariant. *)

\* Every step keeps the invariant.
LEMMA NextIInv == IInv /\ [Next]_vars => IInv'
<1> SUFFICES ASSUME IInv, [Next]_vars PROVE IInv'
  OBVIOUS
<1>1. CASE ClientNext
  BY <1>1, ClientStartIInv, ClientStopIInv, ClientRetriesStopIInv, ClientCommitIInv DEF ClientNext
<1>2. CASE FaultNext
  BY <1>2, WorkerRestartsIInv, WorkerReconnectsIInv, CoreStopFailsIInv, FinalizeFailsIInv DEF FaultNext
<1>3. ASSUME NEW w \in Workers, WorkerReceives(w) PROVE IInv'
  BY <1>3, WorkerReceivesIInv
<1>4. ASSUME NEW n \in Nodes, NodeNext(n) \/ GateReady(n) \/ GateFails(n) PROVE IInv'
  BY <1>4, CoreStopEndsIInv, HandleEventIInv, GateReadyIInv, GateFailsIInv DEF NodeNext
<1>5. ASSUME NEW t \in Threads, ThreadNext(t) PROVE IInv'
  BY <1>5, AutoCommitIInv, LocalCommitIInv, FinalizeIInv DEF ThreadNext
<1>6. CASE UNCHANGED vars
  <2> USE <1>6 DEF vars, coreVars, startHistory, stopHistory
  <2>1. TypeOK'
    BY DEF IInv, TypeOK, MasterTypeOK, CoreTypeOK, TransportTypeOK, HistoryTypeOK
  <2>2. BarrierInv'
    BY DEF IInv, BarrierInv, CoreOK, GateOK, StartOK, CommandsOK, EventsOK, ThreadsOK, HistoryOK, RecordingOK
  <2>3. QED
    BY <2>1, <2>2 DEF IInv
<1>7. QED
  BY <1>1, <1>2, <1>3, <1>4, <1>5, <1>6 DEF Next

\* The invariant is one of the specification.
LEMMA Invariance == Spec => []IInv
BY InitIInv, NextIInv, PTL DEF Spec

\* For any set of nodes, assignment of subjects and number of commands and faults, the
\* state of MasterNode, of the Cores and of the transport keeps its types.
THEOREM TypeCorrect == Spec => []TypeOK
<1>1. IInv => TypeOK
  BY DEF IInv
<1>2. QED
  BY <1>1, Invariance, PTL

\* The barrier of CMD_START_OFFICIAL_STREAM holds for any set of nodes: whatever is lost,
\* repeated or restarted, a subject is recorded only for a start all of whose participants
\* have passed their startup gates.
THEOREM BarrierSafe == Spec => []BarrierSafety
<1>1. IInv => BarrierSafety
  BY DEF IInv, BarrierInv, RecordingOK, HistoryOK, BarrierSafety
<1>2. QED
  BY <1>1, Invariance, PTL

-----------------------------------------------------------------------------
(* Refinement: every step is a step of CoordinatedStart or leaves its      *)
(* variables alone.                                                        *)

\* A commit in a Core opens the recording of a ready node, or changes nothing abstract.
LEMMA CoreCommitRefines ==
  ASSUME IInv, NEW n \in Nodes, NEW id \in committed, CoreCommit(n, id),
         UNCHANGED <<expectedOf, everReady, committed>>
  PROVE  [Barrier!Next]_(Barrier!barrierVars)
<1>1. id \in StartIds
  BY DEF IInv, TypeOK, HistoryTypeOK
<1>2. CASE sid[n] = id /\ phase[n] = "ready"
  <2>1. opened' = [opened EXCEPT ![id] = @ \cup {n}]
    BY <1>2 DEF CoreCommit
  <2>2. n \in everReady[id]
    BY <1>2 DEF IInv, BarrierInv, GateOK
  <2>3. Barrier!Open(id, n)
    BY <2>1, <2>2 DEF Barrier!Open
  <2>4. QED
    BY <1>1, <2>3 DEF Barrier!Next
<1>3. CASE ~(sid[n] = id /\ phase[n] = "ready")
  <2>1. opened' = opened
    BY <1>3 DEF CoreCommit
  <2>2. QED
    BY <2>1 DEF Barrier!barrierVars
<1>4. QED
  BY <1>2, <1>3

\* The dispatch of a commit is the abstract commit, or changes nothing abstract.
LEMMA DispatchCommitRefines ==
  ASSUME IInv, NEW t \in Threads, NEW id \in StartIds, DispatchCommit(t, id),
         UNCHANGED <<expectedOf, everReady, opened>>
  PROVE  [Barrier!Next]_(Barrier!barrierVars)
<1>1. CASE start.id = id /\ start.ready = start.expected
  <2>1. committed' = committed \cup {id}
    BY <1>1 DEF DispatchCommit
  <2>2. expectedOf[id] # {} /\ expectedOf[id] \subseteq everReady[id]
    BY <1>1 DEF IInv, BarrierInv, StartOK, StartIds, NoId
  <2>3. Barrier!Commit(id)
    BY <2>1, <2>2 DEF Barrier!Commit
  <2>4. QED
    BY <2>3 DEF Barrier!Next
<1>2. CASE ~(start.id = id /\ start.ready = start.expected)
  <2>1. committed' = committed
    BY <1>2 DEF DispatchCommit
  <2>2. QED
    BY <2>1 DEF Barrier!barrierVars
<1>3. QED
  BY <1>1, <1>2

\* A Start of the client is a request of the barrier.
LEMMA ClientStartRefines ==
  ASSUME IInv, NEW S \in (SUBSET Subjects) \ {{}}, ClientStart(S)
  PROVE  [Barrier!Next]_(Barrier!barrierVars)
<1>1. PICK id \in StartIds : id = count["starts"] + 1
  BY DEF ClientStart
<1>2. NodesOf(S) \in SUBSET Nodes /\ NodesOf(S) # {}
  BY AssignAssumption DEF NodesOf
<1>3. expectedOf[id] = {}
  BY <1>1 DEF IInv, TypeOK, BarrierInv, HistoryOK, HistoryTypeOK, Counters, StartIds
<1>4. expectedOf' = [expectedOf EXCEPT ![id] = NodesOf(S)] /\ UNCHANGED <<everReady, committed, opened>>
  BY <1>1 DEF ClientStart
<1>5. Barrier!Begin(id, NodesOf(S))
  BY <1>3, <1>4 DEF Barrier!Begin
<1>6. QED
  BY <1>2, <1>5 DEF Barrier!Next

\* A gate that opens is a readiness of the barrier.
LEMMA GateReadyRefines ==
  ASSUME IInv, NEW n \in Nodes, GateReady(n)
  PROVE  [Barrier!Next]_(Barrier!barrierVars)
<1>1. PICK id \in StartIds : id = sid[n] /\ n \in expectedOf[id]
  BY DEF GateReady, IInv, BarrierInv, CoreOK
<1>2. Barrier!BecomeReady(id, n)
  BY <1>1 DEF GateReady, Barrier!BecomeReady
<1>3. QED
  BY <1>2 DEF Barrier!Next

\* Only commits touch the abstract state when a worker receives a command.
LEMMA WorkerReceivesRefines ==
  ASSUME IInv, NEW w \in Workers, WorkerReceives(w)
  PROVE  [Barrier!Next]_(Barrier!barrierVars)
<1>1. UNCHANGED <<expectedOf, everReady, committed>> /\ w \in Nodes
  BY DEF WorkerReceives, Workers
<1>2. CASE opened' = opened
  BY <1>1, <1>2 DEF Barrier!barrierVars
<1>3. CASE opened' # opened
  <2>1. PICK c : c = Head(cmds[w])
    OBVIOUS
  <2>2. c.type = "commit" /\ CoreCommit(w, c.id)
    BY <1>3, <2>1 DEF WorkerReceives
  <2>3. c \in InFlight(cmds[w])
    BY <2>1, CommandReceived DEF WorkerReceives, IInv, TypeOK
  <2>4. c.id \in committed
    BY <2>2, <2>3 DEF IInv, BarrierInv, CommandsOK
  <2>5. QED
    BY <1>1, <2>2, <2>4, CoreCommitRefines
<1>4. QED
  BY <1>2, <1>3

\* Every step is a step of the barrier or leaves it alone.
LEMMA NextRefines == IInv /\ [Next]_vars => [Barrier!Next]_(Barrier!barrierVars)
<1> SUFFICES ASSUME IInv, [Next]_vars PROVE [Barrier!Next]_(Barrier!barrierVars)
  OBVIOUS
<1>1. UNCHANGED startHistory => UNCHANGED Barrier!barrierVars
  BY DEF startHistory, Barrier!barrierVars
<1>2. ASSUME NEW S \in (SUBSET Subjects) \ {{}}, NEW all \in BOOLEAN, ClientStop(S, all)
      PROVE  UNCHANGED startHistory
  BY <1>2 DEF ClientStop, Stop
<1>3. ASSUME NEW k \in StopIds, ClientRetriesStop(k) PROVE UNCHANGED startHistory
  BY <1>3 DEF ClientRetriesStop, Stop
<1>4. ASSUME NEW id \in StartIds, ClientCommit(id) PROVE [Barrier!Next]_(Barrier!barrierVars)
  BY <1>4, DispatchCommitRefines DEF ClientCommit, Threads
<1>5. CASE ClientNext
  BY <1>1, <1>2, <1>3, <1>4, <1>5, ClientStartRefines DEF ClientNext
<1>6. CASE FaultNext
  BY <1>1, <1>6 DEF FaultNext, WorkerRestarts, WorkerReconnects, CoreStopFails, FinalizeFails, Finalized
<1>7. ASSUME NEW w \in Workers, WorkerReceives(w) PROVE [Barrier!Next]_(Barrier!barrierVars)
  BY <1>7, WorkerReceivesRefines
<1>8. ASSUME NEW n \in Nodes, NodeNext(n) \/ GateReady(n) \/ GateFails(n)
      PROVE  [Barrier!Next]_(Barrier!barrierVars)
  <2>1. CASE GateReady(n)
    BY <2>1, GateReadyRefines
  <2>2. CASE NodeNext(n) \/ GateFails(n)
    BY <1>1, <2>2 DEF NodeNext, CoreStopEnds, HandleEvent, GateFails
  <2>3. QED
    BY <1>8, <2>1, <2>2
<1>9. ASSUME NEW t \in Threads, ThreadNext(t) PROVE [Barrier!Next]_(Barrier!barrierVars)
  <2>1. CASE AutoCommit(t)
    <3>1. PICK id \in StartIds : id = thread[t].id
      BY <2>1 DEF AutoCommit, IInv, TypeOK, MasterTypeOK, ThreadStates, Idle
    <3>2. DispatchCommit(t, id) /\ UNCHANGED <<expectedOf, everReady, opened>>
      BY <2>1, <3>1 DEF AutoCommit
    <3>3. QED
      BY <3>2, DispatchCommitRefines
  <2>2. CASE LocalCommit(t)
    <3>1. PICK id \in committed : id = thread[t].id
      BY <2>2 DEF LocalCommit, IInv, BarrierInv, ThreadsOK
    <3>2. CoreCommit(Master, id) /\ UNCHANGED <<expectedOf, everReady, committed>>
      BY <2>2, <3>1 DEF LocalCommit
    <3>3. QED
      BY <3>2, MasterAssumption, CoreCommitRefines
  <2>3. CASE Finalize(t)
    BY <1>1, <2>3 DEF Finalize, Finalized
  <2>4. QED
    BY <1>9, <2>1, <2>2, <2>3 DEF ThreadNext
<1>10. CASE UNCHANGED vars
  BY <1>1, <1>10 DEF vars
<1>11. QED
  BY <1>5, <1>6, <1>7, <1>8, <1>9, <1>10 DEF Next

\* The master's threads, the transport and the Cores implement CoordinatedStart: a start is
\* committed only when all of its participants are ready, and a recording is opened only
\* by a ready participant of a committed start.
THEOREM BarrierImplemented == Spec => ImplementsBarrier
<1>1. Init => Barrier!Init
  BY DEF Init, Barrier!Init
<1>2. QED
  BY <1>1, NextRefines, Invariance, PTL DEF Spec, ImplementsBarrier, Barrier!Spec

-----------------------------------------------------------------------------
(* The drain barrier, for a client that waits.  What is in flight: *)

StartsQueued(n) == n \in Workers /\ \E c \in InFlight(cmds[n]) : c.type = "start"
StartQueued(n, i) == n \in Workers /\ \E c \in InFlight(cmds[n]) : c.type = "start" /\ c.id = i
StopQueued(n, k) == n \in Workers /\ \E c \in InFlight(cmds[n]) : c.type = "stop" /\ c.id = k
Answering(n, k) == \E e \in InFlight(evts[n]) : e.type = "drained" /\ e.id = k

\* A queue of commands repeats no START and no STOP, and no START follows a STOP.
CommandQueueOK(q) ==
  /\ \A i, j \in DOMAIN q :
       q[i].type # "commit" /\ q[j].type = q[i].type /\ q[j].id = q[i].id => i = j
  /\ \A i, j \in DOMAIN q : i < j /\ q[i].type = "stop" => q[j].type # "start"

\* A queue of events acknowledges a STOP once.
EventQueueOK(q) ==
  \A i, j \in DOMAIN q :
    /\ q[i].type = "drained" /\ q[j].type = "drained"
    /\ q[i].id # NoId /\ q[j].id = q[i].id
    => i = j

QueuesOK ==
  /\ \A w \in Workers : CommandQueueOK(cmds[w])
  /\ \A n \in Nodes : EventQueueOK(evts[n])
  /\ \A w \in Workers : stopping[w] # NoStop => ~StartsQueued(w)

\* Each attempt of a STOP is, at each of its nodes, in one place: queued, under way, answered or
\* acknowledged.
AttemptOK ==
  \A k \in StopIds, n \in Nodes :
    /\ StopQueued(n, k) => /\ n \in drain[k].expected
                           /\ stopping[n].id # k /\ ~Answering(n, k) /\ ~drain[k].acks[n].acked
    /\ stopping[n].id = k => /\ n \in drain[k].expected
                             /\ ~Answering(n, k) /\ ~drain[k].acks[n].acked
    /\ Answering(n, k) => n \in drain[k].expected /\ ~drain[k].acks[n].acked
    /\ drain[k].acks[n].acked => n \in drain[k].expected
    /\ ~drain[k].acks[n].acked => drain[k].acks[n].subjects = {}

Complete(k) == drain[k].subjects # {} /\ \A n \in drain[k].expected : drain[k].acks[n].acked

\* A STOP is answered when all of its nodes have acknowledged; until then one thread at most is at
\* its finalization, with nothing active.
CompletedOK ==
  \A k \in StopIds :
    /\ drain[k].expected = NodesOf(drain[k].subjects)
    /\ drain[k].subjects # {} <=> k <= count["stops"]
    /\ k \in aggregated => Complete(k)
    /\ \A t \in Threads : thread[t].at = "finalize" /\ thread[t].id = k =>
         /\ Complete(k) /\ k \notin aggregated /\ active = {}
         /\ \A u \in Threads : thread[u].at = "finalize" /\ thread[u].id = k => u = t

\* Nothing can bring the recording of a subject back.
Quiet(n, s) ==
  /\ Assign[s] = n
  /\ recording[s] = NoId
  /\ phase[n] \notin {"starting", "ready"}
  /\ ~StartsQueued(n)

\* What a node has acknowledged as drained stays quiet until the STOP is answered.
AckOK ==
  \A k \in StopIds, n \in Nodes : k \notin aggregated =>
    /\ drain[k].acks[n].acked /\ drain[k].acks[n].drained
         => \A s \in drain[k].acks[n].subjects : Quiet(n, s)
    /\ \A e \in InFlight(evts[n]) : e.type = "drained" /\ e.id = k /\ e.drained
         => \A s \in e.subjects : Quiet(n, s)

\* What is being started is active.
MembersOK ==
  /\ \A n \in Nodes : members[n] \subseteq OwnedBy(n) /\ stopping[n].subjects \subseteq OwnedBy(n)
  /\ \A n \in Nodes : phase[n] \in {"starting", "ready"} => members[n] # {} /\ members[n] \subseteq active
  /\ \A w \in Workers : \A c \in InFlight(cmds[w]) :
       /\ c.type # "commit" => c.subjects \subseteq OwnedBy(w)
       /\ c.type = "start" => c.subjects # {} /\ c.subjects \subseteq active

\* A node executes each START once.
OnceOK ==
  /\ \A i \in StartIds : everReady[i] \subseteq expectedOf[i]
  /\ \A n \in Nodes : sid[n] <= count["starts"] /\ session[n] <= count["starts"]
  /\ \A n \in Nodes : phase[n] = "starting" => n \notin everReady[sid[n]]
  /\ \A w \in Workers : \A c \in InFlight(cmds[w]) :
       c.type = "start" => w \notin everReady[c.id] /\ sid[w] # c.id

\* Node n has yet to pass the gate of start i; to record it.
Awaited(n, i) == (phase[n] = "starting" /\ sid[n] = i) \/ StartQueued(n, i)
Coming(n, i) == (phase[n] \in {"starting", "ready"} /\ sid[n] = i) \/ StartQueued(n, i)

\* Start i will never be committed: one of its nodes has failed its gate.
GateFailed(i) == \E n \in expectedOf[i] \ everReady[i] : ~Awaited(n, i)

\* Start i is over: no node records it or comes to it.
Over(i) == (\A s \in Subjects : recording[s] # i) /\ \A n \in Nodes : ~Coming(n, i)

ArchivesOK == \A a \in archives : a.ts <= count["starts"] /\ (GateFailed(a.ts) \/ Over(a.ts))

DrainInv ==
  /\ QueuesOK
  /\ AttemptOK
  /\ CompletedOK
  /\ AckOK
  /\ MembersOK
  /\ OnceOK
  /\ ArchivesOK
  /\ ActiveCoversStreaming

-----------------------------------------------------------------------------
(* The order within a queue. *)

\* A worker receives a command: the same one does not follow, and no START follows a STOP.
LEMMA CommandQueueTail ==
  ASSUME NEW q \in Seq(Commands), q # <<>>, CommandQueueOK(q)
  PROVE  /\ CommandQueueOK(Tail(q))
         /\ \A c \in InFlight(Tail(q)) :
              /\ Head(q).type # "commit" => ~(c.type = Head(q).type /\ c.id = Head(q).id)
              /\ Head(q).type = "stop" => c.type # "start"
<1>1. Len(q) \in Nat \ {0} /\ DOMAIN q = 1..Len(q) /\ Head(q) = q[1] /\ DOMAIN Tail(q) = 1..(Len(q) - 1)
  OBVIOUS
<1>2. \A i \in DOMAIN Tail(q) : i \in Nat /\ i > 0 /\ Tail(q)[i] = q[i + 1] /\ i + 1 \in DOMAIN q /\ 1 \in DOMAIN q
  BY <1>1
<1>3. CommandQueueOK(Tail(q))
  BY <1>2 DEF CommandQueueOK
<1>4. ASSUME NEW i \in DOMAIN Tail(q)
      PROVE  /\ Head(q).type # "commit" => ~(Tail(q)[i].type = Head(q).type /\ Tail(q)[i].id = Head(q).id)
             /\ Head(q).type = "stop" => Tail(q)[i].type # "start"
  <2>1. i + 1 # 1 /\ 1 < i + 1
    BY <1>2
  <2>2. QED
    BY <1>1, <1>2, <2>1 DEF CommandQueueOK
<1>5. QED
  BY <1>3, <1>4 DEF InFlight

\* A command joins a queue that does not hold it, a START one without STOPs.
LEMMA CommandQueueAppend ==
  ASSUME NEW q \in Seq(Commands), NEW d \in Commands, CommandQueueOK(q),
         \A c \in InFlight(q) : /\ d.type # "commit" => ~(c.type = d.type /\ c.id = d.id)
                                /\ d.type = "start" => c.type # "stop"
  PROVE  CommandQueueOK(Append(q, d))
<1> DEFINE r == Append(q, d)
<1>1. Len(q) \in Nat /\ DOMAIN q = 1..Len(q) /\ DOMAIN r = 1..(Len(q) + 1) /\ r[Len(q) + 1] = d
  OBVIOUS
<1>2. \A i \in DOMAIN r : (i \in DOMAIN q /\ i <= Len(q) /\ i \in Nat /\ r[i] = q[i]) \/ i = Len(q) + 1
  BY <1>1
<1>3. \A i \in DOMAIN q : q[i] \in InFlight(q)
  BY DEF InFlight
<1> HIDE DEF r
<1>4. ASSUME NEW i \in DOMAIN r, NEW j \in DOMAIN r, r[i].type # "commit", r[j].type = r[i].type, r[j].id = r[i].id
      PROVE  i = j
  BY <1>1, <1>2, <1>3, <1>4 DEF CommandQueueOK
<1>5. ASSUME NEW i \in DOMAIN r, NEW j \in DOMAIN r, i < j, r[i].type = "stop"
      PROVE  r[j].type # "start"
  BY <1>1, <1>2, <1>3, <1>5 DEF CommandQueueOK
<1>6. CommandQueueOK(r)
  BY <1>4, <1>5 DEF CommandQueueOK
<1>7. QED
  BY <1>6 DEF r

\* An emptied queue is in order.
LEMMA CommandQueueEmpty == CommandQueueOK(<<>>)
BY DEF CommandQueueOK

\* The master handles an event: the same acknowledgement does not follow.
LEMMA EventQueueTail ==
  ASSUME NEW q \in Seq(Events), q # <<>>, EventQueueOK(q)
  PROVE  /\ EventQueueOK(Tail(q))
         /\ Head(q).type = "drained" /\ Head(q).id # NoId =>
              \A e \in InFlight(Tail(q)) : ~(e.type = "drained" /\ e.id = Head(q).id)
<1>1. Len(q) \in Nat \ {0} /\ DOMAIN q = 1..Len(q) /\ Head(q) = q[1] /\ DOMAIN Tail(q) = 1..(Len(q) - 1)
  OBVIOUS
<1>2. \A i \in DOMAIN Tail(q) : i \in Nat /\ i > 0 /\ Tail(q)[i] = q[i + 1] /\ i + 1 \in DOMAIN q /\ 1 \in DOMAIN q
  BY <1>1
<1>3. EventQueueOK(Tail(q))
  BY <1>2 DEF EventQueueOK
<1>4. ASSUME NEW i \in DOMAIN Tail(q), Head(q).type = "drained", Head(q).id # NoId
      PROVE  ~(Tail(q)[i].type = "drained" /\ Tail(q)[i].id = Head(q).id)
  <2>1. i + 1 # 1
    BY <1>2
  <2>2. QED
    BY <1>1, <1>2, <1>4, <2>1 DEF EventQueueOK
<1>5. QED
  BY <1>3, <1>4 DEF InFlight

\* An event joins a queue that holds no acknowledgement of the same STOP.
LEMMA EventQueueAppend ==
  ASSUME NEW q \in Seq(Events), NEW d \in Events, EventQueueOK(q),
         d.type = "drained" /\ d.id # NoId => \A e \in InFlight(q) : ~(e.type = "drained" /\ e.id = d.id)
  PROVE  EventQueueOK(Append(q, d))
<1> DEFINE r == Append(q, d)
<1>1. Len(q) \in Nat /\ DOMAIN q = 1..Len(q) /\ DOMAIN r = 1..(Len(q) + 1) /\ r[Len(q) + 1] = d
  OBVIOUS
<1>2. \A i \in DOMAIN r : (i \in DOMAIN q /\ r[i] = q[i]) \/ i = Len(q) + 1
  BY <1>1
<1>3. \A i \in DOMAIN q : q[i] \in InFlight(q)
  BY DEF InFlight
<1> HIDE DEF r
<1>4. EventQueueOK(r)
  BY <1>1, <1>2, <1>3 DEF EventQueueOK
<1>5. QED
  BY <1>4 DEF r

\* The last events of a queue are lost.
LEMMA EventQueuePrefix ==
  ASSUME NEW q \in Seq(Events), NEW k \in 0..Len(q), EventQueueOK(q)
  PROVE  EventQueueOK(SubSeq(q, 1, k))
<1>1. Len(q) \in Nat /\ DOMAIN q = 1..Len(q) /\ DOMAIN SubSeq(q, 1, k) = 1..k
  OBVIOUS
<1>2. \A i \in 1..k : SubSeq(q, 1, k)[i] = q[i] /\ i \in DOMAIN q
  BY <1>1
<1>3. QED
  BY <1>1, <1>2 DEF EventQueueOK


-----------------------------------------------------------------------------
(* What preserves a conjunct, whatever the action. *)

\* No START or STOP is sent, and no acknowledgement of a STOP.
NothingNew ==
  /\ \A w \in Workers : \A c \in InFlight(cmds[w])' : c \in InFlight(cmds[w]) \/ c.type = "commit"
  /\ \A n \in Nodes : \A e \in InFlight(evts[n])' :
       e \in InFlight(evts[n]) \/ ~(e.type = "drained" /\ e.id \in StopIds)

\* The queues do not hold more of what the conjuncts ask for.
LEMMA NothingNewQueued ==
  ASSUME NothingNew, NEW n \in Nodes
  PROVE  /\ StartsQueued(n)' => StartsQueued(n)
         /\ \A i : StartQueued(n, i)' => StartQueued(n, i)
         /\ \A k : StopQueued(n, k)' => StopQueued(n, k)
         /\ \A k \in StopIds : Answering(n, k)' => Answering(n, k)
BY DEF NothingNew, StartsQueued, StartQueued, StopQueued, Answering

\* The place of every attempt.
LEMMA AttemptFrame ==
  ASSUME AttemptOK, NothingNew, \A n \in Nodes : stopping'[n] \in {stopping[n], NoStop},
         \A k \in StopIds : drain'[k].expected = drain[k].expected /\ drain'[k].acks = drain[k].acks
  PROVE  AttemptOK'
<1>1. \A k \in StopIds : k # NoStop.id
  BY DEF StopIds, NoStop, NoId
<1>2. QED
  BY <1>1, NothingNewQueued DEF AttemptOK

\* What has been acknowledged.
LEMMA AckFrame ==
  ASSUME AckOK, NothingNew, \A k \in StopIds : drain'[k].acks = drain[k].acks,
         aggregated \subseteq aggregated', TypeOK,
         \A n \in Nodes, s \in Subjects : Quiet(n, s) => Quiet(n, s)'
  PROVE  AckOK'
<1>1. \A k \in StopIds, n \in Nodes : drain[k].acks[n].subjects \subseteq Subjects
  BY DEF TypeOK, MasterTypeOK, DrainRecords, Acks
<1>2. \A n \in Nodes : \A e \in InFlight(evts[n]) : e.subjects \subseteq Subjects
  BY InFlightTyped DEF TypeOK, Events
<1>3. ASSUME NEW k \in StopIds, NEW n \in Nodes, k \notin aggregated', drain'[k].acks[n].acked,
             drain'[k].acks[n].drained, NEW s \in drain'[k].acks[n].subjects
      PROVE  Quiet(n, s)'
  BY <1>1, <1>3 DEF AckOK
<1>4. ASSUME NEW k \in StopIds, NEW n \in Nodes, k \notin aggregated', NEW e \in InFlight(evts[n])',
             e.type = "drained", e.id = k, e.drained, NEW s \in e.subjects
      PROVE  Quiet(n, s)'
  BY <1>2, <1>4 DEF AckOK, NothingNew
<1>5. QED
  BY <1>3, <1>4 DEF AckOK

\* What has been archived.
LEMMA ArchivesFrame ==
  ASSUME NEW i, GateFailed(i) \/ Over(i), expectedOf'[i] = expectedOf[i],
         \A n \in Nodes : Awaited(n, i)' => Awaited(n, i),
         \A n \in Nodes : Coming(n, i)' => Coming(n, i),
         \A n \in Nodes : n \in everReady'[i] => n \in everReady[i] \/ Awaited(n, i),
         \A s \in Subjects : recording'[s] = i => recording[s] = i \/ \E n \in Nodes : Coming(n, i),
         expectedOf[i] \subseteq Nodes
  PROVE  (GateFailed(i) \/ Over(i))'
<1>1. CASE GateFailed(i)
  <2>1. PICK n \in expectedOf[i] \ everReady[i] : ~Awaited(n, i)
    BY <1>1 DEF GateFailed
  <2>2. n \in Nodes /\ n \notin everReady'[i] /\ ~Awaited(n, i)'
    BY <2>1
  <2>3. QED
    BY <2>1, <2>2 DEF GateFailed
<1>2. CASE Over(i)
  BY <1>2 DEF Over
<1>3. QED
  BY <1>1, <1>2


-----------------------------------------------------------------------------
(* One lemma per action: it preserves the invariant of the drain barrier. *)

\* An event that acknowledges no STOP leaves the queues in order.
LEMMA OtherEventSent ==
  ASSUME TransportTypeOK, QueuesOK, NEW n \in Nodes, NEW e \in Events, evts' = Sent(n, e),
         ~(e.type = "drained" /\ e.id # NoId)
  PROVE  \A k \in Nodes : EventQueueOK(evts'[k])
<1>1. evts \in [Nodes -> Seq(Events)] /\ evts' = [evts EXCEPT ![n] = Append(evts[n], e)]
  BY DEF Sent, TransportTypeOK
<1>2. EventQueueOK(Append(evts[n], e))
  BY <1>1, EventQueueAppend DEF QueuesOK
<1>3. QED
  BY <1>1, <1>2 DEF QueuesOK

\* A node whose gate opens.
LEMMA GateReadyDrain == ASSUME IInv, DrainInv, NEW n \in Nodes, GateReady(n) PROVE DrainInv'
<1> USE DEF DrainInv
<1> DEFINE e == Evt("ready", sid[n], session[n], {}, TRUE)
<1>1. /\ phase[n] = "starting" /\ phase \in [Nodes -> {"idle", "starting", "ready", "official", "stopping", "failed"}]
      /\ sid[n] \in StartIds /\ session[n] = sid[n] /\ n \in expectedOf[sid[n]] /\ phase' = [phase EXCEPT ![n] = "ready"]
      /\ TypeOK /\ TransportTypeOK /\ HistoryTypeOK
  BY DEF GateReady, CoreOK, IInv, BarrierInv, TypeOK, CoreTypeOK
<1>2. e \in Events /\ e.type = "ready"
  BY <1>1 DEF Evt, Events
<1>3. evts' = Sent(n, e)
  BY DEF GateReady
<1> HIDE DEF e
<1>4. NothingNew
  BY <1>1, <1>2, <1>3, EventSent DEF NothingNew, GateReady
<1>5. QueuesOK'
  <2>1. \A k \in Nodes : EventQueueOK(evts'[k])
    BY <1>1, <1>2, <1>3, OtherEventSent
  <2>2. QED
    BY <2>1 DEF QueuesOK, GateReady, StartsQueued
<1>6. AttemptOK'
  BY <1>4, AttemptFrame DEF GateReady
<1>7. CompletedOK'
  BY DEF CompletedOK, Complete, GateReady, stopHistory
<1>8. AckOK'
  <2>1. \A k \in Nodes, s \in Subjects : Quiet(k, s) => Quiet(k, s)'
    BY <1>1 DEF Quiet, StartsQueued, GateReady
  <2>2. QED
    BY <1>1, <1>4, <2>1, AckFrame DEF GateReady, stopHistory
<1>9. MembersOK'
  BY <1>1 DEF MembersOK, GateReady
<1>10. everReady' = [everReady EXCEPT ![sid[n]] = @ \cup {n}] /\ everReady \in [StartIds -> SUBSET Nodes]
       /\ UNCHANGED <<sid, session, cmds, count, expectedOf, archives, recording, active>>
  BY <1>1 DEF HistoryTypeOK, GateReady, stopHistory
<1>11. OnceOK'
  <2>1. \A i \in StartIds : (everReady[i] \subseteq expectedOf[i])'
    BY <1>1, <1>10 DEF OnceOK
  <2>2. \A k \in Nodes : phase'[k] = "starting" => k # n /\ k \notin everReady'[sid[k]]
    BY <1>1, <1>10 DEF OnceOK, IInv, BarrierInv, CoreOK
  <2>3. \A w \in Workers : \A c \in InFlight(cmds[w]) : c.type = "start" => w \notin everReady'[c.id] /\ sid[w] # c.id
    BY <1>1, <1>10, InFlightTyped DEF OnceOK, Commands
  <2>4. QED
    BY <1>10, <2>1, <2>2, <2>3 DEF OnceOK
<1>12. ArchivesOK'
  <2>1. ASSUME NEW a \in archives PROVE (GateFailed(a.ts) \/ Over(a.ts))'
    <3>1. a.ts \in StartIds
      BY <1>1 DEF HistoryTypeOK
    <3>2. \A k \in Nodes : (Awaited(k, a.ts)' => Awaited(k, a.ts)) /\ (Coming(k, a.ts)' => Coming(k, a.ts))
      BY <1>1, <1>10 DEF Awaited, Coming, StartQueued
    <3>3. \A k \in Nodes : k \in everReady'[a.ts] => k \in everReady[a.ts] \/ Awaited(k, a.ts)
      BY <1>1, <1>10, <3>1 DEF Awaited
    <3>4. expectedOf[a.ts] \subseteq Nodes
      BY <1>1, <3>1 DEF HistoryTypeOK
    <3>5. QED
      BY <1>10, <3>2, <3>3, <3>4, ArchivesFrame DEF ArchivesOK
  <2>2. QED
    BY <1>10, <2>1 DEF ArchivesOK
<1>13. ActiveCoversStreaming'
  BY <1>10 DEF ActiveCoversStreaming
<1>14. QED
  BY <1>5, <1>6, <1>7, <1>8, <1>9, <1>11, <1>12, <1>13


\* A node whose gate fails.
LEMMA GateFailsDrain == ASSUME IInv, DrainInv, NEW n \in Nodes, GateFails(n) PROVE DrainInv'
<1> USE DEF DrainInv
<1> DEFINE e == Evt("drained", NoId, session[n], members[n], TRUE)
<1>1. /\ phase[n] = "starting" /\ phase \in [Nodes -> {"idle", "starting", "ready", "official", "stopping", "failed"}]
      /\ sid[n] \in StartIds /\ session[n] = sid[n] /\ n \in expectedOf[sid[n]] /\ phase' = [phase EXCEPT ![n] = "failed"]
      /\ TypeOK /\ TransportTypeOK /\ HistoryTypeOK
  BY DEF GateFails, CoreOK, IInv, BarrierInv, TypeOK, CoreTypeOK
<1>2. e \in Events /\ ~(e.type = "drained" /\ e.id # NoId) /\ ~(e.type = "drained" /\ e.id \in StopIds)
  BY <1>1 DEF Evt, Events, TypeOK, CoreTypeOK, StopIds, NoId
<1>3. evts' = Sent(n, e)
  BY DEF GateFails
<1> HIDE DEF e
<1>4. NothingNew
  <2>1. \A k \in Nodes : \A f \in InFlight(evts'[k]) : f \in InFlight(evts[k]) \/ (k = n /\ f = e)
    BY <1>1, <1>2, <1>3, EventSent
  <2>2. cmds' = cmds
    BY DEF GateFails
  <2>3. QED
    BY <1>2, <2>1, <2>2 DEF NothingNew
<1>5. /\ UNCHANGED <<active, drain, thread, sid, session, members, stopping, cmds, count, expectedOf, everReady, aggregated>>
      /\ \A s \in Subjects : recording'[s] \in {recording[s], NoId}
  BY DEF GateFails, startHistory, Recording
<1>6. QueuesOK'
  <2>1. \A k \in Nodes : EventQueueOK(evts'[k])
    BY <1>1, <1>2, <1>3, OtherEventSent
  <2>2. QED
    BY <1>5, <2>1 DEF QueuesOK, StartsQueued
<1>7. AttemptOK'
  BY <1>4, <1>5, AttemptFrame
<1>8. CompletedOK'
  BY <1>5 DEF CompletedOK, Complete
<1>9. AckOK'
  <2>1. \A k \in Nodes, s \in Subjects : Quiet(k, s) => Quiet(k, s)'
    BY <1>1, <1>5 DEF Quiet, StartsQueued
  <2>2. QED
    BY <1>1, <1>4, <1>5, <2>1, AckFrame
<1>10. MembersOK' /\ OnceOK'
  BY <1>1, <1>5 DEF MembersOK, OnceOK
<1>11. ArchivesOK'
  <2>1. ASSUME NEW a \in archives PROVE (GateFailed(a.ts) \/ Over(a.ts))'
    <3>1. a.ts \in StartIds /\ a.ts # NoId
      BY <1>1 DEF HistoryTypeOK, StartIds, NoId
    <3>2. \A k \in Nodes : (Awaited(k, a.ts)' => Awaited(k, a.ts)) /\ (Coming(k, a.ts)' => Coming(k, a.ts))
      BY <1>1, <1>5 DEF Awaited, Coming, StartQueued
    <3>3. expectedOf[a.ts] \subseteq Nodes
      BY <1>1, <3>1 DEF HistoryTypeOK
    <3>4. QED
      BY <1>5, <3>1, <3>2, <3>3, ArchivesFrame DEF ArchivesOK
  <2>2. session[n] <= count["starts"] /\ GateFailed(session[n])'
    <3>1. n \notin everReady[sid[n]] /\ ~StartQueued(n, sid[n]) /\ session[n] <= count["starts"]
      BY <1>1 DEF OnceOK, StartQueued
    <3>2. ~Awaited(n, sid[n])'
      BY <1>1, <1>5, <3>1 DEF Awaited, StartQueued
    <3>3. QED
      BY <1>1, <1>5, <3>1, <3>2 DEF GateFailed
  <2>3. \A a \in archives' : a \in archives \/ a.ts = session[n]
    BY DEF GateFails
  <2>4. QED
    BY <1>5, <2>1, <2>2, <2>3 DEF ArchivesOK
<1>12. ActiveCoversStreaming'
  BY <1>5 DEF ActiveCoversStreaming
<1>13. QED
  BY <1>6, <1>7, <1>8, <1>9, <1>10, <1>11, <1>12

\* The end of a STOP in a Core, successful or not.
LEMMA CoreStoppedDrain ==
  ASSUME IInv, DrainInv, NEW n \in Nodes, stopping[n] # NoStop, NEW left, CoreStopped(n, left),
         NEW ok \in BOOLEAN,
         evts' = Sent(n, Evt("drained", stopping[n].id, session[n], stopping[n].subjects, ok)),
         \A s \in Subjects : recording'[s] \in {recording[s], NoId},
         ok => \A s \in stopping[n].subjects : recording'[s] = NoId,
         UNCHANGED <<active, drain, thread, cmds, startHistory, stopHistory>>,
         count'["starts"] = count["starts"], count'["stops"] = count["stops"]
  PROVE  DrainInv'
<1> USE DEF DrainInv
<1> DEFINE stop == stopping[n]
           e == Evt("drained", stop.id, session[n], stop.subjects, ok)
<1>1. TypeOK /\ CoreTypeOK /\ TransportTypeOK /\ HistoryTypeOK
  BY DEF IInv, TypeOK
<1>2. stop.id \in StopIds /\ stop.id # NoId /\ stop.subjects \subseteq Subjects /\ n \in drain[stop.id].expected
      /\ ~Answering(n, stop.id) /\ ~drain[stop.id].acks[n].acked /\ ~StopQueued(n, stop.id)
  <2>1. stop.id \in StopIds /\ stop.subjects \subseteq Subjects
    BY <1>1 DEF CoreTypeOK
  <2>2. QED
    BY <2>1 DEF AttemptOK, StopIds, NoId
<1>3. e \in Events /\ e.type = "drained" /\ e.id = stop.id /\ e.subjects = stop.subjects /\ e.drained = ok
  BY <1>1, <1>2 DEF Evt, Events, CoreTypeOK
<1>4. evts' = Sent(n, e)
  OBVIOUS
<1>5. /\ \A k \in Nodes : phase'[k] \in {"starting", "ready"} => k # n /\ phase[k] = phase'[k]
      /\ \A k \in Nodes : k # n => sid'[k] = sid[k] /\ members'[k] = members[k] /\ stopping'[k] = stopping[k]
      /\ sid'[n] \in {sid[n], NoId} /\ members'[n] \in {members[n], {}} /\ stopping'[n] = NoStop /\ session' = session
  BY <1>1 DEF CoreStopped, CoreTypeOK
<1>6. UNCHANGED <<active, drain, thread, cmds, expectedOf, everReady, aggregated, archives>>
  BY DEF startHistory, stopHistory
<1> HIDE DEF e, stop
<1>7. \A k \in Nodes : \A f \in InFlight(evts'[k]) : f \in InFlight(evts[k]) \/ (k = n /\ f = e)
  BY <1>1, <1>3, <1>4, EventSent
<1>8. \A k \in Nodes : EventQueueOK(evts'[k])
  <2>1. evts \in [Nodes -> Seq(Events)] /\ evts' = [evts EXCEPT ![n] = Append(evts[n], e)]
    BY <1>1, <1>4 DEF Sent, TransportTypeOK
  <2>2. EventQueueOK(Append(evts[n], e))
    BY <1>2, <1>3, <2>1, EventQueueAppend DEF QueuesOK, Answering
  <2>3. QED
    BY <2>1, <2>2 DEF QueuesOK
<1>9. QueuesOK'
  BY <1>5, <1>6, <1>8 DEF QueuesOK, StartsQueued, Workers
<1>10. AttemptOK'
  <2>1. \A k \in Nodes : \A j \in StopIds : Answering(k, j)' => Answering(k, j) \/ (k = n /\ j = stop.id)
    BY <1>3, <1>7 DEF Answering
  <2>2. \A k \in Nodes : \A j \in StopIds : StopQueued(k, j)' => StopQueued(k, j)
    BY <1>6 DEF StopQueued
  <2>3. \A k \in Nodes : \A j \in StopIds : stopping'[k].id = j => k # n /\ stopping[k].id = j
    BY <1>5 DEF NoStop, StopIds, NoId
  <2>4. \A k \in Nodes : stop = stopping[n]
    BY DEF stop
  <2>5. QED
    BY <1>2, <1>6, <2>1, <2>2, <2>3, <2>4 DEF AttemptOK
<1>11. CompletedOK'
  BY <1>6 DEF CompletedOK, Complete
<1>12. AckOK'
  <2>1. \A k \in Nodes, s \in Subjects : Quiet(k, s) => Quiet(k, s)'
    BY <1>5, <1>6 DEF Quiet, StartsQueued
  <2>2. ok => \A s \in stop.subjects : Quiet(n, s)'
    <3>1. \A s \in stop.subjects : Assign[s] = n
      BY DEF MembersOK, OwnedBy, stop
    <3>2. ~StartsQueued(n)'
      BY <1>6 DEF QueuesOK, StartsQueued
    <3>3. QED
      BY <1>5, <3>1, <3>2 DEF Quiet, stop
  <2>3. \A k \in StopIds, m \in Nodes : drain[k].acks[m].subjects \subseteq Subjects
    BY <1>1 DEF TypeOK, MasterTypeOK, DrainRecords, Acks
  <2>4. \A m \in Nodes : \A f \in InFlight(evts[m]) : f.subjects \subseteq Subjects
    BY <1>1, InFlightTyped DEF Events
  <2>5. ASSUME NEW k \in StopIds, NEW m \in Nodes, k \notin aggregated, drain[k].acks[m].acked,
               drain[k].acks[m].drained, NEW s \in drain[k].acks[m].subjects
        PROVE  Quiet(m, s)'
    BY <2>1, <2>3, <2>5 DEF AckOK
  <2>6. ASSUME NEW k \in StopIds, NEW m \in Nodes, k \notin aggregated, NEW f \in InFlight(evts[m])',
               f.type = "drained", f.id = k, f.drained, NEW s \in f.subjects
        PROVE  Quiet(m, s)'
    <3>1. CASE f \in InFlight(evts[m])
      BY <2>1, <2>4, <2>6, <3>1 DEF AckOK
    <3>2. CASE m = n /\ f = e
      BY <1>3, <2>2, <2>6, <3>2
    <3>3. QED
      BY <1>7, <3>1, <3>2
  <2>7. QED
    BY <1>6, <2>5, <2>6 DEF AckOK
<1>13. MembersOK'
  <2>1. NoStop.subjects = {}
    BY DEF NoStop
  <2>2. QED
    BY <1>5, <1>6, <2>1 DEF MembersOK
<1>14. OnceOK'
  <2>1. count["starts"] \in Nat
    BY <1>1 DEF HistoryTypeOK, Counters
  <2>2. \A w \in Workers : \A c \in InFlight(cmds[w]) : c.type = "start" => c.id # NoId
    BY <1>1, InFlightTyped DEF Commands, StartIds, NoId
  <2>3. \A k \in Nodes : sid'[k] <= count["starts"]
    BY <1>5, <2>1 DEF OnceOK, NoId
  <2>4. \A k \in Nodes : phase'[k] = "starting" => k \notin everReady[sid'[k]]
    BY <1>5 DEF OnceOK
  <2>5. \A w \in Workers : \A c \in InFlight(cmds[w]) : c.type = "start" => w \notin everReady[c.id] /\ sid'[w] # c.id
    BY <1>5, <2>2 DEF OnceOK, Workers
  <2>6. QED
    BY <1>5, <1>6, <2>3, <2>4, <2>5 DEF OnceOK
<1>15. ArchivesOK'
  <2>1. ASSUME NEW a \in archives PROVE (GateFailed(a.ts) \/ Over(a.ts))'
    <3>1. a.ts \in StartIds /\ a.ts # NoId
      BY <1>1 DEF HistoryTypeOK, StartIds, NoId
    <3>2. \A k \in Nodes : (Awaited(k, a.ts)' => Awaited(k, a.ts)) /\ (Coming(k, a.ts)' => Coming(k, a.ts))
      BY <1>5, <1>6 DEF Awaited, Coming, StartQueued
    <3>3. expectedOf[a.ts] \subseteq Nodes
      BY <1>1, <3>1 DEF HistoryTypeOK
    <3>4. QED
      BY <1>6, <3>1, <3>2, <3>3, ArchivesFrame DEF ArchivesOK
  <2>2. QED
    BY <1>6, <2>1 DEF ArchivesOK
<1>16. ActiveCoversStreaming'
  BY <1>6 DEF ActiveCoversStreaming
<1>17. QED
  BY <1>9, <1>10, <1>11, <1>12, <1>13, <1>14, <1>15, <1>16

\* A Core that has stopped.
LEMMA CoreStopEndsDrain == ASSUME IInv, DrainInv, NEW n \in Nodes, CoreStopEnds(n) PROVE DrainInv'
<1>1. stopping[n].subjects \subseteq Subjects
  BY DEF CoreStopEnds, IInv, TypeOK, CoreTypeOK, NoStop
<1>2. /\ \A s \in Subjects : recording'[s] \in {recording[s], NoId}
      /\ \A s \in stopping[n].subjects : recording'[s] = NoId
  BY <1>1 DEF CoreStopEnds, Recording
<1>3. QED
  BY <1>2, CoreStoppedDrain, TRUE \in BOOLEAN DEF CoreStopEnds

\* A Core that fails to stop.
LEMMA CoreStopFailsDrain == ASSUME IInv, DrainInv, NEW n \in Nodes, CoreStopFails(n) PROVE DrainInv'
<1>1. count'["starts"] = count["starts"] /\ count'["stops"] = count["stops"]
  BY DEF CoreStopFails, Count, IInv, TypeOK, HistoryTypeOK, Counters
<1>2. \A s \in Subjects : recording'[s] \in {recording[s], NoId}
  BY DEF CoreStopFails
<1>3. QED
  BY <1>1, <1>2, CoreStoppedDrain, FALSE \in BOOLEAN DEF CoreStopFails


\* A step that sends and acknowledges nothing, starts nothing and archives nothing: it may open the
\* recording of a Core that is ready, and empty queues and Cores.
LEMMA CalmStep ==
  ASSUME IInv, DrainInv, NothingNew,
         \A w \in Workers : CommandQueueOK(cmds'[w]),
         \A n \in Nodes : EventQueueOK(evts'[n]),
         \A n \in Nodes : stopping'[n] \in {stopping[n], NoStop},
         UNCHANGED <<active, drain, expectedOf, everReady, aggregated, archives>>,
         \A t \in Threads : thread'[t].at = "finalize" => thread'[t] = thread[t],
         count'["starts"] = count["starts"], count'["stops"] = count["stops"],
         \A n \in Nodes : phase'[n] \in {"starting", "ready"} =>
           phase'[n] = phase[n] /\ sid'[n] = sid[n] /\ members'[n] = members[n],
         \A n \in Nodes : /\ sid'[n] \in {sid[n], NoId}
                          /\ session'[n] \in {session[n], NoId}
                          /\ members'[n] \in {members[n], {}},
         \A s \in Subjects :
           \/ recording'[s] \in {recording[s], NoId}
           \/ /\ phase[Assign[s]] = "ready" /\ s \in members[Assign[s]]
              /\ recording'[s] = sid[Assign[s]]
  PROVE  DrainInv'
<1> USE DEF DrainInv
<1>1. TypeOK /\ CoreTypeOK /\ TransportTypeOK /\ HistoryTypeOK
  BY DEF IInv, TypeOK
<1>2. \A s \in Subjects : Assign[s] \in Nodes
  BY AssignAssumption
<1>3. QueuesOK'
  <2>1. \A w \in Workers : w \in Nodes /\ (StartsQueued(w)' => StartsQueued(w))
    BY NothingNewQueued DEF Workers
  <2>2. QED
    BY <2>1 DEF QueuesOK
<1>4. AttemptOK'
  BY AttemptFrame
<1>5. CompletedOK'
  <2>1. \A k \in StopIds : Complete(k)' <=> Complete(k)
    BY DEF Complete
  <2>2. QED
    BY <2>1 DEF CompletedOK
<1>6. AckOK'
  <2>1. \A n \in Nodes, s \in Subjects : Quiet(n, s) => Quiet(n, s)'
    BY NothingNewQueued DEF Quiet
  <2>2. QED
    BY <1>1, <2>1, AckFrame
<1>7. MembersOK'
  <2>1. NoStop.subjects = {}
    BY DEF NoStop
  <2>2. \A n \in Nodes : members'[n] \subseteq OwnedBy(n) /\ stopping'[n].subjects \subseteq OwnedBy(n)
    BY <2>1 DEF MembersOK
  <2>3. \A w \in Workers : \A c \in InFlight(cmds[w])' :
          /\ c.type # "commit" => c.subjects \subseteq OwnedBy(w)
          /\ c.type = "start" => c.subjects # {} /\ c.subjects \subseteq active
    BY DEF MembersOK, NothingNew
  <2>4. QED
    BY <2>2, <2>3 DEF MembersOK
<1>8. OnceOK'
  <2>1. count["starts"] \in Nat
    BY <1>1 DEF HistoryTypeOK, Counters
  <2>2. \A w \in Workers : \A c \in InFlight(cmds[w]) : c.type = "start" => c.id # NoId
    BY <1>1, InFlightTyped DEF Commands, StartIds, NoId
  <2>3. \A k \in Nodes : sid'[k] <= count["starts"] /\ session'[k] <= count["starts"]
    BY <2>1 DEF OnceOK, NoId
  <2>4. \A k \in Nodes : phase'[k] = "starting" => k \notin everReady[sid'[k]]
    BY DEF OnceOK
  <2>5. \A w \in Workers : \A c \in InFlight(cmds[w])' : c.type = "start" => w \notin everReady[c.id] /\ sid'[w] # c.id
    BY <2>2 DEF OnceOK, Workers, NothingNew
  <2>6. QED
    BY <2>3, <2>4, <2>5 DEF OnceOK
<1>9. ArchivesOK'
  <2>1. ASSUME NEW a \in archives PROVE (GateFailed(a.ts) \/ Over(a.ts))'
    <3>1. a.ts \in StartIds /\ a.ts # NoId
      BY <1>1 DEF HistoryTypeOK, StartIds, NoId
    <3>2. \A k \in Nodes : (Awaited(k, a.ts)' => Awaited(k, a.ts)) /\ (Coming(k, a.ts)' => Coming(k, a.ts))
      BY NothingNewQueued DEF Awaited, Coming
    <3>3. expectedOf[a.ts] \subseteq Nodes
      BY <1>1, <3>1 DEF HistoryTypeOK
    <3>4. \A s \in Subjects : recording'[s] = a.ts => recording[s] = a.ts \/ \E n \in Nodes : Coming(n, a.ts)
      BY <1>2, <3>1 DEF Coming
    <3>5. QED
      BY <3>2, <3>3, <3>4, ArchivesFrame DEF ArchivesOK
  <2>2. QED
    BY <2>1 DEF ArchivesOK
<1>10. ActiveCoversStreaming'
  BY <1>2 DEF ActiveCoversStreaming, MembersOK
<1>11. QED
  BY <1>3, <1>4, <1>5, <1>6, <1>7, <1>8, <1>9, <1>10

\* A worker that restarts.
LEMMA WorkerRestartsDrain == ASSUME IInv, DrainInv, NEW w \in Workers, WorkerRestarts(w) PROVE DrainInv'
<1>1. CoreTypeOK /\ TransportTypeOK /\ HistoryTypeOK
  BY DEF IInv, TypeOK
<1>2. NothingNew
  BY <1>1, CommandsLost DEF WorkerRestarts, NothingNew
<1>3. \A k \in Workers : CommandQueueOK(cmds'[k])
  BY <1>1, CommandQueueEmpty DEF WorkerRestarts, TransportTypeOK, DrainInv, QueuesOK
<1>4. \A n \in Nodes : EventQueueOK(evts'[n])
  BY DEF WorkerRestarts, DrainInv, QueuesOK
<1>5. count'["starts"] = count["starts"] /\ count'["stops"] = count["stops"]
  BY <1>1 DEF WorkerRestarts, Count, HistoryTypeOK, Counters
<1>6. \A n \in Nodes : /\ phase'[n] \in {"starting", "ready"} =>
                            phase'[n] = phase[n] /\ sid'[n] = sid[n] /\ members'[n] = members[n]
                       /\ sid'[n] \in {sid[n], NoId} /\ session'[n] \in {session[n], NoId}
                       /\ members'[n] \in {members[n], {}} /\ stopping'[n] \in {stopping[n], NoStop}
  BY <1>1 DEF WorkerRestarts, CoreTypeOK
<1>7. \A s \in Subjects : recording'[s] \in {recording[s], NoId}
  BY DEF WorkerRestarts, Recording
<1>8. UNCHANGED <<active, drain, expectedOf, everReady, aggregated, archives, thread>>
  BY DEF WorkerRestarts, startHistory, stopHistory
<1>9. QED
  BY <1>2, <1>3, <1>4, <1>5, <1>6, <1>7, <1>8, CalmStep

\* A worker that reconnects.
LEMMA WorkerReconnectsDrain == ASSUME IInv, DrainInv, NEW w \in Workers, WorkerReconnects(w) PROVE DrainInv'
<1>1. TransportTypeOK /\ HistoryTypeOK
  BY DEF IInv, TypeOK
<1>2. PICK k \in 0..Len(evts[w]) : evts' = [evts EXCEPT ![w] = SubSeq(evts[w], 1, k)]
  BY DEF WorkerReconnects
<1>3. w \in Nodes /\ evts[w] \in Seq(Events) /\ evts \in [Nodes -> Seq(Events)]
  BY <1>1 DEF Workers, TransportTypeOK
<1>4. NothingNew
  <2>1. InFlight(SubSeq(evts[w], 1, k)) \subseteq InFlight(evts[w])
    BY <1>3, PrefixInFlight
  <2>2. \A n \in Nodes : InFlight(evts'[n]) \subseteq InFlight(evts[n])
    BY <1>2, <1>3, <2>1
  <2>3. \A j \in Workers : InFlight(cmds'[j]) \subseteq InFlight(cmds[j])
    BY <1>1, CommandsLost DEF WorkerReconnects
  <2>4. QED
    BY <2>2, <2>3 DEF NothingNew
<1>5. \A j \in Workers : CommandQueueOK(cmds'[j])
  BY <1>1, CommandQueueEmpty DEF WorkerReconnects, TransportTypeOK, DrainInv, QueuesOK
<1>6. \A n \in Nodes : EventQueueOK(evts'[n])
  <2>1. EventQueueOK(SubSeq(evts[w], 1, k))
    BY <1>3, EventQueuePrefix DEF DrainInv, QueuesOK
  <2>2. QED
    BY <1>2, <1>3, <2>1 DEF DrainInv, QueuesOK
<1>7. count'["starts"] = count["starts"] /\ count'["stops"] = count["stops"]
  BY <1>1 DEF WorkerReconnects, Count, HistoryTypeOK, Counters
<1>8. UNCHANGED <<active, drain, expectedOf, everReady, aggregated, archives, thread,
                  phase, sid, session, members, stopping, recording>>
  BY DEF WorkerReconnects, startHistory, stopHistory, coreVars
<1>9. QED
  BY <1>4, <1>5, <1>6, <1>7, <1>8, CalmStep


\* A commit in a Core, of the master or of a worker that has received it.
LEMMA CoreCommitDrain ==
  ASSUME IInv, DrainInv, NEW n \in Nodes, NEW id \in committed, CoreCommit(n, id),
         \A w \in Workers : CommandQueueOK(cmds'[w]) /\ InFlight(cmds'[w]) \subseteq InFlight(cmds[w]),
         UNCHANGED <<active, drain, count, expectedOf, everReady, aggregated, archives>>,
         \A t \in Threads : thread'[t].at = "finalize" => thread'[t] = thread[t]
  PROVE  DrainInv'
<1> DEFINE opens == sid[n] = id /\ phase[n] = "ready"
           repeats == sid[n] = id /\ phase[n] = "official"
           e == Evt("official", id, session[n], {}, TRUE)
<1>1. CoreTypeOK /\ TransportTypeOK /\ id \in StartIds
  BY DEF IInv, TypeOK, HistoryTypeOK
<1>2. /\ phase' = IF opens THEN [phase EXCEPT ![n] = "official"] ELSE phase
      /\ recording' = IF opens THEN Recording(members[n], session[n]) ELSE recording
      /\ evts' = IF opens \/ repeats THEN Sent(n, e) ELSE evts
      /\ UNCHANGED <<sid, session, members, stopping>>
  BY DEF CoreCommit
<1>3. opens \/ repeats => session[n] = id
  BY DEF IInv, BarrierInv, CoreOK
<1>4. /\ \A k \in Nodes : EventQueueOK(evts'[k])
      /\ \A k \in Nodes : \A f \in InFlight(evts'[k]) : f \in InFlight(evts[k]) \/ f.type = "official"
  <2>1. CASE opens \/ repeats
    <3>1. e \in Events /\ e.type = "official"
      BY <1>1, <1>3, <2>1 DEF Evt, Events
    <3>2. evts' = Sent(n, e)
      BY <1>2, <2>1
    <3> HIDE DEF e
    <3>3. \A k \in Nodes : EventQueueOK(evts'[k])
      BY <1>1, <3>1, <3>2, OtherEventSent DEF DrainInv
    <3>4. \A k \in Nodes : \A f \in InFlight(evts'[k]) : f \in InFlight(evts[k]) \/ (k = n /\ f = e)
      BY <1>1, <3>1, <3>2, EventSent
    <3>5. QED
      BY <3>1, <3>3, <3>4
  <2>2. CASE ~(opens \/ repeats)
    BY <1>2, <2>2 DEF DrainInv, QueuesOK
  <2>3. QED
    BY <2>1, <2>2
<1>5. NothingNew
  BY <1>4 DEF NothingNew
<1>6. \A k \in Nodes : phase'[k] \in {"starting", "ready"} => phase'[k] = phase[k]
  BY <1>1, <1>2 DEF CoreTypeOK
<1>7. \A s \in Subjects :
        \/ recording'[s] \in {recording[s], NoId}
        \/ /\ phase[Assign[s]] = "ready" /\ s \in members[Assign[s]]
           /\ recording'[s] = sid[Assign[s]]
  <2>1. \A s \in members[n] : Assign[s] = n
    BY DEF DrainInv, MembersOK, OwnedBy
  <2>2. QED
    BY <1>2, <1>3, <2>1 DEF Recording
<1> HIDE DEF opens, repeats, e
<1>8. QED
  BY <1>2, <1>4, <1>5, <1>6, <1>7, CalmStep

\* The commit of the master's own Core.
LEMMA LocalCommitDrain == ASSUME IInv, DrainInv, NEW t \in Threads, LocalCommit(t) PROVE DrainInv'
<1>1. thread[t].id \in committed
  BY DEF LocalCommit, IInv, BarrierInv, ThreadsOK
<1>2. /\ CoreCommit(Master, thread[t].id) /\ cmds' = cmds
      /\ UNCHANGED <<active, drain, count, expectedOf, everReady, aggregated, archives>>
  BY DEF LocalCommit, stopHistory
<1>3. \A u \in Threads : thread'[u].at = "finalize" => thread'[u] = thread[u]
  BY DEF LocalCommit, IInv, TypeOK, MasterTypeOK, Idle
<1>4. \A w \in Workers : CommandQueueOK(cmds'[w]) /\ InFlight(cmds'[w]) \subseteq InFlight(cmds[w])
  BY <1>2 DEF DrainInv, QueuesOK
<1>5. QED
  BY <1>1, <1>2, <1>3, <1>4, MasterAssumption, CoreCommitDrain

\* The fan-out of a commit.
LEMMA DispatchCommitDrain ==
  ASSUME IInv, DrainInv, NEW t \in Threads, NEW id \in StartIds, DispatchCommit(t, id),
         UNCHANGED <<active, drain, coreVars, evts, expectedOf, everReady, stopHistory>>,
         count'["starts"] = count["starts"], count'["stops"] = count["stops"]
  PROVE  DrainInv'
<1>1. TransportTypeOK
  BY DEF IInv, TypeOK
<1>2. \A u \in Threads : thread'[u].at = "finalize" => thread'[u] = thread[u]
  <2>1. \/ thread' = [thread EXCEPT ![t] = Idle]
        \/ thread' = [thread EXCEPT ![t] = [at |-> "local", id |-> id, ts |-> NoId]]
    BY DEF DispatchCommit
  <2>2. QED
    BY <2>1 DEF IInv, TypeOK, MasterTypeOK, Idle
<1>3. \A w \in Workers : /\ CommandQueueOK(cmds'[w])
                         /\ \A d \in InFlight(cmds'[w]) : d \in InFlight(cmds[w]) \/ d.type = "commit"
  <2>1. CASE start.id = id /\ start.ready = start.expected
    <3> DEFINE c == Cmd("commit", id, {}, FALSE)
    <3>1. cmds' = [w \in Workers |-> IF w \in start.expected THEN Append(cmds[w], c) ELSE cmds[w]]
      BY <2>1 DEF DispatchCommit, FanOut
    <3>2. c \in Commands /\ c.type = "commit"
      BY DEF Cmd, Commands
    <3> HIDE DEF c
    <3>3. ASSUME NEW w \in Workers
          PROVE  CommandQueueOK(Append(cmds[w], c)) /\ InFlight(Append(cmds[w], c)) = InFlight(cmds[w]) \cup {c}
      <4>1. cmds[w] \in Seq(Commands) /\ CommandQueueOK(cmds[w])
        BY <1>1 DEF TransportTypeOK, DrainInv, QueuesOK
      <4>2. QED
        BY <3>2, <4>1, CommandQueueAppend, AppendInFlight
    <3>4. QED
      BY <3>1, <3>2, <3>3 DEF DrainInv, QueuesOK
  <2>2. CASE ~(start.id = id /\ start.ready = start.expected)
    BY <2>2 DEF DispatchCommit, DrainInv, QueuesOK
  <2>3. QED
    BY <2>1, <2>2
<1>4. NothingNew
  BY <1>3 DEF NothingNew
<1>5. \A n \in Nodes : EventQueueOK(evts'[n])
  BY DEF DrainInv, QueuesOK
<1>6. UNCHANGED <<phase, sid, session, members, stopping, recording, aggregated, archives>>
  BY DEF coreVars, stopHistory
<1>7. QED
  BY <1>2, <1>3, <1>4, <1>5, <1>6, CalmStep

\* A commit by the client.
LEMMA ClientCommitDrain == ASSUME IInv, DrainInv, NEW id \in StartIds, ClientCommit(id) PROVE DrainInv'
<1>1. /\ DispatchCommit("gateway", id) /\ "gateway" \in Threads
      /\ UNCHANGED <<active, drain, coreVars, evts, expectedOf, everReady, stopHistory>>
  BY DEF ClientCommit, Threads
<1>2. count'["starts"] = count["starts"] /\ count'["stops"] = count["stops"]
  BY DEF ClientCommit, Count, IInv, TypeOK, HistoryTypeOK, Counters
<1>3. QED
  BY <1>1, <1>2, DispatchCommitDrain

\* An automatic commit.
LEMMA AutoCommitDrain == ASSUME IInv, DrainInv, NEW t \in Threads, AutoCommit(t) PROVE DrainInv'
<1>1. /\ DispatchCommit(t, thread[t].id)
      /\ UNCHANGED <<active, drain, coreVars, evts, count, expectedOf, everReady, stopHistory>>
  BY DEF AutoCommit
<1>2. thread[t].id \in StartIds
  BY DEF AutoCommit, IInv, TypeOK, MasterTypeOK, ThreadStates, Idle
<1>3. QED
  BY <1>1, <1>2, DispatchCommitDrain


\* The queue of a worker that receives a command.
LEMMA CommandTaken ==
  ASSUME TransportTypeOK, QueuesOK, NEW w \in Workers, cmds[w] # <<>>, cmds' = [cmds EXCEPT ![w] = Tail(@)]
  PROVE  /\ \A k \in Workers : CommandQueueOK(cmds'[k]) /\ InFlight(cmds'[k]) \subseteq InFlight(cmds[k])
         /\ Head(cmds[w]) \in Commands /\ Head(cmds[w]) \in InFlight(cmds[w])
         /\ \A d \in InFlight(cmds'[w]) :
              /\ Head(cmds[w]).type # "commit" => ~(d.type = Head(cmds[w]).type /\ d.id = Head(cmds[w]).id)
              /\ Head(cmds[w]).type = "stop" => d.type # "start"
<1>1. /\ cmds \in [Workers -> Seq(Commands)] /\ cmds' = [cmds EXCEPT ![w] = Tail(cmds[w])]
      /\ CommandQueueOK(cmds[w])
  BY DEF TransportTypeOK, QueuesOK
<1>2. cmds[w] \in Seq(Commands)
  BY <1>1
<1>3. /\ CommandQueueOK(Tail(cmds[w]))
      /\ \A d \in InFlight(Tail(cmds[w])) :
           /\ Head(cmds[w]).type # "commit" => ~(d.type = Head(cmds[w]).type /\ d.id = Head(cmds[w]).id)
           /\ Head(cmds[w]).type = "stop" => d.type # "start"
  BY <1>1, <1>2, CommandQueueTail
<1>4. /\ Head(cmds[w]) \in Commands /\ Head(cmds[w]) \in InFlight(cmds[w])
      /\ InFlight(Tail(cmds[w])) \subseteq InFlight(cmds[w])
  BY <1>2, TailInFlight
<1>5. cmds'[w] = Tail(cmds[w]) /\ \A k \in Workers : k # w => cmds'[k] = cmds[k]
  BY <1>1
<1>6. QED
  BY <1>3, <1>4, <1>5 DEF QueuesOK

\* A worker starts.
LEMMA WorkerStartsDrain ==
  ASSUME IInv, DrainInv, NEW w \in Workers, WorkerReceives(w), NEW c \in Commands, c \in InFlight(cmds[w]),
         c.type = "start", CoreStart(w, c.id, c.subjects), configured[w], evts' = evts,
         \A k \in Workers : CommandQueueOK(cmds'[k]) /\ InFlight(cmds'[k]) \subseteq InFlight(cmds[k]),
         \A d \in InFlight(cmds'[w]) : ~(d.type = "start" /\ d.id = c.id)
  PROVE  DrainInv'
<1> USE DEF DrainInv
<1>1. TypeOK /\ CoreTypeOK /\ TransportTypeOK /\ HistoryTypeOK
  BY DEF IInv, TypeOK
<1>2. /\ phase' = [phase EXCEPT ![w] = "starting"]
      /\ sid' = [sid EXCEPT ![w] = c.id]
      /\ session' = [session EXCEPT ![w] = c.id]
      /\ members' = [members EXCEPT ![w] = c.subjects]
      /\ recording' = Recording(c.subjects, NoId)
      /\ stopping' = stopping /\ w \in Nodes
  BY DEF CoreStart, Workers
<1>3. UNCHANGED <<active, drain, thread, count, expectedOf, everReady, aggregated, archives>>
  BY DEF WorkerReceives, stopHistory
<1>4. c.id \in StartIds /\ c.id # NoId /\ c.subjects \subseteq OwnedBy(w) /\ c.subjects # {} /\ c.subjects \subseteq active
      /\ w \notin everReady[c.id] /\ w \in expectedOf[c.id]
  <2>1. c.id \in StartIds /\ c.id # NoId
    BY DEF Commands, StartIds, NoId
  <2>2. QED
    BY <2>1 DEF MembersOK, OnceOK, IInv, BarrierInv, CommandsOK
<1>5. \A s \in Subjects : recording'[s] \in {recording[s], NoId}
  BY <1>2 DEF Recording
<1>6. NothingNew
  BY DEF NothingNew
<1>7. \A n \in Nodes : /\ n # w => phase'[n] = phase[n] /\ sid'[n] = sid[n] /\ session'[n] = session[n] /\ members'[n] = members[n]
                       /\ n = w => phase'[n] = "starting" /\ sid'[n] = c.id /\ session'[n] = c.id /\ members'[n] = c.subjects
  BY <1>1, <1>2 DEF CoreTypeOK
<1>8. QueuesOK'
  BY <1>2 DEF QueuesOK, StartsQueued
<1>9. AttemptOK'
  BY <1>2, <1>3, <1>6, AttemptFrame
<1>10. CompletedOK'
  BY <1>3 DEF CompletedOK, Complete
<1>11. AckOK'
  <2>1. StartsQueued(w)
    BY DEF StartsQueued
  <2>2. \A n \in Nodes, s \in Subjects : Quiet(n, s) => Quiet(n, s)'
    BY <1>5, <1>6, <1>7, <2>1, NothingNewQueued DEF Quiet
  <2>3. QED
    BY <1>1, <1>3, <1>6, <2>2, AckFrame
<1>12. MembersOK'
  <2>1. \A n \in Nodes : /\ members'[n] \subseteq OwnedBy(n)
                         /\ phase'[n] \in {"starting", "ready"} => members'[n] # {} /\ members'[n] \subseteq active
    BY <1>4, <1>7 DEF MembersOK
  <2>2. \A k \in Workers : \A d \in InFlight(cmds'[k]) :
          /\ d.type # "commit" => d.subjects \subseteq OwnedBy(k)
          /\ d.type = "start" => d.subjects # {} /\ d.subjects \subseteq active
    BY DEF MembersOK
  <2>3. QED
    BY <1>2, <1>3, <2>1, <2>2 DEF MembersOK
<1>13. OnceOK'
  <2>1. c.id <= count["starts"]
    <3>1. count["starts"] \in Nat /\ c.id \in Nat
      BY <1>1, <1>4 DEF HistoryTypeOK, Counters, StartIds
    <3>2. ~(c.id > count["starts"])
      BY <1>4 DEF IInv, BarrierInv, HistoryOK
    <3>3. QED
      BY <3>1, <3>2
  <2>2. \A n \in Nodes : /\ sid'[n] <= count["starts"] /\ session'[n] <= count["starts"]
                         /\ phase'[n] = "starting" => n \notin everReady[sid'[n]]
    BY <1>4, <1>7, <2>1 DEF OnceOK
  <2>3. \A k \in Workers : \A d \in InFlight(cmds'[k]) : d.type = "start" => k \notin everReady[d.id] /\ sid'[k] # d.id
    BY <1>7 DEF OnceOK, Workers
  <2>4. QED
    BY <1>3, <2>2, <2>3 DEF OnceOK
<1>14. ArchivesOK'
  <2>1. ASSUME NEW a \in archives PROVE (GateFailed(a.ts) \/ Over(a.ts))'
    <3>1. a.ts \in StartIds /\ a.ts # NoId
      BY <1>1 DEF HistoryTypeOK, StartIds, NoId
    <3>2. StartQueued(w, c.id)
      BY DEF StartQueued
    <3>3. \A k \in Nodes : (Awaited(k, a.ts)' => Awaited(k, a.ts)) /\ (Coming(k, a.ts)' => Coming(k, a.ts))
      BY <1>6, <1>7, <3>2, NothingNewQueued DEF Awaited, Coming
    <3>4. expectedOf[a.ts] \subseteq Nodes
      BY <1>1, <3>1 DEF HistoryTypeOK
    <3>5. QED
      BY <1>3, <1>5, <3>1, <3>3, <3>4, ArchivesFrame DEF ArchivesOK
  <2>2. QED
    BY <1>3, <2>1 DEF ArchivesOK
<1>15. ActiveCoversStreaming'
  BY <1>3, <1>5 DEF ActiveCoversStreaming
<1>16. QED
  BY <1>8, <1>9, <1>10, <1>11, <1>12, <1>13, <1>14, <1>15

\* A worker begins to stop, or answers at once for want of a configuration.
LEMMA WorkerStopsDrain ==
  ASSUME IInv, DrainInv, NEW w \in Workers, NEW c \in Commands, c \in InFlight(cmds[w]), c.type = "stop",
         stopping[w] = NoStop,
         \A k \in Workers : CommandQueueOK(cmds'[k]) /\ InFlight(cmds'[k]) \subseteq InFlight(cmds[k]),
         \A d \in InFlight(cmds'[w]) : ~(d.type = "stop" /\ d.id = c.id) /\ d.type # "start",
         UNCHANGED <<active, drain, thread, count, expectedOf, everReady, aggregated, archives,
                     sid, session, members, recording>>,
         \A n \in Nodes : phase'[n] \in {"starting", "ready"} => phase'[n] = phase[n],
         \/ /\ stopping' = [stopping EXCEPT ![w] = [id |-> c.id, subjects |-> c.subjects]]
            /\ evts' = evts
         \/ /\ stopping' = stopping
            /\ evts' = Sent(w, Evt("drained", c.id, NoId, {}, TRUE))
  PROVE  DrainInv'
<1> USE DEF DrainInv
<1> DEFINE e == Evt("drained", c.id, NoId, {}, TRUE)
<1>1. TypeOK /\ CoreTypeOK /\ TransportTypeOK /\ HistoryTypeOK /\ w \in Nodes /\ ~StartsQueued(w)'
  BY DEF IInv, TypeOK, Workers, StartsQueued
<1>2. c.id \in StopIds /\ c.id # NoId /\ c.subjects \subseteq OwnedBy(w)
  BY DEF Commands, StopIds, NoId, MembersOK
<1>3. e \in Events /\ e.type = "drained" /\ e.id = c.id /\ e.subjects = {}
  BY <1>2 DEF Evt, Events
<1>4. \/ /\ stopping' = [stopping EXCEPT ![w] = [id |-> c.id, subjects |-> c.subjects]]
         /\ evts' = evts
      \/ stopping' = stopping /\ evts' = Sent(w, e)
  OBVIOUS
<1> HIDE DEF e
<1>5. /\ StopQueued(w, c.id) /\ ~StopQueued(w, c.id)' /\ ~Answering(w, c.id)
      /\ w \in drain[c.id].expected /\ ~drain[c.id].acks[w].acked
  <2>1. StopQueued(w, c.id) /\ ~StopQueued(w, c.id)'
    BY DEF StopQueued
  <2>2. QED
    BY <1>1, <1>2, <2>1 DEF AttemptOK
<1>6. \A n \in Nodes : /\ \A f \in InFlight(evts'[n]) : f \in InFlight(evts[n]) \/ (n = w /\ f = e /\ stopping' = stopping)
                       /\ EventQueueOK(evts'[n])
  <2>1. CASE evts' = evts
    BY <2>1 DEF QueuesOK
  <2>2. CASE stopping' = stopping /\ evts' = Sent(w, e)
    <3>1. \A n \in Nodes : \A f \in InFlight(evts'[n]) : f \in InFlight(evts[n]) \/ (n = w /\ f = e)
      BY <1>1, <1>3, <2>2, EventSent
    <3>2. evts \in [Nodes -> Seq(Events)] /\ evts' = [evts EXCEPT ![w] = Append(evts[w], e)]
      BY <1>1, <2>2 DEF Sent, TransportTypeOK
    <3>3. EventQueueOK(Append(evts[w], e))
      BY <1>1, <1>2, <1>3, <1>5, <3>2, EventQueueAppend DEF QueuesOK, Answering
    <3>4. QED
      BY <2>2, <3>1, <3>2, <3>3 DEF QueuesOK
  <2>3. QED
    BY <1>4, <2>1, <2>2
<1>7. \A n \in Nodes : /\ n # w => stopping'[n] = stopping[n]
                       /\ n = w => \/ stopping'[n] = NoStop
                                   \/ stopping'[n].id = c.id /\ stopping'[n].subjects = c.subjects /\ stopping' # stopping
  <2>1. [id |-> c.id, subjects |-> c.subjects] # NoStop
    BY <1>2 DEF NoStop
  <2>2. QED
    BY <1>1, <1>4, <2>1 DEF CoreTypeOK
<1>8. \A n \in Nodes : StartsQueued(n)' => StartsQueued(n)
  BY DEF StartsQueued
<1>9. QueuesOK'
  BY <1>1, <1>6, <1>7, <1>8 DEF QueuesOK, Workers
<1>10. AttemptOK'
  <2>1. \A n \in Nodes, k \in StopIds : StopQueued(n, k)' => StopQueued(n, k) /\ ~(n = w /\ k = c.id)
    BY <1>5 DEF StopQueued
  <2>2. \A n \in Nodes, k \in StopIds : Answering(n, k)' => Answering(n, k) \/ (n = w /\ k = c.id /\ stopping' = stopping)
    BY <1>3, <1>6 DEF Answering
  <2>3. \A n \in Nodes, k \in StopIds : stopping'[n].id = k => stopping[n].id = k \/ (n = w /\ k = c.id /\ stopping' # stopping)
    BY <1>7 DEF NoStop, StopIds, NoId
  <2>4. stopping[w].id # c.id
    BY <1>2 DEF NoStop
  <2>5. QED
    BY <1>2, <1>5, <2>1, <2>2, <2>3, <2>4 DEF AttemptOK
<1>11. CompletedOK'
  BY DEF CompletedOK, Complete
<1>12. AckOK'
  <2>1. \A n \in Nodes, s \in Subjects : Quiet(n, s) => Quiet(n, s)'
    BY <1>8 DEF Quiet
  <2>2. \A k \in StopIds, m \in Nodes : drain[k].acks[m].subjects \subseteq Subjects
    BY <1>1 DEF TypeOK, MasterTypeOK, DrainRecords, Acks
  <2>3. \A m \in Nodes : \A f \in InFlight(evts[m]) : f.subjects \subseteq Subjects
    BY <1>1, InFlightTyped DEF Events
  <2>4. ASSUME NEW k \in StopIds, NEW m \in Nodes, k \notin aggregated, drain[k].acks[m].acked,
               drain[k].acks[m].drained, NEW s \in drain[k].acks[m].subjects
        PROVE  Quiet(m, s)'
    BY <2>1, <2>2, <2>4 DEF AckOK
  <2>5. ASSUME NEW k \in StopIds, NEW m \in Nodes, k \notin aggregated, NEW f \in InFlight(evts[m])',
               f.type = "drained", f.id = k, f.drained, NEW s \in f.subjects
        PROVE  Quiet(m, s)'
    BY <1>3, <1>6, <2>1, <2>3, <2>5 DEF AckOK
  <2>6. QED
    BY <2>4, <2>5 DEF AckOK
<1>13. MembersOK'
  <2>1. NoStop.subjects = {}
    BY DEF NoStop
  <2>2. \A n \in Nodes : stopping'[n].subjects \subseteq OwnedBy(n)
    BY <1>2, <1>7, <2>1 DEF MembersOK
  <2>3. QED
    BY <2>2 DEF MembersOK
<1>14. OnceOK'
  BY DEF OnceOK
<1>15. ArchivesOK'
  <2>1. ASSUME NEW a \in archives PROVE (GateFailed(a.ts) \/ Over(a.ts))'
    <3>1. a.ts \in StartIds
      BY <1>1 DEF HistoryTypeOK
    <3>2. \A k \in Nodes : (Awaited(k, a.ts)' => Awaited(k, a.ts)) /\ (Coming(k, a.ts)' => Coming(k, a.ts))
      BY DEF Awaited, Coming, StartQueued
    <3>3. expectedOf[a.ts] \subseteq Nodes
      BY <1>1, <3>1 DEF HistoryTypeOK
    <3>4. QED
      BY <3>2, <3>3, ArchivesFrame DEF ArchivesOK
  <2>2. QED
    BY <2>1 DEF ArchivesOK
<1>16. ActiveCoversStreaming'
  BY DEF ActiveCoversStreaming
<1>17. QED
  BY <1>9, <1>10, <1>11, <1>12, <1>13, <1>14, <1>15, <1>16

\* A worker that receives a command.
LEMMA WorkerReceivesDrain == ASSUME IInv, DrainInv, NEW w \in Workers, WorkerReceives(w) PROVE DrainInv'
<1> DEFINE c == Head(cmds[w])
<1>1. CoreTypeOK /\ TransportTypeOK /\ QueuesOK /\ w \in Nodes /\ stopping[w] = NoStop
  BY DEF IInv, TypeOK, DrainInv, Workers, WorkerReceives
<1>2. /\ \A k \in Workers : CommandQueueOK(cmds'[k]) /\ InFlight(cmds'[k]) \subseteq InFlight(cmds[k])
      /\ c \in Commands /\ c \in InFlight(cmds[w])
      /\ \A d \in InFlight(cmds'[w]) :
           /\ c.type # "commit" => ~(d.type = c.type /\ d.id = c.id)
           /\ c.type = "stop" => d.type # "start"
  <2>1. cmds[w] # <<>> /\ cmds' = [cmds EXCEPT ![w] = Tail(@)]
    BY DEF WorkerReceives
  <2>2. QED
    BY <1>1, <2>1, CommandTaken
<1>3. UNCHANGED <<active, drain, thread, count, expectedOf, everReady, aggregated, archives>>
  BY DEF WorkerReceives, stopHistory
<1> HIDE DEF c
<1>4. CASE c.type = "start" /\ CoreStart(w, c.id, c.subjects) /\ UNCHANGED <<evts, opened>>
  <2>1. CASE configured[w]
    BY <1>2, <1>4, <2>1, WorkerStartsDrain
  <2>2. CASE ~configured[w]
    <3>1. UNCHANGED <<phase, sid, session, members, stopping, recording>>
      BY <1>4, <2>2 DEF CoreStart, coreVars
    <3>2. NothingNew
      BY <1>2, <1>4 DEF NothingNew
    <3>3. \A n \in Nodes : EventQueueOK(evts'[n])
      BY <1>1, <1>4 DEF QueuesOK
    <3>4. QED
      BY <1>2, <1>3, <3>1, <3>2, <3>3, CalmStep
  <2>3. QED
    BY <2>1, <2>2
<1>5. CASE c.type = "commit" /\ CoreCommit(w, c.id)
  <2>1. c.id \in committed
    BY <1>2, <1>5 DEF IInv, BarrierInv, CommandsOK
  <2>2. QED
    BY <1>1, <1>2, <1>3, <1>5, <2>1, CoreCommitDrain
<1>6. CASE c.type = "stop" /\ CoreStopBegins(w, c.id, c.subjects) /\ UNCHANGED <<evts, opened>>
  <2>1. /\ UNCHANGED <<sid, session, members, recording>>
        /\ stopping' = [stopping EXCEPT ![w] = [id |-> c.id, subjects |-> c.subjects]]
        /\ \A n \in Nodes : phase'[n] \in {"starting", "ready"} => phase'[n] = phase[n]
    BY <1>1, <1>6 DEF CoreStopBegins, CoreTypeOK
  <2>2. QED
    BY <1>1, <1>2, <1>3, <1>6, <2>1, WorkerStopsDrain
<1>7. CASE /\ c.type = "stop"
           /\ evts' = IF c.all THEN Sent(w, Evt("drained", c.id, NoId, {}, TRUE)) ELSE evts
           /\ UNCHANGED <<coreVars, opened>>
  <2>1. UNCHANGED <<phase, sid, session, members, stopping, recording>>
    BY <1>7 DEF coreVars
  <2>2. CASE evts' = Sent(w, Evt("drained", c.id, NoId, {}, TRUE))
    BY <1>1, <1>2, <1>3, <1>7, <2>1, <2>2, WorkerStopsDrain
  <2>3. CASE evts' = evts
    <3>1. NothingNew
      BY <1>2, <2>3 DEF NothingNew
    <3>2. \A n \in Nodes : EventQueueOK(evts'[n])
      BY <1>1, <2>3 DEF QueuesOK
    <3>3. QED
      BY <1>2, <1>3, <2>1, <3>1, <3>2, CalmStep
  <2>4. QED
    BY <1>7, <2>2, <2>3
<1>8. QED
  BY <1>4, <1>5, <1>6, <1>7 DEF WorkerReceives, c


\* A STOP of the client of which nothing is under way.
LEMMA StopDrain ==
  ASSUME IInv, DrainInv, NEW k \in StopIds, NEW S \in SUBSET Subjects, S # {}, NEW all \in BOOLEAN,
         Stop(k, S, all),
         \A n \in Nodes : ~StopQueued(n, k) /\ stopping[n].id # k /\ ~Answering(n, k),
         \A t \in Threads : ~(thread[t].at = "finalize" /\ thread[t].id = k),
         count'["starts"] = count["starts"], k <= count'["stops"],
         \A j \in StopIds : j # k => (j <= count'["stops"] <=> j <= count["stops"])
  PROVE  DrainInv'
<1> USE DEF DrainInv
<1> DEFINE c == [w \in Workers |-> Cmd("stop", k, S \cap OwnedBy(w), all)]
           own == [id |-> k, subjects |-> S \cap OwnedBy(Master)]
<1>1. TypeOK /\ MasterTypeOK /\ CoreTypeOK /\ TransportTypeOK /\ HistoryTypeOK /\ NodesOf(S) \subseteq Nodes
  BY AssignAssumption DEF IInv, TypeOK, NodesOf
<1>2. /\ drain' = [drain EXCEPT ![k] = DrainRecord(S, all)]
      /\ aggregated' = aggregated \ {k}
      /\ cmds' = [w \in Workers |-> IF w \in NodesOf(S) THEN Append(cmds[w], c[w]) ELSE cmds[w]]
      /\ UNCHANGED <<active, thread, evts, expectedOf, everReady, archives>>
      /\ stopping[Master] = NoStop
  BY DEF Stop, FanOut, startHistory, GatewayFree
<1>3. /\ UNCHANGED <<sid, session, members, recording>>
      /\ \A n \in Nodes : phase'[n] \in {"starting", "ready"} => phase'[n] = phase[n]
      /\ stopping' = stopping \/ (Master \in NodesOf(S) /\ stopping' = [stopping EXCEPT ![Master] = own])
  <2>1. CASE Master \in NodesOf(S)
    <3>1. CoreStopBegins(Master, k, S \cap OwnedBy(Master))
      BY <2>1 DEF Stop
    <3>2. QED
      BY <1>1, <2>1, <3>1, MasterAssumption DEF CoreStopBegins, CoreTypeOK
  <2>2. CASE Master \notin NodesOf(S)
    BY <2>2 DEF Stop, coreVars
  <2>3. QED
    BY <2>1, <2>2
<1>4. \A w \in Workers : /\ c[w] \in Commands /\ c[w].type = "stop" /\ c[w].id = k
                         /\ c[w].subjects \subseteq OwnedBy(w) /\ w \in Nodes
  BY DEF Cmd, Commands, Workers
<1>5. own.id = k /\ own.subjects \subseteq OwnedBy(Master) /\ k # NoId
  BY DEF StopIds, NoId
<1> HIDE DEF c, own
<1>6. ASSUME NEW w \in Workers
      PROVE  /\ CommandQueueOK(cmds'[w])
             /\ \A d \in InFlight(cmds'[w]) : d \in InFlight(cmds[w]) \/ (w \in NodesOf(S) /\ d = c[w])
  <2>1. cmds[w] \in Seq(Commands) /\ CommandQueueOK(cmds[w])
    BY <1>1 DEF TransportTypeOK, QueuesOK
  <2>2. \A d \in InFlight(cmds[w]) : ~(d.type = "stop" /\ d.id = k)
    BY <1>4 DEF StopQueued
  <2>3. c[w] \in Commands
    BY <1>4
  <2>4. CommandQueueOK(Append(cmds[w], c[w]))
    BY <1>4, <2>1, <2>2, <2>3, CommandQueueAppend
  <2>5. InFlight(Append(cmds[w], c[w])) = InFlight(cmds[w]) \cup {c[w]}
    BY <2>1, <2>3, AppendInFlight
  <2>6. QED
    BY <1>2, <2>1, <2>4, <2>5
<1>7. \A n \in Nodes : /\ StartsQueued(n)' => StartsQueued(n)
                       /\ \A i : StartQueued(n, i)' => StartQueued(n, i)
                       /\ \A j : StopQueued(n, j)' => StopQueued(n, j) \/ (j = k /\ n \in NodesOf(S) /\ n \in Workers)
                       /\ \A j : Answering(n, j)' <=> Answering(n, j)
  BY <1>2, <1>4, <1>6 DEF StartsQueued, StartQueued, StopQueued, Answering
<1>8. \A n \in Nodes : stopping'[n] = stopping[n] \/ (n = Master /\ Master \in NodesOf(S) /\ stopping'[n] = own)
  BY <1>1, <1>3 DEF CoreTypeOK
<1>9. QueuesOK'
  <2>1. \A w \in Workers : w \in Nodes /\ w # Master
    BY DEF Workers
  <2>2. QED
    BY <1>2, <1>6, <1>7, <1>8, <2>1 DEF QueuesOK
<1>10. /\ \A j \in StopIds : j # k => drain'[j] = drain[j]
       /\ drain'[k].subjects = S /\ drain'[k].expected = NodesOf(S)
       /\ \A n \in Nodes : ~drain'[k].acks[n].acked /\ drain'[k].acks[n].subjects = {}
  BY <1>1, <1>2 DEF MasterTypeOK, DrainRecord, NoAck
<1>11. AttemptOK'
  <2>1. ASSUME NEW j \in StopIds, j # k, NEW n \in Nodes
        PROVE  /\ StopQueued(n, j)' => StopQueued(n, j)
               /\ stopping'[n].id = j => stopping[n].id = j
    BY <1>5, <1>7, <1>8, <2>1
  <2>2. ASSUME NEW j \in StopIds, j # k, NEW n \in Nodes
        PROVE  /\ StopQueued(n, j)' => /\ n \in drain'[j].expected
                                       /\ stopping'[n].id # j /\ ~Answering(n, j)' /\ ~drain'[j].acks[n].acked
               /\ stopping'[n].id = j => n \in drain'[j].expected /\ ~Answering(n, j)' /\ ~drain'[j].acks[n].acked
               /\ Answering(n, j)' => n \in drain'[j].expected /\ ~drain'[j].acks[n].acked
               /\ drain'[j].acks[n].acked => n \in drain'[j].expected
               /\ ~drain'[j].acks[n].acked => drain'[j].acks[n].subjects = {}
    BY <1>7, <1>10, <2>1, <2>2 DEF AttemptOK
  <2>3. ASSUME NEW n \in Nodes
        PROVE  /\ StopQueued(n, k)' => /\ n \in drain'[k].expected
                                       /\ stopping'[n].id # k /\ ~Answering(n, k)' /\ ~drain'[k].acks[n].acked
               /\ stopping'[n].id = k => n \in drain'[k].expected /\ ~Answering(n, k)' /\ ~drain'[k].acks[n].acked
               /\ Answering(n, k)' => n \in drain'[k].expected /\ ~drain'[k].acks[n].acked
               /\ drain'[k].acks[n].acked => n \in drain'[k].expected
               /\ ~drain'[k].acks[n].acked => drain'[k].acks[n].subjects = {}
    <3>1. ~Answering(n, k)' /\ (StopQueued(n, k)' => n \in NodesOf(S) /\ n \in Workers)
      BY <1>7
    <3>2. stopping'[n].id = k => n = Master /\ n \in NodesOf(S)
      BY <1>8
    <3>3. QED
      BY <1>10, <3>1, <3>2 DEF Workers
  <2>4. QED
    BY <2>2, <2>3 DEF AttemptOK
<1>12. CompletedOK'
  <2>1. ASSUME NEW j \in StopIds, j # k PROVE Complete(j)' <=> Complete(j)
    BY <1>10, <2>1 DEF Complete
  <2>2. QED
    BY <1>2, <1>10, <2>1 DEF CompletedOK
<1>13. AckOK'
  <2>1. \A n \in Nodes, s \in Subjects : Quiet(n, s) => Quiet(n, s)'
    BY <1>3, <1>7 DEF Quiet
  <2>2. \A j \in StopIds, m \in Nodes : drain[j].acks[m].subjects \subseteq Subjects
    BY <1>1 DEF MasterTypeOK, DrainRecords, Acks
  <2>3. \A m \in Nodes : \A f \in InFlight(evts[m]) : f.subjects \subseteq Subjects
    BY <1>1, InFlightTyped DEF Events
  <2>4. ASSUME NEW j \in StopIds, NEW m \in Nodes, j \notin aggregated', drain'[j].acks[m].acked,
               drain'[j].acks[m].drained, NEW s \in drain'[j].acks[m].subjects
        PROVE  Quiet(m, s)'
    <3>1. j # k /\ j \notin aggregated /\ drain'[j] = drain[j]
      BY <1>2, <1>10, <2>4
    <3>2. QED
      BY <2>1, <2>2, <2>4, <3>1 DEF AckOK
  <2>5. ASSUME NEW j \in StopIds, NEW m \in Nodes, j \notin aggregated', NEW f \in InFlight(evts[m])',
               f.type = "drained", f.id = j, f.drained, NEW s \in f.subjects
        PROVE  Quiet(m, s)'
    <3>1. f \in InFlight(evts[m]) /\ Answering(m, j)
      BY <1>2, <2>5 DEF Answering
    <3>2. j # k /\ j \notin aggregated
      BY <1>2, <2>5, <3>1
    <3>3. QED
      BY <2>1, <2>3, <2>5, <3>1, <3>2 DEF AckOK
  <2>6. QED
    BY <2>4, <2>5 DEF AckOK
<1>14. MembersOK'
  <2>1. \A n \in Nodes : stopping'[n].subjects \subseteq OwnedBy(n)
    BY <1>5, <1>8 DEF MembersOK
  <2>2. \A w \in Workers : \A d \in InFlight(cmds'[w]) :
          /\ d.type # "commit" => d.subjects \subseteq OwnedBy(w)
          /\ d.type = "start" => d.subjects # {} /\ d.subjects \subseteq active
    BY <1>4, <1>6 DEF MembersOK
  <2>3. QED
    BY <1>2, <1>3, <2>1, <2>2 DEF MembersOK
<1>15. OnceOK'
  <2>1. \A w \in Workers : \A d \in InFlight(cmds'[w]) : d.type = "start" => d \in InFlight(cmds[w])
    BY <1>4, <1>6
  <2>2. QED
    BY <1>2, <1>3, <2>1 DEF OnceOK
<1>16. ArchivesOK'
  <2>1. ASSUME NEW a \in archives PROVE (GateFailed(a.ts) \/ Over(a.ts))'
    <3>1. a.ts \in StartIds
      BY <1>1 DEF HistoryTypeOK
    <3>2. \A n \in Nodes : (Awaited(n, a.ts)' => Awaited(n, a.ts)) /\ (Coming(n, a.ts)' => Coming(n, a.ts))
      BY <1>3, <1>7 DEF Awaited, Coming
    <3>3. expectedOf[a.ts] \subseteq Nodes
      BY <1>1, <3>1 DEF HistoryTypeOK
    <3>4. QED
      BY <1>2, <1>3, <3>2, <3>3, ArchivesFrame DEF ArchivesOK
  <2>2. QED
    BY <1>2, <2>1 DEF ArchivesOK
<1>17. ActiveCoversStreaming'
  BY <1>2, <1>3 DEF ActiveCoversStreaming
<1>18. QED
  BY <1>9, <1>11, <1>12, <1>13, <1>14, <1>15, <1>16, <1>17

\* A new STOP.
LEMMA ClientStopDrain ==
  ASSUME IInv, DrainInv, NEW S \in SUBSET Subjects, S # {}, NEW all \in BOOLEAN, ClientStop(S, all)
  PROVE  DrainInv'
<1>1. PICK k \in StopIds : k = count["stops"] + 1
  BY DEF ClientStop
<1>2. Stop(k, S, all) /\ count["stops"] \in Nat
  BY <1>1 DEF ClientStop, IInv, TypeOK, HistoryTypeOK, Counters
<1>3. count'["starts"] = count["starts"] /\ count'["stops"] = k
  BY <1>1 DEF ClientStop, Count, IInv, TypeOK, HistoryTypeOK, Counters
<1>4. drain[k].subjects = {} /\ drain[k].expected = {}
  BY <1>1, <1>2 DEF DrainInv, CompletedOK, NodesOf
<1>5. \A n \in Nodes : ~StopQueued(n, k) /\ stopping[n].id # k /\ ~Answering(n, k)
  BY <1>4 DEF DrainInv, AttemptOK
<1>6. \A t \in Threads : ~(thread[t].at = "finalize" /\ thread[t].id = k)
  BY <1>4 DEF DrainInv, CompletedOK, Complete
<1>7. k <= count'["stops"] /\ \A j \in StopIds : j # k => (j <= count'["stops"] <=> j <= count["stops"])
  <2>1. k \in Nat /\ \A j \in StopIds : j \in Nat
    BY DEF StopIds
  <2>2. QED
    BY <1>1, <1>2, <1>3, <2>1
<1>8. QED
  BY <1>2, <1>3, <1>5, <1>6, <1>7, StopDrain

\* A STOP resent by a client that waits.
LEMMA ClientRetriesStopDrain ==
  ASSUME IInv, DrainInv, ClientWaits, NEW k \in StopIds, ClientRetriesStop(k) PROVE DrainInv'
<1>1. Stop(k, drain[k].subjects, drain[k].all) /\ RanItsCourse(k) /\ k <= count["stops"]
  BY DEF ClientRetriesStop
<1>2. drain[k].subjects \in SUBSET Subjects /\ drain[k].all \in BOOLEAN /\ drain[k].subjects # {}
  BY <1>1 DEF IInv, TypeOK, MasterTypeOK, DrainRecords, DrainInv, CompletedOK
<1>3. count'["starts"] = count["starts"] /\ count'["stops"] = count["stops"]
  BY DEF ClientRetriesStop, Count, IInv, TypeOK, HistoryTypeOK, Counters
<1>4. \A n \in Nodes : ~StopQueued(n, k) /\ stopping[n].id # k /\ ~Answering(n, k)
  BY <1>1 DEF RanItsCourse, StopQueued, Answering, InFlight
<1>5. \A t \in Threads : ~(thread[t].at = "finalize" /\ thread[t].id = k)
  BY <1>1 DEF RanItsCourse
<1>6. QED
  BY <1>1, <1>2, <1>3, <1>4, <1>5, StopDrain


\* With nothing outstanding, no STOP is anywhere.
LEMMA NothingOutstanding ==
  ASSUME TypeOK, AttemptOK, CompletedOK, Outstanding = {}
  PROVE  /\ \A k \in StopIds, n \in Nodes : ~StopQueued(n, k) /\ stopping[n].id # k /\ ~Answering(n, k)
         /\ \A k \in StopIds, n \in Nodes : k \notin aggregated => ~drain[k].acks[n].acked
         /\ \A t \in Threads : thread[t].at # "finalize"
         /\ \A n \in Nodes : stopping[n] = NoStop
         /\ \A w \in Workers : \A d \in InFlight(cmds[w]) : d.type # "stop"
<1>1. \A k \in StopIds : drain[k].subjects = {} \/ k \in aggregated
  BY DEF Outstanding
<1>2. \A k \in StopIds : drain[k].subjects = {} => drain[k].expected = {}
  BY DEF CompletedOK, NodesOf
<1>3. \A k \in StopIds : k \in aggregated => \A n \in drain[k].expected : drain[k].acks[n].acked
  BY DEF CompletedOK, Complete
<1>4. \A k \in StopIds, n \in Nodes : ~StopQueued(n, k) /\ stopping[n].id # k /\ ~Answering(n, k)
  BY <1>1, <1>2, <1>3 DEF AttemptOK
<1>5. \A k \in StopIds, n \in Nodes : k \notin aggregated => ~drain[k].acks[n].acked
  BY <1>1, <1>2 DEF AttemptOK
<1>6. \A t \in Threads : thread[t].at # "finalize"
  <2>1. \A t \in Threads : thread[t].at = "finalize" => thread[t].id \in StopIds
    BY DEF TypeOK, MasterTypeOK, ThreadStates, Idle
  <2>2. QED
    BY <1>1, <2>1 DEF CompletedOK, Complete
<1>7. \A n \in Nodes : stopping[n] = NoStop
  <2>1. \A n \in Nodes : stopping[n] = NoStop \/ stopping[n].id \in StopIds
    BY DEF TypeOK, CoreTypeOK
  <2>2. QED
    BY <1>4, <2>1
<1>8. \A w \in Workers : \A d \in InFlight(cmds[w]) : d.type # "stop"
  <2>1. \A w \in Workers : \A d \in InFlight(cmds[w]) : d.type = "stop" => d.id \in StopIds
    BY InFlightTyped DEF TypeOK, Commands
  <2>2. \A w \in Workers : w \in Nodes
    BY DEF Workers
  <2>3. QED
    BY <1>4, <2>1, <2>2 DEF StopQueued
<1>9. QED
  BY <1>4, <1>5, <1>6, <1>7, <1>8

\* A START of a client that waits.
LEMMA ClientStartDrain ==
  ASSUME IInv, DrainInv, ClientWaits, NEW S \in (SUBSET Subjects) \ {{}}, ClientStart(S) PROVE DrainInv'
<1> USE DEF DrainInv
<1>0. PICK id \in StartIds : id = count["starts"] + 1
  BY DEF ClientStart
<1> DEFINE c == [w \in Workers |-> Cmd("start", id, S \cap OwnedBy(w), FALSE)]
           own == S \cap OwnedBy(Master)
<1>1. TypeOK /\ CoreTypeOK /\ TransportTypeOK /\ HistoryTypeOK /\ NodesOf(S) \subseteq Nodes
  BY AssignAssumption DEF IInv, TypeOK, NodesOf
<1>2. /\ count["starts"] \in Nat /\ id \in Nat /\ expectedOf[id] = {} /\ everReady[id] = {}
      /\ \A i \in StartIds : i <= count["starts"] => i # id
  <2>1. count["starts"] \in Nat /\ id \in Nat
    BY <1>1 DEF HistoryTypeOK, Counters, StartIds
  <2>2. id > count["starts"]
    BY <1>0, <2>1
  <2>3. expectedOf[id] = {}
    BY <2>2 DEF IInv, BarrierInv, HistoryOK
  <2>4. QED
    BY <2>1, <2>2, <2>3 DEF OnceOK
<1>3. /\ active' = active \cup S
      /\ expectedOf' = [expectedOf EXCEPT ![id] = NodesOf(S)]
      /\ cmds' = [w \in Workers |-> IF w \in NodesOf(S) THEN Append(cmds[w], c[w]) ELSE cmds[w]]
      /\ UNCHANGED <<drain, thread, evts, everReady, aggregated, archives>>
      /\ Outstanding = {}
  BY <1>0 DEF ClientStart, FanOut, stopHistory
<1>4. count'["starts"] = id /\ count'["stops"] = count["stops"]
  BY <1>0, <1>1 DEF ClientStart, Count, HistoryTypeOK, Counters
<1>5. \A w \in Workers : /\ c[w] \in Commands /\ c[w].type = "start" /\ c[w].id = id
                         /\ c[w].subjects \subseteq OwnedBy(w) /\ c[w].subjects \subseteq S /\ w \in Nodes
                         /\ w \in NodesOf(S) => c[w].subjects # {}
  BY DEF Cmd, Commands, Workers, NodesOf, OwnedBy
<1>6. /\ stopping' = stopping
      /\ \A s \in Subjects : recording'[s] \in {recording[s], NoId}
      /\ \A n \in Nodes : \/ UNCHANGED <<phase[n], sid[n], session[n], members[n]>>
                          \/ /\ n = Master /\ Master \in NodesOf(S)
                             /\ phase'[n] = "starting" /\ sid'[n] = id /\ session'[n] = id /\ members'[n] = own
  <2>1. CASE Master \in NodesOf(S) /\ configured[Master]
    <3>1. /\ phase' = [phase EXCEPT ![Master] = "starting"]
          /\ sid' = [sid EXCEPT ![Master] = id]
          /\ session' = [session EXCEPT ![Master] = id]
          /\ members' = [members EXCEPT ![Master] = own]
          /\ recording' = Recording(own, NoId)
          /\ stopping' = stopping
      BY <1>0, <2>1 DEF ClientStart, CoreStart
    <3>2. QED
      BY <1>1, <2>1, <3>1, MasterAssumption DEF CoreTypeOK, Recording
  <2>2. CASE ~(Master \in NodesOf(S) /\ configured[Master])
    <3>1. UNCHANGED <<phase, sid, session, members, recording, stopping>>
      BY <2>2 DEF ClientStart, CoreStart, coreVars
    <3>2. QED
      BY <3>1
  <2>3. QED
    BY <2>1, <2>2
<1>7. own \subseteq OwnedBy(Master) /\ own \subseteq S /\ (Master \in NodesOf(S) => own # {})
  BY DEF NodesOf, OwnedBy
<1> HIDE DEF c, own
<1>8. /\ \A k \in StopIds, n \in Nodes : ~StopQueued(n, k) /\ stopping[n].id # k /\ ~Answering(n, k)
      /\ \A k \in StopIds, n \in Nodes : k \notin aggregated => ~drain[k].acks[n].acked
      /\ \A t \in Threads : thread[t].at # "finalize"
      /\ \A n \in Nodes : stopping[n] = NoStop
      /\ \A w \in Workers : \A d \in InFlight(cmds[w]) : d.type # "stop"
  BY <1>1, <1>3, NothingOutstanding
<1>9. ASSUME NEW w \in Workers
      PROVE  /\ CommandQueueOK(cmds'[w])
             /\ \A d \in InFlight(cmds'[w]) : d \in InFlight(cmds[w]) \/ (w \in NodesOf(S) /\ d = c[w])
  <2>1. cmds[w] \in Seq(Commands) /\ CommandQueueOK(cmds[w])
    BY <1>1 DEF TransportTypeOK, QueuesOK
  <2>2. \A d \in InFlight(cmds[w]) : ~(d.type = "start" /\ d.id = id) /\ d.type # "stop"
    BY <1>2, <1>8 DEF IInv, BarrierInv, CommandsOK
  <2>3. c[w] \in Commands
    BY <1>5
  <2>4. CommandQueueOK(Append(cmds[w], c[w]))
    BY <1>5, <2>1, <2>2, <2>3, CommandQueueAppend
  <2>5. InFlight(Append(cmds[w], c[w])) = InFlight(cmds[w]) \cup {c[w]}
    BY <2>1, <2>3, AppendInFlight
  <2>6. QED
    BY <1>3, <2>1, <2>4, <2>5
<1>10. QueuesOK'
  BY <1>3, <1>5, <1>6, <1>8, <1>9 DEF QueuesOK
<1>11. AttemptOK'
  <2>1. \A k \in StopIds, n \in Nodes : ~StopQueued(n, k)'
    BY <1>5, <1>8, <1>9 DEF StopQueued
  <2>2. \A k \in StopIds, n \in Nodes : ~Answering(n, k)' /\ stopping'[n].id # k
    BY <1>3, <1>6, <1>8 DEF Answering
  <2>3. QED
    BY <1>3, <2>1, <2>2 DEF AttemptOK
<1>12. CompletedOK'
  <2>1. \A k \in StopIds : Complete(k)' <=> Complete(k)
    BY <1>3 DEF Complete
  <2>2. QED
    BY <1>3, <1>4, <1>8, <2>1 DEF CompletedOK
<1>13. AckOK'
  <2>1. \A k \in StopIds, n \in Nodes : \A e \in InFlight(evts[n]) : ~(e.type = "drained" /\ e.id = k)
    BY <1>8 DEF Answering
  <2>2. QED
    BY <1>3, <1>8, <2>1 DEF AckOK
<1>14. MembersOK'
  <2>1. \A n \in Nodes : /\ members'[n] \subseteq OwnedBy(n)
                         /\ phase'[n] \in {"starting", "ready"} => members'[n] # {} /\ members'[n] \subseteq active'
    BY <1>3, <1>6, <1>7 DEF MembersOK
  <2>2. \A w \in Workers : \A d \in InFlight(cmds'[w]) :
          /\ d.type # "commit" => d.subjects \subseteq OwnedBy(w)
          /\ d.type = "start" => d.subjects # {} /\ d.subjects \subseteq active'
    BY <1>3, <1>5, <1>9 DEF MembersOK
  <2>3. QED
    BY <1>6, <2>1, <2>2 DEF MembersOK
<1>15. OnceOK'
  <2>1. \A i \in StartIds : everReady'[i] \subseteq expectedOf'[i]
    BY <1>1, <1>2, <1>3 DEF OnceOK, HistoryTypeOK
  <2>2. \A n \in Nodes : /\ sid'[n] <= id /\ session'[n] <= id
                         /\ phase'[n] = "starting" => n \notin everReady[sid'[n]]
    <3>1. \A n \in Nodes : sid[n] \in Nat /\ session[n] \in Nat
      BY <1>1 DEF CoreTypeOK, StartIds, NoId
    <3>2. QED
      BY <1>0, <1>2, <1>6, <3>1 DEF OnceOK
  <2>3. \A w \in Workers : sid'[w] = sid[w] /\ sid[w] # id
    <3>1. \A w \in Workers : w \in Nodes /\ w # Master
      BY DEF Workers
    <3>2. \A n \in Nodes : sid[n] \in Nat /\ sid[n] <= count["starts"]
      BY <1>1 DEF CoreTypeOK, StartIds, NoId, OnceOK
    <3>3. QED
      BY <1>0, <1>2, <1>6, <3>1, <3>2
  <2>4. \A w \in Workers : \A d \in InFlight(cmds'[w]) : d.type = "start" => w \notin everReady[d.id] /\ sid'[w] # d.id
    BY <1>2, <1>5, <1>9, <2>3 DEF OnceOK
  <2>5. QED
    BY <1>3, <1>4, <2>1, <2>2, <2>4 DEF OnceOK
<1>16. ArchivesOK'
  <2>1. ASSUME NEW a \in archives PROVE a.ts <= id /\ (GateFailed(a.ts) \/ Over(a.ts))'
    <3>1. a.ts \in StartIds /\ a.ts \in Nat /\ a.ts # NoId
      BY <1>1 DEF HistoryTypeOK, StartIds, NoId
    <3>2. a.ts <= count["starts"] /\ a.ts # id
      BY <1>2, <3>1 DEF ArchivesOK
    <3>3. \A n \in Nodes : StartQueued(n, a.ts)' => StartQueued(n, a.ts)
      BY <1>5, <1>9, <3>2 DEF StartQueued
    <3>4. \A n \in Nodes : (Awaited(n, a.ts)' => Awaited(n, a.ts)) /\ (Coming(n, a.ts)' => Coming(n, a.ts))
      BY <1>6, <3>2, <3>3 DEF Awaited, Coming
    <3>5. expectedOf[a.ts] \subseteq Nodes /\ expectedOf'[a.ts] = expectedOf[a.ts]
      BY <1>1, <1>3, <3>1, <3>2 DEF HistoryTypeOK
    <3>6. (GateFailed(a.ts) \/ Over(a.ts))'
      BY <1>3, <1>6, <3>1, <3>4, <3>5, ArchivesFrame DEF ArchivesOK
    <3>7. QED
      BY <1>0, <1>2, <3>1, <3>2, <3>6
  <2>2. QED
    BY <1>3, <1>4, <2>1 DEF ArchivesOK
<1>17. ActiveCoversStreaming'
  BY <1>3, <1>6 DEF ActiveCoversStreaming
<1>18. QED
  BY <1>10, <1>11, <1>12, <1>13, <1>14, <1>15, <1>16, <1>17


\* The record of STOP k takes the acknowledgement e of node n.
Acknowledges(n, e, k) ==
  /\ \A j \in StopIds : j # k => drain'[j] = drain[j]
  /\ drain'[k].subjects = drain[k].subjects
  /\ drain'[k].expected = drain[k].expected
  /\ \A m \in Nodes : m # n => drain'[k].acks[m] = drain[k].acks[m]
  /\ drain'[k].acks[n] = [acked |-> TRUE, subjects |-> e.subjects, ts |-> e.ts, drained |-> e.drained]

\* The record of STOP k is complete: what was drained is retired, and the STOP is answered or
\* goes on to its finalization.
Retires(k) ==
  /\ \A m \in drain[k].expected : drain'[k].acks[m].acked /\ drain'[k].acks[m].drained
  /\ active' = active \ UNION {drain'[k].acks[m].subjects : m \in Nodes}
  /\ \/ active' # {} /\ aggregated' = aggregated \cup {k} /\ thread' = thread
     \/ /\ active' = {} /\ aggregated' = aggregated
        /\ \E t \in Threads : /\ thread[t] = Idle
                              /\ thread'[t].at = "finalize" /\ thread'[t].id = k
                              /\ \A u \in Threads : u # t => thread'[u] = thread[u]

\* The acknowledgement of a node is recorded; the last one retires what was drained.
LEMMA AckRecorded ==
  ASSUME IInv, DrainInv, NEW n \in Nodes, NEW e \in Events, e \in InFlight(evts[n]), e.type = "drained",
         NEW k \in StopIds, e.id = k,
         \A m \in Nodes : EventQueueOK(evts'[m]) /\ InFlight(evts'[m]) \subseteq InFlight(evts[m]),
         \A f \in InFlight(evts'[n]) : ~(f.type = "drained" /\ f.id = k),
         UNCHANGED <<coreVars, cmds, count, expectedOf, everReady, archives>>,
         Acknowledges(n, e, k), Retires(k) \/ UNCHANGED <<active, thread, aggregated>>
  PROVE  DrainInv'
<1> USE DEF DrainInv, Acknowledges, Retires
<1>1. TypeOK /\ MasterTypeOK /\ CoreTypeOK /\ TransportTypeOK /\ HistoryTypeOK
  BY DEF IInv, TypeOK
<1>2. UNCHANGED <<phase, sid, session, members, stopping, recording>>
  BY DEF coreVars
<1>3. Answering(n, k) /\ ~Answering(n, k)' /\ n \in drain[k].expected /\ ~drain[k].acks[n].acked
      /\ ~StopQueued(n, k) /\ stopping[n].id # k
  <2>1. Answering(n, k) /\ ~Answering(n, k)'
    BY DEF Answering
  <2>2. QED
    BY <2>1 DEF AttemptOK
<1>4. k \notin aggregated /\ ~Complete(k) /\ \A t \in Threads : ~(thread[t].at = "finalize" /\ thread[t].id = k)
  BY <1>3 DEF CompletedOK, Complete
<1>5. /\ drain'[k].acks[n].acked /\ drain'[k].acks[n].subjects = e.subjects
      /\ drain'[k].acks[n].drained = e.drained
  OBVIOUS
<1>6. \A m \in Nodes : /\ StartsQueued(m)' <=> StartsQueued(m)
                       /\ \A i : StartQueued(m, i)' <=> StartQueued(m, i)
                       /\ \A j : StopQueued(m, j)' <=> StopQueued(m, j)
                       /\ \A j : Answering(m, j)' => Answering(m, j)
  BY DEF StartsQueued, StartQueued, StopQueued, Answering
<1>7. QueuesOK'
  BY <1>2, <1>6 DEF QueuesOK, Workers
<1>8. AttemptOK'
  <2>1. ASSUME NEW j \in StopIds, NEW m \in Nodes, j # k \/ m # n
        PROVE  drain'[j].acks[m] = drain[j].acks[m] /\ drain'[j].expected = drain[j].expected
    BY <2>1
  <2>2. QED
    BY <1>2, <1>3, <1>5, <1>6, <2>1 DEF AttemptOK
<1>9. \A m \in Nodes, s \in Subjects : Quiet(m, s)' <=> Quiet(m, s)
  BY <1>2, <1>6 DEF Quiet
<1>10. \A j \in StopIds, m \in Nodes : drain[j].acks[m].subjects \subseteq Subjects
  BY <1>1 DEF MasterTypeOK, DrainRecords, Acks
<1>11. e.subjects \subseteq Subjects /\ \A m \in Nodes : \A f \in InFlight(evts[m]) : f.subjects \subseteq Subjects
  BY <1>1, InFlightTyped DEF Events
<1>12. ASSUME NEW j \in StopIds, NEW m \in Nodes, j \notin aggregated, drain'[j].acks[m].acked,
              drain'[j].acks[m].drained, NEW s \in drain'[j].acks[m].subjects
       PROVE  Quiet(m, s) /\ s \in Subjects
  <2>1. CASE j = k /\ m = n
    BY <1>5, <1>11, <1>12, <2>1 DEF AckOK
  <2>2. CASE j # k \/ m # n
    <3>1. drain'[j].acks[m] = drain[j].acks[m]
      BY <2>2
    <3>2. QED
      BY <1>10, <1>12, <3>1 DEF AckOK
  <2>3. QED
    BY <2>1, <2>2
<1>13. AckOK'
  <2>1. aggregated \subseteq aggregated'
    OBVIOUS
  <2>2. ASSUME NEW j \in StopIds, NEW m \in Nodes, j \notin aggregated', drain'[j].acks[m].acked,
               drain'[j].acks[m].drained, NEW s \in drain'[j].acks[m].subjects
        PROVE  Quiet(m, s)'
    BY <1>9, <1>12, <2>1, <2>2
  <2>3. ASSUME NEW j \in StopIds, NEW m \in Nodes, j \notin aggregated', NEW f \in InFlight(evts[m])',
               f.type = "drained", f.id = j, f.drained, NEW s \in f.subjects
        PROVE  Quiet(m, s)'
    BY <1>9, <1>11, <2>1, <2>3 DEF AckOK
  <2>4. QED
    BY <2>2, <2>3 DEF AckOK
<1>14. \A s \in active \ active' : Quiet(Assign[s], s)
  <2>1. ASSUME NEW s \in active, s \notin active' PROVE Quiet(Assign[s], s)
    <3>1. PICK m \in Nodes : s \in drain'[k].acks[m].subjects
      BY <2>1
    <3>2. drain'[k].acks[m].acked
      BY <3>1, <1>8 DEF AttemptOK
    <3>3. m \in drain[k].expected
      BY <1>8, <3>2 DEF AttemptOK
    <3>4. drain'[k].acks[m].drained
      BY <2>1, <3>3
    <3>5. Quiet(m, s)
      BY <1>4, <1>12, <3>1, <3>2, <3>4
    <3>6. QED
      BY <3>5 DEF Quiet
  <2>2. QED
    BY <2>1
<1>15. active' \subseteq active
  OBVIOUS
<1>16. CompletedOK'
  <2>1. ASSUME NEW j \in StopIds, j # k PROVE Complete(j)' <=> Complete(j)
    BY <2>1 DEF Complete
  <2>2. drain[k].subjects # {} /\ drain[k].expected = NodesOf(drain[k].subjects)
    BY <1>3 DEF CompletedOK, NodesOf
  <2>3. ASSUME NEW j \in StopIds, j # k
        PROVE  /\ drain'[j].expected = NodesOf(drain'[j].subjects)
               /\ drain'[j].subjects # {} <=> j <= count'["stops"]
               /\ j \in aggregated' => Complete(j)'
               /\ \A t \in Threads : thread'[t].at = "finalize" /\ thread'[t].id = j =>
                    /\ Complete(j)' /\ j \notin aggregated' /\ active' = {}
                    /\ \A u \in Threads : thread'[u].at = "finalize" /\ thread'[u].id = j => u = t
    <3>1. \A t \in Threads : thread'[t].at = "finalize" /\ thread'[t].id = j => thread'[t] = thread[t]
      BY <2>3
    <3>2. j \in aggregated' <=> j \in aggregated
      BY <2>3
    <3>3. QED
      BY <1>15, <2>1, <2>3, <3>1, <3>2 DEF CompletedOK
  <2>4. /\ drain'[k].expected = NodesOf(drain'[k].subjects)
        /\ drain'[k].subjects # {} <=> k <= count'["stops"]
    BY DEF CompletedOK
  <2>5. /\ k \in aggregated' => Complete(k)'
        /\ \A t \in Threads : thread'[t].at = "finalize" /\ thread'[t].id = k =>
             /\ Complete(k)' /\ k \notin aggregated' /\ active' = {}
             /\ \A u \in Threads : thread'[u].at = "finalize" /\ thread'[u].id = k => u = t
    <3>1. CASE UNCHANGED <<active, thread, aggregated>>
      BY <1>4, <3>1
    <3>2. CASE /\ \A m \in drain[k].expected : drain'[k].acks[m].acked /\ drain'[k].acks[m].drained
               /\ \/ aggregated' = aggregated \cup {k} /\ thread' = thread
                  \/ /\ active' = {} /\ aggregated' = aggregated
                     /\ \E t \in Threads : /\ thread[t] = Idle
                                           /\ thread'[t].at = "finalize" /\ thread'[t].id = k
                                           /\ \A u \in Threads : u # t => thread'[u] = thread[u]
      <4>1. Complete(k)'
        BY <2>2, <3>2 DEF Complete
      <4>2. QED
        BY <1>4, <3>2, <4>1
    <3>3. QED
      BY <3>1, <3>2
  <2>6. QED
    BY <2>3, <2>4, <2>5 DEF CompletedOK
<1>17. MembersOK'
  <2>1. \A m \in Nodes : phase[m] \in {"starting", "ready"} => members[m] \subseteq active'
    <3>1. ASSUME NEW m \in Nodes, phase[m] \in {"starting", "ready"}, NEW s \in members[m], s \notin active'
          PROVE  FALSE
      <4>1. s \in active /\ Assign[s] = m
        BY <3>1 DEF MembersOK, OwnedBy
      <4>2. QED
        BY <1>14, <3>1, <4>1 DEF Quiet
    <3>2. QED
      BY <3>1
  <2>2. \A w \in Workers : \A c \in InFlight(cmds[w]) : c.type = "start" => c.subjects \subseteq active'
    <3>1. ASSUME NEW w \in Workers, NEW c \in InFlight(cmds[w]), c.type = "start", NEW s \in c.subjects, s \notin active'
          PROVE  FALSE
      <4>1. s \in active /\ Assign[s] = w /\ StartsQueued(w)
        BY <3>1 DEF MembersOK, OwnedBy, StartsQueued
      <4>2. QED
        BY <1>14, <3>1, <4>1 DEF Quiet
    <3>2. QED
      BY <3>1
  <2>3. QED
    BY <1>2, <2>1, <2>2 DEF MembersOK
<1>18. OnceOK'
  BY <1>2 DEF OnceOK
<1>19. ArchivesOK'
  <2>1. ASSUME NEW a \in archives PROVE (GateFailed(a.ts) \/ Over(a.ts))'
    <3>1. a.ts \in StartIds
      BY <1>1 DEF HistoryTypeOK
    <3>2. \A m \in Nodes : (Awaited(m, a.ts)' => Awaited(m, a.ts)) /\ (Coming(m, a.ts)' => Coming(m, a.ts))
      BY <1>2, <1>6 DEF Awaited, Coming
    <3>3. expectedOf[a.ts] \subseteq Nodes
      BY <1>1, <3>1 DEF HistoryTypeOK
    <3>4. QED
      BY <1>2, <3>2, <3>3, ArchivesFrame DEF ArchivesOK
  <2>2. QED
    BY <2>1 DEF ArchivesOK
<1>20. ActiveCoversStreaming'
  BY <1>2, <1>14 DEF ActiveCoversStreaming, Quiet
<1>21. QED
  BY <1>7, <1>8, <1>13, <1>16, <1>17, <1>18, <1>19, <1>20

\* An event that is no acknowledgement of a STOP.
LEMMA OtherEventHandled ==
  ASSUME IInv, DrainInv,
         \A m \in Nodes : EventQueueOK(evts'[m]) /\ InFlight(evts'[m]) \subseteq InFlight(evts[m]),
         UNCHANGED <<coreVars, cmds, count, expectedOf, everReady, archives, active, drain, aggregated>>,
         \A t \in Threads : thread'[t].at = "finalize" => thread'[t] = thread[t]
  PROVE  DrainInv'
<1>1. NothingNew
  BY DEF NothingNew
<1>2. UNCHANGED <<phase, sid, session, members, stopping, recording>>
  BY DEF coreVars
<1>3. \A w \in Workers : CommandQueueOK(cmds'[w])
  BY DEF DrainInv, QueuesOK
<1>4. QED
  BY <1>1, <1>2, <1>3, CalmStep


\* The master handles an event.
LEMMA HandleEventDrain == ASSUME IInv, DrainInv, NEW n \in Nodes, HandleEvent(n) PROVE DrainInv'
<1> DEFINE e == Head(evts[n])
<1>1. MasterTypeOK /\ TransportTypeOK /\ QueuesOK /\ thread[EventThread(n)] = Idle /\ EventThread(n) \in Threads
  BY DEF IInv, TypeOK, DrainInv, HandleEvent, EventThread, Threads
<1>2. /\ e \in Events /\ e \in InFlight(evts[n])
      /\ \A m \in Nodes : EventQueueOK(evts'[m]) /\ InFlight(evts'[m]) \subseteq InFlight(evts[m])
      /\ e.type = "drained" /\ e.id # NoId => \A f \in InFlight(evts'[n]) : ~(f.type = "drained" /\ f.id = e.id)
  <2>1. /\ evts \in [Nodes -> Seq(Events)] /\ evts[n] # <<>> /\ evts' = [evts EXCEPT ![n] = Tail(evts[n])]
        /\ EventQueueOK(evts[n])
    BY <1>1 DEF TransportTypeOK, QueuesOK, HandleEvent
  <2>2. evts[n] \in Seq(Events)
    BY <2>1
  <2>3. /\ EventQueueOK(Tail(evts[n]))
        /\ e.type = "drained" /\ e.id # NoId => \A f \in InFlight(Tail(evts[n])) : ~(f.type = "drained" /\ f.id = e.id)
    BY <2>1, <2>2, EventQueueTail
  <2>4. e \in Events /\ e \in InFlight(evts[n]) /\ InFlight(Tail(evts[n])) \subseteq InFlight(evts[n])
    BY <2>1, <2>2, TailInFlight
  <2>5. evts'[n] = Tail(evts[n]) /\ \A m \in Nodes : m # n => evts'[m] = evts[m]
    BY <2>1
  <2>6. QED
    BY <1>1, <2>3, <2>4, <2>5 DEF QueuesOK
<1>3. UNCHANGED <<coreVars, cmds, count, expectedOf, everReady, archives>>
  BY DEF HandleEvent, startHistory
<1>4. CASE e.type = "ready" /\ RecordReady(n, e) /\ UNCHANGED <<active, drain, aggregated>>
  <2>1. \/ thread' = thread
        \/ thread' = [thread EXCEPT ![EventThread(n)] = [at |-> "commit", id |-> e.id, ts |-> NoId]]
    BY <1>4 DEF RecordReady
  <2>2. \A t \in Threads : thread'[t].at = "finalize" => thread'[t] = thread[t]
    BY <1>1, <2>1 DEF MasterTypeOK
  <2>3. QED
    BY <1>2, <1>3, <1>4, <2>2, OtherEventHandled
<1>5. CASE e.type = "official" /\ RecordOfficial(n, e) /\ UNCHANGED <<active, drain, thread, aggregated>>
  BY <1>2, <1>3, <1>5, OtherEventHandled
<1>6. CASE e.type = "drained" /\ RecordDrained(n, e)
  <2> HIDE DEF e
  <2>1. CASE e.id = NoId \/ drain[e.id].subjects = {}
    <3>1. UNCHANGED <<active, drain, thread, aggregated>>
      BY <1>6, <2>1 DEF RecordDrained
    <3>2. QED
      BY <1>2, <1>3, <3>1, OtherEventHandled
  <2>2. CASE ~(e.id = NoId \/ drain[e.id].subjects = {})
    <3> DEFINE record == WithAck(drain[e.id], n, e)
               left == active \ DrainedSubjects(record)
               finalize == [at |-> "finalize", id |-> e.id, ts |-> SharedTimestamp(record.acks)]
               done == [record EXCEPT !.finalizing = (left = {}), !.finalized = (left # {})]
    <3>1. e.id \in StopIds /\ e.id # NoId /\ drain[e.id] \in DrainRecords /\ drain \in [StopIds -> DrainRecords]
      BY <1>1, <1>2, <1>6, <2>2 DEF Events, MasterTypeOK
    <3>2. /\ record.subjects = drain[e.id].subjects /\ record.expected = drain[e.id].expected
          /\ \A m \in Nodes : m # n => record.acks[m] = drain[e.id].acks[m]
          /\ record.acks[n] = [acked |-> TRUE, subjects |-> e.subjects, ts |-> e.ts, drained |-> e.drained]
      BY <3>1 DEF WithAck, DrainRecords
    <3>3. CASE ~DrainComplete(record)
      <4>1. drain' = [drain EXCEPT ![e.id] = record] /\ UNCHANGED <<active, thread, aggregated>>
        BY <1>6, <2>2, <3>3 DEF RecordDrained
      <4>2. drain'[e.id] = record /\ \A j \in StopIds : j # e.id => drain'[j] = drain[j]
        BY <3>1, <4>1
      <4> HIDE DEF record
      <4>3. Acknowledges(n, e, e.id)
        BY <3>2, <4>2 DEF Acknowledges
      <4>4. \A f \in InFlight(evts'[n]) : ~(f.type = "drained" /\ f.id = e.id)
        BY <1>2, <1>6, <3>1
      <4>5. QED
        BY <1>2, <1>3, <1>6, <3>1, <4>1, <4>3, <4>4, AckRecorded
    <3>4. CASE DrainComplete(record)
      <4>1. /\ active' = left
            /\ drain' = [drain EXCEPT ![e.id] = done]
            /\ thread' = IF left = {} THEN [thread EXCEPT ![EventThread(n)] = finalize] ELSE thread
            /\ aggregated' = IF left = {} THEN aggregated ELSE aggregated \cup {e.id}
        BY <1>6, <2>2, <3>4 DEF RecordDrained
      <4>2. done.subjects = record.subjects /\ done.expected = record.expected /\ done.acks = record.acks
        BY <3>1 DEF WithAck, DrainRecords
      <4>3. drain'[e.id] = done /\ \A j \in StopIds : j # e.id => drain'[j] = drain[j]
        BY <3>1, <4>1
      <4>4. \A m \in record.expected : record.acks[m].acked /\ record.acks[m].drained
        BY <3>4 DEF DrainComplete
      <4>5. left = active \ UNION {record.acks[m].subjects : m \in Nodes}
        BY DEF DrainedSubjects
      <4>6. finalize.at = "finalize" /\ finalize.id = e.id
        OBVIOUS
      <4> HIDE DEF done, record, left, finalize
      <4>7. active' = active \ UNION {drain'[e.id].acks[m].subjects : m \in Nodes}
        BY <4>1, <4>2, <4>3, <4>5
      <4>8. \/ active' # {} /\ aggregated' = aggregated \cup {e.id} /\ thread' = thread
            \/ /\ active' = {} /\ aggregated' = aggregated
               /\ \E t \in Threads : /\ thread[t] = Idle
                                     /\ thread'[t].at = "finalize" /\ thread'[t].id = e.id
                                     /\ \A u \in Threads : u # t => thread'[u] = thread[u]
        <5>1. CASE left # {}
          BY <4>1, <5>1
        <5>2. CASE left = {}
          <6>1. thread' = [thread EXCEPT ![EventThread(n)] = finalize] /\ thread \in [Threads -> ThreadStates]
            BY <1>1, <4>1, <5>2 DEF MasterTypeOK
          <6>2. thread'[EventThread(n)] = finalize /\ \A u \in Threads : u # EventThread(n) => thread'[u] = thread[u]
            BY <1>1, <6>1
          <6>3. QED
            BY <1>1, <4>1, <4>6, <5>2, <6>2
        <5>3. QED
          BY <5>1, <5>2
      <4>9. Acknowledges(n, e, e.id)
        BY <3>2, <4>2, <4>3 DEF Acknowledges
      <4>10. Retires(e.id)
        <5>1. \A m \in drain[e.id].expected : drain'[e.id].acks[m].acked /\ drain'[e.id].acks[m].drained
          BY <3>2, <4>2, <4>3, <4>4
        <5>2. QED
          BY <4>7, <4>8, <5>1, Zenon DEF Retires
      <4>11. \A f \in InFlight(evts'[n]) : ~(f.type = "drained" /\ f.id = e.id)
        BY <1>2, <1>6, <3>1
      <4>12. QED
        BY <1>2, <1>3, <1>6, <3>1, <4>9, <4>10, <4>11, AckRecorded
    <3>5. QED
      BY <3>3, <3>4
  <2>3. QED
    BY <2>1, <2>2
<1>7. QED
  BY <1>4, <1>5, <1>6 DEF HandleEvent

\* The end of the finalization callback.
LEMMA FinalizedDrain ==
  ASSUME IInv, DrainInv, NEW t \in Threads, NEW ok \in BOOLEAN, thread[t].at = "finalize", Finalized(t, ok),
         ok => Accepts(thread[t].ts), count'["starts"] = count["starts"], count'["stops"] = count["stops"]
  PROVE  DrainInv'
<1> USE DEF DrainInv
<1>1. TypeOK /\ MasterTypeOK /\ TransportTypeOK /\ HistoryTypeOK
  BY DEF IInv, TypeOK
<1>2. PICK k \in StopIds : k = thread[t].id
  BY <1>1 DEF MasterTypeOK, ThreadStates, Idle
<1>3. /\ thread' = [thread EXCEPT ![t] = Idle] /\ thread \in [Threads -> ThreadStates]
      /\ aggregated' = aggregated \cup {k}
      /\ archives' = IF ok THEN archives \cup {[by |-> Master, ts |-> thread[t].ts]} ELSE archives
      /\ UNCHANGED <<active, phase, sid, session, members, stopping, recording, cmds, evts, expectedOf, everReady>>
  BY <1>1, <1>2 DEF Finalized, coreVars, startHistory, MasterTypeOK
<1>4. \A j \in StopIds : /\ drain'[j].subjects = drain[j].subjects /\ drain'[j].expected = drain[j].expected
                         /\ drain'[j].acks = drain[j].acks
  <2>1. PICK f \in BOOLEAN : f = (drain[k].finalized \/ ok)
    OBVIOUS
  <2>2. drain' = [drain EXCEPT ![k].finalizing = FALSE, ![k].finalized = f]
    BY <1>2, <2>1 DEF Finalized
  <2>3. drain \in [StopIds -> DrainRecords] /\ drain[k] \in DrainRecords
    BY <1>1 DEF MasterTypeOK
  <2>4. QED
    BY <2>2, <2>3 DEF DrainRecords
<1>5. Complete(k) /\ active = {}
  BY <1>2 DEF CompletedOK
<1>6. NothingNew
  BY <1>3 DEF NothingNew
<1>7. QueuesOK'
  BY <1>3 DEF QueuesOK, StartsQueued
<1>8. AttemptOK'
  BY <1>3, <1>4, <1>6, AttemptFrame
<1>9. CompletedOK'
  <2>1. \A j \in StopIds : Complete(j)' <=> Complete(j)
    BY <1>4 DEF Complete
  <2>2. \A u \in Threads : thread'[u].at = "finalize" => u # t /\ thread'[u] = thread[u]
    BY <1>3 DEF Idle
  <2>3. \A u \in Threads : thread[u].at = "finalize" /\ thread[u].id = k => u = t
    BY <1>2 DEF CompletedOK
  <2>4. QED
    BY <1>3, <1>4, <1>5, <2>1, <2>2, <2>3 DEF CompletedOK
<1>10. AckOK'
  <2>1. \A n \in Nodes, s \in Subjects : Quiet(n, s) => Quiet(n, s)'
    BY <1>3 DEF Quiet, StartsQueued
  <2>2. QED
    BY <1>1, <1>3, <1>4, <1>6, <2>1, AckFrame
<1>11. MembersOK' /\ OnceOK' /\ ActiveCoversStreaming'
  BY <1>3 DEF MembersOK, OnceOK, ActiveCoversStreaming
<1>12. ArchivesOK'
  <2>1. ASSUME NEW i, GateFailed(i) \/ Over(i) PROVE (GateFailed(i) \/ Over(i))'
    BY <1>3, <2>1 DEF GateFailed, Over, Awaited, Coming, StartQueued
  <2>2. PICK ts : ts = thread[t].ts
    OBVIOUS
  <2>3. ASSUME ok PROVE ts <= count["starts"] /\ Over(ts)'
    <3>1. ts # NoId /\ ts = session[Master]
      BY <2>2, <2>3 DEF Accepts
    <3>2. \A s \in Subjects : recording[s] = NoId
      BY <1>5 DEF ActiveCoversStreaming
    <3>3. \A n \in Nodes : phase[n] \notin {"starting", "ready"}
      BY <1>5 DEF MembersOK
    <3>4. \A n \in Nodes, i \in StartIds : ~StartQueued(n, i)
      BY <1>5 DEF MembersOK, StartQueued
    <3>5. ts \in StartIds /\ ts <= count["starts"]
      <4>1. session[Master] \in StartIds \cup {NoId} /\ session[Master] <= count["starts"]
        BY <1>1, MasterAssumption DEF TypeOK, CoreTypeOK, OnceOK
      <4>2. QED
        BY <3>1, <4>1
    <3>6. Over(ts)
      BY <3>1, <3>2, <3>3, <3>4, <3>5 DEF Over, Coming
    <3>7. Over(ts)'
      BY <1>3, <3>6 DEF Over, Coming, StartQueued
    <3>8. QED
      BY <3>5, <3>7
  <2>4. \A a \in archives' : a \in archives \/ (ok /\ a.ts = ts)
    BY <1>3, <2>2
  <2>5. QED
    BY <2>1, <2>3, <2>4 DEF ArchivesOK
<1>13. QED
  BY <1>7, <1>8, <1>9, <1>10, <1>11, <1>12

\* A finished session.
LEMMA FinalizeDrain == ASSUME IInv, DrainInv, NEW t \in Threads, Finalize(t) PROVE DrainInv'
<1>1. thread[t].at = "finalize" /\ Finalized(t, Accepts(thread[t].ts)) /\ count' = count
  BY DEF Finalize
<1>2. PICK ok \in BOOLEAN : ok = Accepts(thread[t].ts)
  BY DEF Accepts
<1>3. Finalized(t, ok) /\ (ok => Accepts(thread[t].ts))
  BY <1>1, <1>2
<1>4. QED
  BY <1>1, <1>3, FinalizedDrain

\* A session that cannot be finished.
LEMMA FinalizeFailsDrain == ASSUME IInv, DrainInv, NEW t \in Threads, FinalizeFails(t) PROVE DrainInv'
<1>1. thread[t].at = "finalize" /\ Finalized(t, FALSE)
  BY DEF FinalizeFails
<1>2. count'["starts"] = count["starts"] /\ count'["stops"] = count["stops"]
  BY DEF FinalizeFails, Count, IInv, TypeOK, HistoryTypeOK, Counters
<1>3. QED
  BY <1>1, <1>2, FinalizedDrain

-----------------------------------------------------------------------------
(* The drain barrier. *)

\* The initial states satisfy its invariant.
LEMMA InitDrain == Init => DrainInv
<1> SUFFICES ASSUME Init PROVE DrainInv
  OBVIOUS
<1>1. /\ \A w \in Workers : cmds[w] = <<>> /\ InFlight(cmds[w]) = {}
      /\ \A n \in Nodes : evts[n] = <<>> /\ InFlight(evts[n]) = {}
  BY EmptyInFlight DEF Init
<1>2. \A n \in Nodes : stopping[n] = NoStop /\ phase[n] = "idle" /\ members[n] = {} /\ sid[n] = 0 /\ session[n] = 0
  BY DEF Init, NoId
<1>3. \A k \in StopIds : /\ drain[k].subjects = {} /\ drain[k].expected = {} /\ k # NoId /\ k > 0
                         /\ \A n \in Nodes : ~drain[k].acks[n].acked /\ drain[k].acks[n].subjects = {}
  BY DEF Init, DrainRecord, NoAck, NodesOf, StopIds, NoId
<1>4. QueuesOK
  BY <1>1, <1>2, CommandQueueEmpty DEF QueuesOK, EventQueueOK, Workers
<1>5. AttemptOK
  BY <1>1, <1>2, <1>3 DEF AttemptOK, StopQueued, Answering, NoStop
<1>6. CompletedOK
  <2>1. \A k \in StopIds : ~(k <= count["stops"]) /\ k \notin aggregated
    BY <1>3 DEF Init, Counters, StopIds
  <2>2. \A t \in Threads : thread[t].at # "finalize"
    BY DEF Init, Idle
  <2>3. QED
    BY <1>3, <2>1, <2>2 DEF CompletedOK, NodesOf
<1>7. AckOK /\ MembersOK
  <2>1. NoStop.subjects = {}
    BY DEF NoStop
  <2>2. AckOK
    BY <1>1, <1>3 DEF AckOK
  <2>3. MembersOK
    BY <1>1, <1>2, <2>1 DEF MembersOK
  <2>4. QED
    BY <2>2, <2>3
<1>8. OnceOK /\ ArchivesOK /\ ActiveCoversStreaming
  BY <1>1, <1>2 DEF Init, OnceOK, ArchivesOK, ActiveCoversStreaming, Counters
<1>9. QED
  BY <1>4, <1>5, <1>6, <1>7, <1>8 DEF DrainInv

\* Every step keeps it, if the client waits.
LEMMA NextDrain == ASSUME ClientWaits PROVE IInv /\ DrainInv /\ [Next]_vars => DrainInv'
<1> SUFFICES ASSUME IInv, DrainInv, [Next]_vars PROVE DrainInv'
  OBVIOUS
<1>1. CASE ClientNext
  BY <1>1, ClientStartDrain, ClientStopDrain, ClientRetriesStopDrain, ClientCommitDrain DEF ClientNext
<1>2. CASE FaultNext
  BY <1>2, WorkerRestartsDrain, WorkerReconnectsDrain, CoreStopFailsDrain, FinalizeFailsDrain DEF FaultNext
<1>3. ASSUME NEW w \in Workers, WorkerReceives(w) PROVE DrainInv'
  BY <1>3, WorkerReceivesDrain
<1>4. ASSUME NEW n \in Nodes, NodeNext(n) \/ GateReady(n) \/ GateFails(n) PROVE DrainInv'
  BY <1>4, CoreStopEndsDrain, HandleEventDrain, GateReadyDrain, GateFailsDrain DEF NodeNext
<1>5. ASSUME NEW t \in Threads, ThreadNext(t) PROVE DrainInv'
  BY <1>5, AutoCommitDrain, LocalCommitDrain, FinalizeDrain DEF ThreadNext
<1>6. CASE UNCHANGED vars
  <2>1. UNCHANGED <<coreVars, cmds, count, expectedOf, everReady, archives, active, drain, aggregated, evts, thread>>
    BY <1>6 DEF vars, startHistory, stopHistory
  <2>2. \A m \in Nodes : EventQueueOK(evts'[m]) /\ InFlight(evts'[m]) \subseteq InFlight(evts[m])
    BY <2>1 DEF DrainInv, QueuesOK
  <2>3. QED
    BY <2>1, <2>2, OtherEventHandled
<1>7. QED
  BY <1>1, <1>2, <1>3, <1>4, <1>5, <1>6 DEF Next

\* It is an invariant of the specification.
LEMMA DrainInvariance == ASSUME ClientWaits PROVE Spec => []DrainInv
BY InitDrain, NextDrain, Invariance, PTL DEF Spec

\* _active_stream_subjects covers what is recorded, for any number of nodes, STOPs that overlap,
\* acknowledgements that are lost or late, restarts and failed stops, if the client sends no START
\* while a STOP is unanswered and resends a STOP only when nothing of it is under way.
THEOREM ActiveIsComplete == ASSUME ClientWaits PROVE Spec => []ActiveCoversStreaming
<1>1. DrainInv => ActiveCoversStreaming
  BY DEF DrainInv
<1>2. QED
  BY <1>1, DrainInvariance, PTL

\* _finalize_session_archive, by the master or by a node whose gate fails, never archives a
\* session that is recorded then or later, under the same condition.
THEOREM ArchivesAreDrained == ASSUME ClientWaits PROVE Spec => []ArchiveAfterDrain
<1>1. IInv /\ DrainInv => ArchiveAfterDrain
  <2> SUFFICES ASSUME IInv, DrainInv, NEW a \in archives, NEW s \in Subjects, recording[s] = a.ts PROVE FALSE
    BY DEF ArchiveAfterDrain
  <2>1. a.ts \in StartIds /\ a.ts # NoId
    BY DEF IInv, TypeOK, HistoryTypeOK, StartIds, NoId
  <2>2. expectedOf[a.ts] \subseteq everReady[a.ts]
    BY <2>1 DEF IInv, BarrierInv, RecordingOK, HistoryOK
  <2>3. ~GateFailed(a.ts) /\ ~Over(a.ts)
    BY <2>2 DEF GateFailed, Over
  <2>4. QED
    BY <2>3 DEF DrainInv, ArchivesOK
<1>2. QED
  BY <1>1, DrainInvariance, Invariance, PTL
=============================================================================

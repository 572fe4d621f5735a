----------------------------- MODULE MasterStream -----------------------------
(***************************************************************************)
(* The master's coordination of distributed acquisitions: the START        *)
(* fan-out, the official-start barrier, the STOP fan-out, the drain        *)
(* barrier and the finalization of the shared session.                     *)
(*                                                                         *)
(* Three threads of the master take steps: the gateway thread, which runs  *)
(* the client's commands one after the other; the ROUTER thread, which     *)
(* runs the handlers of the workers' events; and the event-bus thread,     *)
(* which runs the handlers of the events of the master's own Core.  A      *)
(* worker executes its commands in order, one at a time.  A node's Core is *)
(* abstracted to what the master and the shared session directory observe. *)
(***************************************************************************)
EXTENDS Naturals, Sequences, FiniteSets

CONSTANTS
  Nodes,       \* the execution nodes of the registry
  Master,      \* the node that coordinates
  Subjects,    \* the configured subjects
  Assign,      \* the node that owns each subject (NodeRegistry.subjects)
  ClientWaits, \* TRUE: the client sends no START while one of its STOPs is unanswered and
               \* resends a STOP only when the earlier attempt has run its course
  MaxStarts,   \* bound: START commands of the client
  MaxStops,    \* bound: distinct stop_session_ids
  MaxRetries,  \* bound: STOP commands resent with a known stop_session_id
  MaxCommits,  \* bound: start_official_stream commands of the client
  MaxFaults,   \* bound: restarts and reconnects of workers, failed local STOPs
  MaxIOFaults  \* bound: failing file operations of the finalization callback

ASSUME MasterAssumption == Master \in Nodes
ASSUME AssignAssumption == Assign \in [Subjects -> Nodes]
ASSUME BoundsAssumption ==
  /\ ClientWaits \in BOOLEAN
  /\ {MaxStarts, MaxStops, MaxRetries, MaxCommits, MaxFaults, MaxIOFaults} \subseteq Nat

Workers == Nodes \ {Master}
StartIds == 1..MaxStarts   \* start_session_id, and the session_timestamp that goes with it
StopIds == 1..MaxStops     \* stop_session_id
NoId == 0                  \* Python's None

Threads == {"gateway", "router", "bus"}
EventThread(n) == IF n = Master THEN "bus" ELSE "router"

VARIABLES
  \* The master
  active,      \* _active_stream_subjects
  start,       \* the only record of _official_start_tracking
  drain,       \* _drain_tracking
  thread,      \* what each of the master's threads is in the middle of
  \* The Core of each node
  phase,       \* stream_phase; "starting" stands for starting, warming_up and preparing_official
  sid,         \* _start_session_id
  session,     \* session_timestamp
  members,     \* _startup_subject_ids
  configured,  \* whether subjects are installed
  stopping,    \* the STOP that _stop_stream_impl is executing
  recording,   \* of each subject: the session it is recorded into, NoId if not is_streaming
  \* The transport
  cmds,        \* commands on their way to each worker
  evts,        \* events of each node on their way to the master's handlers
  count,       \* counters that bound the run
  \* History
  expectedOf,  \* the participants of each start
  everReady,   \* the nodes that have announced READY_FOR_OFFICIAL for each start
  opened,      \* the nodes that have opened official persistence for each start
  committed,   \* the starts whose commit was dispatched
  aggregated,  \* the STOPs answered by an aggregate event
  archives,    \* who has archived which session
  refused      \* the sessions that the master's Core has refused to finalize

coreVars == <<phase, sid, session, members, configured, stopping, recording>>
startHistory == <<expectedOf, everReady, opened, committed>>
stopHistory == <<aggregated, archives, refused>>
vars == <<active, start, drain, thread, coreVars, cmds, evts, count, startHistory, stopHistory>>

Counters == {"starts", "stops", "retries", "commits", "faults", "ioFaults"}

OwnedBy(n) == {s \in Subjects : Assign[s] = n}
NodesOf(S) == {Assign[s] : s \in S}

NoStart == [id |-> NoId, expected |-> {}, ready |-> {}, official |-> {},
            announced |-> FALSE, committed |-> FALSE]

NoAck == [acked |-> FALSE, subjects |-> {}, ts |-> NoId, drained |-> FALSE]

\* A record of _create_drain_record: the scope and the subjects of the STOP and the nodes
\* that own them.  No record has no subjects.
DrainRecord(S, all) ==
  [subjects |-> S, all |-> all, expected |-> NodesOf(S), acks |-> [n \in Nodes |-> NoAck],
   finalizing |-> FALSE, finalized |-> FALSE]

Idle == [at |-> "idle", id |-> NoId, ts |-> NoId]

\* The subjects of node n with is_streaming set.
Streaming(n) == {s \in OwnedBy(n) : recording[s] # NoId}

Recording(S, ts) == [s \in Subjects |-> IF s \in S THEN ts ELSE recording[s]]

-----------------------------------------------------------------------------
(* Commands and events. *)

Cmd(type, id, S, all) == [type |-> type, id |-> id, subjects |-> S, all |-> all]
Evt(type, id, ts, S, drained) ==
  [type |-> type, id |-> id, ts |-> ts, subjects |-> S, drained |-> drained]

Sent(n, e) == [evts EXCEPT ![n] = Append(@, e)]

\* MasterNode.send_command to every remote target, each with its own payload.
FanOut(targets, Payload(_)) ==
  cmds' = [w \in Workers |-> IF w \in targets THEN Append(cmds[w], Payload(w)) ELSE cmds[w]]

Count(c) == count' = [count EXCEPT ![c] = @ + 1]

-----------------------------------------------------------------------------
(* A node's Core as the master sees it. *)

NoStop == [id |-> NoId, subjects |-> {}]

\* Core.start_stream, Core.start_stream_for_subjects: rejected without a configuration.
CoreStart(n, id, S) ==
  IF configured[n]
  THEN /\ phase' = [phase EXCEPT ![n] = "starting"]
       /\ sid' = [sid EXCEPT ![n] = id]
       /\ session' = [session EXCEPT ![n] = id]
       /\ members' = [members EXCEPT ![n] = S]
       /\ recording' = Recording(S, NoId)
       /\ UNCHANGED <<configured, stopping>>
  ELSE UNCHANGED coreVars

\* Core.start_official_stream: only for the Core's own start session, once it is ready;
\* a repeated commit only repeats the event.
CoreCommit(n, id) ==
  LET opens == sid[n] = id /\ phase[n] = "ready"
      repeats == sid[n] = id /\ phase[n] = "official"
  IN /\ phase' = IF opens THEN [phase EXCEPT ![n] = "official"] ELSE phase
     /\ recording' = IF opens THEN Recording(members[n], session[n]) ELSE recording
     /\ opened' = IF opens THEN [opened EXCEPT ![id] = @ \cup {n}] ELSE opened
     /\ evts' = IF opens \/ repeats THEN Sent(n, Evt("official", id, session[n], {}, TRUE)) ELSE evts
     /\ UNCHANGED <<sid, session, members, configured, stopping>>

\* The first critical section of Core._stop_stream_impl.  A start the sensor manager
\* has not executed yet still reaches its warm-up (_on_stream_started) meanwhile.
CoreStopBegins(n, k, S) ==
  LET aborts == Streaming(n) \ S = {} /\ phase[n] \notin {"idle", "failed"}
  IN /\ \/ aborts /\ phase' = [phase EXCEPT ![n] = "stopping"]
        \/ (~aborts \/ phase[n] = "starting") /\ UNCHANGED phase
     /\ stopping' = [stopping EXCEPT ![n] = [id |-> k, subjects |-> S]]
     /\ UNCHANGED <<sid, session, members, configured, recording>>

\* _on_stream_stopped and the finally clause of _stop_stream_impl, when the subjects
\* in "left" still stream on this node.
CoreStopped(n, left) ==
  /\ phase' = [phase EXCEPT ![n] = IF left # {} /\ @ \in {"official", "failed"} THEN @ ELSE "idle"]
  /\ sid' = [sid EXCEPT ![n] = IF left = {} THEN NoId ELSE @]
  /\ members' = [members EXCEPT ![n] = IF left = {} THEN {} ELSE @]
  /\ stopping' = [stopping EXCEPT ![n] = NoStop]
  /\ UNCHANGED <<session, configured>>

-----------------------------------------------------------------------------
(* The client's commands, run by the gateway thread (dispatch_command).    *)

GatewayFree == thread["gateway"] = Idle /\ stopping[Master] = NoStop

Outstanding == {k \in StopIds : drain[k].subjects # {} /\ k \notin aggregated}

\* START: mark the subjects active, open the barrier, fan out, start locally.
ClientStart(S) ==
  LET id == count["starts"] + 1
  IN /\ GatewayFree
     /\ id \in StartIds
     /\ ClientWaits => Outstanding = {}
     /\ Count("starts")
     /\ active' = active \cup S
     /\ start' = [id |-> id, expected |-> NodesOf(S), ready |-> {}, official |-> {},
                  announced |-> FALSE, committed |-> FALSE]
     /\ expectedOf' = [expectedOf EXCEPT ![id] = NodesOf(S)]
     /\ FanOut(NodesOf(S), LAMBDA w : Cmd("start", id, S \cap OwnedBy(w), FALSE))
     /\ IF Master \in NodesOf(S) THEN CoreStart(Master, id, S \cap OwnedBy(Master))
                                 ELSE UNCHANGED coreVars
     /\ UNCHANGED <<drain, thread, evts, everReady, opened, committed, stopHistory>>

\* Mutant: the fan-out forgets the master's own Core.
DispatchCommitRemoteOnly(t, id) ==
  /\ thread' = [thread EXCEPT ![t] = Idle]
  /\ IF start.id = id /\ start.ready = start.expected
     THEN /\ start' = [start EXCEPT !.committed = TRUE]
          /\ committed' = committed \cup {id}
          /\ FanOut(start.expected, LAMBDA w : Cmd("commit", id, {}, FALSE))
     ELSE UNCHANGED <<start, committed, cmds>>

\* The checks and the fan-out of CMD_START_OFFICIAL_STREAM, by whichever thread
\* dispatches it; the master's own Core is committed last, by the same thread.
DispatchCommit(t, id) ==
  IF start.id = id /\ start.ready = start.expected
  THEN /\ start' = [start EXCEPT !.committed = TRUE]
       /\ committed' = committed \cup {id}
       /\ FanOut(start.expected, LAMBDA w : Cmd("commit", id, {}, FALSE))
       /\ thread' = [thread EXCEPT ![t] = IF Master \in start.expected
                                          THEN [at |-> "local", id |-> id, ts |-> NoId] ELSE Idle]
  ELSE /\ thread' = [thread EXCEPT ![t] = Idle]
       /\ UNCHANGED <<start, committed, cmds>>

\* The coordinating client sends start_official_stream for one of its starts.
ClientCommit(id) ==
  /\ GatewayFree
  /\ id <= count["starts"]
  /\ count["commits"] < MaxCommits
  /\ Count("commits")
  /\ DispatchCommit("gateway", id)
  /\ UNCHANGED <<active, drain, coreVars, evts, expectedOf, everReady, opened, stopHistory>>

\* STOP: (re)create the drain record, fan out, then stop locally, which blocks.
Stop(k, S, all) ==
  /\ GatewayFree
  /\ drain' = [drain EXCEPT ![k] = DrainRecord(S, all)]
  /\ aggregated' = aggregated \ {k}
  /\ FanOut(NodesOf(S), LAMBDA w : Cmd("stop", k, S \cap OwnedBy(w), all))
  /\ IF Master \in NodesOf(S) THEN CoreStopBegins(Master, k, S \cap OwnedBy(Master))
                              ELSE UNCHANGED coreVars
  /\ UNCHANGED <<active, start, thread, evts, startHistory, archives, refused>>

ClientStop(S, all) ==
  /\ count["stops"] + 1 \in StopIds
  /\ all => S = Subjects
  /\ Count("stops")
  /\ Stop(count["stops"] + 1, S, all)

\* Nothing of STOP k is under way any more: its attempt was answered, failed or was lost.
RanItsCourse(k) ==
  /\ \A w \in Workers : \A i \in DOMAIN cmds[w] : ~(cmds[w][i].type = "stop" /\ cmds[w][i].id = k)
  /\ \A n \in Nodes : stopping[n].id # k
  /\ \A n \in Nodes : \A i \in DOMAIN evts[n] : ~(evts[n][i].type = "drained" /\ evts[n][i].id = k)
  /\ \A t \in Threads : ~(thread[t].at = "finalize" /\ thread[t].id = k)

\* The client sends the same STOP again, under its stop_session_id.
ClientRetriesStop(k) ==
  /\ k <= count["stops"]
  /\ count["retries"] < MaxRetries
  /\ ClientWaits => RanItsCourse(k)
  /\ Count("retries")
  /\ Stop(k, drain[k].subjects, drain[k].all)

-----------------------------------------------------------------------------
(* The nodes. *)

\* WorkerNode._recv_loop hands the next command to the worker's MessageHandler.
WorkerReceives(w) ==
  LET c == Head(cmds[w])
  IN /\ cmds[w] # <<>>
     /\ stopping[w] = NoStop
     /\ cmds' = [cmds EXCEPT ![w] = Tail(@)]
     /\ \/ c.type = "start" /\ CoreStart(w, c.id, c.subjects) /\ UNCHANGED <<evts, opened>>
        \/ c.type = "commit" /\ CoreCommit(w, c.id)
        \/ /\ c.type = "stop" /\ configured[w]
           /\ CoreStopBegins(w, c.id, c.subjects)
           /\ UNCHANGED <<evts, opened>>
        \* A Core without subjects drains at once in full scope and rejects a subject scope.
        \/ /\ c.type = "stop" /\ ~configured[w]
           /\ evts' = IF c.all THEN Sent(w, Evt("drained", c.id, NoId, {}, TRUE)) ELSE evts
           /\ UNCHANGED <<coreVars, opened>>
     /\ UNCHANGED <<active, start, drain, thread, count, expectedOf, everReady, committed, stopHistory>>

\* _stop_stream_impl closes the files of its subjects and acknowledges; a distributed
\* stop never archives.
CoreStopEnds(n) ==
  LET stop == stopping[n]
  IN /\ stop # NoStop
     /\ recording' = Recording(stop.subjects, NoId)
     /\ CoreStopped(n, Streaming(n) \ stop.subjects)
     /\ evts' = Sent(n, Evt("drained", stop.id, session[n], stop.subjects, TRUE))
     /\ UNCHANGED <<active, start, drain, thread, cmds, count, startHistory, stopHistory>>

\* Its exception path: the files stay open and the acknowledgement says so.
CoreStopFails(n) ==
  LET stop == stopping[n]
  IN /\ stop # NoStop
     /\ count["faults"] < MaxFaults
     /\ Count("faults")
     /\ CoreStopped(n, Streaming(n))
     /\ evts' = Sent(n, Evt("drained", stop.id, session[n], stop.subjects, FALSE))
     /\ UNCHANGED <<active, start, drain, thread, recording, cmds, startHistory, stopHistory>>

\* The startup gate of a coordinated start succeeds: READY_FOR_OFFICIAL.
GateReady(n) ==
  /\ phase[n] = "starting"
  /\ phase' = [phase EXCEPT ![n] = "ready"]
  /\ evts' = Sent(n, Evt("ready", sid[n], session[n], {}, TRUE))
  /\ everReady' = [everReady EXCEPT ![sid[n]] = @ \cup {n}]
  /\ UNCHANGED <<active, start, drain, thread, sid, session, members, configured, stopping,
                 recording, cmds, count, expectedOf, opened, committed, stopHistory>>

\* The gate times out: _cleanup_failed_startup_session archives the session if no
\* subject of this node streams, and its drained event carries no stop_session_id.
GateFails(n) ==
  /\ phase[n] = "starting"
  /\ phase' = [phase EXCEPT ![n] = "failed"]
  /\ recording' = Recording(members[n], NoId)
  /\ archives' = IF Streaming(n) \subseteq members[n]
                 THEN archives \cup {[by |-> n, ts |-> session[n]]} ELSE archives
  /\ evts' = Sent(n, Evt("drained", NoId, session[n], members[n], TRUE))
  /\ UNCHANGED <<active, start, drain, thread, sid, session, members, configured, stopping,
                 cmds, count, startHistory, aggregated, refused>>

\* A worker process restarts and registers again, with an empty Core.
WorkerRestarts(w) ==
  /\ count["faults"] < MaxFaults
  /\ Count("faults")
  /\ phase' = [phase EXCEPT ![w] = "idle"]
  /\ sid' = [sid EXCEPT ![w] = NoId]
  /\ session' = [session EXCEPT ![w] = NoId]
  /\ members' = [members EXCEPT ![w] = {}]
  /\ configured' = [configured EXCEPT ![w] = FALSE]
  /\ stopping' = [stopping EXCEPT ![w] = NoStop]
  /\ recording' = Recording(OwnedBy(w), NoId)
  /\ cmds' = [cmds EXCEPT ![w] = <<>>]
  /\ UNCHANGED <<active, start, drain, thread, evts, startHistory, stopHistory>>

\* A worker reconnects (_reconnect_to_master): it keeps its Core, but commands queued
\* on the old connection and the last events it had not transmitted are lost.
WorkerReconnects(w) ==
  /\ count["faults"] < MaxFaults
  /\ Count("faults")
  /\ cmds' = [cmds EXCEPT ![w] = <<>>]
  /\ \E k \in 0..Len(evts[w]) : evts' = [evts EXCEPT ![w] = SubSeq(@, 1, k)]
  /\ UNCHANGED <<active, start, drain, thread, coreVars, startHistory, stopHistory>>

-----------------------------------------------------------------------------
(* The handlers of the nodes' events. *)

\* Mutant: a ready announcement of an earlier start counts for the current one.
RecordAnyReady(n, e) ==
  IF n \in start.expected
  THEN LET ready == start.ready \cup {n}
           announce == ready = start.expected /\ ~start.announced
       IN /\ start' = [start EXCEPT !.ready = ready, !.announced = @ \/ announce]
          /\ thread' = IF announce
                       THEN [thread EXCEPT ![EventThread(n)] =
                              [at |-> "commit", id |-> start.id, ts |-> NoId]]
                       ELSE thread
  ELSE UNCHANGED <<start, thread>>

\* _record_official_start_event; the thread that completes the barrier goes on to
\* dispatch the commit.
RecordReady(n, e) ==
  IF start.id = e.id /\ n \in start.expected
  THEN LET ready == start.ready \cup {n}
           announce == ready = start.expected /\ ~start.announced
       IN /\ start' = [start EXCEPT !.ready = ready, !.announced = @ \/ announce]
          /\ thread' = IF announce
                       THEN [thread EXCEPT ![EventThread(n)] =
                              [at |-> "commit", id |-> e.id, ts |-> NoId]]
                       ELSE thread
  ELSE UNCHANGED <<start, thread>>

RecordOfficial(n, e) ==
  start' = IF start.id = e.id /\ n \in start.expected
           THEN [start EXCEPT !.official = @ \cup {n}] ELSE start

\* Mutant: the session after the one that was acknowledged.
TimestampAfter(acks) ==
  LET stamps == {acks[n].ts : n \in {k \in Nodes : acks[k].acked}} \ {NoId}
  IN IF Cardinality(stamps) = 1 THEN (CHOOSE ts \in stamps : TRUE) + 1 ELSE NoId

\* The one session_timestamp of the acknowledgements, NoId if they disagree.
SharedTimestamp(acks) ==
  LET stamps == {acks[n].ts : n \in {k \in Nodes : acks[k].acked}} \ {NoId}
  IN IF Cardinality(stamps) = 1 THEN CHOOSE ts \in stamps : TRUE ELSE NoId

\* Mutant: a node that reports drained=False counts as drained.
AllAcked(record) ==
  /\ \A n \in record.expected : record.acks[n].acked
  /\ ~record.finalizing
  /\ ~record.finalized

DrainComplete(record) ==
  /\ \A n \in record.expected : record.acks[n].acked /\ record.acks[n].drained
  /\ ~record.finalizing
  /\ ~record.finalized

\* Mutant: the completed barrier empties _active_stream_subjects.
EverySubject(record) == Subjects

\* The subjects of all the acknowledgements of the record.
DrainedSubjects(record) == UNION {record.acks[n].subjects : n \in Nodes}

WithAck(record, n, e) ==
  [record EXCEPT !.acks[n] =
    [acked |-> TRUE, subjects |-> e.subjects, ts |-> e.ts, drained |-> e.drained]]

\* _record_drain_ack: the acknowledgement that completes the barrier retires the drained
\* subjects; if none is left active the same thread runs the finalization callback.
RecordDrained(n, e) ==
  LET record == WithAck(drain[e.id], n, e)
      left == active \ DrainedSubjects(record)
  IN IF e.id = NoId \/ drain[e.id].subjects = {}
     THEN UNCHANGED <<active, drain, thread, aggregated>>
     ELSE IF ~DrainComplete(record)
     THEN /\ drain' = [drain EXCEPT ![e.id] = record]
          /\ UNCHANGED <<active, thread, aggregated>>
     ELSE /\ active' = left
          /\ drain' = [drain EXCEPT ![e.id] = [record EXCEPT !.finalizing = (left = {}),
                                                             !.finalized = (left # {})]]
          /\ thread' = IF left = {}
                       THEN [thread EXCEPT ![EventThread(n)] =
                              [at |-> "finalize", id |-> e.id, ts |-> SharedTimestamp(record.acks)]]
                       ELSE thread
          /\ aggregated' = IF left = {} THEN aggregated ELSE aggregated \cup {e.id}

\* One iteration of _router_loop, or one event delivered by the event bus.
HandleEvent(n) ==
  LET e == Head(evts[n])
  IN /\ evts[n] # <<>>
     /\ thread[EventThread(n)] = Idle
     /\ evts' = [evts EXCEPT ![n] = Tail(@)]
     /\ \/ e.type = "ready" /\ RecordReady(n, e) /\ UNCHANGED <<active, drain, aggregated>>
        \/ e.type = "official" /\ RecordOfficial(n, e) /\ UNCHANGED <<active, drain, thread, aggregated>>
        \/ e.type = "drained" /\ RecordDrained(n, e) /\ UNCHANGED start
     /\ UNCHANGED <<coreVars, cmds, count, startHistory, archives, refused>>

\* The commit that the completed barrier dispatches by itself.
AutoCommit(t) ==
  /\ thread[t].at = "commit"
  /\ DispatchCommit(t, thread[t].id)
  /\ UNCHANGED <<active, drain, coreVars, evts, count, expectedOf, everReady, opened, stopHistory>>

\* The last target of the commit fan-out: the master's own Core.
LocalCommit(t) ==
  /\ thread[t].at = "local"
  /\ CoreCommit(Master, thread[t].id)
  /\ thread' = [thread EXCEPT ![t] = Idle]
  /\ UNCHANGED <<active, start, drain, cmds, count, expectedOf, everReady, committed, stopHistory>>

\* _finalize_distributed_session and Core.finalize_distributed_session: refused unless
\* the acknowledged session is the one of the master's own Core.
Accepts(ts) == ts # NoId /\ ts = session[Master]

\* Mutant: the exception path forgets to emit the aggregate event.
FinalizedSilently(t, ok) ==
  /\ drain' = [drain EXCEPT ![thread[t].id].finalizing = FALSE, ![thread[t].id].finalized = @ \/ ok]
  /\ archives' = IF ok THEN archives \cup {[by |-> Master, ts |-> thread[t].ts]} ELSE archives
  /\ aggregated' = IF ok THEN aggregated \cup {thread[t].id} ELSE aggregated
  /\ thread' = [thread EXCEPT ![t] = Idle]
  /\ UNCHANGED <<active, start, coreVars, cmds, evts, startHistory>>

\* What _record_drain_ack does when the callback has returned or raised.
Finalized(t, ok) ==
  /\ drain' = [drain EXCEPT ![thread[t].id].finalizing = FALSE, ![thread[t].id].finalized = @ \/ ok]
  /\ archives' = IF ok THEN archives \cup {[by |-> Master, ts |-> thread[t].ts]} ELSE archives
  /\ aggregated' = aggregated \cup {thread[t].id}
  /\ thread' = [thread EXCEPT ![t] = Idle]
  /\ UNCHANGED <<active, start, coreVars, cmds, evts, startHistory>>

Finalize(t) ==
  /\ thread[t].at = "finalize"
  /\ Finalized(t, Accepts(thread[t].ts))
  /\ refused' = IF Accepts(thread[t].ts) THEN refused ELSE refused \cup ({thread[t].ts} \ {NoId})
  /\ UNCHANGED count

\* The archive operation itself raises.
FinalizeFails(t) ==
  /\ thread[t].at = "finalize"
  /\ Accepts(thread[t].ts)
  /\ count["ioFaults"] < MaxIOFaults
  /\ Count("ioFaults")
  /\ Finalized(t, FALSE)
  /\ UNCHANGED refused

-----------------------------------------------------------------------------
Init ==
  /\ active = {}
  /\ start = NoStart
  /\ drain = [k \in StopIds |-> DrainRecord({}, FALSE)]
  /\ thread = [t \in Threads |-> Idle]
  /\ phase = [n \in Nodes |-> "idle"]
  /\ sid = [n \in Nodes |-> NoId]
  /\ session = [n \in Nodes |-> NoId]
  /\ members = [n \in Nodes |-> {}]
  /\ configured = [n \in Nodes |-> TRUE]
  /\ stopping = [n \in Nodes |-> NoStop]
  /\ recording = [s \in Subjects |-> NoId]
  /\ cmds = [w \in Workers |-> <<>>]
  /\ evts = [n \in Nodes |-> <<>>]
  /\ count = [c \in Counters |-> 0]
  /\ expectedOf = [i \in StartIds |-> {}]
  /\ everReady = [i \in StartIds |-> {}]
  /\ opened = [i \in StartIds |-> {}]
  /\ committed = {}
  /\ aggregated = {}
  /\ archives = {}
  /\ refused = {}

ClientNext ==
  \/ \E S \in (SUBSET Subjects) \ {{}} :
       \/ ClientStart(S)
       \/ \E all \in BOOLEAN : ClientStop(S, all)
  \/ \E k \in StopIds : ClientRetriesStop(k)
  \/ \E id \in StartIds : ClientCommit(id)

FaultNext ==
  \/ \E w \in Workers : WorkerRestarts(w) \/ WorkerReconnects(w)
  \/ \E n \in Nodes : CoreStopFails(n)
  \/ \E t \in Threads : FinalizeFails(t)

NodeNext(n) == CoreStopEnds(n) \/ HandleEvent(n)
ThreadNext(t) == AutoCommit(t) \/ LocalCommit(t) \/ Finalize(t)

Next ==
  \/ ClientNext
  \/ FaultNext
  \/ \E w \in Workers : WorkerReceives(w)
  \/ \E n \in Nodes : NodeNext(n) \/ GateReady(n) \/ GateFails(n)
  \/ \E t \in Threads : ThreadNext(t)

Spec == Init /\ [][Next]_vars

\* Every thread of the master and of the workers that can take a step takes it: they are
\* loops that only block on input.  Nothing obliges the client, the faults or the sensors.
Fairness ==
  /\ \A w \in Workers : WF_vars(WorkerReceives(w))
  /\ \A n \in Nodes : WF_vars(NodeNext(n))
  /\ \A t \in Threads : WF_vars(ThreadNext(t))

FairSpec == Spec /\ Fairness

-----------------------------------------------------------------------------
(* Properties. *)

Commands ==
  [type : {"start", "commit"}, id : StartIds, subjects : SUBSET Subjects, all : BOOLEAN]
    \cup [type : {"stop"}, id : StopIds, subjects : SUBSET Subjects, all : BOOLEAN]

Events ==
  [type : {"ready", "official"}, id : StartIds, ts : StartIds, subjects : SUBSET Subjects,
   drained : BOOLEAN]
    \cup [type : {"drained"}, id : StopIds \cup {NoId}, ts : StartIds \cup {NoId},
          subjects : SUBSET Subjects, drained : BOOLEAN]

Acks == [acked : BOOLEAN, subjects : SUBSET Subjects, ts : StartIds \cup {NoId}, drained : BOOLEAN]

ThreadStates ==
  {Idle} \cup [at : {"commit", "local"}, id : StartIds, ts : {NoId}]
         \cup [at : {"finalize"}, id : StopIds, ts : StartIds \cup {NoId}]

DrainRecords ==
  [subjects : SUBSET Subjects, all : BOOLEAN, expected : SUBSET Nodes, acks : [Nodes -> Acks],
   finalizing : BOOLEAN, finalized : BOOLEAN]

MasterTypeOK ==
  /\ active \subseteq Subjects
  /\ start \in [id : StartIds \cup {NoId}, expected : SUBSET Nodes, ready : SUBSET Nodes,
                official : SUBSET Nodes, announced : BOOLEAN, committed : BOOLEAN]
  /\ drain \in [StopIds -> DrainRecords]
  /\ thread \in [Threads -> ThreadStates]

CoreTypeOK ==
  /\ phase \in [Nodes -> {"idle", "starting", "ready", "official", "stopping", "failed"}]
  /\ sid \in [Nodes -> StartIds \cup {NoId}]
  /\ session \in [Nodes -> StartIds \cup {NoId}]
  /\ members \in [Nodes -> SUBSET Subjects]
  /\ configured \in [Nodes -> BOOLEAN]
  /\ stopping \in [Nodes -> [id : StopIds, subjects : SUBSET Subjects] \cup {NoStop}]
  /\ recording \in [Subjects -> StartIds \cup {NoId}]

TransportTypeOK ==
  /\ cmds \in [Workers -> Seq(Commands)]
  /\ evts \in [Nodes -> Seq(Events)]

HistoryTypeOK ==
  /\ count \in [Counters -> Nat]
  /\ expectedOf \in [StartIds -> SUBSET Nodes]
  /\ everReady \in [StartIds -> SUBSET Nodes]
  /\ opened \in [StartIds -> SUBSET Nodes]
  /\ committed \subseteq StartIds
  /\ aggregated \subseteq StopIds
  /\ archives \subseteq [by : Nodes, ts : StartIds]
  /\ refused \subseteq StartIds

\* The variables have the types of the attributes they stand for.
TypeOK == MasterTypeOK /\ CoreTypeOK /\ TransportTypeOK /\ HistoryTypeOK

\* The official-start barrier (master_node.py, dispatch of CMD_START_OFFICIAL_STREAM, and
\* Core.start_official_stream): a subject is recorded for a start session only after every
\* node that takes part in that start has passed its startup gate for it, whatever starts,
\* stops, duplicated commits, restarts and lost messages happened in between.
BarrierSafety ==
  \A s \in Subjects : recording[s] # NoId =>
    expectedOf[recording[s]] \subseteq everReady[recording[s]]

\* A session directory is archived (_finalize_session_archive) only while no subject of
\* any node is still being recorded into it.
ArchiveAfterDrain ==
  \A a \in archives, s \in Subjects : recording[s] # a.ts

\* _active_stream_subjects, which decides when a session is complete and whether the
\* system may be reconfigured, never loses a subject that some node still records.
ActiveCoversStreaming ==
  \A s \in Subjects : recording[s] # NoId => s \in active

\* The barrier of CoordinatedStart, read off the history of the nodes.
Barrier == INSTANCE CoordinatedStart WITH
  expected <- expectedOf, ready <- everReady

\* The threads, messages and retries of the master and of the workers implement the
\* abstract barrier: no step commits a start early or opens a recording without a commit.
ImplementsBarrier == Barrier!Spec

\* Every STOP the master has fanned out is answered by an aggregate STREAM_DRAINED event.
StopAnswered ==
  \A k \in StopIds : drain[k].subjects # {} ~> k \in aggregated

\* Once the barrier of a start is complete every participant goes official and the master
\* learns of it, unless a newer start or a STOP intervenes.
ReadyLeadsToOfficial ==
  \A id \in StartIds :
    start.id = id /\ start.announced
      ~> start.official = start.expected \/ start.id # id \/ count["stops"] > 0

\* What Core says of a distributed stop: the master alone archives the shared session.
OnlyMasterArchives == \A a \in archives : a.by = Master

\* What Core says of a distributed stop: once every participant has acknowledged, the
\* master archives the session they acknowledged; its Core never refuses to.
DrainedSessionArchived == refused = {}
=============================================================================

------------------------------ MODULE CoreStream ------------------------------
(***************************************************************************)
(* The acquisition life cycle inside one Core: START, the startup gate, the *)
(* official start, STOP, and the threads that run them.                     *)
(*                                                                         *)
(* The command thread executes START and STOP one after the other.  The    *)
(* sensor manager's thread executes the queued sensor commands and calls   *)
(* _on_stream_started and _on_stream_stopped.  Every warm-up has a gate    *)
(* thread.  The official start of a coordinated stream runs on the command *)
(* thread of a worker, but on an event thread of the master.  A step is    *)
(* one critical section of _startup_lock or one stretch of code outside    *)
(* it.  _startup_max_attempts is 1 and nothing sets it, so the retry of a  *)
(* failed warm-up is unreachable and left out.                             *)
(***************************************************************************)
EXTENDS Naturals, Sequences, FiniteSets

CONSTANTS
  Subjects,     \* the subjects of this Core, each with connected sensors
  Roles,        \* the deployments to consider, among "standalone", "worker" and "master"
  MaxStarts,    \* bound: START commands
  MaxStops,     \* bound: STOP commands
  MaxFaults     \* bound: sensor starts that fail, stops that fail or time out, file errors

ASSUME CoreAssumption ==
  /\ Roles \subseteq {"standalone", "worker", "master"} /\ Roles # {}
  /\ {MaxStarts, MaxStops, MaxFaults} \subseteq Nat

VARIABLES
  role,       \* the deployment
  \* Core, under _startup_lock
  phase,      \* stream_phase
  token,      \* _startup_gate_token
  mode,       \* _official_start_mode
  sid,        \* _start_session_id
  commit,     \* _official_commit_received
  outputs,    \* _official_outputs_active
  members,    \* _startup_subject_ids
  \* Core, not under the lock
  session,    \* session_timestamp
  prepared,   \* _official_persistence_prepared_subject_ids
  streaming,  \* the subjects with is_streaming
  files,      \* of each subject: the session its output files belong to, NoId if none
  archived,   \* archived_session_timestamp
  \* The threads
  cmd,        \* the command thread
  official,   \* the thread in start_official_stream
  gates,      \* the gate threads
  manager,    \* the sensor manager's thread: in its loop, or the STOP whose failed start it cleans up
  \* The sensor manager
  queue,      \* its command queue
  measuring,  \* the subjects whose sensors deliver samples steadily
  count,
  \* History
  stable,     \* <<start, subject>>: the gate has seen the subject stable for that start
  announced,  \* the starts announced READY_FOR_OFFICIAL
  drained,    \* the subjects that a STOP has reported drained and that were not started again
  wanted,     \* the subjects whose last START neither failed nor was stopped or superseded
  archives,   \* the sessions archived
  calm        \* no START overtook the answer to an earlier command; every sensor stop was carried out

lockVars == <<phase, token, mode, sid, commit, outputs, members>>
fileVars == <<session, prepared, streaming, files, archived>>
threadVars == <<cmd, official, gates>>
managerVars == <<manager, queue, measuring>>
historyVars == <<stable, announced, drained, wanted, archives, calm>>
vars == <<role, lockVars, fileVars, threadVars, managerVars, count, historyVars>>

NoId == 0
StartIds == 1..MaxStarts
Idle == [at |-> "idle", subjects |-> {}, other |-> FALSE, done |-> FALSE]
Loop == <<>>
Counters == {"starts", "stops", "faults"}
Count(c) == count' = [count EXCEPT ![c] = @ + 1]
Fault == count["faults"] < MaxFaults /\ Count("faults")

\* Commands to the sensor manager.  "stop" is the STOP that waits for the completion.
Enqueue(op, S, stop) == queue' = Append(queue, [op |-> op, subjects |-> S, stop |-> stop])
Takes(op) == manager = Loop /\ queue # <<>> /\ Head(queue).op = op /\ queue' = Tail(queue)
Completes(c) == cmd' = [cmd EXCEPT !.done = @ \/ (cmd.at = "stop" /\ c.stop = count["stops"])]

\* Threads are told apart by a number: two of them may have the same token.
FreshIn(threads) == CHOOSE n \in 1..(Cardinality(threads) + 1) : \A t \in threads : t.n # n

\* The command thread is free: on a worker it also runs start_official_stream.
Free == cmd = Idle /\ (role = "master" \/ official = "idle")

\* A subject whose samples _on_data persists.
Persisted(s) ==
  /\ phase = "official_streaming" /\ outputs
  /\ mode = "coordinated" => commit
  /\ s \in streaming
  /\ ~(cmd.at \in {"stop", "ack"} /\ s \in cmd.subjects)

\* _finalize_session_archive
Archive ==
  /\ archived' = session
  /\ archives' = IF session = NoId THEN archives ELSE archives \cup {session}

\* Every command so far has been answered: STREAM_DRAINED, STREAM_STARTUP_FAILED with the clean-up
\* that follows, or the official start.
Answered ==
  /\ cmd = Idle /\ official = "idle" /\ manager = Loop /\ queue = <<>>
  /\ phase \in {"idle", "startup_failed", "official_streaming"}

-----------------------------------------------------------------------------
(* START *)

\* The first critical section of start_stream and start_stream_for_subjects.
StartBegins(S) ==
  /\ Free
  /\ count["starts"] < MaxStarts
  /\ Count("starts")
  /\ phase' = "starting"
  /\ cmd' = [Idle EXCEPT !.at = "start", !.subjects = S]
  /\ calm' = (calm /\ Answered)
  /\ UNCHANGED <<role, token, mode, sid, commit, outputs, members, fileVars, official, gates,
                 managerVars, stable, announced, drained, wanted, archives>>

\* The rest: the new session, _reset_startup_gate_state, and the sensors' start is queued.
StartEnds ==
  /\ cmd.at = "start"
  /\ cmd' = Idle
  /\ session' = count["starts"]
  /\ sid' = IF role = "standalone" THEN NoId ELSE count["starts"]
  /\ mode' = IF role = "standalone" THEN "local" ELSE "coordinated"
  /\ commit' = FALSE /\ outputs' = FALSE
  /\ prepared' = {}
  /\ archived' = NoId
  /\ streaming' = streaming \ cmd.subjects
  /\ token' = token + 1
  /\ phase' = "starting"
  /\ members' = cmd.subjects
  /\ Enqueue("start", cmd.subjects, NoId)
  /\ drained' = drained \ cmd.subjects
  /\ wanted' = (wanted \cap streaming) \cup cmd.subjects
  /\ UNCHANGED <<role, files, official, gates, manager, measuring, count, stable,
                 announced, archives, calm>>

-----------------------------------------------------------------------------
(* The sensor manager's thread. *)

\* The sensors accept the start, though not all need deliver steadily, and _on_stream_started
\* begins a warm-up whatever the phase is.
SensorsStart ==
  /\ Takes("start")
  /\ \E S \in SUBSET Head(queue).subjects : measuring' = measuring \cup S
  /\ IF members # {}
     THEN /\ phase' = "warming_up"
          /\ gates' = gates \cup {[n |-> FreshIn(gates), token |-> token, at |-> "wait"]}
     ELSE UNCHANGED <<phase, gates>>
  /\ UNCHANGED <<role, token, mode, sid, commit, outputs, members,
                 fileVars, cmd, official, manager, count, historyVars>>

\* A sensor refuses to start: the command ends with on_error, without the callback.
SensorsStartFails ==
  /\ Takes("start")
  /\ Fault
  /\ \E S \in SUBSET Head(queue).subjects :
       S # Head(queue).subjects /\ measuring' = measuring \cup S
  /\ UNCHANGED <<role, lockVars, fileVars, threadVars, manager, historyVars>>

\* The sensors stop, or some do not confirm; _on_stream_stopped cleans a failed start up or
\* makes the Core idle unless it is official.
SensorsStop ==
  /\ Takes("stop")
  /\ \/ measuring' = measuring \ Head(queue).subjects /\ UNCHANGED count
     \/ Fault /\ UNCHANGED measuring
  /\ phase' = IF phase \in {"startup_failed", "official_streaming"} THEN phase ELSE "idle"
  /\ IF phase = "startup_failed" THEN manager' = <<Head(queue)>> /\ UNCHANGED cmd
     ELSE Completes(Head(queue)) /\ UNCHANGED manager
  /\ UNCHANGED <<role, token, mode, sid, commit, outputs, members, fileVars, official, gates,
                 historyVars>>

\* _cleanup_failed_startup_session, which takes no lock; then the completion is set.
SensorsCleanUp ==
  /\ manager # Loop
  /\ manager' = Loop
  /\ Completes(Head(manager))
  /\ files' = [s \in Subjects |-> IF s \in members THEN NoId ELSE files[s]]
  /\ streaming' = streaming \ members
  /\ wanted' = wanted \ members
  /\ IF streaming' = {} THEN Archive ELSE UNCHANGED <<archived, archives>>
  /\ UNCHANGED <<role, lockVars, session, prepared, official, gates, queue, measuring, count,
                 stable, announced, drained, calm>>

\* The routes of the sensors do not drain: no sensor is stopped and no callback is called.
SensorsStopSkipped ==
  /\ Takes("stop")
  /\ Fault
  /\ Completes(Head(queue))
  /\ calm' = FALSE
  /\ UNCHANGED <<role, lockVars, fileVars, official, gates, manager, measuring, stable, announced, drained, wanted,
                 archives>>

-----------------------------------------------------------------------------
(* The gate threads: _evaluate_startup_gate. *)

Current(g) == g.token = token /\ phase = "warming_up"

\* _prepare_official_persistence: files for the members that have none prepared.
Prepare ==
  /\ files' = [s \in Subjects |-> IF s \in members \ prepared THEN session ELSE files[s]]
  /\ prepared' = prepared \cup members

\* Mutant: one delivering sensor is enough.
AnyDelivers == members \cap measuring # {}

\* The sensors of all members deliver.
AllDeliver == members # {} /\ members \subseteq measuring

\* The gate opens: prepare the commit, or activate at once.
GateStable(g) ==
  /\ g.at = "wait" /\ Current(g)
  /\ AllDeliver
  /\ stable' = stable \cup {<<session, s>> : s \in members \cap measuring}
  /\ IF mode = "coordinated"
     THEN /\ phase' = "preparing_official"
          /\ gates' = (gates \ {g}) \cup {[g EXCEPT !.at = "prepare"]}
          /\ UNCHANGED <<outputs, files, prepared, streaming>>
     ELSE /\ phase' = "official_streaming"
          /\ outputs' = TRUE
          /\ Prepare
          /\ streaming' = streaming \cup members
          /\ gates' = gates \ {g}
  /\ UNCHANGED <<role, token, mode, sid, commit, members, session,
                 archived, cmd, official, managerVars, count, announced, drained, wanted,
                 archives, calm>>

\* Mutant: the failed start is put in a phase that no handler knows.
GateTimesOutMisnamed(g) ==
  /\ g.at = "wait" /\ Current(g)
  /\ gates' = gates \ {g}
  /\ phase' = "start_failed"
  /\ Enqueue("stop", members, NoId)
  /\ UNCHANGED <<role, token, mode, sid, commit, outputs, members, fileVars, cmd, official, manager,
                 measuring, count, historyVars>>

\* Mutant: the gate gives up without failing the start.
GateTimesOutSilently(g) ==
  /\ g.at = "wait" /\ Current(g)
  /\ gates' = gates \ {g}
  /\ UNCHANGED <<role, lockVars, fileVars, cmd, official, managerVars, count, historyVars>>

\* The stability window has passed: the start fails and the sensors are stopped.
GateTimesOut(g) ==
  /\ g.at = "wait" /\ Current(g)
  /\ gates' = gates \ {g}
  /\ phase' = "startup_failed"
  /\ Enqueue("stop", members, NoId)
  /\ UNCHANGED <<role, token, mode, sid, commit, outputs, members, fileVars, cmd, official, manager,
                 measuring, count, historyVars>>

\* The start was stopped or superseded.
GateReturns(g) ==
  /\ g.at = "wait" /\ ~Current(g)
  /\ gates' = gates \ {g}
  /\ UNCHANGED <<role, lockVars, fileVars, cmd, official, managerVars, count, historyVars>>

\* The persistence preflight, outside the lock.
GatePrepares(g) ==
  /\ g.at = "prepare"
  /\ Prepare
  /\ gates' = (gates \ {g}) \cup {[g EXCEPT !.at = "announce"]}
  /\ UNCHANGED <<role, lockVars, session, streaming, archived, cmd, official, managerVars,
                 count, historyVars>>

\* It raises: the start fails, unless it was stopped meanwhile.
GatePrepareFails(g) ==
  /\ g.at = "prepare"
  /\ Fault
  /\ gates' = gates \ {g}
  /\ IF g.token = token /\ phase = "preparing_official"
     THEN /\ phase' = "startup_failed"
          /\ Enqueue("stop", members, NoId)
     ELSE UNCHANGED <<phase, queue>>
  /\ UNCHANGED <<role, token, mode, sid, commit, outputs, members, fileVars,
                 cmd, official, manager, measuring, historyVars>>

\* READY_FOR_OFFICIAL, unless the start was stopped meanwhile.
GateAnnounces(g) ==
  LET live == g.token = token /\ phase = "preparing_official"
  IN /\ g.at = "announce"
     /\ gates' = gates \ {g}
     /\ phase' = IF live THEN "ready_for_official" ELSE phase
     /\ announced' = IF live THEN announced \cup {sid} ELSE announced
     /\ UNCHANGED <<role, token, mode, sid, commit, outputs, members,
                    fileVars, cmd, official, managerVars, count, stable, drained, wanted,
                    archives, calm>>

-----------------------------------------------------------------------------
(* start_official_stream *)

\* The checks: the announced start, still ready.  Anything else is refused, and a repeated
\* commit only repeats the event.
OfficialChecks(id) ==
  /\ official = "idle"
  /\ role = "worker" => cmd = Idle
  /\ id \in announced
  /\ mode = "coordinated" /\ sid = id /\ phase = "ready_for_official"
  /\ commit' = TRUE
  /\ phase' = "activating_official"
  /\ official' = "activate"
  /\ UNCHANGED <<role, token, mode, sid, outputs, members, fileVars,
                 cmd, gates, managerVars, count, historyVars>>

\* _activate_official_streaming, outside the lock.
OfficialActivates ==
  /\ official = "activate"
  /\ ~(mode = "coordinated" /\ ~commit)
  /\ Prepare
  /\ streaming' = streaming \cup members
  /\ official' = "finish"
  /\ UNCHANGED <<role, lockVars, session, archived, cmd, gates, managerVars, count,
                 historyVars>>

\* It raises, because the commit was withdrawn or for a file error.
OfficialFails ==
  /\ official = "activate"
  /\ IF mode = "coordinated" /\ ~commit THEN UNCHANGED count ELSE Fault
  /\ official' = "idle"
  /\ commit' = FALSE /\ outputs' = FALSE
  /\ phase' = "startup_failed"
  /\ wanted' = wanted \ members
  /\ UNCHANGED <<role, token, mode, sid, members, fileVars, cmd,
                 gates, managerVars, stable, announced, drained, archives, calm>>

OfficialFinishes ==
  /\ official = "finish"
  /\ official' = "idle"
  /\ phase' = "official_streaming"
  /\ outputs' = TRUE
  /\ UNCHANGED <<role, token, mode, sid, commit, members, fileVars,
                 cmd, gates, managerVars, count, historyVars>>

-----------------------------------------------------------------------------
(* STOP: _stop_stream_impl *)

\* other_subjects_active is computed before the lock is taken.
StopBegins(S) ==
  /\ Free
  /\ count["stops"] < MaxStops
  /\ Count("stops")
  /\ cmd' = [Idle EXCEPT !.at = "lock", !.subjects = S, !.other = (streaming \ S # {})]
  /\ UNCHANGED <<role, lockVars, fileVars, official, gates, managerVars, historyVars>>

\* Its critical section, and the sensors' stop is queued.
StopLocks ==
  /\ cmd.at = "lock"
  /\ IF cmd.other THEN UNCHANGED <<phase, token>>
     ELSE /\ phase' = IF phase \in {"idle", "startup_failed"} THEN phase ELSE "stopping"
          /\ token' = token + 1
  /\ cmd' = [cmd EXCEPT !.at = "stop"]
  /\ Enqueue("stop", cmd.subjects, count["stops"])
  /\ wanted' = wanted \ cmd.subjects
  /\ UNCHANGED <<role, mode, sid, commit, outputs, members, fileVars, official, gates,
                 manager, measuring, count, stable, announced, drained, archives, calm>>

\* The completion does not come in time: the STOP goes on as if the sensors had failed to stop.
StopTimesOut ==
  /\ cmd.at = "stop" /\ ~cmd.done
  /\ Fault
  /\ cmd' = [cmd EXCEPT !.done = TRUE]
  /\ calm' = FALSE
  /\ UNCHANGED <<role, lockVars, fileVars, official, gates, managerVars, stable, announced, drained, wanted,
                 archives>>

\* Mutant: the session is archived although other subjects still record into it.
StopClosesAndArchives ==
  /\ cmd.at = "stop" /\ cmd.done
  /\ cmd' = [cmd EXCEPT !.at = "ack"]
  /\ files' = [s \in Subjects |-> IF s \in cmd.subjects THEN NoId ELSE files[s]]
  /\ streaming' = streaming \ cmd.subjects
  /\ IF role = "standalone" THEN Archive ELSE UNCHANGED <<archived, archives>>
  /\ UNCHANGED <<role, lockVars, session, prepared, official, gates, managerVars, count, stable,
                 announced, drained, wanted, calm>>

\* Mutant: is_streaming is left set.
StopClosesFilesOnly ==
  /\ cmd.at = "stop" /\ cmd.done
  /\ cmd' = [cmd EXCEPT !.at = "ack"]
  /\ files' = [s \in Subjects |-> IF s \in cmd.subjects THEN NoId ELSE files[s]]
  /\ UNCHANGED <<role, lockVars, session, prepared, streaming, archived, official, gates,
                 managerVars, count, historyVars>>

\* The sensors have stopped: flush, consolidate, then close the files of the subjects.  A
\* standalone Core archives the session when nothing streams any more.
StopCloses ==
  /\ cmd.at = "stop" /\ cmd.done
  /\ cmd' = [cmd EXCEPT !.at = "ack"]
  /\ files' = [s \in Subjects |-> IF s \in cmd.subjects THEN NoId ELSE files[s]]
  /\ streaming' = streaming \ cmd.subjects
  /\ IF streaming' = {} /\ role = "standalone" THEN Archive ELSE UNCHANGED <<archived, archives>>
  /\ UNCHANGED <<role, lockVars, session, prepared, official, gates, managerVars, count, stable,
                 announced, drained, wanted, calm>>

\* _clear_startup_gate_state, by the finally clause when nothing streams.
ClearGateState ==
  /\ token' = token + 1
  /\ phase' = "idle"
  /\ members' = {}
  /\ mode' = "local"
  /\ sid' = NoId
  /\ commit' = FALSE /\ outputs' = FALSE
  /\ prepared' = {}

\* STREAM_DRAINED and the finally clause.
StopAcknowledges ==
  /\ cmd.at = "ack"
  /\ cmd' = Idle
  /\ drained' = drained \cup cmd.subjects
  /\ IF streaming = {} THEN ClearGateState ELSE UNCHANGED <<lockVars, prepared>>
  /\ UNCHANGED <<role, session, streaming, files, archived, official, gates, managerVars,
                 count, stable, announced, wanted, archives, calm>>

\* The flush or the consolidation raises: drained=False, and the finally clause.
StopFails ==
  /\ cmd.at = "stop" /\ cmd.done
  /\ Fault
  /\ cmd' = Idle
  /\ IF streaming = {} THEN ClearGateState ELSE UNCHANGED <<lockVars, prepared>>
  /\ UNCHANGED <<role, session, streaming, files, archived, official, gates, managerVars,
                 historyVars>>

-----------------------------------------------------------------------------
Init ==
  /\ role \in Roles
  /\ phase = "idle" /\ token = 0
  /\ mode = "local" /\ sid = NoId /\ commit = FALSE /\ outputs = FALSE
  /\ members = {} /\ session = NoId /\ prepared = {} /\ streaming = {}
  /\ files = [s \in Subjects |-> NoId]
  /\ archived = NoId
  /\ cmd = Idle /\ official = "idle" /\ gates = {}
  /\ manager = Loop /\ queue = <<>> /\ measuring = {}
  /\ count = [c \in Counters |-> 0]
  /\ stable = {} /\ announced = {} /\ drained = {} /\ wanted = {} /\ archives = {} /\ calm = TRUE

CommandNext == StartEnds \/ StopLocks \/ StopCloses \/ StopAcknowledges
ManagerNext == SensorsStart \/ SensorsStop \/ SensorsCleanUp
GateNext ==
  \E g \in gates : GateStable(g) \/ GateTimesOut(g) \/ GateReturns(g) \/ GatePrepares(g) \/ GateAnnounces(g)
OfficialNext == OfficialActivates \/ OfficialFinishes

Next ==
  \/ \E S \in (SUBSET Subjects) \ {{}} : StartBegins(S) \/ StopBegins(S)
  \/ \E id \in StartIds : OfficialChecks(id)
  \/ CommandNext \/ ManagerNext \/ GateNext \/ OfficialNext
  \/ SensorsStartFails \/ SensorsStopSkipped \/ StopTimesOut \/ StopFails \/ OfficialFails
  \/ \E g \in gates : GatePrepareFails(g)

Spec == Init /\ [][Next]_vars

-----------------------------------------------------------------------------
(* Properties. *)

Phases == {"idle", "starting", "warming_up", "startup_failed", "preparing_official",
           "ready_for_official", "activating_official", "official_streaming", "stopping"}
Ids == 0..MaxStarts

\* Types of the Core's and the threads' state, every phase being one that the handlers know; the
\* official start and a command never share the thread of a worker.
TypeOK ==
  /\ role \in Roles /\ phase \in Phases /\ mode \in {"local", "coordinated"}
  /\ token \in Nat /\ {sid, session, archived} \subseteq Ids
  /\ commit \in BOOLEAN /\ outputs \in BOOLEAN
  /\ {members, prepared, streaming, measuring, drained, wanted} \subseteq SUBSET Subjects
  /\ files \in [Subjects -> Ids]
  /\ cmd.at \in {"idle", "start", "lock", "stop", "ack"} /\ cmd.subjects \subseteq Subjects
  /\ official \in {"idle", "activate", "finish"}
  /\ role = "worker" /\ official # "idle" => cmd = Idle
  /\ \A g \in gates : g.token \in 1..token /\ g.at \in {"wait", "prepare", "announce"}
  /\ Len(manager) <= 1

\* A subject's samples reach a file (_on_data) only of a session for which the startup gate has
\* seen that subject deliver: no gate thread, commit or file left over from another start opens
\* the outputs of a subject that never became stable.
PersistedWasStable ==
  calm => \A s \in Subjects : Persisted(s) => <<files[s], s>> \in stable

\* No sample is written into a session that _finalize_session_archive has already archived.
PersistedNotArchived ==
  calm => \A s \in Subjects : Persisted(s) => files[s] \notin archives

\* A subject that STREAM_DRAINED has reported drained records nothing until it is started again,
\* whatever gate or official start was under way when it was stopped.
DrainedStaysDrained == calm => \A s \in drained : ~Persisted(s)

\* Stopping some subjects does not end the start or the recording of the others: once everything
\* is answered and the Core is idle, no subject is left whose own START was neither stopped nor
\* reported failed.
OthersContinue == phase = "idle" /\ Answered => wanted = {}

\* A START comes to a decision: ready for the commit, official, failed, or stopped.  When no
\* thread has anything left to do, the Core is not left starting, warming up, preparing,
\* activating or stopping, unless a sensor failed to start or to stop.
StartDecided ==
  /\ cmd = Idle /\ official = "idle" /\ manager = Loop /\ queue = <<>> /\ gates = {}
  /\ count["faults"] = 0
  => phase \in {"idle", "startup_failed", "ready_for_official", "official_streaming"}
=============================================================================

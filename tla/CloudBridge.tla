------------------------------ MODULE CloudBridge ------------------------------
(***************************************************************************)
(* The Azure bridge: local events go to the cloud, session archives are    *)
(* uploaded and retried, and the cloud's direct methods become local       *)
(* commands.                                                               *)
(*                                                                         *)
(* Threads: the listener of local events, one handler per direct method,   *)
(* and the main loop, which reconnects and uploads.  They share the device *)
(* client, which the main loop replaces when it reconnects, the waiters of *)
(* the methods and the pending uploads.  The local runtime, the cloud and  *)
(* the USB disk are the environment.                                       *)
(***************************************************************************)
EXTENDS Naturals, Sequences, FiniteSets, SequencesExt

CONSTANTS
  Archives,        \* the session archives
  Usb,             \* those on the exported USB disk
  Methods,         \* the direct-method requests, each with its correlation id
  TelemetryFails,  \* whether sending telemetry may raise an error
  MaxReplies,      \* bound: events with the correlation id of a method
  MaxLocal,        \* bound: events received and not yet handled
  MaxFaults        \* bound: lost links and failed connections, uploads and notifications

ASSUME BridgeAssumption ==
  /\ Usb \subseteq Archives /\ TelemetryFails \in BOOLEAN
  /\ {MaxReplies, MaxLocal, MaxFaults} \subseteq Nat

VARIABLES
  client,      \* the device client: "none", "lost" or "up"
  reconnect,   \* _reconnect_requested
  main,        \* the main loop: what it does, and the archives it has still to try
  pending,     \* _pending_uploads: for every archive "no", "due" or "later"
  local,       \* the events received from the local runtime
  listener,    \* the listener: what it does with which event
  method,      \* of each request: its handler thread and its waiter
  mounted,     \* whether the USB disk is mounted
  faults,
  \* History
  emitted,     \* of each request: the types of the events emitted with its id
  answers,     \* of each request: the statuses answered
  drained,     \* of each archive: "no", or the status of the drain event that named it
  stored       \* the archives that the cloud has

vars == <<client, reconnect, main, pending, local, listener, method, mounted, faults, emitted,
          answers, drained, stored>>

Idle      == [pc |-> "idle", event |-> [type |-> "none"]]
Connected == client = "up"
Queued    == {a \in Archives : pending[a] # "no"}
Present(a) == a \notin Usb \/ mounted

Init ==
  /\ client = "up" /\ reconnect = FALSE
  /\ main = [pc |-> "check", todo |-> {}]
  /\ pending = [a \in Archives |-> "no"]
  /\ local = <<>> /\ listener = Idle
  /\ method = [m \in Methods |-> [pc |-> "none", registered |-> FALSE, queue |-> <<>>, reply |-> "none"]]
  /\ mounted = TRUE /\ faults = 0
  /\ emitted = [m \in Methods |-> {}] /\ answers = [m \in Methods |-> <<>>]
  /\ drained = [a \in Archives |-> "no"] /\ stored = {}

Faulty == faults < MaxFaults /\ faults' = faults + 1

-----------------------------------------------------------------------------
(* The environment *)

\* A link is lost, and the SDK's callback requests a new connection; or the
\* SDK restores the link by itself.
LinkLost ==
  /\ client = "up" /\ Faulty
  /\ client' = "lost" /\ reconnect' = TRUE
  /\ UNCHANGED <<main, pending, local, listener, method, mounted, emitted, answers, drained, stored>>
LinkRestored ==
  /\ client = "lost" /\ client' = "up"
  /\ UNCHANGED <<reconnect, main, pending, local, listener, method, mounted, faults, emitted,
                 answers, drained, stored>>

\* The local runtime reports a STOP; only a successful one that stopped every
\* stream names its archive.
EmitDrained(a, status) ==
  /\ drained[a] = "no" /\ Len(local) < MaxLocal
  /\ local' = Append(local, [type |-> "stream_drained", archive |-> a, status |-> status])
  /\ drained' = [drained EXCEPT ![a] = status]
  /\ UNCHANGED <<client, reconnect, main, pending, listener, method, mounted, faults, emitted,
                 answers, stored>>

\* The local runtime answers a command: events with its correlation id, some
\* of them not the expected reply.
EmitReply(m, type) ==
  /\ method[m].pc # "none" /\ type \notin emitted[m] /\ Cardinality(emitted[m]) < MaxReplies /\ Len(local) < MaxLocal
  /\ emitted' = [emitted EXCEPT ![m] = @ \cup {type}]
  /\ local' = Append(local, [type |-> type, method |-> m])
  /\ UNCHANGED <<client, reconnect, main, pending, listener, method, mounted, faults, answers,
                 drained, stored>>

\* The USB disk is mounted again, by its user or before a stream starts.
Mount ==
  /\ ~mounted /\ mounted' = TRUE
  /\ UNCHANGED <<client, reconnect, main, pending, local, listener, method, faults, emitted,
                 answers, drained, stored>>

-----------------------------------------------------------------------------
(* The listener *)

\* _event_loop and the lookup of _capture_method_reply.
Receive ==
  /\ listener.pc = "idle" /\ local # <<>> /\ local' = Tail(local)
  /\ LET e == Head(local)
         waits == "method" \in DOMAIN e /\ method[e.method].registered
     IN listener' = [pc |-> IF waits THEN "put" ELSE "telemetry", event |-> e]
  /\ UNCHANGED <<client, reconnect, main, pending, method, mounted, faults, emitted, answers,
                 drained, stored>>

\* waiter.put: blocks while the waiter holds an event.
Put ==
  /\ listener.pc = "put"
  /\ LET m == listener.event.method
     IN /\ method[m].queue = <<>>
        /\ method' = [method EXCEPT ![m].queue = <<listener.event.type>>]
  /\ listener' = [listener EXCEPT !.pc = "telemetry"]
  /\ UNCHANGED <<client, reconnect, main, pending, local, mounted, faults, emitted, answers,
                 drained, stored>>

\* send_telemetry.  An error requests a new connection and ends the handling
\* of the event.
Telemetry ==
  /\ listener.pc = "telemetry"
  /\ \/ Connected /\ listener' = [listener EXCEPT !.pc = "handle"] /\ UNCHANGED reconnect
     \/ TelemetryFails /\ ~Connected /\ listener' = Idle /\ reconnect' = TRUE
  /\ UNCHANGED <<client, main, pending, local, method, mounted, faults, emitted, answers,
                 drained, stored>>

\* Mutant: the status of the STOP is not looked at.
QualifiesAlways(event) == event.type = "stream_drained"

\* _handle_stream_drained: the status is ok and every local stream is stopped.
Qualifies(event) == event.type = "stream_drained" /\ event.status = "ok"

\* Mutant: one archive at a time.
QueueOne(a) == IF Queued = {} THEN [pending EXCEPT ![a] = "due"] ELSE pending

\* _queue_pending_upload: an upload that waits for its retry becomes due.
QueuePendingUpload(a) == [pending EXCEPT ![a] = "due"]

\* _publish_reported_properties: an error requests a new connection.
Publish == reconnect' = (reconnect \/ ~Connected)

\* The rest of _handle_local_event: _handle_stream_drained, the state store
\* and the reported properties.
Handle ==
  /\ listener.pc = "handle" /\ listener' = Idle
  /\ pending' = IF Qualifies(listener.event) THEN QueuePendingUpload(listener.event.archive) ELSE pending
  /\ IF listener.event.type = "error" THEN Publish ELSE UNCHANGED reconnect
  /\ UNCHANGED <<client, main, local, method, mounted, faults, emitted, answers, drained, stored>>

-----------------------------------------------------------------------------
(* Direct methods *)

\* send_method_response: without a client it raises and nothing is answered.
Answer(m, status) ==
  answers' = IF client = "none" THEN answers ELSE [answers EXCEPT ![m] = Append(@, status)]

\* _handle_method_request, answered at once: an unknown method, one blocked
\* by remote_control_enabled (a switch of the admin page and of the twin, which
\* may change at any time), a Control Center message with another target or for the local runtime.
Refuse(m) ==
  /\ method[m].pc = "none"
  /\ \E status \in {404, 403, 400, 202} : Answer(m, status)
  /\ method' = [method EXCEPT ![m].pc = "answered"]
  /\ UNCHANGED <<client, reconnect, main, pending, local, listener, mounted, faults, emitted,
                 drained, stored>>

\* A method that is allowed: its waiter is registered, then the command is sent.
Request(m) ==
  /\ method[m].pc = "none"
  /\ method' = [method EXCEPT ![m].pc = "waiting", ![m].registered = TRUE]
  /\ UNCHANGED <<client, reconnect, main, pending, local, listener, mounted, faults, emitted,
                 answers, drained, stored>>

\* Mutant: any event of the command counts as its completion.
AcceptAny(type) == TRUE

\* The events _wait_for_method_reply returns: an error or an expected one.
Accepts(type) == type \in {"error", "done"}

\* _wait_for_method_reply: the next event, or the timeout.
WaitReply(m) ==
  /\ method[m].pc = "waiting"
  /\ \/ /\ method[m].queue # <<>>
        /\ LET type == Head(method[m].queue)
           IN method' = [method EXCEPT ![m].queue = <<>>,
                                       ![m].pc = IF Accepts(type) THEN "leaving" ELSE @,
                                       ![m].reply = IF Accepts(type) THEN type ELSE @]
     \/ /\ method[m].queue = <<>>
        /\ method' = [method EXCEPT ![m].pc = "leaving"]
  /\ UNCHANGED <<client, reconnect, main, pending, local, listener, mounted, faults, emitted,
                 answers, drained, stored>>

\* Its finally clause, and the response of _handle_method_request.
Respond(m) ==
  /\ method[m].pc = "leaving"
  /\ method' = [method EXCEPT ![m].pc = "answered", ![m].registered = FALSE]
  /\ Answer(m, CASE method[m].reply = "error" -> 500 [] method[m].reply = "none" -> 202 [] OTHER -> 200)
  /\ UNCHANGED <<client, reconnect, main, pending, local, listener, mounted, faults, emitted,
                 drained, stored>>

-----------------------------------------------------------------------------
(* The main loop *)

\* _ensure_cloud_connection, up to the shutdown of the client.  Whether the
\* retry interval has passed is open.
Shutdown ==
  /\ main.pc = "check" /\ (reconnect \/ ~Connected)
  /\ client' = "none" /\ main' = [main EXCEPT !.pc = "connect"]
  /\ UNCHANGED <<reconnect, pending, local, listener, method, mounted, faults, emitted, answers,
                 drained, stored>>

\* The new client; its connection may fail.
Connect ==
  /\ main.pc = "connect"
  /\ \/ client' = "up" /\ reconnect' = FALSE /\ UNCHANGED faults
     \/ client' = "lost" /\ Faulty /\ UNCHANGED reconnect
  /\ main' = [main EXCEPT !.pc = "select"]
  /\ UNCHANGED <<pending, local, listener, method, mounted, emitted, answers, drained, stored>>

\* No reconnection, or not yet.
SkipConnect ==
  /\ main.pc = "check"
  /\ main' = [main EXCEPT !.pc = "select"]
  /\ UNCHANGED <<client, reconnect, pending, local, listener, method, mounted, faults, emitted,
                 answers, drained, stored>>

\* _process_pending_uploads: the uploads that are due.
SelectUploads ==
  /\ main.pc = "select"
  /\ LET todo == IF Connected THEN {a \in Archives : pending[a] = "due"} ELSE {}
     IN main' = [pc |-> IF todo = {} THEN "check" ELSE "upload", todo |-> todo]
  /\ UNCHANGED <<client, reconnect, pending, local, listener, method, mounted, faults, emitted,
                 answers, drained, stored>>

Tried(a) == main' = [pc |-> IF main.todo = {a} THEN "check" ELSE "upload", todo |-> main.todo \ {a}]

\* _schedule_upload_retry
ScheduleRetry(a) == [pending EXCEPT ![a] = IF @ = "no" THEN @ ELSE "later"]

\* _attempt_pending_upload of an archive that cannot be read, whose upload
\* fails, or whose upload succeeds without IoT Hub hearing of it.
UploadFails(a) ==
  /\ main.pc = "upload" /\ a \in main.todo /\ Tried(a)
  /\ \/ ~Present(a) /\ UNCHANGED <<faults, stored, reconnect>>
     \/ Present(a) /\ ~Connected /\ reconnect' = TRUE /\ UNCHANGED <<faults, stored>>
     \/ /\ Present(a) /\ Connected /\ Faulty
        /\ \E requested \in BOOLEAN : reconnect' = (reconnect \/ requested)
        /\ stored' \in {stored, stored \cup {a}}
  /\ pending' = ScheduleRetry(a)
  /\ UNCHANGED <<client, local, listener, method, mounted, emitted, answers, drained>>

\* The upload succeeds: it is no longer pending, the properties are published
\* and, for an archive on the exported disk, the disk is to be unmounted.
UploadSucceeds(a) ==
  /\ main.pc = "upload" /\ a \in main.todo /\ Tried(a)
  /\ Present(a) /\ Connected
  /\ stored' = stored \cup {a}
  /\ pending' = [pending EXCEPT ![a] = "no"]
  /\ mounted' = (mounted /\ a \notin Usb)
  /\ Publish
  /\ UNCHANGED <<client, local, listener, method, faults, emitted, answers, drained>>

\* Mutant: the retry time is compared with another clock and never comes.
RetryNever(a) == a \notin Archives

\* Time: an upload that waits becomes due.
RetryDue(a) ==
  /\ pending[a] = "later" /\ pending' = [pending EXCEPT ![a] = "due"]
  /\ UNCHANGED <<client, reconnect, main, local, listener, method, mounted, faults, emitted,
                 answers, drained, stored>>

MainLoop == Shutdown \/ Connect \/ SkipConnect \/ SelectUploads
            \/ \E a \in Archives : UploadFails(a) \/ UploadSucceeds(a)
Listener == Receive \/ Put \/ Telemetry \/ Handle

Next ==
  \/ LinkLost \/ LinkRestored \/ Mount
  \/ \E a \in Archives, status \in {"ok", "error"} : EmitDrained(a, status)
  \/ \E m \in Methods, type \in {"progress", "done", "error"} : EmitReply(m, type)
  \/ \E m \in Methods : Refuse(m) \/ Request(m) \/ WaitReply(m) \/ Respond(m)
  \/ Listener \/ MainLoop
  \/ \E a \in Archives : RetryDue(a)

\* The threads run on, the retry interval passes, and the main loop does
\* reconnect when it should: the clock decides, not the cloud.
Fairness ==
  /\ WF_vars(Listener) /\ WF_vars(MainLoop) /\ SF_vars(Shutdown)
  /\ \A a \in Archives : WF_vars(RetryDue(a))

Spec == Init /\ [][Next]_vars
FairSpec == Spec /\ Fairness

-----------------------------------------------------------------------------
(* Properties *)

\* The types of the state; an archive is pending only after a successful STOP
\* named it, and a waiter is registered exactly while its handler waits.
TypeOK ==
  /\ client \in {"none", "lost", "up"} /\ {reconnect, mounted} \subseteq BOOLEAN
  /\ main.pc \in {"check", "connect", "select", "upload"} /\ main.todo \subseteq Archives
  /\ main.pc = "upload" <=> main.todo # {}
  /\ pending \in [Archives -> {"no", "due", "later"}]
  /\ \A a \in Archives : (pending[a] # "no" \/ a \in stored) => drained[a] = "ok"
  /\ listener.pc \in {"idle", "put", "telemetry", "handle"}
  /\ \A m \in Methods : /\ method[m].registered <=> method[m].pc \in {"waiting", "leaving"}
                        /\ Len(method[m].queue) <= 1
  /\ faults \in 0..MaxFaults /\ stored \subseteq Archives

\* The drain event of an archive is still to be handled.
Arriving(a) ==
  \E e \in ToSet(local) \cup {listener.event} : e.type = "stream_drained" /\ e.archive = a

\* No archive of a successful STOP is forgotten: its event is on the way, or it
\* is pending, or the cloud has it, whatever link, upload or notification failed.
DrainedIsKept ==
  \A a \in Archives : drained[a] = "ok" => Arriving(a) \/ a \in Queued \/ a \in stored

\* A direct method is answered at most once, "completed" only after the local
\* runtime has completed the command, and "failed" only after it reported an
\* error for it.
AnswersHonest ==
  \A m \in Methods :
    /\ Len(answers[m]) <= 1
    /\ answers[m] = <<200>> => "done" \in emitted[m]
    /\ answers[m] = <<500>> => "error" \in emitted[m]

\* Once faults cease, a pending archive on a disk that stays mounted reaches
\* the cloud.
UploadsHappen ==
  \A a \in Archives : a \in Queued ~> (a \in stored \/ ~Present(a))
=============================================================================

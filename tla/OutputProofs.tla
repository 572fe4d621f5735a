----------------------------- MODULE OutputProofs -----------------------------
(***************************************************************************)
(* What leaves a node.  The Azure bridge for any number of archives and    *)
(* direct methods: the types, that no archive of a successful STOP is      *)
(* forgotten, and that a direct method is answered at most once and        *)
(* truthfully.  The output files for any number of subjects, roots,        *)
(* sessions and samples, and any shapes of samples: the types, that no     *)
(* accepted sample is lost, that an archived directory stays gone, and     *)
(* that an archive reported complete is.                                   *)
(***************************************************************************)
EXTENDS Integers, CloudBridge, SessionFiles, QueueLemmas, FiniteSetTheorems, WellFoundedInduction, TLAPS


-----------------------------------------------------------------------------
(* The inductive invariant. *)

ReplyTypes == {"progress", "done", "error"}
DrainEvents == [type : {"stream_drained"}, archive : Archives, status : {"ok", "error"}]
ReplyEvents == [type : ReplyTypes, method : Methods]
Events == DrainEvents \cup ReplyEvents

Handlers == [pc : {"none", "waiting", "leaving", "answered"}, registered : BOOLEAN,
             queue : Seq(ReplyTypes), reply : {"none", "done", "error"}]

\* What TypeOK leaves open: the events and the handlers are records of the
\* shapes above, and the listener works on an event unless it is idle.
ShapesOK ==
  /\ main \in [pc : {"check", "connect", "select", "upload"}, todo : SUBSET Archives]
  /\ local \in Seq(Events)
  /\ listener = Idle \/ listener \in [pc : {"put", "telemetry", "handle"}, event : Events]
  /\ listener.pc = "put" => listener.event \in ReplyEvents
  /\ method \in [Methods -> Handlers]
  /\ emitted \in [Methods -> SUBSET ReplyTypes]
  /\ answers \in [Methods -> Seq(Nat)]
  /\ drained \in [Archives -> {"no", "ok", "error"}]

\* The events that are still to be handled.
Unhandled == InFlight(local) \cup {listener.event}

\* An event tells the truth about the STOP or the command it is about.
EventsHonest ==
  \A e \in Unhandled :
    /\ e \in DrainEvents => drained[e.archive] = e.status
    /\ e \in ReplyEvents => e.type \in emitted[e.method]

\* What waits in a handler's queue, or has ended its wait, was emitted; a handler
\* that has not answered has left no answer, and then it leaves at most one.
MethodsHonest ==
  \A m \in Methods :
    /\ Len(method[m].queue) <= 1
    /\ \A i \in DOMAIN method[m].queue : method[m].queue[i] \in emitted[m]
    /\ method[m].reply # "none" => method[m].reply \in emitted[m]
    /\ method[m].pc # "answered" => answers[m] = <<>>

\* What the main loop is about to upload was named by a successful STOP.
TodoHonest == \A a \in main.todo : drained[a] = "ok"

IInv == TypeOK /\ ShapesOK /\ EventsHonest /\ MethodsHonest /\ TodoHonest /\ AnswersHonest

-----------------------------------------------------------------------------
\* The bridge starts with nothing received, pending or answered.
LEMMA InitIInv == Init => IInv
<1> SUFFICES ASSUME Init PROVE IInv
  OBVIOUS
<1>1. TypeOK
  <2>1. MaxFaults \in Nat
    BY BridgeAssumption
  <2>2. \A m \in Methods : method[m].pc = "none" /\ method[m].registered = FALSE /\ Len(method[m].queue) <= 1
    BY DEF Init
  <2>3. {reconnect, mounted} \subseteq BOOLEAN
    BY DEF Init
  <2>4. main.pc = "check" /\ main.todo = {} /\ listener.pc = "idle"
    BY DEF Init, Idle
  <2>5. pending \in [Archives -> {"no", "due", "later"}] /\ \A a \in Archives : pending[a] = "no"
    BY DEF Init
  <2>6. QED
    BY <2>1, <2>2, <2>3, <2>4, <2>5 DEF Init, TypeOK
<1>2. ShapesOK
  BY DEF Init, ShapesOK, Idle, Handlers
<1>3. Unhandled = {Idle.event}
  BY EmptyInFlight DEF Init, Unhandled
<1>4. EventsHonest
  BY <1>3 DEF EventsHonest, Idle, DrainEvents, ReplyEvents
<1>5. QED
  BY <1>1, <1>2, <1>4 DEF Init, IInv, MethodsHonest, TodoHonest, AnswersHonest

\* Every step keeps the shapes of the events and the handlers.
LEMMA ShapesStep == IInv /\ [Next]_vars => ShapesOK'
<1> SUFFICES ASSUME IInv, [Next]_vars PROVE ShapesOK'
  OBVIOUS
<1> USE DEF IInv, ShapesOK
<1>1. CASE LinkLost \/ LinkRestored \/ Mount
  BY <1>1 DEF LinkLost, LinkRestored, Mount
<1>2. ASSUME NEW a \in Archives, NEW status \in {"ok", "error"}, EmitDrained(a, status) PROVE ShapesOK'
  <2>1. [type |-> "stream_drained", archive |-> a, status |-> status] \in Events
    BY DEF Events, DrainEvents
  <2>2. QED
    BY <1>2, <2>1 DEF EmitDrained
<1>3. ASSUME NEW m \in Methods, NEW type \in ReplyTypes, EmitReply(m, type) PROVE ShapesOK'
  <2>1. [type |-> type, method |-> m] \in Events
    BY DEF Events, ReplyEvents
  <2>2. QED
    BY <1>3, <2>1 DEF EmitReply
<1>4. ASSUME NEW m \in Methods, Refuse(m) PROVE ShapesOK'
  <2>1. [method[m] EXCEPT !.pc = "answered"] \in Handlers
    BY DEF Handlers
  <2>2. method' \in [Methods -> Handlers]
    BY <1>4, <2>1 DEF Refuse
  <2>3. answers' \in [Methods -> Seq(Nat)]
    BY <1>4 DEF Refuse, Answer
  <2>4. QED
    BY <1>4, <2>2, <2>3 DEF Refuse
<1>5. ASSUME NEW m \in Methods, Request(m) PROVE ShapesOK'
  <2>1. [method[m] EXCEPT !.pc = "waiting", !.registered = TRUE] \in Handlers
    BY DEF Handlers
  <2>2. method' \in [Methods -> Handlers]
    BY <1>5, <2>1 DEF Request
  <2>3. QED
    BY <1>5, <2>2 DEF Request
<1>6. ASSUME NEW m \in Methods, WaitReply(m) PROVE ShapesOK'
  <2>1. method[m] \in Handlers /\ method[m].pc = "waiting"
    BY <1>6 DEF WaitReply
  <2>2. <<>> \in Seq(ReplyTypes)
    BY EmptyInFlight
  <2>3. ASSUME NEW p \in {"waiting", "leaving"}, NEW t \in {"none", "done", "error"}
        PROVE  [method[m] EXCEPT !.queue = <<>>, !.pc = p, !.reply = t] \in Handlers
    BY <2>1, <2>2 DEF Handlers
  <2>4. [method[m] EXCEPT !.pc = "leaving"] \in Handlers
    BY <2>1 DEF Handlers
  <2>5. method[m].reply \in {"none", "done", "error"}
    BY <2>1 DEF Handlers
  <2>6. CASE method' = [method EXCEPT ![m].pc = "leaving"]
    BY <1>6, <2>4, <2>6 DEF WaitReply
  <2>7. CASE method[m].queue # <<>>
    <3> DEFINE type == Head(method[m].queue)
               p == IF Accepts(type) THEN "leaving" ELSE method[m].pc
               t == IF Accepts(type) THEN type ELSE method[m].reply
    <3>1. p \in {"waiting", "leaving"} /\ t \in {"none", "done", "error"}
      BY <2>1, <2>5 DEF Accepts
    <3>2. method' = [method EXCEPT ![m] = [method[m] EXCEPT !.queue = <<>>, !.pc = p, !.reply = t]]
      BY <1>6, <2>1, <2>7 DEF WaitReply, Handlers
    <3> HIDE DEF p, t
    <3>3. method' \in [Methods -> Handlers]
      BY <2>3, <3>1, <3>2
    <3>4. QED
      BY <1>6, <3>3 DEF WaitReply
  <2>8. QED
    BY <1>6, <2>6, <2>7 DEF WaitReply
<1>7. ASSUME NEW m \in Methods, Respond(m) PROVE ShapesOK'
  <2>1. [method[m] EXCEPT !.pc = "answered", !.registered = FALSE] \in Handlers
    BY DEF Handlers
  <2>2. method' \in [Methods -> Handlers]
    BY <1>7, <2>1 DEF Respond
  <2>3. answers' \in [Methods -> Seq(Nat)]
    BY <1>7 DEF Respond, Answer
  <2>4. QED
    BY <1>7, <2>2, <2>3 DEF Respond
<1>8. CASE Receive
  <2>1. PICK e \in Events : e = Head(local) /\ local' = Tail(local) /\ Tail(local) \in Seq(Events)
    BY <1>8, TailInFlight DEF Receive
  <2>2. "method" \in DOMAIN e <=> e \in ReplyEvents
    BY DEF Events, DrainEvents, ReplyEvents
  <2>3. /\ listener' \in [pc : {"put", "telemetry", "handle"}, event : Events]
        /\ listener'.pc = "put" => listener'.event \in ReplyEvents
    BY <1>8, <2>1, <2>2 DEF Receive
  <2>4. QED
    BY <1>8, <2>1, <2>3 DEF Receive
<1>9. CASE Put
  <2>1. listener.event \in ReplyEvents /\ listener # Idle
    BY <1>9 DEF Put, Idle
  <2>2. PICK m \in Methods, t \in ReplyTypes :
            method' = [method EXCEPT ![m].queue = <<t>>]
    BY <1>9, <2>1 DEF Put, ReplyEvents
  <2>3. method' \in [Methods -> Handlers]
    <3>1. <<t>> \in Seq(ReplyTypes) /\ method[m] \in Handlers
      OBVIOUS
    <3>2. [method[m] EXCEPT !.queue = <<t>>] \in Handlers
      BY <3>1 DEF Handlers
    <3>3. QED
      BY <2>2, <3>2
  <2>4. listener' \in [pc : {"put", "telemetry", "handle"}, event : Events] /\ listener'.pc # "put"
    BY <1>9, <2>1 DEF Put
  <2>5. QED
    BY <1>9, <2>3, <2>4 DEF Put
<1>10. CASE Telemetry
  <2>1. listener.pc = "telemetry" /\ listener # Idle
    BY <1>10 DEF Telemetry, Idle
  <2>2. [listener EXCEPT !.pc = "handle"] \in [pc : {"put", "telemetry", "handle"}, event : Events]
        /\ [listener EXCEPT !.pc = "handle"].pc = "handle"
    BY <2>1
  <2>3. Idle.pc # "put"
    BY DEF Idle
  <2>4. QED
    BY <1>10, <2>2, <2>3 DEF Telemetry
<1>11. CASE Handle
  <2>1. Idle.pc # "put"
    BY DEF Idle
  <2>2. QED
    BY <1>11, <2>1 DEF Handle
<1>12. CASE Shutdown \/ Connect \/ SkipConnect \/ SelectUploads
  BY <1>12 DEF Shutdown, Connect, SkipConnect, SelectUploads
<1>13. ASSUME NEW a \in Archives, UploadFails(a) \/ UploadSucceeds(a) \/ RetryDue(a) PROVE ShapesOK'
  BY <1>13 DEF UploadFails, UploadSucceeds, RetryDue, Tried
<1>14. CASE UNCHANGED vars
  BY <1>14 DEF vars
<1>15. QED
  BY <1>1, <1>2, <1>3, <1>4, <1>5, <1>6, <1>7, <1>8, <1>9, <1>10, <1>12, <1>13, <1>14, <1>11
  DEF Next, Listener, MainLoop, ReplyTypes

\* No event that was emitted, and no STOP that was reported, is taken back.
LEMMA HistoryGrows ==
  ASSUME IInv, [Next]_vars
  PROVE  /\ \A m \in Methods : emitted[m] \subseteq emitted'[m]
         /\ \A a \in Archives : drained[a] # "no" => drained'[a] = drained[a]
<1> USE DEF IInv, ShapesOK
<1>1. ASSUME NEW a \in Archives, NEW status \in {"ok", "error"}, EmitDrained(a, status)
      PROVE  emitted' = emitted /\ \A b \in Archives : drained[b] # "no" => drained'[b] = drained[b]
  BY <1>1 DEF EmitDrained
<1>2. ASSUME NEW m \in Methods, NEW type \in ReplyTypes, EmitReply(m, type)
      PROVE  drained' = drained /\ \A n \in Methods : emitted[n] \subseteq emitted'[n]
  BY <1>2 DEF EmitReply
<1>3. CASE UNCHANGED <<emitted, drained>>
  BY <1>3
<1>4. QED
  BY <1>1, <1>2, <1>3 DEF Next, Listener, MainLoop, ReplyTypes, vars, LinkLost, LinkRestored, Mount,
       Refuse, Request, WaitReply, Respond, Receive, Put, Telemetry, Handle, Shutdown, Connect,
       SkipConnect, SelectUploads, UploadFails, UploadSucceeds, RetryDue

\* What is still to be handled: what was, nothing, or an event that is being
\* emitted and tells the truth.
LEMMA UnhandledStep ==
  ASSUME IInv, [Next]_vars
  PROVE  \A e \in Unhandled' :
            \/ e \in Unhandled
            \/ e = Idle.event
            \/ e \in DrainEvents /\ drained'[e.archive] = e.status
            \/ e \in ReplyEvents /\ e.type \in emitted'[e.method]
<1> USE DEF IInv, ShapesOK
<1>1. ASSUME NEW a \in Archives, NEW status \in {"ok", "error"}, EmitDrained(a, status)
      PROVE  \A e \in Unhandled' : e \in Unhandled \/ (e \in DrainEvents /\ drained'[e.archive] = e.status)
  <2> DEFINE event == [type |-> "stream_drained", archive |-> a, status |-> status]
  <2>1. event \in DrainEvents /\ event \in Events
    BY DEF DrainEvents, Events
  <2>2. drained'[event.archive] = event.status
    BY <1>1 DEF EmitDrained
  <2>3. local' = Append(local, event) /\ listener' = listener
    BY <1>1 DEF EmitDrained
  <2> HIDE DEF event
  <2>4. InFlight(local') = InFlight(local) \cup {event}
    BY <2>1, <2>3, AppendInFlight
  <2>5. QED
    BY <2>1, <2>2, <2>3, <2>4 DEF Unhandled
<1>2. ASSUME NEW m \in Methods, NEW type \in ReplyTypes, EmitReply(m, type)
      PROVE  \A e \in Unhandled' : e \in Unhandled \/ (e \in ReplyEvents /\ e.type \in emitted'[e.method])
  <2> DEFINE event == [type |-> type, method |-> m]
  <2>1. event \in ReplyEvents /\ event \in Events
    BY DEF ReplyEvents, Events
  <2>2. event.type \in emitted'[event.method]
    BY <1>2 DEF EmitReply
  <2>3. local' = Append(local, event) /\ listener' = listener
    BY <1>2 DEF EmitReply
  <2> HIDE DEF event
  <2>4. InFlight(local') = InFlight(local) \cup {event}
    BY <2>1, <2>3, AppendInFlight
  <2>5. QED
    BY <2>1, <2>2, <2>3, <2>4 DEF Unhandled
<1>3. CASE Receive
  <2>1. local # <<>> /\ local' = Tail(local) /\ listener'.event = Head(local)
    BY <1>3 DEF Receive
  <2>2. InFlight(local') \subseteq InFlight(local) /\ listener'.event \in InFlight(local)
    BY <2>1, TailInFlight
  <2>3. QED
    BY <2>2 DEF Unhandled
<1>4. CASE Put \/ Telemetry \/ Handle
  <2>1. local' = local /\ listener'.event \in {listener.event, Idle.event}
    BY <1>4 DEF Put, Telemetry, Handle, Idle
  <2>2. QED
    BY <2>1 DEF Unhandled
<1>5. CASE UNCHANGED <<local, listener>>
  BY <1>5 DEF Unhandled
<1>6. QED
  BY <1>1, <1>2, <1>3, <1>4, <1>5 DEF Next, Listener, MainLoop, ReplyTypes, vars, LinkLost, LinkRestored,
       Mount, Refuse, Request, WaitReply, Respond, Shutdown, Connect, SkipConnect, SelectUploads,
       UploadFails, UploadSucceeds, RetryDue

\* Every step leaves only events that tell the truth.
LEMMA EventsStep == IInv /\ [Next]_vars => EventsHonest'
<1> SUFFICES ASSUME IInv, [Next]_vars, NEW e \in Unhandled'
             PROVE  /\ e \in DrainEvents => drained'[e.archive] = e.status
                    /\ e \in ReplyEvents => e.type \in emitted'[e.method]
  BY DEF EventsHonest
<1>1. \A f \in DrainEvents : f.archive \in Archives /\ f.status # "no" /\ f \notin ReplyEvents
  BY DEF DrainEvents, ReplyEvents, ReplyTypes
<1>2. \A f \in ReplyEvents : f.method \in Methods
  BY DEF ReplyEvents
<1>3. Idle.event \notin DrainEvents /\ Idle.event \notin ReplyEvents
  BY DEF Idle, DrainEvents, ReplyEvents
<1>4. CASE e \in Unhandled
  BY <1>1, <1>2, <1>4, HistoryGrows DEF IInv, EventsHonest
<1>5. QED
  BY <1>1, <1>3, <1>4, UnhandledStep

\* What is said of one request in MethodsHonest, AnswersHonest and TypeOK.
HandlerHonest(n) ==
  /\ \A i \in DOMAIN method[n].queue : method[n].queue[i] \in emitted[n]
  /\ method[n].reply # "none" => method[n].reply \in emitted[n]
  /\ method[n].pc # "answered" => answers[n] = <<>>
  /\ Len(method[n].queue) <= 1
  /\ method[n].registered <=> method[n].pc \in {"waiting", "leaving"}
  /\ Len(answers[n]) <= 1
  /\ answers[n] = <<200>> => "done" \in emitted[n]
  /\ answers[n] = <<500>> => "error" \in emitted[n]

\* A request whose own state is left alone stays honest: what was emitted is
\* never taken back.
LEMMA HandlerKept ==
  ASSUME IInv, [Next]_vars, NEW n \in Methods, method'[n] = method[n], answers'[n] = answers[n]
  PROVE  HandlerHonest(n)'
BY HistoryGrows DEF IInv, TypeOK, MethodsHonest, AnswersHonest, HandlerHonest

\* A first answer is the only one, and tells its status.
LEMMA OneAnswer ==
  ASSUME NEW s \in Nat, NEW q, q \in {<<>>, Append(<<>>, s)}
  PROVE  Len(q) <= 1 /\ (q = <<200>> => s = 200) /\ (q = <<500>> => s = 500)
<1>1. Append(<<>>, s) = <<s>> /\ Len(<<>>) = 0 /\ Len(<<s>>) = 1
  OBVIOUS
<1>2. CASE q = <<>>
  <2>1. <<>> # <<200>> /\ <<>> # <<500>>
    OBVIOUS
  <2>2. QED
    BY <1>1, <1>2, <2>1
<1>3. CASE q = <<s>>
  <2>1. q[1] = s /\ <<200>>[1] = 200 /\ <<500>>[1] = 500
    BY <1>3
  <2>2. QED
    BY <1>1, <1>3, <2>1
<1>4. QED
  BY <1>1, <1>2, <1>3

\* Every step keeps every request honest.
LEMMA HandlerStep == IInv /\ [Next]_vars => \A n \in Methods : HandlerHonest(n)'
<1> SUFFICES ASSUME IInv, [Next]_vars, NEW n \in Methods PROVE HandlerHonest(n)'
  OBVIOUS
<1>0. CASE method'[n] = method[n] /\ answers'[n] = answers[n]
  BY <1>0, HandlerKept DEF HandlerHonest
<1>h. HandlerHonest(n) /\ method[n] \in Handlers /\ method \in [Methods -> Handlers] /\ answers \in [Methods -> Seq(Nat)]
  BY DEF IInv, TypeOK, ShapesOK, MethodsHonest, AnswersHonest, HandlerHonest
<1>e. emitted[n] \subseteq emitted'[n]
  BY HistoryGrows
<1>1. ASSUME NEW m \in Methods, Refuse(m) PROVE HandlerHonest(n)'
  <2>1. CASE m # n
    BY <1>0, <1>1, <1>h, <2>1 DEF Refuse, Answer
  <2>2. CASE m = n
    <3>1. /\ method'[n] = [method[n] EXCEPT !.pc = "answered"] /\ answers[n] = <<>>
          /\ emitted' = emitted /\ ~method[n].registered
      BY <1>1, <1>h, <2>2 DEF Refuse, HandlerHonest
    <3>2. PICK s \in {404, 403, 400, 202} : answers'[n] \in {<<>>, Append(<<>>, s)}
      BY <1>1, <1>h, <2>2, <3>1 DEF Refuse, Answer
    <3>3. /\ method'[n].pc = "answered" /\ method'[n].queue = method[n].queue
          /\ method'[n].reply = method[n].reply /\ ~method'[n].registered
      BY <1>h, <3>1 DEF Handlers
    <3>4. Len(answers'[n]) <= 1 /\ answers'[n] # <<200>> /\ answers'[n] # <<500>>
      <4>1. s \in Nat /\ s # 200 /\ s # 500
        OBVIOUS
      <4>2. Len(answers'[n]) <= 1 /\ (answers'[n] = <<200>> => s = 200) /\ (answers'[n] = <<500>> => s = 500)
        BY <3>2, <4>1, OneAnswer
      <4>3. QED
        BY <4>1, <4>2
    <3>5. QED
      BY <1>h, <3>1, <3>3, <3>4 DEF HandlerHonest
  <2>3. QED
    BY <2>1, <2>2
<1>2. ASSUME NEW m \in Methods, Request(m) PROVE HandlerHonest(n)'
  <2>1. CASE m # n
    BY <1>0, <1>2, <1>h, <2>1 DEF Request
  <2>2. CASE m = n
    <3>1. /\ method'[n] = [method[n] EXCEPT !.pc = "waiting", !.registered = TRUE] /\ method[n].pc = "none"
          /\ emitted' = emitted /\ answers' = answers
      BY <1>2, <1>h, <2>2 DEF Request
    <3>2. /\ method'[n].pc = "waiting" /\ method'[n].queue = method[n].queue
          /\ method'[n].reply = method[n].reply /\ method'[n].registered
      BY <1>h, <3>1 DEF Handlers
    <3>3. QED
      BY <1>h, <3>1, <3>2 DEF HandlerHonest
  <2>3. QED
    BY <2>1, <2>2
<1>3. ASSUME NEW m \in Methods, WaitReply(m) PROVE HandlerHonest(n)'
  <2>1. CASE m # n
    BY <1>0, <1>3, <1>h, <2>1 DEF WaitReply
  <2>2. CASE m = n
    <3>1. emitted' = emitted /\ answers' = answers /\ method[n].pc = "waiting" /\ method[n].registered
      BY <1>3, <1>h, <2>2 DEF WaitReply, HandlerHonest
    <3>2. CASE method' = [method EXCEPT ![n].pc = "leaving"]
      <4>1. /\ method'[n].pc = "leaving" /\ method'[n].queue = method[n].queue
            /\ method'[n].reply = method[n].reply /\ method'[n].registered
        BY <1>h, <3>1, <3>2 DEF Handlers
      <4>2. QED
        BY <1>h, <3>1, <4>1 DEF HandlerHonest
    <3>3. CASE method[n].queue # <<>>
      <4> DEFINE type == Head(method[n].queue)
      <4>1. type \in emitted[n]
        BY <1>h, <3>3 DEF HandlerHonest, Handlers
      <4>2. /\ method'[n].queue = <<>> /\ method'[n].registered
            /\ method'[n].pc \in {"waiting", "leaving"}
            /\ method'[n].reply \in {type, method[n].reply}
        <5>1. method' = [method EXCEPT ![n].queue = <<>>,
                                       ![n].pc = IF Accepts(type) THEN "leaving" ELSE @,
                                       ![n].reply = IF Accepts(type) THEN type ELSE @]
          BY <1>3, <2>2, <3>3 DEF WaitReply
        <5> HIDE DEF type
        <5>2. method'[n] = [method[n] EXCEPT !.queue = <<>>,
                                       !.pc = IF Accepts(type) THEN "leaving" ELSE @,
                                       !.reply = IF Accepts(type) THEN type ELSE @]
          BY <1>h, <5>1 DEF Handlers
        <5>3. QED
          BY <1>h, <3>1, <5>2 DEF Handlers
      <4>3. Len(<<>>) <= 1 /\ DOMAIN <<>> = {}
        OBVIOUS
      <4>4. QED
        BY <1>h, <3>1, <4>1, <4>2, <4>3 DEF HandlerHonest
    <3>4. QED
      BY <1>3, <2>2, <3>2, <3>3 DEF WaitReply
  <2>3. QED
    BY <2>1, <2>2
<1>4. ASSUME NEW m \in Methods, Respond(m) PROVE HandlerHonest(n)'
  <2>1. CASE m # n
    BY <1>0, <1>4, <1>h, <2>1 DEF Respond, Answer
  <2>2. CASE m = n
    <3> DEFINE status == CASE method[n].reply = "error" -> 500 [] method[n].reply = "none" -> 202 [] OTHER -> 200
    <3>1. /\ method'[n] = [method[n] EXCEPT !.pc = "answered", !.registered = FALSE]
          /\ answers[n] = <<>> /\ emitted' = emitted
      BY <1>4, <1>h, <2>2 DEF Respond, HandlerHonest
    <3>2. answers'[n] \in {<<>>, Append(<<>>, status)}
      BY <1>4, <1>h, <2>2, <3>1 DEF Respond, Answer
    <3>3. /\ status = 200 => method[n].reply = "done"
          /\ status = 500 => method[n].reply = "error"
          /\ status \in Nat
      BY <1>h DEF Handlers
    <3>4. /\ method'[n].pc = "answered" /\ method'[n].queue = method[n].queue
          /\ method'[n].reply = method[n].reply /\ ~method'[n].registered
      BY <1>h, <3>1 DEF Handlers
    <3> HIDE DEF status
    <3>5. /\ Len(answers'[n]) <= 1
          /\ answers'[n] = <<200>> => status = 200
          /\ answers'[n] = <<500>> => status = 500
      BY <3>2, <3>3, OneAnswer
    <3>6. QED
      BY <1>h, <3>1, <3>3, <3>4, <3>5 DEF HandlerHonest
  <2>3. QED
    BY <2>1, <2>2
<1>5. CASE Put
  <2> DEFINE m == listener.event.method
             t == listener.event.type
  <2>1. listener.event \in ReplyEvents /\ listener.event \in Unhandled
    BY <1>5 DEF IInv, ShapesOK, Put, Unhandled
  <2>2. m \in Methods /\ t \in emitted[m]
    BY <2>1 DEF IInv, EventsHonest, ReplyEvents
  <2>3. method' = [method EXCEPT ![m].queue = <<t>>] /\ answers' = answers
    BY <1>5 DEF Put
  <2> HIDE DEF m, t
  <2>4. CASE m # n
    BY <1>0, <1>h, <2>2, <2>3, <2>4
  <2>5. CASE m = n
    <3>1. /\ method'[n].queue = <<t>> /\ method'[n].pc = method[n].pc
          /\ method'[n].reply = method[n].reply /\ method'[n].registered = method[n].registered
      BY <1>h, <2>3, <2>5 DEF Handlers
    <3>2. Len(<<t>>) = 1 /\ DOMAIN <<t>> = {1} /\ <<t>>[1] = t
      OBVIOUS
    <3>3. QED
      BY <1>h, <1>e, <2>2, <2>3, <2>5, <3>1, <3>2 DEF HandlerHonest
  <2>6. QED
    BY <2>4, <2>5
<1>6. CASE UNCHANGED <<method, answers>>
  BY <1>0, <1>6
<1>7. QED
  BY <1>1, <1>2, <1>3, <1>4, <1>5, <1>6 DEF Next, Listener, MainLoop, vars, LinkLost, LinkRestored, Mount,
       EmitDrained, EmitReply, Receive, Telemetry, Handle, Shutdown, Connect, SkipConnect, SelectUploads,
       UploadFails, UploadSucceeds, RetryDue

\* An event that qualifies is the drain event of an archive whose STOP succeeded.
LEMMA QualifiedIsDrained ==
  ASSUME IInv, Handle, Qualifies(listener.event)
  PROVE  /\ listener.event.archive \in Archives /\ drained[listener.event.archive] = "ok"
         /\ listener.event.type # "error"
<1>1. listener # Idle
  BY DEF Handle, Idle
<1>2. listener.event \in Events /\ listener.event.type = "stream_drained" /\ listener.event.status = "ok"
  BY <1>1 DEF IInv, ShapesOK, Qualifies
<1>3. listener.event \in DrainEvents
  BY <1>2 DEF Events, DrainEvents, ReplyEvents, ReplyTypes
<1>4. listener.event \in Unhandled
  BY DEF Unhandled
<1>5. QED
  BY <1>2, <1>3, <1>4 DEF IInv, EventsHonest, DrainEvents

\* What becomes pending, is about to be uploaded or is stored was named by a
\* successful STOP.
LEMMA UploadsStep ==
  ASSUME IInv, [Next]_vars
  PROVE  /\ pending' \in [Archives -> {"no", "due", "later"}]
         /\ stored' \subseteq Archives
         /\ \A a \in Archives : (pending'[a] # "no" \/ a \in stored') => drained'[a] = "ok"
         /\ TodoHonest'
<1> DEFINE Honest(a) == pending'[a] # "no" \/ a \in stored' \/ a \in main'.todo => drained[a] = "ok"
<1>1. /\ pending \in [Archives -> {"no", "due", "later"}] /\ stored \subseteq Archives
      /\ main.todo \subseteq Archives
      /\ \A a \in Archives : pending[a] # "no" \/ a \in stored \/ a \in main.todo => drained[a] = "ok"
  BY DEF IInv, TypeOK, TodoHonest
<1>s. SUFFICES /\ pending' \in [Archives -> {"no", "due", "later"}] /\ stored' \subseteq Archives
               /\ \A a \in Archives : Honest(a)
  <2>1. main'.todo \subseteq Archives
    BY ShapesStep DEF ShapesOK
  <2>2. QED
    BY <2>1, HistoryGrows DEF TodoHonest
<1>2. CASE Handle
  <2>1. main' = main /\ stored' = stored
    BY <1>2 DEF Handle
  <2>2. CASE Qualifies(listener.event)
    <3>1. pending' = [pending EXCEPT ![listener.event.archive] = "due"]
      BY <1>2, <2>2 DEF Handle, QueuePendingUpload
    <3>2. QED
      BY <1>1, <1>2, <2>1, <2>2, <3>1, QualifiedIsDrained
  <2>3. CASE ~Qualifies(listener.event)
    BY <1>1, <1>2, <2>1, <2>3 DEF Handle
  <2>4. QED
    BY <2>2, <2>3
<1>3. CASE SelectUploads
  <2>1. main'.todo \in {{a \in Archives : pending[a] = "due"}, {}}
    BY <1>3 DEF SelectUploads
  <2>2. pending' = pending /\ stored' = stored
    BY <1>3 DEF SelectUploads
  <2>3. QED
    BY <1>1, <2>1, <2>2
<1>4. ASSUME NEW b \in Archives, UploadFails(b) \/ UploadSucceeds(b)
      PROVE  pending' \in [Archives -> {"no", "due", "later"}] /\ stored' \subseteq Archives /\ \A a \in Archives : Honest(a)
  <2>1. b \in main.todo /\ main'.todo \subseteq main.todo /\ stored' \in {stored, stored \cup {b}}
    BY <1>4 DEF UploadFails, UploadSucceeds, Tried
  <2>2. pending' \in {ScheduleRetry(b), [pending EXCEPT ![b] = "no"]}
    BY <1>4 DEF UploadFails, UploadSucceeds
  <2>3. QED
    BY <1>1, <2>1, <2>2 DEF ScheduleRetry
<1>5. ASSUME NEW b \in Archives, RetryDue(b)
      PROVE  pending' \in [Archives -> {"no", "due", "later"}] /\ stored' \subseteq Archives /\ \A a \in Archives : Honest(a)
  BY <1>1, <1>5 DEF RetryDue
<1>6. CASE UNCHANGED <<pending, stored>> /\ main'.todo = main.todo
  BY <1>1, <1>6
<1>7. CASE Shutdown \/ Connect \/ SkipConnect
  <2>1. main'.todo = main.todo /\ pending' = pending /\ stored' = stored
    BY <1>7 DEF IInv, ShapesOK, Shutdown, Connect, SkipConnect
  <2>2. QED
    BY <1>6, <2>1
<1>8. CASE UNCHANGED <<pending, stored, main>>
  BY <1>6, <1>8
<1>9. QED
  BY <1>2, <1>3, <1>4, <1>5, <1>7, <1>8 DEF Next, Listener, MainLoop, vars, LinkLost, LinkRestored, Mount,
       EmitDrained, EmitReply, Refuse, Request, WaitReply, Respond, Receive, Put, Telemetry

\* Every step keeps the types.
LEMMA TypeStep == IInv /\ [Next]_vars => TypeOK'
<1> SUFFICES ASSUME IInv, [Next]_vars PROVE TypeOK'
  OBVIOUS
<1>1. client' \in {"none", "lost", "up"}
  BY DEF IInv, TypeOK, Next, Listener, MainLoop, vars, LinkLost, LinkRestored, Mount,
       EmitDrained, EmitReply, Refuse, Request, WaitReply, Respond, Receive, Put, Telemetry, Handle, Shutdown,
       Connect, SkipConnect, SelectUploads, UploadFails, UploadSucceeds, RetryDue
<1>2. reconnect' \in BOOLEAN
  <2>1. reconnect \in BOOLEAN /\ Connected \in BOOLEAN
    BY DEF IInv, TypeOK, Connected
  <2>2. QED
    BY <2>1 DEF Next, Listener, MainLoop, vars, LinkLost, LinkRestored, Mount,
       EmitDrained, EmitReply, Refuse, Request, WaitReply, Respond, Receive, Put, Telemetry, Handle, Shutdown,
       Connect, SkipConnect, SelectUploads, UploadFails, UploadSucceeds, RetryDue, Publish
<1>3. mounted' \in BOOLEAN
  <2>1. mounted \in BOOLEAN
    BY DEF IInv, TypeOK
  <2>2. QED
    BY <2>1 DEF Next, Listener, MainLoop, vars, LinkLost, LinkRestored, Mount,
       EmitDrained, EmitReply, Refuse, Request, WaitReply, Respond, Receive, Put, Telemetry, Handle, Shutdown,
       Connect, SkipConnect, SelectUploads, UploadFails, UploadSucceeds, RetryDue
<1>4. main'.pc = "upload" <=> main'.todo # {}
  <2>1. main \in [pc : {"check", "connect", "select", "upload"}, todo : SUBSET Archives]
        /\ (main.pc = "upload" <=> main.todo # {})
    BY DEF IInv, TypeOK, ShapesOK
  <2>2. CASE Shutdown \/ Connect \/ SkipConnect
    <3>1. main'.todo = main.todo /\ main'.pc # "upload" /\ main.pc # "upload"
      BY <2>1, <2>2 DEF Shutdown, Connect, SkipConnect
    <3>2. QED
      BY <2>1, <3>1
  <2>3. CASE SelectUploads
    BY <2>3 DEF SelectUploads
  <2>4. ASSUME NEW a \in Archives, UploadFails(a) \/ UploadSucceeds(a) PROVE main'.pc = "upload" <=> main'.todo # {}
    <3>1. a \in main.todo /\ main' = [pc |-> IF main.todo = {a} THEN "check" ELSE "upload", todo |-> main.todo \ {a}]
      BY <2>4 DEF UploadFails, UploadSucceeds, Tried
    <3>2. QED
      BY <3>1
  <2>5. CASE main' = main
    BY <2>1, <2>5
  <2>6. QED
    BY <2>2, <2>3, <2>4, <2>5 DEF Next, Listener, MainLoop, vars, LinkLost, LinkRestored, Mount,
       EmitDrained, EmitReply, Refuse, Request, WaitReply, Respond, Receive, Put, Telemetry, Handle, RetryDue
<1>5. faults' \in 0..MaxFaults
  <2>1. faults \in 0..MaxFaults /\ MaxFaults \in Nat
    BY BridgeAssumption DEF IInv, TypeOK
  <2>2. CASE Faulty
    BY <2>1, <2>2 DEF Faulty
  <2>3. CASE faults' = faults
    BY <2>1, <2>3
  <2>4. QED
    BY <2>2, <2>3 DEF Next, Listener, MainLoop, vars, LinkLost, LinkRestored, Mount,
       EmitDrained, EmitReply, Refuse, Request, WaitReply, Respond, Receive, Put, Telemetry, Handle, Shutdown,
       Connect, SkipConnect, SelectUploads, UploadFails, UploadSucceeds, RetryDue
<1>6. main'.pc \in {"check", "connect", "select", "upload"} /\ main'.todo \subseteq Archives
  BY ShapesStep DEF ShapesOK
<1>7. listener'.pc \in {"idle", "put", "telemetry", "handle"}
  BY ShapesStep DEF ShapesOK, Idle
<1>8. \A m \in Methods : /\ method'[m].registered <=> method'[m].pc \in {"waiting", "leaving"}
                         /\ Len(method'[m].queue) <= 1
  BY HandlerStep DEF HandlerHonest
<1>9. QED
  BY <1>1, <1>2, <1>3, <1>4, <1>5, <1>6, <1>7, <1>8, UploadsStep DEF TypeOK

\* The invariant is inductive.
LEMMA IInvStep == IInv /\ [Next]_vars => IInv'
<1> SUFFICES ASSUME IInv, [Next]_vars PROVE IInv'
  OBVIOUS
<1>1. MethodsHonest' /\ AnswersHonest'
  BY HandlerStep DEF HandlerHonest, MethodsHonest, AnswersHonest
<1>2. QED
  BY <1>1, TypeStep, ShapesStep, EventsStep, UploadsStep DEF IInv

\* The state of the bridge keeps its types; an archive is pending or stored only
\* after a successful STOP named it, and a waiter is registered exactly while its
\* handler waits (_method_waiters, _pending_uploads).
THEOREM TypeCorrect == Spec => []TypeOK
<1>1. IInv => TypeOK
  BY DEF IInv
<1>2. QED
  BY <1>1, InitIInv, IInvStep, PTL DEF Spec

\* Every direct method is answered at most once, as completed or failed only
\* after the local runtime said so, however its events, the timeout of
\* _wait_for_method_reply and a reconnection interleave.
THEOREM AnswersAreHonest == Spec => []AnswersHonest
<1>1. IInv => AnswersHonest
  BY DEF IInv
<1>2. QED
  BY <1>1, InitIInv, IInvStep, PTL DEF Spec

-----------------------------------------------------------------------------
(* Nothing that a successful STOP named is forgotten. *)

IsDrainOf(e, a) == e.type = "stream_drained" /\ e.archive = a
Kept(a) == (\E e \in Unhandled : IsDrainOf(e, a)) \/ a \in Queued \/ a \in stored

\* The one step that forgets an archive: its event is on its way to the cloud,
\* there is no connection, and the error of send_telemetry ends its handling.
Dropped(a) == Telemetry /\ TelemetryFails /\ ~Connected /\ IsDrainOf(listener.event, a)

\* No other step does.
LEMMA KeptStep ==
  ASSUME IInv, [Next]_vars, NEW a \in Archives, drained'[a] = "ok", drained[a] = "ok" => Kept(a)
  PROVE  Kept(a)' \/ Dropped(a)
<1>t. /\ pending \in [Archives -> {"no", "due", "later"}] /\ pending' \in [Archives -> {"no", "due", "later"}]
      /\ drained \in [Archives -> {"no", "ok", "error"}] /\ local \in Seq(Events)
  BY UploadsStep DEF IInv, TypeOK, ShapesOK
<1>1. ASSUME NEW b \in Archives, NEW status \in {"ok", "error"}, EmitDrained(b, status) PROVE Kept(a)'
  <2> DEFINE event == [type |-> "stream_drained", archive |-> b, status |-> status]
  <2>1. event \in Events /\ IsDrainOf(event, b)
    BY DEF DrainEvents, Events, IsDrainOf
  <2>2. local' = Append(local, event) /\ UNCHANGED <<listener, pending, stored>>
        /\ (a # b => drained'[a] = drained[a])
    BY <1>1, <1>t DEF EmitDrained
  <2> HIDE DEF event
  <2>3. Unhandled' = Unhandled \cup {event}
    BY <1>t, <2>1, <2>2, AppendInFlight DEF Unhandled
  <2>4. CASE a = b
    BY <2>1, <2>3, <2>4 DEF Kept
  <2>5. CASE a # b
    BY <2>2, <2>3, <2>5 DEF Kept, Queued
  <2>6. QED
    BY <2>4, <2>5
<1>2. ASSUME drained' = drained, Unhandled \subseteq Unhandled', Queued \subseteq Queued', stored \subseteq stored'
      PROVE  Kept(a)'
  BY <1>2 DEF Kept
<1>3. ASSUME NEW m \in Methods, NEW type \in ReplyTypes, EmitReply(m, type) PROVE Kept(a)'
  <2> DEFINE event == [type |-> type, method |-> m]
  <2>1. event \in Events
    BY DEF ReplyEvents, Events
  <2>2. local' = Append(local, event) /\ UNCHANGED <<listener, pending, stored, drained>>
    BY <1>3 DEF EmitReply
  <2> HIDE DEF event
  <2>3. Unhandled' = Unhandled \cup {event}
    BY <1>t, <2>1, <2>2, AppendInFlight DEF Unhandled
  <2>4. QED
    BY <1>2, <2>2, <2>3 DEF Queued
<1>4. CASE Receive
  <2>1. local # <<>> /\ local' = Tail(local) /\ listener'.event = Head(local) /\ listener.pc = "idle"
        /\ UNCHANGED <<pending, stored, drained>>
    BY <1>4 DEF Receive
  <2>2. listener.event = Idle.event
    BY <2>1 DEF IInv, ShapesOK
  <2>3. InFlight(local) = InFlight(local') \cup {listener'.event}
    BY <1>t, <2>1, HeadInFlight
  <2>4. ~IsDrainOf(Idle.event, a)
    BY DEF Idle, IsDrainOf
  <2>5. QED
    BY <2>1, <2>2, <2>3, <2>4 DEF Kept, Queued, Unhandled
<1>5. CASE Put
  <2>1. listener'.event = listener.event /\ UNCHANGED <<local, pending, stored, drained>>
    BY <1>5 DEF Put, IInv, ShapesOK, Idle
  <2>2. QED
    BY <1>2, <2>1 DEF Unhandled, Queued
<1>6. CASE Telemetry
  <2>1. UNCHANGED <<local, pending, stored, drained>>
    BY <1>6 DEF Telemetry
  <2>2. CASE listener' = [listener EXCEPT !.pc = "handle"]
    <3>1. listener'.event = listener.event
      BY <1>6, <2>2 DEF Telemetry, IInv, ShapesOK, Idle
    <3>2. QED
      BY <1>2, <2>1, <3>1 DEF Unhandled, Queued
  <2>3. CASE TelemetryFails /\ ~Connected /\ listener' = Idle
    <3>1. CASE IsDrainOf(listener.event, a)
      BY <1>6, <2>3, <3>1 DEF Dropped
    <3>2. CASE ~IsDrainOf(listener.event, a)
      BY <2>1, <3>2 DEF Kept, Unhandled, Queued
    <3>3. QED
      BY <3>1, <3>2
  <2>4. QED
    BY <1>6, <2>2, <2>3 DEF Telemetry
<1>7. CASE Handle
  <2>1. UNCHANGED <<local, stored, drained>>
    BY <1>7 DEF Handle
  <2>2. Queued \subseteq Queued'
    <3>1. CASE Qualifies(listener.event)
      BY <1>7, <1>t, <3>1, QualifiedIsDrained DEF Handle, QueuePendingUpload, Queued
    <3>2. CASE ~Qualifies(listener.event)
      BY <1>7, <3>2 DEF Handle, Queued
    <3>3. QED
      BY <3>1, <3>2
  <2>3. CASE IsDrainOf(listener.event, a)
    <3>1. listener # Idle
      BY <1>7 DEF Handle, Idle
    <3>2. listener.event \in DrainEvents
      BY <2>3, <3>1 DEF IInv, ShapesOK, IsDrainOf, Events, DrainEvents, ReplyEvents, ReplyTypes
    <3>3. listener.event.status = "ok"
      BY <2>1, <2>3, <3>2 DEF IInv, EventsHonest, Unhandled, IsDrainOf
    <3>4. pending' = [pending EXCEPT ![a] = "due"]
      BY <1>7, <2>3, <3>3 DEF Handle, Qualifies, QueuePendingUpload, IsDrainOf
    <3>5. QED
      BY <1>t, <3>4 DEF Kept, Queued
  <2>4. CASE ~IsDrainOf(listener.event, a)
    BY <2>1, <2>2, <2>4 DEF Kept, Unhandled
  <2>5. QED
    BY <2>3, <2>4
<1>8. ASSUME NEW b \in Archives, UploadFails(b) PROVE Kept(a)'
  <2>1. UNCHANGED <<local, listener, drained>> /\ pending' = ScheduleRetry(b) /\ stored \subseteq stored'
    BY <1>8 DEF UploadFails
  <2>2. Queued \subseteq Queued'
    BY <1>t, <2>1 DEF ScheduleRetry, Queued
  <2>3. QED
    BY <1>2, <2>1, <2>2 DEF Unhandled
<1>9. ASSUME NEW b \in Archives, UploadSucceeds(b) PROVE Kept(a)'
  BY <1>9, <1>t DEF UploadSucceeds, Kept, Queued, Unhandled
<1>10. ASSUME NEW b \in Archives, RetryDue(b) PROVE Kept(a)'
  BY <1>10, <1>t DEF RetryDue, Kept, Queued, Unhandled
<1>11. CASE UNCHANGED <<local, listener, pending, stored, drained>>
  BY <1>2, <1>11 DEF Unhandled, Queued
<1>12. QED
  BY <1>1, <1>3, <1>4, <1>5, <1>6, <1>7, <1>8, <1>9, <1>10, <1>11 DEF Next, Listener, MainLoop, vars,
       LinkLost, LinkRestored, Mount, ReplyTypes, Refuse, Request, WaitReply, Respond, Shutdown, Connect,
       SkipConnect, SelectUploads

\* No archive of a successful STOP is forgotten, whatever link, upload or
\* notification fails, if telemetry is sent or waited for.  (When sending it may
\* raise an error, Dropped forgets the archive: _handle_local_event.)
THEOREM DrainedKept ==
  ASSUME TelemetryFails = FALSE
  PROVE  Spec => []DrainedIsKept
<1> DEFINE AllKept == \A a \in Archives : drained[a] = "ok" => Kept(a)
<1>1. Init => AllKept
  BY DEF Init
<1>2. IInv /\ AllKept /\ [Next]_vars => AllKept'
  <2> SUFFICES ASSUME IInv, AllKept, [Next]_vars, NEW a \in Archives, drained'[a] = "ok" PROVE Kept(a)'
    OBVIOUS
  <2>1. Kept(a)' \/ Dropped(a)
    BY KeptStep
  <2>2. QED
    BY <2>1 DEF Dropped
<1>3. AllKept => DrainedIsKept
  BY DEF DrainedIsKept, Kept, IsDrainOf, Arriving, ToSet, Unhandled, InFlight
<1> HIDE DEF AllKept
<1>4. QED
  BY <1>1, <1>2, <1>3, InitIInv, IInvStep, PTL DEF Spec

-----------------------------------------------------------------------------
(* The keys of a block in order. *)

\* A set of numbers has a least one.
LEMMA LeastNumber ==
  ASSUME NEW S \in SUBSET Nat, S # {}
  PROVE  \E x \in S : \A y \in S : x <= y
<1>1. PICK x \in S : \A y \in S : <<y, x>> \notin OpToRel(<, Nat)
  BY NatLessThanWellFounded, WFMin, Zenon
<1>2. \A y \in S : ~(y < x)
  BY <1>1 DEF OpToRel
<1>3. \A y \in S : x <= y
  BY <1>2
<1>4. QED
  BY <1>3

\* A shape is a sequence of keys.
LEMMA ShapeIs ==
  ASSUME NEW block \in Seq(Shapes)
  PROVE  /\ Len(block) \in Nat /\ DOMAIN block = 1..Len(block)
         /\ \A i \in DOMAIN block :
              /\ block[i] \in Shapes /\ block[i] \in Seq(Names) /\ block[i] # <<>>
              /\ Len(block[i]) \in Nat \ {0} /\ DOMAIN block[i] = 1..Len(block[i])
              /\ ToSet(block[i]) \subseteq Names
<1>1. Len(block) \in Nat /\ DOMAIN block = 1..Len(block)
  OBVIOUS
<1>2. ASSUME NEW i \in DOMAIN block
      PROVE  block[i] \in Shapes /\ block[i] \in Seq(Names) /\ block[i] # <<>>
  <2>1. block[i] \in Shapes /\ block[i] \in Seq(STRING) /\ block[i] # <<>>
    BY FilesAssumption
  <2>2. Len(block[i]) \in Nat /\ block[i] \in [1..Len(block[i]) -> STRING]
    BY <2>1
  <2>3. \A m \in 1..Len(block[i]) : block[i][m] \in Names
    BY <2>1, <2>2 DEF Names, ToSet
  <2>4. block[i] \in [1..Len(block[i]) -> Names]
    BY <2>2, <2>3
  <2>5. QED
    BY <2>1, <2>2, <2>4
<1>3. ASSUME NEW i \in DOMAIN block
      PROVE  Len(block[i]) \in Nat \ {0} /\ DOMAIN block[i] = 1..Len(block[i])
  BY <1>2
<1>4. ASSUME NEW i \in DOMAIN block PROVE ToSet(block[i]) \subseteq Names
  <2>1. \A m \in DOMAIN block[i] : block[i][m] \in Names
    BY <1>2
  <2>2. QED
    BY <2>1 DEF ToSet
<1>5. QED
  BY <1>1, <1>2, <1>3, <1>4

\* A sequence has finitely many elements.
LEMMA ToSetFinite ==
  ASSUME NEW T, NEW q \in Seq(T)
  PROVE  IsFiniteSet(ToSet(q))
<1>1. Len(q) \in Nat /\ DOMAIN q = 1..Len(q)
  OBVIOUS
<1>2. q \in [1..Len(q) -> ToSet(q)]
  BY <1>1 DEF ToSet
<1>3. q \in Surjection(1..Len(q), ToSet(q))
  BY <1>1, <1>2 DEF Surjection, ToSet
<1>4. QED
  BY <1>1, <1>3, FS_NatSurjection DEF ExistsSurjection

\* A block has finitely many keys.
LEMMA KeysFinite ==
  ASSUME NEW block \in Seq(Shapes)
  PROVE  IsFiniteSet(Keys(block)) /\ Keys(block) \subseteq Names
<1> DEFINE f == [i \in 1..Len(block) |-> ToSet(block[i])]
           S == {ToSet(block[i]) : i \in DOMAIN block}
<1>1. Len(block) \in Nat /\ DOMAIN block = 1..Len(block)
  BY ShapeIs
<1>2. f \in [1..Len(block) -> S]
  BY <1>1
<1>3. f \in Surjection(1..Len(block), S)
  <2>1. \A T \in S : \E i \in 1..Len(block) : f[i] = T
    BY <1>1
  <2>2. QED
    BY <1>2, <2>1 DEF Surjection
<1>4. IsFiniteSet(S)
  BY <1>1, <1>3, FS_NatSurjection DEF ExistsSurjection
<1>5. \A T \in S : IsFiniteSet(T) /\ T \subseteq Names
  BY ShapeIs, ToSetFinite
<1> HIDE DEF f, S
<1>6. IsFiniteSet(UNION S) /\ UNION S \subseteq Names
  BY <1>4, <1>5, FS_UNION
<1>7. QED
  BY <1>6 DEF S, Keys

\* No key is earlier than itself, and the order is transitive.
LEMMA EarlierStrict ==
  ASSUME NEW block \in Seq(Shapes), NEW a, NEW b, NEW c
  PROVE  /\ ~Earlier(block, a, a)
         /\ Earlier(block, a, b) /\ Earlier(block, b, c) => Earlier(block, a, c)
<1>0. DOMAIN block \subseteq Nat \ {0} /\ \A i \in DOMAIN block : DOMAIN block[i] \subseteq Nat \ {0} /\ i \in 1..i
  BY ShapeIs
<1>1. ASSUME Earlier(block, a, a) PROVE FALSE
  <2>1. PICK i \in DOMAIN block : \E m \in DOMAIN block[i] :
            /\ block[i][m] = a
            /\ \A j \in 1..i : \A n \in DOMAIN block[j] : block[j][n] = a => j = i /\ m < n
    BY <1>1 DEF Earlier
  <2>2. PICK m \in DOMAIN block[i] :
            /\ block[i][m] = a
            /\ \A j \in 1..i : \A n \in DOMAIN block[j] : block[j][n] = a => j = i /\ m < n
    BY <2>1
  <2>3. m < m /\ m \in Nat
    BY <1>0, <2>2
  <2>4. QED
    BY <2>3
<1>2. ASSUME Earlier(block, a, b), Earlier(block, b, c) PROVE Earlier(block, a, c)
  <2>1. PICK i \in DOMAIN block : \E m \in DOMAIN block[i] :
            /\ block[i][m] = a
            /\ \A j \in 1..i : \A n \in DOMAIN block[j] : block[j][n] = b => j = i /\ m < n
    BY <1>2 DEF Earlier
  <2>2. PICK m \in DOMAIN block[i] :
            /\ block[i][m] = a
            /\ \A j \in 1..i : \A n \in DOMAIN block[j] : block[j][n] = b => j = i /\ m < n
    BY <2>1
  <2>3. PICK i2 \in DOMAIN block : \E m2 \in DOMAIN block[i2] :
            /\ block[i2][m2] = b
            /\ \A j \in 1..i2 : \A n \in DOMAIN block[j] : block[j][n] = c => j = i2 /\ m2 < n
    BY <1>2 DEF Earlier
  <2>4. PICK m2 \in DOMAIN block[i2] :
            /\ block[i2][m2] = b
            /\ \A j \in 1..i2 : \A n \in DOMAIN block[j] : block[j][n] = c => j = i2 /\ m2 < n
    BY <2>3
  <2>5. i \in Nat \ {0} /\ i2 \in Nat \ {0} /\ m \in Nat /\ m2 \in Nat
    BY <1>0
  <2>6. i2 \in 1..i => i2 = i /\ m < m2
    BY <2>2, <2>4
  <2>7. ASSUME NEW j \in 1..i, NEW n \in DOMAIN block[j], block[j][n] = c PROVE j = i /\ m < n
    <3>0. j \in DOMAIN block
      BY <2>5, ShapeIs
    <3>1. j \in Nat \ {0} /\ n \in Nat
      BY <1>0, <3>0
    <3>2. j \in 1..i2 => j = i2 /\ m2 < n
      BY <2>4, <2>7
    <3>3. CASE i2 <= i
      BY <2>5, <2>6, <3>1, <3>2, <3>3
    <3>4. CASE i2 > i
      BY <2>5, <3>1, <3>2, <3>4
    <3>5. QED
      BY <2>5, <3>3, <3>4
  <2>8. QED
    BY <2>2, <2>7 DEF Earlier
<1>3. QED
  BY <1>1, <1>2

\* Of two keys of a block one is earlier.
LEMMA EarlierTotal ==
  ASSUME NEW block \in Seq(Shapes), NEW a \in Keys(block), NEW b \in Keys(block), a # b
  PROVE  Earlier(block, a, b) \/ Earlier(block, b, a)
<1> DEFINE I == {i \in DOMAIN block : a \in ToSet(block[i]) \/ b \in ToSet(block[i])}
<1>0. DOMAIN block = 1..Len(block) /\ Len(block) \in Nat
      /\ \A i \in DOMAIN block : DOMAIN block[i] = 1..Len(block[i]) /\ Len(block[i]) \in Nat
  BY ShapeIs
<1>1. I \in SUBSET Nat /\ I # {}
  BY <1>0 DEF Keys
<1>2. PICK i \in I : \A j \in I : i <= j
  BY <1>1, LeastNumber
<1> DEFINE M == {m \in DOMAIN block[i] : block[i][m] \in {a, b}}
<1>3. M \in SUBSET Nat /\ M # {}
  <2>1. i \in DOMAIN block /\ (a \in ToSet(block[i]) \/ b \in ToSet(block[i]))
    OBVIOUS
  <2>2. \E m \in DOMAIN block[i] : block[i][m] \in {a, b}
    BY <2>1 DEF ToSet
  <2>3. QED
    BY <1>0, <2>1, <2>2
<1>4. PICK m \in M : \A n \in M : m <= n
  BY <1>3, LeastNumber
<1>5. i \in DOMAIN block /\ i \in Nat \ {0} /\ m \in DOMAIN block[i] /\ m \in Nat /\ block[i][m] \in {a, b}
  BY <1>0, <1>3
<1>6. ASSUME NEW x \in {a, b}, x # block[i][m], NEW j \in 1..i, NEW n \in DOMAIN block[j], block[j][n] = x
      PROVE  j = i /\ m < n
  <2>1. j \in DOMAIN block
    BY <1>0, <1>5
  <2>2. j \in I
    BY <1>6, <2>1 DEF ToSet
  <2>3. j = i
    BY <1>2, <1>5, <2>2
  <2>4. n \in M /\ n \in Nat /\ n # m
    BY <1>0, <1>5, <1>6, <2>3
  <2>5. QED
    BY <1>4, <1>5, <2>3, <2>4
<1> HIDE DEF I, M
<1>7. CASE block[i][m] = a
  <2>1. Earlier(block, a, b)
    BY <1>5, <1>6, <1>7 DEF Earlier
  <2>2. QED
    BY <2>1
<1>8. CASE block[i][m] = b
  <2>1. Earlier(block, b, a)
    BY <1>5, <1>6, <1>8 DEF Earlier
  <2>2. QED
    BY <2>1
<1>9. QED
  BY <1>5, <1>7, <1>8

\* How many keys of K come before one of them.
Rank(block, K, key) == Cardinality({other \in K : Earlier(block, other, key)})

\* The ranks are numbers below the number of keys, and respect the order.
LEMMA RanksCount ==
  ASSUME NEW block \in Seq(Shapes), NEW K \in SUBSET Keys(block), NEW a \in K
  PROVE  /\ Rank(block, K, a) \in Nat /\ Cardinality(K) \in Nat /\ Rank(block, K, a) < Cardinality(K)
         /\ \A b \in K : Earlier(block, a, b) => Rank(block, K, a) < Rank(block, K, b)
<1> DEFINE Before(b) == {c \in K : Earlier(block, c, b)}
<1>0. IsFiniteSet(K)
  BY KeysFinite, FS_Subset
<1>1. ASSUME NEW b \in K PROVE /\ IsFiniteSet(Before(b)) /\ Cardinality(Before(b)) \in Nat
                              /\ Cardinality(Before(b)) < Cardinality(K) /\ Cardinality(K) \in Nat
  <2>1. Before(b) \in SUBSET K /\ b \notin Before(b)
    BY EarlierStrict
  <2>2. Before(b) # K
    BY <2>1
  <2> HIDE DEF Before
  <2>3. QED
    BY <1>0, <2>1, <2>2, FS_Subset, FS_CardinalityType
<1>2. ASSUME NEW b \in K, Earlier(block, a, b) PROVE Cardinality(Before(a)) < Cardinality(Before(b))
  <2>1. Before(a) \in SUBSET Before(b) /\ a \in Before(b) /\ a \notin Before(a)
    BY <1>2, EarlierStrict
  <2>2. Before(a) # Before(b)
    BY <2>1
  <2> HIDE DEF Before
  <2>3. Cardinality(Before(a)) <= Cardinality(Before(b)) /\ Cardinality(Before(a)) # Cardinality(Before(b))
    BY <1>1, <2>1, <2>2, FS_Subset
  <2>4. QED
    BY <1>1, <2>3
<1>3. \A b \in K : Rank(block, K, b) = Cardinality(Before(b))
  BY DEF Rank
<1> HIDE DEF Before
<1>4. QED
  BY <1>1, <1>2, <1>3

\* Different keys have different ranks.
LEMMA RanksDiffer ==
  ASSUME NEW block \in Seq(Shapes), NEW K \in SUBSET Keys(block), NEW a \in K, NEW b \in K,
         Rank(block, K, a) = Rank(block, K, b)
  PROVE  a = b
<1>1. SUFFICES ASSUME a # b PROVE FALSE
  OBVIOUS
<1>2. Rank(block, K, a) \in Nat
  BY RanksCount
<1>3. Earlier(block, a, b) \/ Earlier(block, b, a)
  BY <1>1, EarlierTotal
<1>4. Rank(block, K, a) < Rank(block, K, b) \/ Rank(block, K, b) < Rank(block, K, a)
  BY <1>3, RanksCount
<1>5. QED
  BY <1>2, <1>4

\* Every rank below the number of keys is taken.
LEMMA RanksTaken ==
  ASSUME NEW block \in Seq(Shapes), NEW K \in SUBSET Keys(block), NEW k \in 0..(Cardinality(K) - 1)
  PROVE  \E a \in K : Rank(block, K, a) = k
<1> DEFINE n == Cardinality(K)
           T == 0..(n - 1)
           f == [a \in K |-> Rank(block, K, a)]
<1>0. IsFiniteSet(K)
  BY KeysFinite, FS_Subset
<1>1. n \in Nat /\ IsFiniteSet(T) /\ Cardinality(T) = n
  <2>1. n \in Nat
    BY <1>0, FS_CardinalityType
  <2> HIDE DEF n
  <2>2. n - 1 \in Int /\ 0 \in Int
    BY <2>1
  <2>3. QED
    BY <2>1, <2>2, FS_Interval
<1>2. f \in [K -> T]
  <2>1. ASSUME NEW a \in K PROVE Rank(block, K, a) \in T
    <3>1. Rank(block, K, a) \in Nat /\ Rank(block, K, a) < n
      BY RanksCount
    <3> HIDE DEF n
    <3>2. QED
      BY <1>1, <3>1
  <2>2. QED
    BY <2>1
<1>3. \A a, b \in K : f[a] = f[b] => a = b
  BY RanksDiffer
<1>4. f \in Injection(K, T)
  BY <1>2, <1>3 DEF Injection, IsInjective
<1>5. f \in Surjection(K, T)
  BY <1>1, <1>4, FS_Injection
<1>6. QED
  BY <1>5 DEF Surjection

\* A header lists the keys, each once.
LEMMA InOrderIs ==
  ASSUME NEW block \in Seq(Shapes), NEW K \in SUBSET Keys(block)
  PROVE  /\ InOrder(block, K) \in Seq(Names) /\ IsInjective(InOrder(block, K))
         /\ ToSet(InOrder(block, K)) = K
<1> DEFINE h == InOrder(block, K)
           n == Cardinality(K)
<1>1. n \in Nat /\ K \subseteq Names
  BY KeysFinite, FS_Subset, FS_CardinalityType
<1>2. h = [i \in 1..n |-> CHOOSE a \in K : Rank(block, K, a) = i - 1]
  BY DEF InOrder, Rank
<1>3. ASSUME NEW i \in 1..n PROVE h[i] \in K /\ Rank(block, K, h[i]) = i - 1
  <2>1. i - 1 \in 0..(n - 1)
    BY <1>1
  <2>2. \E a \in K : Rank(block, K, a) = i - 1
    BY <2>1, RanksTaken
  <2>3. h[i] = CHOOSE a \in K : Rank(block, K, a) = i - 1
    BY <1>2
  <2>4. QED
    BY <2>2, <2>3
<1>4. DOMAIN h = 1..n
  BY <1>2
<1> HIDE DEF h
<1>5. h \in Seq(Names)
  <2>1. h \in [1..n -> Names]
    BY <1>1, <1>2, <1>3
  <2>2. QED
    BY <1>1, <2>1
<1>6. IsInjective(h)
  BY <1>1, <1>3, <1>4 DEF IsInjective
<1>7. ASSUME NEW a \in K PROVE a \in ToSet(h)
  <2>1. Rank(block, K, a) \in Nat /\ Rank(block, K, a) < n /\ n \in Nat
    BY RanksCount
  <2> HIDE DEF n
  <2>2. Rank(block, K, a) + 1 \in 1..n /\ (Rank(block, K, a) + 1) - 1 = Rank(block, K, a)
    BY <2>1
  <2>3. h[Rank(block, K, a) + 1] \in K /\ Rank(block, K, h[Rank(block, K, a) + 1]) = Rank(block, K, a)
    BY <1>3, <2>2
  <2>4. h[Rank(block, K, a) + 1] = a
    BY <2>3, RanksDiffer
  <2>5. QED
    BY <1>4, <2>2, <2>4 DEF ToSet
<1>8. ToSet(h) \subseteq K
  BY <1>3, <1>4 DEF ToSet
<1>9. QED
  BY <1>5, <1>6, <1>7, <1>8 DEF h

-----------------------------------------------------------------------------
(* CSV files *)

\* What a write leaves: the header in memory and the file.
Written == [headers: Seq(Names), file: Files]

\* A row has a cell for every column.
LEMMA RowIs ==
  ASSUME NEW shape \in Seq(Names), NEW headers \in Seq(Names)
  PROVE  /\ Row(shape, headers) \in Seq(Cells) /\ DOMAIN Row(shape, headers) = DOMAIN headers
         /\ Len(Row(shape, headers)) = Len(headers)
<1>1. Len(headers) \in Nat /\ DOMAIN headers = 1..Len(headers) /\ Blank \in Cells
      /\ \A i \in DOMAIN headers : headers[i] \in Cells
  BY DEF Cells
<1>2. Row(shape, headers) \in [1..Len(headers) -> Cells]
  BY <1>1 DEF Row
<1>3. QED
  BY <1>1, <1>2

\* So has a row that was laid out anew.
LEMMA RelaidIs ==
  ASSUME NEW row \in Seq(Cells), NEW old \in Seq(Names), NEW new \in Seq(Names)
  PROVE  /\ Relaid(row, old, new) \in Seq(Cells) /\ DOMAIN Relaid(row, old, new) = DOMAIN new
         /\ Len(Relaid(row, old, new)) = Len(new)
<1>1. Len(new) \in Nat /\ DOMAIN new = 1..Len(new) /\ Blank \in Cells
  BY DEF Cells
<1>2. ASSUME NEW i \in DOMAIN new PROVE Relaid(row, old, new)[i] \in Cells
  <2> DEFINE P(j) == old[j] = new[i] /\ j <= Len(row)
             c == CHOOSE j \in DOMAIN old : P(j)
  <2>1. CASE \E j \in DOMAIN old : P(j)
    <3>1. c \in DOMAIN old /\ c <= Len(row)
      BY <2>1
    <3> HIDE DEF c
    <3>2. c \in 1..Len(row) /\ row[c] \in Cells
      BY <3>1
    <3>3. Relaid(row, old, new)[i] = row[c]
      BY <2>1 DEF Relaid, c
    <3>4. QED
      BY <3>2, <3>3
  <2>2. CASE ~\E j \in DOMAIN old : P(j)
    BY <1>1, <2>2 DEF Relaid
  <2>3. QED
    BY <2>1, <2>2
<1>3. Relaid(row, old, new) = [i \in 1..Len(new) |-> Relaid(row, old, new)[i]]
  BY <1>1 DEF Relaid
<1>4. QED
  BY <1>1, <1>2, <1>3

\* The types of what _ensure_raw_headers leaves.
LEMMA EnsuredIs ==
  ASSUME NEW headers \in Seq(Names), NEW file \in Files, NEW block \in Seq(Shapes)
  PROVE  EnsureRawHeaders(headers, file, block) \in Written
<1> DEFINE derived  == DeriveHeaders(block)
           expanded == headers \o Missing(headers, block)
           relaid   == [i \in DOMAIN file.rows |-> Relaid(file.rows[i], file.header, expanded)]
           e        == EnsureRawHeaders(headers, file, block)
<1>1. derived \in Seq(Names)
  BY InOrderIs DEF DeriveHeaders
<1>2. expanded \in Seq(Names)
  <2>1. Missing(headers, block) \in Seq(Names)
    <3>1. Keys(block) \ ToSet(headers) \in SUBSET Keys(block)
      OBVIOUS
    <3>2. QED
      BY <3>1, InOrderIs DEF Missing
  <2>2. QED
    BY <2>1
<1>3. relaid \in Seq(Seq(Cells))
  <2>1. file.rows \in Seq(Seq(Cells)) /\ file.header \in Seq(Names)
    BY DEF Files
  <2>2. Len(file.rows) \in Nat /\ DOMAIN file.rows = 1..Len(file.rows)
    BY <2>1
  <2>3. ASSUME NEW i \in 1..Len(file.rows) PROVE Relaid(file.rows[i], file.header, expanded) \in Seq(Cells)
    <3>1. file.rows[i] \in Seq(Cells)
      BY <2>1
    <3>2. QED
      BY <1>2, <2>1, <3>1, RelaidIs
  <2> HIDE DEF expanded
  <2>4. relaid \in [1..Len(file.rows) -> Seq(Cells)]
    BY <2>2, <2>3
  <2> HIDE DEF relaid
  <2>5. QED
    BY <2>2, <2>4
<1>4. <<>> \in Seq(Seq(Cells))
  OBVIOUS
<1>5. \/ e = [headers |-> derived, file |-> [present |-> TRUE, header |-> derived, rows |-> <<>>]]
      \/ e = [headers |-> headers, file |-> file]
      \/ e = [headers |-> expanded, file |-> [present |-> TRUE, header |-> expanded, rows |-> relaid]]
  <2>1. CASE headers = <<>>
    BY <2>1 DEF EnsureRawHeaders
  <2>2. CASE headers # <<>> /\ expanded = headers
    BY <2>2 DEF EnsureRawHeaders
  <2>3. CASE headers # <<>> /\ expanded # headers
    BY <2>3 DEF EnsureRawHeaders
  <2>4. QED
    BY <2>1, <2>2, <2>3
<1> SUFFICES e \in Written
  OBVIOUS
<1> HIDE DEF derived, expanded, relaid, e
<1>6. CASE e = [headers |-> derived, file |-> [present |-> TRUE, header |-> derived, rows |-> <<>>]]
  BY <1>1, <1>4, <1>6 DEF Written, Files
<1>7. CASE e = [headers |-> headers, file |-> file]
  BY <1>7 DEF Written, Files
<1>8. CASE e = [headers |-> expanded, file |-> [present |-> TRUE, header |-> expanded, rows |-> relaid]]
  BY <1>2, <1>3, <1>8 DEF Written, Files
<1>9. QED
  BY <1>5, <1>6, <1>7, <1>8

\* The rows of a block under a header.
RowsOf(block, headers) == [i \in DOMAIN block |-> Row(block[i], headers)]

\* They are rows of cells, one for each sample.
LEMMA RowsOfIs ==
  ASSUME NEW headers \in Seq(Names), NEW block \in Seq(Shapes)
  PROVE  /\ RowsOf(block, headers) \in Seq(Seq(Cells)) /\ Len(RowsOf(block, headers)) = Len(block)
         /\ \A i \in DOMAIN block : RowsOf(block, headers)[i] = Row(block[i], headers)
<1>1. Len(block) \in Nat /\ DOMAIN block = 1..Len(block)
  BY ShapeIs
<1>2. \A i \in 1..Len(block) : Row(block[i], headers) \in Seq(Cells)
  BY <1>1, ShapeIs, RowIs
<1>3. RowsOf(block, headers) \in [1..Len(block) -> Seq(Cells)]
  BY <1>1, <1>2 DEF RowsOf
<1>4. QED
  BY <1>1, <1>3 DEF RowsOf

\* The types of what an append leaves.
LEMMA AppendedIs ==
  ASSUME NEW ensured \in Written, NEW block \in Seq(Shapes)
  PROVE  /\ Appended(ensured, block) \in Written
         /\ Appended(ensured, block).headers = ensured.headers
         /\ Appended(ensured, block).file.header = ensured.file.header
         /\ Appended(ensured, block).file.rows = ensured.file.rows \o RowsOf(block, ensured.headers)
<1>1. /\ ensured.headers \in Seq(Names) /\ ensured.file \in Files /\ ensured.file.present \in BOOLEAN
      /\ ensured.file.header \in Seq(Names) /\ ensured.file.rows \in Seq(Seq(Cells))
      /\ ensured = [headers |-> ensured.headers, file |-> ensured.file]
      /\ ensured.file = [present |-> ensured.file.present, header |-> ensured.file.header,
                         rows |-> ensured.file.rows]
  BY DEF Written, Files
<1> DEFINE rows == ensured.file.rows \o RowsOf(block, ensured.headers)
<1>2. rows \in Seq(Seq(Cells))
  <2>1. RowsOf(block, ensured.headers) \in Seq(Seq(Cells))
    BY <1>1, RowsOfIs
  <2>2. QED
    BY <1>1, <2>1
<1>3. Appended(ensured, block) = [headers |-> ensured.headers,
         file |-> [present |-> ensured.file.present, header |-> ensured.file.header, rows |-> rows]]
  <2>1. Appended(ensured, block) = [ensured EXCEPT !.file.rows = rows]
    BY Zenon DEF Appended, RowsOf
  <2> HIDE DEF rows
  <2>2. [ensured EXCEPT !.file.rows = rows] = [ensured EXCEPT !.file = [ensured.file EXCEPT !.rows = rows]]
    BY <1>1
  <2>3. [ensured.file EXCEPT !.rows = rows] =
          [present |-> ensured.file.present, header |-> ensured.file.header, rows |-> rows]
    BY <1>1
  <2>4. QED
    BY <1>1, <2>1, <2>2, <2>3
<1> HIDE DEF rows
<1>4. /\ Appended(ensured, block) \in Written
      /\ Appended(ensured, block).headers = ensured.headers
      /\ Appended(ensured, block).file.header = ensured.file.header
      /\ Appended(ensured, block).file.rows = rows
  BY <1>1, <1>2, <1>3 DEF Written, Files
<1>5. QED
  BY <1>4 DEF rows

\* The types of what a failed write leaves.
LEMMA TornIs ==
  ASSUME NEW headers \in Seq(Names), NEW file \in Files, NEW block \in Seq(Shapes),
         NEW w \in TornWrites(headers, file, block)
  PROVE  w \in Written
<1> DEFINE ensured == EnsureRawHeaders(headers, file, block)
<1>1. ensured \in Written
  BY EnsuredIs
<1>2. \/ w = [headers |-> headers, file |-> file]
      \/ w = [headers |-> headers, file |-> [file EXCEPT !.header = <<>>, !.rows = <<>>]]
      \/ \E n \in 0..Len(ensured.file.rows) :
           w = [headers |-> headers, file |-> [ensured.file EXCEPT !.rows = SubSeq(@, 1, n)]]
      \/ \E n \in 0..(Len(block) - 1) : w = Appended(ensured, SubSeq(block, 1, n))
  BY DEF TornWrites
<1> HIDE DEF ensured
<1>3. CASE w = [headers |-> headers, file |-> file]
  BY <1>3 DEF Written
<1>4. CASE w = [headers |-> headers, file |-> [file EXCEPT !.header = <<>>, !.rows = <<>>]]
  <2>1. <<>> \in Seq(Names) /\ <<>> \in Seq(Seq(Cells))
    OBVIOUS
  <2>2. [file EXCEPT !.header = <<>>, !.rows = <<>>] \in Files
    BY <2>1 DEF Files
  <2>3. QED
    BY <1>4, <2>2 DEF Written
<1>5. ASSUME NEW n \in 0..Len(ensured.file.rows),
             w = [headers |-> headers, file |-> [ensured.file EXCEPT !.rows = SubSeq(@, 1, n)]]
      PROVE  w \in Written
  <2>1. ensured.file.rows \in Seq(Seq(Cells)) /\ ensured.file \in Files
    BY <1>1 DEF Written, Files
  <2>2. SubSeq(ensured.file.rows, 1, n) \in Seq(Seq(Cells))
    BY <2>1
  <2>3. [ensured.file EXCEPT !.rows = SubSeq(@, 1, n)] \in Files
    BY <2>1, <2>2 DEF Files
  <2>4. QED
    BY <1>5, <2>3 DEF Written
<1>6. ASSUME NEW n \in 0..(Len(block) - 1), w = Appended(ensured, SubSeq(block, 1, n))
      PROVE  w \in Written
  <2>1. SubSeq(block, 1, n) \in Seq(Shapes)
    <3>1. Len(block) \in Nat
      OBVIOUS
    <3>2. n \in 0..Len(block)
      BY <3>1
    <3>3. QED
      BY <3>1, <3>2
  <2>2. QED
    BY <1>1, <1>6, <2>1, AppendedIs
<1>7. QED
  BY <1>2, <1>3, <1>4, <1>5, <1>6

\* A file that holds these samples, one row each, under a header without a column twice.
FileOK(file, sequence) ==
  /\ IsInjective(file.header)
  /\ Len(file.rows) = Len(sequence)
  /\ \A i \in DOMAIN sequence :
       ToSet(sequence[i]) \subseteq ToSet(file.header) /\ file.rows[i] = Row(sequence[i], file.header)

\* Such a file reads back as the samples.
LEMMA FileOKHolds ==
  ASSUME NEW file \in Files, NEW sequence \in Seq(Shapes), FileOK(file, sequence)
  PROVE  Holds(file, sequence)
<1> DEFINE h == file.header
<1>1. h \in Seq(Names) /\ Len(h) \in Nat /\ DOMAIN h = 1..Len(h)
  BY DEF Files
<1>2. ASSUME NEW i \in DOMAIN sequence
      PROVE  Relaid(Row(sequence[i], h), h, h) = Row(sequence[i], h)
  <2> DEFINE row == Row(sequence[i], h)
  <2>1. row \in Seq(Cells) /\ DOMAIN row = DOMAIN h /\ Len(row) = Len(h)
    BY <1>1, ShapeIs, RowIs
  <2>2. ASSUME NEW j \in DOMAIN h PROVE Relaid(row, h, h)[j] = row[j]
    <3> DEFINE P(x) == h[x] = h[j] /\ x <= Len(row)
               c == CHOOSE x \in DOMAIN h : P(x)
    <3> HIDE DEF row
    <3>1. P(j)
      BY <1>1, <2>1
    <3>2. c \in DOMAIN h /\ h[c] = h[j]
      BY <3>1
    <3>3. c = j
      BY <3>2 DEF FileOK, IsInjective
    <3>4. Relaid(row, h, h)[j] = row[c]
      BY <3>1 DEF Relaid
    <3>5. QED
      BY <3>3, <3>4
  <2> HIDE DEF row
  <2>3. Relaid(row, h, h) = [j \in DOMAIN h |-> Relaid(row, h, h)[j]]
    BY DEF Relaid
  <2>4. row = [j \in DOMAIN h |-> row[j]]
    BY <2>1
  <2>5. Relaid(row, h, h) = row
    BY <2>2, <2>3, <2>4
  <2>6. QED
    BY <2>5 DEF row
<1>3. QED
  BY <1>2 DEF FileOK, Holds

\* The elements of a concatenation.
LEMMA ConcatIs ==
  ASSUME NEW T, NEW a \in Seq(T), NEW b \in Seq(T)
  PROVE  /\ a \o b \in Seq(T) /\ Len(a) \in Nat /\ Len(b) \in Nat /\ Len(a \o b) = Len(a) + Len(b)
         /\ DOMAIN a = 1..Len(a) /\ DOMAIN b = 1..Len(b) /\ DOMAIN (a \o b) = 1..(Len(a) + Len(b))
         /\ \A i \in 1..Len(a) : (a \o b)[i] = a[i]
         /\ \A i \in (Len(a) + 1)..(Len(a) + Len(b)) : (a \o b)[i] = b[i - Len(a)]
OBVIOUS

\* Headers that are longer by missing keys.
LEMMA ExpandedIs ==
  ASSUME NEW headers \in Seq(Names), NEW block \in Seq(Shapes), IsInjective(headers)
  PROVE  LET m == Missing(headers, block) IN
         /\ m \in Seq(Names) /\ headers \o m \in Seq(Names) /\ Len(headers \o m) = Len(headers) + Len(m)
         /\ \A i \in 1..Len(headers) : (headers \o m)[i] = headers[i]
         /\ \A i \in (Len(headers) + 1)..(Len(headers) + Len(m)) : (headers \o m)[i] \notin ToSet(headers)
         /\ IsInjective(headers \o m)
         /\ ToSet(headers \o m) = ToSet(headers) \cup Keys(block)
<1> DEFINE m == Missing(headers, block)
           x == headers \o m
           n == Len(headers)
<1>1. m \in Seq(Names) /\ IsInjective(m) /\ ToSet(m) = Keys(block) \ ToSet(headers)
  <2>1. Keys(block) \ ToSet(headers) \in SUBSET Keys(block)
    OBVIOUS
  <2>2. QED
    BY <2>1, InOrderIs DEF Missing
<1> HIDE DEF m
<1>2. x \in Seq(Names) /\ Len(x) = n + Len(m) /\ n \in Nat /\ Len(m) \in Nat
      /\ DOMAIN x = 1..(n + Len(m)) /\ DOMAIN headers = 1..n /\ DOMAIN m = 1..Len(m)
  BY <1>1
<1>3. \A i \in 1..n : x[i] = headers[i]
  BY <1>1
<1>4. \A i \in (n + 1)..(n + Len(m)) : x[i] = m[i - n] /\ i - n \in DOMAIN m
  BY <1>1, <1>2
<1>5. \A i \in 1..n : x[i] \in ToSet(headers)
  BY <1>2, <1>3 DEF ToSet
<1>6. \A i \in (n + 1)..(n + Len(m)) : x[i] \in ToSet(m) /\ x[i] \notin ToSet(headers)
  BY <1>1, <1>4 DEF ToSet
<1> HIDE DEF x, n
<1>7. \A i \in DOMAIN x : i \in 1..n \/ i \in (n + 1)..(n + Len(m))
  BY <1>2
<1>8. IsInjective(x)
  <2>1. ASSUME NEW a \in DOMAIN x, NEW b \in DOMAIN x, x[a] = x[b] PROVE a = b
    <3>1. CASE a \in 1..n /\ b \in 1..n
      <4>1. headers[a] = headers[b] /\ a \in DOMAIN headers /\ b \in DOMAIN headers
        BY <1>2, <1>3, <2>1, <3>1
      <4>2. QED
        BY <4>1 DEF IsInjective
    <3>2. CASE a \in (n + 1)..(n + Len(m)) /\ b \in (n + 1)..(n + Len(m))
      <4>1. m[a - n] = m[b - n] /\ a - n \in DOMAIN m /\ b - n \in DOMAIN m
        BY <1>4, <2>1, <3>2
      <4>2. a - n = b - n
        BY <1>1, <4>1 DEF IsInjective
      <4>3. a \in Int /\ b \in Int
        BY <3>2
      <4>4. QED
        BY <1>2, <4>2, <4>3
    <3>3. CASE a \in 1..n /\ b \in (n + 1)..(n + Len(m))
      BY <1>5, <1>6, <2>1, <3>3
    <3>4. CASE b \in 1..n /\ a \in (n + 1)..(n + Len(m))
      BY <1>5, <1>6, <2>1, <3>4
    <3>5. QED
      BY <1>7, <3>1, <3>2, <3>3, <3>4
  <2>2. QED
    BY <2>1 DEF IsInjective
<1>9. ToSet(x) = ToSet(headers) \cup ToSet(m)
  <2>1. ToSet(x) \subseteq ToSet(headers) \cup ToSet(m)
    BY <1>5, <1>6, <1>7 DEF ToSet
  <2>2. ToSet(headers) \subseteq ToSet(x)
    <3>1. \A i \in DOMAIN headers : i \in DOMAIN x /\ x[i] = headers[i]
      BY <1>2, <1>3
    <3>2. QED
      BY <3>1 DEF ToSet
  <2>3. ToSet(m) \subseteq ToSet(x)
    <3>1. ASSUME NEW j \in DOMAIN m PROVE m[j] \in ToSet(x)
      <4>1. n + j \in DOMAIN x /\ n + j \in (n + 1)..(n + Len(m)) /\ (n + j) - n = j
        BY <1>2
      <4>2. x[n + j] = m[j]
        BY <1>4, <4>1
      <4>3. QED
        BY <4>1, <4>2 DEF ToSet
    <3>2. QED
      BY <3>1 DEF ToSet
  <2>4. QED
    BY <2>1, <2>2, <2>3
<1>10. QED
  BY <1>1, <1>2, <1>3, <1>6, <1>8, <1>9 DEF x, n, m

\* A row laid out under a longer header is the sample's row under that header.
LEMMA RelaidRow ==
  ASSUME NEW old \in Seq(Names), NEW new \in Seq(Names), NEW shape \in Seq(Names), IsInjective(old),
         Len(old) <= Len(new), \A i \in 1..Len(old) : new[i] = old[i],
         \A i \in (Len(old) + 1)..Len(new) : new[i] \notin ToSet(old),
         ToSet(shape) \subseteq ToSet(old)
  PROVE  Relaid(Row(shape, old), old, new) = Row(shape, new)
<1> DEFINE row == Row(shape, old)
<1>1. Len(row) = Len(old) /\ DOMAIN old = 1..Len(old) /\ DOMAIN new = 1..Len(new)
      /\ Len(old) \in Nat /\ Len(new) \in Nat
  BY RowIs
<1>2. ASSUME NEW i \in DOMAIN old PROVE row[i] = IF old[i] \in ToSet(shape) THEN old[i] ELSE Blank
  BY DEF Row
<1> HIDE DEF row
<1>3. ASSUME NEW i \in DOMAIN new
      PROVE  Relaid(row, old, new)[i] = IF new[i] \in ToSet(shape) THEN new[i] ELSE Blank
  <2> DEFINE P(j) == old[j] = new[i] /\ j <= Len(row)
             c == CHOOSE j \in DOMAIN old : P(j)
  <2>1. Relaid(row, old, new)[i] = IF \E j \in DOMAIN old : P(j) THEN row[c] ELSE Blank
    BY DEF Relaid
  <2>2. CASE i \in 1..Len(old)
    <3>1. i \in DOMAIN old /\ P(i) /\ old[i] = new[i]
      BY <1>1, <2>2
    <3>2. c \in DOMAIN old /\ old[c] = new[i]
      BY <3>1
    <3>3. c = i
      BY <3>1, <3>2 DEF IsInjective
    <3> HIDE DEF c
    <3>4. QED
      BY <1>2, <2>1, <3>1, <3>3
  <2>3. CASE i \in (Len(old) + 1)..Len(new)
    <3>1. new[i] \notin ToSet(old)
      BY <2>3
    <3>2. ~\E j \in DOMAIN old : P(j)
      BY <3>1 DEF ToSet
    <3>3. new[i] \notin ToSet(shape)
      BY <3>1
    <3> HIDE DEF P, c
    <3>4. QED
      BY <2>1, <3>2, <3>3
  <2>4. QED
    BY <1>1, <2>2, <2>3
<1>4. Relaid(row, old, new) = [i \in DOMAIN new |-> Relaid(row, old, new)[i]]
  BY DEF Relaid
<1>5. Row(shape, new) = [i \in DOMAIN new |-> IF new[i] \in ToSet(shape) THEN new[i] ELSE Blank]
  BY DEF Row
<1>6. Relaid(row, old, new) = Row(shape, new)
  BY <1>3, <1>4, <1>5
<1>7. QED
  BY <1>6 DEF row

\* After _ensure_raw_headers the file still holds its samples, under a header
\* with every key of the block.
LEMMA EnsuredKeeps ==
  ASSUME NEW file \in Files, NEW block \in Seq(Shapes), NEW sequence \in Seq(Shapes),
         FileOK(file, sequence)
  PROVE  LET e == EnsureRawHeaders(file.header, file, block) IN
         /\ e.file.header = e.headers /\ Keys(block) \subseteq ToSet(e.headers)
         /\ FileOK(e.file, sequence)
<1> DEFINE headers  == file.header
           derived  == DeriveHeaders(block)
           expanded == headers \o Missing(headers, block)
           relaid   == [i \in DOMAIN file.rows |-> Relaid(file.rows[i], file.header, expanded)]
           e        == EnsureRawHeaders(headers, file, block)
<1> SUFFICES /\ e.file.header = e.headers /\ Keys(block) \subseteq ToSet(e.headers)
             /\ FileOK(e.file, sequence)
  OBVIOUS
<1>1. /\ headers \in Seq(Names) /\ IsInjective(headers) /\ file.rows \in Seq(Seq(Cells))
      /\ Len(file.rows) = Len(sequence)
  BY DEF FileOK, Files
<1>2. derived \in Seq(Names) /\ IsInjective(derived) /\ ToSet(derived) = Keys(block)
  BY InOrderIs DEF DeriveHeaders
<1>3. CASE headers = <<>>
  <2>1. e = [headers |-> derived, file |-> [present |-> TRUE, header |-> derived, rows |-> <<>>]]
    BY <1>3 DEF EnsureRawHeaders
  <2>2. DOMAIN sequence = {}
    <3>1. SUFFICES ASSUME NEW i \in DOMAIN sequence PROVE FALSE
      OBVIOUS
    <3>2. ToSet(sequence[i]) \subseteq ToSet(<<>>)
      BY <1>3 DEF FileOK
    <3>3. 1 \in DOMAIN sequence[i]
      BY ShapeIs
    <3>4. sequence[i][1] \in ToSet(sequence[i]) /\ ToSet(<<>>) = {}
      BY <3>3 DEF ToSet
    <3>5. QED
      BY <3>2, <3>4
  <2>3. Len(sequence) = 0
    BY <2>2
  <2> HIDE DEF e, derived
  <2>4. e.headers = derived /\ e.file.header = derived /\ e.file.rows = <<>>
    BY <2>1
  <2>5. Len(<<>>) = 0
    OBVIOUS
  <2>6. QED
    BY <1>2, <2>2, <2>3, <2>4, <2>5 DEF FileOK
<1>4. CASE headers # <<>> /\ expanded = headers
  <2>1. e = [headers |-> headers, file |-> file]
    BY <1>4 DEF EnsureRawHeaders
  <2>2. Keys(block) \subseteq ToSet(headers)
    BY <1>1, <1>4, ExpandedIs
  <2> HIDE DEF e
  <2>3. QED
    BY <2>1, <2>2
<1>5. CASE headers # <<>> /\ expanded # headers
  <2>1. e = [headers |-> expanded, file |-> [present |-> TRUE, header |-> expanded, rows |-> relaid]]
    BY <1>5 DEF EnsureRawHeaders
  <2>2. /\ expanded \in Seq(Names) /\ Len(headers) <= Len(expanded)
        /\ \A i \in 1..Len(headers) : expanded[i] = headers[i]
        /\ \A i \in (Len(headers) + 1)..Len(expanded) : expanded[i] \notin ToSet(headers)
        /\ IsInjective(expanded) /\ ToSet(expanded) = ToSet(headers) \cup Keys(block)
    <3> DEFINE m == Missing(headers, block)
    <3>1. /\ m \in Seq(Names) /\ expanded \in Seq(Names) /\ Len(expanded) = Len(headers) + Len(m)
          /\ \A i \in 1..Len(headers) : expanded[i] = headers[i]
          /\ \A i \in (Len(headers) + 1)..(Len(headers) + Len(m)) : expanded[i] \notin ToSet(headers)
          /\ IsInjective(expanded) /\ ToSet(expanded) = ToSet(headers) \cup Keys(block)
      BY <1>1, ExpandedIs
    <3> HIDE DEF expanded, m, headers
    <3>2. QED
      BY <1>1, <3>1
  <2>3. DOMAIN relaid = DOMAIN file.rows /\ DOMAIN file.rows = 1..Len(file.rows) /\ Len(file.rows) \in Nat
        /\ DOMAIN sequence = 1..Len(sequence)
    BY <1>1
  <2>4. ASSUME NEW i \in DOMAIN sequence
        PROVE  relaid[i] = Row(sequence[i], expanded) /\ ToSet(sequence[i]) \subseteq ToSet(headers)
    <3>1. i \in DOMAIN file.rows
      BY <1>1, <2>3
    <3>2. file.rows[i] = Row(sequence[i], headers) /\ ToSet(sequence[i]) \subseteq ToSet(headers)
      BY DEF FileOK
    <3>3. sequence[i] \in Seq(Names)
      BY ShapeIs
    <3>4. relaid[i] = Relaid(Row(sequence[i], headers), headers, expanded)
      BY <3>1, <3>2
    <3> HIDE DEF expanded, relaid
    <3>5. Relaid(Row(sequence[i], headers), headers, expanded) = Row(sequence[i], expanded)
      BY <1>1, <2>2, <3>2, <3>3, RelaidRow
    <3>6. QED
      BY <3>2, <3>4, <3>5
  <2>5. Len(relaid) = Len(sequence)
    <3>1. relaid = [i \in 1..Len(sequence) |-> relaid[i]]
      BY <1>1, <2>3
    <3> HIDE DEF relaid
    <3>2. QED
      BY <1>1, <2>3, <3>1
  <2> HIDE DEF expanded, relaid, e
  <2>6. e.headers = expanded /\ e.file.header = expanded /\ e.file.rows = relaid
    BY <2>1
  <2>7. FileOK(e.file, sequence)
    BY <2>2, <2>4, <2>5, <2>6 DEF FileOK
  <2>8. QED
    BY <2>2, <2>6, <2>7
<1>6. QED
  BY <1>3, <1>4, <1>5

\* A block that is written joins the samples the file holds.
LEMMA WriteKeeps ==
  ASSUME NEW file \in Files, NEW block \in Seq(Shapes), NEW sequence \in Seq(Shapes),
         FileOK(file, sequence)
  PROVE  LET w == Appended(EnsureRawHeaders(file.header, file, block), block) IN
         w \in Written /\ w.file.header = w.headers /\ FileOK(w.file, sequence \o block)
<1> DEFINE e == EnsureRawHeaders(file.header, file, block)
           w == Appended(e, block)
           all == sequence \o block
           new == RowsOf(block, e.headers)
           n == Len(sequence)
<1>1. e.file.header = e.headers /\ Keys(block) \subseteq ToSet(e.headers) /\ FileOK(e.file, sequence)
  BY EnsuredKeeps
<1>2. e \in Written
  BY EnsuredIs DEF Files
<1> HIDE DEF e
<1>3. /\ w \in Written /\ w.headers = e.headers /\ w.file.header = e.headers
      /\ w.file.rows = e.file.rows \o new
  BY <1>1, <1>2, AppendedIs
<1>4. e.headers \in Seq(Names) /\ e.file.rows \in Seq(Seq(Cells))
  BY <1>2 DEF Written, Files
<1>5. /\ new \in Seq(Seq(Cells)) /\ Len(new) = Len(block)
      /\ \A i \in DOMAIN block : new[i] = Row(block[i], e.headers)
  BY <1>4, RowsOfIs
<1>6. n \in Nat /\ Len(block) \in Nat /\ DOMAIN sequence = 1..n /\ DOMAIN block = 1..Len(block)
      /\ DOMAIN all = 1..(n + Len(block)) /\ Len(all) = n + Len(block) /\ Len(e.file.rows) = n
  BY <1>1 DEF FileOK
<1> HIDE DEF w, new
<1> DEFINE rows == e.file.rows \o new
<1>7. /\ Len(rows) = n + Len(block)
      /\ \A i \in 1..n : rows[i] = e.file.rows[i]
      /\ \A i \in (n + 1)..(n + Len(block)) : rows[i] = new[i - n]
  <2> DEFINE a == e.file.rows
             T == Seq(Cells)
  <2>1. a \in Seq(T) /\ new \in Seq(T)
    BY <1>4, <1>5
  <2>3. Len(a) = n /\ Len(new) = Len(block)
    BY <1>5, <1>6
  <2> HIDE DEF a, T
  <2>2. /\ Len(a \o new) = Len(a) + Len(new)
        /\ \A i \in 1..Len(a) : (a \o new)[i] = a[i]
        /\ \A i \in (Len(a) + 1)..(Len(a) + Len(new)) : (a \o new)[i] = new[i - Len(a)]
    BY <2>1, ConcatIs
  <2>4. QED
    BY <2>3, <2>2, Zenon DEF a
<1>8. /\ \A i \in 1..n : all[i] = sequence[i]
      /\ \A i \in (n + 1)..(n + Len(block)) : all[i] = block[i - n] /\ i - n \in DOMAIN block
  BY <1>6
<1> HIDE DEF rows
<1>9. w.file.rows = rows
  BY <1>3 DEF rows
<1>10. Len(w.file.rows) = Len(all)
  BY <1>7, <1>9, <1>6
<1>11. ASSUME NEW i \in DOMAIN all
      PROVE  ToSet(all[i]) \subseteq ToSet(e.headers) /\ w.file.rows[i] = Row(all[i], e.headers)
  <2>1. CASE i \in 1..n
    <3>1. all[i] = sequence[i] /\ w.file.rows[i] = e.file.rows[i]
      BY <1>7, <1>8, <1>9, <2>1
    <3>2. ToSet(sequence[i]) \subseteq ToSet(e.headers) /\ e.file.rows[i] = Row(sequence[i], e.headers)
      BY <1>1, <1>6, <2>1 DEF FileOK
    <3>3. QED
      BY <3>1, <3>2
  <2>2. CASE i \in (n + 1)..(n + Len(block))
    <3>1. i - n \in DOMAIN block /\ all[i] = block[i - n] /\ w.file.rows[i] = new[i - n]
      BY <1>7, <1>8, <1>9, <2>2
    <3>2. ToSet(block[i - n]) \subseteq Keys(block)
      BY <3>1 DEF Keys
    <3>3. QED
      BY <1>1, <1>5, <3>1, <3>2
  <2>3. QED
    BY <1>6, <2>1, <2>2
<1>12. IsInjective(e.headers)
  BY <1>1 DEF FileOK
<1> HIDE DEF all
<1>13. FileOK(w.file, all)
  BY <1>3, <1>10, <1>11, <1>12 DEF FileOK
<1>14. QED
  BY <1>3, <1>13 DEF w, e, all

\* A new file holds nothing, correctly.
LEMMA NewFileOK ==
  ASSUME NEW file, file.header = <<>>, file.rows = <<>>
  PROVE  FileOK(file, <<>>)
BY DEF FileOK, IsInjective

-----------------------------------------------------------------------------
(* What makes an archived directory stay gone. *)

\* Where a STOP is, and where it ends its session.
Pcs == {"settle", "join", "summary", "flushed", "detached", "joined", "archive", "remove", "report",
        "failed"}
Ending == {"detached", "joined", "archive", "remove"}

Stops   == [pc: Pcs, subjects: SUBSET Subjects, shared: BOOLEAN, partial: SUBSET Subjects,
            error: BOOLEAN, source: Places]
Blocks  == [subject: Subjects, block: Seq(Shapes) \ {<<>>}]
DrainReports == [session: 1..session, shared: BOOLEAN, drained: BOOLEAN, archived: BOOLEAN, ok: BOOLEAN]

\* The types of the state, by component.
CoreOK ==
  /\ root \in Roots /\ session \in 0..MaxSessions /\ archived \in {0, session}
  /\ phase \in {"idle", "warming", "official", "stopping"} /\ outputs \in BOOLEAN
  /\ members \in SUBSET Subjects /\ streaming \in SUBSET Subjects /\ stopping \in SUBSET Subjects
  /\ stop = NoStop \/ stop \in Stops
  /\ (stop # NoStop \/ phase = "warming") => session >= 1

SampleOK ==
  /\ data = NoData \/ data \in [subject: Subjects, shape: Shapes]
  /\ buffer \in [Subjects -> Seq(Shapes)]
  /\ entry \in [Subjects -> [path: Places, headers: Seq(Names)]]
  /\ rawq \in Seq(Blocks)
  /\ failures \in [Subjects -> Places]
  /\ computeq \in Seq(Subjects)

WritersOK ==
  /\ diag \in Places /\ diagq \in Seq(0..session) /\ sealed \in SUBSET (1..session)
  /\ pipe \in [out: Places, records: Seq(Dirs), alive: BOOLEAN]

DisksOK == disk \in [Dirs -> Trees] /\ zips \in [Dirs -> Trees]

HistoryOK ==
  /\ accepted \in [Sessions -> [Subjects -> Seq(Shapes)]]
  /\ home \in [Sessions -> [Subjects -> Places]]
  /\ ended \in [Sessions -> [Subjects -> {"no", "ok", "partial"}]]
  /\ removed \in SUBSET Dirs
  /\ reports \in SUBSET DrainReports

FilesShapes == CoreOK /\ SampleOK /\ WritersOK /\ DisksOK /\ HistoryOK

\* Only streaming subjects hold paths, and a buffer is less than a block.
PathsOK ==
  \A s \in Subjects : /\ entry[s].path # NoDir <=> s \in streaming
                      /\ entry[s].path # NoDir => entry[s].path[2] \in 1..session
                      /\ Len(buffer[s]) < Block

\* A session ends when nothing streams, and a session that warms up has not ended.
LifeOK ==
  /\ stop.pc \in Ending => streaming = {} /\ phase # "warming" /\ pipe.out = NoDir
  /\ stop.pc \in {"joined", "archive", "remove"} => pipe.records = <<>>
  /\ stop.pc \in {"archive", "remove"} => session \in sealed
  /\ stop.pc = "remove" => /\ stop.source \in Dirs /\ stop.source[2] = session
                           /\ disk[stop.source].present
  /\ phase = "warming" => session \notin sealed /\ members \cap streaming = {}
  /\ (phase = "warming" /\ stop # NoStop) => streaming \ stop.subjects # {}
  /\ (phase = "warming" /\ \E r \in reports : r.session = session) => streaming # {}

\* A removed directory is one of a sealed session; what the pipeline diagnostics
\* write to is still there.
PresentOK ==
  /\ \A d \in removed : d[2] \in sealed
  /\ \A i \in DOMAIN pipe.records : disk[pipe.records[i]].present
  /\ pipe.out # NoDir => disk[pipe.out].present

GoneInv == FilesShapes /\ PathsOK /\ LifeOK /\ PresentOK /\ ArchivedStaysGone

-----------------------------------------------------------------------------
(* The types of the state. *)

\* Directories are pairs, and none of them is NoDir.
LEMMA DirsAre ==
  /\ NoDir \notin Dirs
  /\ \A d \in Dirs : d[1] \in Roots /\ d[2] \in Sessions /\ d = <<d[1], d[2]>>
  /\ \A r \in Roots, k \in Sessions : <<r, k>> \in Dirs
  /\ \A d \in Places : d # NoDir => d \in Dirs
BY FilesAssumption DEF NoDir, Dirs, Places, Sessions

\* The sequences over a set are sequences over a larger one.
LEMMA SeqMonotone ==
  ASSUME NEW S, NEW T, S \subseteq T, NEW q \in Seq(S)
  PROVE  q \in Seq(T)
OBVIOUS

\* A sequence without its head.
LEMMA TailIs ==
  ASSUME NEW T, NEW q \in Seq(T), q # <<>>
  PROVE  /\ Head(q) \in T /\ Tail(q) \in Seq(T) /\ Len(q) \in Nat \ {0} /\ Head(q) = q[1]
         /\ DOMAIN q = 1..Len(q) /\ DOMAIN Tail(q) = 1..(Len(q) - 1) /\ Len(Tail(q)) = Len(q) - 1
         /\ \A i \in DOMAIN Tail(q) : Tail(q)[i] = q[i + 1] /\ i + 1 \in DOMAIN q
OBVIOUS

\* A sequence with one more element.
LEMMA AppendIs ==
  ASSUME NEW T, NEW q \in Seq(T), NEW e \in T
  PROVE  /\ Append(q, e) \in Seq(T) /\ Len(q) \in Nat /\ Len(Append(q, e)) = Len(q) + 1
         /\ DOMAIN q = 1..Len(q) /\ DOMAIN Append(q, e) = 1..(Len(q) + 1)
         /\ \A i \in DOMAIN q : Append(q, e)[i] = q[i]
         /\ Append(q, e)[Len(q) + 1] = e
OBVIOUS

\* SetToSeq lists the elements of a finite set, each once.
LEMMA SetToSeqIs ==
  ASSUME NEW S, IsFiniteSet(S)
  PROVE  LET n == Cardinality(S)
             q == SetToSeq(S)
         IN /\ n \in Nat /\ DOMAIN q = 1..n /\ \A i \in 1..n : q[i] \in S
            /\ \A i, j \in 1..n : q[i] = q[j] => i = j
            /\ \A x \in S : \E i \in 1..n : q[i] = x
<1> DEFINE n == Cardinality(S)
           q == SetToSeq(S)
           D == 1..n
<1>1. n \in Nat /\ ExistsBijection(D, S)
  BY FS_CardinalityType
<1>2. PICK b \in [D -> S] : IsInjective(b)
  BY <1>1, Zenon DEF ExistsBijection, Bijection, Injection
<1>3. q \in [D -> S] /\ IsInjective(q)
  BY <1>2, Zenon DEF SetToSeq
<1>4. IsFiniteSet(D) /\ Cardinality(D) = n
  <2> HIDE DEF n
  <2>1. 1 \in Int /\ n \in Int
    BY <1>1
  <2>2. QED
    BY <1>1, <2>1, FS_Interval DEF D
<1>5. q \in Injection(D, S)
  BY <1>3 DEF Injection
<1> HIDE DEF q, D
<1>6. q \in Surjection(D, S)
  BY <1>4, <1>5, FS_Injection DEF n
<1>7. \A i, j \in D : q[i] = q[j] => i = j
  BY <1>3 DEF IsInjective
<1>8. \A x \in S : \E i \in D : q[i] = x
  BY <1>6 DEF Surjection
<1>9. QED
  BY <1>1, <1>3, <1>7, <1>8 DEF q, D

\* The values that stand for nothing have their types.
LEMMA Nothings ==
  /\ NoFile \in Files /\ [NoFile EXCEPT !.present = TRUE] \in Files
  /\ NoTree \in Trees /\ [NoTree EXCEPT !.present = TRUE] \in Trees
  /\ NoStop.pc = "none" /\ NoStop.subjects = {} /\ NoStop.source = NoDir
  /\ NoDir \in Places
<1>1. NoFile \in Files /\ [NoFile EXCEPT !.present = TRUE] \in Files
  <2> DEFINE T == Seq(Cells)
  <2>1. <<>> \in Seq(Names) /\ <<>> \in Seq(T)
    <3> HIDE DEF T
    <3> QED OBVIOUS
  <2>2. QED
    BY <2>1 DEF NoFile, Files
<1>2. [s \in Subjects |-> NoFile] \in [Subjects -> Files]
  BY <1>1
<1>3. NoTree \in Trees /\ [NoTree EXCEPT !.present = TRUE] \in Trees
  BY <1>2 DEF NoTree, Trees
<1>4. QED
  BY <1>1, <1>3 DEF NoStop, Places

\* A STOP that has not ended, and one that goes on.
LEMMA Going ==
  ASSUME CoreOK, stop.pc # "none"
  PROVE  stop \in Stops /\ stop # NoStop
BY Nothings DEF CoreOK

\* Another step of a STOP under way changes nothing of it but where it is.
LEMMA StopsGo ==
  /\ \A x \in Stops : x.pc # "none" /\ x # NoStop
  /\ \A x \in Stops, pc \in Pcs :
       LET y == [x EXCEPT !.pc = pc] IN
       y \in Stops /\ y.pc = pc /\ y.subjects = x.subjects /\ y.source = x.source /\ y.shared = x.shared
<1>1. \A x \in Stops : x.pc # "none"
  BY DEF Stops, Pcs
<1>2. QED
  BY <1>1, Nothings DEF Stops

\* The same of an action that says so.
LEMMA ToIs ==
  ASSUME CoreOK, stop.pc # "none", NEW pc \in Pcs, To(pc)
  PROVE  /\ stop' \in Stops /\ stop'.pc = pc /\ stop'.subjects = stop.subjects
         /\ stop'.source = stop.source /\ stop'.shared = stop.shared /\ stop' # NoStop /\ stop # NoStop
BY Going, StopsGo DEF To

\* A STOP as it begins, by whatever way.
LEMMA Begins ==
  ASSUME NEW S \in SUBSET Subjects, NEW shared \in BOOLEAN
  PROVE  /\ [NoStop EXCEPT !.pc = "settle", !.subjects = S, !.shared = shared] \in Stops
         /\ [NoStop EXCEPT !.pc = "detached", !.subjects = S, !.error = TRUE] \in Stops
         /\ [NoStop EXCEPT !.pc = "report", !.subjects = S, !.error = TRUE] \in Stops
         /\ [NoStop EXCEPT !.pc = "detached"] \in Stops
BY Nothings DEF NoStop, Stops, Pcs

\* Every step keeps the types of Core's state and of the STOP under way.
LEMMA CoreStep == FilesShapes /\ [FilesNext]_filesVars => CoreOK'
<1> SUFFICES ASSUME FilesShapes, [FilesNext]_filesVars PROVE CoreOK'
  OBVIOUS
<1> USE DEF core, FilesShapes
<1>0. stop.pc # "none" => stop # NoStop
  BY Nothings
<1>1. CASE Snapshot \/ PipelineWrite \/ DiagnosticsWrite \/ RegisterAlgorithms \/ ResetCompute
  BY <1>1 DEF CoreOK, Snapshot, PipelineWrite, DiagnosticsWrite, RegisterAlgorithms, ResetCompute
<1>2. CASE Ingest \/ WriteBlock \/ Compute \/ QueuePerformance
  BY <1>2 DEF CoreOK, Ingest, WriteBlock, Compute, QueuePerformance
<1>3. ASSUME NEW s \in Subjects, NEW shape \in Shapes, OnData(s, shape) PROVE CoreOK'
  BY <1>3 DEF CoreOK, OnData
<1>4. CASE SetFilePath
  BY <1>4 DEF CoreOK, SetFilePath
<1>5. ASSUME NEW S \in SUBSET Subjects, Start(S) PROVE CoreOK'
  <2>1. session' \in 0..MaxSessions /\ session' >= 1 /\ stop' = stop
    BY <1>5, FilesAssumption DEF CoreOK, Start
  <2>2. QED
    BY <1>5, <2>1 DEF CoreOK, Start
<1>6. CASE Activate
  BY <1>6 DEF CoreOK, Activate
<1>7. CASE StartFails
  <2>1. stop' \in Stops
    BY <1>7, Begins DEF CoreOK, StartFails
  <2>2. QED
    BY <1>7, <2>1 DEF CoreOK, StartFails
<1>8. ASSUME NEW S \in SUBSET Subjects, NEW shared \in BOOLEAN, Stop(S, shared) PROVE CoreOK'
  <2>1. stop' \in Stops
    BY <1>8, Begins DEF Stop
  <2>2. QED
    BY <1>8, <2>1 DEF CoreOK, Stop
<1>9. CASE Flush
  <2>1. stop' \in Stops
    BY <1>9, ToIs DEF Flush, Pcs
  <2>2. QED
    BY <1>0, <1>9, <2>1 DEF CoreOK, Flush
<1>10. CASE WrittenAndClosed
  <2>1. stop \in Stops /\ RawWriteFailures(stop.subjects) \in SUBSET Subjects
    BY <1>10, Going DEF WrittenAndClosed, RawWriteFailures, Stops
  <2>2. stop' \in Stops
    BY <1>10, <2>1 DEF WrittenAndClosed, Stops, Pcs
  <2>3. streaming' \subseteq streaming
    BY <1>10 DEF WrittenAndClosed
  <2>4. QED
    BY <1>0, <1>10, <2>2, <2>3 DEF CoreOK, WrittenAndClosed
<1>11. CASE Summarise
  <2>1. stop' \in Stops
    BY <1>11, ToIs DEF Summarise, Pcs
  <2>2. QED
    BY <1>0, <1>11, <2>1 DEF CoreOK, Summarise
<1>12. CASE Detach
  <2>1. stop' \in Stops
    BY <1>12, ToIs DEF Detach, Pcs
  <2>2. QED
    BY <1>0, <1>12, <2>1 DEF CoreOK, Detach
<1>13. CASE JoinDiagnostics
  <2>1. stop' \in Stops
    BY <1>13, ToIs DEF JoinDiagnostics, Pcs
  <2>2. QED
    BY <1>0, <1>13, <2>1 DEF CoreOK, JoinDiagnostics
<1>14. CASE Seal
  <2>1. stop' \in Stops
    BY <1>14, ToIs DEF Seal, Pcs
  <2>2. QED
    BY <1>0, <1>14, <2>1 DEF CoreOK, Seal
<1>15. CASE Archive
  <2>1. stop \in Stops /\ session \in Sessions
    BY <1>15, Going DEF CoreOK, Archive, Sessions
  <2>2. CASE To("failed")
    <3>1. stop' \in Stops
      BY <1>15, <2>2, ToIs DEF Archive, Pcs
    <3>2. QED
      BY <1>0, <1>15, <3>1 DEF CoreOK, Archive
  <2>3. CASE stop' = [stop EXCEPT !.pc = "remove", !.source = Here]
    <3>1. Here \in Places
      BY <2>1, DirsAre DEF CoreOK, Here, Places
    <3>2. stop' \in Stops
      BY <2>1, <2>3, <3>1 DEF Stops, Pcs
    <3>3. QED
      BY <1>0, <1>15, <3>2 DEF CoreOK, Archive
  <2>4. QED
    BY <1>15, <2>2, <2>3 DEF Archive
<1>16. CASE RemoveDirectory
  <2>1. stop' \in Stops
    BY <1>16, ToIs DEF RemoveDirectory, Pcs
  <2>2. QED
    BY <1>0, <1>16, <2>1 DEF CoreOK, RemoveDirectory
<1>17. CASE Report \/ ReportFailure
  <2>1. stop' = NoStop /\ stopping' \subseteq stopping /\ phase' \in {phase, "idle"}
        /\ outputs' \in BOOLEAN /\ members' \in {members, {}}
        /\ UNCHANGED <<root, session, archived, streaming>>
    BY <1>17, Zenon DEF Report, ReportFailure, Finish
  <2>2. QED
    BY <2>1 DEF CoreOK
<1>18. CASE FinalizeDistributed
  <2>1. session >= 1
    BY <1>18 DEF HistoryOK, DrainReports, CoreOK, FinalizeDistributed
  <2>2. QED
    BY <1>18, <2>1, Begins DEF CoreOK, FinalizeDistributed
<1>19. CASE UNCHANGED filesVars
  BY <1>19 DEF CoreOK, filesVars
<1>20. QED
  BY <1>1, <1>2, <1>3, <1>4, <1>5, <1>6, <1>7, <1>8, <1>9, <1>10, <1>11, <1>12, <1>13, <1>14, <1>15,
     <1>16, <1>17, <1>18, <1>19 DEF FilesNext

\* Where a subject that holds a path writes.
LEMMA PathIs ==
  ASSUME FilesShapes, NEW s \in Subjects, entry[s].path # NoDir
  PROVE  /\ entry[s].path \in Dirs /\ entry[s].path[2] \in Sessions
         /\ entry[s].headers \in Seq(Names)
         /\ disk[entry[s].path] \in Trees /\ disk[entry[s].path].raw \in [Subjects -> Files]
         /\ disk[entry[s].path].raw[s] \in Files
<1>1. entry[s].path \in Dirs /\ entry[s].headers \in Seq(Names)
  BY DirsAre DEF FilesShapes, SampleOK
<1>2. QED
  BY <1>1, DirsAre DEF FilesShapes, DisksOK, Trees

\* What the writer takes from its queue.
LEMMA HeadIs ==
  ASSUME FilesShapes, rawq # <<>>
  PROVE  /\ Head(rawq).subject \in Subjects /\ Head(rawq).block \in Seq(Shapes)
         /\ Head(rawq).block # <<>> /\ Head(rawq) \in Blocks /\ Tail(rawq) \in Seq(Blocks)
<1>1. Head(rawq) \in Blocks /\ Tail(rawq) \in Seq(Blocks)
  BY TailIs DEF FilesShapes, SampleOK
<1>2. QED
  BY <1>1 DEF Blocks

\* The entries of files, open or closed.
Entries == [Subjects -> [path: Places, headers: Seq(Names)]]

\* FileManager.stop_stream leaves entries.
LEMMA ClosedIs ==
  ASSUME FilesShapes, NEW S
  PROVE  Closed(S) \in Entries
<1>1. ASSUME NEW s \in Subjects PROVE [entry[s] EXCEPT !.path = NoDir] \in [path: Places, headers: Seq(Names)]
  BY Nothings DEF FilesShapes, SampleOK
<1>2. QED
  BY <1>1 DEF Closed, Entries, FilesShapes, SampleOK

\* What a write puts into the file, and into the entry, has its types.
LEMMA PutIs ==
  ASSUME FilesShapes, rawq # <<>>,
         NEW s, s = Head(rawq).subject, NEW block, block = Head(rawq).block, NEW d, d = entry[s].path, d # NoDir,
         NEW w, \/ w = Appended(EnsureRawHeaders(entry[s].headers, disk[d].raw[s], block), block)
                \/ w \in TornWrites(entry[s].headers, disk[d].raw[s], block)
  PROVE  w \in Written /\ w.headers \in Seq(Names) /\ w.file \in Files
<1>1. s \in Subjects /\ block \in Seq(Shapes)
  BY HeadIs
<1>2. entry[s].headers \in Seq(Names) /\ disk[d].raw[s] \in Files
  BY <1>1, PathIs
<1>3. w \in Written
  <2> DEFINE ensured == EnsureRawHeaders(entry[s].headers, disk[d].raw[s], block)
  <2>1. ensured \in Written
    BY <1>1, <1>2, EnsuredIs
  <2>2. CASE w = Appended(ensured, block)
    BY <1>1, <2>1, <2>2, AppendedIs
  <2>3. CASE w \in TornWrites(entry[s].headers, disk[d].raw[s], block)
    BY <1>1, <1>2, <2>3, TornIs
  <2>4. QED
    BY <2>2, <2>3
<1>4. QED
  BY <1>3 DEF Written

\* Every step keeps the types of the sample path.
LEMMA SampleStep == FilesShapes /\ [FilesNext]_filesVars => SampleOK'
<1> SUFFICES ASSUME FilesShapes, [FilesNext]_filesVars PROVE SampleOK'
  OBVIOUS
<1> USE DEF samples
<1>0. SampleOK
  BY DEF FilesShapes
<1>1. CASE Snapshot \/ PipelineWrite \/ DiagnosticsWrite \/ SetFilePath \/ RegisterAlgorithms
  BY <1>0, <1>1 DEF SampleOK, compute, Snapshot, PipelineWrite, DiagnosticsWrite, SetFilePath,
                    RegisterAlgorithms
<1>2. CASE QueuePerformance \/ Summarise \/ Detach \/ JoinDiagnostics \/ Seal
  BY <1>0, <1>2 DEF SampleOK, compute, QueuePerformance, Summarise, Detach,
                    JoinDiagnostics, Seal
<1>3. CASE Archive \/ RemoveDirectory \/ FinalizeDistributed
  BY <1>0, <1>3 DEF SampleOK, compute, Archive, RemoveDirectory, FinalizeDistributed
<1>4. CASE Report \/ ReportFailure
  BY <1>0, <1>4 DEF SampleOK, compute, Report, ReportFailure, Finish
<1>5. ASSUME NEW S \in SUBSET Subjects, NEW shared \in BOOLEAN, Stop(S, shared) PROVE SampleOK'
  BY <1>0, <1>5 DEF SampleOK, compute, Stop
<1>6. ASSUME NEW S \in SUBSET Subjects, Start(S) PROVE SampleOK'
  BY <1>0, <1>6 DEF SampleOK, compute, Start
<1>7. CASE Activate
  <2>1. session \in Sessions /\ Here \in Places
    BY <1>7, DirsAre DEF Activate, FilesShapes, CoreOK, Sessions, Here, Places
  <2>2. [path |-> Here, headers |-> <<>>] \in [path: Places, headers: Seq(Names)]
    BY <2>1
  <2>3. entry' \in [Subjects -> [path: Places, headers: Seq(Names)]]
    BY <1>0, <1>7, <2>2 DEF Activate, StartStream, SampleOK
  <2>4. failures' \in [Subjects -> Places]
    BY <1>0, <1>7 DEF Activate, StartStream, SampleOK, Places
  <2>5. QED
    BY <1>0, <1>7, <2>3, <2>4 DEF Activate, ResetSession, SampleOK
<1>8. CASE StartFails
  <2>1. entry' \in [Subjects -> [path: Places, headers: Seq(Names)]]
    BY <1>0, <1>8, ClosedIs DEF StartFails, Entries, SampleOK
  <2>2. QED
    BY <1>0, <1>8, <2>1 DEF StartFails, compute, SampleOK
<1>9. ASSUME NEW s \in Subjects, NEW shape \in Shapes, OnData(s, shape) PROVE SampleOK'
  BY <1>0, <1>9 DEF OnData, compute, SampleOK
<1>10. CASE Ingest
  <2> DEFINE s    == data.subject
             pile == Append(buffer[s], data.shape)
             rest == SubSeq(pile, Block + 1, Len(pile))
             item == [subject |-> s, block |-> SubSeq(pile, 1, Block)]
  <2>1. s \in Subjects /\ data.shape \in Shapes
    BY <1>0, <1>10 DEF Ingest, SampleOK
  <2>2. pile \in Seq(Shapes) /\ Len(pile) \in Nat
    BY <1>0, <2>1 DEF SampleOK
  <2>3. rest \in Seq(Shapes)
    <3> HIDE DEF pile
    <3> QED BY <2>2, FilesAssumption
  <2>4. ASSUME Len(pile) >= Block PROVE item \in Blocks
    <3> HIDE DEF pile
    <3>1. SubSeq(pile, 1, Block) \in Seq(Shapes) /\ Len(SubSeq(pile, 1, Block)) = Block
      BY <2>2, <2>4, FilesAssumption
    <3>2. SubSeq(pile, 1, Block) # <<>>
      BY <3>1, FilesAssumption
    <3>3. QED
      BY <2>1, <3>1, <3>2 DEF Blocks
  <2>5. buffer' \in [Subjects -> Seq(Shapes)]
    <3>1. buffer' = [buffer EXCEPT ![s] = IF Len(pile) >= Block THEN rest ELSE pile]
      BY <1>10 DEF Ingest
    <3> HIDE DEF pile, rest
    <3>2. QED
      BY <1>0, <2>1, <2>2, <2>3, <3>1 DEF SampleOK
  <2>6. rawq' = rawq \/ (Len(pile) >= Block /\ rawq' = Append(rawq, item))
    BY <1>10 DEF Ingest, EnqueueBlock
  <2> HIDE DEF item, pile
  <2>7. rawq' \in Seq(Blocks)
    <3>1. CASE rawq' = rawq
      BY <1>0, <3>1 DEF SampleOK
    <3>2. CASE Len(pile) >= Block /\ rawq' = Append(rawq, item)
      BY <1>0, <2>4, <3>2, AppendIs DEF SampleOK
    <3>3. QED
      BY <2>6, <3>1, <3>2
  <2>8. computeq' \in Seq(Subjects)
    BY <1>0, <1>10, <2>1, AppendIs DEF Ingest, SampleOK
  <2>9. QED
    BY <1>0, <1>10, <2>5, <2>7, <2>8 DEF Ingest, SampleOK
<1>11. CASE WriteBlock
  <2> DEFINE s     == Head(rawq).subject
             block == Head(rawq).block
             d     == entry[s].path
  <2>1. rawq # <<>> /\ s \in Subjects /\ rawq' \in Seq(Blocks)
    BY <1>11, HeadIs DEF WriteBlock
  <2>2. ASSUME NEW w, d # NoDir, entry' = [entry EXCEPT ![s].headers = w.headers],
               \/ w = Appended(EnsureRawHeaders(entry[s].headers, disk[d].raw[s], block), block)
               \/ w \in TornWrites(entry[s].headers, disk[d].raw[s], block)
        PROVE  entry' \in [Subjects -> [path: Places, headers: Seq(Names)]]
    <3>1. w.headers \in Seq(Names)
      BY <2>1, <2>2, PutIs
    <3>2. QED
      BY <1>0, <2>1, <2>2, <3>1 DEF SampleOK
  <2>3. d \in Places
    BY <1>0, <2>1 DEF SampleOK
  <2>4. failures' \in [Subjects -> Places]
    BY <1>0, <1>11, <2>1, <2>3 DEF WriteBlock, SampleOK
  <2>5. entry' \in [Subjects -> [path: Places, headers: Seq(Names)]]
    BY <1>0, <1>11, <2>2, Zenon DEF WriteBlock, SampleOK
  <2>6. QED
    BY <1>0, <1>11, <2>1, <2>4, <2>5 DEF WriteBlock, compute, SampleOK
<1>12. CASE Compute
  BY <1>0, <1>12, TailIs DEF Compute, SampleOK
<1>13. CASE Flush
  <2> DEFINE tails == {s \in stop.subjects : buffer[s] # <<>> /\ entry[s].path # NoDir}
             n     == Cardinality(tails)
             new   == [i \in 1..n |-> [subject |-> SetToSeq(tails)[i], block |-> buffer[SetToSeq(tails)[i]]]]
  <2>1. stop.subjects \in SUBSET Subjects
    BY <1>13, Going DEF Flush, Stops, FilesShapes
  <2>2. n \in Nat /\ \A i \in 1..n : SetToSeq(tails)[i] \in tails
    <3>1. tails \subseteq Subjects
      BY <2>1
    <3>2. IsFiniteSet(tails)
      BY <3>1, FilesAssumption, FS_Subset
    <3> HIDE DEF tails
    <3>3. QED
      BY <3>2, SetToSeqIs
  <2>3. new \in Seq(Blocks)
    <3>1. ASSUME NEW i \in 1..n PROVE new[i] \in Blocks
      BY <1>0, <2>1, <2>2 DEF SampleOK, Blocks
    <3>2. new \in [1..n -> Blocks]
      BY <3>1
    <3> HIDE DEF new, n
    <3>3. QED
      BY <2>2, <3>2
  <2>4. rawq' \in Seq(Blocks)
    <3> HIDE DEF new
    <3> QED BY <1>0, <1>13, <2>3, ConcatIs DEF Flush, SampleOK, new
  <2>5. buffer' \in [Subjects -> Seq(Shapes)]
    BY <1>0, <1>13 DEF Flush, SampleOK
  <2>6. QED
    BY <1>0, <1>13, <2>4, <2>5 DEF Flush, compute, SampleOK
<1>14. CASE WrittenAndClosed
  <2>1. entry' \in [Subjects -> [path: Places, headers: Seq(Names)]]
    BY <1>0, <1>14, ClosedIs DEF WrittenAndClosed, Entries, SampleOK
  <2>2. QED
    BY <1>0, <1>14, <2>1 DEF WrittenAndClosed, compute, SampleOK
<1>15. CASE ResetCompute
  BY <1>0, <1>15 DEF ResetCompute, SampleOK
<1>16. CASE UNCHANGED filesVars
  BY <1>0, <1>16 DEF SampleOK, filesVars, compute
<1>17. QED
  BY <1>1, <1>2, <1>3, <1>4, <1>5, <1>6, <1>7, <1>8, <1>9, <1>10, <1>11, <1>12, <1>13, <1>14, <1>15,
     <1>16 DEF FilesNext

-----------------------------------------------------------------------------
(* What the steps do to the directories. *)

\* No directory appears or goes, and no raw file changes.
DiskKept ==
  /\ disk' \in [Dirs -> Trees]
  /\ \A d \in Dirs : disk'[d].raw = disk[d].raw /\ disk'[d].present = disk[d].present

\* start_session_diagnostics makes at most the directory of a session that is
\* not sealed, and leaves the raw files alone.
LEMMA DiagnosticsMake ==
  ASSUME FilesShapes, NEW k \in 0..MaxSessions, StartDiagnostics(k)
  PROVE  /\ diag' \in Places /\ disk' \in [Dirs -> Trees]
         /\ \A d \in Dirs : /\ disk'[d].raw = disk[d].raw
                            /\ disk[d].present => disk'[d].present
                            /\ disk'[d].present => disk[d].present \/ (d = <<root, k>> /\ k \notin sealed)
<1>1. root \in Roots /\ disk \in [Dirs -> Trees] /\ diag \in Places
  BY DEF FilesShapes, CoreOK, DisksOK, WritersOK
<1>2. CASE k = 0 \/ k \in sealed
  BY <1>1, <1>2 DEF StartDiagnostics
<1>3. CASE ~(k = 0 \/ k \in sealed)
  <2>1. <<root, k>> \in Dirs /\ <<root, k>> \in Places
    BY <1>1, <1>3, DirsAre, FilesAssumption DEF Sessions, Places
  <2>2. disk' = [disk EXCEPT ![<<root, k>>] = [disk[<<root, k>>] EXCEPT !.present = TRUE]]
    BY <1>3 DEF StartDiagnostics
  <2>3. [disk[<<root, k>>] EXCEPT !.present = TRUE] \in Trees
    BY <1>1, <2>1 DEF Trees
  <2>4. disk' \in [Dirs -> Trees]
    BY <1>1, <2>2, <2>3
  <2>5. \A d \in Dirs : d # <<root, k>> => disk'[d] = disk[d]
    BY <1>1, <2>2
  <2>6. disk'[<<root, k>>].raw = disk[<<root, k>>].raw /\ disk'[<<root, k>>].present
    BY <1>1, <2>1, <2>2 DEF Trees
  <2>7. diag' \in Places
    BY <1>1, <1>3, <2>1 DEF StartDiagnostics
  <2>8. QED
    BY <1>3, <2>4, <2>5, <2>6, <2>7
<1>4. QED
  BY <1>2, <1>3

\* The pipeline's writer makes the directory of a record.
LEMMA PipelineMakes ==
  ASSUME FilesShapes, PipelineWrite
  PROVE  /\ Head(pipe.records) \in Dirs /\ disk' \in [Dirs -> Trees]
         /\ \A d \in Dirs : /\ disk'[d].raw = disk[d].raw
                            /\ disk[d].present => disk'[d].present
                            /\ disk'[d].present => disk[d].present \/ d = Head(pipe.records)
<1> DEFINE h == Head(pipe.records)
<1>1. h \in Dirs /\ disk \in [Dirs -> Trees]
  BY TailIs DEF FilesShapes, WritersOK, DisksOK, PipelineWrite
<1>2. CASE disk' = disk
  BY <1>1, <1>2
<1>3. CASE disk' = [disk EXCEPT ![h].present = TRUE]
  <2> HIDE DEF h
  <2>1. [disk[h] EXCEPT !.present = TRUE] \in Trees
    BY <1>1 DEF Trees
  <2>2. disk' = [disk EXCEPT ![h] = [disk[h] EXCEPT !.present = TRUE]]
    BY <1>3
  <2>3. disk' \in [Dirs -> Trees] /\ \A d \in Dirs : d # h => disk'[d] = disk[d]
    BY <1>1, <2>1, <2>2
  <2>4. disk'[h].raw = disk[h].raw /\ disk'[h].present
    BY <1>1, <2>2 DEF Trees
  <2>5. QED
    BY <1>1, <2>3, <2>4 DEF h
<1>4. QED
  BY <1>2, <1>3 DEF PipelineWrite

\* An intermediate result needs its directory and is no raw file.
LEMMA ComputeKeeps ==
  ASSUME FilesShapes, Compute
  PROVE  DiskKept
<1>1. disk \in [Dirs -> Trees]
  BY DEF FilesShapes, DisksOK
<1>2. CASE disk' = disk
  BY <1>1, <1>2 DEF DiskKept
<1>3. CASE disk' # disk
  <2> DEFINE s == Head(computeq)
             d == entry[s].path
  <2>1. s \in Subjects
    BY <1>3, TailIs DEF Compute, FilesShapes, SampleOK
  <2>2. d # NoDir /\ disk' = [disk EXCEPT ![d].inter = @ \cup {s}]
    BY <1>3 DEF Compute, WriteIntermediate
  <2>3. d \in Dirs
    BY <2>1, <2>2, PathIs
  <2> HIDE DEF d, s
  <2>4. [disk[d] EXCEPT !.inter = @ \cup {s}] \in Trees
    BY <1>1, <2>1, <2>3 DEF Trees
  <2>5. disk' = [disk EXCEPT ![d] = [disk[d] EXCEPT !.inter = @ \cup {s}]]
    BY <2>2
  <2>6. disk' \in [Dirs -> Trees] /\ \A e \in Dirs : e # d => disk'[e] = disk[e]
    BY <1>1, <2>4, <2>5
  <2>7. disk'[d].raw = disk[d].raw /\ disk'[d].present = disk[d].present
    BY <1>1, <2>3, <2>5 DEF Trees
  <2>8. QED
    BY <2>6, <2>7 DEF DiskKept
<1>4. QED
  BY <1>2, <1>3

\* Neither consolidation nor a marker touches a raw file.
LEMMA ClosingKeeps ==
  ASSUME FilesShapes, WrittenAndClosed
  PROVE  DiskKept
<1> DEFINE S  == stop.subjects
           P  == RawWriteFailures(S)
           dk == Consolidated(disk, S)
           C(d) == {s \in S : entry[s].path = d /\ s \in disk[d].inter /\ stages}
           M(d) == {s \in P : failures[s] = d}
<1>1. disk \in [Dirs -> Trees] /\ S \in SUBSET Subjects /\ P \in SUBSET Subjects
  BY Going DEF FilesShapes, DisksOK, WrittenAndClosed, Stops, RawWriteFailures
<1>2. \A d \in Dirs : C(d) \in SUBSET Subjects /\ M(d) \in SUBSET Subjects
  BY <1>1
<1>3. dk = [d \in Dirs |-> [disk[d] EXCEPT !.cons = @ \cup C(d)]]
  BY DEF Consolidated
<1>4. MarkPartial(dk, P) = [d \in Dirs |-> [dk[d] EXCEPT !.marked = @ \cup M(d)]]
  BY DEF MarkPartial
<1>5. disk' = dk \/ disk' = MarkPartial(dk, P)
  BY Zenon DEF WrittenAndClosed
<1> HIDE DEF C, M, dk
<1>6. ASSUME NEW d \in Dirs
      PROVE dk[d] \in Trees /\ dk[d].raw = disk[d].raw /\ dk[d].present = disk[d].present
  BY <1>1, <1>2, <1>3 DEF Trees
<1>7. ASSUME NEW d \in Dirs
      PROVE LET t == [dk[d] EXCEPT !.marked = @ \cup M(d)] IN
            t \in Trees /\ t.raw = disk[d].raw /\ t.present = disk[d].present
  BY <1>2, <1>6 DEF Trees
<1>8. CASE disk' = dk
  BY <1>3, <1>6, <1>8 DEF DiskKept
<1>9. CASE disk' = MarkPartial(dk, P)
  BY <1>4, <1>7, <1>9 DEF DiskKept
<1>10. QED
  BY <1>5, <1>8, <1>9

\* The files of a session that becomes official.
LEMMA ActivateMakes ==
  ASSUME FilesShapes, Activate
  PROVE  /\ session \in Sessions /\ Here \in Dirs /\ Here # NoDir /\ Here[2] = session
         /\ disk' \in [Dirs -> Trees]
         /\ \A d \in Dirs : d # Here => disk'[d] = disk[d]
         /\ disk'[Here].present
         /\ \A s \in Subjects : disk'[Here].raw[s] = IF s \in members THEN [NoFile EXCEPT !.present = TRUE]
                                                     ELSE disk[Here].raw[s]
<1> DEFINE new == [s \in Subjects |-> IF s \in members THEN [NoFile EXCEPT !.present = TRUE]
                                      ELSE disk[Here].raw[s]]
<1>1. disk \in [Dirs -> Trees] /\ root \in Roots /\ session \in Sessions
  BY DEF FilesShapes, DisksOK, CoreOK, Activate, Sessions
<1>2. Here \in Dirs /\ Here # NoDir /\ Here[2] = session
  BY <1>1, DirsAre DEF Here
<1>3. disk[Here] \in Trees /\ disk[Here].raw \in [Subjects -> Files]
  BY <1>1, <1>2 DEF Trees
<1>4. new \in [Subjects -> Files]
  BY <1>3, Nothings
<1>5. disk' = [disk EXCEPT ![Here] = [disk[Here] EXCEPT !.present = TRUE, !.raw = new]]
  BY <1>1, <1>2, <1>3 DEF Activate, StartStream
<1> DEFINE h == Here
<1>6. h = Here
  OBVIOUS
<1> HIDE DEF new, h
<1>7. [disk[h] EXCEPT !.present = TRUE, !.raw = new] \in Trees
  BY <1>3, <1>4, <1>6 DEF Trees
<1>8. disk' \in [Dirs -> Trees] /\ \A d \in Dirs : d # h => disk'[d] = disk[d]
  BY <1>1, <1>5, <1>6, <1>7
<1>9. disk'[h].present /\ disk'[h].raw = new
  BY <1>1, <1>2, <1>3, <1>5, <1>6 DEF Trees
<1>10. QED
  BY <1>1, <1>2, <1>6, <1>8, <1>9 DEF new

\* A write changes one file and the headers of its entry.
PutInto(d, s, w) ==
  /\ disk' \in [Dirs -> Trees]
  /\ \A e \in Dirs : disk'[e].present = disk[e].present
  /\ \A e \in Dirs, t \in Subjects :
       disk'[e].raw[t] = IF e = d /\ t = s THEN w.file ELSE disk[e].raw[t]
  /\ \A t \in Subjects :
       /\ entry'[t].path = entry[t].path
       /\ entry'[t].headers = IF t = s THEN w.headers ELSE entry[t].headers

\* It is what the assignments of write_block do.
LEMMA PutChanges ==
  ASSUME FilesShapes, NEW s \in Subjects, NEW d \in Dirs, NEW w \in Written,
         entry' = [entry EXCEPT ![s].headers = w.headers],
         disk' = [disk EXCEPT ![d].raw[s] = w.file]
  PROVE  PutInto(d, s, w)
<1>1. disk \in [Dirs -> Trees] /\ entry \in [Subjects -> [path: Places, headers: Seq(Names)]]
  BY DEF FilesShapes, DisksOK, SampleOK
<1>2. disk[d] \in Trees /\ disk[d].raw \in [Subjects -> Files] /\ w.file \in Files
  BY <1>1 DEF Trees, Written
<1> DEFINE raw == [disk[d].raw EXCEPT ![s] = w.file]
<1>3. raw \in [Subjects -> Files] /\ \A t \in Subjects : raw[t] = IF t = s THEN w.file ELSE disk[d].raw[t]
  BY <1>2
<1>4. disk' = [disk EXCEPT ![d] = [disk[d] EXCEPT !.raw = raw]]
  BY <1>1, <1>2
<1> HIDE DEF raw
<1>5. [disk[d] EXCEPT !.raw = raw] \in Trees /\ [disk[d] EXCEPT !.raw = raw].raw = raw
      /\ [disk[d] EXCEPT !.raw = raw].present = disk[d].present
  BY <1>2, <1>3 DEF Trees
<1>6. disk' \in [Dirs -> Trees] /\ \A e \in Dirs : e # d => disk'[e] = disk[e]
  BY <1>1, <1>4, <1>5
<1>7. disk'[d].raw = raw /\ disk'[d].present = disk[d].present
  BY <1>1, <1>4, <1>5
<1>8. \A t \in Subjects : /\ entry'[t].path = entry[t].path
                          /\ entry'[t].headers = IF t = s THEN w.headers ELSE entry[t].headers
  BY <1>1
<1>9. QED
  BY <1>3, <1>6, <1>7, <1>8 DEF PutInto

\* The writer takes a block: it drops it, writes it, or fails and records that.
LEMMA WriteBlockIs ==
  ASSUME FilesShapes, WriteBlock
  PROVE  LET s     == Head(rawq).subject
             block == Head(rawq).block
             d     == entry[s].path
             w     == Appended(EnsureRawHeaders(entry[s].headers, disk[d].raw[s], block), block)
         IN \/ d = NoDir /\ UNCHANGED <<entry, disk, failures>>
            \/ d \in Dirs /\ disk[d].present /\ PutInto(d, s, w) /\ failures' = failures
            \/ /\ d \in Dirs /\ failures' = [failures EXCEPT ![s] = IF @ = NoDir THEN d ELSE @]
               /\ \/ UNCHANGED <<entry, disk>>
                  \/ \E x \in Written : PutInto(d, s, x)
<1> DEFINE s     == Head(rawq).subject
           block == Head(rawq).block
           d     == entry[s].path
           w     == Appended(EnsureRawHeaders(entry[s].headers, disk[d].raw[s], block), block)
           Puts(x) == /\ entry' = [entry EXCEPT ![s].headers = x.headers]
                      /\ disk' = [disk EXCEPT ![d].raw[s] = x.file]
           Blame == failures' = [failures EXCEPT ![s] = IF @ = NoDir THEN d ELSE @]
<1>1. rawq # <<>> /\ s \in Subjects
  BY HeadIs DEF WriteBlock
<1>2. d # NoDir => d \in Dirs
  BY <1>1, PathIs
<1>3. \/ d = NoDir /\ UNCHANGED <<entry, disk, failures>>
      \/ d # NoDir /\ disk[d].present /\ Puts(w) /\ failures' = failures
      \/ d # NoDir /\ Blame /\ UNCHANGED <<entry, disk>>
      \/ d # NoDir /\ Blame /\ \E x \in TornWrites(entry[s].headers, disk[d].raw[s], block) : Puts(x)
  BY Zenon DEF WriteBlock
<1>4. ASSUME d # NoDir, NEW x, Puts(x),
             \/ x = w
             \/ x \in TornWrites(entry[s].headers, disk[d].raw[s], block)
      PROVE  x \in Written /\ PutInto(d, s, x)
  <2>1. x \in Written
    BY <1>1, <1>4, PutIs
  <2>2. QED
    BY <1>1, <1>2, <1>4, <2>1, PutChanges
<1> HIDE DEF s, block, d, w, Puts, Blame
<1>5. \/ d = NoDir /\ UNCHANGED <<entry, disk, failures>>
      \/ d \in Dirs /\ disk[d].present /\ PutInto(d, s, w) /\ failures' = failures
      \/ /\ d \in Dirs /\ Blame
         /\ \/ UNCHANGED <<entry, disk>>
            \/ \E x \in Written : PutInto(d, s, x)
  BY <1>2, <1>3, <1>4, Zenon
<1>6. QED
  BY <1>5, Zenon DEF s, block, d, w, Blame

\* Every step keeps the types of the disks.
LEMMA DisksStep == FilesShapes /\ [FilesNext]_filesVars => DisksOK'
<1> SUFFICES ASSUME FilesShapes, [FilesNext]_filesVars PROVE DisksOK'
  OBVIOUS
<1> USE DEF disks
<1>0. DisksOK
  BY DEF FilesShapes
<1>1. CASE Snapshot \/ SetFilePath \/ RegisterAlgorithms \/ ResetCompute \/ Ingest \/ QueuePerformance
  BY <1>0, <1>1 DEF DisksOK, Snapshot, SetFilePath, RegisterAlgorithms, ResetCompute, Ingest,
                    QueuePerformance
<1>2. CASE Flush \/ Detach \/ JoinDiagnostics \/ Seal \/ Report \/ FinalizeDistributed
  BY <1>0, <1>2 DEF DisksOK, Flush, Detach, JoinDiagnostics, Seal, Report, Finish, FinalizeDistributed
<1>3. ASSUME NEW S \in SUBSET Subjects, NEW shared \in BOOLEAN, Stop(S, shared) PROVE DisksOK'
  BY <1>0, <1>3 DEF DisksOK, Stop
<1>4. ASSUME NEW s \in Subjects, NEW shape \in Shapes, OnData(s, shape) PROVE DisksOK'
  BY <1>0, <1>4 DEF DisksOK, OnData
<1>5. CASE PipelineWrite
  BY <1>0, <1>5, PipelineMakes DEF DisksOK, PipelineWrite
<1>6. CASE DiagnosticsWrite
  <2>1. Head(diagq) \in 0..MaxSessions
    BY <1>6, TailIs, FilesAssumption DEF FilesShapes, WritersOK, CoreOK, DiagnosticsWrite
  <2>2. QED
    BY <1>0, <1>6, <2>1, DiagnosticsMake DEF DisksOK, DiagnosticsWrite
<1>7. ASSUME NEW S \in SUBSET Subjects, Start(S) PROVE DisksOK'
  <2>1. session + 1 \in 0..MaxSessions
    BY <1>7, FilesAssumption DEF FilesShapes, CoreOK, Start
  <2>2. QED
    BY <1>0, <1>7, <2>1, DiagnosticsMake DEF DisksOK, Start
<1>8. CASE Summarise \/ ReportFailure \/ StartFails
  <2>1. session \in 0..MaxSessions
    BY DEF FilesShapes, CoreOK
  <2>2. StartDiagnostics(session) /\ zips' = zips
    BY <1>8 DEF Summarise, ReportFailure, StartFails, Finish
  <2>3. QED
    BY <1>0, <2>1, <2>2, DiagnosticsMake DEF DisksOK
<1>9. CASE Activate
  BY <1>0, <1>9, ActivateMakes DEF DisksOK, Activate
<1>10. CASE WriteBlock
  BY <1>0, <1>10, WriteBlockIs DEF DisksOK, WriteBlock, PutInto
<1>11. CASE Compute
  BY <1>0, <1>11, ComputeKeeps DEF DisksOK, DiskKept, Compute
<1>12. CASE WrittenAndClosed
  BY <1>0, <1>12, ClosingKeeps DEF DisksOK, DiskKept, WrittenAndClosed
<1>13. CASE Archive
  <2>1. zips' \in [Dirs -> Trees]
    BY <1>0, <1>13, Nothings DEF DisksOK, Archive
  <2>2. QED
    BY <1>0, <1>13, <2>1 DEF DisksOK, Archive
<1>14. CASE RemoveDirectory
  BY <1>0, <1>14, Nothings DEF DisksOK, RemoveDirectory
<1>15. CASE UNCHANGED filesVars
  BY <1>0, <1>15 DEF DisksOK, filesVars
<1>16. QED
  BY <1>1, <1>2, <1>3, <1>4, <1>5, <1>6, <1>7, <1>8, <1>9, <1>10, <1>11, <1>12, <1>13, <1>14, <1>15
     DEF FilesNext

\* Recorded queues at most a record of the directory that is attached.
LEMMA RecordedIs ==
  ASSUME NEW p \in [out: Places, records: Seq(Dirs), alive: BOOLEAN]
  PROVE  /\ Recorded(p) \in [out: Places, records: Seq(Dirs), alive: BOOLEAN]
         /\ Recorded(p).out = p.out
         /\ p.out = NoDir => Recorded(p) = p
         /\ \A i \in DOMAIN Recorded(p).records :
              (i \in DOMAIN p.records /\ Recorded(p).records[i] = p.records[i])
              \/ (p.out # NoDir /\ Recorded(p).records[i] = p.out)
<1>1. CASE Recorded(p) = p
  BY <1>1
<1>2. CASE p.out # NoDir /\ Recorded(p) = [p EXCEPT !.records = Append(@, p.out)]
  <2>1. p.out \in Dirs /\ p.records \in Seq(Dirs)
    BY <1>2, DirsAre
  <2> DEFINE r == Append(p.records, p.out)
  <2>2. r \in Seq(Dirs) /\ \A i \in DOMAIN r : (i \in DOMAIN p.records /\ r[i] = p.records[i]) \/ r[i] = p.out
    <3>1. DOMAIN r = 1..(Len(p.records) + 1) /\ DOMAIN p.records = 1..Len(p.records) /\ Len(p.records) \in Nat
      BY <2>1, AppendIs
    <3>2. QED
      BY <2>1, <3>1, AppendIs
  <2> HIDE DEF r
  <2>3. Recorded(p) = [p EXCEPT !.records = r]
    BY <1>2 DEF r
  <2>4. QED
    BY <1>2, <2>2, <2>3
<1>3. QED
  BY <1>1, <1>2 DEF Recorded

\* Every step keeps the types of the diagnostics.
LEMMA WritersStep == FilesShapes /\ [FilesNext]_filesVars => WritersOK'
<1> SUFFICES ASSUME FilesShapes, [FilesNext]_filesVars PROVE WritersOK'
  OBVIOUS
<1> USE DEF diags, core
<1>0. WritersOK /\ session \in 0..MaxSessions /\ CoreOK
  BY DEF FilesShapes, CoreOK
<1>1. CASE SetFilePath \/ RegisterAlgorithms \/ ResetCompute \/ Ingest \/ WriteBlock \/ Compute
  BY <1>0, <1>1 DEF WritersOK, SetFilePath, RegisterAlgorithms, ResetCompute, Ingest, WriteBlock, Compute
<1>2. CASE Flush \/ JoinDiagnostics \/ Archive \/ RemoveDirectory \/ Report
  BY <1>0, <1>2 DEF WritersOK, Flush, JoinDiagnostics, Archive, RemoveDirectory, Report, Finish
<1>3. ASSUME NEW S \in SUBSET Subjects, NEW shared \in BOOLEAN, Stop(S, shared) PROVE WritersOK'
  BY <1>0, <1>3 DEF WritersOK, Stop
<1>4. ASSUME NEW s \in Subjects, NEW shape \in Shapes, OnData(s, shape) PROVE WritersOK'
  BY <1>0, <1>4 DEF WritersOK, OnData
<1>5. CASE Snapshot
  BY <1>0, <1>5, RecordedIs DEF WritersOK, Snapshot
<1>6. CASE PipelineWrite
  <2>1. Tail(pipe.records) \in Seq(Dirs)
    BY <1>0, <1>6, TailIs DEF WritersOK, PipelineWrite
  <2>2. QED
    BY <1>0, <1>6, <2>1 DEF WritersOK, PipelineWrite
<1>7. CASE DiagnosticsWrite
  <2>1. Head(diagq) \in 0..MaxSessions /\ Tail(diagq) \in Seq(0..session)
    BY <1>0, <1>7, TailIs, FilesAssumption DEF WritersOK, DiagnosticsWrite
  <2>2. QED
    BY <1>0, <1>7, <2>1, DiagnosticsMake DEF WritersOK, DiagnosticsWrite
<1>8. ASSUME NEW S \in SUBSET Subjects, Start(S) PROVE WritersOK'
  <2>1. session + 1 \in 0..MaxSessions /\ session' = session + 1
    BY <1>0, <1>8, FilesAssumption DEF Start
  <2>2. 0..session \subseteq 0..session' /\ 1..session \subseteq 1..session'
    BY <1>0, <2>1
  <2>3. diagq' \in Seq(0..session') /\ sealed' \in SUBSET (1..session')
    BY <1>0, <1>8, <2>2, SeqMonotone DEF WritersOK, Start
  <2>4. QED
    BY <1>0, <1>8, <2>1, <2>3, DiagnosticsMake DEF WritersOK, Start
<1>9. CASE Activate
  <2>1. Here \in Places
    BY <1>9, ActivateMakes DEF Places
  <2>2. [pipe EXCEPT !.out = Here] \in [out: Places, records: Seq(Dirs), alive: BOOLEAN]
    BY <1>0, <2>1 DEF WritersOK
  <2>3. pipe' \in [out: Places, records: Seq(Dirs), alive: BOOLEAN]
    BY <1>0, <1>9, <2>2, RecordedIs DEF WritersOK, Activate, Attached
  <2>4. QED
    BY <1>0, <1>9, <2>3 DEF WritersOK, Activate
<1>10. CASE Summarise \/ ReportFailure \/ StartFails
  <2>1. StartDiagnostics(session) /\ UNCHANGED <<diagq, sealed, session>>
    BY <1>10 DEF Summarise, ReportFailure, StartFails, Finish
  <2>2. pipe' \in {pipe, Recorded(pipe), [pipe EXCEPT !.out = NoDir]}
    BY <1>10 DEF Summarise, ReportFailure, StartFails, Finish
  <2>3. pipe' \in [out: Places, records: Seq(Dirs), alive: BOOLEAN]
    BY <1>0, <2>2, RecordedIs, Nothings DEF WritersOK
  <2>4. QED
    BY <1>0, <2>1, <2>3, DiagnosticsMake DEF WritersOK
<1>11. CASE QueuePerformance
  <2>1. diagq' \in Seq(0..session)
    BY <1>0, <1>11, AppendIs DEF WritersOK, QueuePerformance
  <2>2. QED
    BY <1>0, <1>11, <2>1 DEF WritersOK, QueuePerformance
<1>12. CASE WrittenAndClosed
  BY <1>0, <1>12, RecordedIs DEF WritersOK, WrittenAndClosed
<1>13. CASE Detach
  BY <1>0, <1>13, Nothings DEF WritersOK, Detach
<1>14. CASE FinalizeDistributed
  BY <1>0, <1>14, Nothings DEF WritersOK, FinalizeDistributed
<1>15. CASE Seal
  <2>1. session \in 1..session
    BY <1>0, <1>15, Nothings DEF CoreOK, Seal
  <2>2. QED
    BY <1>0, <1>15, <2>1, Nothings DEF WritersOK, Seal
<1>16. CASE UNCHANGED filesVars
  BY <1>0, <1>16 DEF WritersOK, filesVars
<1>17. QED
  BY <1>1, <1>2, <1>3, <1>4, <1>5, <1>6, <1>7, <1>8, <1>9, <1>10, <1>11, <1>12, <1>13, <1>14, <1>15,
     <1>16 DEF FilesNext

\* What a STOP reports of its subjects.
LEMMA EndsIs ==
  ASSUME FilesShapes, NEW S, NEW partial, Ends(S, partial)
  PROVE  /\ ended' \in [Sessions -> [Subjects -> {"no", "ok", "partial"}]]
         /\ \A k \in Sessions, s \in Subjects :
              ended'[k][s] = IF s \in S /\ entry[s].path # NoDir /\ entry[s].path[2] = k
                             THEN IF s \in partial THEN "partial" ELSE "ok"
                             ELSE ended[k][s]
<1>1. ended \in [Sessions -> [Subjects -> {"no", "ok", "partial"}]]
  BY DEF FilesShapes, HistoryOK
<1> DEFINE new == [k \in Sessions |-> [s \in Subjects |->
              IF s \in S /\ entry[s].path # NoDir /\ entry[s].path[2] = k
              THEN IF s \in partial THEN "partial" ELSE "ok"
              ELSE ended[k][s]]]
<1>2. ended' = new
  BY DEF Ends
<1>3. \A k \in Sessions, s \in Subjects : new[k][s] \in {"no", "ok", "partial"}
  BY <1>1
<1>4. new \in [Sessions -> [Subjects -> {"no", "ok", "partial"}]]
  BY <1>3
<1>5. QED
  BY <1>2, <1>4

\* The samples that are accepted, and the directories that are opened.
LEMMA AcceptedIs ==
  ASSUME FilesShapes, PathsOK, NEW s \in Subjects, NEW shape \in Shapes, OnData(s, shape)
  PROVE  LET j == entry[s].path[2] IN
         /\ entry[s].path \in Dirs /\ j \in Sessions
         /\ accepted' \in [Sessions -> [Subjects -> Seq(Shapes)]]
         /\ \A k \in Sessions, t \in Subjects :
              accepted'[k][t] = IF k = j /\ t = s THEN Append(accepted[k][t], shape) ELSE accepted[k][t]
<1> DEFINE j == entry[s].path[2]
           q == Append(accepted[j][s], shape)
           f == [accepted[j] EXCEPT ![s] = q]
<1>1. accepted \in [Sessions -> [Subjects -> Seq(Shapes)]]
  BY DEF FilesShapes, HistoryOK
<1>2. entry[s].path \in Dirs /\ j \in Sessions
  BY PathIs DEF OnData, PathsOK
<1>3. q \in Seq(Shapes)
  BY <1>1, <1>2
<1>4. accepted' = [accepted EXCEPT ![j] = f]
  BY <1>1, <1>2 DEF OnData
<1> HIDE DEF q, j
<1>5. f \in [Subjects -> Seq(Shapes)] /\ \A t \in Subjects : f[t] = IF t = s THEN q ELSE accepted[j][t]
  BY <1>1, <1>2, <1>3
<1> HIDE DEF f
<1>6. accepted' \in [Sessions -> [Subjects -> Seq(Shapes)]]
  BY <1>1, <1>2, <1>4, <1>5
<1>7. \A k \in Sessions : accepted'[k] = IF k = j THEN f ELSE accepted[k]
  BY <1>1, <1>4
<1>8. QED
  BY <1>2, <1>5, <1>6, <1>7 DEF q, j

\* An activation opens the files of its subjects in the directory of the session.
LEMMA HomeIs ==
  ASSUME FilesShapes, Activate
  PROVE  /\ home' \in [Sessions -> [Subjects -> Places]]
         /\ \A k \in Sessions, s \in Subjects :
              home'[k][s] = IF k = session /\ s \in members THEN Here ELSE home[k][s]
<1>1. home \in [Sessions -> [Subjects -> Places]] /\ session \in Sessions /\ Here \in Places
  BY ActivateMakes DEF FilesShapes, HistoryOK, Places
<1> DEFINE f == [s \in Subjects |-> IF s \in members THEN Here ELSE home[session][s]]
<1>2. home' = [home EXCEPT ![session] = f]
  BY <1>1 DEF Activate
<1>3. f \in [Subjects -> Places]
  BY <1>1
<1>4. \A k \in Sessions : home'[k] = IF k = session THEN f ELSE home[k]
  BY <1>1, <1>2
<1>5. home' \in [Sessions -> [Subjects -> Places]]
  BY <1>1, <1>2, <1>3
<1>6. QED
  BY <1>4, <1>5

\* Every step keeps the types of the history.
LEMMA HistoryStep == FilesShapes /\ PathsOK /\ LifeOK /\ [FilesNext]_filesVars => HistoryOK'
<1> SUFFICES ASSUME FilesShapes, PathsOK, LifeOK, [FilesNext]_filesVars PROVE HistoryOK'
  OBVIOUS
<1> USE DEF history, core
<1>0. HistoryOK /\ session \in 0..MaxSessions /\ CoreOK
  BY DEF FilesShapes, CoreOK
<1>1. CASE Snapshot \/ PipelineWrite \/ DiagnosticsWrite \/ SetFilePath \/ RegisterAlgorithms
  BY <1>0, <1>1 DEF HistoryOK, DrainReports, Snapshot, PipelineWrite, DiagnosticsWrite, SetFilePath,
                    RegisterAlgorithms
<1>2. CASE ResetCompute \/ Ingest \/ WriteBlock \/ Compute \/ QueuePerformance \/ Flush
  BY <1>0, <1>2 DEF HistoryOK, DrainReports, ResetCompute, Ingest, WriteBlock, Compute,
                    QueuePerformance, Flush
<1>3. CASE Summarise \/ Detach \/ JoinDiagnostics \/ Seal \/ Archive \/ FinalizeDistributed
  BY <1>0, <1>3 DEF HistoryOK, DrainReports, Summarise, Detach, JoinDiagnostics, Seal, Archive,
                    FinalizeDistributed
<1>4. ASSUME NEW S \in SUBSET Subjects, NEW shared \in BOOLEAN, Stop(S, shared) PROVE HistoryOK'
  BY <1>0, <1>4 DEF HistoryOK, DrainReports, Stop
<1>5. ASSUME NEW S \in SUBSET Subjects, Start(S) PROVE HistoryOK'
  <2>1. session' = session + 1 /\ 1..session \subseteq 1..session'
    BY <1>0, <1>5 DEF Start
  <2>2. DrainReports \subseteq DrainReports'
    BY <2>1 DEF DrainReports
  <2>3. reports' \in SUBSET DrainReports'
    BY <1>0, <1>5, <2>2 DEF HistoryOK, Start
  <2>4. QED
    BY <1>0, <1>5, <2>3 DEF HistoryOK, Start
<1>6. CASE Activate
  BY <1>0, <1>6, HomeIs DEF HistoryOK, DrainReports, Activate
<1>7. CASE StartFails
  BY <1>0, <1>7, EndsIs DEF HistoryOK, DrainReports, StartFails
<1>8. ASSUME NEW s \in Subjects, NEW shape \in Shapes, OnData(s, shape) PROVE HistoryOK'
  BY <1>0, <1>8, AcceptedIs DEF HistoryOK, DrainReports, OnData
<1>9. CASE WrittenAndClosed
  <2>1. ended' \in [Sessions -> [Subjects -> {"no", "ok", "partial"}]]
    <3>1. CASE Ends(stop.subjects, RawWriteFailures(stop.subjects))
      BY <3>1, EndsIs
    <3>2. CASE ended' = ended
      BY <1>0, <3>2 DEF HistoryOK
    <3>3. QED
      BY <1>9, <3>1, <3>2, Zenon DEF WrittenAndClosed
  <2>2. QED
    BY <1>0, <1>9, <2>1 DEF HistoryOK, DrainReports, WrittenAndClosed
<1>10. CASE RemoveDirectory
  BY <1>0, <1>10 DEF HistoryOK, DrainReports, RemoveDirectory, LifeOK
<1>11. CASE Report \/ ReportFailure
  <2>1. stop \in Stops /\ session \in 1..session
    BY <1>0, <1>11, Going, Nothings DEF CoreOK, Report, ReportFailure
  <2>2. stop.shared \in BOOLEAN
    BY <2>1 DEF Stops
  <2>3. \E r \in DrainReports : reports' = reports \cup {r}
    <3>1. CASE Report
      <4>1. [session |-> session, shared |-> stop.shared, drained |-> TRUE,
             archived |-> archived = session, ok |-> stop.partial = {} /\ ~stop.error] \in DrainReports
        BY <2>1, <2>2 DEF DrainReports
      <4>2. QED
        BY <3>1, <4>1, Zenon DEF Report, Finish
    <3>2. CASE ReportFailure
      <4>1. [session |-> session, shared |-> stop.shared, drained |-> FALSE, archived |-> FALSE,
             ok |-> FALSE] \in DrainReports
        BY <2>1, <2>2 DEF DrainReports
      <4>2. QED
        BY <3>2, <4>1, Zenon DEF ReportFailure, Finish
    <3>3. QED
      BY <1>11, <3>1, <3>2
  <2>4. UNCHANGED <<session, accepted, home, ended, removed>>
    BY <1>11 DEF Report, ReportFailure, Finish
  <2>5. DrainReports' = DrainReports
    BY <2>4 DEF DrainReports
  <2>6. reports' \in SUBSET DrainReports'
    BY <1>0, <2>3, <2>5 DEF HistoryOK
  <2>7. QED
    BY <1>0, <2>4, <2>6 DEF HistoryOK
<1>12. CASE UNCHANGED filesVars
  BY <1>0, <1>12 DEF HistoryOK, DrainReports, filesVars
<1>13. QED
  BY <1>1, <1>2, <1>3, <1>4, <1>5, <1>6, <1>7, <1>8, <1>9, <1>10, <1>11, <1>12 DEF FilesNext

\* Every step keeps the types.
LEMMA ShapesKept == FilesShapes /\ PathsOK /\ LifeOK /\ [FilesNext]_filesVars => FilesShapes'
BY CoreStep, SampleStep, WritersStep, DisksStep, HistoryStep, Zenon DEF FilesShapes

-----------------------------------------------------------------------------
(* Paths, the life of a session, and its directory. *)

\* Every step keeps the paths with the streaming subjects, and the buffers short.
LEMMA PathsStep == FilesShapes /\ PathsOK /\ [FilesNext]_filesVars => PathsOK'
<1> SUFFICES ASSUME FilesShapes, PathsOK, [FilesNext]_filesVars PROVE PathsOK'
  OBVIOUS
<1> USE DEF samples, core
<1>0. session \in Nat /\ SampleOK
  BY FilesAssumption DEF FilesShapes, CoreOK
<1>1. CASE Snapshot \/ PipelineWrite \/ DiagnosticsWrite \/ SetFilePath \/ RegisterAlgorithms
  BY <1>1 DEF PathsOK, Snapshot, PipelineWrite, DiagnosticsWrite, SetFilePath, RegisterAlgorithms
<1>2. CASE ResetCompute \/ Compute \/ QueuePerformance \/ Summarise \/ Detach
  BY <1>2 DEF PathsOK, ResetCompute, Compute, QueuePerformance, Summarise, Detach
<1>3. CASE JoinDiagnostics \/ Seal \/ Archive \/ RemoveDirectory \/ FinalizeDistributed
  BY <1>3 DEF PathsOK, JoinDiagnostics, Seal, Archive, RemoveDirectory, FinalizeDistributed
<1>4. CASE Report \/ ReportFailure
  BY <1>4 DEF PathsOK, Report, ReportFailure, Finish
<1>5. ASSUME NEW S \in SUBSET Subjects, NEW shared \in BOOLEAN, Stop(S, shared) PROVE PathsOK'
  BY <1>5 DEF PathsOK, Stop
<1>6. ASSUME NEW s \in Subjects, NEW shape \in Shapes, OnData(s, shape) PROVE PathsOK'
  BY <1>6 DEF PathsOK, OnData
<1>7. ASSUME NEW S \in SUBSET Subjects, Start(S) PROVE PathsOK'
  <2>1. 1..session \subseteq 1..session'
    BY <1>0, <1>7 DEF Start
  <2>2. \A s \in Subjects : Len(buffer'[s]) < Block
    BY <1>7, FilesAssumption DEF PathsOK, Start
  <2>3. QED
    BY <1>7, <2>1, <2>2 DEF PathsOK, Start
<1>8. CASE Activate
  <2>1. \A s \in Subjects : entry'[s].path = IF s \in members THEN Here ELSE entry[s].path
    BY <1>8 DEF Activate, StartStream
  <2>2. Here # NoDir /\ Here[2] \in 1..session
    BY <1>0, <1>8, ActivateMakes DEF Sessions
  <2>3. QED
    BY <1>8, <2>1, <2>2 DEF PathsOK, Activate
<1>9. CASE StartFails
  <2>1. \A s \in Subjects : entry'[s].path = IF s \in members THEN NoDir ELSE entry[s].path
    BY <1>0, <1>9 DEF StartFails, Closed, SampleOK
  <2>2. QED
    BY <1>9, <2>1 DEF PathsOK, StartFails
<1>10. CASE Ingest
  <2> DEFINE s    == data.subject
             pile == Append(buffer[s], data.shape)
             rest == SubSeq(pile, Block + 1, Len(pile))
  <2>1. s \in Subjects /\ data.shape \in Shapes
    BY <1>0, <1>10 DEF Ingest, SampleOK
  <2>2. pile \in Seq(Shapes) /\ Len(pile) \in Nat /\ Len(pile) <= Block
    BY <1>0, <2>1, FilesAssumption DEF SampleOK, PathsOK
  <2>3. buffer' = [buffer EXCEPT ![s] = IF Len(pile) >= Block THEN rest ELSE pile]
    BY <1>10 DEF Ingest
  <2>4. Len(pile) >= Block => Len(rest) = 0
    <3> HIDE DEF pile
    <3> QED BY <2>2, FilesAssumption
  <2> HIDE DEF pile, rest, s
  <2>5. \A t \in Subjects : Len(buffer'[t]) < Block
    <3>1. ASSUME NEW t \in Subjects, t # s PROVE Len(buffer'[t]) < Block
      BY <1>0, <2>3, <3>1 DEF SampleOK, PathsOK
    <3>2. buffer'[s] = IF Len(pile) >= Block THEN rest ELSE pile
      BY <1>0, <2>1, <2>3 DEF SampleOK
    <3>3. Len(buffer'[s]) < Block
      BY <2>2, <2>4, <3>2, FilesAssumption
    <3>4. QED
      BY <3>1, <3>3
  <2>6. QED
    BY <1>10, <2>5 DEF PathsOK, Ingest
<1>11. CASE WriteBlock
  <2>1. \A t \in Subjects : entry'[t].path = entry[t].path
    BY <1>11, WriteBlockIs DEF PutInto
  <2>2. UNCHANGED <<buffer, streaming, session>>
    BY <1>11 DEF WriteBlock
  <2>3. QED
    BY <2>1, <2>2 DEF PathsOK
<1>12. CASE Flush
  <2>1. \A s \in Subjects : Len(buffer'[s]) < Block
    BY <1>12, FilesAssumption DEF PathsOK, Flush
  <2>2. QED
    BY <1>12, <2>1 DEF PathsOK, Flush
<1>13. CASE WrittenAndClosed
  <2>1. CASE entry' = Closed(stop.subjects) /\ streaming' = streaming \ stop.subjects
    <3>1. \A s \in Subjects : entry'[s].path = IF s \in stop.subjects THEN NoDir ELSE entry[s].path
      BY <1>0, <2>1 DEF Closed, SampleOK
    <3>2. QED
      BY <1>13, <2>1, <3>1 DEF PathsOK, WrittenAndClosed
  <2>2. CASE UNCHANGED <<entry, streaming>>
    BY <1>13, <2>2 DEF PathsOK, WrittenAndClosed
  <2>3. QED
    BY <1>13, <2>1, <2>2 DEF WrittenAndClosed
<1>14. CASE UNCHANGED filesVars
  BY <1>14 DEF PathsOK, filesVars
<1>15. QED
  BY <1>1, <1>2, <1>3, <1>4, <1>5, <1>6, <1>7, <1>8, <1>9, <1>10, <1>11, <1>12, <1>13, <1>14 DEF FilesNext

\* Every step keeps the order of a session's life: nothing warms up while a
\* session is being ended.
LEMMA LifeStep == FilesShapes /\ LifeOK /\ [FilesNext]_filesVars => LifeOK'
<1> SUFFICES ASSUME FilesShapes, LifeOK, [FilesNext]_filesVars PROVE LifeOK'
  OBVIOUS
<1> USE DEF core, Ending
<1>0. session \in Nat /\ CoreOK /\ WritersOK /\ HistoryOK
  BY FilesAssumption DEF FilesShapes, CoreOK
<1>1. CASE SetFilePath \/ RegisterAlgorithms \/ ResetCompute \/ Ingest \/ QueuePerformance
  BY <1>1 DEF LifeOK, SetFilePath, RegisterAlgorithms, ResetCompute, Ingest, QueuePerformance, diags,
              disks, history
<1>2. ASSUME NEW s \in Subjects, NEW shape \in Shapes, OnData(s, shape) PROVE LifeOK'
  BY <1>2 DEF LifeOK, OnData, diags, disks
<1>3. CASE Snapshot
  <2>1. pipe'.out = pipe.out
    BY <1>0, <1>3, RecordedIs DEF Snapshot, WritersOK
  <2>2. QED
    BY <1>3, <2>1 DEF LifeOK, Snapshot, disks, history
<1>4. CASE PipelineWrite
  <2>1. pipe'.out = pipe.out
    BY <1>0, <1>4 DEF PipelineWrite, WritersOK
  <2>2. QED
    BY <1>4, <2>1, PipelineMakes DEF LifeOK, PipelineWrite, history
<1>5. CASE DiagnosticsWrite
  <2>1. Head(diagq) \in 0..MaxSessions
    BY <1>0, <1>5, TailIs, FilesAssumption DEF WritersOK, CoreOK, DiagnosticsWrite
  <2>2. \A d \in Dirs : disk[d].present => disk'[d].present
    BY <1>5, <2>1, DiagnosticsMake DEF DiagnosticsWrite
  <2>3. QED
    BY <1>5, <2>2 DEF LifeOK, DiagnosticsWrite, history
<1>6. CASE WriteBlock
  <2>1. \A d \in Dirs : disk'[d].present = disk[d].present
    BY <1>6, WriteBlockIs DEF PutInto
  <2>2. UNCHANGED <<core, stop, pipe, sealed, reports>>
    BY <1>6 DEF WriteBlock, diags, history
  <2>3. QED
    BY <2>1, <2>2 DEF LifeOK
<1>7. CASE Compute
  <2>1. \A d \in Dirs : disk'[d].present = disk[d].present
    BY <1>7, ComputeKeeps DEF DiskKept
  <2>2. UNCHANGED <<core, stop, pipe, sealed, reports>>
    BY <1>7 DEF Compute, diags
  <2>3. QED
    BY <2>1, <2>2 DEF LifeOK
<1>8. ASSUME NEW S \in SUBSET Subjects, Start(S) PROVE LifeOK'
  <2>1. stop'.pc = "none" /\ stop' = NoStop
    BY <1>8, Nothings DEF Start
  <2>2. session' \notin sealed' /\ members' \cap streaming' = {}
    BY <1>0, <1>8 DEF WritersOK, Start
  <2>3. \A r \in reports' : r.session # session'
    BY <1>0, <1>8 DEF HistoryOK, DrainReports, Start, history
  <2>4. QED
    BY <2>1, <2>2, <2>3 DEF LifeOK
<1>9. CASE Activate
  BY <1>9, Nothings DEF LifeOK, Activate
<1>10. CASE StartFails
  <2>1. CASE streaming \subseteq members
    <3>1. stop'.pc = "detached" /\ phase' = "stopping" /\ streaming' = {} /\ pipe' = [pipe EXCEPT !.out = NoDir]
      BY <1>10, <2>1 DEF StartFails, NoStop
    <3>2. pipe'.out = NoDir
      BY <1>0, <3>1 DEF WritersOK
    <3>3. QED
      BY <3>1, <3>2 DEF LifeOK
  <2>2. CASE ~(streaming \subseteq members)
    <3>1. stop'.pc = "report" /\ stop'.subjects = members /\ streaming' = streaming \ members
          /\ UNCHANGED <<session, sealed, members>>
      BY <1>10, <2>2 DEF StartFails, NoStop
    <3>2. session' \notin sealed' /\ members' \cap streaming' = {} /\ streaming' \ stop'.subjects # {}
      BY <1>10, <2>2, <3>1 DEF StartFails, LifeOK
    <3>3. QED
      BY <3>1, <3>2 DEF LifeOK
  <2>3. QED
    BY <2>1, <2>2
<1>11. ASSUME NEW S \in SUBSET Subjects, NEW shared \in BOOLEAN, Stop(S, shared) PROVE LifeOK'
  <2>1. stop'.pc = "settle" /\ stop'.subjects = S
    BY <1>11 DEF Stop, NoStop
  <2>2. phase' = "warming" => phase = "warming" /\ ~(streaming \subseteq S)
    BY <1>11 DEF Stop
  <2>3. UNCHANGED <<session, sealed, members, streaming>>
    BY <1>11 DEF Stop, diags
  <2>4. QED
    BY <2>1, <2>2, <2>3 DEF LifeOK
<1>12. CASE Flush
  <2>1. stop'.pc = "join" /\ stop'.subjects = stop.subjects /\ stop # NoStop
    BY <1>0, <1>12, ToIs DEF Flush, Pcs
  <2>2. UNCHANGED <<core, sealed, reports>>
    BY <1>12 DEF Flush, diags, history
  <2>3. QED
    BY <2>1, <2>2 DEF LifeOK
<1>13. CASE WrittenAndClosed
  <2>1. stop \in Stops /\ stop # NoStop
    BY <1>0, <1>13, Going DEF WrittenAndClosed
  <2>2. stop'.pc \in {"summary", "failed"} /\ stop'.subjects = stop.subjects
    BY <1>13, <2>1 DEF WrittenAndClosed, Stops
  <2>3. streaming' = streaming \/ streaming' = streaming \ stop.subjects
    BY <1>13 DEF WrittenAndClosed
  <2>4. UNCHANGED <<session, sealed, members, phase>>
    BY <1>13 DEF WrittenAndClosed
  <2>5. phase' = "warming" => /\ session' \notin sealed' /\ members' \cap streaming' = {}
                              /\ streaming' \ stop'.subjects # {}
    BY <2>1, <2>2, <2>3, <2>4 DEF LifeOK
  <2>6. QED
    BY <2>2, <2>5 DEF LifeOK
<1>14. CASE Summarise
  <2>1. stop'.pc = "flushed" /\ stop'.subjects = stop.subjects /\ stop # NoStop
    BY <1>0, <1>14, ToIs DEF Summarise, Pcs
  <2>2. UNCHANGED <<core, sealed, reports>>
    BY <1>14 DEF Summarise, history
  <2>3. QED
    BY <2>1, <2>2 DEF LifeOK
<1>15. CASE Detach
  <2>1. stop'.subjects = stop.subjects /\ stop # NoStop /\ stop'.pc \in {"report", "detached"}
    BY <1>0, <1>15, ToIs DEF Detach, Pcs
  <2>2. UNCHANGED <<core, sealed, reports>>
    BY <1>15 DEF Detach, history
  <2>3. stop'.pc = "detached" => streaming = {} /\ pipe'.out = NoDir
    <3>1. CASE To("report")
      BY <1>0, <1>15, <3>1, ToIs DEF Detach, Pcs
    <3>2. CASE streaming = {} /\ pipe' = [pipe EXCEPT !.out = NoDir]
      BY <1>0, <3>2 DEF WritersOK
    <3>3. QED
      BY <1>15, <3>1, <3>2 DEF Detach
  <2>4. streaming = {} => phase # "warming"
    BY <2>1 DEF LifeOK
  <2>5. QED
    BY <2>1, <2>2, <2>3, <2>4 DEF LifeOK
<1>16. CASE JoinDiagnostics
  <2>1. stop'.pc = "joined" /\ stop'.subjects = stop.subjects /\ stop # NoStop
    BY <1>0, <1>16, ToIs DEF JoinDiagnostics, Pcs
  <2>2. UNCHANGED <<core, sealed, reports, pipe>> /\ stop.pc = "detached" /\ pipe.records = <<>>
    BY <1>16 DEF JoinDiagnostics, history, diags
  <2>3. QED
    BY <2>1, <2>2 DEF LifeOK
<1>17. CASE Seal
  <2>1. stop'.pc \in {"report", "archive"} /\ stop.pc = "joined" /\ stop # NoStop
    BY <1>0, <1>17, ToIs DEF Seal, Pcs
  <2>2. UNCHANGED <<core, reports, pipe>> /\ session' \in sealed'
    BY <1>17 DEF Seal, history
  <2>3. streaming' = {} /\ phase' # "warming" /\ pipe'.out = NoDir /\ pipe'.records = <<>>
    BY <2>1, <2>2 DEF LifeOK
  <2>4. QED
    BY <2>1, <2>2, <2>3 DEF LifeOK
<1>18. CASE Archive
  <2>1. stop \in Stops /\ stop # NoStop /\ stop.pc = "archive"
    BY <1>0, <1>18, Going DEF Archive
  <2>2. UNCHANGED <<core, pipe, sealed, disk>>
    BY <1>18 DEF Archive, diags
  <2>3. streaming' = {} /\ phase' # "warming" /\ pipe'.out = NoDir /\ pipe'.records = <<>>
        /\ session' \in sealed'
    BY <2>1, <2>2 DEF LifeOK
  <2>4. CASE To("failed")
    <3>1. stop'.pc = "failed"
      BY <1>0, <2>1, <2>4, ToIs DEF Pcs
    <3>2. QED
      BY <2>3, <3>1 DEF LifeOK
  <2>5. CASE stop' = [stop EXCEPT !.pc = "remove", !.source = Here] /\ disk[Here].present
    <3>1. stop'.source = Here /\ stop'.pc = "remove"
      BY <2>1, <2>5 DEF Stops
    <3>2. Here \in Dirs /\ Here[2] = session
      BY <1>0, <2>1, DirsAre DEF CoreOK, Here, Sessions
    <3>3. QED
      BY <2>2, <2>3, <2>5, <3>1, <3>2 DEF LifeOK
  <2>6. QED
    BY <1>18, <2>4, <2>5 DEF Archive
<1>19. CASE RemoveDirectory
  <2>1. stop'.pc \in {"report", "failed"} /\ stop.pc = "remove"
    BY <1>0, <1>19, ToIs DEF RemoveDirectory, Pcs
  <2>2. phase' # "warming"
    BY <1>19, <2>1 DEF RemoveDirectory, LifeOK
  <2>3. QED
    BY <2>1, <2>2 DEF LifeOK
<1>20. CASE Report \/ ReportFailure
  <2>1. stop' = NoStop /\ stop'.pc = "none" /\ UNCHANGED <<session, sealed, streaming>>
        /\ (phase' = "warming" => phase = "warming" /\ streaming # {} /\ members' = members)
    BY <1>20, Nothings DEF Report, ReportFailure, Finish
  <2>2. QED
    BY <2>1 DEF LifeOK
<1>21. CASE FinalizeDistributed
  <2>1. stop'.pc = "detached" /\ UNCHANGED core /\ pipe'.out = NoDir
    BY <1>0, <1>21 DEF FinalizeDistributed, NoStop, WritersOK
  <2>2. streaming = {} /\ phase # "warming"
    BY <1>21 DEF FinalizeDistributed, LifeOK
  <2>3. QED
    BY <2>1, <2>2 DEF LifeOK
<1>22. CASE UNCHANGED filesVars
  BY <1>22 DEF LifeOK, filesVars, diags, disks, history
<1>23. QED
  BY <1>1, <1>2, <1>3, <1>4, <1>5, <1>6, <1>7, <1>8, <1>9, <1>10, <1>11, <1>12, <1>13, <1>14, <1>15,
     <1>16, <1>17, <1>18, <1>19, <1>20, <1>21, <1>22 DEF FilesNext

\* While directories stay, the pipeline diagnostics write where there is one.
LEMMA PipeStays ==
  ASSUME FilesShapes, PresentOK,
         \A d \in Dirs : disk[d].present => disk'[d].present,
         pipe' \in {pipe, Recorded(pipe), [pipe EXCEPT !.out = NoDir]}
  PROVE  /\ \A i \in DOMAIN pipe'.records : disk'[pipe'.records[i]].present
         /\ pipe'.out # NoDir => disk'[pipe'.out].present
<1>1. pipe \in [out: Places, records: Seq(Dirs), alive: BOOLEAN]
  BY DEF FilesShapes, WritersOK
<1>2. \A i \in DOMAIN pipe.records : pipe.records[i] \in Dirs
  BY <1>1
<1>3. pipe.out # NoDir => pipe.out \in Dirs
  BY <1>1, DirsAre
<1>4. CASE pipe' = pipe
  BY <1>2, <1>3, <1>4 DEF PresentOK
<1>5. CASE pipe' = [pipe EXCEPT !.out = NoDir]
  <2>1. pipe'.out = NoDir /\ pipe'.records = pipe.records
    BY <1>1, <1>5
  <2>2. QED
    BY <1>2, <2>1 DEF PresentOK
<1>6. CASE pipe' = Recorded(pipe)
  <2>1. pipe'.out = pipe.out
    BY <1>1, <1>6, RecordedIs
  <2>2. ASSUME NEW i \in DOMAIN pipe'.records PROVE disk'[pipe'.records[i]].present
    <3>1. \/ i \in DOMAIN pipe.records /\ pipe'.records[i] = pipe.records[i]
          \/ pipe.out # NoDir /\ pipe'.records[i] = pipe.out
      BY <1>1, <1>6, RecordedIs
    <3>2. QED
      BY <1>2, <1>3, <3>1 DEF PresentOK
  <2>3. QED
    BY <1>3, <2>1, <2>2 DEF PresentOK
<1>7. QED
  BY <1>4, <1>5, <1>6

\* While only directories of sessions that are not sealed appear, what was
\* removed stays gone.
LEMMA GoneStays ==
  ASSUME FilesShapes, PresentOK, ArchivedStaysGone, removed' = removed, sealed \subseteq sealed',
         \A d \in Dirs : disk'[d].present => disk[d].present \/ d[2] \notin sealed
  PROVE  ArchivedStaysGone' /\ \A d \in removed' : d[2] \in sealed'
BY DEF FilesShapes, HistoryOK, PresentOK, ArchivedStaysGone

\* No step brings an archived directory back.
LEMMA GoneStep == GoneInv /\ [FilesNext]_filesVars => PresentOK' /\ ArchivedStaysGone'
<1> SUFFICES ASSUME GoneInv, [FilesNext]_filesVars PROVE PresentOK' /\ ArchivedStaysGone'
  OBVIOUS
<1> USE DEF core
<1>0. /\ FilesShapes /\ LifeOK /\ PresentOK /\ ArchivedStaysGone
      /\ session \in 0..MaxSessions /\ session \in Nat /\ CoreOK /\ WritersOK /\ HistoryOK
  BY FilesAssumption DEF GoneInv, FilesShapes, CoreOK
<1>01. \A k : \A d \in Dirs : d = <<root, k>> => d[2] = k
  OBVIOUS
<1>02. ASSUME removed' = removed, sealed \subseteq sealed',
              \A d \in Dirs : disk'[d].present => disk[d].present \/ d[2] \notin sealed,
              \A d \in Dirs : disk[d].present => disk'[d].present,
              pipe' \in {pipe, Recorded(pipe), [pipe EXCEPT !.out = NoDir]}
       PROVE  PresentOK' /\ ArchivedStaysGone'
  <2>1. ArchivedStaysGone' /\ \A d \in removed' : d[2] \in sealed'
    BY <1>0, <1>02, GoneStays
  <2>2. /\ \A i \in DOMAIN pipe'.records : disk'[pipe'.records[i]].present
        /\ pipe'.out # NoDir => disk'[pipe'.out].present
    BY <1>0, <1>02, PipeStays
  <2>3. QED
    BY <2>1, <2>2 DEF PresentOK
<1>1. CASE Snapshot \/ SetFilePath \/ RegisterAlgorithms \/ ResetCompute \/ Ingest \/ QueuePerformance
  <2>1. UNCHANGED <<removed, sealed, disk>> /\ pipe' \in {pipe, Recorded(pipe)}
    BY <1>1 DEF Snapshot, SetFilePath, RegisterAlgorithms, ResetCompute, Ingest, QueuePerformance, diags,
                disks, history
  <2>2. QED
    BY <1>02, <2>1
<1>2. CASE Flush \/ Detach \/ JoinDiagnostics \/ Seal \/ Report \/ FinalizeDistributed
  <2>1. UNCHANGED <<removed, disk>> /\ sealed \subseteq sealed'
        /\ pipe' \in {pipe, [pipe EXCEPT !.out = NoDir]}
    BY <1>2 DEF Flush, Detach, JoinDiagnostics, Seal, Report, Finish, FinalizeDistributed, diags, disks,
                history
  <2>2. QED
    BY <1>02, <2>1
<1>3. ASSUME NEW S \in SUBSET Subjects, NEW shared \in BOOLEAN, Stop(S, shared)
      PROVE  PresentOK' /\ ArchivedStaysGone'
  BY <1>02, <1>3 DEF Stop, diags, disks, history
<1>4. ASSUME NEW s \in Subjects, NEW shape \in Shapes, OnData(s, shape)
      PROVE  PresentOK' /\ ArchivedStaysGone'
  BY <1>02, <1>4 DEF OnData, diags, disks
<1>5. CASE PipelineWrite
  <2>1. pipe \in [out: Places, records: Seq(Dirs), alive: BOOLEAN] /\ pipe.records # <<>>
    BY <1>0, <1>5 DEF WritersOK, PipelineWrite
  <2>2. Head(pipe.records) = pipe.records[1] /\ 1 \in DOMAIN pipe.records
    BY <2>1, TailIs
  <2>3. disk[Head(pipe.records)].present
    BY <1>0, <2>2 DEF PresentOK
  <2>4. \A d \in Dirs : disk'[d].present <=> disk[d].present
    BY <1>0, <1>5, <2>3, PipelineMakes
  <2>5. removed' = removed /\ sealed' = sealed
    BY <1>5 DEF PipelineWrite, history
  <2>6. ArchivedStaysGone' /\ \A d \in removed' : d[2] \in sealed'
    BY <1>0, <2>4, <2>5, GoneStays
  <2>7. pipe'.out = pipe.out /\ pipe'.records = Tail(pipe.records)
    BY <1>5, <2>1 DEF PipelineWrite
  <2>8. ASSUME NEW i \in DOMAIN Tail(pipe.records)
        PROVE  Tail(pipe.records)[i] \in Dirs /\ disk[Tail(pipe.records)[i]].present
    <3>1. Tail(pipe.records)[i] = pipe.records[i + 1] /\ i + 1 \in DOMAIN pipe.records
      BY <2>1, TailIs
    <3>2. QED
      BY <1>0, <2>1, <3>1 DEF PresentOK
  <2>9. pipe.out # NoDir => pipe.out \in Dirs
    BY <2>1, DirsAre
  <2>10. QED
    BY <1>0, <2>4, <2>6, <2>7, <2>8, <2>9 DEF PresentOK
<1>6. CASE DiagnosticsWrite
  <2>1. Head(diagq) \in 0..MaxSessions
    BY <1>0, <1>6, TailIs, FilesAssumption DEF WritersOK, DiagnosticsWrite
  <2>2. \A d \in Dirs : /\ disk[d].present => disk'[d].present
                        /\ disk'[d].present => disk[d].present \/ d[2] \notin sealed
    BY <1>0, <1>01, <1>6, <2>1, DiagnosticsMake DEF DiagnosticsWrite
  <2>3. QED
    BY <1>02, <1>6, <2>2 DEF DiagnosticsWrite, history
<1>7. ASSUME NEW S \in SUBSET Subjects, Start(S) PROVE PresentOK' /\ ArchivedStaysGone'
  <2>1. session + 1 \in 0..MaxSessions
    BY <1>0, <1>7, FilesAssumption DEF Start
  <2>2. \A d \in Dirs : /\ disk[d].present => disk'[d].present
                        /\ disk'[d].present => disk[d].present \/ d[2] \notin sealed
    BY <1>0, <1>01, <1>7, <2>1, DiagnosticsMake DEF Start
  <2>3. QED
    BY <1>02, <1>7, <2>2 DEF Start, history
<1>8. CASE Summarise \/ ReportFailure \/ StartFails
  <2>1. StartDiagnostics(session) /\ UNCHANGED <<removed, sealed>>
        /\ pipe' \in {pipe, Recorded(pipe), [pipe EXCEPT !.out = NoDir]}
    BY <1>8 DEF Summarise, ReportFailure, StartFails, Finish, history
  <2>2. \A d \in Dirs : /\ disk[d].present => disk'[d].present
                        /\ disk'[d].present => disk[d].present \/ d[2] \notin sealed
    BY <1>0, <1>01, <2>1, DiagnosticsMake
  <2>3. QED
    BY <1>02, <2>1, <2>2
<1>9. CASE Activate
  <2>1. Here \in Dirs /\ Here[2] = session /\ session \notin sealed /\ disk'[Here].present
        /\ \A d \in Dirs : d # Here => disk'[d] = disk[d]
    BY <1>0, <1>9, ActivateMakes DEF LifeOK, Activate
  <2>2. \A d \in Dirs : /\ disk[d].present => disk'[d].present
                        /\ disk'[d].present => disk[d].present \/ d[2] \notin sealed
    BY <2>1
  <2>3. removed' = removed /\ sealed' = sealed
    BY <1>9 DEF Activate
  <2>4. ArchivedStaysGone' /\ \A d \in removed' : d[2] \in sealed'
    BY <1>0, <2>2, <2>3, GoneStays
  <2>5. CASE pipe' = pipe
    BY <1>02, <2>2, <2>3, <2>5
  <2>6. CASE pipe' = Recorded([pipe EXCEPT !.out = Here])
    <3> DEFINE p == [pipe EXCEPT !.out = Here]
    <3>1. p \in [out: Places, records: Seq(Dirs), alive: BOOLEAN] /\ p.out = Here /\ p.records = pipe.records
      BY <1>0, <2>1 DEF WritersOK, Places
    <3> HIDE DEF p
    <3>2. pipe'.out = Here
      BY <2>6, <3>1, RecordedIs DEF p
    <3>3. ASSUME NEW i \in DOMAIN pipe'.records PROVE disk'[pipe'.records[i]].present
      <4>1. \/ i \in DOMAIN pipe.records /\ pipe'.records[i] = pipe.records[i]
            \/ pipe'.records[i] = Here
        BY <2>6, <3>1, RecordedIs DEF p
      <4>2. \A j \in DOMAIN pipe.records : pipe.records[j] \in Dirs
        BY <1>0 DEF WritersOK
      <4>3. QED
        BY <1>0, <2>1, <2>2, <4>1, <4>2 DEF PresentOK
    <3>4. QED
      BY <2>1, <2>4, <3>2, <3>3 DEF PresentOK
  <2>7. QED
    BY <1>9, <2>5, <2>6 DEF Activate, Attached
<1>10. CASE WriteBlock
  <2>1. \A d \in Dirs : disk'[d].present = disk[d].present
    BY <1>0, <1>10, WriteBlockIs DEF PutInto
  <2>2. UNCHANGED <<removed, sealed, pipe>>
    BY <1>10 DEF WriteBlock, diags, history
  <2>3. QED
    BY <1>02, <2>1, <2>2
<1>11. CASE Compute
  <2>1. UNCHANGED <<removed, sealed, pipe>>
    BY <1>11 DEF Compute, diags
  <2>2. QED
    BY <1>0, <1>02, <1>11, <2>1, ComputeKeeps DEF DiskKept
<1>12. CASE WrittenAndClosed
  <2>1. UNCHANGED <<removed, sealed>> /\ pipe' = Recorded(pipe)
    BY <1>12 DEF WrittenAndClosed
  <2>2. QED
    BY <1>0, <1>02, <1>12, <2>1, ClosingKeeps DEF DiskKept
<1>13. CASE Archive
  BY <1>02, <1>13 DEF Archive, diags, history
<1>14. CASE RemoveDirectory
  <2>1. /\ stop.source \in Dirs /\ stop.source[2] = session /\ session \in sealed
        /\ disk[stop.source].present /\ pipe.out = NoDir /\ pipe.records = <<>>
    BY <1>0, <1>14 DEF RemoveDirectory, LifeOK, Ending
  <2>2. UNCHANGED <<sealed, pipe>>
    BY <1>14 DEF RemoveDirectory, diags
  <2>3. \A d \in Dirs : d # stop.source => disk'[d] = disk[d]
    BY <1>0, <1>14 DEF RemoveDirectory, FilesShapes, DisksOK
  <2>4. removed' = removed \/ (removed' = removed \cup {stop.source} /\ disk'[stop.source] = NoTree)
    BY <1>0, <1>14, <2>1 DEF RemoveDirectory, FilesShapes, DisksOK
  <2>5. stop.source \notin removed /\ ~NoTree.present
    BY <1>0, <2>1 DEF ArchivedStaysGone, NoTree
  <2>6. ArchivedStaysGone' /\ \A d \in removed' : d[2] \in sealed'
    BY <1>0, <2>1, <2>2, <2>3, <2>4, <2>5 DEF ArchivedStaysGone, PresentOK, HistoryOK
  <2>7. QED
    BY <2>1, <2>2, <2>6 DEF PresentOK
<1>15. CASE UNCHANGED filesVars
  BY <1>02, <1>15 DEF filesVars, diags, disks, history
<1>16. QED
  BY <1>1, <1>2, <1>3, <1>4, <1>5, <1>6, <1>7, <1>8, <1>9, <1>10, <1>11, <1>12, <1>13, <1>14, <1>15
     DEF FilesNext

\* Before the first START there is no session and no directory.
LEMMA InitGone == FilesInit => GoneInv
<1> SUFFICES ASSUME FilesInit PROVE GoneInv
  OBVIOUS
<1> USE DEF FilesInit
<1>1. CoreOK
  <2>1. MaxSessions \in Nat
    BY FilesAssumption
  <2>2. session \in 0..MaxSessions
    BY <2>1
  <2>3. archived \in {0, session} /\ outputs \in BOOLEAN
    OBVIOUS
  <2>4. QED
    BY <2>2, <2>3 DEF CoreOK
<1>2. SampleOK
  BY Nothings DEF SampleOK
<1>3. WritersOK
  BY Nothings DEF WritersOK
<1>4. DisksOK
  BY Nothings DEF DisksOK
<1>5. HistoryOK
  BY Nothings DEF HistoryOK
<1>6. PathsOK
  BY FilesAssumption DEF PathsOK
<1>7. LifeOK
  BY Nothings DEF LifeOK, Ending
<1>8. PresentOK /\ ArchivedStaysGone
  BY DEF PresentOK, ArchivedStaysGone
<1>9. QED
  BY <1>1, <1>2, <1>3, <1>4, <1>5, <1>6, <1>7, <1>8 DEF GoneInv, FilesShapes

\* Every step keeps the invariant of the directories.
LEMMA GoneInvStep == GoneInv /\ [FilesNext]_filesVars => GoneInv'
BY ShapesKept, PathsStep, LifeStep, GoneStep DEF GoneInv

\* It holds in every reachable state.
LEMMA GoneAlways == FilesSpec => []GoneInv
BY InitGone, GoneInvStep, PTL DEF FilesSpec

\* The types follow from the shapes and the paths.
LEMMA GoneTypes == GoneInv => FilesTypeOK
<1> SUFFICES ASSUME GoneInv PROVE FilesTypeOK
  OBVIOUS
<1> USE DEF GoneInv, FilesShapes
<1>1. \A i \in DOMAIN rawq : rawq[i].subject \in Subjects /\ rawq[i].block \in Seq(Shapes) \ {<<>>}
  <2>1. \A i \in DOMAIN rawq : rawq[i] \in Blocks
    BY DEF SampleOK
  <2>2. QED
    BY <2>1 DEF Blocks
<1>2. \A s \in Subjects : /\ entry[s].path \in Places
                          /\ entry[s].path # NoDir <=> s \in streaming
                          /\ entry[s].path # NoDir => entry[s].path[2] \in 1..session
                          /\ buffer[s] \in Seq(Shapes) /\ Len(buffer[s]) < Block
                          /\ failures[s] \in Places
  <2>1. \A s \in Subjects : entry[s].path \in Places /\ buffer[s] \in Seq(Shapes) /\ failures[s] \in Places
    BY DEF SampleOK
  <2>2. PathsOK
    OBVIOUS
  <2>3. QED
    BY <2>1, <2>2 DEF PathsOK
<1>3. diag \in Places /\ pipe.out \in Places /\ sealed \subseteq 1..session
  BY DEF WritersOK
<1>4. {members, streaming, stopping} \subseteq SUBSET Subjects
  BY DEF CoreOK
<1>5. CoreOK /\ DisksOK
  OBVIOUS
<1>6. QED
  BY <1>1, <1>2, <1>3, <1>4, <1>5 DEF FilesTypeOK, CoreOK, DisksOK

\* The types of the output files' state, whatever fails and whenever the output
\* root changes.
THEOREM FilesTypeCorrect == FilesSpec => []FilesTypeOK
BY GoneAlways, GoneTypes, PTL

\* No late event, snapshot, record or block makes the directory of an archived
\* session again, whatever fails and whenever the output root changes.
THEOREM ArchivedIsGone == FilesSpec => []ArchivedStaysGone
<1>1. GoneInv => ArchivedStaysGone
  BY DEF GoneInv
<1>2. QED
  BY <1>1, GoneAlways, PTL

-----------------------------------------------------------------------------
(* What is accepted, on its way to the file. *)

\* The i-th block of a queue, if it is of s.
Part(q, s, i) == IF q[i].subject = s THEN q[i].block ELSE <<>>

\* After the samples before cut[0], the queue's blocks of s and then the rest
\* make up all of the samples; cut[i] is where the i-th block ends.
Split(q, s, rest, all, cut) ==
  /\ cut \in [0..Len(q) -> 0..Len(all)]
  /\ \A i \in DOMAIN q : Follows(Part(q, s, i), all, cut[i - 1]) /\ cut[i] = cut[i - 1] + Len(Part(q, s, i))
  /\ Follows(rest, all, cut[Len(q)]) /\ cut[Len(q)] + Len(rest) = Len(all)

\* The file and the queue's blocks of s and the rest make up all of the samples.
Recording(file, headers, q, s, rest, all) ==
  /\ file.header = headers
  /\ \E cut \in [0..Len(q) -> 0..Len(all)] :
       FileOK(file, SubSeq(all, 1, cut[0])) /\ Split(q, s, rest, all, cut)

\* The parts of a queue are sequences of samples.
LEMMA PartIs ==
  ASSUME NEW q \in Seq(Blocks), NEW s, NEW i \in DOMAIN q
  PROVE  Part(q, s, i) \in Seq(Shapes) /\ Len(Part(q, s, i)) \in Nat
<1>1. q[i] \in Blocks
  OBVIOUS
<1>2. q[i].block \in Seq(Shapes)
  BY <1>1 DEF Blocks
<1>3. QED
  BY <1>2 DEF Part

\* Another sample is accepted.
LEMMA RecordsAccept ==
  ASSUME NEW q \in Seq(Blocks), NEW s, NEW rest \in Seq(Shapes), NEW all \in Seq(Shapes),
         NEW x \in Shapes, NEW file, NEW headers, Recording(file, headers, q, s, rest, all)
  PROVE  Recording(file, headers, q, s, rest \o <<x>>, Append(all, x))
<1> DEFINE more == Append(all, x)
<1>1. PICK cut \in [0..Len(q) -> 0..Len(all)] :
        FileOK(file, SubSeq(all, 1, cut[0])) /\ Split(q, s, rest, all, cut)
  BY DEF Recording
<1>2. /\ more \in Seq(Shapes) /\ Len(all) \in Nat /\ Len(more) = Len(all) + 1
      /\ \A i \in 1..Len(all) : more[i] = all[i]
      /\ more[Len(all) + 1] = x /\ Len(q) \in Nat /\ DOMAIN q = 1..Len(q)
  BY AppendIs
<1> HIDE DEF more
<1>3. cut[0] \in 0..Len(all) /\ cut[Len(q)] \in 0..Len(all) /\ \A i \in DOMAIN q : cut[i - 1] \in 0..Len(all)
  <2>1. 0 \in 0..Len(q) /\ Len(q) \in 0..Len(q) /\ \A i \in DOMAIN q : i - 1 \in 0..Len(q)
    BY <1>2
  <2>2. QED
    BY <2>1
<1>4. SubSeq(more, 1, cut[0]) = SubSeq(all, 1, cut[0])
  BY <1>2, <1>3
<1>5. cut \in [0..Len(q) -> 0..Len(more)]
  BY <1>2
<1>6. ASSUME NEW part \in Seq(Shapes), NEW n \in Nat, Follows(part, all, n)
      PROVE  Follows(part, more, n)
  <2>1. Len(part) \in Nat /\ DOMAIN part = 1..Len(part)
    OBVIOUS
  <2>2. n + Len(part) <= Len(all) /\ \A j \in DOMAIN part : all[n + j] = part[j]
    BY <1>6 DEF Follows
  <2>3. \A j \in DOMAIN part : n + j \in 1..Len(all)
    BY <1>2, <2>1, <2>2
  <2>4. QED
    BY <1>2, <2>1, <2>2, <2>3 DEF Follows
<1>7. \A i \in DOMAIN q : /\ Follows(Part(q, s, i), more, cut[i - 1])
                          /\ cut[i] = cut[i - 1] + Len(Part(q, s, i))
  <2> SUFFICES ASSUME NEW i \in DOMAIN q
               PROVE  Follows(Part(q, s, i), more, cut[i - 1]) /\ cut[i] = cut[i - 1] + Len(Part(q, s, i))
    OBVIOUS
  <2>1. Part(q, s, i) \in Seq(Shapes) /\ cut[i - 1] \in Nat
    BY <1>2, <1>3, PartIs
  <2>2. Follows(Part(q, s, i), all, cut[i - 1]) /\ cut[i] = cut[i - 1] + Len(Part(q, s, i))
    BY <1>1 DEF Split
  <2>3. QED
    BY <1>6, <2>1, <2>2
<1>8. Follows(rest \o <<x>>, more, cut[Len(q)]) /\ cut[Len(q)] + Len(rest \o <<x>>) = Len(more)
  <2> DEFINE r == rest \o <<x>>
             n == cut[Len(q)]
  <2>1. n \in Nat /\ Len(rest) \in Nat /\ DOMAIN rest = 1..Len(rest)
    BY <1>2, <1>3
  <2>2. n + Len(rest) = Len(all) /\ \A j \in DOMAIN rest : all[n + j] = rest[j]
    BY <1>1 DEF Split, Follows
  <2>3. /\ Len(r) = Len(rest) + 1 /\ DOMAIN r = 1..(Len(rest) + 1)
        /\ (\A j \in DOMAIN rest : r[j] = rest[j]) /\ r[Len(rest) + 1] = x
    OBVIOUS
  <2> HIDE DEF r, n
  <2>4. \A j \in DOMAIN r : more[n + j] = r[j]
    <3> SUFFICES ASSUME NEW j \in DOMAIN r PROVE more[n + j] = r[j]
      OBVIOUS
    <3>1. CASE j = Len(rest) + 1
      BY <1>2, <2>1, <2>2, <2>3, <3>1
    <3>2. CASE j \in DOMAIN rest
      <4>1. n + j \in 1..Len(all)
        BY <2>1, <2>2, <3>2
      <4>2. QED
        BY <1>2, <2>2, <2>3, <3>2, <4>1
    <3>3. QED
      BY <2>1, <2>3, <3>1, <3>2
  <2>5. n + Len(r) = Len(more)
    <3>1. n + Len(rest) = Len(all) /\ Len(r) = Len(rest) + 1 /\ Len(more) = Len(all) + 1
      BY <1>2, <2>2, <2>3
    <3>2. QED
      BY <2>1, <3>1
  <2>6. QED
    BY <1>2, <2>1, <2>4, <2>5 DEF Follows, r, n
<1>9. Split(q, s, rest \o <<x>>, more, cut)
  BY <1>5, <1>7, <1>8 DEF Split
<1>10. QED
  BY <1>1, <1>4, <1>5, <1>9 DEF Recording, more

\* Blocks are queued, one of them of s, or none when p is empty.
LEMMA RecordsBatch ==
  ASSUME NEW q \in Seq(Blocks), NEW s, NEW rest \in Seq(Shapes), NEW all \in Seq(Shapes),
         NEW new \in Seq(Blocks), NEW p \in Seq(Shapes), NEW at \in Nat,
         \A m \in DOMAIN new : new[m].subject = s <=> m = at,
         at \in DOMAIN new => new[at].block = p,
         at \notin DOMAIN new => p = <<>>,
         NEW file, NEW headers, Recording(file, headers, q, s, p \o rest, all)
  PROVE  Recording(file, headers, q \o new, s, rest, all)
<1>1. PICK cut \in [0..Len(q) -> 0..Len(all)] :
        FileOK(file, SubSeq(all, 1, cut[0])) /\ Split(q, s, p \o rest, all, cut)
  BY DEF Recording
<1> DEFINE both == q \o new
           n    == Len(q)
           c    == cut[n]
           cut2 == [i \in 0..Len(both) |-> IF i <= n THEN cut[i]
                                           ELSE IF at \in DOMAIN new /\ at <= i - n THEN c + Len(p) ELSE c]
<1>2. /\ both \in Seq(Blocks) /\ n \in Nat /\ Len(new) \in Nat /\ Len(both) = n + Len(new)
      /\ DOMAIN q = 1..n /\ DOMAIN new = 1..Len(new) /\ DOMAIN both = 1..(n + Len(new))
      /\ \A i \in 1..n : both[i] = q[i]
      /\ \A i \in (n + 1)..(n + Len(new)) : both[i] = new[i - n]
  BY ConcatIs
<1>3. Len(p) \in Nat /\ Len(rest) \in Nat /\ Len(all) \in Nat
  OBVIOUS
<1>4. c \in Nat /\ c + Len(p) + Len(rest) = Len(all) /\ Follows(p \o rest, all, c)
  <2>1. c \in 0..Len(all)
    <3>1. n \in 0..Len(q)
      BY <1>2
    <3>2. QED
      BY <3>1
  <2>2. Follows(p \o rest, all, c) /\ c + Len(p \o rest) = Len(all)
    BY <1>1 DEF Split
  <2>3. Len(p \o rest) = Len(p) + Len(rest)
    OBVIOUS
  <2> HIDE DEF c
  <2>4. QED
    BY <1>3, <2>1, <2>2, <2>3
<1>5. /\ \A j \in DOMAIN p : all[c + j] = p[j]
      /\ \A j \in DOMAIN rest : all[c + Len(p) + j] = rest[j]
  <2> DEFINE r == p \o rest
  <2>1. /\ DOMAIN r = 1..(Len(p) + Len(rest)) /\ DOMAIN p = 1..Len(p) /\ DOMAIN rest = 1..Len(rest)
        /\ \A j \in DOMAIN p : r[j] = p[j]
        /\ \A j \in DOMAIN rest : r[Len(p) + j] = rest[j]
    OBVIOUS
  <2>2. \A j \in DOMAIN r : all[c + j] = r[j]
    BY <1>4 DEF Follows
  <2> HIDE DEF r, c
  <2>3. \A j \in DOMAIN p : j \in DOMAIN r
    BY <1>3, <2>1
  <2>4. \A j \in DOMAIN rest : Len(p) + j \in DOMAIN r /\ c + (Len(p) + j) = c + Len(p) + j
    BY <1>3, <1>4, <2>1
  <2>5. QED
    BY <2>1, <2>2, <2>3, <2>4
<1> HIDE DEF both, n, c
<1>6. cut2 \in [0..Len(both) -> 0..Len(all)]
  <2>1. \A i \in 0..Len(both) : i <= n => cut[i] \in 0..Len(all)
    <3>1. \A i \in 0..Len(both) : i <= n => i \in 0..Len(q)
      BY <1>2 DEF n
    <3>2. QED
      BY <3>1
  <2>2. c \in 0..Len(all) /\ c + Len(p) \in 0..Len(all)
    BY <1>3, <1>4
  <2>3. QED
    BY <2>1, <2>2
<1>7. \A i \in 0..n : i \in 0..Len(both) /\ cut2[i] = cut[i]
  BY <1>2
<1>8. ASSUME NEW i \in DOMAIN both
      PROVE  Follows(Part(both, s, i), all, cut2[i - 1]) /\ cut2[i] = cut2[i - 1] + Len(Part(both, s, i))
  <2>1. CASE i <= n
    <3>1. i \in DOMAIN q /\ i \in 0..n /\ i - 1 \in 0..n
      BY <1>2, <2>1
    <3>2. Part(both, s, i) = Part(q, s, i)
      BY <1>2, <3>1 DEF Part
    <3>3. cut2[i] = cut[i] /\ cut2[i - 1] = cut[i - 1]
      BY <1>7, <3>1
    <3>4. QED
      BY <1>1, <3>1, <3>2, <3>3 DEF Split
  <2>2. CASE i > n
    <3> DEFINE m == i - n
    <3>1. m \in DOMAIN new /\ i = n + m /\ both[i] = new[m] /\ i \in 0..Len(both) /\ i - 1 \in 0..Len(both)
      <4>1. i \in (n + 1)..(n + Len(new)) /\ i \in Int
        BY <1>2, <2>2
      <4>2. both[i] = new[i - n]
        BY <1>2, <4>1
      <4>3. i - n \in 1..Len(new) /\ i = n + (i - n)
        BY <1>2, <4>1
      <4>4. i \in 0..Len(both) /\ i - 1 \in 0..Len(both)
        BY <1>2, <4>1
      <4>5. QED
        BY <1>2, <4>2, <4>3, <4>4
    <3>2. cut2[i] = IF at \in DOMAIN new /\ at <= m THEN c + Len(p) ELSE c
      BY <1>2, <2>2, <3>1
    <3> HIDE DEF m
    <3>3. cut2[i - 1] = IF at \in DOMAIN new /\ at < m THEN c + Len(p) ELSE c
      <4>1. CASE i - 1 <= n
        <5>1. i - 1 = n /\ m = 1
          BY <1>2, <2>2, <3>1, <4>1
        <5>2. cut2[i - 1] = c
          BY <1>7, <1>2, <5>1 DEF c
        <5>3. at \in DOMAIN new => ~(at < m)
          BY <1>2, <5>1
        <5>4. QED
          BY <5>2, <5>3
      <4>2. CASE i - 1 > n
        <5>1. cut2[i - 1] = IF at \in DOMAIN new /\ at <= (i - 1) - n THEN c + Len(p) ELSE c
          <6> DEFINE j == i - 1
          <6>1. j \in 0..Len(both) /\ ~(j <= n)
            BY <1>2, <3>1, <4>2
          <6> HIDE DEF j
          <6>2. cut2[j] = IF j <= n THEN cut[j] ELSE IF at \in DOMAIN new /\ at <= j - n THEN c + Len(p) ELSE c
            BY <6>1
          <6> HIDE DEF cut2
          <6>3. cut2[j] = IF at \in DOMAIN new /\ at <= j - n THEN c + Len(p) ELSE c
            BY <6>1, <6>2
          <6>4. QED
            BY <6>3 DEF j
        <5>2. at <= (i - 1) - n <=> at < m
          BY <1>2, <3>1
        <5>3. QED
          BY <5>1, <5>2
      <4>3. QED
        BY <1>2, <4>1, <4>2
    <3>4. CASE m = at
      <4>1. Part(both, s, i) = p
        BY <3>1, <3>4 DEF Part
      <4>2. cut2[i] = c + Len(p) /\ cut2[i - 1] = c
        BY <1>2, <3>1, <3>2, <3>3, <3>4
      <4>3. Follows(p, all, c)
        BY <1>3, <1>4, <1>5 DEF Follows
      <4>4. QED
        BY <4>1, <4>2, <4>3
    <3>5. CASE m # at
      <4>1. Part(both, s, i) = <<>> /\ Len(<<>>) = 0
        BY <3>1, <3>5 DEF Part
      <4>2. at <= m <=> at < m
        BY <1>2, <3>1, <3>5
      <4>3. cut2[i] = cut2[i - 1] /\ cut2[i - 1] \in {c, c + Len(p)}
        BY <3>2, <3>3, <4>2
      <4>4. cut2[i - 1] \in Nat /\ cut2[i - 1] <= Len(all)
        <5>1. c \in Nat /\ c <= Len(all) /\ c + Len(p) \in Nat /\ c + Len(p) <= Len(all)
          BY <1>3, <1>4
        <5>2. QED
          BY <4>3, <5>1
      <4>5. Follows(<<>>, all, cut2[i - 1])
        BY <4>4 DEF Follows
      <4>6. QED
        BY <4>1, <4>3, <4>4, <4>5
    <3>6. QED
      BY <3>4, <3>5
  <2>3. QED
    BY <1>2, <2>1, <2>2
<1>9. cut2[Len(both)] = c + Len(p)
  <2>1. CASE Len(new) = 0
    <3>1. Len(both) = n /\ at \notin DOMAIN new
      BY <1>2, <2>1
    <3>2. cut2[Len(both)] = c /\ Len(p) = 0
      BY <1>2, <1>7, <3>1 DEF c
    <3>3. QED
      BY <1>4, <3>2
  <2>2. CASE Len(new) # 0
    <3>1. Len(both) > n /\ Len(both) - n = Len(new) /\ Len(both) \in 0..Len(both)
      BY <1>2, <2>2
    <3>2. cut2[Len(both)] = IF at \in DOMAIN new /\ at <= Len(new) THEN c + Len(p) ELSE c
      BY <1>2, <3>1
    <3>3. CASE at \in DOMAIN new
      BY <1>2, <3>2, <3>3
    <3>4. CASE at \notin DOMAIN new
      <4>1. Len(p) = 0
        BY <3>4
      <4>2. QED
        BY <1>4, <3>2, <3>4, <4>1
    <3>5. QED
      BY <3>3, <3>4
  <2>3. QED
    BY <2>1, <2>2
<1>10. Follows(rest, all, c + Len(p)) /\ c + Len(p) + Len(rest) = Len(all)
  BY <1>3, <1>4, <1>5 DEF Follows
<1>11. cut2[0] = cut[0]
  BY <1>2, <1>7
<1> HIDE DEF cut2
<1>12. Split(both, s, rest, all, cut2)
  BY <1>6, <1>8, <1>9, <1>10 DEF Split
<1>13. QED
  BY <1>1, <1>6, <1>11, <1>12 DEF Recording, both

\* Sequences of the same length with the same elements.
LEMMA SameSeq ==
  ASSUME NEW T, NEW a \in Seq(T), NEW b \in Seq(T), Len(a) = Len(b), \A i \in 1..Len(b) : a[i] = b[i]
  PROVE  a = b
OBVIOUS

\* The writer takes the first block, of s or of another subject.
LEMMA SplitTail ==
  ASSUME NEW q \in Seq(Blocks), q # <<>>, NEW s, NEW rest \in Seq(Shapes), NEW all \in Seq(Shapes),
         NEW cut, Split(q, s, rest, all, cut)
  PROVE  /\ cut[0] \in 0..Len(all)
         /\ \E cut2 \in [0..Len(Tail(q)) -> 0..Len(all)] :
              /\ Split(Tail(q), s, rest, all, cut2) /\ cut2[0] = cut[0] + Len(Part(q, s, 1))
              /\ SubSeq(all, 1, cut2[0]) = SubSeq(all, 1, cut[0]) \o Part(q, s, 1)
<1> DEFINE t    == Tail(q)
           cut2 == [i \in 0..Len(t) |-> cut[i + 1]]
           p    == Part(q, s, 1)
<1>1. /\ t \in Seq(Blocks) /\ Len(q) \in Nat \ {0} /\ Len(t) = Len(q) - 1 /\ DOMAIN q = 1..Len(q)
      /\ DOMAIN t = 1..(Len(q) - 1)
      /\ \A i \in DOMAIN t : t[i] = q[i + 1] /\ i + 1 \in DOMAIN q
  BY TailIs
<1> HIDE DEF t
<1>2. cut \in [0..Len(q) -> 0..Len(all)] /\ Len(all) \in Nat
  BY DEF Split
<1>3. \A i \in 0..Len(t) : i + 1 \in 0..Len(q)
  BY <1>1
<1>4. cut2 \in [0..Len(t) -> 0..Len(all)]
  BY <1>2, <1>3
<1>5. ASSUME NEW i \in DOMAIN t
      PROVE  Follows(Part(t, s, i), all, cut2[i - 1]) /\ cut2[i] = cut2[i - 1] + Len(Part(t, s, i))
  <2>1. i \in 0..Len(t) /\ i - 1 \in 0..Len(t) /\ (i - 1) + 1 = i /\ (i + 1) - 1 = i
    BY <1>1
  <2>2. cut2[i] = cut[i + 1] /\ cut2[i - 1] = cut[i]
    BY <2>1
  <2>3. Part(t, s, i) = Part(q, s, i + 1) /\ i + 1 \in DOMAIN q
    BY <1>1 DEF Part
  <2>4. /\ Follows(Part(q, s, i + 1), all, cut[(i + 1) - 1])
        /\ cut[i + 1] = cut[(i + 1) - 1] + Len(Part(q, s, i + 1))
    BY <2>3 DEF Split
  <2>5. QED
    BY <2>1, <2>2, <2>3, <2>4
<1>6. cut2[Len(t)] = cut[Len(q)]
  <2>1. Len(t) \in 0..Len(t) /\ Len(t) + 1 = Len(q)
    BY <1>1
  <2>2. QED
    BY <2>1
<1>7. cut2[0] = cut[1] /\ cut[0] \in 0..Len(all) /\ cut[1] \in 0..Len(all)
  <2>1. 0 \in 0..Len(t) /\ 0 + 1 = 1 /\ 0 \in 0..Len(q) /\ 1 \in 0..Len(q)
    BY <1>1
  <2>2. QED
    BY <1>2, <2>1
<1>8. p \in Seq(Shapes) /\ Len(p) \in Nat
  BY <1>1, PartIs
<1>9. cut[1] = cut[0] + Len(p) /\ Follows(p, all, cut[0])
  <2>1. 1 \in DOMAIN q /\ 1 - 1 = 0
    BY <1>1
  <2>2. Follows(p, all, cut[1 - 1]) /\ cut[1] = cut[1 - 1] + Len(p)
    BY <2>1 DEF Split
  <2>3. QED
    BY <2>1, <2>2
<1>10. Split(t, s, rest, all, cut2)
  <2>1. Follows(rest, all, cut[Len(q)]) /\ cut[Len(q)] + Len(rest) = Len(all)
    BY DEF Split
  <2> HIDE DEF cut2
  <2>2. QED
    BY <1>4, <1>5, <1>6, <2>1 DEF Split
<1> HIDE DEF cut2, p
<1>11. SubSeq(all, 1, cut[1]) = SubSeq(all, 1, cut[0]) \o p
  <2> DEFINE a == SubSeq(all, 1, cut[0])
             b == SubSeq(all, 1, cut[1])
  <2>1. a \in Seq(Shapes) /\ Len(a) = cut[0] /\ \A i \in 1..cut[0] : a[i] = all[i]
    BY <1>2, <1>7
  <2>2. b \in Seq(Shapes) /\ Len(b) = cut[1] /\ \A i \in 1..cut[1] : b[i] = all[i]
    BY <1>2, <1>7
  <2> HIDE DEF a, b
  <2>3. /\ a \o p \in Seq(Shapes) /\ Len(a \o p) = cut[0] + Len(p)
        /\ \A i \in 1..cut[0] : (a \o p)[i] = a[i]
        /\ \A i \in (cut[0] + 1)..(cut[0] + Len(p)) : (a \o p)[i] = p[i - cut[0]]
    <3>1. /\ a \o p \in Seq(Shapes) /\ Len(a \o p) = Len(a) + Len(p)
          /\ \A i \in 1..Len(a) : (a \o p)[i] = a[i]
          /\ \A i \in (Len(a) + 1)..(Len(a) + Len(p)) : (a \o p)[i] = p[i - Len(a)]
      BY <1>8, <2>1, ConcatIs
    <3>2. QED
      BY <2>1, <3>1
  <2>4. Len(a \o p) = Len(b)
    BY <1>9, <2>2, <2>3
  <2>5. ASSUME NEW i \in 1..cut[1] PROVE (a \o p)[i] = b[i]
    <3>1. CASE i <= cut[0]
      BY <1>7, <2>1, <2>2, <2>3, <3>1
    <3>2. CASE i > cut[0]
      <4>1. i \in (cut[0] + 1)..(cut[0] + Len(p)) /\ i - cut[0] \in 1..Len(p) /\ cut[0] + (i - cut[0]) = i
        BY <1>7, <1>8, <1>9, <3>2
      <4>2. all[cut[0] + (i - cut[0])] = p[i - cut[0]]
        BY <1>8, <1>9, <4>1 DEF Follows
      <4>3. QED
        BY <2>2, <2>3, <4>1, <4>2
    <3>3. i \in Int /\ cut[0] \in Int
      BY <1>2, <1>7
    <3>4. i <= cut[0] \/ i > cut[0]
      BY <3>3
    <3>5. QED
      BY <3>1, <3>2, <3>4
  <2>6. a \o p = b
    BY <2>2, <2>3, <2>4, <2>5, SameSeq
  <2>7. QED
    BY <2>6 DEF a, b
<1>12. QED
  <2>1. cut2[0] = cut[0] + Len(p) /\ SubSeq(all, 1, cut2[0]) = SubSeq(all, 1, cut[0]) \o p
    BY <1>7, <1>9, <1>11
  <2>2. \E c \in [0..Len(t) -> 0..Len(all)] :
          /\ Split(t, s, rest, all, c) /\ c[0] = cut[0] + Len(p)
          /\ SubSeq(all, 1, c[0]) = SubSeq(all, 1, cut[0]) \o p
    BY <1>4, <1>10, <2>1
  <2>3. QED
    BY <1>7, <2>2 DEF p, t

\* A block of another subject.
LEMMA RecordsOther ==
  ASSUME NEW q \in Seq(Blocks), q # <<>>, NEW s, NEW rest \in Seq(Shapes), NEW all \in Seq(Shapes),
         NEW file, NEW headers, Recording(file, headers, q, s, rest, all), Head(q).subject # s
  PROVE  Recording(file, headers, Tail(q), s, rest, all)
<1>1. PICK cut \in [0..Len(q) -> 0..Len(all)] :
        FileOK(file, SubSeq(all, 1, cut[0])) /\ Split(q, s, rest, all, cut)
  BY DEF Recording
<1>2. Head(q) = q[1]
  BY TailIs
<1>3. Part(q, s, 1) = <<>> /\ Len(<<>>) = 0
  BY <1>2 DEF Part
<1>4. cut[0] \in 0..Len(all)
  BY <1>1, SplitTail
<1>5. PICK cut2 \in [0..Len(Tail(q)) -> 0..Len(all)] :
        Split(Tail(q), s, rest, all, cut2) /\ cut2[0] = cut[0] + Len(Part(q, s, 1))
  BY <1>1, SplitTail
<1>6. cut2[0] = cut[0]
  BY <1>3, <1>4, <1>5
<1>7. QED
  BY <1>1, <1>5, <1>6 DEF Recording

\* A block of s is written.
LEMMA RecordsWrite ==
  ASSUME NEW q \in Seq(Blocks), q # <<>>, NEW rest \in Seq(Shapes), NEW all \in Seq(Shapes),
         NEW s, s = Head(q).subject, NEW block, block = Head(q).block,
         NEW file \in Files, NEW headers, Recording(file, headers, q, s, rest, all)
  PROVE  LET w == Appended(EnsureRawHeaders(headers, file, block), block) IN
         Recording(w.file, w.headers, Tail(q), s, rest, all)
<1> DEFINE w == Appended(EnsureRawHeaders(headers, file, block), block)
<1>1. PICK cut \in [0..Len(q) -> 0..Len(all)] :
        FileOK(file, SubSeq(all, 1, cut[0])) /\ Split(q, s, rest, all, cut)
  BY DEF Recording
<1> DEFINE a == SubSeq(all, 1, cut[0])
<1>2. Head(q) = q[1] /\ Head(q) \in Blocks
  BY TailIs
<1>3. Part(q, s, 1) = block /\ block \in Seq(Shapes)
  BY <1>2 DEF Part, Blocks
<1>4. PICK cut2 \in [0..Len(Tail(q)) -> 0..Len(all)] :
        /\ Split(Tail(q), s, rest, all, cut2)
        /\ SubSeq(all, 1, cut2[0]) = a \o Part(q, s, 1)
  BY <1>1, SplitTail
<1>5. a \in Seq(Shapes)
  <2>1. cut[0] \in 0..Len(all)
    BY <1>1, SplitTail
  <2>2. QED
    BY <2>1
<1> HIDE DEF a
<1>6. headers = file.header /\ FileOK(file, a)
  BY <1>1 DEF Recording, a
<1>7. w.file.header = w.headers /\ FileOK(w.file, a \o block)
  BY <1>3, <1>5, <1>6, WriteKeeps
<1> HIDE DEF w
<1>8. Recording(w.file, w.headers, Tail(q), s, rest, all)
  BY <1>3, <1>4, <1>7 DEF Recording
<1>9. QED
  BY <1>8 DEF w

\* A file that has just been opened.
LEMMA RecordsNew ==
  ASSUME NEW q \in Seq(Blocks), NEW s, \A i \in DOMAIN q : q[i].subject # s,
         NEW file, file.header = <<>>, file.rows = <<>>
  PROVE  Recording(file, <<>>, q, s, <<>>, <<>>)
<1> DEFINE cut == [i \in 0..Len(q) |-> 0]
<1>1. Len(q) \in Nat /\ DOMAIN q = 1..Len(q) /\ Len(<<>>) = 0
  OBVIOUS
<1>2. cut \in [0..Len(q) -> 0..0] /\ \A i \in 0..Len(q) : cut[i] = 0
  BY <1>1
<1> HIDE DEF cut
<1>3. Follows(<<>>, <<>>, 0)
  BY <1>1 DEF Follows
<1>4. ASSUME NEW i \in DOMAIN q
      PROVE  Follows(Part(q, s, i), <<>>, cut[i - 1]) /\ cut[i] = cut[i - 1] + Len(Part(q, s, i))
  <2>1. cut[i] = 0 /\ cut[i - 1] = 0
    <3>1. i \in 0..Len(q) /\ i - 1 \in 0..Len(q)
      BY <1>1
    <3>2. QED
      BY <1>2, <3>1
  <2>2. Part(q, s, i) = <<>>
    BY DEF Part
  <2>3. QED
    BY <1>1, <1>3, <2>1, <2>2
<1>5. cut[Len(q)] = 0 /\ cut[0] = 0
  BY <1>1, <1>2
<1>6. Split(q, s, <<>>, <<>>, cut)
  BY <1>1, <1>2, <1>3, <1>4, <1>5 DEF Split
<1>7. SubSeq(<<>>, 1, 0) = <<>>
  OBVIOUS
<1>8. FileOK(file, SubSeq(<<>>, 1, cut[0]))
  BY <1>5, <1>7, NewFileOK
<1>9. QED
  BY <1>1, <1>2, <1>6, <1>8 DEF Recording

\* Once nothing of s is on its way, the file holds all of the samples.
LEMMA RecordsDone ==
  ASSUME NEW s, NEW all \in Seq(Shapes), NEW file, NEW headers,
         Recording(file, headers, <<>>, s, <<>>, all)
  PROVE  FileOK(file, all)
<1>1. PICK cut \in [0..Len(<<>>) -> 0..Len(all)] :
        FileOK(file, SubSeq(all, 1, cut[0])) /\ Split(<<>>, s, <<>>, all, cut)
  BY DEF Recording
<1>2. Len(<<>>) = 0 /\ Len(all) \in Nat
  OBVIOUS
<1>3. cut[0] \in 0..Len(all) /\ cut[0] + 0 = Len(all)
  BY <1>1, <1>2 DEF Split
<1>4. SubSeq(all, 1, Len(all)) = all /\ cut[0] = Len(all)
  BY <1>2, <1>3
<1>5. QED
  BY <1>1, <1>4

-----------------------------------------------------------------------------
(* Every accepted sample is accounted for, when removals do not fail. *)

\* A session of which nothing was opened, accepted or ended.
Unstarted(k) == \A s \in Subjects : home[k][s] = NoDir /\ accepted[k][s] = <<>> /\ ended[k][s] = "no"

\* A session that is to come, or that warms up, has no files yet; a session's
\* files are in a directory of the session.
FreshOK ==
  /\ \A k \in Sessions : k > session => Unstarted(k)
  /\ phase = "warming" => Unstarted(session)
  /\ \A k \in Sessions, s \in Subjects : home[k][s] # NoDir => home[k][s][2] = k

\* Nothing is on its way for a subject that does not stream; one that streams
\* writes where it was opened, in a directory that is there.
StreamOK ==
  \A s \in Subjects :
    /\ s \notin streaming =>
         /\ buffer[s] = <<>> /\ data.subject # s
         /\ \A i \in DOMAIN rawq : rawq[i].subject # s
    /\ s \in streaming =>
         LET d == entry[s].path IN
         /\ home[d[2]][s] = d /\ ended[d[2]][s] = "no" /\ d[2] \notin sealed /\ disk[d].present

\* A STOP that has flushed its subjects finds nothing of them outside the queue.
DrainOK ==
  /\ stop.pc \in {"settle", "join"} => stop.subjects \subseteq stopping
  /\ stop.pc = "join" => \A s \in stop.subjects : buffer[s] = <<>> /\ data.subject # s

\* While a subject streams and no write of it has failed.
RecordOf(s) ==
  Recording(disk[entry[s].path].raw[s], entry[s].headers, rawq, s, Unqueued(s),
            accepted[entry[s].path[2]][s])
WritingOK == \A s \in streaming : failures[s] = NoDir => RecordOf(s)

\* After it was stopped: in its directory, or in the archive once that is removed.
StoredOK(k, s) ==
  LET h == home[k][s] IN
  /\ h # NoDir
  /\ h \notin removed => FileOK(disk[h].raw[s], accepted[k][s])
  /\ h \in removed    => FileOK(zips[h].raw[s], accepted[k][s])
WrittenOK ==
  /\ \A k \in Sessions, s \in Subjects : ended[k][s] = "ok" => StoredOK(k, s)
  /\ stop.pc = "remove" => zips[stop.source].raw = disk[stop.source].raw

RowsInv == FreshOK /\ StreamOK /\ DrainOK /\ WritingOK /\ WrittenOK

\* Concatenation with the empty sequence, and with a single element.
LEMMA ConcatEmpty ==
  ASSUME NEW T, NEW q \in Seq(T)
  PROVE  q \o <<>> = q /\ <<>> \o q = q /\ <<>> \in Seq(T)
<1>1. <<>> \in Seq(T) /\ Len(<<>>) = 0 /\ Len(q) \in Nat
  OBVIOUS
<1>2. q \o <<>> = q
  BY <1>1, SameSeq
<1>3. <<>> \o q = q
  BY <1>1, SameSeq
<1>4. QED
  BY <1>1, <1>2, <1>3

\* Appending is concatenation with a single element.
LEMMA AppendConcat ==
  ASSUME NEW T, NEW q \in Seq(T), NEW e \in T
  PROVE  Append(q, e) = q \o <<e>> /\ <<e>> \in Seq(T) /\ Len(<<e>>) = 1 /\ <<e>>[1] = e /\ DOMAIN <<e>> = {1}
<1>1. <<e>> \in Seq(T) /\ Len(<<e>>) = 1 /\ <<e>>[1] = e /\ DOMAIN <<e>> = {1}
  OBVIOUS
<1>2. Append(q, e) = q \o <<e>>
  <2> DEFINE a == Append(q, e)
             b == q \o <<e>>
  <2>1. a \in Seq(T) /\ b \in Seq(T) /\ Len(a) = Len(q) + 1 /\ Len(b) = Len(q) + 1 /\ Len(q) \in Nat
    OBVIOUS
  <2>2. \A i \in 1..Len(q) : a[i] = q[i] /\ b[i] = q[i]
    OBVIOUS
  <2>3. a[Len(q) + 1] = e /\ b[Len(q) + 1] = e
    OBVIOUS
  <2> HIDE DEF a, b
  <2>4. \A i \in 1..Len(b) : i \in 1..Len(q) \/ i = Len(q) + 1
    BY <2>1
  <2>5. a = b
    BY <2>1, <2>2, <2>3, <2>4, SameSeq
  <2>6. QED
    BY <2>5 DEF a, b
<1>3. QED
  BY <1>1, <1>2

\* A sequence cut in two.
LEMMA CutInTwo ==
  ASSUME NEW T, NEW q \in Seq(T), NEW n \in 0..Len(q)
  PROVE  LET a == SubSeq(q, 1, n)
             b == SubSeq(q, n + 1, Len(q))
         IN a \in Seq(T) /\ b \in Seq(T) /\ q = a \o b /\ Len(a) = n
<1> DEFINE a == SubSeq(q, 1, n)
           b == SubSeq(q, n + 1, Len(q))
<1>0. Len(q) \in Nat /\ n \in Nat
  OBVIOUS
<1>1. a \in Seq(T) /\ Len(a) = n /\ \A i \in 1..n : a[i] = q[i]
  BY <1>0
<1>2. b \in Seq(T) /\ Len(b) = Len(q) - n /\ \A i \in 1..(Len(q) - n) : b[i] = q[n + i]
  BY <1>0
<1> HIDE DEF a, b
<1>3. /\ a \o b \in Seq(T) /\ Len(a \o b) = Len(a) + Len(b)
      /\ \A i \in 1..Len(a) : (a \o b)[i] = a[i]
      /\ \A i \in (Len(a) + 1)..(Len(a) + Len(b)) : (a \o b)[i] = b[i - Len(a)]
  <2>1. a \in Seq(T) /\ b \in Seq(T)
    BY <1>1, <1>2
  <2>2. QED
    BY <2>1, ConcatIs
<1>4. ASSUME NEW i \in 1..Len(q) PROVE (a \o b)[i] = q[i]
  <2>1. CASE i <= n
    BY <1>0, <1>1, <1>3, <2>1
  <2>2. CASE i > n
    <3>1. i \in (Len(a) + 1)..(Len(a) + Len(b)) /\ i - Len(a) \in 1..(Len(q) - n) /\ n + (i - Len(a)) = i
      BY <1>0, <1>1, <1>2, <2>2
    <3>2. QED
      BY <1>2, <1>3, <3>1
  <2>3. i <= n \/ i > n
    BY <1>0
  <2>4. QED
    BY <2>1, <2>2, <2>3
<1>5. Len(a \o b) = Len(q)
  BY <1>0, <1>1, <1>2, <1>3
<1>6. a \o b = q
  BY <1>3, <1>4, <1>5, SameSeq
<1>7. QED
  BY <1>1, <1>2, <1>6 DEF a, b

\* What is not yet in a block.
LEMMA UnqueuedIs ==
  ASSUME FilesShapes, NEW s \in Subjects
  PROVE  /\ Unqueued(s) \in Seq(Shapes) /\ buffer[s] \in Seq(Shapes)
         /\ data.subject # s => Unqueued(s) = buffer[s]
         /\ data.subject = s => data.shape \in Shapes /\ Unqueued(s) = buffer[s] \o <<data.shape>>
         /\ NoData.subject # s
<1>1. buffer[s] \in Seq(Shapes)
  BY DEF FilesShapes, SampleOK
<1>2. NoData.subject # s
  BY FilesAssumption DEF NoData
<1>3. CASE data.subject # s
  BY <1>1, <1>2, <1>3, ConcatEmpty DEF Unqueued
<1>4. CASE data.subject = s
  <2>1. data.shape \in Shapes
    BY <1>2, <1>4 DEF FilesShapes, SampleOK
  <2>2. Unqueued(s) = buffer[s] \o <<data.shape>>
    BY <1>4 DEF Unqueued
  <2>3. QED
    BY <1>1, <1>2, <1>4, <2>1, <2>2, AppendConcat
<1>5. QED
  BY <1>3, <1>4

\* The types of what belongs to a streaming subject.
LEMMA StreamIs ==
  ASSUME FilesShapes, PathsOK, NEW s \in streaming
  PROVE  /\ s \in Subjects /\ entry[s].path \in Dirs /\ entry[s].path # NoDir
         /\ entry[s].path[2] \in Sessions /\ entry[s].path[2] \in 1..session
         /\ accepted[entry[s].path[2]][s] \in Seq(Shapes)
         /\ disk[entry[s].path].raw[s] \in Files /\ rawq \in Seq(Blocks)
<1>1. s \in Subjects /\ rawq \in Seq(Blocks)
  BY DEF FilesShapes, CoreOK, SampleOK
<1>2. entry[s].path # NoDir /\ entry[s].path[2] \in 1..session
  BY <1>1 DEF PathsOK
<1>3. QED
  BY <1>1, <1>2, PathIs DEF FilesShapes, HistoryOK

\* Before the first START nothing has been accepted.
LEMMA InitRows == FilesInit => RowsInv
<1> SUFFICES ASSUME FilesInit PROVE RowsInv
  OBVIOUS
<1> USE DEF FilesInit
<1>1. \A k \in Sessions : Unstarted(k)
  BY DEF Unstarted
<1>2. FreshOK
  BY <1>1 DEF FreshOK
<1>3. StreamOK
  <2>1. data.subject = "none" /\ rawq = <<>> /\ streaming = {} /\ \A s \in Subjects : buffer[s] = <<>>
    BY DEF NoData
  <2>2. QED
    BY <2>1, FilesAssumption DEF StreamOK
<1>4. DrainOK /\ stop.pc = "none"
  BY Nothings DEF DrainOK
<1>5. WritingOK
  BY DEF WritingOK
<1>6. WrittenOK
  BY <1>1, <1>4 DEF WrittenOK, Unstarted
<1>7. QED
  BY <1>2, <1>3, <1>4, <1>5, <1>6 DEF RowsInv

\* A step that leaves the sample path, the history and the raw files alone.
LEMMA RowsFrame ==
  ASSUME GoneInv, RowsInv, FreshOK', DrainOK',
         UNCHANGED <<home, accepted, ended, streaming, buffer, data, rawq, entry, failures, removed, zips>>,
         sealed' = sealed \/ streaming = {},
         \A d \in Dirs : disk'[d].raw = disk[d].raw /\ (disk[d].present => disk'[d].present),
         stop'.pc = "remove" => stop.pc = "remove" /\ stop'.source = stop.source
  PROVE  RowsInv'
<1>1. FilesShapes /\ PathsOK /\ LifeOK
  BY DEF GoneInv
<1>2. StreamOK'
  <2>1. ASSUME NEW s \in streaming PROVE entry[s].path \in Dirs
    BY <1>1, StreamIs
  <2>2. QED
    BY <2>1 DEF RowsInv, StreamOK
<1>3. WritingOK'
  <2>1. ASSUME NEW s \in streaming, failures[s] = NoDir PROVE RecordOf(s)'
    <3>1. disk'[entry[s].path].raw[s] = disk[entry[s].path].raw[s]
      BY <1>1, StreamIs
    <3>2. RecordOf(s)
      BY <2>1 DEF RowsInv, WritingOK
    <3>3. Unqueued(s)' = Unqueued(s)
      BY DEF Unqueued
    <3>4. QED
      BY <3>1, <3>2, <3>3 DEF RecordOf
  <2>2. QED
    BY <2>1 DEF WritingOK
<1>4. WrittenOK'
  <2>1. ASSUME NEW k \in Sessions, NEW s \in Subjects, ended[k][s] = "ok" PROVE StoredOK(k, s)'
    <3>1. StoredOK(k, s)
      BY <2>1 DEF RowsInv, WrittenOK
    <3>2. home[k][s] # NoDir => home[k][s] \in Dirs
      BY <1>1, DirsAre DEF FilesShapes, HistoryOK
    <3>3. QED
      BY <3>1, <3>2 DEF StoredOK
  <2>2. stop'.pc = "remove" => zips'[stop'.source].raw = disk'[stop'.source].raw
    BY <1>1 DEF LifeOK, RowsInv, WrittenOK
  <2>3. QED
    BY <2>1, <2>2 DEF WrittenOK
<1>5. QED
  BY <1>2, <1>3, <1>4 DEF RowsInv

\* A session stays fresh while nothing is opened.
LEMMA FreshFrame ==
  ASSUME FreshOK, UNCHANGED <<session, home, accepted, ended>>, phase' = "warming" => phase = "warming"
  PROVE  FreshOK'
BY DEF FreshOK, Unstarted

\* A step of the STOP that is not a drain.
LEMMA DrainFrame ==
  ASSUME DrainOK,
         stop'.pc \in {"settle", "join"} => UNCHANGED <<stop, stopping, buffer, data>>
  PROVE  DrainOK'
BY DEF DrainOK

\* The steps of the diagnostics, of the compute worker, and of the configuration.
LEMMA RowsQuiet ==
  ASSUME GoneInv, RowsInv,
         \/ Snapshot \/ PipelineWrite \/ DiagnosticsWrite \/ SetFilePath \/ RegisterAlgorithms
         \/ ResetCompute \/ Compute \/ QueuePerformance
  PROVE  RowsInv'
<1>1. FilesShapes /\ FreshOK /\ DrainOK
  BY DEF GoneInv, RowsInv
<1>2. /\ UNCHANGED <<home, accepted, ended, streaming, buffer, data, rawq, entry, failures, removed, zips>>
      /\ UNCHANGED <<sealed, stop, stopping, session, phase>>
  <2>1. CASE Snapshot \/ PipelineWrite \/ DiagnosticsWrite \/ SetFilePath
    BY <2>1 DEF Snapshot, PipelineWrite, DiagnosticsWrite, SetFilePath, core, samples, diags, disks, history
  <2>2. CASE RegisterAlgorithms \/ ResetCompute \/ Compute \/ QueuePerformance
    BY <2>2 DEF RegisterAlgorithms, ResetCompute, Compute, QueuePerformance, core, samples, diags, disks,
                history
  <2>3. QED
    BY <2>1, <2>2
<1>3. \A d \in Dirs : disk'[d].raw = disk[d].raw /\ (disk[d].present => disk'[d].present)
  <2>1. CASE Snapshot \/ SetFilePath \/ RegisterAlgorithms \/ ResetCompute \/ QueuePerformance
    BY <2>1 DEF Snapshot, SetFilePath, RegisterAlgorithms, ResetCompute, QueuePerformance, disks
  <2>2. CASE PipelineWrite
    BY <1>1, <2>2, PipelineMakes
  <2>3. CASE DiagnosticsWrite
    <3>1. Head(diagq) \in 0..MaxSessions
      BY <1>1, <2>3, TailIs, FilesAssumption DEF FilesShapes, CoreOK, WritersOK, DiagnosticsWrite
    <3>2. QED
      BY <1>1, <2>3, <3>1, DiagnosticsMake DEF DiagnosticsWrite
  <2>4. CASE Compute
    BY <1>1, <2>4, ComputeKeeps DEF DiskKept
  <2>5. QED
    BY <2>1, <2>2, <2>3, <2>4
<1>4. FreshOK' /\ DrainOK'
  BY <1>1, <1>2, FreshFrame, DrainFrame
<1>5. QED
  BY <1>2, <1>3, <1>4, RowsFrame

\* The steps of a STOP around the drain and the archive.
LEMMA RowsEnding ==
  ASSUME GoneInv, RowsInv,
         \/ Summarise \/ Detach \/ JoinDiagnostics \/ Seal \/ Report \/ ReportFailure \/ FinalizeDistributed
  PROVE  RowsInv'
<1>1. FilesShapes /\ LifeOK /\ FreshOK /\ DrainOK /\ CoreOK /\ session \in 0..MaxSessions
  BY DEF GoneInv, RowsInv, FilesShapes, CoreOK
<1>2. /\ UNCHANGED <<home, accepted, ended, streaming, buffer, data, rawq, entry, failures, removed, zips>>
      /\ session' = session /\ phase' \in {phase, "idle"}
  <2>1. CASE Summarise \/ Detach \/ JoinDiagnostics \/ Seal
    BY <2>1 DEF Summarise, Detach, JoinDiagnostics, Seal, core, samples, disks, history
  <2>2. CASE Report \/ ReportFailure \/ FinalizeDistributed
    BY <2>2 DEF Report, ReportFailure, FinalizeDistributed, Finish, core, samples, disks, history
  <2>3. QED
    BY <2>1, <2>2
<1>3. stop'.pc \notin {"settle", "join", "remove"}
  <2>1. CASE Summarise
    BY <1>1, <2>1, ToIs DEF Summarise, Pcs
  <2>2. CASE Detach
    BY <1>1, <2>2, ToIs DEF Detach, Pcs
  <2>3. CASE JoinDiagnostics
    BY <1>1, <2>3, ToIs DEF JoinDiagnostics, Pcs
  <2>4. CASE Seal
    BY <1>1, <2>4, ToIs DEF Seal, Pcs
  <2>5. CASE Report \/ ReportFailure
    BY <2>5, Nothings DEF Report, ReportFailure, Finish
  <2>6. CASE FinalizeDistributed
    BY <2>6 DEF FinalizeDistributed, NoStop
  <2>7. QED
    BY <2>1, <2>2, <2>3, <2>4, <2>5, <2>6
<1>4. \A d \in Dirs : disk'[d].raw = disk[d].raw /\ (disk[d].present => disk'[d].present)
  <2>1. CASE StartDiagnostics(session)
    BY <1>1, <2>1, DiagnosticsMake
  <2>2. CASE disk' = disk
    BY <2>2
  <2>3. QED
    BY <2>1, <2>2 DEF Summarise, Detach, JoinDiagnostics, Seal, Report, ReportFailure, FinalizeDistributed,
                      disks
<1>5. sealed' = sealed \/ streaming = {}
  <2>1. CASE Seal
    BY <1>1, <2>1 DEF Seal, LifeOK, Ending
  <2>2. CASE ~Seal
    BY <2>2 DEF Summarise, Detach, JoinDiagnostics, Report, ReportFailure, FinalizeDistributed, Finish, diags
  <2>3. QED
    BY <2>1, <2>2
<1>6. FreshOK' /\ DrainOK'
  BY <1>1, <1>2, <1>3, FreshFrame, DrainFrame
<1>7. QED
  BY <1>2, <1>3, <1>4, <1>5, <1>6, RowsFrame

\* A STOP begins.
LEMMA RowsStop ==
  ASSUME GoneInv, RowsInv, NEW S \in SUBSET Subjects, NEW shared \in BOOLEAN, Stop(S, shared)
  PROVE  RowsInv'
<1>1. FilesShapes /\ FreshOK
  BY DEF GoneInv, RowsInv
<1>2. /\ UNCHANGED <<home, accepted, ended, streaming, buffer, data, rawq, entry, failures, removed, zips>>
      /\ UNCHANGED <<session, sealed, disk>> /\ phase' \in {phase, "stopping"}
  BY DEF Stop, samples, diags, disks, history
<1>3. stop'.pc = "settle" /\ stop'.subjects = S /\ stopping' = stopping \cup S
  BY DEF Stop, NoStop
<1>4. DrainOK'
  BY <1>3 DEF DrainOK
<1>5. FreshOK'
  BY <1>1, <1>2, FreshFrame
<1>6. QED
  BY <1>2, <1>3, <1>4, <1>5, RowsFrame

\* A START: its subjects do not stream, so that their buffers are empty already.
LEMMA RowsStart ==
  ASSUME GoneInv, RowsInv, NEW S \in SUBSET Subjects, Start(S)
  PROVE  RowsInv'
<1>1. FilesShapes /\ FreshOK /\ StreamOK /\ DrainOK
  BY DEF GoneInv, RowsInv
<1>2. session \in Nat /\ session + 1 \in Sessions /\ session + 1 \in 0..MaxSessions /\ session' = session + 1
  BY <1>1, FilesAssumption DEF FilesShapes, CoreOK, Start, Sessions
<1>3. buffer' = buffer
  <2>1. \A s \in Subjects : buffer'[s] = buffer[s]
    BY <1>1 DEF Start, StreamOK
  <2>2. buffer \in [Subjects -> Seq(Shapes)] /\ buffer' = [s \in Subjects |-> IF s \in S THEN <<>> ELSE buffer[s]]
    BY <1>1 DEF FilesShapes, SampleOK, Start
  <2>3. QED
    BY <2>1, <2>2
<1>4. /\ UNCHANGED <<home, accepted, ended, streaming, buffer, data, rawq, entry, failures, removed, zips>>
      /\ UNCHANGED <<sealed, stop, stopping>>
  BY <1>3 DEF Start, history
<1>5. \A d \in Dirs : disk'[d].raw = disk[d].raw /\ (disk[d].present => disk'[d].present)
  BY <1>1, <1>2, DiagnosticsMake DEF Start
<1>6. FreshOK'
  <2>1. \A k \in Sessions : k > session' => k > session
    BY <1>2 DEF Sessions
  <2>2. session' > session
    BY <1>2
  <2>3. QED
    BY <1>1, <1>2, <1>4, <2>1, <2>2 DEF FreshOK, Unstarted
<1>7. DrainOK'
  BY <1>1, <1>4, DrainFrame
<1>8. QED
  BY <1>4, <1>5, <1>6, <1>7, RowsFrame

\* A start that fails has opened no files.
LEMMA RowsStartFails ==
  ASSUME GoneInv, RowsInv, StartFails
  PROVE  RowsInv'
<1>1. FilesShapes /\ PathsOK /\ LifeOK /\ FreshOK /\ DrainOK /\ session \in 0..MaxSessions
  BY DEF GoneInv, RowsInv, FilesShapes, CoreOK
<1>2. members \cap streaming = {} /\ members \in SUBSET Subjects
  BY <1>1 DEF LifeOK, StartFails, FilesShapes, CoreOK
<1>3. \A s \in members : entry[s].path = NoDir
  BY <1>1, <1>2 DEF PathsOK
<1>4. entry' = entry
  <2>1. entry \in [Subjects -> [path: Places, headers: Seq(Names)]]
    BY <1>1 DEF FilesShapes, SampleOK
  <2>2. \A s \in members : [entry[s] EXCEPT !.path = NoDir] = entry[s]
    BY <1>2, <1>3, <2>1
  <2>3. QED
    BY <1>2, <2>1, <2>2 DEF StartFails, Closed
<1>5. ended' = ended
  <2>1. ended \in [Sessions -> [Subjects -> {"no", "ok", "partial"}]] /\ ended' \in [Sessions -> [Subjects -> {"no", "ok", "partial"}]]
    BY <1>1, EndsIs DEF FilesShapes, HistoryOK, StartFails
  <2>2. \A k \in Sessions, s \in Subjects : ended'[k][s] = ended[k][s]
    BY <1>1, <1>3, EndsIs DEF StartFails
  <2>3. \A k \in Sessions : ended'[k] = ended[k]
    BY <2>1, <2>2
  <2>4. QED
    BY <2>1, <2>3
<1>6. streaming' = streaming
  BY <1>2 DEF StartFails
<1>7. /\ UNCHANGED <<home, accepted, ended, streaming, buffer, data, rawq, entry, failures, removed, zips>>
      /\ UNCHANGED <<session, sealed>> /\ phase' \in {phase, "stopping"}
  BY <1>4, <1>5, <1>6 DEF StartFails
<1>8. stop'.pc \in {"detached", "report"}
  BY DEF StartFails, NoStop
<1>9. \A d \in Dirs : disk'[d].raw = disk[d].raw /\ (disk[d].present => disk'[d].present)
  BY <1>1, DiagnosticsMake DEF StartFails
<1>10. FreshOK' /\ DrainOK'
  BY <1>1, <1>7, <1>8, FreshFrame, DrainFrame
<1>11. QED
  BY <1>7, <1>8, <1>9, <1>10, RowsFrame

\* A sample is accepted.
LEMMA RowsOnData ==
  ASSUME GoneInv, RowsInv, NEW s \in Subjects, NEW shape \in Shapes, OnData(s, shape)
  PROVE  RowsInv'
<1> DEFINE j == entry[s].path[2]
<1>1. FilesShapes /\ PathsOK /\ FreshOK /\ StreamOK /\ DrainOK /\ WritingOK /\ WrittenOK
  BY DEF GoneInv, RowsInv
<1>2. /\ UNCHANGED <<home, ended, streaming, buffer, rawq, entry, failures, removed, zips, sealed, disk>>
      /\ UNCHANGED <<stop, stopping, session, phase>> /\ phase = "official"
      /\ data = NoData /\ data' = [subject |-> s, shape |-> shape] /\ s \in streaming /\ s \notin stopping
  BY DEF OnData, core, diags, disks
<1>3. data'.subject = s /\ data'.shape = shape
  BY <1>2
<1>4. /\ j \in Sessions /\ j \in 1..session
      /\ \A k \in Sessions, t \in Subjects :
           accepted'[k][t] = IF k = j /\ t = s THEN Append(accepted[k][t], shape) ELSE accepted[k][t]
  BY <1>1, <1>2, AcceptedIs, StreamIs
<1>5. home[j][s] # NoDir /\ ended[j][s] = "no"
  BY <1>1, <1>2, StreamIs DEF StreamOK
<1> HIDE DEF j
<1>6. FreshOK'
  <2>1. ASSUME NEW k \in Sessions, k > session PROVE Unstarted(k)'
    <3>1. Unstarted(k) /\ k # j
      <4>1. session \in Nat /\ k \in Nat
        BY <1>1, FilesAssumption DEF FilesShapes, CoreOK, Sessions
      <4>2. QED
        BY <1>1, <1>4, <2>1, <4>1 DEF FreshOK
    <3>2. QED
      BY <1>2, <1>4, <3>1 DEF Unstarted
  <2>2. QED
    BY <1>1, <1>2, <2>1 DEF FreshOK
<1>7. StreamOK'
  BY <1>1, <1>2, <1>3 DEF StreamOK
<1>8. DrainOK'
  BY <1>1, <1>2, <1>3 DEF DrainOK
<1>9. WritingOK'
  <2>1. ASSUME NEW t \in streaming, failures[t] = NoDir PROVE RecordOf(t)'
    <3>1. t \in Subjects /\ entry[t].path[2] \in Sessions /\ accepted[entry[t].path[2]][t] \in Seq(Shapes)
          /\ rawq \in Seq(Blocks)
      BY <1>1, StreamIs
    <3>2. RecordOf(t) /\ Unqueued(t) = buffer[t] /\ buffer[t] \in Seq(Shapes)
      BY <1>1, <1>2, <2>1, <3>1, UnqueuedIs DEF WritingOK
    <3>3. CASE t = s
      <4>1. Unqueued(t)' = Unqueued(t) \o <<shape>>
        BY <1>2, <1>3, <3>2, <3>3 DEF Unqueued
      <4>2. accepted'[entry[t].path[2]][t] = Append(accepted[entry[t].path[2]][t], shape)
        BY <1>4, <3>3 DEF j
      <4>3. QED
        BY <1>2, <3>1, <3>2, <4>1, <4>2, RecordsAccept DEF RecordOf
    <3>4. CASE t # s
      <4>1. Unqueued(t)' = Unqueued(t)
        BY <1>2, <1>3, <3>2, <3>4, ConcatEmpty DEF Unqueued
      <4>2. accepted'[entry[t].path[2]][t] = accepted[entry[t].path[2]][t]
        BY <1>4, <3>1, <3>4
      <4>3. QED
        BY <1>2, <3>2, <4>1, <4>2 DEF RecordOf
    <3>5. QED
      BY <3>3, <3>4
  <2>2. QED
    BY <1>2, <2>1 DEF WritingOK
<1>10. WrittenOK'
  <2>1. ASSUME NEW k \in Sessions, NEW t \in Subjects, ended[k][t] = "ok" PROVE StoredOK(k, t)'
    <3>1. accepted'[k][t] = accepted[k][t]
      BY <1>4, <1>5, <2>1
    <3>2. QED
      BY <1>1, <1>2, <2>1, <3>1 DEF WrittenOK, StoredOK
  <2>2. QED
    BY <1>1, <1>2, <2>1 DEF WrittenOK
<1>11. QED
  BY <1>6, <1>7, <1>8, <1>9, <1>10 DEF RowsInv

\* A sample goes into its buffer, and a full buffer into the queue.
LEMMA RowsIngest ==
  ASSUME GoneInv, RowsInv, Ingest
  PROVE  RowsInv'
<1> DEFINE s    == data.subject
           pile == Append(buffer[s], data.shape)
           full == Len(pile) >= Block
           p    == SubSeq(pile, 1, Block)
           rest == SubSeq(pile, Block + 1, Len(pile))
           item == [subject |-> s, block |-> p]
<1>1. FilesShapes /\ PathsOK /\ FreshOK /\ StreamOK /\ DrainOK /\ WritingOK /\ WrittenOK
  BY DEF GoneInv, RowsInv
<1>2. s \in Subjects /\ data.shape \in Shapes /\ buffer[s] \in Seq(Shapes)
      /\ buffer \in [Subjects -> Seq(Shapes)] /\ rawq \in Seq(Blocks)
  BY <1>1 DEF Ingest, FilesShapes, SampleOK
<1>3. s \in streaming /\ entry[s].path # NoDir
  BY <1>1, <1>2 DEF StreamOK, PathsOK
<1>4. /\ UNCHANGED <<home, accepted, ended, streaming, entry, failures, removed, zips, sealed, disk>>
      /\ UNCHANGED <<stop, stopping, session, phase>> /\ data' = NoData
  BY DEF Ingest, core, diags, disks, history
<1>5. pile \in Seq(Shapes) /\ pile = Unqueued(s) /\ Block \in Nat \ {0}
  <2>1. Unqueued(s) = buffer[s] \o <<data.shape>> /\ Unqueued(s) \in Seq(Shapes)
    BY <1>1, <1>2, UnqueuedIs
  <2>2. pile = buffer[s] \o <<data.shape>>
    BY <1>2, AppendConcat
  <2>3. Block \in Nat \ {0}
    BY FilesAssumption
  <2>4. QED
    BY <2>1, <2>2, <2>3
<1>6. buffer' = [buffer EXCEPT ![s] = IF full THEN rest ELSE pile]
  BY DEF Ingest
<1>7. rawq' = IF full THEN Append(rawq, item) ELSE rawq
  BY <1>3 DEF Ingest, EnqueueBlock
<1>8. full => p \in Seq(Shapes) /\ rest \in Seq(Shapes) /\ pile = p \o rest /\ p # <<>>
  <2> HIDE DEF pile
  <2>1. Len(pile) \in Nat
    BY <1>5
  <2>2. ASSUME full PROVE p \in Seq(Shapes) /\ rest \in Seq(Shapes) /\ pile = p \o rest /\ Len(p) = Block
    <3>1. Block \in 0..Len(pile)
      BY <1>5, <2>1, <2>2
    <3>2. QED
      BY <1>5, <3>1, CutInTwo
  <2> HIDE DEF p
  <2>3. p = <<>> => Len(p) = 0
    OBVIOUS
  <2>4. QED
    BY <1>5, <2>2, <2>3
<1> HIDE DEF s, pile, full, p, rest, item
<1>9. full => item \in Blocks
  BY <1>2, <1>8 DEF item, Blocks
<1>10. \A t \in Subjects : buffer'[t] = IF t = s THEN IF full THEN rest ELSE pile ELSE buffer[t]
  BY <1>2, <1>6
<1>11. \A t \in Subjects : data'.subject # t
  BY <1>1, <1>4, UnqueuedIs
<1>12. FreshOK'
  BY <1>1, <1>4, FreshFrame
<1>13. StreamOK'
  <2>1. ASSUME NEW t \in Subjects, t \notin streaming
        PROVE  buffer'[t] = <<>> /\ \A i \in DOMAIN rawq' : rawq'[i].subject # t
    <3>1. t # s /\ buffer[t] = <<>> /\ \A i \in DOMAIN rawq : rawq[i].subject # t
      BY <1>1, <1>3, <2>1 DEF StreamOK
    <3>2. CASE full
      <4>1. rawq' = Append(rawq, item) /\ item.subject = s
        BY <1>7, <3>2 DEF item
      <4>2. \A i \in DOMAIN rawq' : (i \in DOMAIN rawq /\ rawq'[i] = rawq[i]) \/ rawq'[i] = item
        <5>1. DOMAIN rawq = 1..Len(rawq) /\ DOMAIN rawq' = 1..(Len(rawq) + 1) /\ Len(rawq) \in Nat
          BY <1>2, <1>9, <3>2, <4>1, AppendIs
        <5>2. QED
          BY <1>2, <1>9, <3>2, <4>1, <5>1, AppendIs
      <4>3. QED
        BY <1>10, <3>1, <4>1, <4>2
    <3>3. CASE ~full
      BY <1>7, <1>10, <3>1, <3>3
    <3>4. QED
      BY <3>2, <3>3
  <2>2. QED
    BY <1>1, <1>4, <1>11, <2>1 DEF StreamOK
<1>14. DrainOK'
  <2>1. stop.subjects \subseteq Subjects
    BY <1>1, Nothings DEF FilesShapes, CoreOK, Stops
  <2>2. QED
    BY <1>1, <1>4, <1>10, <1>11, <2>1 DEF DrainOK, s
<1>15. WritingOK'
  <2>1. ASSUME NEW t \in streaming, failures[t] = NoDir PROVE RecordOf(t)'
    <3> DEFINE file == disk[entry[t].path].raw[t]
               headers == entry[t].headers
               all == accepted[entry[t].path[2]][t]
    <3>1. t \in Subjects /\ all \in Seq(Shapes)
      BY <1>1, StreamIs
    <3>2. Recording(file, headers, rawq, t, Unqueued(t), all)
      BY <1>1, <2>1 DEF WritingOK, RecordOf
    <3>3. Unqueued(t)' = buffer'[t] \o <<>>
      BY <1>11, <3>1 DEF Unqueued
    <3> HIDE DEF file, headers, all
    <3>4. Recording(file, headers, rawq', t, Unqueued(t)', all)
      <4>1. CASE t = s /\ full
        <5>1. Unqueued(t)' = rest /\ Unqueued(t) = p \o rest
          BY <1>5, <1>8, <1>10, <3>1, <3>3, <4>1, ConcatEmpty
        <5>2. rawq' = rawq \o <<item>> /\ <<item>> \in Seq(Blocks) /\ <<item>>[1] = item /\ DOMAIN <<item>> = {1}
          BY <1>2, <1>7, <1>9, <4>1, AppendConcat
        <5>3. item.subject = t /\ item.block = p
          BY <4>1 DEF item
        <5>4. QED
          BY <1>2, <1>8, <3>1, <3>2, <4>1, <5>1, <5>2, <5>3, RecordsBatch
      <4>2. CASE t = s /\ ~full
        <5>1. Unqueued(t)' = Unqueued(t)
          BY <1>5, <1>10, <3>1, <3>3, <4>2, ConcatEmpty
        <5>2. QED
          BY <1>7, <3>2, <4>2, <5>1
      <4>3. CASE t # s
        <5>1. Unqueued(t) = buffer[t] /\ buffer[t] \in Seq(Shapes)
          BY <1>1, <3>1, <4>3, UnqueuedIs DEF s
        <5>2. Unqueued(t)' = Unqueued(t) /\ <<>> \o Unqueued(t) = Unqueued(t) /\ <<>> \in Seq(Shapes)
          BY <1>10, <3>1, <3>3, <4>3, <5>1, ConcatEmpty
        <5>3. CASE full
          <6>1. rawq' = rawq \o <<item>> /\ <<item>> \in Seq(Blocks) /\ <<item>>[1] = item /\ DOMAIN <<item>> = {1}
            BY <1>2, <1>7, <1>9, <5>3, AppendConcat
          <6>2. item.subject # t
            BY <4>3 DEF item
          <6>3. \A m \in DOMAIN <<item>> : <<item>>[m].subject = t <=> m = 0
            BY <6>1, <6>2
          <6>4. 0 \notin DOMAIN <<item>> /\ 0 \in Nat
            BY <6>1
          <6>5. Recording(file, headers, rawq, t, <<>> \o Unqueued(t), all)
            BY <3>2, <5>2
          <6>6. Unqueued(t) \in Seq(Shapes)
            BY <5>1
          <6>7. Recording(file, headers, rawq \o <<item>>, t, Unqueued(t), all)
            BY <1>2, <3>1, <5>2, <6>1, <6>3, <6>4, <6>5, <6>6, RecordsBatch
          <6>8. QED
            BY <5>2, <6>1, <6>7
        <5>4. CASE ~full
          BY <1>7, <3>2, <5>2, <5>4
        <5>5. QED
          BY <5>3, <5>4
      <4>4. QED
        BY <4>1, <4>2, <4>3
    <3>5. QED
      BY <1>4, <3>4 DEF RecordOf, file, headers, all
  <2>2. QED
    BY <1>4, <2>1 DEF WritingOK
<1>16. WrittenOK'
  BY <1>1, <1>4 DEF WrittenOK, StoredOK
<1>17. QED
  BY <1>12, <1>13, <1>14, <1>15, <1>16 DEF RowsInv

\* The raw writer takes a block: the file grows by it, or the failure is recorded.
LEMMA RowsWriteBlock ==
  ASSUME GoneInv, RowsInv, WriteBlock
  PROVE  RowsInv'
<1> DEFINE s     == Head(rawq).subject
           block == Head(rawq).block
           d     == entry[s].path
           w     == Appended(EnsureRawHeaders(entry[s].headers, disk[d].raw[s], block), block)
<1>1. FilesShapes /\ PathsOK /\ LifeOK /\ FreshOK /\ StreamOK /\ DrainOK /\ WritingOK /\ WrittenOK
  BY DEF GoneInv, RowsInv
<1>2. /\ rawq # <<>> /\ rawq \in Seq(Blocks) /\ rawq' = Tail(rawq) /\ s \in Subjects
      /\ failures \in [Subjects -> Places]
  BY <1>1, HeadIs DEF WriteBlock, FilesShapes, SampleOK
<1>3. s \in streaming
  <2>1. 1 \in DOMAIN rawq /\ rawq[1].subject = s
    BY <1>2, TailIs
  <2>2. QED
    BY <1>1, <1>2, <2>1 DEF StreamOK
<1>4. /\ UNCHANGED <<home, accepted, ended, streaming, buffer, data, removed, zips, sealed>>
      /\ UNCHANGED <<stop, stopping, session, phase>>
  BY DEF WriteBlock, core, diags, history
<1>5. d \in Dirs /\ d # NoDir /\ home[d[2]][s] = d /\ ended[d[2]][s] = "no" /\ d[2] \in Sessions
  BY <1>1, <1>3, StreamIs DEF StreamOK
<1>6. \/ PutInto(d, s, w) /\ failures' = failures
      \/ /\ failures' = [failures EXCEPT ![s] = IF @ = NoDir THEN d ELSE @]
         /\ \/ UNCHANGED <<entry, disk>>
            \/ \E x \in Written : PutInto(d, s, x)
  BY <1>1, <1>5, WriteBlockIs
<1> HIDE DEF s, block, d, w
<1>7. /\ \A e \in Dirs : disk'[e].present = disk[e].present
      /\ \A e \in Dirs, t \in Subjects : ~(e = d /\ t = s) => disk'[e].raw[t] = disk[e].raw[t]
      /\ \A t \in Subjects : entry'[t].path = entry[t].path /\ (t # s => entry'[t].headers = entry[t].headers)
  BY <1>6 DEF PutInto
<1>8. FreshOK' /\ DrainOK'
  BY <1>1, <1>4, FreshFrame, DrainFrame
<1>9. StreamOK'
  <2>1. \A t \in streaming : entry[t].path \in Dirs /\ t \in Subjects
    BY <1>1, StreamIs
  <2>2. \A t \in Subjects : (\A i \in DOMAIN rawq : rawq[i].subject # t) => \A i \in DOMAIN rawq' : rawq'[i].subject # t
    BY <1>2, TailIs
  <2>3. QED
    BY <1>1, <1>4, <1>7, <2>1, <2>2 DEF StreamOK
<1>10. WritingOK'
  <2>1. ASSUME NEW t \in streaming, failures'[t] = NoDir PROVE RecordOf(t)'
    <3> DEFINE all == accepted[entry[t].path[2]][t]
    <3>1. /\ t \in Subjects /\ all \in Seq(Shapes) /\ entry[t].path \in Dirs
          /\ disk[entry[t].path].raw[t] \in Files
      BY <1>1, StreamIs
    <3>2. failures[t] = NoDir
      BY <1>2, <1>6, <2>1, <3>1
    <3>3. Recording(disk[entry[t].path].raw[t], entry[t].headers, rawq, t, Unqueued(t), all)
      BY <1>1, <3>2 DEF WritingOK, RecordOf
    <3>4. Unqueued(t)' = Unqueued(t) /\ Unqueued(t) \in Seq(Shapes)
      BY <1>1, <1>4, <3>1, UnqueuedIs DEF Unqueued
    <3> HIDE DEF all
    <3>5. CASE t = s
      <4>1. PutInto(d, s, w)
        BY <1>2, <1>5, <1>6, <2>1, <3>2, <3>5
      <4>2. disk'[d].raw[s] = w.file /\ entry'[s].headers = w.headers
        BY <1>2, <1>5, <4>1 DEF PutInto
      <4>3. Recording(w.file, w.headers, Tail(rawq), s, Unqueued(s), all)
        BY <1>2, <3>1, <3>3, <3>4, <3>5, RecordsWrite DEF s, block, d, w
      <4>4. entry'[t].path = entry[t].path /\ d = entry[t].path
        BY <1>7, <3>1, <3>5 DEF d
      <4>5. QED
        BY <1>2, <1>4, <3>4, <3>5, <4>2, <4>3, <4>4 DEF RecordOf, all
    <3>6. CASE t # s
      <4>1. Recording(disk[entry[t].path].raw[t], entry[t].headers, Tail(rawq), t, Unqueued(t), all)
        BY <1>2, <3>1, <3>3, <3>4, <3>6, RecordsOther DEF s
      <4>2. /\ entry'[t].path = entry[t].path /\ entry'[t].headers = entry[t].headers
            /\ disk'[entry[t].path].raw[t] = disk[entry[t].path].raw[t]
        BY <1>7, <3>1, <3>6
      <4>3. QED
        BY <1>2, <1>4, <3>4, <4>1, <4>2 DEF RecordOf, all
    <3>7. QED
      BY <3>5, <3>6
  <2>2. QED
    BY <1>4, <2>1 DEF WritingOK
<1>11. WrittenOK'
  <2>1. ASSUME NEW k \in Sessions, NEW t \in Subjects, ended[k][t] = "ok" PROVE StoredOK(k, t)'
    <3>1. StoredOK(k, t) /\ (home[k][t] # NoDir => home[k][t] \in Dirs /\ home[k][t][2] = k)
      BY <1>1, <2>1, DirsAre DEF WrittenOK, FilesShapes, HistoryOK, FreshOK
    <3>2. ~(home[k][t] = d /\ t = s)
      BY <1>5, <2>1, <3>1
    <3>3. QED
      BY <1>4, <1>7, <3>1, <3>2 DEF StoredOK
  <2>2. stop.pc # "remove"
    BY <1>1, <1>3 DEF LifeOK, Ending
  <2>3. QED
    BY <1>4, <2>1, <2>2 DEF WrittenOK
<1>12. QED
  BY <1>8, <1>9, <1>10, <1>11 DEF RowsInv

\* The rest of every buffer of the stopped subjects is queued, once.
LEMMA RowsFlush ==
  ASSUME GoneInv, RowsInv, Flush
  PROVE  RowsInv'
<1> DEFINE tails == {s \in stop.subjects : buffer[s] # <<>> /\ entry[s].path # NoDir}
           n     == Cardinality(tails)
           q     == SetToSeq(tails)
           new   == [i \in 1..n |-> [subject |-> q[i], block |-> buffer[q[i]]]]
<1>1. FilesShapes /\ PathsOK /\ FreshOK /\ StreamOK /\ DrainOK /\ WritingOK /\ WrittenOK /\ CoreOK
  BY DEF GoneInv, RowsInv, FilesShapes
<1>2. /\ stop.subjects \in SUBSET Subjects /\ buffer \in [Subjects -> Seq(Shapes)] /\ rawq \in Seq(Blocks)
      /\ stop'.pc = "join" /\ stop'.subjects = stop.subjects
  BY <1>1, Going, ToIs DEF Flush, Stops, FilesShapes, SampleOK, Pcs
<1>3. /\ n \in Nat /\ (\A i \in 1..n : q[i] \in tails)
      /\ (\A i, j \in 1..n : q[i] = q[j] => i = j) /\ (\A x \in tails : \E i \in 1..n : q[i] = x)
  <2>1. tails \subseteq Subjects
    BY <1>2
  <2>2. IsFiniteSet(tails)
    BY <2>1, FilesAssumption, FS_Subset
  <2> HIDE DEF tails
  <2>3. QED
    BY <2>2, SetToSeqIs
<1>4. rawq' = rawq \o new
  BY DEF Flush
<1>5. /\ UNCHANGED <<home, accepted, ended, streaming, data, entry, failures, removed, zips, sealed, disk>>
      /\ UNCHANGED <<stopping, session, phase>> /\ stop.pc = "settle" /\ data.subject \notin stop.subjects
      /\ buffer' = [s \in Subjects |-> IF s \in stop.subjects THEN <<>> ELSE buffer[s]]
  BY DEF Flush, core, diags, disks, history
<1>6. \A s \in tails : s \in stop.subjects /\ s \in Subjects /\ buffer[s] # <<>> /\ buffer[s] \in Seq(Shapes)
                       /\ s \in streaming
  BY <1>1, <1>2 DEF PathsOK
<1> HIDE DEF tails, n, q
<1>7. \A i \in 1..n : new[i].subject = q[i] /\ new[i].block = buffer[q[i]] /\ new[i] \in Blocks
  BY <1>3, <1>6 DEF Blocks
<1>8. new \in Seq(Blocks) /\ DOMAIN new = 1..n
  <2>1. new \in [1..n -> Blocks]
    BY <1>7
  <2> HIDE DEF new
  <2>2. QED
    BY <1>3, <2>1
<1> HIDE DEF new
<1>9. FreshOK'
  BY <1>1, <1>5, FreshFrame
<1>10. StreamOK'
  <2>1. ASSUME NEW s \in Subjects, s \notin streaming
        PROVE  buffer'[s] = <<>> /\ \A i \in DOMAIN rawq' : rawq'[i].subject # s
    <3>1. buffer[s] = <<>> /\ (\A i \in DOMAIN rawq : rawq[i].subject # s) /\ \A i \in DOMAIN new : new[i].subject # s
      BY <1>1, <1>3, <1>6, <1>7, <1>8, <2>1 DEF StreamOK
    <3>2. \A i \in DOMAIN rawq' : \/ i \in DOMAIN rawq /\ rawq'[i] = rawq[i]
                                  \/ i - Len(rawq) \in DOMAIN new /\ rawq'[i] = new[i - Len(rawq)]
      <4>1. /\ Len(rawq) \in Nat /\ Len(new) \in Nat /\ DOMAIN rawq = 1..Len(rawq) /\ DOMAIN new = 1..Len(new)
            /\ DOMAIN rawq' = 1..(Len(rawq) + Len(new))
            /\ (\A i \in 1..Len(rawq) : rawq'[i] = rawq[i])
            /\ \A i \in (Len(rawq) + 1)..(Len(rawq) + Len(new)) : rawq'[i] = new[i - Len(rawq)]
        BY <1>2, <1>4, <1>8, ConcatIs
      <4>2. ASSUME NEW i \in 1..(Len(rawq) + Len(new))
            PROVE  i \in 1..Len(rawq) \/ (i \in (Len(rawq) + 1)..(Len(rawq) + Len(new)) /\ i - Len(rawq) \in 1..Len(new))
        BY <4>1
      <4>3. QED
        BY <4>1, <4>2
    <3>3. QED
      BY <1>5, <3>1, <3>2
  <2>2. QED
    BY <1>1, <1>5, <2>1 DEF StreamOK
<1>11. DrainOK'
  BY <1>1, <1>2, <1>5 DEF DrainOK
<1>12. WritingOK'
  <2>1. ASSUME NEW t \in streaming, failures[t] = NoDir PROVE RecordOf(t)'
    <3> DEFINE file == disk[entry[t].path].raw[t]
               headers == entry[t].headers
               all == accepted[entry[t].path[2]][t]
    <3>1. t \in Subjects /\ all \in Seq(Shapes) /\ entry[t].path # NoDir
      BY <1>1, StreamIs
    <3>2. Recording(file, headers, rawq, t, Unqueued(t), all)
      BY <1>1, <2>1 DEF WritingOK, RecordOf
    <3>3. Unqueued(t) \in Seq(Shapes) /\ buffer[t] \in Seq(Shapes)
      BY <1>1, <3>1, UnqueuedIs
    <3> HIDE DEF file, headers, all
    <3>4. Recording(file, headers, rawq \o new, t, Unqueued(t)', all)
      <4>1. CASE t \in tails
        <5>1. PICK at \in 1..n : q[at] = t
          BY <1>3, <4>1
        <5>2. Unqueued(t) = buffer[t] \o <<>> /\ Unqueued(t)' = <<>>
          BY <1>5, <1>6, <3>1, <4>1, ConcatEmpty DEF Unqueued
        <5>3. \A m \in DOMAIN new : new[m].subject = t <=> m = at
          BY <1>3, <1>7, <1>8, <5>1
        <5>4. at \in DOMAIN new /\ new[at].block = buffer[t] /\ at \in Nat
          BY <1>3, <1>7, <1>8, <5>1
        <5>5. <<>> \in Seq(Shapes) /\ Recording(file, headers, rawq, t, buffer[t] \o <<>>, all)
          BY <3>2, <5>2, ConcatEmpty
        <5>6. Recording(file, headers, rawq \o new, t, <<>>, all)
          BY <1>2, <1>8, <3>1, <3>3, <5>3, <5>4, <5>5, RecordsBatch
        <5>7. QED
          BY <5>2, <5>6
      <4>2. CASE t \notin tails
        <5>1. buffer'[t] = buffer[t]
          BY <1>5, <3>1, <4>2 DEF tails
        <5>2. Unqueued(t)' = Unqueued(t)
          BY <1>5, <5>1 DEF Unqueued
        <5>3. \A m \in DOMAIN new : new[m].subject = t <=> m = 0
          BY <1>3, <1>7, <1>8, <4>2
        <5>4. 0 \notin DOMAIN new /\ 0 \in Nat
          BY <1>8
        <5>5. <<>> \in Seq(Shapes) /\ Recording(file, headers, rawq, t, <<>> \o Unqueued(t), all)
          BY <3>2, <3>3, ConcatEmpty
        <5>6. Recording(file, headers, rawq \o new, t, Unqueued(t), all)
          BY <1>2, <1>8, <3>1, <3>3, <5>3, <5>4, <5>5, RecordsBatch
        <5>7. QED
          BY <5>2, <5>6
      <4>3. QED
        BY <4>1, <4>2
    <3>5. QED
      BY <1>4, <1>5, <3>4 DEF RecordOf, file, headers, all
  <2>2. QED
    BY <1>5, <2>1 DEF WritingOK
<1>13. WrittenOK'
  BY <1>1, <1>2, <1>5 DEF WrittenOK, StoredOK
<1>14. QED
  BY <1>9, <1>10, <1>11, <1>12, <1>13 DEF RowsInv

\* A subject's files are closed once the queue is empty: then the file holds
\* everything, or the failure is reported.
LEMMA RowsClosing ==
  ASSUME GoneInv, RowsInv, WrittenAndClosed
  PROVE  RowsInv'
<1> DEFINE S == stop.subjects
           P == RawWriteFailures(S)
<1>1. /\ FilesShapes /\ PathsOK /\ LifeOK /\ FreshOK /\ StreamOK /\ DrainOK /\ WritingOK /\ WrittenOK /\ CoreOK
      /\ ArchivedStaysGone
  BY DEF GoneInv, RowsInv, FilesShapes
<1>2. /\ UNCHANGED <<home, accepted, buffer, data, rawq, failures, removed, zips, sealed, session, phase, stopping>>
      /\ stop.pc = "join" /\ rawq = <<>>
  BY DEF WrittenAndClosed
<1>3. stop \in Stops /\ S \in SUBSET Subjects
  BY <1>1, <1>2, Going DEF Stops
<1>4. \A d \in Dirs : disk'[d].raw = disk[d].raw /\ disk'[d].present = disk[d].present
  BY <1>1, ClosingKeeps DEF DiskKept
<1>5. stop'.pc \in {"summary", "failed"}
  BY <1>3 DEF WrittenAndClosed, Stops
<1>6. FreshOK'
  <2>1. \A k \in Sessions, s \in Subjects : ended'[k][s] # ended[k][s] => s \in streaming /\ entry[s].path[2] = k
    <3>1. CASE Ends(S, P)
      BY <1>1, <3>1, EndsIs DEF PathsOK
    <3>2. CASE ended' = ended
      BY <3>2
    <3>3. QED
      BY <3>1, <3>2 DEF WrittenAndClosed
  <2>2. \A k \in Sessions, s \in Subjects : (s \in streaming /\ entry[s].path[2] = k) => home[k][s] # NoDir
    BY <1>1, StreamIs DEF StreamOK
  <2>3. ASSUME NEW k \in Sessions, Unstarted(k) PROVE Unstarted(k)'
    BY <1>2, <2>1, <2>2, <2>3 DEF Unstarted
  <2>4. phase = "warming" => session \in Sessions
    BY <1>1 DEF CoreOK, Sessions
  <2>5. QED
    BY <1>1, <1>2, <2>3, <2>4 DEF FreshOK
<1>7. DrainOK'
  BY <1>1, <1>5, DrainFrame
<1>8. CASE UNCHANGED <<entry, streaming, ended>>
  <2>1. QED
    BY <1>2, <1>4, <1>5, <1>6, <1>7, <1>8, RowsFrame
<1>9. CASE entry' = Closed(S) /\ streaming' = streaming \ S /\ Ends(S, P)
  <2>1. /\ \A s \in Subjects \ S : entry'[s] = entry[s]
        /\ \A s \in Subjects : s \in streaming' => s \in streaming /\ s \notin S
    BY <1>9 DEF Closed
  <2>2. \A k \in Sessions, s \in Subjects : s \notin S => ended'[k][s] = ended[k][s]
    BY <1>1, <1>9, EndsIs
  <2>3. StreamOK'
    <3>1. ASSUME NEW s \in Subjects, s \notin streaming' PROVE buffer[s] = <<>> /\ data.subject # s
      <4>1. CASE s \in S
        BY <1>1, <1>2, <4>1 DEF DrainOK
      <4>2. CASE s \notin S
        BY <1>1, <1>9, <3>1, <4>2 DEF StreamOK
      <4>3. QED
        BY <4>1, <4>2
    <3>2. ASSUME NEW s \in streaming'
          PROVE  LET d == entry'[s].path IN
                 home[d[2]][s] = d /\ ended'[d[2]][s] = "no" /\ d[2] \notin sealed /\ disk'[d].present
      <4>1. s \in streaming /\ s \in Subjects /\ s \notin S /\ entry[s].path \in Dirs /\ entry[s].path[2] \in Sessions
        BY <1>1, <1>9, StreamIs
      <4>2. QED
        BY <1>1, <1>4, <2>1, <2>2, <4>1 DEF StreamOK
    <3>3. \A i \in DOMAIN rawq : FALSE
      BY <1>2
    <3>4. QED
      BY <1>2, <3>1, <3>2, <3>3 DEF StreamOK
  <2>4. WritingOK'
    <3>1. ASSUME NEW s \in streaming', failures[s] = NoDir PROVE RecordOf(s)'
      <4>1. s \in streaming /\ s \in Subjects /\ s \notin S /\ entry[s].path \in Dirs /\ entry'[s] = entry[s]
        BY <1>1, <1>9, <2>1, StreamIs
      <4>2. RecordOf(s) /\ Unqueued(s)' = Unqueued(s)
        BY <1>1, <1>2, <3>1, <4>1 DEF WritingOK, Unqueued
      <4>3. QED
        BY <1>2, <1>4, <4>1, <4>2 DEF RecordOf
    <3>2. QED
      BY <1>2, <3>1 DEF WritingOK
  <2>5. WrittenOK'
    <3>1. ASSUME NEW k \in Sessions, NEW s \in Subjects, ended'[k][s] = "ok" PROVE StoredOK(k, s)'
      <4>1. CASE ended[k][s] = "ok"
        <5>1. StoredOK(k, s)
          BY <1>1, <4>1 DEF WrittenOK
        <5>2. home[k][s] # NoDir => home[k][s] \in Dirs
          BY <1>1, DirsAre DEF FilesShapes, HistoryOK
        <5>3. QED
          BY <1>2, <1>4, <5>1, <5>2 DEF StoredOK
      <4>2. CASE ended[k][s] # "ok"
        <5>1. s \in S /\ s \notin P /\ entry[s].path # NoDir /\ entry[s].path[2] = k
          <6>1. ended'[k][s] = IF s \in S /\ entry[s].path # NoDir /\ entry[s].path[2] = k
                              THEN IF s \in P THEN "partial" ELSE "ok"
                              ELSE ended[k][s]
            BY <1>1, <1>9, EndsIs
          <6> HIDE DEF S, P
          <6>2. QED
            BY <3>1, <4>2, <6>1
        <5>2. s \in streaming /\ failures[s] = NoDir
          BY <1>1, <5>1 DEF PathsOK, RawWriteFailures
        <5>3. /\ entry[s].path \in Dirs /\ accepted[k][s] \in Seq(Shapes)
              /\ home[k][s] = entry[s].path /\ disk[entry[s].path].present
          BY <1>1, <5>1, <5>2, StreamIs DEF StreamOK
        <5>4. Unqueued(s) = <<>>
          BY <1>1, <1>2, <5>1, UnqueuedIs DEF DrainOK
        <5>5. Recording(disk[entry[s].path].raw[s], entry[s].headers, <<>>, s, <<>>, accepted[k][s])
          BY <1>1, <1>2, <5>1, <5>2, <5>4 DEF WritingOK, RecordOf
        <5>6. FileOK(disk[entry[s].path].raw[s], accepted[k][s])
          BY <5>3, <5>5, RecordsDone
        <5>7. home[k][s] \notin removed
          BY <1>1, <5>3 DEF ArchivedStaysGone
        <5>8. QED
          BY <1>2, <1>4, <5>1, <5>3, <5>6, <5>7 DEF StoredOK
      <4>3. QED
        BY <4>1, <4>2
    <3>2. QED
      BY <1>5, <3>1 DEF WrittenOK
  <2>6. QED
    BY <1>6, <1>7, <2>3, <2>4, <2>5 DEF RowsInv
<1>10. QED
  BY <1>8, <1>9 DEF WrittenAndClosed

\* The archive gets the raw files of the directory, which is not a removed one.
LEMMA RowsArchive ==
  ASSUME GoneInv, RowsInv, Archive
  PROVE  RowsInv'
<1>1. /\ FilesShapes /\ PathsOK /\ LifeOK /\ FreshOK /\ StreamOK /\ DrainOK /\ WrittenOK /\ CoreOK
      /\ ArchivedStaysGone /\ streaming = {}
  BY DEF GoneInv, RowsInv, FilesShapes, Archive, LifeOK, Ending
<1>2. /\ UNCHANGED <<home, accepted, ended, streaming, buffer, data, rawq, entry, failures, removed, disk>>
      /\ UNCHANGED <<sealed, session, phase, stopping>> /\ stop.pc = "archive"
  BY DEF Archive, core, samples, diags, history
<1>3. stop \in Stops /\ zips \in [Dirs -> Trees] /\ root \in Roots /\ session \in Sessions
  BY <1>1, <1>2, Going, FilesAssumption DEF FilesShapes, DisksOK, CoreOK, Sessions
<1>4. Here \in Dirs
  BY <1>3, DirsAre DEF Here
<1>5. stop'.pc \in {"remove", "failed"} /\ (stop'.pc = "remove" => stop'.source = Here /\ zips'[Here] = disk[Here])
  BY <1>3, <1>4 DEF Archive, To, Stops
<1>6. zips' = zips \/ (disk[Here].present /\ \A d \in Dirs : d # Here => zips'[d] = zips[d])
  BY <1>3, <1>4 DEF Archive
<1>7. FreshOK' /\ DrainOK'
  BY <1>1, <1>2, <1>5, FreshFrame, DrainFrame
<1>8. StreamOK' /\ WritingOK'
  BY <1>1, <1>2 DEF StreamOK, WritingOK
<1>9. WrittenOK'
  <2>1. ASSUME NEW k \in Sessions, NEW s \in Subjects, ended[k][s] = "ok" PROVE StoredOK(k, s)'
    <3>1. StoredOK(k, s) /\ (home[k][s] # NoDir => home[k][s] \in Dirs)
      BY <1>1, <2>1, DirsAre DEF WrittenOK, FilesShapes, HistoryOK
    <3>2. home[k][s] \in removed => zips'[home[k][s]] = zips[home[k][s]]
      BY <1>1, <1>6, <3>1 DEF ArchivedStaysGone, StoredOK
    <3>3. QED
      BY <1>2, <3>1, <3>2 DEF StoredOK
  <2>2. QED
    BY <1>2, <1>5, <2>1 DEF WrittenOK
<1>10. QED
  BY <1>7, <1>8, <1>9 DEF RowsInv

\* What the removed directory held is in its archive.
LEMMA RowsRemove ==
  ASSUME GoneInv, RowsInv, RemoveDirectory, "remove" \notin FaultyIO
  PROVE  RowsInv'
<1>1. /\ FilesShapes /\ PathsOK /\ LifeOK /\ FreshOK /\ StreamOK /\ DrainOK /\ WrittenOK /\ CoreOK
      /\ streaming = {}
  BY DEF GoneInv, RowsInv, FilesShapes, RemoveDirectory, LifeOK, Ending
<1>2. /\ UNCHANGED <<home, accepted, ended, streaming, buffer, data, rawq, entry, failures, zips>>
      /\ UNCHANGED <<sealed, session, phase, stopping>> /\ stop.pc = "remove"
  BY DEF RemoveDirectory, samples, diags
<1>3. disk' = [disk EXCEPT ![stop.source] = NoTree] /\ removed' = removed \cup {stop.source} /\ To("report")
  BY DEF RemoveDirectory, Fails
<1>4. stop.source \in Dirs /\ disk \in [Dirs -> Trees] /\ zips[stop.source].raw = disk[stop.source].raw
  BY <1>1, <1>2 DEF LifeOK, FilesShapes, DisksOK, WrittenOK
<1>5. stop'.pc = "report"
  BY <1>1, <1>2, <1>3, ToIs DEF Pcs
<1>6. FreshOK' /\ DrainOK'
  BY <1>1, <1>2, <1>5, FreshFrame, DrainFrame
<1>7. StreamOK' /\ WritingOK'
  BY <1>1, <1>2 DEF StreamOK, WritingOK
<1>8. WrittenOK'
  <2>1. ASSUME NEW k \in Sessions, NEW s \in Subjects, ended[k][s] = "ok" PROVE StoredOK(k, s)'
    <3>1. StoredOK(k, s) /\ (home[k][s] # NoDir => home[k][s] \in Dirs)
      BY <1>1, <2>1, DirsAre DEF WrittenOK, FilesShapes, HistoryOK
    <3>2. CASE home[k][s] = stop.source
      BY <1>2, <1>3, <1>4, <3>1, <3>2 DEF StoredOK
    <3>3. CASE home[k][s] # stop.source
      BY <1>2, <1>3, <1>4, <3>1, <3>3 DEF StoredOK
    <3>4. QED
      BY <3>2, <3>3
  <2>2. QED
    BY <1>2, <1>5, <2>1 DEF WrittenOK
<1>9. QED
  BY <1>6, <1>7, <1>8 DEF RowsInv

\* The files of a session are opened, empty; the other files of its directory
\* stay, and no subject that was stopped has its files there.
LEMMA RowsActivate ==
  ASSUME GoneInv, RowsInv, Activate
  PROVE  RowsInv'
<1>1. FilesShapes /\ PathsOK /\ LifeOK /\ FreshOK /\ StreamOK /\ DrainOK /\ WritingOK /\ WrittenOK
  BY DEF GoneInv, RowsInv
<1>2. /\ UNCHANGED <<accepted, ended, buffer, data, rawq, removed, zips, sealed, stop, stopping, session>>
      /\ phase = "warming" /\ phase' = "official" /\ stop = NoStop
      /\ streaming' = streaming \cup members
      /\ entry' = [s \in Subjects |-> IF s \in members THEN [path |-> Here, headers |-> <<>>] ELSE entry[s]]
      /\ failures' = [s \in Subjects |-> IF s \in members THEN NoDir ELSE failures[s]]
  BY DEF Activate, StartStream
<1>3. /\ session \in Sessions /\ Here \in Dirs /\ Here # NoDir /\ Here[2] = session
      /\ \A d \in Dirs : d # Here => disk'[d] = disk[d]
      /\ disk'[Here].present
      /\ \A s \in Subjects : disk'[Here].raw[s] = IF s \in members THEN [NoFile EXCEPT !.present = TRUE]
                                                  ELSE disk[Here].raw[s]
  BY <1>1, ActivateMakes
<1>4. \A k \in Sessions, s \in Subjects : home'[k][s] = IF k = session /\ s \in members THEN Here ELSE home[k][s]
  BY <1>1, HomeIs
<1>5. /\ members \in SUBSET Subjects /\ members \cap streaming = {} /\ session \notin sealed
      /\ Unstarted(session) /\ streaming \in SUBSET Subjects
  BY <1>1, <1>2 DEF LifeOK, FreshOK, FilesShapes, CoreOK
<1>6. \A d \in Dirs, s \in Subjects \ members : disk'[d].raw[s] = disk[d].raw[s] /\ (disk[d].present => disk'[d].present)
  <2>1. ASSUME NEW d \in Dirs, NEW s \in Subjects \ members
        PROVE  disk'[d].raw[s] = disk[d].raw[s] /\ (disk[d].present => disk'[d].present)
    <3>1. CASE d = Here
      BY <1>3, <3>1
    <3>2. CASE d # Here
      BY <1>3, <3>2
    <3>3. QED
      BY <3>1, <3>2
  <2>2. QED
    BY <2>1
<1>7. FreshOK'
  <2>1. ASSUME NEW k \in Sessions, k > session PROVE Unstarted(k)'
    <3>1. Unstarted(k) /\ k # session
      BY <1>1, <1>3, <2>1 DEF FreshOK, Sessions
    <3>2. QED
      BY <1>2, <1>4, <3>1 DEF Unstarted
  <2>2. ASSUME NEW k \in Sessions, NEW s \in Subjects, home'[k][s] # NoDir PROVE home'[k][s][2] = k
    BY <1>1, <1>3, <1>4, <2>2 DEF FreshOK
  <2>3. QED
    BY <1>2, <2>1, <2>2 DEF FreshOK
<1>8. DrainOK'
  BY <1>1, <1>2, DrainFrame
<1>9. \A s \in streaming : s \in Subjects \ members /\ entry'[s] = entry[s] /\ failures'[s] = failures[s]
                           /\ entry[s].path \in Dirs /\ entry[s].path[2] \in Sessions
                           /\ home'[entry[s].path[2]][s] = home[entry[s].path[2]][s]
  <2>1. ASSUME NEW s \in streaming
        PROVE  s \in Subjects \ members /\ entry[s].path \in Dirs /\ entry[s].path[2] \in Sessions
    BY <1>1, <1>5, StreamIs
  <2>2. QED
    BY <1>2, <1>4, <2>1
<1>10. \A s \in members : /\ s \in Subjects /\ s \notin streaming /\ entry'[s].path = Here
                          /\ entry'[s].headers = <<>> /\ failures'[s] = NoDir
  BY <1>2, <1>5
<1>11. StreamOK'
  <2>1. ASSUME NEW s \in Subjects, s \notin streaming'
        PROVE  buffer[s] = <<>> /\ data.subject # s /\ \A i \in DOMAIN rawq : rawq[i].subject # s
    BY <1>1, <1>2, <2>1 DEF StreamOK
  <2>2. ASSUME NEW s \in streaming'
        PROVE  LET d == entry'[s].path IN
               home'[d[2]][s] = d /\ ended[d[2]][s] = "no" /\ d[2] \notin sealed /\ disk'[d].present
    <3>1. CASE s \in members
      BY <1>3, <1>4, <1>5, <1>10, <3>1 DEF Unstarted
    <3>2. CASE s \in streaming
      BY <1>1, <1>6, <1>9, <3>2 DEF StreamOK
    <3>3. QED
      BY <1>2, <3>1, <3>2
  <2>3. QED
    BY <1>2, <2>1, <2>2 DEF StreamOK
<1>12. WritingOK'
  <2>1. ASSUME NEW s \in streaming', failures'[s] = NoDir PROVE RecordOf(s)'
    <3>1. Unqueued(s)' = Unqueued(s)
      BY <1>2 DEF Unqueued
    <3>2. CASE s \in members
      <4>1. disk'[Here].raw[s].header = <<>> /\ disk'[Here].raw[s].rows = <<>>
        BY <1>3, <1>10, <3>2 DEF NoFile
      <4>2. s \in Subjects /\ accepted[session][s] = <<>>
        BY <1>5, <3>2 DEF Unstarted
      <4>3. Unqueued(s) = <<>> /\ rawq \in Seq(Blocks) /\ \A i \in DOMAIN rawq : rawq[i].subject # s
        BY <1>1, <1>10, <3>2, UnqueuedIs DEF StreamOK, FilesShapes, SampleOK
      <4>4. Recording(disk'[Here].raw[s], <<>>, rawq, s, <<>>, <<>>)
        BY <4>1, <4>3, RecordsNew
      <4>5. QED
        BY <1>2, <1>3, <1>10, <3>1, <3>2, <4>2, <4>3, <4>4 DEF RecordOf
    <3>3. CASE s \in streaming
      <4>1. RecordOf(s)
        BY <1>1, <1>9, <2>1, <3>3 DEF WritingOK
      <4>2. QED
        BY <1>2, <1>6, <1>9, <3>1, <3>3, <4>1 DEF RecordOf
    <3>4. QED
      BY <1>2, <3>2, <3>3
  <2>2. QED
    BY <2>1 DEF WritingOK
<1>13. WrittenOK'
  <2>1. ASSUME NEW k \in Sessions, NEW s \in Subjects, ended[k][s] = "ok" PROVE StoredOK(k, s)'
    <3>1. /\ StoredOK(k, s) /\ home[k][s] # NoDir /\ home[k][s] \in Dirs /\ home[k][s][2] = k
      BY <1>1, <2>1, DirsAre DEF WrittenOK, StoredOK, FreshOK, FilesShapes, HistoryOK
    <3>2. k # session
      BY <1>5, <2>1 DEF Unstarted
    <3>3. home'[k][s] = home[k][s] /\ disk'[home[k][s]] = disk[home[k][s]]
      BY <1>3, <1>4, <3>1, <3>2
    <3>4. QED
      BY <1>2, <3>1, <3>3 DEF StoredOK
  <2>2. stop'.pc # "remove"
    BY <1>2, Nothings
  <2>3. QED
    BY <1>2, <2>1, <2>2 DEF WrittenOK
<1>14. QED
  BY <1>7, <1>8, <1>11, <1>12, <1>13 DEF RowsInv

\* Every step keeps the samples accounted for.
LEMMA RowsStep ==
  ASSUME GoneInv, RowsInv, [FilesNext]_filesVars, "remove" \notin FaultyIO
  PROVE  RowsInv'
<1>1. CASE UNCHANGED filesVars
  <2>1. /\ UNCHANGED <<home, accepted, ended, streaming, buffer, data, rawq, entry, failures, removed, zips>>
        /\ UNCHANGED <<sealed, stop, stopping, session, phase, disk>>
    BY <1>1 DEF filesVars, core, samples, diags, disks, history
  <2>2. FreshOK' /\ DrainOK'
    BY <2>1, FreshFrame, DrainFrame DEF RowsInv
  <2>3. QED
    BY <2>1, <2>2, RowsFrame
<1>2. CASE \/ Snapshot \/ PipelineWrite \/ DiagnosticsWrite \/ SetFilePath \/ RegisterAlgorithms
           \/ ResetCompute \/ Compute \/ QueuePerformance
  BY <1>2, RowsQuiet
<1>3. CASE \/ Summarise \/ Detach \/ JoinDiagnostics \/ Seal \/ Report \/ ReportFailure \/ FinalizeDistributed
  BY <1>3, RowsEnding
<1>4. CASE \E S \in SUBSET Subjects : Start(S)
  BY <1>4, RowsStart
<1>5. CASE \E S \in SUBSET Subjects, shared \in BOOLEAN : Stop(S, shared)
  BY <1>5, RowsStop
<1>6. CASE \E s \in Subjects, shape \in Shapes : OnData(s, shape)
  BY <1>6, RowsOnData
<1>7. CASE Activate
  BY <1>7, RowsActivate
<1>8. CASE StartFails
  BY <1>8, RowsStartFails
<1>9. CASE Ingest
  BY <1>9, RowsIngest
<1>10. CASE WriteBlock
  BY <1>10, RowsWriteBlock
<1>11. CASE Flush
  BY <1>11, RowsFlush
<1>12. CASE WrittenAndClosed
  BY <1>12, RowsClosing
<1>13. CASE Archive
  BY <1>13, RowsArchive
<1>14. CASE RemoveDirectory
  BY <1>14, RowsRemove
<1>15. QED
  BY <1>1, <1>2, <1>3, <1>4, <1>5, <1>6, <1>7, <1>8, <1>9, <1>10, <1>11, <1>12, <1>13, <1>14, Zenon DEF FilesNext

\* The files hold what the invariant says they do.
LEMMA RowsHeld == GoneInv /\ RowsInv => RowsAccounted
<1> SUFFICES ASSUME GoneInv, RowsInv, NEW k \in Sessions, NEW s \in Subjects, home[k][s] # NoDir
             PROVE  LET d   == home[k][s]
                        all == accepted[k][s]
                    IN /\ (entry[s].path = d /\ failures[s] = NoDir) =>
                            \E cut \in [0..Len(rawq) -> 0..Len(all)] :
                              /\ Holds(disk[d].raw[s], SubSeq(all, 1, cut[0]))
                              /\ \A i \in DOMAIN rawq : /\ Follows(Waiting(s, i), all, cut[i - 1])
                                                        /\ cut[i] = cut[i - 1] + Len(Waiting(s, i))
                              /\ Follows(Unqueued(s), all, cut[Len(rawq)])
                              /\ cut[Len(rawq)] + Len(Unqueued(s)) = Len(all)
                       /\ ended[k][s] = "ok" =>
                            Holds(disk[d].raw[s], all) \/ Holds(zips[d].raw[s], all)
  BY DEF RowsAccounted
<1> DEFINE d   == home[k][s]
           all == accepted[k][s]
<1>1. FilesShapes /\ PathsOK /\ FreshOK /\ WritingOK /\ WrittenOK
  BY DEF GoneInv, RowsInv
<1>2. d \in Dirs /\ d # NoDir /\ d[2] = k /\ all \in Seq(Shapes)
  BY <1>1, DirsAre DEF FilesShapes, HistoryOK, FreshOK
<1>3. disk[d].raw[s] \in Files /\ zips[d].raw[s] \in Files
  BY <1>1, <1>2 DEF FilesShapes, DisksOK, Trees
<1>4. ASSUME entry[s].path = d, failures[s] = NoDir
      PROVE  \E cut \in [0..Len(rawq) -> 0..Len(all)] :
               /\ Holds(disk[d].raw[s], SubSeq(all, 1, cut[0]))
               /\ \A i \in DOMAIN rawq : /\ Follows(Waiting(s, i), all, cut[i - 1])
                                         /\ cut[i] = cut[i - 1] + Len(Waiting(s, i))
               /\ Follows(Unqueued(s), all, cut[Len(rawq)])
               /\ cut[Len(rawq)] + Len(Unqueued(s)) = Len(all)
  <2>1. Recording(disk[d].raw[s], entry[s].headers, rawq, s, Unqueued(s), all)
    BY <1>1, <1>2, <1>4 DEF PathsOK, WritingOK, RecordOf
  <2>2. PICK cut \in [0..Len(rawq) -> 0..Len(all)] :
          FileOK(disk[d].raw[s], SubSeq(all, 1, cut[0])) /\ Split(rawq, s, Unqueued(s), all, cut)
    BY <2>1 DEF Recording
  <2>3. Len(rawq) \in Nat /\ Len(all) \in Nat
    BY <1>1, <1>2 DEF FilesShapes, SampleOK
  <2>4. 0 \in 0..Len(rawq)
    BY <2>3
  <2>5. cut[0] \in 0..Len(all)
    BY <2>4
  <2>6. SubSeq(all, 1, cut[0]) \in Seq(Shapes)
    BY <1>2, <2>3, <2>5, CutInTwo
  <2>7. Holds(disk[d].raw[s], SubSeq(all, 1, cut[0]))
    BY <1>3, <2>2, <2>6, FileOKHolds
  <2>8. \A i \in DOMAIN rawq : Waiting(s, i) = Part(rawq, s, i)
    BY DEF Waiting, Part
  <2> HIDE DEF d, all
  <2>9. QED
    BY <2>2, <2>7, <2>8 DEF Split
<1>5. ASSUME ended[k][s] = "ok" PROVE Holds(disk[d].raw[s], all) \/ Holds(zips[d].raw[s], all)
  <2>1. FileOK(disk[d].raw[s], all) \/ FileOK(zips[d].raw[s], all)
    BY <1>1, <1>5 DEF WrittenOK, StoredOK
  <2>2. QED
    BY <1>2, <1>3, <2>1, FileOKHolds
<1>6. QED
  BY <1>4, <1>5

\* The samples stay accounted for in every behaviour.
LEMMA RowsAlways ==
  ASSUME "remove" \notin FaultyIO
  PROVE  FilesSpec => []RowsInv
<1>1. RowsInv /\ GoneInv /\ [FilesNext]_filesVars => RowsInv'
  BY RowsStep
<1>2. QED
  BY <1>1, InitRows, GoneAlways, PTL DEF FilesSpec

\* RowsAccounted, for any number of subjects, roots, sessions and samples, any
\* shapes and any size of a block, with the output root changing under way and
\* with every I/O error but one: an error while an archived directory is
\* removed leaves a directory that a later STOP would archive over the archive.
THEOREM RowsAreAccounted ==
  ASSUME "remove" \notin FaultyIO
  PROVE  FilesSpec => []RowsAccounted
BY RowsAlways, GoneAlways, RowsHeld, PTL

-----------------------------------------------------------------------------
(* What a STOP that reports success has put into the archive, while the output
   root does not change during a session. *)

\* A session whose files were opened, and one that is archived and removed.
Opened(k) == \E s \in Subjects : home[k][s] # NoDir
Gone(k)   == k \in sealed /\ \A s \in Subjects : (home[k][s] # NoDir /\ ended[k][s] = "ok") => home[k][s] \in removed

\* Until a session is sealed its only directory is the one under the current
\* root, and its files are there; when nothing streams any more it is sealed,
\* or a STOP is about to seal it.
PlaceOK ==
  /\ \A d \in Dirs : disk[d].present => d[2] <= session
  /\ (session >= 1 /\ session \notin sealed /\ (phase = "warming" \/ Opened(session))) =>
       /\ \A r \in Roots : disk[<<r, session>>].present => r = root
       /\ \A s \in Subjects : home[session][s] \in {NoDir, Here}
  /\ session >= 1 => \A r \in Roots, s \in Subjects :
       (home[session][s] # NoDir /\ disk[<<r, session>>].present) => home[session][s] = <<r, session>>
  /\ (session >= 1 /\ streaming = {} /\ Opened(session)) =>
       session \in sealed \/ stop.pc \in {"summary", "flushed", "detached", "joined"}

\* A session that Core holds for archived, or reported as such, is gone.
ReportsOK ==
  /\ (session >= 1 /\ archived = session) => Gone(session)
  /\ \A r \in reports : r.archived => Gone(r.session)

ArchiveInv == PlaceOK /\ ReportsOK

\* Nothing of a sealed session is opened or ended again, and what is sealed or
\* removed stays so.
LEMMA SealedKept ==
  ASSUME GoneInv, RowsInv, FilesNext
  PROVE  /\ sealed \subseteq sealed' /\ removed \subseteq removed'
         /\ \A k \in Sessions, s \in Subjects : k \in sealed => home'[k][s] = home[k][s] /\ ended'[k][s] = ended[k][s]
<1>1. FilesShapes /\ PathsOK /\ LifeOK /\ StreamOK
  BY DEF GoneInv, RowsInv
<1>2. ASSUME NEW S, NEW P, Ends(S, P)
      PROVE  \A k \in Sessions, s \in Subjects : k \in sealed => ended'[k][s] = ended[k][s]
  <2>1. \A k \in Sessions, s \in Subjects : entry[s].path # NoDir /\ entry[s].path[2] = k => k \notin sealed
    BY <1>1 DEF PathsOK, StreamOK
  <2>2. QED
    BY <1>1, <1>2, <2>1, EndsIs
<1>3. CASE Snapshot \/ PipelineWrite \/ DiagnosticsWrite \/ SetFilePath \/ RegisterAlgorithms
  BY <1>3 DEF Snapshot, PipelineWrite, DiagnosticsWrite, SetFilePath, RegisterAlgorithms, diags, history
<1>4. CASE ResetCompute \/ Compute \/ QueuePerformance \/ Ingest \/ WriteBlock
  BY <1>4 DEF ResetCompute, Compute, QueuePerformance, Ingest, WriteBlock, diags, history
<1>5. CASE \E S \in SUBSET Subjects : Start(S)
  BY <1>5 DEF Start, history
<1>6. CASE \E S \in SUBSET Subjects, shared \in BOOLEAN : Stop(S, shared)
  BY <1>6 DEF Stop, diags, history
<1>7. CASE \E s \in Subjects, shape \in Shapes : OnData(s, shape)
  BY <1>7 DEF OnData, diags
<1>8. CASE Activate
  <2>1. session \notin sealed /\ UNCHANGED <<sealed, removed, ended>>
    BY <1>1, <1>8 DEF LifeOK, Activate
  <2>2. QED
    BY <1>1, <1>8, <2>1, HomeIs
<1>9. CASE StartFails
  BY <1>2, <1>9 DEF StartFails
<1>10. CASE WrittenAndClosed
  BY <1>2, <1>10 DEF WrittenAndClosed
<1>11. CASE Flush \/ Summarise \/ Detach \/ JoinDiagnostics \/ Seal
  BY <1>11 DEF Flush, Summarise, Detach, JoinDiagnostics, Seal, diags, history
<1>12. CASE Archive \/ RemoveDirectory \/ Report \/ ReportFailure \/ FinalizeDistributed
  BY <1>12 DEF Archive, RemoveDirectory, Report, ReportFailure, FinalizeDistributed, Finish, diags, history
<1>13. QED
  BY <1>3, <1>4, <1>5, <1>6, <1>7, <1>8, <1>9, <1>10, <1>11, <1>12, Zenon DEF FilesNext

\* A session that is gone stays gone.
LEMMA GoneKept ==
  ASSUME GoneInv, RowsInv, FilesNext, NEW k \in Sessions, Gone(k)
  PROVE  Gone(k)'
BY SealedKept DEF Gone

\* What the archive needs to hold when nothing is opened.
LEMMA PlaceFrame ==
  ASSUME FilesShapes, PlaceOK, UNCHANGED <<root, session, home>>, sealed \subseteq sealed',
         phase' = "warming" => phase = "warming",
         \A d \in Dirs : disk'[d].present =>
           disk[d].present \/ (d[1] = root /\ d[2] <= session /\ d[2] \notin sealed),
         (session >= 1 /\ streaming' = {} /\ Opened(session)) =>
           session \in sealed' \/ stop'.pc \in {"summary", "flushed", "detached", "joined"}
  PROVE  PlaceOK'
<1>1. root \in Roots /\ session \in 0..MaxSessions /\ (session >= 1 => session \in Sessions) /\ Opened(session)' = Opened(session)
  BY FilesAssumption DEF FilesShapes, CoreOK, Sessions, Opened
<1>2. \A d \in Dirs : disk'[d].present => d[2] <= session
  BY DEF PlaceOK
<1>3. ASSUME session >= 1, NEW r \in Roots, disk'[<<r, session>>].present
      PROVE  disk[<<r, session>>].present \/ (r = root /\ session \notin sealed)
  <2>1. <<r, session>> \in Dirs /\ <<r, session>>[1] = r /\ <<r, session>>[2] = session
    BY <1>1, <1>3, DirsAre
  <2>2. QED
    BY <1>3, <2>1
<1>4. (session >= 1 /\ session \notin sealed' /\ (phase' = "warming" \/ Opened(session))) =>
        /\ \A r \in Roots : disk'[<<r, session>>].present => r = root
        /\ \A s \in Subjects : home[session][s] \in {NoDir, Here}
  BY <1>3 DEF PlaceOK
<1>5. ASSUME session >= 1, NEW r \in Roots, NEW s \in Subjects, home[session][s] # NoDir,
             disk'[<<r, session>>].present
      PROVE  home[session][s] = <<r, session>>
  <2>1. CASE disk[<<r, session>>].present
    BY <1>5, <2>1 DEF PlaceOK
  <2>2. CASE r = root /\ session \notin sealed
    BY <1>5, <2>2 DEF PlaceOK, Opened, Here
  <2>3. QED
    BY <1>3, <1>5, <2>1, <2>2
<1>6. Here' = Here
  BY DEF Here
<1>7. QED
  BY <1>1, <1>2, <1>4, <1>5, <1>6 DEF PlaceOK

\* No step but a START and an activation opens anything: no directory is made
\* but under the current root, for a session that is not sealed.
LEMMA MadeHere ==
  ASSUME GoneInv, RowsInv, FilesNext, ~ \E S \in SUBSET Subjects : Start(S), ~Activate, ~SetFilePath
  PROVE  /\ UNCHANGED <<root, session, home>> /\ (phase' = "warming" => phase = "warming")
         /\ \A d \in Dirs : disk'[d].present =>
              disk[d].present \/ (d[1] = root /\ d[2] <= session /\ d[2] \notin sealed)
<1> DEFINE Made == \A d \in Dirs : disk'[d].present =>
                     disk[d].present \/ (d[1] = root /\ d[2] <= session /\ d[2] \notin sealed)
           Still == UNCHANGED <<root, session, home>> /\ (phase' = "warming" => phase = "warming")
<1>1. FilesShapes /\ PathsOK /\ StreamOK /\ PresentOK /\ LifeOK /\ disk \in [Dirs -> Trees]
  BY DEF GoneInv, RowsInv, FilesShapes, DisksOK
<1>2. session \in 0..MaxSessions /\ 0..session \subseteq 0..MaxSessions /\ MaxSessions \in Nat
  BY <1>1, FilesAssumption DEF FilesShapes, CoreOK
<1>3. ASSUME NEW k \in 0..session, StartDiagnostics(k) PROVE Made
  <2>1. \A d \in Dirs : disk'[d].present => disk[d].present \/ (d = <<root, k>> /\ k \notin sealed)
    BY <1>1, <1>2, <1>3, DiagnosticsMake
  <2>2. k <= session
    BY <1>2
  <2>3. QED
    BY <2>1, <2>2
<1>4. ASSUME disk' = disk PROVE Made
  BY <1>4
<1>5. CASE Snapshot \/ RegisterAlgorithms \/ ResetCompute \/ QueuePerformance \/ Ingest
  <2>1. Still /\ disk' = disk
    BY <1>5 DEF Snapshot, RegisterAlgorithms, ResetCompute, QueuePerformance, Ingest, core, disks, history
  <2>2. QED
    BY <1>4, <2>1
<1>6. CASE PipelineWrite
  <2>1. Still
    BY <1>6 DEF PipelineWrite, core, history
  <2>2. disk[Head(pipe.records)].present
    <3>1. pipe.records \in Seq(Dirs) /\ pipe.records # <<>>
      BY <1>1, <1>6 DEF FilesShapes, WritersOK, PipelineWrite
    <3>2. Head(pipe.records) = pipe.records[1] /\ 1 \in DOMAIN pipe.records
      BY <3>1, TailIs
    <3>3. QED
      BY <1>1, <3>2 DEF PresentOK
  <2>3. Made
    BY <1>1, <1>6, <2>2, PipelineMakes
  <2>4. QED
    BY <2>1, <2>3
<1>7. CASE DiagnosticsWrite
  <2>1. Still /\ Head(diagq) \in 0..session /\ StartDiagnostics(Head(diagq))
    BY <1>1, <1>7, TailIs DEF FilesShapes, WritersOK, DiagnosticsWrite, core, history
  <2>2. QED
    BY <1>3, <2>1
<1>8. CASE Compute
  <2>1. Still
    BY <1>8 DEF Compute, core
  <2>2. Made
    BY <1>1, <1>8, ComputeKeeps DEF DiskKept
  <2>3. QED
    BY <2>1, <2>2
<1>9. CASE WriteBlock
  <2>1. Still
    BY <1>9 DEF WriteBlock, core, history
  <2>2. Made
    <3> DEFINE s     == Head(rawq).subject
               block == Head(rawq).block
               d     == entry[s].path
               w     == Appended(EnsureRawHeaders(entry[s].headers, disk[d].raw[s], block), block)
    <3>1. CASE d = NoDir
      BY <1>4, <1>9, <3>1 DEF WriteBlock
    <3>2. CASE d # NoDir
      <4>1. s \in Subjects
        BY <1>1, <1>9, HeadIs DEF WriteBlock
      <4>2. d \in Dirs
        BY <1>1, <3>2, <4>1, PathIs
      <4>3. \/ PutInto(d, s, w)
            \/ UNCHANGED <<entry, disk>>
            \/ \E x \in Written : PutInto(d, s, x)
        BY <1>1, <1>9, <3>2, WriteBlockIs
      <4> HIDE DEF s, block, d, w
      <4>4. QED
        BY <4>3 DEF PutInto
    <3>3. QED
      BY <3>1, <3>2
  <2>3. QED
    BY <2>1, <2>2
<1>10. CASE \E S \in SUBSET Subjects, shared \in BOOLEAN : Stop(S, shared)
  <2>1. Still /\ disk' = disk
    BY <1>10 DEF Stop, disks, history
  <2>2. QED
    BY <1>4, <2>1
<1>11. CASE \E s \in Subjects, shape \in Shapes : OnData(s, shape)
  <2>1. Still /\ disk' = disk
    BY <1>11 DEF OnData, core, disks
  <2>2. QED
    BY <1>4, <2>1
<1>12. CASE StartFails
  <2>1. Still /\ session \in 0..session
    BY <1>2, <1>12 DEF StartFails
  <2>2. QED
    BY <1>3, <1>12, <2>1 DEF StartFails
<1>13. CASE WrittenAndClosed
  <2>1. Still
    BY <1>13 DEF WrittenAndClosed
  <2>2. Made
    BY <1>1, <1>13, ClosingKeeps DEF DiskKept
  <2>3. QED
    BY <2>1, <2>2
<1>14. CASE Summarise \/ ReportFailure
  <2>1. Still /\ session \in 0..session /\ StartDiagnostics(session)
    BY <1>2, <1>14 DEF Summarise, ReportFailure, Finish, core, history
  <2>2. QED
    BY <1>3, <2>1
<1>15. CASE Flush \/ Detach \/ JoinDiagnostics \/ Seal \/ Archive \/ Report \/ FinalizeDistributed
  <2>1. Still
    BY <1>15 DEF Flush, Detach, JoinDiagnostics, Seal, Archive, Report, FinalizeDistributed, Finish, core, history
  <2>2. disk' = disk
    BY <1>15 DEF Flush, Detach, JoinDiagnostics, Seal, Archive, Report, FinalizeDistributed, Finish, disks
  <2>3. QED
    BY <1>4, <2>1, <2>2
<1>16. CASE RemoveDirectory
  <2>1. Still
    BY <1>16 DEF RemoveDirectory
  <2>2. stop.source \in Dirs /\ disk[stop.source].present
    BY <1>1, <1>16 DEF RemoveDirectory, LifeOK
  <2>3. Made
    BY <1>1, <1>16, <2>2 DEF RemoveDirectory
  <2>4. QED
    BY <2>1, <2>3
<1>17. QED
  BY <1>5, <1>6, <1>7, <1>8, <1>9, <1>10, <1>11, <1>12, <1>13, <1>14, <1>15, <1>16, Zenon DEF FilesNext

\* A step that goes on with a STOP, or with none.
LEMMA SealedOrSealing ==
  ASSUME GoneInv, RowsInv, ArchiveInv, FilesNext, ~ \E S \in SUBSET Subjects : Start(S), ~Activate, ~SetFilePath,
         session >= 1, streaming' = {}, Opened(session)
  PROVE  session \in sealed' \/ stop'.pc \in {"summary", "flushed", "detached", "joined"}
<1>1. CoreOK /\ FilesShapes /\ LifeOK /\ FreshOK /\ PlaceOK /\ ReportsOK /\ sealed \subseteq sealed'
  BY SealedKept DEF GoneInv, RowsInv, FilesShapes, ArchiveInv
<1>2. ASSUME streaming' = streaming, stop'.pc = stop.pc
      PROVE  session \in sealed' \/ stop'.pc \in {"summary", "flushed", "detached", "joined"}
  BY <1>1, <1>2 DEF PlaceOK
<1>3. ASSUME streaming' = streaming, stop.pc \notin {"summary", "flushed", "detached", "joined"}
      PROVE  session \in sealed'
  BY <1>1, <1>3 DEF PlaceOK
<1>4. CASE Snapshot \/ PipelineWrite \/ DiagnosticsWrite \/ RegisterAlgorithms \/ ResetCompute
  BY <1>2, <1>4 DEF Snapshot, PipelineWrite, DiagnosticsWrite, RegisterAlgorithms, ResetCompute, core
<1>5. CASE Compute \/ QueuePerformance \/ Ingest \/ WriteBlock
  BY <1>2, <1>5 DEF Compute, QueuePerformance, Ingest, WriteBlock, core
<1>6. CASE \E s \in Subjects, shape \in Shapes : OnData(s, shape)
  BY <1>2, <1>6 DEF OnData, core
<1>7. CASE \E S \in SUBSET Subjects, shared \in BOOLEAN : Stop(S, shared)
  BY <1>3, <1>7, Nothings DEF Stop
<1>8. CASE StartFails
  <2>1. Unstarted(session)
    BY <1>1, <1>8 DEF FreshOK, StartFails
  <2>2. QED
    BY <2>1 DEF Unstarted, Opened
<1>9. CASE Flush
  BY <1>3, <1>9 DEF Flush, core
<1>10. CASE WrittenAndClosed
  <2>1. stop \in Stops
    BY <1>1, <1>10, Going DEF WrittenAndClosed
  <2>2. stop'.pc = "summary" \/ streaming' = streaming
    BY <1>10, <2>1 DEF WrittenAndClosed, Stops
  <2>3. QED
    BY <1>3, <1>10, <2>2 DEF WrittenAndClosed
<1>11. CASE Summarise
  BY <1>1, <1>11, ToIs DEF Summarise, Pcs
<1>12. CASE Detach
  <2>1. streaming' = streaming
    BY <1>12 DEF Detach, core
  <2>2. CASE archived = session
    BY <1>1, <2>2 DEF ReportsOK, Gone
  <2>3. CASE archived # session
    <3>1. To("detached")
      BY <1>12, <2>1, <2>3 DEF Detach
    <3>2. QED
      BY <1>1, <1>12, <3>1, ToIs DEF Detach, Pcs
  <2>4. QED
    BY <2>2, <2>3
<1>13. CASE JoinDiagnostics
  BY <1>1, <1>13, ToIs DEF JoinDiagnostics, Pcs
<1>14. CASE Seal
  BY <1>14 DEF Seal
<1>15. CASE Archive \/ RemoveDirectory \/ Report \/ ReportFailure
  BY <1>3, <1>15 DEF Archive, RemoveDirectory, Report, ReportFailure, Finish, core
<1>16. CASE FinalizeDistributed
  BY <1>16 DEF FinalizeDistributed, NoStop
<1>17. QED
  BY <1>4, <1>5, <1>6, <1>7, <1>8, <1>9, <1>10, <1>11, <1>12, <1>13, <1>14, <1>15, <1>16, Zenon DEF FilesNext

\* The root changes only while nothing is under way; a START makes the first
\* directory of its session, and an activation opens the files in it.
LEMMA PlaceStep ==
  ASSUME GoneInv, RowsInv, ArchiveInv, FilesNext, Hotplug = FALSE
  PROVE  PlaceOK'
<1>1. /\ FilesShapes /\ LifeOK /\ FreshOK /\ PlaceOK /\ root \in Roots /\ session \in 0..MaxSessions
      /\ MaxSessions \in Nat /\ stop.pc \in Pcs \cup {"none"}
  BY FilesAssumption, Nothings DEF GoneInv, RowsInv, FilesShapes, CoreOK, ArchiveInv, Stops
<1>2. session >= 1 => session \in Sessions
  BY <1>1 DEF Sessions
<1>3. CASE SetFilePath
  <2>1. /\ phase = "idle" /\ streaming = {} /\ stop.pc = "none"
        /\ UNCHANGED <<session, phase, streaming, stop, sealed, home, disk>>
    BY <1>3, Nothings DEF SetFilePath, Quiet, diags, disks, history
  <2>2. (session >= 1 /\ Opened(session)) => session \in sealed
    BY <1>1, <2>1 DEF PlaceOK
  <2>3. Opened(session)' = Opened(session)
    BY <2>1 DEF Opened
  <2>4. QED
    BY <1>1, <2>1, <2>2, <2>3 DEF PlaceOK
<1>4. CASE \E S \in SUBSET Subjects : Start(S)
  <2>1. PICK S \in SUBSET Subjects : Start(S)
    BY <1>4
  <2>2. /\ session' = session + 1 /\ session + 1 \in Sessions /\ session + 1 \in 0..MaxSessions
        /\ StartDiagnostics(session + 1) /\ UNCHANGED <<root, home, sealed>>
    BY <1>1, <2>1 DEF Start, Sessions, history
  <2>3. \A d \in Dirs : disk'[d].present => disk[d].present \/ d = <<root, session + 1>>
    BY <1>1, <2>2, DiagnosticsMake
  <2>4. \A d \in Dirs : disk[d].present => d[2] <= session
    BY <1>1 DEF PlaceOK
  <2>5. \A s \in Subjects : home'[session'][s] = NoDir
    BY <1>1, <2>2 DEF FreshOK, Unstarted
  <2>6. \A d \in Dirs : disk'[d].present => d[2] <= session'
    <3>1. \A d \in Dirs : d[2] \in Nat
      BY DirsAre DEF Sessions
    <3>2. <<root, session + 1>>[2] = session + 1
      OBVIOUS
    <3>3. QED
      BY <1>1, <2>2, <2>3, <2>4, <3>1, <3>2
  <2>7. ASSUME NEW r \in Roots, disk'[<<r, session'>>].present PROVE r = root
    <3>1. <<r, session'>> \in Dirs /\ <<r, session'>>[2] = session + 1 /\ <<r, session'>>[1] = r
      BY <2>2, DirsAre
    <3>2. ~disk[<<r, session'>>].present
      BY <1>1, <2>4, <3>1
    <3>3. <<r, session'>> = <<root, session + 1>>
      BY <2>3, <2>7, <3>1, <3>2
    <3>4. QED
      BY <3>3
  <2>8. ~Opened(session)'
    BY <2>5 DEF Opened
  <2>9. QED
    BY <2>2, <2>5, <2>6, <2>7, <2>8 DEF PlaceOK
<1>5. CASE Activate
  <2>1. /\ session >= 1 /\ session \notin sealed /\ phase = "warming" /\ members \in SUBSET Subjects
        /\ UNCHANGED <<root, session, sealed, stop>> /\ streaming' = streaming \cup members
    BY <1>1, <1>5 DEF Activate, LifeOK, FilesShapes, CoreOK
  <2>2. /\ \A r \in Roots : disk[<<r, session>>].present => r = root
        /\ \A s \in Subjects : home[session][s] = NoDir
    BY <1>1, <2>1 DEF PlaceOK, FreshOK, Unstarted
  <2>3. /\ Here \in Dirs /\ Here[2] = session /\ \A d \in Dirs : d # Here => disk'[d] = disk[d]
    BY <1>1, <1>5, ActivateMakes
  <2>4. \A s \in Subjects : home'[session][s] = IF s \in members THEN Here ELSE NoDir
    BY <1>1, <1>2, <1>5, <2>1, <2>2, HomeIs
  <2>5. \A d \in Dirs : disk'[d].present => d[2] <= session
    <3>1. \A d \in Dirs : disk[d].present => d[2] <= session
      BY <1>1 DEF PlaceOK
    <3>2. session <= session
      BY <1>1
    <3>3. QED
      BY <2>3, <3>1, <3>2
  <2>6. \A r \in Roots : disk'[<<r, session>>].present => r = root
    <3>1. ASSUME NEW r \in Roots, r # root PROVE ~disk'[<<r, session>>].present
      <4>1. <<r, session>> \in Dirs /\ <<r, session>> # Here
        BY <1>2, <2>1, <3>1, DirsAre DEF Here
      <4>2. QED
        BY <2>2, <2>3, <3>1, <4>1
    <3>2. QED
      BY <3>1
  <2>7. Opened(session)' => streaming' # {}
    BY <2>1, <2>4 DEF Opened
  <2>8. Here' = Here
    BY <2>1 DEF Here
  <2>9. QED
    BY <2>1, <2>4, <2>5, <2>6, <2>7, <2>8 DEF PlaceOK, Here
<1>6. CASE ~SetFilePath /\ ~Activate /\ ~ \E S \in SUBSET Subjects : Start(S)
  <2>1. sealed \subseteq sealed'
    BY SealedKept
  <2>2. /\ UNCHANGED <<root, session, home>> /\ (phase' = "warming" => phase = "warming")
        /\ \A d \in Dirs : disk'[d].present =>
             disk[d].present \/ (d[1] = root /\ d[2] <= session /\ d[2] \notin sealed)
    BY <1>6, MadeHere
  <2>3. (session >= 1 /\ streaming' = {} /\ Opened(session)) =>
          session \in sealed' \/ stop'.pc \in {"summary", "flushed", "detached", "joined"}
    BY <1>6, SealedOrSealing
  <2>4. QED
    BY <1>1, <2>1, <2>2, <2>3, PlaceFrame
<1>7. QED
  BY <1>3, <1>4, <1>5, <1>6

\* A directory is removed, and its session reported as archived, when all the
\* files of the session are in it.
LEMMA ReportsStep ==
  ASSUME GoneInv, RowsInv, ArchiveInv, FilesNext, "remove" \notin FaultyIO
  PROVE  ReportsOK'
<1>1. /\ FilesShapes /\ LifeOK /\ PlaceOK /\ ReportsOK /\ CoreOK /\ session \in 0..MaxSessions
      /\ MaxSessions \in Nat /\ \A r \in reports : r.session \in Sessions
  BY FilesAssumption DEF GoneInv, FilesShapes, CoreOK, ArchiveInv, HistoryOK, DrainReports, Sessions
<1>2. session >= 1 => session \in Sessions
  BY <1>1 DEF Sessions
<1>3. \A k \in Sessions : Gone(k) => Gone(k)'
  BY GoneKept
<1>4. \A r \in reports : r.archived => Gone(r.session)'
  BY <1>1, <1>3 DEF ReportsOK
<1>5. ASSUME session' = session, archived' = archived PROVE (session' >= 1 /\ archived' = session') => Gone(session)'
  BY <1>1, <1>2, <1>3, <1>5 DEF ReportsOK, Gone
<1>6. CASE \E S \in SUBSET Subjects : Start(S)
  <2>1. session' = session + 1 /\ archived' = 0 /\ reports' = reports
    BY <1>6 DEF Start, history
  <2>2. archived' # session'
    BY <1>1, <2>1
  <2>3. QED
    BY <1>4, <2>1, <2>2 DEF ReportsOK, Gone
<1>7. CASE RemoveDirectory
  <2>1. /\ removed' = removed \cup {stop.source} /\ stop.source \in Dirs /\ stop.source[2] = session
        /\ disk[stop.source].present /\ session \in sealed
        /\ UNCHANGED <<session, home, ended, sealed, reports>> /\ stop # NoStop
    BY <1>1, <1>7, Nothings DEF RemoveDirectory, Fails, LifeOK, diags
  <2>2. session >= 1 /\ session \in Sessions
    BY <1>1, <1>2, <2>1 DEF CoreOK
  <2>3. stop.source[1] \in Roots /\ stop.source = <<stop.source[1], session>>
    BY <2>1, DirsAre
  <2>4. \A s \in Subjects : home[session][s] # NoDir => home[session][s] = stop.source
    BY <1>1, <2>1, <2>2, <2>3 DEF PlaceOK
  <2>5. Gone(session)'
    BY <2>1, <2>4 DEF Gone
  <2>6. QED
    BY <1>4, <2>1, <2>5 DEF ReportsOK, Gone
<1>8. CASE Report \/ ReportFailure
  <2>1. session' = session /\ archived' = archived /\ stop # NoStop
    BY <1>8, Nothings DEF Report, ReportFailure, Finish
  <2>2. PICK report : reports' = reports \cup {report} /\ report.session = session
                      /\ (report.archived => archived = session)
    <3>1. CASE Report
      <4>1. DEFINE x == [session |-> session, shared |-> stop.shared, drained |-> TRUE,
                         archived |-> archived = session, ok |-> stop.partial = {} /\ ~stop.error]
      <4>2. reports' = reports \cup {x}
        BY <3>1 DEF Report, Finish
      <4>3. x.session = session /\ x.archived = (archived = session)
        OBVIOUS
      <4> HIDE DEF x
      <4>4. QED
        BY <4>2, <4>3
    <3>2. CASE ReportFailure
      <4>1. DEFINE x == [session |-> session, shared |-> stop.shared, drained |-> FALSE, archived |-> FALSE,
                         ok |-> FALSE]
      <4>2. reports' = reports \cup {x}
        BY <3>2 DEF ReportFailure, Finish
      <4>3. x.session = session /\ x.archived = FALSE
        OBVIOUS
      <4> HIDE DEF x
      <4>4. QED
        BY <4>2, <4>3
    <3>3. QED
      BY <1>8, <3>1, <3>2
  <2>3. session >= 1
    BY <1>1, <2>1 DEF CoreOK
  <2>4. report.archived => Gone(session)'
    BY <1>5, <2>1, <2>2, <2>3
  <2>5. QED
    BY <1>4, <1>5, <2>1, <2>2, <2>4 DEF ReportsOK, Gone
<1>9. ASSUME UNCHANGED <<session, archived, reports>> PROVE ReportsOK'
  BY <1>4, <1>5, <1>9 DEF ReportsOK, Gone
<1>10. CASE \/ Snapshot \/ PipelineWrite \/ DiagnosticsWrite \/ SetFilePath \/ RegisterAlgorithms \/ ResetCompute
            \/ Compute \/ QueuePerformance \/ Ingest \/ WriteBlock
  BY <1>9, <1>10 DEF Snapshot, PipelineWrite, DiagnosticsWrite, SetFilePath, RegisterAlgorithms, ResetCompute,
                     Compute, QueuePerformance, Ingest, WriteBlock, core, history
<1>11. CASE \/ \E s \in Subjects, shape \in Shapes : OnData(s, shape)
            \/ \E S \in SUBSET Subjects, shared \in BOOLEAN : Stop(S, shared)
            \/ Activate \/ StartFails \/ WrittenAndClosed
  BY <1>9, <1>11 DEF OnData, Stop, Activate, StartFails, WrittenAndClosed, core, history
<1>12. CASE Flush \/ Summarise \/ Detach \/ JoinDiagnostics \/ Seal \/ Archive \/ FinalizeDistributed
  BY <1>9, <1>12 DEF Flush, Summarise, Detach, JoinDiagnostics, Seal, Archive, FinalizeDistributed, core, history
<1>13. QED
  BY <1>6, <1>7, <1>8, <1>10, <1>11, <1>12, Zenon DEF FilesNext

\* The two together.
LEMMA ArchiveStep ==
  ASSUME GoneInv, RowsInv, ArchiveInv, [FilesNext]_filesVars, "remove" \notin FaultyIO, Hotplug = FALSE
  PROVE  ArchiveInv'
<1>1. CASE FilesNext
  BY <1>1, PlaceStep, ReportsStep DEF ArchiveInv
<1>2. CASE UNCHANGED filesVars
  <2>1. UNCHANGED <<root, session, archived, phase, streaming, stop, sealed, disk, home, ended, removed, reports>>
    BY <1>2 DEF filesVars, core, diags, disks, history
  <2>2. QED
    BY <2>1 DEF ArchiveInv, PlaceOK, ReportsOK, Opened, Gone, Here
<1>3. QED
  BY <1>1, <1>2

\* Before the first START nothing is archived.
LEMMA InitArchive == FilesInit => ArchiveInv
<1> SUFFICES ASSUME FilesInit PROVE ArchiveInv
  OBVIOUS
<1>1. session = 0 /\ reports = {} /\ \A d \in Dirs : ~disk[d].present
  BY DEF FilesInit, NoTree
<1>2. QED
  BY <1>1 DEF ArchiveInv, PlaceOK, ReportsOK

\* What is gone is in its archive.
LEMMA ArchiveHeld == GoneInv /\ RowsInv /\ ArchiveInv => ArchiveHoldsSession
<1> SUFFICES ASSUME GoneInv, RowsInv, ArchiveInv, NEW r \in reports, r.archived, NEW s \in Subjects,
                    home[r.session][s] # NoDir, ended[r.session][s] = "ok"
             PROVE  /\ home[r.session][s] \in removed
                    /\ Holds(zips[home[r.session][s]].raw[s], accepted[r.session][s])
  BY DEF ArchiveHoldsSession
<1> DEFINE k == r.session
<1>1. FilesShapes /\ WrittenOK /\ ReportsOK
  BY DEF GoneInv, RowsInv, ArchiveInv
<1>2. k \in Sessions
  BY <1>1, FilesAssumption DEF FilesShapes, CoreOK, HistoryOK, DrainReports, Sessions
<1>3. home[k][s] \in removed
  BY <1>1 DEF ReportsOK, Gone
<1>4. FileOK(zips[home[k][s]].raw[s], accepted[k][s])
  BY <1>1, <1>2, <1>3 DEF WrittenOK, StoredOK
<1>5. home[k][s] \in Dirs /\ accepted[k][s] \in Seq(Shapes)
  BY <1>1, <1>2, DirsAre DEF FilesShapes, HistoryOK
<1>6. zips[home[k][s]].raw[s] \in Files
  BY <1>1, <1>5 DEF FilesShapes, DisksOK, Trees
<1>7. QED
  BY <1>3, <1>4, <1>5, <1>6, FileOKHolds

\* ArchiveHoldsSession, for any number of subjects, sessions and samples and
\* with the I/O errors of RowsAreAccounted, when the output root changes only
\* between sessions: set_file_path during one sends the STOP to an empty directory.
THEOREM ArchiveIsComplete ==
  ASSUME "remove" \notin FaultyIO, Hotplug = FALSE
  PROVE  FilesSpec => []ArchiveHoldsSession
<1>1. GoneInv /\ RowsInv /\ ArchiveInv /\ [FilesNext]_filesVars => ArchiveInv'
  BY ArchiveStep
<1>2. FilesSpec => []ArchiveInv
  BY <1>1, InitArchive, GoneAlways, RowsAlways, PTL DEF FilesSpec
<1>3. QED
  BY <1>2, GoneAlways, RowsAlways, ArchiveHeld, PTL
===============================================================================

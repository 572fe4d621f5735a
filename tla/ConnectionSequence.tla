-------------------------- MODULE ConnectionSequence --------------------------
(***************************************************************************)
(* The ordered "Connect All" of the master: subjects are prepared one      *)
(* after the other, each by a discovery and then a connection step that    *)
(* the subject's node executes and answers.  A step may be answered late,  *)
(* badly or not at all; links are lost, nodes are reset and the system is  *)
(* reconfigured meanwhile.                                                 *)
(*                                                                         *)
(* The client's commands, the timer and the event bus take the sequence's  *)
(* lock, so each of them is one step here.  A node executes its commands   *)
(* in the order of its sensor manager's queue.                             *)
(***************************************************************************)
EXTENDS Naturals, Sequences, FiniteSets, FiniteSetsExt

CONSTANTS
  Nodes,         \* execution nodes
  Master,        \* the one that runs the sequence
  Subjects,      \* configured subjects
  NodeOf,        \* the node of each subject
  Order,         \* the subjects in configuration order
  Addresses,     \* the sensors within reach
  Slots,         \* how many sensors each subject wears (its locations)
  MaxRuns,       \* bound: Connect All commands
  MaxSearches,   \* bound: discoveries the client asks for by itself
  MaxResets,     \* bound: Reset commands
  MaxConfigures, \* bound: reconfigurations
  MaxLinkLosses, \* bound: links that sensors lose
  MaxFaults      \* bound: lost messages, refused resets, dispatches that raise

\* start refuses a configuration without subjects.
ASSUME SequenceAssumption ==
  /\ Master \in Nodes
  /\ Subjects # {}
  /\ NodeOf \in [Subjects -> Nodes]
  /\ Order \in Seq(Subjects) /\ Len(Order) = Cardinality(Subjects)
  /\ {Order[i] : i \in DOMAIN Order} = Subjects
  /\ Slots \in [Subjects -> Nat \ {0}]
ASSUME SequenceBounds ==
  {MaxRuns, MaxSearches, MaxResets, MaxConfigures, MaxLinkLosses, MaxFaults} \subseteq Nat

VARIABLES
  \* SubjectConnectionSequence
  selected,   \* addresses selected for each subject
  completed,  \* subjects whose sensors are connected and set up
  discovered, \* subjects whose discovery was accepted
  active,     \* whether a Connect All runs
  pending,    \* the outstanding step, NoStep if none
  timer,      \* the token of the armed timer, 0 if none
  index,      \* position in Order
  outcome,    \* what the last progress event said of the Connect All
  \* The nodes
  configured, \* nodes whose Core has its subjects
  addr,       \* the identities that the slots of a subject hold
  linked,     \* those that are connected and set up
  \* The transport
  cmds,       \* commands on their way to each node
  evts,       \* events of each node on their way to the sequence
  tokens,     \* correlation ids given to steps
  runs,       \* Connect All commands accepted
  count       \* counters that bound the other commands and the faults

sequenceVars == <<selected, completed, discovered, active, pending, timer, index, outcome>>
nodeVars == <<configured, addr, linked>>
vars == <<sequenceVars, nodeVars, cmds, evts, tokens, runs, count>>

NoToken == 0
NoStep == [token |-> NoToken, subject |-> Order[1], op |-> "none"]
Counters == {"searches", "resets", "configures", "linkLosses", "faults"}

Limit(c) ==
  CASE c = "searches" -> MaxSearches [] c = "resets" -> MaxResets
    [] c = "configures" -> MaxConfigures [] c = "linkLosses" -> MaxLinkLosses
    [] c = "faults" -> MaxFaults

Count(c) == count[c] < Limit(c) /\ count' = [count EXCEPT ![c] = @ + 1]

SubjectsOf(n) == {s \in Subjects : NodeOf[s] = n}

Cmd(op, token, s, A) == [op |-> op, token |-> token, subject |-> s, addrs |-> A]
Evt(kind, token, s, A) == [kind |-> kind, token |-> token, subject |-> s, addrs |-> A]
Sent(n, e) == [evts EXCEPT ![n] = Append(@, e)]

\* SubjectConnectionSequence.busy
Busy == active \/ pending # NoStep

\* Mutant: only what the subjects before it in the order have selected.
ExclusionsOfEarlier(sel, s) ==
  UNION {sel[Order[i]] : i \in {j \in DOMAIN Order : \E k \in DOMAIN Order : Order[k] = s /\ j < k}}

\* exclusions: what the other subjects have selected.
Exclusions(sel, s) == UNION {sel[t] : t \in Subjects \ {s}}

-----------------------------------------------------------------------------
(* The sequence. *)

\* Mutant: a failure gives the outstanding step up.
FailAndForget ==
  /\ active' = FALSE
  /\ timer' = NoToken
  /\ outcome' = "failed"
  /\ pending' = NoStep

\* _fail: stops the progression; the outstanding step stays.
Fail ==
  /\ active' = FALSE
  /\ timer' = NoToken
  /\ outcome' = "failed"
  /\ UNCHANGED pending

\* Mutant: the step is sent without a timer.
StepUntimed(s, op) ==
  /\ tokens' = tokens + 1
  /\ pending' = [token |-> tokens + 1, subject |-> s, op |-> op]
  /\ active' = TRUE
  /\ timer' = NoToken
  /\ outcome' = "running"
  /\ cmds' = [cmds EXCEPT ![NodeOf[s]] = Append(@, Cmd(op, tokens + 1, s,
               IF op = "discovering" THEN Exclusions(selected', s) ELSE selected'[s]))]

\* Mutant: every step has the same token.
StepReusingToken(s, op) ==
  /\ UNCHANGED tokens
  /\ pending' = [token |-> tokens + 1, subject |-> s, op |-> op]
  /\ active' = TRUE
  /\ timer' = tokens + 1
  /\ outcome' = "running"
  /\ cmds' = [cmds EXCEPT ![NodeOf[s]] = Append(@, Cmd(op, tokens + 1, s,
               IF op = "discovering" THEN Exclusions(selected', s) ELSE selected'[s]))]

\* _step: a fresh token, a timer, and the command to the subject's node.
Step(s, op) ==
  /\ tokens' = tokens + 1
  /\ pending' = [token |-> tokens + 1, subject |-> s, op |-> op]
  /\ active' = TRUE
  /\ timer' = tokens + 1
  /\ outcome' = "running"
  /\ cmds' = [cmds EXCEPT ![NodeOf[s]] = Append(@, Cmd(op, tokens + 1, s,
               IF op = "discovering" THEN Exclusions(selected', s) ELSE selected'[s]))]

\* _step when the dispatch raises.
StepRaises ==
  /\ tokens' = tokens + 1
  /\ pending' = NoStep
  /\ active' = FALSE
  /\ timer' = NoToken
  /\ outcome' = "failed"
  /\ UNCHANGED cmds

\* A step is dispatched, or its dispatch raises.
Dispatch(s, op) ==
  \/ Step(s, op) /\ UNCHANGED count
  \/ StepRaises /\ Count("faults")

\* _next_subject: skip completed subjects; a subject that was discovered is only connected.
NextSubject(from) ==
  LET i == Min({j \in from..Len(Order) : Order[j] \notin completed'} \cup {Len(Order) + 1})
  IN /\ index' = i
     /\ IF i <= Len(Order)
        THEN Dispatch(Order[i], IF Order[i] \in discovered' THEN "connecting" ELSE "discovering")
        ELSE /\ active' = FALSE
             /\ pending' = NoStep
             /\ timer' = NoToken
             /\ outcome' = "completed"
             /\ UNCHANGED <<cmds, tokens, count>>

\* start, when the sequence is not busy.
ConnectAll ==
  /\ ~Busy
  /\ runs < MaxRuns
  /\ runs' = runs + 1
  /\ UNCHANGED <<selected, completed, discovered>>
  /\ NextSubject(1)
  /\ UNCHANGED <<nodeVars, evts>>

\* _expired: the timer of the outstanding step fires.
Expire ==
  /\ active
  /\ pending # NoStep
  /\ timer = pending.token
  /\ Fail
  /\ UNCHANGED <<selected, completed, discovered, index, nodeVars, cmds, evts, tokens, runs, count>>

\* configure, when an INIT has installed the subjects on every node.  It is refused while
\* the sequence is busy.  The client waits for EVT_SYSTEM_INITIALIZED, which follows the
\* earlier events of the nodes on the bus.
Configure ==
  /\ ~Busy
  /\ \A n \in Nodes : cmds[n] = <<>> /\ evts[n] = <<>>
  /\ Count("configures")
  /\ selected' = [s \in Subjects |-> {}]
  /\ completed' = {}
  /\ discovered' = {}
  /\ timer' = NoToken
  /\ configured' = Nodes
  /\ addr' = [s \in Subjects |-> {}]
  /\ linked' = [s \in Subjects |-> {}]
  /\ UNCHANGED <<active, pending, index, outcome, cmds, evts, tokens, runs>>

\* The client discovers the sensors of one subject by itself, with the exclusions of the
\* sequence; refused while the sequence is busy.
Search(s) ==
  /\ ~Busy
  /\ Count("searches")
  /\ cmds' = [cmds EXCEPT ![NodeOf[s]] = Append(@, Cmd("search", NoToken, s, Exclusions(selected, s)))]
  /\ UNCHANGED <<sequenceVars, nodeVars, evts, tokens, runs>>

\* Reset (CMD_DISCONNECT_ALL with recover_session): announced on the master's bus, then
\* sent to every node.
Reset ==
  /\ Count("resets")
  /\ evts' = Sent(Master, Evt("started", NoToken, Order[1], {}))
  /\ cmds' = [n \in Nodes |-> Append(cmds[n], Cmd("reset", NoToken, Order[1], {}))]
  /\ UNCHANGED <<sequenceVars, nodeVars, tokens, runs>>

-----------------------------------------------------------------------------
(* The nodes. *)

Receives(n, op) == cmds[n] # <<>> /\ Head(cmds[n]).op = op /\ cmds' = [cmds EXCEPT ![n] = Tail(@)]

LinkedToOthers(s) == UNION {linked[t] : t \in Subjects \ {s}}

\* The scan of discover_for_subject finds a sensor for every slot that is not connected.
Scan(s, excluded) ==
  LET held == UNION {addr[t] : t \in SubjectsOf(NodeOf[s]) \ {s}}
      free == Addresses \ (excluded \cup held \cup linked[s] \cup LinkedToOthers(s))
  IN \E A \in SUBSET free :
       /\ Cardinality(A) = Slots[s] - Cardinality(linked[s])
       /\ addr' = [addr EXCEPT ![s] = linked[s] \cup A]

\* execute_connection_step with a discovery: its terminal event.
NodeDiscovers(n) ==
  LET c == Head(cmds[n])
      s == c.subject
  IN /\ Receives(n, "discovering")
     /\ \/ /\ n \in configured
           /\ Scan(s, c.addrs)
           /\ evts' = Sent(n, Evt("discovered", c.token, s, addr'[s]))
        \* An incomplete scan leaves the slots as they are; an unknown subject has none.
        \/ evts' = Sent(n, Evt("error", c.token, s, addr[s])) /\ UNCHANGED addr
     /\ UNCHANGED <<sequenceVars, configured, linked, tokens, runs, count>>

\* The client's own discovery answers without a token, and only when it is complete.
NodeSearches(n) ==
  LET c == Head(cmds[n])
  IN /\ Receives(n, "search")
     /\ \/ /\ n \in configured
           /\ Scan(c.subject, c.addrs)
           /\ evts' = Sent(n, Evt("discovered", NoToken, c.subject, addr'[c.subject]))
        \/ UNCHANGED <<addr, evts>>
     /\ UNCHANGED <<sequenceVars, configured, linked, tokens, runs, count>>

\* execute_connection_step with a connection: refused for a changed selection; otherwise
\* some sensors of the subject connect, and the answer lists those that are connected.
NodeConnects(n) ==
  LET c == Head(cmds[n])
      s == c.subject
  IN /\ Receives(n, "connecting")
     /\ \/ /\ n \in configured
           /\ addr[s] = c.addrs
           /\ \E X \in SUBSET (addr[s] \ LinkedToOthers(s)) : linked' = [linked EXCEPT ![s] = @ \cup X]
           /\ \E kind \in {"connected", "error"} : evts' = Sent(n, Evt(kind, c.token, s, linked'[s]))
        \/ /\ n \notin configured \/ addr[s] # c.addrs
           /\ evts' = Sent(n, Evt("error", c.token, s, {}))
           /\ UNCHANGED linked
     /\ UNCHANGED <<sequenceVars, configured, addr, tokens, runs, count>>

\* Core.reset_session: recover the sensors and retire the configuration, or refuse.
NodeResets(n) ==
  /\ Receives(n, "reset")
  /\ \/ /\ configured' = configured \ {n}
        /\ addr' = [s \in Subjects |-> IF NodeOf[s] = n THEN {} ELSE addr[s]]
        /\ linked' = [s \in Subjects |-> IF NodeOf[s] = n THEN {} ELSE linked[s]]
        /\ evts' = [evts EXCEPT ![n] = @ \o <<Evt("started", NoToken, Order[1], {}),
                                             Evt("cleaned", NoToken, Order[1], {})>>]
        /\ UNCHANGED count
     \/ /\ Count("faults")
        /\ evts' = Sent(n, Evt("started", NoToken, Order[1], {}))
        /\ UNCHANGED nodeVars
  /\ UNCHANGED <<sequenceVars, tokens, runs>>

\* A sensor loses its link (the disconnected callback of its transport client).
LinkLost(s) ==
  /\ Count("linkLosses")
  /\ \E x \in linked[s] :
       /\ linked' = [linked EXCEPT ![s] = @ \ {x}]
       /\ evts' = Sent(NodeOf[s], Evt("lost", NoToken, s, {x}))
  /\ UNCHANGED <<sequenceVars, configured, addr, cmds, tokens, runs>>

\* A worker reconnects: queued commands and its last events are lost.
Reconnect(n) ==
  /\ n # Master
  /\ Count("faults")
  /\ cmds' = [cmds EXCEPT ![n] = <<>>]
  /\ \E k \in 0..Len(evts[n]) : evts' = [evts EXCEPT ![n] = SubSeq(@, 1, k)]
  /\ UNCHANGED <<sequenceVars, nodeVars, tokens, runs>>

-----------------------------------------------------------------------------
(* on_event *)

\* EVT_SENSOR_CLEANUP_STARTED
OnCleanupStarted ==
  /\ IF active THEN Fail ELSE UNCHANGED <<active, timer, outcome, pending>>
  /\ UNCHANGED <<selected, completed, discovered, index, cmds, tokens, count>>

\* EVT_SENSOR_CLEANUP_COMPLETE of a reset that leaves the Core ready for configuration.
OnCleaned(n) ==
  LET hit == pending # NoStep /\ NodeOf[pending.subject] = n
  IN /\ selected' = [s \in Subjects |-> IF NodeOf[s] = n THEN {} ELSE selected[s]]
     /\ completed' = completed \ SubjectsOf(n)
     /\ discovered' = discovered \ SubjectsOf(n)
     /\ pending' = IF hit THEN NoStep ELSE pending
     /\ active' = (active /\ ~hit)
     /\ timer' = IF active /\ hit THEN NoToken ELSE timer
     /\ outcome' = IF active /\ hit THEN "failed" ELSE outcome
     /\ UNCHANGED <<index, cmds, tokens, count>>

\* Mutant: a lost link does not stop a running Connect All.
OnDisconnectedLeniently(e) ==
  LET hit == {s \in Subjects : e.addrs \cap selected[s] # {}}
  IN /\ completed' = completed \ hit
     /\ UNCHANGED <<active, timer, outcome, pending>>
     /\ UNCHANGED <<selected, discovered, index, cmds, tokens, count>>

\* EVT_SENSOR_DISCONNECTED: a completed subject is no longer; a running Connect All fails.
OnDisconnected(e) ==
  LET hit == {s \in Subjects : e.addrs \cap selected[s] # {}}
  IN /\ completed' = completed \ hit
     /\ IF active /\ hit \cap completed # {} THEN Fail ELSE UNCHANGED <<active, timer, outcome, pending>>
     /\ UNCHANGED <<selected, discovered, index, cmds, tokens, count>>

\* EVT_SENSORS_DISCOVERED of a discovery that is not a step.
OnSearched(e) ==
  /\ selected' = [selected EXCEPT ![e.subject] = e.addrs]
  /\ completed' = completed \ {e.subject}
  /\ discovered' = discovered \ {e.subject}
  /\ UNCHANGED <<active, pending, timer, index, outcome, cmds, tokens, count>>

\* A step ended badly: the sequence fails if it still runs, and the step is over.
StepFailed ==
  /\ active' = FALSE
  /\ timer' = NoToken
  /\ pending' = NoStep
  /\ outcome' = IF active THEN "failed" ELSE outcome
  /\ UNCHANGED <<completed, discovered, index, cmds, tokens, count>>

AcceptsDiscovery(s, A) == Cardinality(A) = Slots[s] /\ A \cap Exclusions(selected, s) = {}

\* The outstanding discovery is answered; even a refused selection is kept.
OnDiscovered(e) ==
  LET s == e.subject
  IN /\ selected' = [selected EXCEPT ![s] = e.addrs]
     /\ IF AcceptsDiscovery(s, e.addrs)
        THEN /\ discovered' = discovered \cup {s}
             /\ IF active THEN Dispatch(s, "connecting")
                ELSE /\ pending' = NoStep
                     /\ timer' = NoToken
                     /\ UNCHANGED <<active, outcome, cmds, tokens, count>>
             /\ UNCHANGED <<completed, index>>
        ELSE StepFailed

\* Mutant: some connected sensors are enough.
AcceptsSomeConnected(s, A) == A \subseteq selected[s] /\ A # {}

AcceptsConnection(s, A) == A = selected[s] /\ Cardinality(A) = Slots[s]

\* The outstanding connection is answered; a late answer never advances the sequence.
OnConnected(e) ==
  LET s == e.subject
  IN /\ UNCHANGED selected
     /\ IF AcceptsConnection(s, e.addrs)
        THEN /\ completed' = completed \cup {s}
             /\ UNCHANGED discovered
             /\ IF active THEN NextSubject(index + 1)
                ELSE /\ pending' = NoStep
                     /\ timer' = NoToken
                     /\ UNCHANGED <<active, index, outcome, cmds, tokens, count>>
        ELSE StepFailed

OnError(e) ==
  /\ selected' = IF pending.op = "discovering" /\ e.addrs # {}
                 THEN [selected EXCEPT ![e.subject] = e.addrs] ELSE selected
  /\ StepFailed

\* Replies to anything but the outstanding step change nothing.
Ignore(e) ==
  /\ e.token # NoToken
  /\ e.token # pending.token
  /\ UNCHANGED <<sequenceVars, cmds, tokens, count>>

\* The event bus hands the next event of a node to the sequence.
OnEvent(n) ==
  LET e == Head(evts[n])
      current == e.token # NoToken /\ e.token = pending.token
  IN /\ evts[n] # <<>>
     /\ evts' = [evts EXCEPT ![n] = Tail(@)]
     /\ \/ e.kind = "started" /\ OnCleanupStarted
        \/ e.kind = "cleaned" /\ OnCleaned(n)
        \/ e.kind = "lost" /\ OnDisconnected(e)
        \/ e.kind = "discovered" /\ e.token = NoToken /\ OnSearched(e)
        \/ e.kind = "discovered" /\ current /\ OnDiscovered(e)
        \/ e.kind = "connected" /\ current /\ OnConnected(e)
        \/ e.kind = "error" /\ current /\ OnError(e)
        \/ Ignore(e)
     /\ UNCHANGED <<nodeVars, runs>>

-----------------------------------------------------------------------------
Init ==
  /\ selected = [s \in Subjects |-> {}]
  /\ completed = {}
  /\ discovered = {}
  /\ active = FALSE
  /\ pending = NoStep
  /\ timer = NoToken
  /\ index = 0
  /\ outcome = "none"
  /\ configured = Nodes
  /\ addr = [s \in Subjects |-> {}]
  /\ linked = [s \in Subjects |-> {}]
  /\ cmds = [n \in Nodes |-> <<>>]
  /\ evts = [n \in Nodes |-> <<>>]
  /\ tokens = 0
  /\ runs = 0
  /\ count = [c \in Counters |-> 0]

NodeNext(n) == NodeDiscovers(n) \/ NodeSearches(n) \/ NodeConnects(n) \/ NodeResets(n)

Next ==
  \/ ConnectAll \/ Expire \/ Configure \/ Reset
  \/ \E s \in Subjects : Search(s) \/ LinkLost(s)
  \/ \E n \in Nodes : NodeNext(n) \/ OnEvent(n) \/ Reconnect(n)

Spec == Init /\ [][Next]_vars

\* The timer thread, the event bus and the nodes' loops keep running; nothing obliges the
\* client, and a node that was sent a command may lose it.
Fairness ==
  /\ WF_vars(Expire)
  /\ \A n \in Nodes : WF_vars(NodeNext(n)) /\ WF_vars(OnEvent(n))

FairSpec == Spec /\ Fairness

-----------------------------------------------------------------------------
(* Properties. *)

Steps == [token : 0..tokens, subject : Subjects, op : {"none", "discovering", "connecting"}]

\* The variables have the types of the attributes they stand for.
TypeOK ==
  /\ selected \in [Subjects -> SUBSET Addresses]
  /\ completed \subseteq Subjects /\ discovered \subseteq Subjects
  /\ active \in BOOLEAN
  /\ pending \in Steps
  /\ timer \in 0..tokens
  /\ index \in 0..(Len(Order) + 1)
  /\ outcome \in {"none", "running", "failed", "completed"}
  /\ configured \subseteq Nodes
  /\ addr \in [Subjects -> SUBSET Addresses]
  /\ linked \in [Subjects -> SUBSET Addresses]

\* No sensor is given to two subjects: the selections that were accepted (on_event, the
\* check of "others") are disjoint, whatever searches, late replies and resets intervene.
DisjointSelections ==
  \A s, t \in discovered : s # t => selected[s] \cap selected[t] = {}

\* One outstanding step: a timed-out step blocks the next Connect All until its reply or
\* a Reset (_step, busy), so a queued step that is not the outstanding one can only find a
\* Core without subjects.
OneStepAtATime ==
  \A n \in Nodes : \A i \in DOMAIN cmds[n] :
    /\ cmds[n][i].op \in {"discovering", "connecting"}
    /\ cmds[n][i].token # pending.token
    => n \notin configured \/ \E j \in 1..i : cmds[n][j].op = "reset"

\* While no message is lost, a subject that counts as connected has all of its selected
\* sensors linked, unless the event that says otherwise is still on its way: a skipped
\* subject (_next_subject) is never one that was found disconnected.
CompletedAreLinked ==
  count["faults"] = 0 => \A s \in completed : selected[s] \subseteq linked[s] \/
    \E i \in DOMAIN evts[NodeOf[s]] :
      LET e == evts[NodeOf[s]][i]
      IN e.kind = "cleaned" \/ (e.kind = "lost" /\ e.addrs \cap selected[s] # {})

\* "completed" is reported (_next_subject) only when every subject is connected, also
\* those that were passed earlier in the sequence; only a Reset or a search that withdrew
\* the discovery of a passed subject meanwhile goes unnoticed, a lost link never does.
CompletionHonest ==
  [][outcome' = "completed" /\ outcome # "completed" =>
       \A s \in Subjects : s \in completed' \/ s \notin discovered']_vars

\* A Connect All always ends, completed or failed, even when a reply never comes.
ConnectAllEnds == active ~> ~active
=============================================================================

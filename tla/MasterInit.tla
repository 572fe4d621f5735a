------------------------------ MODULE MasterInit ------------------------------
(***************************************************************************)
(* How the master installs a configuration on the nodes: the fan-out of    *)
(* INIT, the nodes' replies, the timeout, and the recovery by Reset that a *)
(* failed initialization requires before the next one.  The registry's     *)
(* ownership map decides where every later command goes, so it must never  *)
(* name a node as owner while another one has the subject installed.       *)
(*                                                                         *)
(* The gateway thread runs the client's commands one after the other and   *)
(* installs the master's own part itself; a worker handles its commands in *)
(* order; a Reset goes on in the background of its node.                   *)
(***************************************************************************)
EXTENDS Naturals, Sequences, FiniteSets

CONSTANTS
  Nodes,         \* execution nodes
  Master,        \* the one that coordinates
  Subjects,      \* subjects that may be configured
  Nobody,        \* the owner of a subject that is not configured
  MaxInits,      \* bound: INIT commands that pass the master's checks
  MaxResets,     \* bound: Reset commands
  MaxFaults      \* bound: restarts and reconnections of workers, fan-outs that raise

ASSUME InitAssumption == Master \in Nodes /\ Nobody \notin Nodes
ASSUME InitBounds == {MaxInits, MaxResets, MaxFaults} \subseteq Nat

VARIABLES
  \* MasterNode
  owner,        \* NodeRegistry.subjects: the owner of each subject
  pending,      \* initialization_id of the pending initialization, NoId if none
  plan,         \* its requested assignments
  expected,     \* the nodes that have to confirm it
  replies,      \* the nodes that have
  dispatching,  \* _initialization_dispatching: the master's own part is still to come
  recovering,   \* whether _initialization_recovery is set
  participants, \* the nodes whose Reset it waits for
  cleanup,      \* the Reset it accepts, NoId if none
  cleaned,      \* the participants that have confirmed that Reset
  \* The Cores of the nodes
  installed,    \* the subjects each Core is configured with
  broken,       \* _initialization_requires_recovery
  resetting,    \* the Resets that the running recovery of a Core will answer
  \* The transport
  cmds, evts,
  count

masterVars == <<owner, pending, plan, expected, replies, dispatching,
                recovering, participants, cleanup, cleaned>>
coreVars == <<installed, broken, resetting>>
vars == <<masterVars, coreVars, cmds, evts, count>>

NoId == 0
InitIds == 1..MaxInits
ResetIds == 1..MaxResets
Workers == Nodes \ {Master}
Counters == {"inits", "resets", "restarts", "reconnects", "ioFaults"}
FaultsLeft == count["restarts"] + count["reconnects"] + count["ioFaults"] < MaxFaults

Plans == [Subjects -> Nodes \cup {Nobody}]
Part(p, n) == {s \in Subjects : p[s] = n}
OwnersIn(p) == {p[s] : s \in Subjects} \ {Nobody}

Cmd(op, id, S) == [op |-> op, id |-> id, subjects |-> S]
Reply(ok, id, S) == [kind |-> IF ok THEN "installed" ELSE "failed", id |-> id, subjects |-> S]
Cleaned(id, ready) == [kind |-> IF ready THEN "cleaned" ELSE "unready", id |-> id, subjects |-> {}]
Sent(n, e) == [evts EXCEPT ![n] = Append(@, e)]

Settled == pending = NoId /\ ~recovering

-----------------------------------------------------------------------------
(* The Core of a node. *)

\* Mutant: a Core installs while its recovery still runs.
MayInstallEarly(n) == ~broken[n]

\* The checks of init_core that another component may see: no recovery under way, none due.
MayInstall(n) == resetting[n] = {} /\ ~broken[n]

\* init_core and the reply of the MessageHandler: installed; refused with the previous
\* configuration retained; or failed half-way, which only a Reset repairs.
Install(n, id, S) ==
  \/ /\ MayInstall(n)
     /\ installed' = [installed EXCEPT ![n] = S]
     /\ evts' = Sent(n, Reply(TRUE, id, S))
     /\ UNCHANGED <<broken, resetting>>
  \/ /\ evts' = Sent(n, Reply(FALSE, id, {}))
     /\ UNCHANGED coreVars
  \/ /\ MayInstall(n)
     /\ broken' = [broken EXCEPT ![n] = TRUE]
     /\ evts' = Sent(n, Reply(FALSE, id, {}))
     /\ UNCHANGED <<installed, resetting>>

\* reset_session: refused while a subject acquires; otherwise it starts a recovery or
\* joins the one that runs.
BeginReset(n, id) ==
  /\ \/ resetting' = [resetting EXCEPT ![n] = @ \cup {id}]
     \/ UNCHANGED resetting
  /\ UNCHANGED <<installed, broken>>

\* One cleanup report for each Reset that the recovery answers.
Reports(n, ready) ==
  LET ids == {id \in ResetIds : id \in resetting[n]}
  IN {r \in [1..Cardinality(ids) -> {Cleaned(id, ready) : id \in ids}] :
        {r[i] : i \in DOMAIN r} = {Cleaned(id, ready) : id \in ids}}

\* The callback "finished": the configuration is retired even when the Core is not ready
\* for a new one; a recovery that raises leaves it.
ResetEnds(n) ==
  /\ resetting[n] # {}
  /\ resetting' = [resetting EXCEPT ![n] = {}]
  /\ \/ /\ installed' = [installed EXCEPT ![n] = {}]
        /\ \E ready \in BOOLEAN :
             /\ broken' = [broken EXCEPT ![n] = @ /\ ~ready]
             /\ \E r \in Reports(n, ready) : evts' = [evts EXCEPT ![n] = @ \o r]
     \/ /\ \E r \in Reports(n, FALSE) : evts' = [evts EXCEPT ![n] = @ \o r]
        /\ UNCHANGED <<installed, broken>>
  /\ UNCHANGED <<masterVars, cmds, count>>

-----------------------------------------------------------------------------
(* The master: initialization. *)

\* Mutant: only the nodes of the new assignment take part.
RequiredByRequest(p) == OwnersIn(p) \cup {Master}

\* Mutant: a subject without an owner counts as one.
RequiredUnfiltered(p) == {owner[s] : s \in Subjects} \cup OwnersIn(p) \cup {Master}

\* The previous owners, the requested ones and the master itself.
Required(p) == OwnersIn(owner) \cup OwnersIn(p) \cup {Master}

\* _finish_initialization with a failure: the participants have to be reset.
InitFails ==
  /\ pending' = NoId
  /\ recovering' = TRUE
  /\ participants' = expected'
  /\ cleanup' = NoId
  /\ cleaned' = {}
  /\ owner' = [s \in Subjects |-> Nobody]
  /\ UNCHANGED replies

\* _finish_initialization without one.
InitSucceeds ==
  /\ pending' = NoId
  /\ owner' = plan
  /\ UNCHANGED <<recovering, participants, cleanup, cleaned>>

\* _begin_initialization up to the master's own part: the record and the remote fan-out.
BeginInit(p) ==
  LET id == count["inits"] + 1
  IN /\ ~dispatching
     /\ Settled
     /\ resetting[Master] = {}
     /\ id \in InitIds
     /\ count' = [count EXCEPT !["inits"] = id]
     /\ pending' = id
     /\ plan' = p
     /\ expected' = Required(p)
     /\ replies' = {}
     /\ dispatching' = TRUE
     /\ cmds' = [w \in Workers |-> IF w \in Required(p)
                                   THEN Append(cmds[w], Cmd("init", id, Part(p, w))) ELSE cmds[w]]
     /\ UNCHANGED <<owner, recovering, participants, cleanup, cleaned, coreVars, evts>>

\* The fan-out raises before it reaches every node.
BeginInitRaises(p) ==
  LET id == count["inits"] + 1
  IN /\ ~dispatching
     /\ Settled
     /\ resetting[Master] = {}
     /\ id \in InitIds
     /\ FaultsLeft
     /\ count' = [count EXCEPT !["inits"] = id, !["ioFaults"] = @ + 1]
     /\ plan' = p
     /\ expected' = Required(p)
     /\ InitFails
     /\ \E reached \in SUBSET (Workers \cap Required(p)) :
          cmds' = [w \in Workers |-> IF w \in reached
                                     THEN Append(cmds[w], Cmd("init", id, Part(p, w))) ELSE cmds[w]]
     /\ UNCHANGED <<dispatching, coreVars, evts>>

\* The last participant: the master's own Core, on the gateway thread.  The initialization
\* may have timed out meanwhile.
LocalInit ==
  /\ dispatching
  /\ dispatching' = FALSE
  /\ Install(Master, count["inits"], Part(plan, Master))
  /\ UNCHANGED <<owner, pending, plan, expected, replies, recovering, participants, cleanup,
                 cleaned, cmds, count>>

\* The timer of the pending initialization.
InitExpires ==
  /\ pending # NoId
  /\ UNCHANGED <<plan, expected>>
  /\ InitFails
  /\ UNCHANGED <<dispatching, coreVars, cmds, evts, count>>

\* _record_initialization_reply: only the first reply of an expected node to the pending
\* initialization counts.
RecordReply(n, e) ==
  /\ UNCHANGED <<plan, expected>>
  /\ IF pending # NoId /\ e.id = pending /\ n \in expected \ replies
     THEN IF e.kind = "failed" \/ e.subjects # Part(plan, n)
          THEN InitFails
          ELSE /\ replies' = replies \cup {n}
               /\ IF expected \subseteq replies' THEN InitSucceeds
                  ELSE UNCHANGED <<owner, pending, recovering, participants, cleanup, cleaned>>
     ELSE UNCHANGED <<owner, pending, replies, recovering, participants, cleanup, cleaned>>

-----------------------------------------------------------------------------
(* The master: Reset. *)

\* The owners of the registry and the participants of a failed initialization.
ResetTargets ==
  LET targets == OwnersIn(owner) \cup (IF recovering THEN participants ELSE {})
  IN IF targets = {} THEN {Master} ELSE targets

\* CMD_DISCONNECT_ALL with recover_session, refused while an initialization is pending.
\* The Reset has a correlation id of its own.
Reset ==
  LET id == count["resets"] + 1
  IN /\ ~dispatching
     /\ pending = NoId
     /\ id \in ResetIds
     /\ count' = [count EXCEPT !["resets"] = id]
     /\ cleanup' = IF recovering THEN id ELSE cleanup
     /\ cleaned' = IF recovering THEN {} ELSE cleaned
     /\ cmds' = [w \in Workers |-> IF w \in ResetTargets
                                   THEN Append(cmds[w], Cmd("reset", id, {})) ELSE cmds[w]]
     /\ IF Master \in ResetTargets THEN BeginReset(Master, id) ELSE UNCHANGED coreVars
     /\ UNCHANGED <<owner, pending, plan, expected, replies, dispatching, recovering,
                    participants, evts>>

\* Mutant: one confirmation is enough.
RecoveredByOne(C) == participants \cap C # {}

Recovered(C) == participants \subseteq C

\* _record_initialization_recovery: once every participant has confirmed the Reset the
\* master forgets the failed initialization.
RecordCleaned(n, e) ==
  /\ IF recovering /\ cleanup # NoId /\ e.id = cleanup /\ n \in participants /\ e.kind = "cleaned"
     THEN /\ cleaned' = cleaned \cup {n}
          /\ recovering' = ~Recovered(cleaned')
          /\ owner' = IF Recovered(cleaned') THEN [s \in Subjects |-> Nobody] ELSE owner
     ELSE UNCHANGED <<cleaned, recovering, owner>>
  /\ UNCHANGED <<pending, plan, expected, replies, participants, cleanup>>

\* The ROUTER thread or the event bus handles the next event of a node.
HandleEvent(n) ==
  LET e == Head(evts[n])
  IN /\ evts[n] # <<>>
     /\ evts' = [evts EXCEPT ![n] = Tail(@)]
     /\ \/ e.kind \in {"installed", "failed"} /\ RecordReply(n, e)
        \/ e.kind \in {"cleaned", "unready"} /\ RecordCleaned(n, e)
     /\ UNCHANGED <<dispatching, coreVars, cmds, count>>

-----------------------------------------------------------------------------
(* The workers. *)

WorkerReceives(w) ==
  LET c == Head(cmds[w])
  IN /\ cmds[w] # <<>>
     /\ cmds' = [cmds EXCEPT ![w] = Tail(@)]
     /\ \/ c.op = "init" /\ Install(w, c.id, c.subjects)
        \/ c.op = "reset" /\ BeginReset(w, c.id) /\ UNCHANGED evts
     /\ UNCHANGED <<masterVars, count>>

\* A worker process restarts and registers again, with an empty Core.
WorkerRestarts(w) ==
  /\ FaultsLeft
  /\ count' = [count EXCEPT !["restarts"] = @ + 1]
  /\ installed' = [installed EXCEPT ![w] = {}]
  /\ broken' = [broken EXCEPT ![w] = FALSE]
  /\ resetting' = [resetting EXCEPT ![w] = {}]
  /\ cmds' = [cmds EXCEPT ![w] = <<>>]
  /\ UNCHANGED <<masterVars, evts>>

\* A worker reconnects: it keeps its Core, but the commands queued on the old connection
\* and the last events it had not transmitted are lost.
WorkerReconnects(w) ==
  /\ FaultsLeft
  /\ count' = [count EXCEPT !["reconnects"] = @ + 1]
  /\ cmds' = [cmds EXCEPT ![w] = <<>>]
  /\ \E k \in 0..Len(evts[w]) : evts' = [evts EXCEPT ![w] = SubSeq(@, 1, k)]
  /\ UNCHANGED <<masterVars, coreVars>>

-----------------------------------------------------------------------------
Init ==
  /\ owner = [s \in Subjects |-> Nobody]
  /\ pending = NoId
  /\ plan = [s \in Subjects |-> Nobody]
  /\ expected = {}
  /\ replies = {}
  /\ dispatching = FALSE
  /\ recovering = FALSE
  /\ participants = {}
  /\ cleanup = NoId
  /\ cleaned = {}
  /\ installed = [n \in Nodes |-> {}]
  /\ broken = [n \in Nodes |-> FALSE]
  /\ resetting = [n \in Nodes |-> {}]
  /\ cmds = [w \in Workers |-> <<>>]
  /\ evts = [n \in Nodes |-> <<>>]
  /\ count = [c \in Counters |-> 0]

Next ==
  \/ \E p \in Plans : BeginInit(p) \/ BeginInitRaises(p)
  \/ LocalInit \/ InitExpires \/ Reset
  \/ \E n \in Nodes : HandleEvent(n) \/ ResetEnds(n)
  \/ \E w \in Workers : WorkerReceives(w) \/ WorkerRestarts(w) \/ WorkerReconnects(w)

Spec == Init /\ [][Next]_vars

-----------------------------------------------------------------------------
(* Properties. *)

Commands == [op : {"init"}, id : InitIds, subjects : SUBSET Subjects]
              \cup [op : {"reset"}, id : ResetIds, subjects : {{}}]
Events == [kind : {"installed", "failed"}, id : InitIds, subjects : SUBSET Subjects]
            \cup [kind : {"cleaned", "unready"}, id : ResetIds, subjects : {{}}]

\* The variables have the types of the attributes they stand for.
TypeOK ==
  /\ owner \in Plans /\ plan \in Plans
  /\ pending \in InitIds \cup {NoId}
  /\ expected \subseteq Nodes /\ replies \subseteq Nodes
  /\ dispatching \in BOOLEAN /\ recovering \in BOOLEAN
  /\ participants \subseteq Nodes /\ cleaned \subseteq Nodes
  /\ cleanup \in ResetIds \cup {NoId}
  /\ installed \in [Nodes -> SUBSET Subjects]
  /\ broken \in [Nodes -> BOOLEAN]
  /\ resetting \in [Nodes -> SUBSET ResetIds]
  /\ cmds \in [Workers -> Seq(Commands)]
  /\ evts \in [Nodes -> Seq(Events)]
  /\ count \in [Counters -> Nat]

\* The ownership map is authoritative (dispatch_command, registry.replace_subjects): while
\* no initialization is pending or unrecovered, no node has a subject installed that the
\* map gives to another node or to nobody, whatever was lost, late or restarted.
OwnershipSound ==
  Settled => \A n \in Nodes : installed[n] \subseteq Part(owner, n)

\* A half-installed Core never goes unnoticed: while the master accepts commands none of
\* the Cores needs a Reset before it can be configured (_initialization_requires_recovery).
NoBrokenCore ==
  Settled => \A n \in Nodes : ~broken[n]

\* "confirmed by every required node" (_finish_initialization): unless a worker process has
\* died, every participant still has exactly its part when the success is reported.
ConfirmedMeansInstalled ==
  [][(pending # NoId /\ pending' = NoId /\ ~recovering' /\ count["restarts"] = 0) =>
       \A n \in Nodes : installed'[n] = Part(plan, n)]_vars
=============================================================================

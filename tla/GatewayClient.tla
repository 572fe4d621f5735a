---------------------------- MODULE GatewayClient ----------------------------
(***************************************************************************)
(* GatewaySerialClient (sensor_manager/adapters/gateway_ble_client.py):    *)
(* the one serial link that every BLE sensor of a node shares.             *)
(*                                                                         *)
(* Worker threads call reset_session, recover_uart and the GATT commands   *)
(* at the same time; a reader thread routes the replies.  The admission    *)
(* fields (_startup_owner, _reset_owner, _reset_unconfirmed,               *)
(* _pending_reset_ids, active_acquisition_addresses) are the only things   *)
(* that keep a BLE reset, which drops every link of the gateway, away from *)
(* a subject that records.  A step is the code between two points at which *)
(* another thread can come in: the locked blocks, the write and the wait.  *)
(*                                                                         *)
(* The gateway firmware is external: it executes the commands in the order *)
(* they were written, at any later time, and may refuse or lose them.      *)
(* A wait may time out at any moment, so every answer may be late.         *)
(***************************************************************************)
EXTENDS Integers, Sequences, FiniteSets

CONSTANTS
    Threads,       \* worker threads that call the client
    Resetters,     \* the threads that call reset_session (cleanup service)
    Addresses,     \* addresses of sensors that acquire
    Commands,      \* the commands (see Scan .. StatusSnapshot) in use
    RepeatsReset,  \* may a reset be asked for while one is unconfirmed?
    None,          \* Python's None
    MaxRequests,   \* bound: requests that anybody still knows of
    MaxFaults      \* bound: serial faults, lost commands, stuck readers

ASSUME GatewayAssumption ==
    /\ None \notin Threads /\ Resetters \subseteq Threads
    /\ RepeatsReset \in BOOLEAN
    /\ MaxRequests \in Nat /\ MaxFaults \in Nat

VARIABLES
    startupOwner, resetOwner,           \* _startup_owner, _reset_owner
    resetUnconfirmed, pendingResetIds,  \* _reset_unconfirmed, _pending_reset_ids
    scope,                              \* active_acquisition_addresses
    started, running, hasOpened,        \* started, running, _has_opened_uart
    reader,                             \* the reader thread: none, alive, stuck
    registered,                         \* the keys of pending_requests
    wire,                               \* commands the gateway has not executed yet
    replies,                            \* bytes on their way to the host
    thread,                             \* what each worker thread is doing
    faults                              \* faults so far

admission == <<startupOwner, resetOwner, resetUnconfirmed, pendingResetIds, scope>>
transport == <<started, running, hasOpened, reader>>
vars == <<admission, transport, registered, wire, replies, thread, faults>>

(***************************************************************************)
(* The commands differ in what ends their wait: whether an error reply to  *)
(* the request raises, and whether a timeout is taken for a result.  (The  *)
(* error -3 that disconnect takes for success is an answer like "ok".)     *)
(***************************************************************************)
Command(raises, timeoutOk) == [raises |-> raises, timeoutOk |-> timeoutOk]
Scan            == Command(FALSE, FALSE)
Connect         == Command(TRUE, FALSE)
Subscribe       == Command(TRUE, FALSE)
Unsubscribe     == Command(TRUE, FALSE)
WriteGatt       == Command(TRUE, FALSE)
WriteBestEffort == Command(TRUE, TRUE)
ReadGatt        == Command(TRUE, FALSE)
Disconnect      == Command(TRUE, FALSE)
StatusSnapshot  == Command(FALSE, FALSE)
NoCommand       == Scan

Hello == 0            \* request_id "hello_host_tool"
NoRequest == -1
Ids == 0..MaxRequests
Answers == {"none", "ok", "error"}

(***************************************************************************)
(* A worker thread: the call it serves, where it is, the part of the       *)
(* transport it brings up first (start() from inside a call), the request  *)
(* it waits for meanwhile and the request of the call itself, each with    *)
(* the message in its queue that will end the wait.                        *)
(***************************************************************************)
Calls == {"none", "reset", "command", "cleanup", "recover"}
Places == {"idle", "admit", "enlist", "resetwrite", "resetwait", "send", "write", "wait",
           "open", "hello", "hellowait", "claim", "probe", "probewait",
           "reopen", "inventory", "inventorywait"}
Thread == [call : Calls, at : Places, bring : {"none", "cold", "recover", "retry"},
           cmd : Commands \cup {NoCommand}, tried : BOOLEAN,
           req : Ids \cup {NoRequest}, said : Answers,
           own : Ids \cup {NoRequest}, ownSaid : Answers]
IdleThread == [call |-> "none", at |-> "idle", bring |-> "none", cmd |-> NoCommand,
               tried |-> FALSE, req |-> NoRequest, said |-> "none",
               own |-> NoRequest, ownSaid |-> "none"]

TypeOK ==
    /\ startupOwner \in Threads \cup {None} /\ resetOwner \in Threads \cup {None}
    /\ resetUnconfirmed \in BOOLEAN /\ pendingResetIds \subseteq Ids
    /\ scope \subseteq Addresses
    /\ started \in BOOLEAN /\ running \in BOOLEAN /\ hasOpened \in BOOLEAN
    /\ reader \in {"none", "alive", "stuck"}
    /\ registered \subseteq Ids
    /\ wire \in Seq([kind : {"reset", "other"}, id : Ids])
    /\ replies \in Seq([kind : {"reset", "other"}, id : Ids, says : {"ok", "error"}])
    /\ thread \in [Threads -> Thread] /\ faults \in 0..MaxFaults

Init ==
    /\ startupOwner = None /\ resetOwner = None
    /\ resetUnconfirmed = FALSE /\ pendingResetIds = {} /\ scope = {}
    /\ started = FALSE /\ running = FALSE /\ hasOpened = FALSE /\ reader = "none"
    /\ registered = {}
    /\ wire = <<>> /\ replies = <<>>
    /\ thread = [t \in Threads |-> IdleThread] /\ faults = 0

At(t, place) == thread[t].at = place
Fault == faults < MaxFaults /\ faults' = faults + 1
Free(owner, t) == owner \in {None, t}

Set(t, rec) == thread' = [thread EXCEPT ![t] = rec]
Goto(t, place) == Set(t, [thread[t] EXCEPT !.at = place])
Mine(t) == {thread[t].own, thread[t].req}

\* The call of t returns or raises; its finally blocks unregister its requests.
Leaves(t) == Set(t, IdleThread) /\ registered' = registered \ Mine(t)

(***************************************************************************)
(* request_id(): ids are never used twice.  An id that no thread, no queue *)
(* and no set mentions any more is as good as new, so the smallest such    *)
(* one is taken.                                                           *)
(***************************************************************************)
Known == registered \cup pendingResetIds \cup {wire[i].id : i \in 1..Len(wire)}
         \cup {replies[i].id : i \in 1..Len(replies)} \cup UNION {Mine(t) : t \in Threads}
Fresh == (1..MaxRequests) \ Known
NewId == CHOOSE i \in Fresh : \A j \in Fresh : i <= j
Registers == Fresh # {} /\ registered' = registered \cup {NewId}

\* The threads after `says` was put into the queues of the requests `ids`: only
\* the first message that ends a wait counts, and scan and get_status do not
\* look at errors.
Put(ids, says) ==
    [t \in Threads |->
        [thread[t] EXCEPT
            !.said = IF thread[t].req \in ids \cap registered /\ @ = "none" THEN says ELSE @,
            !.ownSaid = IF /\ thread[t].own \in ids \cap registered /\ @ = "none"
                           /\ says = "ok" \/ thread[t].cmd.raises
                        THEN says ELSE @]]

(***************************************************************************)
(* _close_transport: the reader is joined for a second; one that sits in a *)
(* callback makes the close raise with `started` still set.  What the host *)
(* had not read is gone with the port.                                     *)
(***************************************************************************)
Retires == reader # "stuck"
CloseTransport ==
    /\ running' = FALSE
    /\ started' = (started /\ ~Retires)
    /\ reader' = IF Retires THEN "none" ELSE reader
    /\ replies' = <<>>
    /\ UNCHANGED hasOpened

\* _handle_transport_failure(recover=False).
TransportFailure(mine) ==
    /\ CloseTransport
    /\ registered' = IF Retires THEN {} ELSE registered \ mine

PortOpens == started' = TRUE /\ running' = TRUE /\ hasOpened' = TRUE /\ reader' = "alive"

-----------------------------------------------------------------------------
(***************************************************************************)
(* start(): the caller has seen that no other thread owns the startup.     *)
(***************************************************************************)
Starts(t, rec, requested) ==
    \/ /\ ~hasOpened /\ scope = {}
       /\ startupOwner' = t
       /\ Set(t, [rec EXCEPT !.bring = "cold", !.at = "open"])
       /\ registered' = requested
    \/ /\ ~hasOpened /\ scope # {}
       /\ Set(t, IdleThread) /\ registered' = registered
       /\ UNCHANGED startupOwner
    \/ /\ hasOpened
       /\ Set(t, [rec EXCEPT !.bring = "recover", !.at = "claim"])
       /\ registered' = requested
       /\ UNCHANGED startupOwner

\* Where a call goes on once the transport is up.
Resumes(t) ==
    CASE thread[t].call = "recover" -> "idle"
      [] thread[t].call = "reset" -> IF thread[t].bring = "cold" THEN "idle" ELSE "admit"
      [] OTHER -> IF thread[t].bring = "retry" THEN "send" ELSE "write"
Brought(t) ==
    /\ startupOwner' = None
    /\ IF Resumes(t) = "idle" THEN Leaves(t)
       ELSE /\ Set(t, [thread[t] EXCEPT !.at = Resumes(t), !.bring = "none",
                                      !.req = NoRequest, !.said = "none"])
            /\ registered' = registered \ {thread[t].req}

\* _execute_with_transport_retry: one more attempt after a UART recovery, but
\* not for cleanup and not while somebody acquires.
Retries(t) == thread[t].call = "command" /\ ~thread[t].tried /\ scope = {}
Retry(t) ==
    IF Retries(t)
    THEN [IdleThread EXCEPT !.call = thread[t].call, !.cmd = thread[t].cmd, !.tried = TRUE,
                            !.bring = "retry", !.at = "claim"]
    ELSE IdleThread

-----------------------------------------------------------------------------
\* The cold start opens the port, flushes its input and starts the reader.
Open(t) ==
    /\ At(t, "open")
    /\ \/ /\ PortOpens /\ replies' = <<>> /\ Goto(t, "admit")
          /\ UNCHANGED <<startupOwner, registered, faults>>
       \/ /\ Fault /\ startupOwner' = None /\ Leaves(t)
          /\ UNCHANGED <<transport, replies>>
    /\ UNCHANGED <<resetOwner, resetUnconfirmed, pendingResetIds, scope, wire>>

(***************************************************************************)
(* reset_session: a first look, the admission under the lock, and only     *)
(* then the request id is added to _pending_reset_ids.                     *)
(***************************************************************************)
CallReset(t) ==
    /\ At(t, "idle") /\ t \in Resetters
    /\ RepeatsReset \/ ~resetUnconfirmed
    /\ scope = {} /\ resetOwner = None /\ startupOwner = None
    /\ Fresh # {}
    /\ LET rec == [IdleThread EXCEPT !.call = "reset", !.at = "admit"]
       IN  IF started THEN Set(t, rec) /\ UNCHANGED <<startupOwner, registered>>
           ELSE Starts(t, rec, registered)
    /\ UNCHANGED <<resetOwner, resetUnconfirmed, pendingResetIds, scope, transport, wire, replies, faults>>

\* The cold start closes the port again when its handshake fails.
ResetRaises(t) ==
    /\ Set(t, IdleThread)
    /\ resetOwner' = IF resetOwner = t THEN None ELSE resetOwner
    /\ startupOwner' = IF thread[t].bring = "cold" THEN None ELSE startupOwner
    /\ IF thread[t].bring = "cold" THEN CloseTransport ELSE UNCHANGED <<transport, replies>>

\* Mutant: the scope is not looked at again after the transport came up.
AdmitUnchecked(t) ==
    /\ At(t, "admit") /\ resetOwner = None
    /\ resetOwner' = t /\ resetUnconfirmed' = TRUE
    /\ Goto(t, "enlist")
    /\ UNCHANGED <<startupOwner, pendingResetIds, scope, transport, registered, wire, replies, faults>>
Admit(t) ==
    /\ At(t, "admit")
    /\ IF scope = {} /\ resetOwner = None
       THEN /\ resetOwner' = t /\ resetUnconfirmed' = TRUE
            /\ Goto(t, "enlist")
            /\ UNCHANGED <<startupOwner, transport, registered, replies>>
       ELSE /\ ResetRaises(t) /\ registered' = registered \ Mine(t)
            /\ UNCHANGED resetUnconfirmed
    /\ UNCHANGED <<pendingResetIds, scope, wire, faults>>

Enlist(t) ==
    /\ At(t, "enlist")
    /\ Registers
    /\ pendingResetIds' = pendingResetIds \cup {NewId}
    /\ Set(t, [thread[t] EXCEPT !.at = "resetwrite", !.req = NewId])
    /\ UNCHANGED <<startupOwner, resetOwner, resetUnconfirmed, scope, transport, wire,
                   replies, faults>>

\* send() of the reset: another owner of the startup, a transport that is gone
\* (its recovery is refused, the reset being in progress), an error of the port.
ResetWrite(t) ==
    /\ At(t, "resetwrite")
    /\ \/ /\ Free(startupOwner, t) /\ running /\ scope = {}
          /\ wire' = Append(wire, [kind |-> "reset", id |-> thread[t].req])
          /\ Goto(t, "resetwait")
          /\ UNCHANGED <<startupOwner, resetOwner, transport, registered, replies, faults>>
       \/ /\ ~Free(startupOwner, t) \/ ~started \/ scope # {}
          /\ ResetRaises(t) /\ registered' = registered \ Mine(t)
          /\ UNCHANGED <<wire, faults>>
       \/ /\ Free(startupOwner, t) /\ started
          /\ IF running THEN Fault ELSE UNCHANGED faults
          /\ TransportFailure(Mine(t)) /\ Set(t, IdleThread)
          /\ resetOwner' = None
          /\ startupOwner' = IF startupOwner = t THEN None ELSE startupOwner
          /\ UNCHANGED wire
    /\ UNCHANGED <<resetUnconfirmed, pendingResetIds, scope>>

\* The acknowledgement ends every doubt; an error or the timeout leaves it.
ResetWait(t) ==
    /\ At(t, "resetwait")
    /\ \/ /\ thread[t].said = "ok"
          /\ pendingResetIds' = {} /\ resetUnconfirmed' = FALSE /\ resetOwner' = None
          /\ IF thread[t].bring = "cold"
             THEN /\ Goto(t, "hello") /\ registered' = registered \ {thread[t].req}
             ELSE Leaves(t)
          /\ UNCHANGED <<startupOwner, transport, replies>>
       \/ /\ thread[t].said # "ok"
          /\ ResetRaises(t) /\ registered' = registered \ Mine(t)
          /\ UNCHANGED <<pendingResetIds, resetUnconfirmed>>
    /\ UNCHANGED <<scope, wire, faults>>

\* hello() under its fixed request id.
HelloWrite(t) ==
    /\ At(t, "hello")
    /\ \/ /\ running
          /\ wire' = Append(wire, [kind |-> "other", id |-> Hello])
          /\ Set(t, [thread[t] EXCEPT !.at = "hellowait", !.req = Hello, !.said = "none"])
          /\ registered' = registered \cup {Hello}
          /\ UNCHANGED <<startupOwner, transport, replies, faults>>
       \/ /\ IF running THEN Fault ELSE UNCHANGED faults
          /\ CloseTransport /\ startupOwner' = None /\ Leaves(t)
          /\ UNCHANGED wire
    /\ UNCHANGED <<resetOwner, resetUnconfirmed, pendingResetIds, scope>>

HelloWait(t) ==
    /\ At(t, "hellowait")
    /\ \/ thread[t].said = "ok" /\ Brought(t) /\ UNCHANGED <<transport, replies>>
       \/ thread[t].said # "ok" /\ CloseTransport /\ startupOwner' = None /\ Leaves(t)
    /\ UNCHANGED <<resetOwner, resetUnconfirmed, pendingResetIds, scope, wire,
                   faults>>

-----------------------------------------------------------------------------
(***************************************************************************)
(* A command.  Cleanup calls neither start the transport nor retry.        *)
(***************************************************************************)
CallCommand(t, c, call) ==
    /\ At(t, "idle") /\ Fresh # {}
    /\ Set(t, [IdleThread EXCEPT !.call = call, !.at = "send", !.cmd = c])
    /\ UNCHANGED <<admission, transport, registered, wire, replies, faults>>

Send(t) ==
    /\ At(t, "send") /\ Fresh # {}
    /\ LET rec == [thread[t] EXCEPT !.own = NewId]
           up  == IF thread[t].call = "cleanup" THEN started /\ running ELSE started
       IN  \/ /\ startupOwner = None /\ up
              /\ Set(t, [rec EXCEPT !.at = "write"])
              /\ registered' = registered \cup {NewId}
              /\ UNCHANGED startupOwner
           \/ /\ startupOwner # None \/ (thread[t].call = "cleanup" /\ ~up)
              /\ Set(t, IdleThread)
              /\ UNCHANGED <<startupOwner, registered>>
           \/ /\ startupOwner = None /\ ~up /\ thread[t].call = "command"
              /\ Starts(t, rec, registered \cup {NewId})
    /\ UNCHANGED <<resetOwner, resetUnconfirmed, pendingResetIds, scope, transport, wire,
                   replies, faults>>

\* The write under the write lock; the transport may have gone since send()
\* looked.  A port that is closed but not retired raises like a broken one.
Write(t) ==
    /\ At(t, "write")
    /\ \/ /\ running
          /\ wire' = Append(wire, [kind |-> "other", id |-> thread[t].own])
          /\ Goto(t, "wait")
          /\ UNCHANGED <<transport, registered, replies, faults>>
       \/ /\ ~started /\ Leaves(t)
          /\ UNCHANGED <<transport, wire, replies, faults>>
       \/ /\ running /\ Fault /\ Leaves(t)      \* the write lock's deadline
          /\ UNCHANGED <<transport, wire, replies>>
       \/ /\ started
          /\ IF running THEN Fault ELSE UNCHANGED faults
          /\ IF thread[t].call = "cleanup"
             THEN Leaves(t) /\ UNCHANGED <<transport, replies>>
             ELSE /\ TransportFailure(Mine(t))
                  /\ Set(t, IF Retires THEN Retry(t) ELSE IdleThread)
          /\ UNCHANGED wire
    /\ UNCHANGED <<admission>>

TimesOut(t) ==
    /\ registered' = registered \ Mine(t)
    /\ Set(t, IF thread[t].cmd.timeoutOk THEN IdleThread ELSE Retry(t))
Wait(t) ==
    /\ At(t, "wait")
    /\ IF thread[t].ownSaid # "none" THEN Leaves(t) ELSE TimesOut(t)
    /\ UNCHANGED <<admission, transport, wire, replies, faults>>

-----------------------------------------------------------------------------
(***************************************************************************)
(* recover_uart: one recovery at a time, never beside a reset.  A port     *)
(* that answers is kept; otherwise it is closed, the requests of the old   *)
(* generation are failed and the port is opened again, without a BLE       *)
(* reset and without a handshake.                                          *)
(***************************************************************************)
CallRecover(t) ==
    /\ At(t, "idle") /\ Fresh # {}
    /\ Set(t, [IdleThread EXCEPT !.call = "recover", !.bring = "recover", !.at = "claim"])
    /\ UNCHANGED <<admission, transport, registered, wire, replies, faults>>

RecoveryRaisesIn(threads, t) ==
    /\ startupOwner' = IF startupOwner = t THEN None ELSE startupOwner
    /\ registered' = registered \ Mine(t)
    /\ \E rec \in {IdleThread, Retry(t)} : thread' = [threads EXCEPT ![t] = rec]

RecoveryRaises(t) == RecoveryRaisesIn(thread, t)

\* Mutant: the recovery does not look at the owner of a reset.
ClaimBesideReset(t) ==
    /\ At(t, "claim")
    /\ IF startupOwner = None
       THEN startupOwner' = t /\ Goto(t, "probe") /\ UNCHANGED registered
       ELSE RecoveryRaises(t)
    /\ UNCHANGED <<resetOwner, resetUnconfirmed, pendingResetIds, scope, transport, wire, replies, faults>>
Claim(t) ==
    /\ At(t, "claim")
    /\ IF startupOwner = None /\ resetOwner = None
       THEN startupOwner' = t /\ Goto(t, "probe") /\ UNCHANGED registered
       ELSE RecoveryRaises(t)
    /\ UNCHANGED <<resetOwner, resetUnconfirmed, pendingResetIds, scope, transport, wire, replies, faults>>

\* get_connection_inventory from inside the recovery, at place `next`.
AsksInventory(t, next) ==
    /\ Registers
    /\ wire' = Append(wire, [kind |-> "other", id |-> NewId])
    /\ Set(t, [thread[t] EXCEPT !.at = next, !.req = NewId, !.said = "none"])

Probe(t) ==
    /\ At(t, "probe")
    /\ \/ /\ started /\ running /\ AsksInventory(t, "probewait") /\ UNCHANGED faults
       \/ /\ IF started /\ running THEN Fault ELSE UNCHANGED faults
          /\ Goto(t, "reopen") /\ UNCHANGED <<registered, wire>>
    /\ UNCHANGED <<admission, transport, replies>>

ProbeWait(t) ==
    /\ At(t, "probewait")
    /\ LET a == thread[t].said
       IN  \/ a = "ok" /\ Brought(t)
           \/ a = "error" /\ RecoveryRaises(t)
           \/ /\ a = "none" /\ registered' = registered \ {thread[t].req}
              /\ Set(t, [thread[t] EXCEPT !.at = "reopen", !.req = NoRequest, !.said = "none"])
              /\ UNCHANGED startupOwner
    /\ UNCHANGED <<resetOwner, resetUnconfirmed, pendingResetIds, scope, transport, wire, replies, faults>>

Reopen(t) ==
    /\ At(t, "reopen")
    /\ IF ~Retires
       THEN CloseTransport /\ RecoveryRaises(t) /\ UNCHANGED faults
       ELSE /\ replies' = <<>>
            /\ \/ /\ PortOpens
                  /\ thread' = [Put(registered, "error") EXCEPT ![t].at = "inventory"]
                  /\ UNCHANGED <<startupOwner, registered, faults>>
               \/ /\ Fault /\ RecoveryRaisesIn(Put(registered, "error"), t)
                  /\ started' = FALSE /\ running' = FALSE /\ reader' = "none"
                  /\ UNCHANGED hasOpened
    /\ UNCHANGED <<resetOwner, resetUnconfirmed, pendingResetIds, scope, wire>>

Inventory(t) ==
    /\ At(t, "inventory")
    /\ \/ started /\ running /\ AsksInventory(t, "inventorywait")
          /\ UNCHANGED <<startupOwner, faults>>
       \/ /\ IF started /\ running THEN Fault ELSE UNCHANGED faults
          /\ RecoveryRaises(t) /\ UNCHANGED <<wire>>
    /\ UNCHANGED <<resetOwner, resetUnconfirmed, pendingResetIds, scope, transport, replies>>

InventoryWait(t) ==
    /\ At(t, "inventorywait")
    /\ IF thread[t].said = "ok" THEN Brought(t) ELSE RecoveryRaises(t)
    /\ UNCHANGED <<resetOwner, resetUnconfirmed, pendingResetIds, scope, transport, wire, replies, faults>>

-----------------------------------------------------------------------------
\* set_acquisition_scope: an empty scope is always accepted.
SetScope(addresses, append) ==
    /\ addresses # {} => startupOwner = None /\ resetOwner = None /\ ~resetUnconfirmed
    /\ scope' = IF append THEN scope \cup addresses ELSE addresses
    /\ UNCHANGED <<startupOwner, resetOwner, resetUnconfirmed, pendingResetIds, transport,
                   registered, wire, replies, thread, faults>>

\* close(): the whole session of the adapter ends, whoever is waiting.
Close ==
    /\ started /\ Fault
    /\ TransportFailure({})
    /\ UNCHANGED <<admission, wire, thread>>

(***************************************************************************)
(* The reader thread: _route_json of the next message, a read error, a     *)
(* callback that holds it up, and its end after the port was closed.       *)
(***************************************************************************)
Route ==
    /\ reader = "alive" /\ running /\ replies # <<>>
    /\ LET m == Head(replies)
           left == pendingResetIds \ {m.id}
       IN  /\ thread' = Put({m.id}, m.says)
           /\ IF m.kind = "reset" /\ m.says = "ok" /\ m.id \in pendingResetIds
              THEN pendingResetIds' = left /\ resetUnconfirmed' = (left # {})
              ELSE UNCHANGED <<pendingResetIds, resetUnconfirmed>>
    /\ replies' = Tail(replies)
    /\ UNCHANGED <<startupOwner, resetOwner, scope, transport, registered, wire, faults>>

ReadFails ==
    /\ reader = "alive" /\ running /\ Fault
    /\ started' = FALSE /\ running' = FALSE /\ reader' = "none"
    /\ replies' = <<>> /\ registered' = {}
    /\ UNCHANGED <<admission, hasOpened, wire, thread>>

ReaderStuck ==
    /\ reader = "alive" /\ Fault /\ reader' = "stuck"
    /\ UNCHANGED <<admission, started, running, hasOpened, registered, wire, replies, thread>>

ReaderReturns ==
    /\ reader = "stuck" /\ reader' = IF running THEN "alive" ELSE "none"
    /\ UNCHANGED <<admission, started, running, hasOpened, registered, wire, replies, thread, faults>>

\* The firmware (external) executes the oldest command and answers, or loses it.
\* An answer to a command that nobody waits for any more changes nothing.
Gateway ==
    /\ wire # <<>> /\ wire' = Tail(wire)
    /\ LET c == Head(wire)
       IN  \/ /\ c.kind = "reset" \/ c.id \in registered
              /\ \E says \in {"ok", "error"} :
                    replies' = Append(replies, [kind |-> c.kind, id |-> c.id, says |-> says])
              /\ UNCHANGED faults
           \/ /\ c.kind # "reset" /\ c.id \notin registered
              /\ UNCHANGED <<replies, faults>>
           \/ Fault /\ UNCHANGED replies
    /\ UNCHANGED <<admission, transport, registered, thread>>

ThreadStep(t) ==
    \/ Open(t) \/ Admit(t) \/ Enlist(t) \/ ResetWrite(t) \/ ResetWait(t)
    \/ HelloWrite(t) \/ HelloWait(t)
    \/ Send(t) \/ Write(t) \/ Wait(t)
    \/ Claim(t) \/ Probe(t) \/ ProbeWait(t) \/ Reopen(t) \/ Inventory(t) \/ InventoryWait(t)

Next ==
    \/ \E t \in Threads : CallReset(t) \/ CallRecover(t) \/ ThreadStep(t)
    \/ \E t \in Threads, c \in Commands, call \in {"command", "cleanup"} : CallCommand(t, c, call)
    \/ \E S \in SUBSET Addresses, append \in BOOLEAN : SetScope(S, append)
    \/ Close \/ Route \/ ReadFails \/ ReaderStuck \/ ReaderReturns \/ Gateway

Spec == Init /\ [][Next]_vars

-----------------------------------------------------------------------------
\* A BLE reset that the gateway has been told to do and has not done yet.
ResetUnderWay == \E i \in 1..Len(wire) : wire[i].kind = "reset"

\* While any sensor acquires no BLE reset is admitted, waits for the gateway or
\* is still to be executed by it, also one whose caller has long given up, and
\* nobody opens the port for the first time: "a destructive BLE reset cannot run
\* while another subject is acquiring or starting".
AcquisitionExcludesReset ==
    scope # {} => /\ ~ResetUnderWay /\ resetOwner = None
                  /\ \A t \in Threads : thread[t].bring = "cold" => thread[t].at = "write"

\* A thread that waits for its BLE reset does so while nobody else reopens the
\* port under it, although a reset may be admitted during a recovery; and whatever
\* way a call ends, its owner mark and its request registrations end with it, so
\* that nothing keeps later commands out.
OwnersAccounted ==
    /\ \A t \in Threads : At(t, "resetwait") => Free(startupOwner, t)
    /\ startupOwner # None => thread[startupOwner].bring # "none"
    /\ resetOwner # None => thread[resetOwner].at \in {"enlist", "resetwrite", "resetwait"}
    /\ registered \subseteq UNION {Mine(t) : t \in Threads}
=============================================================================

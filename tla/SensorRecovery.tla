--------------------------- MODULE SensorRecovery ---------------------------
(***************************************************************************)
(* The measurement-STOP obligation of one sensor slot: SensorManager's     *)
(* serialized commands, the services they run, the plugin proxy with its   *)
(* worker threads, the isolated plugin host and the gateway-backed         *)
(* transport client.                                                       *)
(*                                                                         *)
(* A configured sensor is an object of Objs; discovery gives it one of the *)
(* physical devices Addrs.  A reconfiguration replaces the configured      *)
(* object while an unresolved one is retained in recovery_obligations.     *)
(* The manager runs one command at a time, but each of its awaits lets     *)
(* late workers, the plugin host, the gateway and link losses run.  A      *)
(* deadline is a step that may be taken at any await.                      *)
(*                                                                         *)
(* Devices, the serial order of GATT writes in the gateway and the         *)
(* operator's power cycle are external.                                    *)
(***************************************************************************)
EXTENDS Naturals, Sequences, FiniteSets

CONSTANTS Addrs,         \* physical devices able to fill the slot
          Objs,          \* sensor objects: the configured and the retained one
          None,          \* no address / no object
          Unknown,       \* an obligation without a retained sensor object
          MaxAir,        \* GATT writes queued in the gateway for one device
          Searches,      \* Search also covers an unresolved "slot" or a device
                         \* that is "owed" a STOP
          Faults         \* crash of a plugin host, loss of gateway or routing

ASSUME SlotAssumption ==
    /\ None \notin Objs \cup Addrs /\ Unknown \notin Objs /\ Unknown # None
    /\ MaxAir \in Nat \ {0}
    /\ Searches \subseteq {"slot", "owed"} /\ Faults \in BOOLEAN

VARIABLES meas,      \* devices that are measuring
          link,      \* devices whose BLE link to the gateway is up
          air,       \* per device, GATT writes the gateway has not executed
          lost,      \* devices whose sensor_disconnected event is under way
          reg,       \* transport_clients: the object whose client is registered
          obj,       \* the sensor objects, with their proxy and plugin host
          cur,       \* the configured object (SensorManager.sensors)
          oblig,     \* recovery_obligations
          cmd,       \* the command the manager loop is executing
          streaming  \* Core's is_streaming: a START was reported, no STOP issued

vars == <<meas, link, air, lost, reg, obj, cur, oblig, cmd, streaming>>

Kinds == {"setup", "start", "stop"}
Keys == Addrs \cup {None}    \* keys of recovery_obligations; None is str(None)

NoWorker == [kind |-> "none", at |-> "sent", stale |-> FALSE]
NoTask == [kind |-> "none", at |-> "entered", stale |-> FALSE]

(* SensorBase and InstalledSensorProxy as constructed: no host is running. *)
Fresh == [addr |-> None, client |-> FALSE, conn |-> FALSE, status |-> FALSE,
          pending |-> FALSE, quar |-> FALSE, aborted |-> FALSE,
          worker |-> NoWorker, host |-> "none", task |-> NoTask, proof |-> FALSE]

Idle == [op |-> "idle", pc |-> "-", o |-> None, todo |-> {}, was |-> FALSE,
         confirmed |-> {}, inv |-> {}]

Init ==
    /\ meas = {} /\ link = {} /\ lost = {} /\ streaming = FALSE
    /\ air = [a \in Addrs |-> <<>>]
    /\ reg = [a \in Addrs |-> None]
    /\ obj = [o \in Objs |-> Fresh]
    /\ cur \in Objs
    /\ oblig = [k \in Keys |-> None]
    /\ cmd = Idle

-----------------------------------------------------------------------------
(* Shorthand *)

Set(o, r) == obj' = [obj EXCEPT ![o] = r]
Begin(op, pc, o) == cmd' = [Idle EXCEPT !.op = op, !.pc = pc, !.o = o]
Goto(pc) == cmd' = [cmd EXCEPT !.pc = pc]
End == cmd' = Idle
Running(op, pc) == cmd.op = op /\ cmd.pc = pc
At(o) == obj[o].addr
Physical == <<meas, link, air, lost>>

\* Mutant: every CONNECTED sensor is started.
UsableIfConnected(o) == obj[o].status

(* get_connected_sensors *)
Usable(o) == obj[o].status /\ ~obj[o].quar /\ oblig[At(o)] = None

(* A worker or a host handler stops working for the command: the caller's  *)
(* operation is cancelled or past its deadline.                            *)
Expire(r) ==
    [r EXCEPT !.worker.stale = (r.worker.kind # "none"),
              !.task.stale = (@ \/ (r.worker.kind # "none" /\ r.worker.at = "in"))]

(* The host process is gone: its handler and the RPC waiting for it end.   *)
HostGone(r, h) == [r EXCEPT !.host = h, !.task = NoTask, !.worker = NoWorker,
                            !.proof = FALSE]

(* recovery_obligations[address] = sensor.                                 *)
Oblige(o) == [oblig EXCEPT ![At(o)] = o]

(* A lifecycle RPC is handed to a worker thread and the command awaits it. *)
Launch(r, kind) == [r EXCEPT !.worker = [kind |-> kind, at |-> "sent", stale |-> FALSE]]

(* The RPC of object o ends; the command learns it if it still waits.      *)
Deliver(o, outcome) ==
    cmd' = IF cmd.o = o /\ cmd.pc = "await" THEN [cmd EXCEPT !.pc = outcome] ELSE cmd

(* A transport client of object o is linked through the gateway.  Earlier  *)
(* events precede the reply on the UART, so none of them is outstanding.   *)
LinkUp(a) == a \notin lost /\ link' = link \cup {a}

(* reconnect_for_recovery: the retained identity, and never another one,   *)
(* is linked again with the client that the sensor object has kept.        *)
Relink(o) == LinkUp(At(o)) /\ reg' = [reg EXCEPT ![At(o)] = o]

(* connect_to_device has returned in time.                                 *)
CountsConnected(r) == [r EXCEPT !.conn = TRUE, !.status = TRUE]

(* release_transport_client: a newer client of the address is left alone.  *)
Unregistered(o) == [reg EXCEPT ![At(o)] = IF @ = o THEN None ELSE @]

-----------------------------------------------------------------------------
(* The plugin host and the workers that wait for it *)

(* lifecycle_call, runtime_barrier: no handler holds the lifecycle lock.    *)
LifecycleIdle(r) == r.task.kind = "none"

(* The RPC reaches the host process: _ensure_client spawns it when there   *)
(* is none, an expired operation, a dead host or a handler that holds the  *)
(* lifecycle lock refuse the call.                                         *)
HostEnter(o) ==
    LET r == obj[o] IN
    /\ r.worker.kind # "none" /\ r.worker.at = "sent"
    /\ \/ /\ r.host = "dead" \/ ~LifecycleIdle(r) \/ r.worker.stale
          /\ Set(o, [r EXCEPT !.worker = NoWorker])
          /\ Deliver(o, "fail")
       \/ /\ r.host # "dead" /\ LifecycleIdle(r)
          /\ Set(o, [r EXCEPT !.host = "up", !.worker.at = "in",
                     !.task = [kind |-> r.worker.kind, at |-> "entered",
                               stale |-> r.worker.stale],
                     !.proof = (@ /\ r.worker.kind # "start")])
          /\ UNCHANGED cmd
    /\ UNCHANGED <<Physical, reg, cur, oblig, streaming>>

(* The handler's adapter.write comes back to Core, which refuses it for an *)
(* expired operation, a quarantined or an aborted sensor, and otherwise    *)
(* hands the GATT write to the gateway.                                    *)
Fenced(r) == r.task.stale \/ r.quar \/ r.aborted \/ ~r.client

(* GatewayBLEAdapter.write hands the GATT write to the gateway.            *)
Written(o) == [air EXCEPT ![At(o)] = Append(@, [o |-> o, kind |-> obj[o].task.kind])]

HostWrite(o) ==
    LET r == obj[o] IN
    /\ r.task.kind \in {"start", "stop"} /\ r.task.at = "entered"
    /\ IF Fenced(r) \/ r.addr \notin link
       THEN Set(o, [r EXCEPT !.task.at = "failed"]) /\ UNCHANGED air
       ELSE /\ Len(air[r.addr]) < MaxAir
            /\ air' = Written(o)
            /\ Set(o, [r EXCEPT !.task.at = "writing"])
    /\ UNCHANGED <<meas, link, lost, reg, cur, oblig, cmd, streaming>>

(* The gateway executes the oldest write of a device.  The handler whose   *)
(* write is the last one queued is still waiting for the response.         *)
Execute(a) ==
    LET e == Head(air[a])
        r == obj[e.o] IN
    /\ air[a] # <<>>
    /\ air' = [air EXCEPT ![a] = Tail(@)]
    /\ meas' = IF e.kind = "start" THEN meas \cup {a} ELSE meas \ {a}
    /\ obj' = IF Len(air[a]) = 1 /\ r.addr = a /\ r.task.at = "writing"
              THEN [obj EXCEPT ![e.o].task.at = "acked"] ELSE obj
    /\ UNCHANGED <<link, lost, reg, cur, oblig, cmd, streaming>>

(* The write's response is late, lost or an error: the adapter call raises *)
(* in the plugin although the device may have obeyed, or may still.        *)
WriteUnconfirmed(o) ==
    /\ obj[o].task.at \in {"writing", "acked"}
    /\ Set(o, [obj[o] EXCEPT !.task.at = "failed"])
    /\ UNCHANGED <<Physical, reg, cur, oblig, cmd, streaming>>

(* The handler returns.  A STOP is confirmed by the acknowledged write and *)
(* remembered as _last_stop_confirmed; a plugin may hide the failed write  *)
(* of a START.                                                             *)
StopProved(r) == r.task.kind = "stop" /\ r.task.at = "acked"

HostReturn(o) ==
    LET r == obj[o] IN
    /\ r.task.kind # "none"
    /\ r.task.at \in {"acked", "failed"} \/ r.task.kind = "setup"
    /\ \E ok \in BOOLEAN :
          /\ ok => (r.task.at = "acked" \/ r.task.kind # "stop")
          /\ ~ok => (r.task.at = "failed" \/ r.task.kind = "setup")
          /\ Set(o, [r EXCEPT !.task = NoTask, !.proof = (@ \/ StopProved(r)),
                     !.worker = IF r.worker.at = "in" THEN NoWorker ELSE @])
          /\ IF r.worker.at = "in" THEN Deliver(o, IF ok THEN "ok" ELSE "fail")
             ELSE UNCHANGED cmd
    /\ UNCHANGED <<Physical, reg, cur, oblig, streaming>>

(* The worker of an expired operation stops waiting; its handler may go on.*)
WorkerEnds(o) ==
    /\ obj[o].worker.stale
    /\ Set(o, [obj[o] EXCEPT !.worker = NoWorker])
    /\ UNCHANGED <<Physical, reg, cur, oblig, cmd, streaming>>

HostCrash(o) ==
    /\ Faults /\ obj[o].host = "up"
    /\ Set(o, HostGone(obj[o], "dead"))
    /\ Deliver(o, "fail")
    /\ UNCHANGED <<Physical, reg, cur, oblig, streaming>>

-----------------------------------------------------------------------------
(* Devices and the gateway *)

LinkLoss(a) ==
    /\ a \in link
    /\ link' = link \ {a} /\ lost' = lost \cup {a}
    /\ air' = [air EXCEPT ![a] = <<>>]
    /\ UNCHANGED <<meas, reg, obj, cur, oblig, cmd, streaming>>

(* _handle_sensor_disconnected and the callback built by discovery.        *)
LossEvent(a) ==
    /\ a \in lost /\ lost' = lost \ {a}
    /\ obj' = IF reg[a] = None THEN obj
              ELSE [obj EXCEPT ![reg[a]].status = FALSE,
                               ![reg[a]].conn = (@ /\ At(reg[a]) # a)]
    /\ UNCHANGED <<meas, link, air, reg, cur, oblig, cmd, streaming>>

PowerCycle(a) ==
    /\ a \in meas /\ meas' = meas \ {a}
    /\ link' = link \ {a}
    /\ lost' = IF a \in link THEN lost \cup {a} ELSE lost
    /\ air' = [air EXCEPT ![a] = <<>>]
    /\ UNCHANGED <<reg, obj, cur, oblig, cmd, streaming>>

-----------------------------------------------------------------------------
(* Discovery, connection and START *)

Unresolved(o) == obj[o].pending \/ obj[o].quar \/ \E k \in Keys : oblig[k] = o

(* discover_devices of the adapter: a linked device does not advertise.    *)
Advertising == Addrs \ (link \cup lost)

(* create_transport_client: the sensor is bound to the device's address.   *)
WithClient(r, a) == [r EXCEPT !.addr = a, !.client = TRUE, !.conn = FALSE]

(* A slot that is not CONNECTED is given any advertising device and a new  *)
(* transport client.                                                       *)
Discover ==
    /\ cmd = Idle /\ ~obj[cur].status
    /\ "slot" \in Searches \/ ~Unresolved(cur)
    /\ \E a \in Advertising :
          /\ "owed" \in Searches \/ oblig[a] = None
          /\ Set(cur, WithClient(obj[cur], a))
          /\ reg' = [reg EXCEPT ![a] = cur]
    /\ UNCHANGED <<Physical, cur, oblig, cmd, streaming>>

(* _ensure_reconciled, connect_to_device and set_up_sensor.  A connect     *)
(* that outlives its 10 s leaves a linked client in a slot that is not     *)
(* CONNECTED; a failed one changes nothing.                                *)
EnsureReconciled(o) == oblig[At(o)] = None

(* set_up_sensor; the setup RPC is not started beside an old worker.       *)
SetUpSensor(r) ==
    \/ /\ r.worker.kind = "none"
       /\ Set(cur, Launch(r, "setup")) /\ Begin("connect", "await", cur)
    \/ /\ r.worker.kind # "none"
       /\ Set(cur, r) /\ UNCHANGED cmd

Connect ==
    LET r == obj[cur] IN
    /\ cmd = Idle /\ r.client /\ EnsureReconciled(cur)
    /\ Relink(cur)
    /\ \/ SetUpSensor(CountsConnected(r))
       \/ Set(cur, [r EXCEPT !.conn = TRUE]) /\ UNCHANGED cmd
    /\ UNCHANGED <<meas, air, lost, cur, oblig, streaming>>

(* _start_sensor_stream: the obligation is recorded before the plugin is   *)
(* asked, because a START may reach the device though its reply is lost.   *)
Start ==
    LET r == [obj[cur] EXCEPT !.pending = TRUE] IN
    /\ cmd = Idle /\ At(cur) # None /\ Usable(cur)
    /\ IF r.worker.kind # "none"
       THEN Set(cur, r) /\ UNCHANGED cmd
       ELSE Set(cur, Launch(r, "start")) /\ Begin("start", "await", cur)
    /\ UNCHANGED <<Physical, reg, cur, oblig, streaming>>

(* _call_lifecycle: every failure of a setup or START quarantines.         *)
LifecycleEnds ==
    /\ cmd.op \in {"connect", "start"} /\ cmd.pc \in {"ok", "fail"}
    /\ Set(cmd.o, [obj[cmd.o] EXCEPT !.quar = (@ \/ cmd.pc = "fail")])
    /\ streaming' = (streaming \/ (cmd.op = "start" /\ cmd.pc = "ok"))
    /\ End
    /\ UNCHANGED <<Physical, reg, cur, oblig>>

\* Mutant: a timed-out setup or START leaves the sensor usable.
LifecycleTimesOutUnmarked ==
    /\ cmd.op \in {"connect", "start"} /\ cmd.pc = "await"
    /\ Set(cmd.o, Expire(obj[cmd.o]))
    /\ End
    /\ UNCHANGED <<Physical, reg, cur, oblig, streaming>>

LifecycleTimesOut ==
    /\ cmd.op \in {"connect", "start"} /\ cmd.pc = "await"
    /\ Set(cmd.o, [Expire(obj[cmd.o]) EXCEPT !.quar = TRUE])
    /\ End
    /\ UNCHANGED <<Physical, reg, cur, oblig, streaming>>

-----------------------------------------------------------------------------
(* STOP *)

(* stop_all: routing drains first; a quarantined sensor, a passed deadline *)
(* and an unreachable one are not attempted, and whatever is not reported  *)
(* stopped becomes an obligation.                                          *)
Stop ==
    LET r == obj[cur] IN
    /\ cmd = Idle
    /\ streaming' = FALSE
    /\ \/ /\ Faults                                   \* routing did not drain
          /\ Set(cur, [r EXCEPT !.quar = TRUE]) /\ oblig' = Oblige(cur)
          /\ UNCHANGED cmd
       \/ /\ r.quar \/ (~r.status /\ r.pending) \/ Faults
          /\ oblig' = Oblige(cur) /\ UNCHANGED <<obj, cmd>>
       \/ /\ ~r.quar /\ ~r.status /\ ~r.pending
          /\ UNCHANGED <<obj, oblig, cmd>>
       \/ /\ ~r.quar /\ r.status /\ r.worker.kind # "none"
          /\ Set(cur, [r EXCEPT !.quar = TRUE]) /\ oblig' = Oblige(cur)
          /\ UNCHANGED cmd
       \/ /\ ~r.quar /\ r.status /\ r.worker.kind = "none"
          /\ Set(cur, Launch(r, "stop")) /\ Begin("stop", "await", cur)
          /\ UNCHANGED oblig
    /\ UNCHANGED <<Physical, reg, cur>>

(* Only a STOP the plugin confirmed within its deadline clears the         *)
(* pending measurement.                                                    *)
StopConfirmed(r) == [r EXCEPT !.pending = FALSE]

StopEnds ==
    /\ cmd.op = "stop" /\ cmd.pc \in {"ok", "fail"}
    /\ IF cmd.pc = "ok"
       THEN Set(cmd.o, StopConfirmed(obj[cmd.o])) /\ UNCHANGED oblig
       ELSE oblig' = Oblige(cmd.o) /\ UNCHANGED obj
    /\ End
    /\ UNCHANGED <<Physical, reg, cur, streaming>>

StopTimesOut ==
    /\ Running("stop", "await")
    /\ Set(cmd.o, [Expire(obj[cmd.o]) EXCEPT !.quar = TRUE])
    /\ oblig' = Oblige(cmd.o)
    /\ End
    /\ UNCHANGED <<Physical, reg, cur, streaming>>

(* Core's own wait for the completion fails: it quarantines the sensors    *)
(* still pending, from its thread, while the manager goes on.              *)
CoreGivesUp ==
    /\ cmd.op = "stop" /\ obj[cur].pending /\ ~obj[cur].quar
    /\ Set(cur, [obj[cur] EXCEPT !.quar = TRUE])
    /\ UNCHANGED <<Physical, reg, cur, oblig, cmd, streaming>>

-----------------------------------------------------------------------------
(* Disconnect: one cleanup attempt *)

Abort(r) == [Expire(r) EXCEPT !.aborted = TRUE, !.quar = TRUE]

Cleanup ==
    LET r == obj[cur] IN
    /\ cmd = Idle /\ r.addr # None
    /\ streaming' = FALSE
    /\ \/ /\ r.quar \/ (r.pending /\ ~r.conn)         \* isolated, unreachable
          /\ oblig' = Oblige(cur) /\ UNCHANGED <<obj, cmd, link, reg>>
       \/ /\ ~r.quar /\ r.pending /\ (r.conn \/ r.client)
          /\ IF r.conn THEN UNCHANGED <<link, reg>> ELSE Relink(cur)
          /\ Set(cur, Launch([r EXCEPT !.conn = TRUE, !.status = (@ \/ ~r.conn)], "stop"))
          /\ Begin("cleanup", "await", cur)
          /\ UNCHANGED oblig
       \/ /\ ~r.quar /\ ~r.pending
          /\ Begin("cleanup", IF r.conn THEN "disconnect" ELSE "retire", cur)
          /\ UNCHANGED <<obj, oblig, link, reg>>
    /\ UNCHANGED <<meas, air, lost, cur>>

CleanupStopEnds ==
    /\ cmd.op = "cleanup" /\ cmd.pc \in {"ok", "fail"}
    /\ IF cmd.pc = "ok" THEN Set(cmd.o, StopConfirmed(obj[cmd.o])) ELSE UNCHANGED obj
    /\ Goto("disconnect")
    /\ UNCHANGED <<Physical, reg, cur, oblig, streaming>>

CleanupStopTimesOut ==
    /\ Running("cleanup", "await")
    /\ Set(cmd.o, Abort(obj[cmd.o]))
    /\ Goto("disconnect")
    /\ UNCHANGED <<Physical, reg, cur, oblig, streaming>>

(* _disconnect_sync confirmed by the gateway.                              *)
Unlinked(o) ==
    /\ link' = link \ {At(o)}
    /\ air' = [air EXCEPT ![At(o)] = <<>>]
    /\ reg' = Unregistered(o)

Disconnected(r) == [r EXCEPT !.conn = FALSE, !.status = FALSE]

CleanupDisconnects ==
    /\ Running("cleanup", "disconnect")
    /\ \/ Unlinked(cmd.o) /\ Set(cmd.o, Disconnected(obj[cmd.o])) /\ Goto("retire")
          /\ UNCHANGED oblig
       \/ /\ \/ UNCHANGED obj                          \* refused
             \/ Set(cmd.o, Abort(obj[cmd.o]))          \* the operation's deadline
          /\ oblig' = Oblige(cmd.o) /\ End
          /\ UNCHANGED <<link, air, reg>>
    /\ UNCHANGED <<meas, lost, cur, streaming>>

CleanupRetires ==
    LET r == obj[cmd.o] IN
    /\ Running("cleanup", "retire")
    /\ \/ /\ ~r.pending
          /\ Set(cmd.o, [HostGone(r, "none") EXCEPT !.client = FALSE, !.conn = FALSE])
          /\ reg' = Unregistered(cmd.o)
          /\ UNCHANGED oblig
       \/ /\ r.pending
          /\ oblig' = Oblige(cmd.o) /\ UNCHANGED <<obj, reg>>
    /\ End
    /\ UNCHANGED <<Physical, cur, streaming>>

-----------------------------------------------------------------------------
(* Reset: reconciliation of the retained and the configured sensors *)

PhysicallyStopped(a) == a \notin meas /\ air[a] = <<>>

(* _recover_sensors: retained objects take precedence over the configured  *)
(* one for the same address; an obligation without object is no target.    *)
Target(k) == IF oblig[k] # None THEN oblig[k]
             ELSE IF At(cur) = k /\ k # None THEN cur ELSE None
Targets == {Target(k) : k \in Keys} \cap Objs

(* recover_connections: the registered clients follow the inventory.       *)
Inventory(links, r, o) == [r EXCEPT !.conn = IF reg'[r.addr] = o THEN r.addr \in links ELSE @]

Adopted == [a \in Addrs |->
    IF \E o \in Targets : At(o) = a /\ obj[o].client
    THEN CHOOSE o \in Targets : At(o) = a /\ obj[o].client ELSE reg[a]]

(* _handle_session_reset: the clients that were connected are called back. *)
LosesLink(o) == reg'[At(o)] = o /\ obj[o].conn

(* Core.reset_session: not beside a recording.                             *)
ResetAllowed == ~streaming

(* The inventory, and the BLE reset when the operator confirmed a STOP or  *)
(* an earlier reset is uncertain.  Without the gateway, or without a       *)
(* confirmed reset, no sensor is resolved.                                 *)
Recover ==
    /\ cmd = Idle /\ ResetAllowed /\ lost = {}
    /\ \E conf \in SUBSET {a \in Addrs : PhysicallyStopped(a) /\ oblig[a] # None},
          allow, uncertain, works \in BOOLEAN :
       LET resets == (conf # {} \/ uncertain) /\ allow
           resolves == works /\ (allow \/ (conf = {} /\ ~uncertain))
           inv == IF works /\ ~resets THEN link ELSE {} IN
       /\ allow \/ conf = {}
       /\ works \/ Faults
       /\ uncertain => Faults
       /\ reg' = Adopted
       /\ IF works
          THEN /\ link' = inv
               /\ air' = [a \in Addrs |-> IF a \in inv THEN air[a] ELSE <<>>]
               /\ obj' = [o \in Objs |->
                    IF At(o) = None THEN obj[o]
                    ELSE [Inventory(inv, obj[o], o) EXCEPT !.status = (@ /\ ~(resets /\ LosesLink(o)))]]
          ELSE UNCHANGED <<link, air, obj>>
       /\ oblig' = IF resolves THEN oblig
                   ELSE [k \in Keys |-> IF Target(k) \in Objs THEN Target(k) ELSE oblig[k]]
       /\ cmd' = [Idle EXCEPT !.op = "recover", !.pc = "next", !.inv = inv,
                  !.todo = IF resolves THEN Targets ELSE {},
                  !.was = (resets /\ works), !.confirmed = conf]
    /\ UNCHANGED <<meas, lost, cur, streaming>>

\* Mutant: the obligation moves to the configured sensor.
OwedByConfigured(o, r) ==
    /\ Set(o, [r EXCEPT !.quar = TRUE])
    /\ oblig' = [oblig EXCEPT ![r.addr] = cur]
    /\ cmd' = [cmd EXCEPT !.pc = "next", !.o = None, !.todo = @ \ {o}]

(* A target that could not be reconciled stays isolated and owed.          *)
Owed(o, r) ==
    /\ Set(o, [r EXCEPT !.quar = TRUE])
    /\ oblig' = [oblig EXCEPT ![r.addr] = o]
    /\ cmd' = [cmd EXCEPT !.pc = "next", !.o = None, !.todo = @ \ {o}]

(* A target is eligible again; a retired object's host is closed.          *)
Resolved(o, r) ==
    /\ Set(o, [(IF o = cur THEN r ELSE HostGone(r, "none")) EXCEPT
               !.quar = FALSE, !.status = FALSE, !.conn = FALSE])
    /\ oblig' = [oblig EXCEPT ![r.addr] = None]
    /\ cmd' = [cmd EXCEPT !.pc = "next", !.o = None, !.todo = @ \ {o}]

(* release_after_verified_stop: the host is ended, not asked.              *)
ReleasedAfterStop(r) == [HostGone(r, "none") EXCEPT !.aborted = TRUE, !.pending = FALSE]

(* _retire_after_external_stop: the operator's word replaces the plugin's. *)
RetireConfirmed(o) ==
    /\ Running("recover", "next") /\ o \in cmd.todo /\ At(o) \in cmd.confirmed
    /\ IF ~cmd.was
       THEN Owed(o, obj[o]) /\ UNCHANGED reg
       ELSE /\ Resolved(o, ReleasedAfterStop(obj[o]))
            /\ reg' = Unregistered(o)
    /\ UNCHANGED <<Physical, cur, streaming>>

(* prepare_recovery: no old worker, an idle host, and a host to ask if a   *)
(* measurement is pending; the host may already have proved its STOP.      *)
Prepared(r) ==
    /\ r.worker.kind = "none" /\ LifecycleIdle(r)
    /\ r.host = "up" \/ (r.host = "none" /\ ~r.pending)

(* _reconcile_sensor up to the plugin STOP.                                *)
Reconcile(o) ==
    LET r == [obj[o] EXCEPT !.pending = (@ /\ ~(obj[o].host = "up" /\ obj[o].proof)),
                            !.quar = FALSE, !.aborted = FALSE] IN
    /\ Running("recover", "next") /\ o \in cmd.todo /\ At(o) \notin cmd.confirmed
    /\ \/ /\ ~Prepared(obj[o]) \/ (r.pending /\ ~r.conn)
          /\ Owed(o, IF Prepared(obj[o]) THEN r ELSE obj[o]) /\ UNCHANGED <<link, reg>>
       \/ /\ Prepared(obj[o]) /\ r.pending /\ (r.conn \/ r.client)
          /\ IF r.conn THEN UNCHANGED <<link, reg>> ELSE Relink(o)
          /\ Set(o, Launch(CountsConnected(r), "stop"))
          /\ cmd' = [cmd EXCEPT !.pc = "await", !.o = o] /\ UNCHANGED oblig
       \/ /\ Prepared(obj[o]) /\ ~r.pending
          /\ IF r.conn
             THEN Set(o, r) /\ cmd' = [cmd EXCEPT !.pc = "disconnect", !.o = o] /\ UNCHANGED oblig
             ELSE Resolved(o, r)
          /\ UNCHANGED <<link, reg>>
    /\ UNCHANGED <<meas, air, lost, cur, streaming>>

ReconcileStopEnds ==
    LET r == obj[cmd.o] IN
    /\ cmd.op = "recover"
    /\ \/ /\ cmd.pc = "ok" /\ r.conn
          /\ Set(cmd.o, StopConfirmed(r)) /\ Goto("disconnect") /\ UNCHANGED oblig
       \/ cmd.pc = "ok" /\ ~r.conn /\ Resolved(cmd.o, StopConfirmed(r))
       \/ cmd.pc = "fail" /\ Owed(cmd.o, r)
       \/ cmd.pc = "await" /\ Owed(cmd.o, Expire(r))
    /\ UNCHANGED <<Physical, reg, cur, streaming>>

ReconcileDisconnects ==
    LET r == obj[cmd.o] IN
    /\ Running("recover", "disconnect")
    /\ \/ Unlinked(cmd.o) /\ Resolved(cmd.o, r)
       \/ Owed(cmd.o, r) /\ UNCHANGED <<link, air, reg>>
    /\ UNCHANGED <<meas, lost, cur, streaming>>

(* Links in the inventory that no retained context explains are kept as    *)
(* obligations without object, which only the operator can resolve.        *)
RecoverEnds ==
    /\ Running("recover", "next") /\ cmd.todo = {}
    /\ oblig' = [a \in Keys |->
         CASE oblig[a] = Unknown /\ a \in cmd.confirmed /\ cmd.was -> None
           [] oblig[a] = None /\ a \in cmd.inv /\ At(cur) # a -> Unknown
           [] OTHER -> oblig[a]]
    /\ End
    /\ UNCHANGED <<Physical, reg, obj, cur, streaming>>

-----------------------------------------------------------------------------
(* Reconfiguration *)

\* Mutant: a reconfiguration retires unresolved sensors like the others.
RetainNothing == oblig

(* Unresolved sensors become obligations.                                  *)
Retain == IF At(cur) # None /\ (obj[cur].pending \/ obj[cur].quar)
             /\ oblig[At(cur)] = None THEN Oblige(cur) ELSE oblig

(* _reinitialize_sensor_manager: obliged sensors keep their host; the      *)
(* others are disconnected and closed.  A failure before or after the      *)
(* retirement leaves the old object configured.                            *)
Reinitialize ==
    LET r == obj[cur]
        owed == oblig'[At(cur)] # None IN
    /\ cmd = Idle /\ ~streaming
    /\ oblig' = Retain
    /\ \/ /\ Faults                          \* routing or disconnect failed
          /\ UNCHANGED <<obj, cur, reg, link, air>>
       \/ \E n \in Objs \ {cur} : \E done \in BOOLEAN :
             /\ \A k \in Keys : oblig'[k] # n
             /\ done \/ Faults
             /\ cur' = IF done THEN n ELSE cur
             /\ obj' = [obj EXCEPT ![n] = Fresh, ![cur] =
                  IF owed THEN r
                  ELSE [HostGone(r, "none") EXCEPT !.client = FALSE, !.conn = FALSE,
                          !.status = FALSE]]
             /\ IF r.status /\ ~owed
                THEN link' = link \ {r.addr} /\ air' = [air EXCEPT ![r.addr] = <<>>]
                ELSE UNCHANGED <<link, air>>
             /\ reg' = [a \in Addrs |-> IF reg[a] = n \/ (reg[a] = cur /\ ~owed)
                                        THEN None ELSE reg[a]]
    /\ UNCHANGED <<meas, lost, cmd, streaming>>

-----------------------------------------------------------------------------
Next ==
    \/ \E o \in Objs : \/ HostEnter(o) \/ HostWrite(o) \/ WriteUnconfirmed(o)
                       \/ HostReturn(o) \/ WorkerEnds(o) \/ HostCrash(o)
                       \/ RetireConfirmed(o) \/ Reconcile(o)
    \/ \E a \in Addrs : Execute(a) \/ LinkLoss(a) \/ LossEvent(a) \/ PowerCycle(a)
    \/ Discover \/ Connect \/ Start \/ LifecycleEnds \/ LifecycleTimesOut
    \/ Stop \/ StopEnds \/ StopTimesOut \/ CoreGivesUp
    \/ Cleanup \/ CleanupStopEnds \/ CleanupStopTimesOut
    \/ CleanupDisconnects \/ CleanupRetires
    \/ Recover \/ ReconcileStopEnds \/ ReconcileDisconnects \/ RecoverEnds
    \/ Reinitialize

Spec == Init /\ [][Next]_vars

-----------------------------------------------------------------------------
(* Properties *)

Workers == [kind : Kinds \cup {"none"}, at : {"sent", "in"}, stale : BOOLEAN]
Tasks == [kind : Kinds \cup {"none"}, at : {"entered", "writing", "acked", "failed"},
          stale : BOOLEAN]

(* Every variable stays in its domain; the gateway's queue of a device     *)
(* never outgrows MaxAir.                                                  *)
TypeOK ==
    /\ meas \subseteq Addrs /\ link \subseteq Addrs /\ lost \subseteq Addrs
    /\ \A a \in Addrs : Len(air[a]) <= MaxAir
    /\ reg \in [Addrs -> Objs \cup {None}]
    /\ obj \in [Objs -> [addr : Addrs \cup {None}, client : BOOLEAN, conn : BOOLEAN,
                         status : BOOLEAN, pending : BOOLEAN, quar : BOOLEAN,
                         aborted : BOOLEAN, worker : Workers,
                         host : {"none", "up", "dead"}, task : Tasks, proof : BOOLEAN]]
    /\ cur \in Objs /\ streaming \in BOOLEAN
    /\ oblig \in [Keys -> Objs \cup {None, Unknown}]

(* A device that measures, or has a START on its way, is never forgotten:  *)
(* it is an unresolved obligation, or the configured sensor bound to it    *)
(* still has its measurement cleanup pending.  Timeouts, lost responses,   *)
(* late workers, host crashes, link losses, cleanups, resets and           *)
(* reconfigurations never drop it (cleanup_service, SensorManager).        *)
MeasuringIsTracked ==
    \A a \in Addrs :
       a \in meas \/ (\E i \in 1..Len(air[a]) : air[a][i].kind = "start")
       => oblig[a] # None \/ (At(cur) = a /\ obj[cur].pending)

(* Between two commands, lifecycle work that outlived its command belongs  *)
(* to a quarantined sensor: neither a START nor a plain STOP can be issued *)
(* beside it (_call_lifecycle, StreamingService.stop, abort_cleanup).      *)
QuarantineCoversLateWork ==
    cmd = Idle => \A o \in Objs :
       obj[o].worker.kind # "none" \/ obj[o].task.kind # "none" => obj[o].quar

(* A STOP of an earlier session never ends a later one: no START is queued *)
(* behind a STOP whose outcome nobody waited for, and none is on its way   *)
(* while a START is reported and unstopped.                                *)
LateStopHarmless ==
    /\ \A a \in Addrs : \A i, j \in 1..Len(air[a]) :
          i < j => ~(air[a][i].kind = "stop" /\ air[a][j].kind = "start")
    /\ streaming => obj[cur].task.kind # "stop"

(* A retained obligation keeps the device it is about: the sensor object   *)
(* held for an address is still bound to that address, so the STOP that    *)
(* resolves it reaches the device that measures.                           *)
ObligationKeepsIdentity ==
    \A k \in Keys : oblig[k] \in Objs => At(oblig[k]) = k
=============================================================================

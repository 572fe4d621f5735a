----------------------------- MODULE WifiNetwork -----------------------------
(***************************************************************************)
(* Wi-Fi sensors: one radio hosts the Nexus access point, and is borrowed  *)
(* to provision sensors that have not joined it yet.                       *)
(*                                                                         *)
(* One task, the manager loop, runs the discoveries, connections and       *)
(* reconfigurations; its longer awaits are steps.  stop_manager shuts the  *)
(* adapter down between two of these steps, and the process may end at any *)
(* time.  NetworkManager, the radio, the recovery service and the devices  *)
(* are the environment.                                                    *)
(*                                                                         *)
(* All sensors are instances of one plugin, so they form one request       *)
(* group; a claim of a second plugin on the same access point only ends a  *)
(* session the way any other error does.  A sensor stands for its plugin   *)
(* instance, with its own driver and host.  Sensors are numbered in the    *)
(* order of the configuration, devices in the order of their identities.   *)
(***************************************************************************)
EXTENDS Naturals, Sequences, FiniteSets, SequencesExt

CONSTANTS
  Sensors,        \* the configured sensors, in order
  Devices,        \* the devices, sorted by identity
  AllowRestart,   \* allow_network_stack_restart
  PerSubject,     \* whether sensors are searched subject by subject (one sensor each)
  MaxSearches,    \* bound: discoveries
  MaxConfigures,  \* bound: configurations and restarts
  MaxMoves,       \* bound: devices that come, go or are reset, and topology changes
  MaxFailures     \* bound: failing calls and timeouts

Unset == 0

ASSUME WifiAssumption ==
  /\ Sensors \subseteq Nat \ {Unset} /\ Devices \subseteq Nat \ {Unset}
  /\ IsFiniteSet(Sensors) /\ IsFiniteSet(Devices) /\ Sensors # {}
  /\ {AllowRestart, PerSubject} \subseteq BOOLEAN
  /\ {MaxSearches, MaxConfigures, MaxMoves, MaxFailures} \subseteq Nat

VARIABLES
  \* The environment
  radio,      \* what the radio does
  place,      \* of each device: "setup" (hosts its own access point), "joined" or "off"
  late,       \* the devices whose provisioning goes on after its timeout
  topology,   \* bridge and VLAN: "up", "down", or "changed" (not as configured)
  \* The backend
  bus,        \* whether the D-Bus client is connected
  ready,      \* _initialized of the backend
  scan,       \* _access_points
  \* The adapter
  adapter,    \* _initialized, _shutting_down, whether _network is set
  lock,       \* _operation_lock
  drivers,    \* _identity_drivers
  sensor,     \* of each sensor: its address, its handle's driver, whether it is CONNECTED
  host,       \* of each sensor's plugin host: the device it is connected to
  op,         \* the command of the manager loop
  hosting,    \* whether the adapter has brought the access point up and reported nothing else since
  count       \* the bounds

wifiVars == <<radio, place, late, topology, bus, ready, scan, adapter, lock, drivers, sensor, host,
              op, hosting, count>>
world == <<place, late, topology>>
backend == <<bus, ready, scan>>
plugins == <<drivers, sensor, host>>

\* The radio hosts the Nexus access point, is free, or has joined a device's.
Hosting   == [mode |-> "ap", device |-> Unset]
Released  == [mode |-> "none", device |-> Unset]
Joined(d) == [mode |-> "client", device |-> d]

Idle        == [pc |-> "idle"]
NoDriver    == [d \in Devices |-> Unset]
NewAdapter  == [init |-> FALSE, closing |-> FALSE, network |-> FALSE]
FreshSensor == [address |-> Unset, handle |-> Unset, connected |-> FALSE]

WifiInit ==
  /\ radio \in {Hosting, Released} /\ place \in [Devices -> {"setup", "joined"}]
  /\ late = {} /\ topology = "up"
  /\ bus = FALSE /\ ready = FALSE /\ scan = {}
  /\ adapter = NewAdapter /\ lock = FALSE /\ drivers = NoDriver
  /\ sensor = [s \in Sensors |-> FreshSensor] /\ host = [s \in Sensors |-> Unset]
  /\ op = Idle /\ hosting = FALSE
  /\ count = [searches |-> 0, configures |-> 0, moves |-> 0, faults |-> 0]

Count(field, bound) == count[field] < bound /\ count' = [count EXCEPT ![field] = @ + 1]
Faulty == Count("faults", MaxFailures)

\* A step fails because it must, or because a call fails or times out.
FailsIf(condition) == IF condition THEN UNCHANGED count ELSE Faulty

-----------------------------------------------------------------------------
(* The environment *)

\* A device is switched off, comes back, or is reset to its factory settings.
Move(d) ==
  /\ Count("moves", MaxMoves)
  /\ \E p \in (CASE place[d] = "setup"  -> {"off"}
                 [] place[d] = "joined" -> {"off", "setup"}
                 [] place[d] = "off"    -> {"joined"}) : place' = [place EXCEPT ![d] = p]
  /\ UNCHANGED <<radio, late, topology, backend, adapter, lock, plugins, op, hosting>>

\* A provisioning that was given up is completed by the plugin host all the same.
LateProvision(d) ==
  /\ d \in late /\ late' = late \ {d}
  /\ place' = IF place[d] = "setup" THEN [place EXCEPT ![d] = "joined"] ELSE place
  /\ UNCHANGED <<radio, topology, backend, adapter, lock, plugins, op, hosting, count>>

\* Bridge or VLAN go down, are reconfigured, or come back.
ChangeTopology ==
  /\ Count("moves", MaxMoves)
  /\ \E t \in {"up", "down", "changed"} \ {topology} : topology' = t
  /\ UNCHANGED <<radio, place, late, backend, adapter, lock, plugins, op, hosting>>

\* A connection that is bound to the D-Bus client goes with it.
Unbound == IF radio.mode = "client" THEN Released ELSE radio

-----------------------------------------------------------------------------
(* NetworkManager, as the backend sees it *)

\* connect, call, get_property: no call succeeds on a closed client.
Callable == bus

\* get_device_path, find_saved_connection, find_active_connection: by name.
ProfileFound == Callable

\* _resolve_paths: the interfaces and the saved profiles.
PathsResolved == ProfileFound

\* _validate_saved_topology: the profiles are those of the configuration.
SavedTopologyValid == topology # "changed"

\* _require_active_profile, of the bridge and of the VLAN, on their devices.
ProfilesActive == topology = "up"

\* get_access_points: the open access points that a fresh scan sees.
AccessPoints == {d \in Devices : place[d] = "setup"}

\* quiesce: whatever runs on the radio is deactivated.
Quiesced == radio' = Released

\* activate and wait_for_connection_id, of the saved access point.
Activated == Callable /\ radio' = Hosting

-----------------------------------------------------------------------------
(* The adapter's life *)

Unconnected == {s \in Sensors : ~sensor[s].connected}

\* _ensure_ready
Ready == adapter.init /\ ~adapter.closing

\* initialize and ensure_ap_active: the client connects, the topology is
\* verified and the access point activated unless it is active.
EnsureApActive ==
  /\ bus' = TRUE /\ SavedTopologyValid /\ ProfilesActive
  /\ radio' = Hosting /\ ready' = TRUE /\ scan' = {}

\* Before, or instead of the activation there is an error.
EnsureApFails ==
  /\ bus' \in BOOLEAN /\ (topology # "up" => radio' = radio)
  /\ radio' \in IF bus' THEN {radio, Hosting} ELSE {radio}
  /\ ready' \in BOOLEAN /\ (ready' => bus') /\ scan' = {}

\* _disconnect_sensor of these sensors: the hosts of their handles' drivers
\* close the connections, and the sensors are DISCONNECTED.
Disconnects(S) ==
  /\ host' = [s \in Sensors |->
                IF \E t \in S : sensor[t].handle = s /\ sensor[t].connected THEN Unset ELSE host[s]]
  /\ sensor' = [s \in Sensors |-> IF s \in S THEN [sensor[s] EXCEPT !.connected = FALSE] ELSE sensor[s]]

\* The pool retires the old adapter; initialize_all shuts it down and
\* initializes the new one.
InitializeAll ==
  \/ /\ EnsureApActive
     /\ sensor' = [s \in Sensors |-> FreshSensor]
     /\ adapter' = [init |-> TRUE, closing |-> FALSE, network |-> TRUE]
     /\ hosting' = TRUE
  \/ /\ EnsureApFails
     /\ sensor' = [s \in Sensors |-> [FreshSensor EXCEPT !.address = sensor[s].address]]
     /\ adapter' = NewAdapter
     /\ UNCHANGED hosting

\* _reinitialize_sensor_manager: the connected sensors are disconnected, which
\* may fail after some of them; then the old hosts are closed and the new
\* adapter is initialized.  When that fails the old sensors stay, without handles.
Configure ==
  /\ op = Idle /\ ~adapter.closing /\ Count("configures", MaxConfigures)
  /\ \/ host' = [s \in Sensors |-> Unset] /\ drivers' = NoDriver /\ InitializeAll
     \/ \E S \in SUBSET (Sensors \ Unconnected) :
          /\ S # Sensors \ Unconnected /\ Disconnects(S)
          /\ UNCHANGED <<radio, backend, adapter, drivers, hosting>>
  /\ UNCHANGED <<world, lock, op>>

\* shutdown of the backend.
CloseBackend == bus' = FALSE /\ ready' = FALSE /\ radio' = Unbound

\* shutdown of the adapter, in stop_manager.
Shutdown ==
  /\ ~adapter.closing
  /\ Disconnects(Sensors)
  /\ adapter' = [init |-> FALSE, closing |-> TRUE, network |-> FALSE]
  /\ CloseBackend
  /\ UNCHANGED <<world, scan, lock, drivers, op, hosting, count>>

\* The process ends, at any point, and another one is started.
Restart ==
  /\ Count("configures", MaxConfigures)
  /\ radio' = Unbound /\ bus' = FALSE /\ ready' = FALSE /\ scan' = {}
  /\ adapter' = NewAdapter /\ lock' = FALSE /\ drivers' = NoDriver
  /\ sensor' = [s \in Sensors |-> FreshSensor] /\ host' = [s \in Sensors |-> Unset]
  /\ op' = Idle /\ hosting' = FALSE
  /\ UNCHANGED world

-----------------------------------------------------------------------------
(* Discovery *)

OpAt(pc)   == op.pc = pc
To(pc)     == op' = [op EXCEPT !.pc = pc]
Fail       == op' = [op EXCEPT !.pc = "cleanup", !.failed = TRUE]
Sorted(S)  == SetToSortSeq(S, <)

\* discover_connected of a plugin: what announces itself on the network.
Announced == IF radio = Hosting THEN {d \in Devices : place[d] = "joined"} ELSE {}

\* _discover_group asks every driver, which needs the adapter's _network.
Answered == adapter.network

\* Mutant: the devices of connected sensors are given away again.
ExcludedByRequest(P) == {}

\* The addresses a discovery must not select: those of connected sensors and,
\* when it is for one subject, those of all the other sensors.
Excluded(P) ==
  {sensor[s].address : s \in {t \in Sensors : sensor[t].connected \/ (PerSubject /\ t \notin P)}} \ {Unset}

\* discover_all and discover_for_subject.
Discover(P) ==
  /\ op = Idle /\ Ready /\ P # {} /\ Count("searches", MaxSearches)
  /\ IF PerSubject THEN P \subseteq Unconnected /\ Cardinality(P) = 1 ELSE P = Unconnected
  /\ op' = [pc |-> "groups", pending |-> P, excluded |-> Excluded(P), attempt |-> 1,
            devices |-> {}, known |-> {}, tried |-> {}, device |-> Unset, failed |-> FALSE,
            gone |-> FALSE, restart |-> FALSE]
  /\ UNCHANGED <<radio, world, backend, adapter, lock, plugins, hosting>>

\* The loop of discover_devices: a deficit is provisioned, one device at a time.
Onward(devices) == IF Cardinality(devices) < Cardinality(op.pending) THEN "enter" ELSE "cache"

\* _discover_groups; an error of a driver ends the discovery.
DiscoverGroups ==
  /\ OpAt("groups")
  /\ \/ /\ Answered /\ UNCHANGED count
        /\ op' = [op EXCEPT !.pc = Onward(Announced), !.devices = Announced, !.known = Announced, !.tried = {}]
     \/ FailsIf(~Answered) /\ op' = Idle
  /\ UNCHANGED <<radio, world, backend, adapter, lock, plugins, hosting>>

\* Mutant: an error before the session has begun only releases the lock.
EnterCarelessly ==
  /\ OpAt("enter") /\ ~lock
  /\ \/ /\ ready /\ PathsResolved /\ lock' = TRUE
        /\ Quiesced /\ scan' = AccessPoints
        /\ To("candidate") /\ UNCHANGED count
     \/ /\ FailsIf(~ready \/ ~PathsResolved) /\ UNCHANGED <<scan, lock>>
        /\ radio' \in {radio} \cup (IF ready THEN {Released} ELSE {})
        /\ op' = Idle
  /\ UNCHANGED <<world, bus, ready, adapter, plugins, hosting>>

\* __aenter__ and begin_provisioning: the lock, then the access point is
\* taken down and a fresh scan made.  An error leads to the restoration.
Enter ==
  /\ OpAt("enter") /\ ~lock /\ lock' = TRUE
  /\ \/ /\ ready /\ PathsResolved
        /\ Quiesced /\ scan' = AccessPoints
        /\ To("candidate") /\ UNCHANGED count
     \/ /\ FailsIf(~ready \/ ~PathsResolved) /\ UNCHANGED scan
        /\ radio' \in {radio} \cup (IF ready THEN {Released} ELSE {})
        /\ Fail
  /\ UNCHANGED <<world, bus, ready, adapter, plugins, hosting>>

\* The access points that the plugin claims and that were not tried before.
Available == scan \ op.tried

\* The strongest of them is taken, whichever that is.
ChooseCandidate ==
  /\ OpAt("candidate")
  /\ \/ Available = {} /\ Fail
     \/ \E d \in Available : op' = [op EXCEPT !.pc = "join", !.device = d, !.tried = @ \cup {d}]
  /\ UNCHANGED <<radio, world, backend, adapter, lock, plugins, hosting, count>>

\* add_and_activate_open_wifi and the waits for the connection and its address.
Joins(d) == Callable /\ place[d] = "setup"

\* connect_temporary
ConnectTemporary ==
  /\ OpAt("join")
  /\ \/ /\ Joins(op.device) /\ radio' = Joined(op.device)
        /\ To("identify") /\ UNCHANGED count
     \/ FailsIf(~Joins(op.device)) /\ Fail /\ UNCHANGED radio
  /\ UNCHANGED <<world, backend, adapter, lock, plugins, hosting>>

\* The plugin reaches the device.
Heard == radio = Joined(op.device) /\ place[op.device] = "setup"

\* identify_candidate, and the test that the identity is not yet assigned.
Identify ==
  /\ OpAt("identify")
  /\ \/ /\ Heard /\ UNCHANGED count
        /\ IF op.device \in op.known THEN Fail ELSE To("provision")
     \/ FailsIf(~Heard) /\ Fail
  /\ UNCHANGED <<radio, world, backend, adapter, lock, plugins, hosting>>

\* provision: the device leaves its own access point, and the plugin may say
\* so.  A timeout gives up the call, not the work of the plugin host.
Provision ==
  /\ OpAt("provision")
  /\ \/ /\ Heard /\ UNCHANGED <<late, count>>
        /\ place' = [place EXCEPT ![op.device] = "joined"]
        /\ \E gone \in BOOLEAN : op' = [op EXCEPT !.pc = "cleanup", !.gone = gone]
     \/ /\ FailsIf(~Heard) /\ Fail /\ UNCHANGED place
        /\ late' \in {late} \cup (IF Heard THEN {late \cup {op.device}} ELSE {})
  /\ UNCHANGED <<radio, topology, backend, adapter, lock, plugins, hosting>>

\* _cleanup_temporary_connection, the beginning of restore_ap.  When the
\* remote access point has disappeared, only the recovery service helps.
Cleanup ==
  /\ OpAt("cleanup")
  /\ radio' = Unbound /\ scan' = {}
  /\ \/ ~op.gone /\ To("quiesce") /\ UNCHANGED hosting
     \/ op.gone /\ AllowRestart /\ To("restart") /\ UNCHANGED hosting
     \/ op.gone /\ ~AllowRestart /\ To("leave") /\ hosting' = FALSE
  /\ UNCHANGED <<world, bus, ready, adapter, lock, plugins, count>>

\* restore_ap: after the first failure the recovery service is tried.
OrRestart ==
  IF AllowRestart /\ ~op.restart /\ ~op.gone THEN To("restart") /\ UNCHANGED hosting
  ELSE To("leave") /\ hosting' = FALSE

\* _activate_ap_after_cleanup, first half: the profiles are validated and the
\* radio is quiesced, then it rests for two seconds.
Quiesce ==
  /\ OpAt("quiesce")
  /\ \/ /\ PathsResolved /\ SavedTopologyValid /\ Quiesced
        /\ To("activate") /\ UNCHANGED <<hosting, count>>
     \/ /\ FailsIf(~PathsResolved \/ ~SavedTopologyValid) /\ OrRestart
        /\ radio' \in IF PathsResolved /\ SavedTopologyValid THEN {radio, Released} ELSE {radio}
  /\ UNCHANGED <<world, backend, adapter, lock, plugins>>

\* Second half: the saved access point is activated and the bridge looked at.
ActivateAp ==
  /\ OpAt("activate")
  /\ \/ /\ Activated /\ ProfilesActive /\ hosting' = TRUE
        /\ To("leave") /\ UNCHANGED count
     \/ /\ FailsIf(~Callable \/ ~ProfilesActive) /\ OrRestart
        /\ radio' \in IF Callable THEN {radio, Hosting} ELSE {radio}
  /\ UNCHANGED <<world, backend, adapter, lock, plugins>>

\* _run_fixed_recovery_unit: NetworkManager starts anew.
Recovered == radio' \in {Released, Hosting}

\* _wait_for_topology_available
TopologyReturns == SavedTopologyValid /\ ProfilesActive

\* _restart_network_stack: the recovery service, a new D-Bus connection, and
\* the wait for the topology.
RestartNetworkStack ==
  /\ OpAt("restart") /\ Recovered
  /\ \/ /\ bus' = TRUE /\ TopologyReturns
        /\ op' = [op EXCEPT !.pc = "quiesce", !.restart = TRUE]
        /\ UNCHANGED <<hosting, count>>
     \/ /\ FailsIf(~TopologyReturns) /\ bus' \in BOOLEAN
        /\ To("leave") /\ hosting' = FALSE
  /\ UNCHANGED <<world, ready, scan, adapter, lock, plugins>>

\* __aexit__: the lock is released; _network is that of the restored access
\* point; an error of the session or of the restoration ends the discovery.
Leave ==
  /\ OpAt("leave") /\ lock' = FALSE
  /\ adapter' = [adapter EXCEPT !.network = @ \/ hosting]
  /\ op' = IF op.failed \/ ~hosting THEN Idle
           ELSE [op EXCEPT !.pc = "rejoin", !.known = @ \cup {op.device},
                           !.gone = FALSE, !.restart = FALSE]
  /\ UNCHANGED <<radio, world, backend, plugins, hosting, count>>

\* _wait_for_group_rejoin: the device is back, beside the others.
Rejoined == Answered /\ op.device \in Announced /\ Cardinality(Announced) > Cardinality(op.devices)

Rejoin ==
  /\ OpAt("rejoin") /\ Rejoined
  /\ op' = [op EXCEPT !.pc = Onward(Announced), !.devices = Announced]
  /\ UNCHANGED <<radio, world, backend, adapter, lock, plugins, hosting, count>>

\* Mutant: the deadline is set anew by every poll.
RejoinForever == FALSE /\ UNCHANGED wifiVars

\* The deadline passes, or a driver fails.
RejoinTimesOut ==
  /\ OpAt("rejoin") /\ FailsIf(~Rejoined) /\ op' = Idle
  /\ UNCHANGED <<radio, world, backend, adapter, lock, plugins, hosting>>

-----------------------------------------------------------------------------
(* Identities, drivers and connections *)

Least(S) == CHOOSE s \in S : \A t \in S : s <= t

\* _resolve_groups: the members in the order of the request; the first one's
\* driver is the primary_driver.
Primary(P) == Least(P)

\* _driver_for_identity: the sensor that has the address, the driver that had
\* it before, a member without a device, or the first member.
DriverFor(d, P, assigned) ==
  LET owners == {s \in P : sensor[s].address = d}
  IN CASE owners # {}                                                  -> Least(owners)
       [] owners = {} /\ drivers[d] # Unset                             -> drivers[d]
       [] owners = {} /\ drivers[d] = Unset /\ P \ assigned # {}        -> Least(P \ assigned)
       [] OTHER                                                        -> Primary(P)

\* _cache_discovered: the devices in order, each with its driver.
CacheDiscovered(devices, P) ==
  FoldLeft(LAMBDA f, d : [f EXCEPT ![d] = DriverFor(d, P, {f[e] : e \in Devices} \ {Unset})],
           NoDriver, Sorted(devices))

\* match_devices: the sensors in order take the devices in order.
Position(x, S) == Cardinality({y \in S : y < x})
Matched(P, candidates) ==
  [s \in P |-> CHOOSE d \in candidates : Position(d, candidates) = Position(s, P)]

\* validate_matched_devices
EnoughFor(P, candidates) == Cardinality(candidates) >= Cardinality(P)

\* create_transport_client: the address, and the handle with the driver of
\* the cache.  It raises once the adapter is shut down, after the address of
\* the first sensor was set.
Handed(P, match, f) ==
  [s \in Sensors |->
     CASE s \in P /\ Ready                  -> [FreshSensor EXCEPT !.address = match[s], !.handle = f[match[s]]]
       [] s \in P /\ ~Ready /\ s = Least(P) -> [sensor[s] EXCEPT !.address = match[s]]
       [] OTHER                             -> sensor[s]]

\* The end of discover_devices, and _discover_pending: too few devices are
\* searched for once more.
Assign ==
  /\ OpAt("cache")
  /\ LET P          == op.pending
         candidates == op.devices \ op.excluded
         f          == CacheDiscovered(op.devices, P)
     IN /\ drivers' = [d \in Devices |-> IF f[d] = Unset THEN drivers[d] ELSE f[d]]
        /\ IF EnoughFor(P, candidates)
           THEN op' = Idle /\ sensor' = Handed(P, Matched(P, candidates), f)
           ELSE /\ op' = IF op.attempt = 1 /\ Ready THEN [op EXCEPT !.pc = "groups", !.attempt = 2] ELSE Idle
                /\ UNCHANGED sensor
  /\ UNCHANGED <<radio, world, backend, adapter, lock, host, hosting, count>>

\* connect_sensor of a driver: its own host opens the connection.
Opened(h, d) == [host EXCEPT ![h] = d]

\* connect_to_device.  A timeout gives up the call, not the connection.
ConnectSensor(s) ==
  /\ op = Idle /\ Ready /\ sensor[s].handle # Unset /\ ~sensor[s].connected
  /\ LET h == sensor[s].handle
         d == sensor[s].address
     IN \/ /\ d \in Announced /\ UNCHANGED count
           /\ host' = Opened(h, d)
           /\ sensor' = [sensor EXCEPT ![s].connected = TRUE]
        \/ /\ FailsIf(d \notin Announced) /\ UNCHANGED sensor
           /\ host' \in {host} \cup (IF d \in Announced THEN {Opened(h, d)} ELSE {})
  /\ UNCHANGED <<radio, world, backend, adapter, lock, drivers, op, hosting>>

\* disconnect_sensor
DisconnectSensor(s) ==
  /\ op = Idle /\ Ready /\ sensor[s].connected
  /\ \/ Disconnects({s}) /\ UNCHANGED count
     \/ Faulty /\ UNCHANGED <<host, sensor>>
  /\ UNCHANGED <<radio, world, backend, adapter, lock, drivers, op, hosting>>

Discovering ==
  \/ DiscoverGroups \/ Enter \/ ChooseCandidate \/ ConnectTemporary \/ Identify \/ Provision
  \/ Cleanup \/ Quiesce \/ ActivateAp \/ RestartNetworkStack \/ Leave
  \/ Rejoin \/ RejoinTimesOut \/ Assign

WifiNext ==
  \/ \E d \in Devices : Move(d) \/ LateProvision(d)
  \/ ChangeTopology \/ Configure \/ Shutdown \/ Restart
  \/ \E P \in SUBSET Sensors : Discover(P)
  \/ Discovering
  \/ \E s \in Sensors : ConnectSensor(s) \/ DisconnectSensor(s)

\* The manager loop runs on: every await of a discovery has a timeout.
WifiSpec == WifiInit /\ [][WifiNext]_wifiVars
FairWifiSpec == WifiSpec /\ WF_wifiVars(Discovering)

-----------------------------------------------------------------------------
(* Properties *)

\* The types of the state; a handle comes with an address, and the radio has
\* joined a device only within a session.
WifiTypeOK ==
  /\ radio \in {Hosting, Released} \cup {Joined(d) : d \in Devices} /\ (radio.mode = "client" => lock)
  /\ place \in [Devices -> {"setup", "joined", "off"}] /\ late \subseteq Devices
  /\ topology \in {"up", "down", "changed"} /\ {bus, ready, lock, hosting} \subseteq BOOLEAN
  /\ scan \subseteq Devices /\ adapter \in [init: BOOLEAN, closing: BOOLEAN, network: BOOLEAN]
  /\ drivers \in [Devices -> Sensors \cup {Unset}]
  /\ sensor \in [Sensors -> [address: Devices \cup {Unset}, handle: Sensors \cup {Unset}, connected: BOOLEAN]]
  /\ \A s \in Sensors : sensor[s].handle # Unset => sensor[s].address # Unset
  /\ host \in [Sensors -> Devices \cup {Unset}]
  /\ lock <=> op.pc \in {"candidate", "join", "identify", "provision", "cleanup", "quiesce", "activate",
                         "restart", "leave"}

\* Whatever fails between the release of the radio and the end of a session,
\* also a shutdown in between, the radio hosts the sensor network again when
\* the lock is free, unless the restoration itself has failed and was
\* reported (begin_provisioning, __aenter__, __aexit__, restore_ap).
RadioRestored == (hosting /\ ~lock) => radio = Hosting

\* No two sensors are given the same device, however often they are searched
\* for, singly or together, connected or not (discover_all,
\* discover_for_subject, match_devices).
AddressesDistinct ==
  ~adapter.closing => \A s, t \in Sensors :
    (s # t /\ sensor[s].address # Unset) => sensor[s].address # sensor[t].address

\* A discovery ends, with the devices or with an error, whatever the devices,
\* the radio and the recovery service do (discover_devices).
DiscoveryEnds == (op # Idle) ~> (op = Idle)

\* A sensor that counts as connected is served by its own plugin instance,
\* which is connected to the sensor's device (_driver_for_identity).
ServedByOwnHost ==
  \A s \in Sensors : sensor[s].connected => host[s] = sensor[s].address
=============================================================================

---------------------------- MODULE TransportProofs ----------------------------
(***************************************************************************)
(* The two ways to a sensor.  The serial client of the BLE gateway, for    *)
(* any number of threads, sensors and requests: the types, that no owner   *)
(* mark and no registration outlives its call, and that a BLE reset and an *)
(* acquisition exclude each other.  The Wi-Fi network, for any number of   *)
(* sensors and devices: the radio is given back, and no device is given to *)
(* two sensors.                                                            *)
(***************************************************************************)
EXTENDS GatewayClient, WifiNetwork, QueueLemmas, FiniteSetTheorems, WellFoundedInduction, TLAPS

-----------------------------------------------------------------------------
(* The inductive invariant. *)

Calling   == {"idle", "send", "write", "wait"}
Admitted  == {"enlist", "resetwrite", "resetwait"}
Resetting == Admitted \cup {"admit"}
Greeting  == {"open", "hello", "hellowait"}
Reviving  == {"probe", "probewait", "reopen", "inventory", "inventorywait"}

\* The requests a thread has at each place: none before it asks for one, one when
\* it writes it, and none that the reader could still answer once the reset is
\* acknowledged.
RequestsOK(t) ==
  /\ thread[t].at \in {"idle", "send", "open", "admit", "enlist", "claim", "probe", "reopen", "inventory"}
       => thread[t].req = NoRequest
  /\ thread[t].at \in {"idle", "send"} \/ thread[t].bring = "retry" => thread[t].own = NoRequest
  /\ thread[t].at = "resetwrite" => thread[t].req # NoRequest
  /\ thread[t].at = "write" => thread[t].own # NoRequest
  /\ thread[t].call \notin {"reset", "recover"} /\ thread[t].bring \in {"cold", "recover"}
       => thread[t].own # NoRequest
  /\ thread[t].at = "hello" => thread[t].req \notin registered

\* What a thread at each place brings up, and what it owns there.
PlaceOK(t) ==
  /\ thread[t].at \in Calling => thread[t].bring = "none"
  /\ thread[t].at \in Resetting => thread[t].bring \in {"none", "cold"} /\ hasOpened
  /\ thread[t].at \in Greeting => thread[t].bring = "cold"
  /\ thread[t].at \in Reviving \cup {"claim"} => thread[t].bring \in {"recover", "retry"}
  /\ thread[t].at \in {"probewait", "inventory", "inventorywait"} => hasOpened
  /\ thread[t].at \in Admitted <=> resetOwner = t
  /\ (thread[t].bring = "cold" \/ thread[t].at \in Reviving) <=> startupOwner = t
  /\ thread[t].at = "resetwait" => Free(startupOwner, t)

Accounted == registered \subseteq UNION {Mine(t) : t \in Threads}

IInv ==
  /\ TypeOK /\ Accounted
  /\ started => hasOpened
  /\ \A t \in Threads : RequestsOK(t) /\ PlaceOK(t)

\* A thread that is going to ask for the admission of a reset.
Heading(t) ==
  \/ thread[t].bring = "cold" /\ thread[t].at \in {"open", "admit"}
  \/ thread[t].call = "reset" /\ thread[t].at \in Reviving \cup {"open", "admit", "claim"}

\* The ids of the messages of a queue.
IdsOf(q) == {e.id : e \in InFlight(q)}

\* Each of `ids` is on the queue at most once.
OnceEach(q, ids) == \A i, j \in DOMAIN q : q[i].id \in ids /\ q[j].id = q[i].id => i = j

\* The reset that the gateway has still to execute is the one that is unconfirmed:
\* its id is on the wire at most once, or has been answered.
WireOK ==
  /\ \A e \in InFlight(wire) : e.kind = "reset" => e.id \in pendingResetIds
  /\ pendingResetIds \cap IdsOf(wire) \cap IdsOf(replies) = {}
  /\ OnceEach(wire, pendingResetIds)
  /\ Hello \notin pendingResetIds

\* One thread's part in a reset: it heads for one only while none is unconfirmed,
\* from its admission on the only pending id is its own, and it has heard no
\* acknowledgement before it writes.
ResetOK(t) ==
  /\ thread[t].own \notin pendingResetIds
  /\ thread[t].call = "reset" => t \in Resetters /\ (thread[t].bring = "cold" \/ hasOpened)
  /\ Heading(t) => ~resetUnconfirmed
  /\ thread[t].at = "admit" => Heading(t)
  /\ thread[t].at \in {"send", "open", "admit", "enlist", "resetwrite"} => thread[t].said # "ok"
  /\ thread[t].at = "enlist" => resetUnconfirmed /\ pendingResetIds = {}
  /\ thread[t].at = "resetwrite" => /\ resetUnconfirmed /\ pendingResetIds = {thread[t].req}
                                    /\ thread[t].req \notin IdsOf(wire) \cup IdsOf(replies)
  /\ thread[t].at = "resetwait" => /\ pendingResetIds \subseteq {thread[t].req}
                                   /\ thread[t].said = "ok" => pendingResetIds \cap IdsOf(wire) = {}

ResetInv ==
  /\ pendingResetIds # {} => resetUnconfirmed
  /\ ~hasOpened => ~resetUnconfirmed
  /\ WireOK
  /\ \A t \in Threads : ResetOK(t)
  /\ \A t, u \in Threads : Heading(t) /\ Heading(u) => t = u

-----------------------------------------------------------------------------
(* Types *)

\* A non-empty set of naturals has a least element.
LEMMA LeastExists ==
  ASSUME NEW S, S \subseteq Nat, S # {}
  PROVE  \E i \in S : \A j \in S : i <= j
<1>1. \E i \in S : \A j \in S : ~(<<j, i>> \in OpToRel(<, Nat))
  BY NatLessThanWellFounded, WFMin
<1>2. ASSUME NEW i \in Nat, NEW j \in Nat, ~(<<j, i>> \in OpToRel(<, Nat)) PROVE i <= j
  BY <1>2 DEF OpToRel
<1>3. QED
  BY <1>1, <1>2

\* request_id(): the new id is one that nobody knows of.
LEMMA NewIdFresh ==
  ASSUME Fresh # {}
  PROVE  NewId \in 1..MaxRequests /\ NewId \in Ids /\ NewId \notin Known /\ NewId # Hello
<1>1. MaxRequests \in Nat
  BY GatewayAssumption
<1>2. Fresh \subseteq Nat /\ Fresh \subseteq 1..MaxRequests
  BY <1>1 DEF Fresh
<1>3. \E i \in Fresh : \A j \in Fresh : i <= j
  BY <1>2, LeastExists
<1>4. NewId \in Fresh
  BY <1>3 DEF NewId
<1>5. QED
  BY <1>1, <1>2, <1>4 DEF Fresh, Ids, Hello

Orders  == [kind : {"reset", "other"}, id : Ids]
Notices == [kind : {"reset", "other"}, id : Ids, says : {"ok", "error"}]

\* The types of everything but the threads.
SharedTypes ==
  /\ startupOwner \in Threads \cup {None} /\ resetOwner \in Threads \cup {None}
  /\ resetUnconfirmed \in BOOLEAN /\ pendingResetIds \subseteq Ids
  /\ scope \subseteq Addresses
  /\ started \in BOOLEAN /\ running \in BOOLEAN /\ hasOpened \in BOOLEAN
  /\ reader \in {"none", "alive", "stuck"}
  /\ registered \subseteq Ids
  /\ wire \in Seq(Orders) /\ replies \in Seq(Notices)
  /\ faults \in 0..MaxFaults

\* The steps of the calls, and those of everybody else.
CallsCommand(t) == \E c \in Commands, call \in {"command", "cleanup"} : CallCommand(t, c, call)
CallStep(t) == CallReset(t) \/ CallRecover(t) \/ CallsCommand(t) \/ ThreadStep(t)
OtherStep ==
  \/ \E S \in SUBSET Addresses, append \in BOOLEAN : SetScope(S, append)
  \/ Close \/ Route \/ ReadFails \/ ReaderStuck \/ ReaderReturns \/ Gateway \/ UNCHANGED vars

\* What a step does to the transport: it is closed, opened, lost to a failed
\* reader or port, left alone, or its reader is held up or goes on.
LEMMA TransportMoves ==
  ASSUME [Next]_vars
  PROVE  \/ UNCHANGED transport \/ CloseTransport \/ PortOpens
         \/ started' = FALSE /\ running' = FALSE /\ reader' = "none" /\ UNCHANGED hasOpened
         \/ UNCHANGED <<started, running, hasOpened>> /\ reader' \in {"none", "alive", "stuck"}
<1> DEFINE Moves == \/ UNCHANGED transport \/ CloseTransport \/ PortOpens
                    \/ started' = FALSE /\ running' = FALSE /\ reader' = "none" /\ UNCHANGED hasOpened
                    \/ UNCHANGED <<started, running, hasOpened>> /\ reader' \in {"none", "alive", "stuck"}
<1>1. ASSUME NEW t \in Threads, CallStep(t) PROVE Moves
  BY <1>1 DEF CallStep, transport, ThreadStep, Open, Admit, Enlist, ResetWrite, ResetWait, HelloWrite, HelloWait, Send, Write, Wait, Claim,
         Probe, ProbeWait, Reopen, Inventory, InventoryWait, CallReset, CallRecover,
         CallsCommand, CallCommand, admission, ResetRaises,
       TransportFailure
<1>2. CASE OtherStep
  BY <1>2 DEF OtherStep, SetScope, Close, Route, ReadFails, ReaderStuck, ReaderReturns, Gateway,
       vars, TransportFailure, transport
<1>3. QED
  BY <1>1, <1>2 DEF Next, CallStep, CallsCommand, OtherStep

\* What a step of a call does to the owner of the startup.
LEMMA OwnerMoves ==
  ASSUME NEW t \in Threads, CallStep(t)
  PROVE  startupOwner' \in {startupOwner, None, t} /\ resetOwner' \in {resetOwner, None, t}
<1>1. startupOwner' \in {startupOwner, None, t}
  BY DEF CallStep, ThreadStep, Open, Admit, Enlist, ResetWrite, ResetWait, HelloWrite, HelloWait, Send, Write, Wait, Claim,
         Probe, ProbeWait, Reopen, Inventory, InventoryWait, CallReset, CallRecover,
         CallsCommand, CallCommand, admission,
         Starts, Brought, ResetRaises, RecoveryRaises, RecoveryRaisesIn
<1>2. resetOwner' \in {resetOwner, None, t}
  BY DEF CallStep, ThreadStep, Open, Admit, Enlist, ResetWrite, ResetWait, HelloWrite, HelloWait, Send, Write, Wait, Claim,
         Probe, ProbeWait, Reopen, Inventory, InventoryWait, CallReset, CallRecover,
         CallsCommand, CallCommand, admission,
         ResetRaises
<1>3. QED
  BY <1>1, <1>2


\* What a step does to the ids: the registrations that a call adds, and the
\* commands it writes.
LEMMA RegistrationMoves ==
  ASSUME NEW t \in Threads, CallStep(t)
  PROVE  \/ registered' \subseteq registered
         \/ Fresh # {} /\ registered' = registered \cup {NewId}
         \/ HelloWrite(t) /\ registered' = registered \cup {Hello}
<1>1. Starts(t, [IdleThread EXCEPT !.call = "reset", !.at = "admit"], registered) => registered' \subseteq registered
  BY DEF Starts
<1>2. ASSUME NEW rec, Starts(t, rec, registered \cup {NewId})
      PROVE  registered' \in {registered, registered \cup {NewId}}
  BY <1>2 DEF Starts
<1>3. CASE Send(t)
  BY <1>2, <1>3 DEF Send
<1>4. CASE CallReset(t)
  BY <1>1, <1>4 DEF CallReset
<1>5. CASE HelloWrite(t)
  BY <1>5 DEF HelloWrite, Leaves
<1>6. CASE CallRecover(t) \/ CallsCommand(t) \/ Open(t) \/ Admit(t) \/ Enlist(t) \/ ResetWrite(t) \/ ResetWait(t) \/ HelloWait(t) \/ Write(t)
  BY <1>6 DEF CallRecover, CallsCommand, CallCommand, Open, Admit, Enlist, ResetWrite, ResetWait, HelloWait, Write, Leaves, Registers,
       TransportFailure, Brought
<1>7. CASE Wait(t) \/ Claim(t) \/ Probe(t) \/ ProbeWait(t) \/ Reopen(t) \/ Inventory(t) \/ InventoryWait(t)
  BY <1>7 DEF Wait, Claim, Probe, ProbeWait, Reopen, Inventory, InventoryWait, Leaves, Registers, TimesOut,
       Brought, RecoveryRaises, RecoveryRaisesIn, AsksInventory
<1>8. QED
  BY <1>3, <1>4, <1>5, <1>6, <1>7 DEF CallStep, ThreadStep

\* What a step of a call writes: one command, a reset only in send() of the reset.
LEMMA WireMoves ==
  ASSUME NEW t \in Threads, CallStep(t)
  PROVE  \/ wire' = wire
         \/ ResetWrite(t) /\ wire' = Append(wire, [kind |-> "reset", id |-> thread[t].req])
         \/ Write(t) /\ wire' = Append(wire, [kind |-> "other", id |-> thread[t].own])
         \/ HelloWrite(t) /\ wire' = Append(wire, [kind |-> "other", id |-> Hello])
         \/ Fresh # {} /\ wire' = Append(wire, [kind |-> "other", id |-> NewId])
BY DEF CallStep, ThreadStep, Open, Admit, Enlist, ResetWrite, ResetWait, HelloWrite, HelloWait, Send, Write, Wait,
         Claim, Probe, ProbeWait, Reopen, Inventory, InventoryWait, CallReset, CallRecover,
       CallsCommand, CallCommand, AsksInventory,
       Registers

\* A step of a call routes no reply; it may lose them with the port.
LEMMA ReplyMoves ==
  ASSUME NEW t \in Threads, CallStep(t)
  PROVE  replies' \in {replies, <<>>}
BY DEF CallStep, ThreadStep, Open, Admit, Enlist, ResetWrite, ResetWait, HelloWrite, HelloWait, Send, Write, Wait,
         Claim, Probe, ProbeWait, Reopen, Inventory, InventoryWait, CallReset, CallRecover,
       CallsCommand, CallCommand, ResetRaises,
       CloseTransport, TransportFailure

\* Every step keeps the types of the shared state.
LEMMA SharedStep == IInv /\ [Next]_vars => SharedTypes'
<1> SUFFICES ASSUME IInv, [Next]_vars PROVE SharedTypes'
  OBVIOUS
<1>i. TypeOK
  BY DEF IInv
<1>n. OtherStep \/ \E t \in Threads : CallStep(t)
  BY DEF Next, CallStep, CallsCommand, OtherStep
<1>1. startupOwner' \in Threads \cup {None} /\ resetOwner' \in Threads \cup {None}
  <2>1. startupOwner \in Threads \cup {None} /\ resetOwner \in Threads \cup {None}
    BY <1>i DEF TypeOK
  <2>2. CASE OtherStep
    BY <2>1, <2>2 DEF OtherStep, SetScope, Close, Route, ReadFails, ReaderStuck, ReaderReturns, Gateway, vars, admission
  <2>3. QED
    BY <1>n, <2>1, <2>2, OwnerMoves
<1>3. resetUnconfirmed' \in BOOLEAN /\ scope' \subseteq Addresses
  <2>1. resetUnconfirmed \in BOOLEAN /\ scope \subseteq Addresses
    BY <1>i DEF TypeOK
  <2>2. CASE OtherStep
    BY <2>1, <2>2 DEF OtherStep, SetScope, Close, Route, ReadFails, ReaderStuck, ReaderReturns, Gateway, vars, admission
  <2>3. ASSUME NEW t \in Threads, CallStep(t) PROVE resetUnconfirmed' \in BOOLEAN /\ scope' \subseteq Addresses
    BY <2>1, <2>3 DEF CallStep, admission, ThreadStep, Open, Admit, Enlist, ResetWrite, ResetWait, HelloWrite, HelloWait, Send, Write, Wait,
         Claim, Probe, ProbeWait, Reopen, Inventory, InventoryWait, CallReset, CallRecover,
         CallsCommand, CallCommand
  <2>4. QED
    BY <1>n, <2>2, <2>3
<1>4. pendingResetIds' \subseteq Ids
  <2>1. pendingResetIds \subseteq Ids
    BY <1>i DEF TypeOK
  <2>2. CASE OtherStep
    BY <2>1, <2>2 DEF OtherStep, SetScope, Close, Route, ReadFails, ReaderStuck, ReaderReturns, Gateway, vars, admission
  <2>3. ASSUME NEW t \in Threads, CallStep(t) PROVE pendingResetIds' \subseteq Ids
    <3>1. CASE Enlist(t)
      BY <2>1, <3>1, NewIdFresh DEF Enlist, Registers
    <3>2. CASE ~Enlist(t)
      BY <2>1, <2>3, <3>2 DEF CallStep, admission, ThreadStep, Open, Admit, ResetWrite, ResetWait, HelloWrite,
           HelloWait, Send, Write, Wait, Claim, Probe, ProbeWait, Reopen, Inventory, InventoryWait, CallReset,
           CallRecover, CallsCommand, CallCommand
    <3>3. QED
      BY <3>1, <3>2
  <2>4. QED
    BY <1>n, <2>2, <2>3
<1>5. /\ started' \in BOOLEAN /\ running' \in BOOLEAN /\ hasOpened' \in BOOLEAN
      /\ reader' \in {"none", "alive", "stuck"}
  BY <1>i, TransportMoves DEF TypeOK, transport, CloseTransport, PortOpens, Retires
<1>6. registered' \subseteq Ids
  <2>1. registered \subseteq Ids /\ Hello \in Ids
    BY <1>i, GatewayAssumption DEF TypeOK, Hello, Ids
  <2>2. CASE OtherStep
    BY <2>1, <2>2 DEF OtherStep, SetScope, Close, Route, ReadFails, ReaderStuck, ReaderReturns, Gateway, vars, admission, TransportFailure
  <2>3. QED
    BY <1>n, <2>1, <2>2, RegistrationMoves, NewIdFresh
<1>7. wire' \in Seq(Orders)
  <2>1. wire \in Seq(Orders)
    BY <1>i DEF TypeOK, Orders
  <2>2. CASE OtherStep
    <3>1. wire' = wire \/ (wire # <<>> /\ wire' = Tail(wire))
      BY <2>2 DEF OtherStep, SetScope, Close, Route, ReadFails, ReaderStuck, ReaderReturns, Gateway, vars, admission
    <3>2. QED
      BY <2>1, <3>1, TailInFlight
  <2>3. ASSUME NEW t \in Threads, CallStep(t) PROVE wire' \in Seq(Orders)
    <3>1. thread[t].req \in Ids \cup {NoRequest} /\ thread[t].own \in Ids \cup {NoRequest} /\ Hello \in Ids
      BY <1>i, GatewayAssumption DEF TypeOK, Thread, Hello, Ids
    <3>2. ResetWrite(t) => thread[t].req \in Ids
      BY <3>1 DEF IInv, RequestsOK, ResetWrite, At
    <3>3. Write(t) => thread[t].own \in Ids
      BY <3>1 DEF IInv, RequestsOK, Write, At
    <3>4. \A kind \in {"reset", "other"}, i \in Ids : [kind |-> kind, id |-> i] \in Orders
      BY DEF Orders
    <3>5. wire' = wire \/ \E o \in Orders : wire' = Append(wire, o)
      BY <2>3, <3>1, <3>2, <3>3, <3>4, WireMoves, NewIdFresh
    <3>6. QED
      BY <2>1, <3>5, AppendInFlight
  <2>4. QED
    BY <1>n, <2>2, <2>3
<1>8. replies' \in Seq(Notices)
  <2>1. replies \in Seq(Notices) /\ wire \in Seq(Orders)
    BY <1>i DEF TypeOK, Orders, Notices
  <2>2. <<>> \in Seq(Notices)
    BY EmptyInFlight
  <2>3. CASE Gateway
    <3>1. Head(wire) \in Orders
      BY <2>1, <2>3, TailInFlight DEF Gateway
    <3>2. replies' = replies \/ \E says \in {"ok", "error"} :
              replies' = Append(replies, [kind |-> Head(wire).kind, id |-> Head(wire).id, says |-> says])
      BY <2>3 DEF Gateway
    <3>3. ASSUME NEW says \in {"ok", "error"}
          PROVE  [kind |-> Head(wire).kind, id |-> Head(wire).id, says |-> says] \in Notices
      BY <3>1 DEF Orders, Notices
    <3>4. replies' = replies \/ \E o \in Notices : replies' = Append(replies, o)
      BY <3>2, <3>3
    <3>5. QED
      BY <2>1, <3>4, AppendInFlight
  <2>4. CASE Route
    BY <2>1, <2>4, TailInFlight DEF Route
  <2>5. CASE OtherStep
    <3>1. CASE replies' \in {replies, <<>>}
      BY <2>1, <2>2, <3>1
    <3>2. QED
      BY <2>3, <2>4, <2>5, <3>1 DEF OtherStep, SetScope, Close, ReadFails, ReaderStuck, ReaderReturns,
           vars, TransportFailure, CloseTransport
  <2>6. QED
    BY <1>n, <2>1, <2>2, <2>5, ReplyMoves
<1>12. faults' \in 0..MaxFaults
  <2>1. faults \in 0..MaxFaults /\ MaxFaults \in Nat
    BY <1>i, GatewayAssumption DEF TypeOK
  <2>2. CASE Fault
    BY <2>1, <2>2 DEF Fault
  <2>3. CASE OtherStep
    BY <2>1, <2>2, <2>3 DEF OtherStep, SetScope, Close, Route, ReadFails, ReaderStuck, ReaderReturns, Gateway, vars, admission
  <2>4. ASSUME NEW t \in Threads, CallStep(t) PROVE faults' = faults \/ Fault
    BY <2>4 DEF CallStep, ThreadStep, Open, Admit, Enlist, ResetWrite, ResetWait, HelloWrite, HelloWait, Send, Write, Wait,
         Claim, Probe, ProbeWait, Reopen, Inventory, InventoryWait, CallReset, CallRecover,
         CallsCommand, CallCommand
  <2>5. QED
    BY <1>n, <2>1, <2>2, <2>3, <2>4
<1>13. QED
  BY <1>1, <1>3, <1>4, <1>5, <1>6, <1>7, <1>8, <1>12 DEF SharedTypes

-----------------------------------------------------------------------------
(* Owners and registrations *)

\* A port that was opened once counts as opened for ever.
LEMMA OpenedStays ==
  ASSUME IInv, [Next]_vars
  PROVE  (hasOpened => hasOpened') /\ (started' => hasOpened')
<1>1. (started => hasOpened) /\ started \in BOOLEAN /\ hasOpened \in BOOLEAN
  BY DEF IInv, TypeOK
<1>2. CASE CloseTransport
  BY <1>1, <1>2 DEF CloseTransport
<1>3. CASE PortOpens
  BY <1>3 DEF PortOpens
<1>4. CASE UNCHANGED <<started, hasOpened>> \/ (started' = FALSE /\ UNCHANGED hasOpened)
  BY <1>1, <1>4
<1>5. QED
  BY <1>2, <1>3, <1>4, TransportMoves DEF transport

\* A call takes the startup only when nobody has it and nobody waits for a reset,
\* and gives back only its own.
LEMMA StartupMoves ==
  ASSUME IInv, NEW t \in Threads, CallStep(t)
  PROVE  \/ startupOwner' = startupOwner
         \/ startupOwner = t /\ startupOwner' = None
         \/ startupOwner = None /\ startupOwner' = t /\ (resetOwner = None \/ ~hasOpened)
<1> DEFINE Moves == \/ startupOwner' = startupOwner
                    \/ startupOwner = t /\ startupOwner' = None
                    \/ startupOwner = None /\ startupOwner' = t /\ (resetOwner = None \/ ~hasOpened)
<1>p. PlaceOK(t)
  BY DEF IInv
<1>1. CASE CallReset(t)
  BY <1>1 DEF CallReset, Starts
<1>2. CASE Send(t)
  BY <1>2 DEF Send, Starts
<1>3. CASE Claim(t)
  BY <1>3 DEF Claim, RecoveryRaises, RecoveryRaisesIn
<1>4. CASE Open(t) \/ Admit(t) \/ ResetWrite(t) \/ ResetWait(t)
  BY <1>4, <1>p DEF Open, Admit, ResetWrite, ResetWait, ResetRaises, At, PlaceOK, Resetting, Admitted, Greeting
<1>5. CASE HelloWrite(t) \/ HelloWait(t)
  BY <1>5, <1>p DEF HelloWrite, HelloWait, Brought, At, PlaceOK, Greeting
<1>6. CASE ProbeWait(t) \/ Reopen(t) \/ Inventory(t) \/ InventoryWait(t)
  BY <1>6, <1>p DEF ProbeWait, Reopen, Inventory, InventoryWait, Brought, RecoveryRaises, RecoveryRaisesIn, At,
       PlaceOK, Reviving
<1>7. CASE CallRecover(t) \/ CallsCommand(t) \/ Enlist(t) \/ Write(t) \/ Wait(t) \/ Probe(t)
  BY <1>7 DEF CallRecover, CallsCommand, CallCommand, Enlist, Write, Wait, Probe, admission
<1>8. QED
  BY <1>1, <1>2, <1>3, <1>4, <1>5, <1>6, <1>7 DEF CallStep, ThreadStep

\* Likewise the reset.
LEMMA ResetMoves ==
  ASSUME IInv, NEW t \in Threads, CallStep(t)
  PROVE  resetOwner' = resetOwner \/ {resetOwner, resetOwner'} \subseteq {t, None}
<1>p. PlaceOK(t)
  BY DEF IInv
<1>1. CASE Admit(t) \/ ResetWrite(t) \/ ResetWait(t)
  BY <1>1, <1>p DEF Admit, ResetWrite, ResetWait, ResetRaises, At, PlaceOK, Admitted
<1>2. CASE ~(Admit(t) \/ ResetWrite(t) \/ ResetWait(t))
  BY <1>2 DEF CallStep, ThreadStep, CallReset, CallRecover, CallsCommand, CallCommand, Open, Enlist, HelloWrite, HelloWait, Send, Write, Wait,
       Claim, Probe, ProbeWait, Reopen, Inventory, InventoryWait, admission
<1>3. QED
  BY <1>1, <1>2

\* What a step of t means for another thread.
LEMMA OthersKept ==
  ASSUME IInv, [Next]_vars, NEW t \in Threads, CallStep(t), NEW u \in Threads, u # t,
         thread'[u].at = thread[u].at, thread'[u].bring = thread[u].bring, thread'[u].call = thread[u].call,
         thread'[u].req = thread[u].req, thread'[u].own = thread[u].own
  PROVE  RequestsOK(u)' /\ PlaceOK(u)'
<1>1. RequestsOK(u) /\ PlaceOK(u) /\ PlaceOK(t)
  BY DEF IInv
<1>2. None \notin Threads
  BY GatewayAssumption
<1>3. (startupOwner' = u <=> startupOwner = u) /\ (resetOwner' = u <=> resetOwner = u)
  BY <1>2, StartupMoves, ResetMoves
<1>4. thread[u].at = "hello" => thread[u].req \notin registered'
  <2>1. thread[u].at = "hello" => thread[u].req \notin registered /\ startupOwner = u
    BY <1>1 DEF RequestsOK, PlaceOK, Greeting
  <2>2. CASE HelloWrite(t)
    <3>1. startupOwner = t
      BY <1>1, <2>2 DEF HelloWrite, At, PlaceOK, Greeting
    <3>2. QED
      BY <2>1, <3>1
  <2>3. Fresh # {} => thread[u].req # NewId
    BY NewIdFresh DEF Known, Mine
  <2>4. CASE ~HelloWrite(t)
    BY <2>1, <2>3, <2>4, RegistrationMoves
  <2>5. QED
    BY <2>2, <2>4
<1>5. thread[u].at = "resetwait" => Free(startupOwner', u)
  <2>1. thread[u].at = "resetwait" => Free(startupOwner, u) /\ resetOwner = u /\ hasOpened
    BY <1>1 DEF PlaceOK, Admitted, Resetting
  <2>2. QED
    BY <1>2, <2>1, StartupMoves DEF Free
<1>6. RequestsOK(u)'
  BY <1>1, <1>4 DEF RequestsOK
<1>7. PlaceOK(u)'
  <2>1. hasOpened => hasOpened'
    BY OpenedStays
  <2>2. QED
    BY <1>1, <1>3, <1>5, <2>1 DEF PlaceOK
<1>8. QED
  BY <1>6, <1>7

\* A thread between two calls.
LEMMA IdleIsThread == IdleThread \in Thread
BY DEF IdleThread, Thread, Calls, Places, Answers

\* What the reader's messages leave alone in a thread.
SameButSaid(u) ==
  /\ thread'[u].at = thread[u].at /\ thread'[u].bring = thread[u].bring /\ thread'[u].call = thread[u].call
  /\ thread'[u].req = thread[u].req /\ thread'[u].own = thread[u].own

\* A step of a call is safe if it leaves its own thread in order.
LEMMA CallKeeps ==
  ASSUME IInv, [Next]_vars, NEW t \in Threads, CallStep(t), thread' \in [Threads -> Thread],
         \A u \in Threads : u # t => SameButSaid(u),
         registered' \cap Mine(t) \subseteq Mine(t)',
         registered' \subseteq registered \cup Mine(t)',
         RequestsOK(t)', PlaceOK(t)'
  PROVE  IInv'
<1>1. TypeOK'
  BY SharedStep DEF TypeOK, SharedTypes, Orders, Notices
<1>2. ASSUME NEW u \in Threads PROVE RequestsOK(u)' /\ PlaceOK(u)'
  BY OthersKept DEF SameButSaid
<1>3. Accounted'
  <2>1. ASSUME NEW x \in registered', x \notin Mine(t)' PROVE \E u \in Threads : x \in Mine(u)'
    <3>1. PICK u \in Threads : x \in Mine(u)
      BY <2>1 DEF IInv, Accounted
    <3>2. u # t
      BY <2>1, <3>1
    <3>3. Mine(u)' = Mine(u)
      BY <3>2 DEF Mine, SameButSaid
    <3>4. QED
      BY <3>1, <3>3
  <2>2. QED
    BY <2>1 DEF Accounted
<1>4. QED
  BY <1>1, <1>2, <1>3, OpenedStays DEF IInv

\* A step that gives the thread a new record is safe if that record is in order.
LEMMA MoveKeeps ==
  ASSUME IInv, [Next]_vars, NEW t \in Threads, CallStep(t), NEW rec \in Thread,
         thread' = [thread EXCEPT ![t] = rec],
         registered' \cap Mine(t) \subseteq {rec.own, rec.req},
         registered' \subseteq registered \cup {rec.own, rec.req},
         RequestsOK(t)', PlaceOK(t)'
  PROVE  IInv'
<1>1. thread \in [Threads -> Thread] /\ thread' \in [Threads -> Thread] /\ thread'[t] = rec
  BY DEF IInv, TypeOK
<1>2. \A u \in Threads : u # t => SameButSaid(u)
  BY <1>1 DEF SameButSaid
<1>3. Mine(t)' = {rec.own, rec.req}
  BY <1>1 DEF Mine
<1>4. QED
  BY <1>1, <1>2, <1>3, CallKeeps

\* A call that ends with its registrations and its owner marks is safe.
LEMMA LeaveKeeps ==
  ASSUME IInv, [Next]_vars, NEW t \in Threads, CallStep(t),
         thread' = [thread EXCEPT ![t] = IdleThread],
         registered' \subseteq registered, registered' \cap Mine(t) \subseteq {NoRequest},
         startupOwner' # t, resetOwner' # t
  PROVE  IInv'
<1>2. thread'[t] = IdleThread
  BY DEF IInv, TypeOK
<1>3. IdleThread.at = "idle" /\ IdleThread.bring = "none" /\ IdleThread.req = NoRequest /\ IdleThread.own = NoRequest
  BY DEF IdleThread
<1>4. RequestsOK(t)'
  BY <1>2, <1>3 DEF RequestsOK
<1>5. PlaceOK(t)'
  BY <1>2, <1>3 DEF PlaceOK, Calling, Resetting, Admitted, Greeting, Reviving
<1>6. QED
  BY <1>3, <1>4, <1>5, IdleIsThread, MoveKeeps

\* A call whose second attempt begins with a recovery of the port is safe.
LEMMA RetryKeeps ==
  ASSUME IInv, [Next]_vars, NEW t \in Threads, CallStep(t),
         thread' = [thread EXCEPT ![t] = Retry(t)],
         registered' \subseteq registered, registered' \cap Mine(t) \subseteq {NoRequest},
         startupOwner' # t, resetOwner' # t
  PROVE  IInv'
<1>1. CASE ~Retries(t)
  BY <1>1, LeaveKeeps DEF Retry
<1>2. CASE Retries(t)
  <2> DEFINE rec == [IdleThread EXCEPT !.call = thread[t].call, !.cmd = thread[t].cmd, !.tried = TRUE,
                                       !.bring = "retry", !.at = "claim"]
  <2>1. thread[t] \in Thread /\ thread' = [thread EXCEPT ![t] = rec]
    BY <1>2 DEF IInv, TypeOK, Retry
  <2>2. rec \in Thread
    <3>1. thread[t].call \in Calls /\ thread[t].cmd \in Commands \cup {NoCommand}
      BY <2>1 DEF Thread
    <3>2. QED
      BY <3>1, IdleIsThread DEF Thread, Places
  <2>3. rec.at = "claim" /\ rec.bring = "retry" /\ rec.req = NoRequest /\ rec.own = NoRequest
    BY DEF IdleThread
  <2> HIDE DEF rec
  <2>4. thread'[t] = rec
    BY <2>1 DEF IInv, TypeOK
  <2>5. RequestsOK(t)'
    BY <2>3, <2>4 DEF RequestsOK
  <2>6. PlaceOK(t)'
    BY <2>3, <2>4 DEF PlaceOK, Calling, Resetting, Admitted, Greeting, Reviving
  <2>7. QED
    BY <2>1, <2>2, <2>3, <2>5, <2>6, MoveKeeps
<1>3. QED
  BY <1>1, <1>2

\* What is known of the thread that steps.
LEMMA Stepping ==
  ASSUME IInv, NEW t \in Threads
  PROVE  /\ thread \in [Threads -> Thread] /\ thread[t] \in Thread /\ RequestsOK(t) /\ PlaceOK(t)
         /\ None \notin Threads /\ t # None
BY GatewayAssumption DEF IInv, TypeOK

\* start(): a first start, a refusal or a recovery of the port.
LEMMA StartsKeeps ==
  ASSUME IInv, [Next]_vars, NEW t \in Threads, CallStep(t), NEW rec \in Thread, NEW ids,
         Starts(t, rec, ids), startupOwner = None, resetOwner' = resetOwner, hasOpened' = hasOpened,
         thread[t].at \in {"idle", "send"}, rec.req = NoRequest,
         rec.call \in {"reset", "recover"} \/ rec.own # NoRequest,
         ids \subseteq registered \cup {rec.own}
  PROVE  IInv'
<1>1. /\ thread \in [Threads -> Thread] /\ Mine(t) = {NoRequest} /\ resetOwner # t /\ t # None
      /\ registered \subseteq Ids /\ NoRequest \notin Ids
  <2>1. thread \in [Threads -> Thread] /\ t # None /\ RequestsOK(t) /\ PlaceOK(t)
    BY Stepping
  <2>2. Mine(t) = {NoRequest}
    BY <2>1 DEF RequestsOK, Mine
  <2>3. resetOwner # t
    BY <2>1 DEF PlaceOK, Admitted
  <2>4. registered \subseteq Ids
    BY DEF IInv, TypeOK
  <2>5. NoRequest \notin Ids
    BY DEF NoRequest, Ids
  <2>6. QED
    BY <2>1, <2>2, <2>3, <2>4, <2>5
<1>2. CASE startupOwner' = t /\ Set(t, [rec EXCEPT !.bring = "cold", !.at = "open"]) /\ registered' = ids
  <2> DEFINE new == [rec EXCEPT !.bring = "cold", !.at = "open"]
  <2>1. new \in Thread
    BY DEF Thread, Places
  <2>2. new.at = "open" /\ new.bring = "cold" /\ new.call = rec.call /\ new.req = rec.req /\ new.own = rec.own
    BY DEF Thread
  <2>3. thread' = [thread EXCEPT ![t] = new]
    BY <1>2 DEF Set
  <2> HIDE DEF new
  <2>4. thread'[t] = new
    BY <1>1, <2>3
  <2>5. RequestsOK(t)'
    BY <2>2, <2>4 DEF RequestsOK
  <2>6. PlaceOK(t)'
    BY <1>1, <1>2, <2>2, <2>4 DEF PlaceOK, Calling, Resetting, Admitted, Greeting, Reviving
  <2>7. registered' \cap Mine(t) \subseteq {new.own, new.req} /\ registered' \subseteq registered \cup {new.own, new.req}
    BY <1>1, <1>2, <2>2
  <2>8. QED
    BY <2>1, <2>3, <2>5, <2>6, <2>7, MoveKeeps
<1>3. CASE Set(t, IdleThread) /\ registered' = registered /\ UNCHANGED startupOwner
  BY <1>1, <1>3, LeaveKeeps DEF Set
<1>4. CASE /\ hasOpened /\ Set(t, [rec EXCEPT !.bring = "recover", !.at = "claim"]) /\ registered' = ids
           /\ UNCHANGED startupOwner
  <2> DEFINE new == [rec EXCEPT !.bring = "recover", !.at = "claim"]
  <2>1. new \in Thread
    BY DEF Thread, Places
  <2>2. new.at = "claim" /\ new.bring = "recover" /\ new.call = rec.call /\ new.req = rec.req /\ new.own = rec.own
    BY DEF Thread
  <2>3. thread' = [thread EXCEPT ![t] = new]
    BY <1>4 DEF Set
  <2> HIDE DEF new
  <2>4. thread'[t] = new
    BY <1>1, <2>3
  <2>5. RequestsOK(t)'
    BY <2>2, <2>4 DEF RequestsOK
  <2>6. PlaceOK(t)'
    BY <1>1, <1>4, <2>2, <2>4 DEF PlaceOK, Calling, Resetting, Admitted, Greeting, Reviving
  <2>7. registered' \cap Mine(t) \subseteq {new.own, new.req} /\ registered' \subseteq registered \cup {new.own, new.req}
    BY <1>1, <1>4, <2>2
  <2>8. QED
    BY <2>1, <2>3, <2>5, <2>6, <2>7, MoveKeeps
<1>5. QED
  BY <1>2, <1>3, <1>4 DEF Starts

\* A step that only moves the thread on.
LEMMA GotoKeeps ==
  ASSUME IInv, [Next]_vars, NEW t \in Threads, CallStep(t), NEW p \in Places, Goto(t, p),
         registered' \subseteq registered, RequestsOK(t)', PlaceOK(t)'
  PROVE  IInv'
<1>1. thread[t] \in Thread
  BY Stepping
<1>2. [thread[t] EXCEPT !.at = p] \in Thread
  BY <1>1 DEF Thread
<1>3. [thread[t] EXCEPT !.at = p].own = thread[t].own /\ [thread[t] EXCEPT !.at = p].req = thread[t].req
  BY <1>1 DEF Thread
<1>4. QED
  BY <1>2, <1>3, MoveKeeps DEF Goto, Set, Mine

\* What a thread that only moves on keeps.
LEMMA GotoFields ==
  ASSUME IInv, NEW t \in Threads, NEW p \in Places, Goto(t, p)
  PROVE  /\ thread'[t].at = p /\ thread'[t].bring = thread[t].bring /\ thread'[t].call = thread[t].call
         /\ thread'[t].req = thread[t].req /\ thread'[t].own = thread[t].own /\ thread'[t].said = thread[t].said
BY Stepping DEF Goto, Set, Thread

\* The transport is up: the call ends, or goes on where it had to wait.
LEMMA BroughtKeeps ==
  ASSUME IInv, [Next]_vars, NEW t \in Threads, CallStep(t), Brought(t), resetOwner' = resetOwner,
         thread[t].at \in {"hellowait", "probewait", "inventorywait"}
  PROVE  IInv'
<1>1. /\ thread \in [Threads -> Thread] /\ thread[t] \in Thread /\ RequestsOK(t) /\ PlaceOK(t) /\ t # None
  BY Stepping
<1>2. resetOwner # t /\ startupOwner' # t /\ (hasOpened => hasOpened')
  BY <1>1, OpenedStays DEF PlaceOK, Admitted, Brought
<1>3. CASE Resumes(t) = "idle"
  BY <1>2, <1>3, LeaveKeeps DEF Brought, Leaves, Set
<1>4. CASE Resumes(t) # "idle"
  <2> DEFINE new == [thread[t] EXCEPT !.at = Resumes(t), !.bring = "none", !.req = NoRequest, !.said = "none"]
  <2>1. thread' = [thread EXCEPT ![t] = new] /\ registered' = registered \ {thread[t].req}
    BY <1>4 DEF Brought, Set
  <2>2. \/ Resumes(t) = "admit" /\ thread[t].call = "reset" /\ thread[t].bring # "cold"
        \/ Resumes(t) = "send" /\ thread[t].call \notin {"reset", "recover"} /\ thread[t].bring = "retry"
        \/ Resumes(t) = "write" /\ thread[t].call \notin {"reset", "recover"} /\ thread[t].bring # "retry"
    <3>1. CASE thread[t].call = "recover"
      BY <1>4, <3>1 DEF Resumes
    <3>2. CASE thread[t].call = "reset"
      BY <1>4, <3>2 DEF Resumes
    <3>3. CASE thread[t].call \notin {"recover", "reset"}
      BY <3>3 DEF Resumes
    <3>4. QED
      BY <3>1, <3>2, <3>3
  <2>3. Resumes(t) \in Places
    BY <2>2 DEF Places
  <2>4. new \in Thread
    BY <1>1, <2>3 DEF Thread, Answers
  <2>5. new.at = Resumes(t) /\ new.bring = "none" /\ new.req = NoRequest /\ new.own = thread[t].own
    BY <1>1 DEF Thread
  <2> HIDE DEF new
  <2>6. thread'[t] = new
    BY <1>1, <2>1
  <2>7. RequestsOK(t)'
    <3>1. Resumes(t) = "send" => thread[t].own = NoRequest
      BY <1>1, <2>2 DEF RequestsOK
    <3>2. Resumes(t) = "write" => thread[t].own # NoRequest
      <4>1. thread[t].bring \in {"cold", "recover", "retry"}
        BY <1>1 DEF PlaceOK, Greeting, Reviving
      <4>2. QED
        BY <1>1, <2>2, <4>1 DEF RequestsOK
    <3>3. QED
      BY <2>2, <2>5, <2>6, <3>1, <3>2 DEF RequestsOK
  <2>8. PlaceOK(t)'
    <3>1. Resumes(t) = "admit" => hasOpened'
      BY <1>1, <1>2, <2>2 DEF PlaceOK, Greeting
    <3>2. QED
      BY <1>2, <2>2, <2>5, <2>6, <3>1 DEF PlaceOK, Calling, Resetting, Admitted, Greeting, Reviving
  <2>9. QED
    BY <2>1, <2>4, <2>5, <2>7, <2>8, MoveKeeps DEF Mine
<1>5. QED
  BY <1>3, <1>4

\* A recovery that fails ends the call, or its attempt.
LEMMA RaisesKeeps ==
  ASSUME IInv, [Next]_vars, NEW t \in Threads, CallStep(t), RecoveryRaises(t), resetOwner' = resetOwner,
         thread[t].at \in Reviving \cup {"claim"}
  PROVE  IInv'
<1>1. PlaceOK(t) /\ t # None
  BY Stepping
<1>2. resetOwner' # t /\ startupOwner' # t
  BY <1>1 DEF PlaceOK, Admitted, Reviving, RecoveryRaises, RecoveryRaisesIn
<1>3. registered' = registered \ Mine(t)
  BY DEF RecoveryRaises, RecoveryRaisesIn
<1>4. CASE thread' = [thread EXCEPT ![t] = IdleThread]
  BY <1>2, <1>3, <1>4, LeaveKeeps
<1>5. CASE thread' = [thread EXCEPT ![t] = Retry(t)]
  BY <1>2, <1>3, <1>5, RetryKeeps
<1>6. QED
  BY <1>4, <1>5 DEF RecoveryRaises, RecoveryRaisesIn

\* The calls.
LEMMA CallsKeep ==
  ASSUME IInv, [Next]_vars, NEW t \in Threads, CallReset(t) \/ CallRecover(t) \/ CallsCommand(t)
  PROVE  IInv'
<1>s. CallStep(t)
  BY DEF CallStep
<1>1. /\ thread \in [Threads -> Thread] /\ thread[t] \in Thread /\ RequestsOK(t) /\ PlaceOK(t) /\ t # None
      /\ thread[t].at = "idle"
  BY Stepping DEF CallReset, CallRecover, CallsCommand, CallCommand, At
<1>2. resetOwner # t /\ startupOwner # t /\ Mine(t) = {NoRequest} /\ registered \subseteq Ids /\ NoRequest \notin Ids
  BY <1>1 DEF RequestsOK, PlaceOK, Calling, Admitted, Reviving, Mine, IInv, TypeOK, NoRequest, Ids
<1>3. UNCHANGED <<resetOwner, hasOpened>>
  BY DEF CallReset, CallRecover, CallsCommand, CallCommand, admission, transport
<1>4. CASE CallReset(t)
  <2> DEFINE rec == [IdleThread EXCEPT !.call = "reset", !.at = "admit"]
  <2>1. rec \in Thread
    BY IdleIsThread DEF Thread, Calls, Places
  <2>2. rec.call = "reset" /\ rec.at = "admit" /\ rec.bring = "none" /\ rec.req = NoRequest /\ rec.own = NoRequest
    BY DEF IdleThread
  <2>3. startupOwner = None
    BY <1>4 DEF CallReset
  <2>4. CASE Starts(t, rec, registered)
    <3> HIDE DEF rec
    <3>1. QED
      BY <1>s, <1>1, <1>3, <2>1, <2>2, <2>3, <2>4, StartsKeeps
  <2>5. CASE started /\ Set(t, rec) /\ UNCHANGED <<startupOwner, registered>>
    <3> HIDE DEF rec
    <3>1. thread'[t] = rec /\ thread' = [thread EXCEPT ![t] = rec]
      BY <1>1, <2>5 DEF Set
    <3>2. RequestsOK(t)'
      BY <2>2, <3>1 DEF RequestsOK
    <3>3. hasOpened'
      BY <1>3, <2>5 DEF IInv
    <3>4. PlaceOK(t)'
      BY <1>2, <1>3, <2>2, <2>5, <3>1, <3>3 DEF PlaceOK, Calling, Resetting, Admitted, Greeting, Reviving
    <3>5. QED
      BY <1>s, <1>2, <2>1, <2>2, <2>5, <3>1, <3>2, <3>4, MoveKeeps
  <2>6. QED
    BY <1>4, <2>4, <2>5 DEF CallReset
<1>5. CASE CallRecover(t)
  <2> DEFINE rec == [IdleThread EXCEPT !.call = "recover", !.bring = "recover", !.at = "claim"]
  <2>1. rec \in Thread
    BY IdleIsThread DEF Thread, Calls, Places
  <2>2. rec.call = "recover" /\ rec.at = "claim" /\ rec.bring = "recover" /\ rec.req = NoRequest /\ rec.own = NoRequest
    BY DEF IdleThread
  <2>3. Set(t, rec) /\ UNCHANGED <<startupOwner, registered>>
    BY <1>5 DEF CallRecover, admission
  <2> HIDE DEF rec
  <2>4. thread'[t] = rec /\ thread' = [thread EXCEPT ![t] = rec]
    BY <1>1, <2>3 DEF Set
  <2>5. RequestsOK(t)'
    BY <2>2, <2>4 DEF RequestsOK
  <2>6. PlaceOK(t)'
    BY <1>2, <1>3, <2>2, <2>3, <2>4 DEF PlaceOK, Calling, Resetting, Admitted, Greeting, Reviving
  <2>7. QED
    BY <1>s, <1>2, <2>1, <2>2, <2>3, <2>4, <2>5, <2>6, MoveKeeps
<1>6. CASE CallsCommand(t)
  <2> PICK c \in Commands, call \in {"command", "cleanup"} : CallCommand(t, c, call)
    BY <1>6 DEF CallsCommand
  <2> DEFINE rec == [IdleThread EXCEPT !.call = call, !.at = "send", !.cmd = c]
  <2>1. rec \in Thread
    BY IdleIsThread DEF Thread, Calls, Places
  <2>2. rec.call = call /\ rec.at = "send" /\ rec.bring = "none" /\ rec.req = NoRequest /\ rec.own = NoRequest
    BY DEF IdleThread
  <2>3. Set(t, rec) /\ UNCHANGED <<startupOwner, registered>>
    BY DEF CallCommand, admission
  <2> HIDE DEF rec
  <2>4. thread'[t] = rec /\ thread' = [thread EXCEPT ![t] = rec]
    BY <1>1, <2>3 DEF Set
  <2>5. RequestsOK(t)'
    BY <2>2, <2>4 DEF RequestsOK
  <2>6. PlaceOK(t)'
    BY <1>2, <1>3, <2>2, <2>3, <2>4 DEF PlaceOK, Calling, Resetting, Admitted, Greeting, Reviving
  <2>7. QED
    BY <1>s, <1>2, <2>1, <2>2, <2>3, <2>4, <2>5, <2>6, MoveKeeps
<1>7. QED
  BY <1>4, <1>5, <1>6

\* The cold start and the reset.
LEMMA OpenKeeps ==
  ASSUME IInv, [Next]_vars, NEW t \in Threads, Open(t)
  PROVE  IInv'
<1>s. CallStep(t)
  BY DEF CallStep, ThreadStep
<1>1. RequestsOK(t) /\ PlaceOK(t) /\ t # None /\ thread[t].at = "open"
  BY Stepping DEF Open, At
<1>2. resetOwner' # t
  BY <1>1 DEF Open, PlaceOK, Admitted
<1>3. CASE PortOpens /\ Goto(t, "admit") /\ UNCHANGED <<startupOwner, registered>>
  <2>1. "admit" \in Places
    BY DEF Places
  <2>2. /\ thread'[t].at = "admit" /\ thread'[t].bring = thread[t].bring /\ thread'[t].call = thread[t].call
        /\ thread'[t].req = thread[t].req /\ thread'[t].own = thread[t].own
    BY <1>3, <2>1, GotoFields
  <2>3. RequestsOK(t)'
    BY <1>1, <2>2 DEF RequestsOK
  <2>4. PlaceOK(t)'
    BY <1>1, <1>2, <1>3, <2>2 DEF PlaceOK, PortOpens, Calling, Resetting, Admitted, Greeting, Reviving
  <2>5. QED
    BY <1>s, <1>3, <2>1, <2>3, <2>4, GotoKeeps
<1>4. CASE startupOwner' = None /\ Leaves(t)
  BY <1>s, <1>1, <1>2, <1>4, LeaveKeeps DEF Leaves, Set
<1>5. QED
  BY <1>3, <1>4 DEF Open

\* Where a reset raises, its owner marks are gone.
LEMMA ResetRaisesKeeps ==
  ASSUME IInv, [Next]_vars, NEW t \in Threads, CallStep(t), ResetRaises(t), registered' = registered \ Mine(t),
         thread[t].at \in Resetting
  PROVE  IInv'
<1>1. PlaceOK(t) /\ t # None
  BY Stepping
<1>2. resetOwner' # t
  BY <1>1 DEF ResetRaises
<1>3. startupOwner' # t
  BY <1>1 DEF ResetRaises, PlaceOK, Resetting, Admitted, Reviving
<1>4. QED
  BY <1>2, <1>3, LeaveKeeps DEF ResetRaises, Set

\* The admission takes _reset_owner, or the call raises.
LEMMA AdmitKeeps ==
  ASSUME IInv, [Next]_vars, NEW t \in Threads, Admit(t)
  PROVE  IInv'
<1>s. CallStep(t)
  BY DEF CallStep, ThreadStep
<1>1. RequestsOK(t) /\ PlaceOK(t) /\ t # None /\ thread[t].at = "admit"
  BY Stepping DEF Admit, At
<1>2. CASE ResetRaises(t) /\ registered' = registered \ Mine(t)
  BY <1>s, <1>1, <1>2, ResetRaisesKeeps DEF Resetting
<1>3. CASE resetOwner' = t /\ Goto(t, "enlist") /\ UNCHANGED <<startupOwner, transport, registered>>
  <2>1. "enlist" \in Places
    BY DEF Places
  <2>2. /\ thread'[t].at = "enlist" /\ thread'[t].bring = thread[t].bring /\ thread'[t].call = thread[t].call
        /\ thread'[t].req = thread[t].req /\ thread'[t].own = thread[t].own
    BY <1>3, <2>1, GotoFields
  <2>3. RequestsOK(t)'
    BY <1>1, <2>2 DEF RequestsOK
  <2>4. PlaceOK(t)'
    BY <1>1, <1>3, <2>2 DEF PlaceOK, transport, Calling, Resetting, Admitted, Greeting, Reviving
  <2>5. QED
    BY <1>s, <1>3, <2>1, <2>3, <2>4, GotoKeeps
<1>4. QED
  BY <1>2, <1>3 DEF Admit

\* A thread asks for a request of its own and moves on.
LEMMA AskKeeps ==
  ASSUME IInv, [Next]_vars, NEW t \in Threads, CallStep(t), NEW rec \in Thread, thread' = [thread EXCEPT ![t] = rec],
         rec.bring = thread[t].bring, rec.call = thread[t].call, rec.own = thread[t].own, rec.req \in Ids,
         thread[t].req \notin registered', registered' \subseteq registered \cup {rec.req},
         startupOwner' = startupOwner, resetOwner' = resetOwner,
         \/ thread[t].at = "enlist" /\ rec.at = "resetwrite"
         \/ thread[t].at = "hello" /\ rec.at = "hellowait"
         \/ thread[t].at \in {"probe", "inventory"} /\ rec.at \in {"probewait", "inventorywait"} /\ hasOpened
  PROVE  IInv'
<1>1. thread \in [Threads -> Thread] /\ thread[t] \in Thread /\ RequestsOK(t) /\ PlaceOK(t) /\ t # None
  BY Stepping
<1>2. thread'[t] = rec
  BY <1>1
<1>3. RequestsOK(t)'
  <2>1. rec.req # NoRequest
    BY DEF Ids, NoRequest
  <2>2. QED
    BY <1>1, <1>2, <2>1 DEF RequestsOK
<1>4. PlaceOK(t)'
  <2>1. hasOpened => hasOpened'
    BY OpenedStays
  <2>2. QED
    BY <1>1, <1>2, <2>1 DEF PlaceOK, Calling, Resetting, Admitted, Greeting, Reviving
<1>5. QED
  BY <1>3, <1>4, MoveKeeps DEF Mine

\* The request id of the reset is registered with its thread.
LEMMA EnlistKeeps ==
  ASSUME IInv, [Next]_vars, NEW t \in Threads, Enlist(t)
  PROVE  IInv'
<1>s. CallStep(t)
  BY DEF CallStep, ThreadStep
<1>1. /\ thread[t] \in Thread /\ thread[t].req = NoRequest /\ thread[t].at = "enlist" /\ registered \subseteq Ids
      /\ NoRequest \notin Ids
  <2>1. RequestsOK(t) /\ thread[t].at = "enlist" /\ thread[t] \in Thread
    BY Stepping DEF Enlist, At
  <2>2. registered \subseteq Ids
    BY DEF IInv, TypeOK
  <2>3. QED
    BY <2>1, <2>2 DEF RequestsOK, NoRequest, Ids
<1>2. NewId \in Ids /\ registered' = registered \cup {NewId}
  BY NewIdFresh DEF Enlist, Registers
<1> DEFINE rec == [thread[t] EXCEPT !.at = "resetwrite", !.req = NewId]
<1>3. rec \in Thread
  BY <1>1, <1>2 DEF Thread, Places
<1>4. rec.at = "resetwrite" /\ rec.bring = thread[t].bring /\ rec.call = thread[t].call /\ rec.req = NewId
      /\ rec.own = thread[t].own
  BY <1>1 DEF Thread
<1>5. thread' = [thread EXCEPT ![t] = rec] /\ UNCHANGED <<startupOwner, resetOwner>>
  BY DEF Enlist, Set
<1> HIDE DEF rec
<1>6. QED
  BY <1>s, <1>1, <1>2, <1>3, <1>4, <1>5, AskKeeps

\* send() of the reset: a failure gives back both owners.
LEMMA ResetWriteKeeps ==
  ASSUME IInv, [Next]_vars, NEW t \in Threads, ResetWrite(t)
  PROVE  IInv'
<1>s. CallStep(t)
  BY DEF CallStep, ThreadStep
<1>1. RequestsOK(t) /\ PlaceOK(t) /\ t # None /\ thread[t].at = "resetwrite"
  BY Stepping DEF ResetWrite, At
<1>2. CASE /\ Free(startupOwner, t) /\ Goto(t, "resetwait")
           /\ UNCHANGED <<startupOwner, resetOwner, transport, registered>>
  <2>1. "resetwait" \in Places
    BY DEF Places
  <2>2. /\ thread'[t].at = "resetwait" /\ thread'[t].bring = thread[t].bring /\ thread'[t].call = thread[t].call
        /\ thread'[t].req = thread[t].req /\ thread'[t].own = thread[t].own
    BY <1>2, <2>1, GotoFields
  <2>3. RequestsOK(t)'
    BY <1>1, <2>2 DEF RequestsOK
  <2>4. PlaceOK(t)'
    BY <1>1, <1>2, <2>2 DEF PlaceOK, Free, transport, Calling, Resetting, Admitted, Greeting, Reviving
  <2>5. QED
    BY <1>s, <1>2, <2>1, <2>3, <2>4, GotoKeeps
<1>3. CASE ResetRaises(t) /\ registered' = registered \ Mine(t)
  BY <1>s, <1>1, <1>3, ResetRaisesKeeps DEF Resetting, Admitted
<1>4. CASE /\ TransportFailure(Mine(t)) /\ Set(t, IdleThread) /\ resetOwner' = None
           /\ startupOwner' = IF startupOwner = t THEN None ELSE startupOwner
  <2>1. registered' \subseteq registered /\ registered' \cap Mine(t) = {}
    BY <1>4 DEF TransportFailure
  <2>2. QED
    BY <1>s, <1>1, <1>4, <2>1, LeaveKeeps DEF Set
<1>5. QED
  BY <1>2, <1>3, <1>4 DEF ResetWrite

\* The end of the wait for a reset, in every way it can end.
LEMMA ResetWaitKeeps ==
  ASSUME IInv, [Next]_vars, NEW t \in Threads, ResetWait(t)
  PROVE  IInv'
<1>s. CallStep(t)
  BY DEF CallStep, ThreadStep
<1>1. RequestsOK(t) /\ PlaceOK(t) /\ t # None /\ thread[t].at = "resetwait"
  BY Stepping DEF ResetWait, At
<1>2. CASE ResetRaises(t) /\ registered' = registered \ Mine(t)
  BY <1>s, <1>1, <1>2, ResetRaisesKeeps DEF Resetting, Admitted
<1>3. CASE /\ thread[t].bring = "cold" /\ Goto(t, "hello") /\ registered' = registered \ {thread[t].req}
           /\ resetOwner' = None /\ UNCHANGED startupOwner
  <2>1. "hello" \in Places
    BY DEF Places
  <2>2. /\ thread'[t].at = "hello" /\ thread'[t].bring = thread[t].bring /\ thread'[t].call = thread[t].call
        /\ thread'[t].req = thread[t].req /\ thread'[t].own = thread[t].own
    BY <1>3, <2>1, GotoFields
  <2>3. RequestsOK(t)'
    BY <1>1, <1>3, <2>2 DEF RequestsOK
  <2>4. PlaceOK(t)'
    BY <1>1, <1>3, <2>2 DEF PlaceOK, Calling, Resetting, Admitted, Greeting, Reviving
  <2>5. QED
    BY <1>s, <1>3, <2>1, <2>3, <2>4, GotoKeeps
<1>4. CASE thread[t].bring # "cold" /\ Leaves(t) /\ resetOwner' = None /\ UNCHANGED startupOwner
  <2>1. startupOwner # t
    BY <1>1, <1>4 DEF PlaceOK, Reviving
  <2>2. QED
    BY <1>s, <1>1, <1>4, <2>1, LeaveKeeps DEF Leaves, Set
<1>5. QED
  BY <1>2, <1>3, <1>4 DEF ResetWait

\* The handshake.
LEMMA HelloKeeps ==
  ASSUME IInv, [Next]_vars, NEW t \in Threads, HelloWrite(t) \/ HelloWait(t)
  PROVE  IInv'
<1>s. CallStep(t)
  BY DEF CallStep, ThreadStep
<1>1. /\ thread[t] \in Thread /\ RequestsOK(t) /\ PlaceOK(t) /\ t # None
      /\ thread[t].at \in {"hello", "hellowait"} /\ resetOwner' = resetOwner
  BY Stepping DEF HelloWrite, HelloWait, At
<1>2. resetOwner # t
  BY <1>1 DEF PlaceOK, Admitted
<1>3. CASE startupOwner' = None /\ Leaves(t)
  BY <1>s, <1>1, <1>2, <1>3, LeaveKeeps DEF Leaves, Set
<1>4. CASE HelloWait(t) /\ Brought(t)
  BY <1>s, <1>1, <1>4, BroughtKeeps DEF HelloWait, At
<1>5. CASE /\ HelloWrite(t) /\ registered' = registered \cup {Hello} /\ UNCHANGED startupOwner
           /\ Set(t, [thread[t] EXCEPT !.at = "hellowait", !.req = Hello, !.said = "none"])
  <2> DEFINE rec == [thread[t] EXCEPT !.at = "hellowait", !.req = Hello, !.said = "none"]
  <2>1. Hello \in Ids /\ thread[t].at = "hello"
    BY <1>5, GatewayAssumption DEF Hello, Ids, HelloWrite, At
  <2>2. rec \in Thread
    BY <1>1, <2>1 DEF Thread, Places, Answers
  <2>3. rec.at = "hellowait" /\ rec.bring = thread[t].bring /\ rec.call = thread[t].call /\ rec.req = Hello
        /\ rec.own = thread[t].own
    BY <1>1 DEF Thread
  <2>4. thread' = [thread EXCEPT ![t] = rec]
    BY <1>5 DEF Set
  <2> HIDE DEF rec
  <2>5. CASE thread[t].req \notin registered'
    BY <1>s, <1>1, <1>5, <2>1, <2>2, <2>3, <2>4, <2>5, AskKeeps
  <2>6. CASE thread[t].req \in registered'
    <3>1. thread[t].req = Hello
      BY <1>1, <1>5, <2>1, <2>6 DEF RequestsOK
    <3>2. thread'[t] = rec
      BY <2>4, Stepping
    <3>3. Hello # NoRequest
      BY DEF Hello, NoRequest
    <3>4. RequestsOK(t)'
      BY <1>1, <2>1, <2>3, <3>2, <3>3 DEF RequestsOK
    <3>5. PlaceOK(t)'
      BY <1>1, <1>2, <1>5, <2>1, <2>3, <3>2 DEF PlaceOK, Calling, Resetting, Admitted, Greeting, Reviving
    <3>6. QED
      BY <1>s, <1>5, <2>2, <2>3, <2>4, <3>1, <3>4, <3>5, MoveKeeps DEF Mine
  <2>7. QED
    BY <2>5, <2>6
<1>6. QED
  BY <1>3, <1>4, <1>5 DEF HelloWrite, HelloWait

\* The commands.
LEMMA SendKeeps ==
  ASSUME IInv, [Next]_vars, NEW t \in Threads, Send(t)
  PROVE  IInv'
<1>s. CallStep(t)
  BY DEF CallStep, ThreadStep
<1>1. /\ thread \in [Threads -> Thread] /\ thread[t] \in Thread /\ RequestsOK(t) /\ PlaceOK(t) /\ t # None
      /\ thread[t].at = "send"
  BY Stepping DEF Send, At
<1>2. /\ thread[t].req = NoRequest /\ thread[t].own = NoRequest /\ thread[t].bring = "none"
      /\ resetOwner # t /\ startupOwner # t /\ Mine(t) = {NoRequest}
  BY <1>1 DEF RequestsOK, PlaceOK, Calling, Admitted, Reviving, Mine
<1>3. NewId \in Ids /\ NewId # NoRequest /\ registered \subseteq Ids /\ NoRequest \notin Ids
  BY NewIdFresh DEF Send, IInv, TypeOK, Ids, NoRequest
<1>4. resetOwner' = resetOwner /\ hasOpened' = hasOpened
  BY DEF Send, transport
<1> DEFINE rec == [thread[t] EXCEPT !.own = NewId]
<1>5. rec \in Thread
  BY <1>1, <1>3 DEF Thread
<1>6. rec.at = "send" /\ rec.bring = "none" /\ rec.call = thread[t].call /\ rec.req = NoRequest /\ rec.own = NewId
  BY <1>1, <1>2 DEF Thread
<1>7. CASE Set(t, [rec EXCEPT !.at = "write"]) /\ registered' = registered \cup {NewId} /\ UNCHANGED startupOwner
  <2> DEFINE new == [rec EXCEPT !.at = "write"]
  <2>1. new \in Thread /\ thread' = [thread EXCEPT ![t] = new]
    BY <1>5, <1>7 DEF Thread, Places, Set
  <2>2. new.at = "write" /\ new.bring = "none" /\ new.call = thread[t].call /\ new.req = NoRequest /\ new.own = NewId
    BY <1>5, <1>6 DEF Thread
  <2> HIDE DEF new
  <2>3. thread'[t] = new
    BY <1>1, <2>1
  <2>4. RequestsOK(t)'
    BY <1>3, <2>2, <2>3 DEF RequestsOK
  <2>5. PlaceOK(t)'
    BY <1>2, <1>4, <1>7, <2>2, <2>3 DEF PlaceOK, Calling, Resetting, Admitted, Greeting, Reviving
  <2>6. QED
    BY <1>s, <1>2, <1>7, <2>1, <2>2, <2>4, <2>5, MoveKeeps
<1>8. CASE Set(t, IdleThread) /\ UNCHANGED <<startupOwner, registered>>
  BY <1>s, <1>2, <1>4, <1>8, LeaveKeeps DEF Set
<1>9. CASE startupOwner = None /\ Starts(t, rec, registered \cup {NewId})
  <2> HIDE DEF rec
  <2>1. QED
    BY <1>s, <1>1, <1>3, <1>4, <1>5, <1>6, <1>9, StartsKeeps
<1>10. QED
  BY <1>7, <1>8, <1>9 DEF Send

\* A write that fails unregisters the request, also when it starts over.
LEMMA WriteKeeps ==
  ASSUME IInv, [Next]_vars, NEW t \in Threads, Write(t)
  PROVE  IInv'
<1>s. CallStep(t)
  BY DEF CallStep, ThreadStep
<1>1. RequestsOK(t) /\ PlaceOK(t) /\ t # None /\ thread[t].at = "write" /\ UNCHANGED <<startupOwner, resetOwner>>
  BY Stepping DEF Write, At, admission
<1>2. resetOwner # t /\ startupOwner # t
  BY <1>1 DEF PlaceOK, Calling, Admitted, Reviving
<1>3. CASE Leaves(t)
  BY <1>s, <1>1, <1>2, <1>3, LeaveKeeps DEF Leaves, Set
<1>4. CASE Goto(t, "wait") /\ UNCHANGED <<transport, registered>>
  <2>1. "wait" \in Places
    BY DEF Places
  <2>2. /\ thread'[t].at = "wait" /\ thread'[t].bring = thread[t].bring /\ thread'[t].call = thread[t].call
        /\ thread'[t].req = thread[t].req /\ thread'[t].own = thread[t].own
    BY <1>4, <2>1, GotoFields
  <2>3. RequestsOK(t)'
    BY <1>1, <2>2 DEF RequestsOK
  <2>4. PlaceOK(t)'
    BY <1>1, <1>2, <2>2 DEF PlaceOK, Calling, Resetting, Admitted, Greeting, Reviving
  <2>5. QED
    BY <1>s, <1>4, <2>1, <2>3, <2>4, GotoKeeps
<1>5. CASE TransportFailure(Mine(t)) /\ Set(t, IF Retires THEN Retry(t) ELSE IdleThread)
  <2>1. registered' \subseteq registered /\ registered' \cap Mine(t) = {}
    BY <1>5 DEF TransportFailure
  <2>2. thread' \in {[thread EXCEPT ![t] = Retry(t)], [thread EXCEPT ![t] = IdleThread]}
    BY <1>5 DEF Set
  <2>3. QED
    BY <1>s, <1>1, <1>2, <2>1, <2>2, LeaveKeeps, RetryKeeps
<1>6. QED
  BY <1>3, <1>4, <1>5 DEF Write

\* The end of the wait for a command, by an answer or the timeout.
LEMMA WaitKeeps ==
  ASSUME IInv, [Next]_vars, NEW t \in Threads, Wait(t)
  PROVE  IInv'
<1>s. CallStep(t)
  BY DEF CallStep, ThreadStep
<1>1. PlaceOK(t) /\ t # None /\ thread[t].at = "wait" /\ UNCHANGED <<startupOwner, resetOwner>>
  BY Stepping DEF Wait, At, admission
<1>2. resetOwner # t /\ startupOwner # t
  BY <1>1 DEF PlaceOK, Calling, Admitted, Reviving
<1>3. registered' = registered \ Mine(t)
      /\ thread' \in {[thread EXCEPT ![t] = Retry(t)], [thread EXCEPT ![t] = IdleThread]}
  BY DEF Wait, Leaves, TimesOut, Set
<1>4. QED
  BY <1>s, <1>1, <1>2, <1>3, LeaveKeeps, RetryKeeps

\* A message in a queue changes nothing but what its waiter will hear.
LEMMA PutKeeps ==
  ASSUME IInv, NEW ids, NEW says \in Answers
  PROVE  /\ Put(ids, says) \in [Threads -> Thread]
         /\ \A u \in Threads :
              /\ Put(ids, says)[u].at = thread[u].at /\ Put(ids, says)[u].bring = thread[u].bring
              /\ Put(ids, says)[u].call = thread[u].call /\ Put(ids, says)[u].req = thread[u].req
              /\ Put(ids, says)[u].own = thread[u].own
<1>1. \A u \in Threads : thread[u] \in Thread
  BY DEF IInv, TypeOK
<1> DEFINE said(u) == IF thread[u].req \in ids \cap registered /\ thread[u].said = "none" THEN says ELSE thread[u].said
           ownSaid(u) == IF /\ thread[u].own \in ids \cap registered /\ thread[u].ownSaid = "none"
                            /\ says = "ok" \/ thread[u].cmd.raises
                         THEN says ELSE thread[u].ownSaid
<1>2. Put(ids, says) = [u \in Threads |-> [thread[u] EXCEPT !.said = said(u), !.ownSaid = ownSaid(u)]]
  BY DEF Put
<1>3. \A u \in Threads : said(u) \in Answers /\ ownSaid(u) \in Answers
  BY <1>1 DEF Thread
<1> HIDE DEF said, ownSaid
<1>4. ASSUME NEW u \in Threads
      PROVE  /\ [thread[u] EXCEPT !.said = said(u), !.ownSaid = ownSaid(u)] \in Thread
             /\ Put(ids, says)[u] = [thread[u] EXCEPT !.said = said(u), !.ownSaid = ownSaid(u)]
    BY <1>1, <1>2, <1>3 DEF Thread
<1>5. Put(ids, says) \in [Threads -> Thread]
  BY <1>2, <1>4
<1>6. ASSUME NEW u \in Threads
      PROVE  /\ Put(ids, says)[u].at = thread[u].at /\ Put(ids, says)[u].bring = thread[u].bring
             /\ Put(ids, says)[u].call = thread[u].call /\ Put(ids, says)[u].req = thread[u].req
             /\ Put(ids, says)[u].own = thread[u].own
  <2>1. /\ thread[u] \in Thread
        /\ Put(ids, says)[u] = [thread[u] EXCEPT !.said = said(u), !.ownSaid = ownSaid(u)]
    BY <1>1, <1>4
  <2>2. QED
    BY <2>1 DEF Thread
<1>7. QED
  BY <1>5, <1>6

\* The recovery of the port.
LEMMA AsksKeeps ==
  ASSUME IInv, [Next]_vars, NEW t \in Threads, CallStep(t), NEW p \in {"probewait", "inventorywait"}, AsksInventory(t, p),
         started, thread[t].at \in {"probe", "inventory"}, UNCHANGED <<startupOwner, resetOwner>>
  PROVE  IInv'
<1>1. thread[t] \in Thread /\ RequestsOK(t) /\ registered \subseteq Ids /\ hasOpened
  BY Stepping DEF IInv, TypeOK
<1>2. NewId \in Ids /\ registered' = registered \cup {NewId}
  BY NewIdFresh DEF AsksInventory, Registers
<1>3. thread[t].req \notin registered'
  BY <1>1, <1>2 DEF RequestsOK, NoRequest, Ids
<1> DEFINE rec == [thread[t] EXCEPT !.at = p, !.req = NewId, !.said = "none"]
<1>4. rec \in Thread
  BY <1>1, <1>2 DEF Thread, Places, Answers
<1>5. rec.at = p /\ rec.bring = thread[t].bring /\ rec.call = thread[t].call /\ rec.req = NewId
      /\ rec.own = thread[t].own
  BY <1>1 DEF Thread
<1>6. thread' = [thread EXCEPT ![t] = rec]
  BY DEF AsksInventory, Set
<1> HIDE DEF rec
<1>7. QED
  BY <1>1, <1>2, <1>3, <1>4, <1>5, <1>6, AskKeeps

\* A recovery takes _startup_owner, or raises without it.
LEMMA ClaimKeeps ==
  ASSUME IInv, [Next]_vars, NEW t \in Threads, Claim(t)
  PROVE  IInv'
<1>s. CallStep(t)
  BY DEF CallStep, ThreadStep
<1>1. RequestsOK(t) /\ PlaceOK(t) /\ thread[t].at = "claim" /\ resetOwner' = resetOwner
  BY Stepping DEF Claim, At
<1>2. CASE RecoveryRaises(t)
  BY <1>s, <1>1, <1>2, RaisesKeeps
<1>3. CASE startupOwner' = t /\ Goto(t, "probe") /\ UNCHANGED registered
  <2>1. "probe" \in Places
    BY DEF Places
  <2>2. /\ thread'[t].at = "probe" /\ thread'[t].bring = thread[t].bring /\ thread'[t].call = thread[t].call
        /\ thread'[t].req = thread[t].req /\ thread'[t].own = thread[t].own
    BY <1>3, <2>1, GotoFields
  <2>3. RequestsOK(t)'
    BY <1>1, <2>2 DEF RequestsOK
  <2>4. PlaceOK(t)'
    BY <1>1, <1>3, <2>2 DEF PlaceOK, Calling, Resetting, Admitted, Greeting, Reviving
  <2>5. QED
    BY <1>s, <1>3, <2>1, <2>3, <2>4, GotoKeeps
<1>4. QED
  BY <1>2, <1>3 DEF Claim

\* The probe of the port registers its request with its thread.
LEMMA ProbeKeeps ==
  ASSUME IInv, [Next]_vars, NEW t \in Threads, Probe(t)
  PROVE  IInv'
<1>s. CallStep(t)
  BY DEF CallStep, ThreadStep
<1>1. RequestsOK(t) /\ PlaceOK(t) /\ thread[t].at = "probe" /\ UNCHANGED <<startupOwner, resetOwner>>
  BY Stepping DEF Probe, At, admission
<1>2. CASE started /\ AsksInventory(t, "probewait")
  BY <1>s, <1>1, <1>2, AsksKeeps
<1>3. CASE Goto(t, "reopen") /\ UNCHANGED registered
  <2>1. "reopen" \in Places
    BY DEF Places
  <2>2. /\ thread'[t].at = "reopen" /\ thread'[t].bring = thread[t].bring /\ thread'[t].call = thread[t].call
        /\ thread'[t].req = thread[t].req /\ thread'[t].own = thread[t].own
    BY <1>3, <2>1, GotoFields
  <2>3. RequestsOK(t)'
    BY <1>1, <2>2 DEF RequestsOK
  <2>4. PlaceOK(t)'
    BY <1>1, <2>2 DEF PlaceOK, Calling, Resetting, Admitted, Greeting, Reviving
  <2>5. QED
    BY <1>s, <1>3, <2>1, <2>3, <2>4, GotoKeeps
<1>4. QED
  BY <1>2, <1>3 DEF Probe

\* The probe is answered, refused or not answered at all.
LEMMA ProbeWaitKeeps ==
  ASSUME IInv, [Next]_vars, NEW t \in Threads, ProbeWait(t)
  PROVE  IInv'
<1>s. CallStep(t)
  BY DEF CallStep, ThreadStep
<1>1. /\ thread \in [Threads -> Thread] /\ thread[t] \in Thread /\ RequestsOK(t) /\ PlaceOK(t)
      /\ thread[t].at = "probewait" /\ resetOwner' = resetOwner
  BY Stepping DEF ProbeWait, At
<1>2. CASE Brought(t)
  BY <1>s, <1>1, <1>2, BroughtKeeps
<1>3. CASE RecoveryRaises(t)
  BY <1>s, <1>1, <1>3, RaisesKeeps DEF Reviving
<1>4. CASE /\ registered' = registered \ {thread[t].req} /\ UNCHANGED startupOwner
           /\ Set(t, [thread[t] EXCEPT !.at = "reopen", !.req = NoRequest, !.said = "none"])
  <2> DEFINE rec == [thread[t] EXCEPT !.at = "reopen", !.req = NoRequest, !.said = "none"]
  <2>1. rec \in Thread
    BY <1>1 DEF Thread, Places, Answers
  <2>2. rec.at = "reopen" /\ rec.bring = thread[t].bring /\ rec.call = thread[t].call /\ rec.req = NoRequest
        /\ rec.own = thread[t].own
    BY <1>1 DEF Thread
  <2>3. thread' = [thread EXCEPT ![t] = rec]
    BY <1>4 DEF Set
  <2> HIDE DEF rec
  <2>4. thread'[t] = rec
    BY <1>1, <2>3
  <2>5. RequestsOK(t)'
    BY <1>1, <2>2, <2>4 DEF RequestsOK
  <2>6. PlaceOK(t)'
    BY <1>1, <1>4, <2>2, <2>4 DEF PlaceOK, Calling, Resetting, Admitted, Greeting, Reviving
  <2>7. QED
    BY <1>s, <1>4, <2>1, <2>2, <2>3, <2>5, <2>6, MoveKeeps DEF Mine
<1>5. QED
  BY <1>2, <1>3, <1>4 DEF ProbeWait

\* The inventory after a reopened port, and its end.
LEMMA InventoryKeeps ==
  ASSUME IInv, [Next]_vars, NEW t \in Threads, Inventory(t) \/ InventoryWait(t)
  PROVE  IInv'
<1>s. CallStep(t)
  BY DEF CallStep, ThreadStep
<1>1. thread[t].at \in {"inventory", "inventorywait"} /\ resetOwner' = resetOwner
  BY DEF Inventory, InventoryWait, At
<1>2. CASE RecoveryRaises(t)
  BY <1>s, <1>1, <1>2, RaisesKeeps DEF Reviving
<1>3. CASE Inventory(t) /\ started /\ AsksInventory(t, "inventorywait") /\ UNCHANGED startupOwner
  BY <1>s, <1>1, <1>3, AsksKeeps DEF Inventory, At
<1>4. CASE InventoryWait(t) /\ Brought(t)
  BY <1>s, <1>1, <1>4, BroughtKeeps DEF InventoryWait, At
<1>5. QED
  BY <1>2, <1>3, <1>4 DEF Inventory, InventoryWait

\* The reopened port fails every request of the old generation.
LEMMA ReopenKeeps ==
  ASSUME IInv, [Next]_vars, NEW t \in Threads, Reopen(t)
  PROVE  IInv'
<1>s. CallStep(t)
  BY DEF CallStep, ThreadStep
<1>1. /\ thread[t] \in Thread /\ RequestsOK(t) /\ PlaceOK(t) /\ t # None
      /\ thread[t].at = "reopen" /\ resetOwner' = resetOwner
  BY Stepping DEF Reopen, At
<1>2. CASE RecoveryRaises(t)
  BY <1>s, <1>1, <1>2, RaisesKeeps DEF Reviving
<1> DEFINE heard == Put(registered, "error")
<1>3. /\ heard \in [Threads -> Thread]
      /\ \A u \in Threads : /\ heard[u].at = thread[u].at /\ heard[u].bring = thread[u].bring
                            /\ heard[u].call = thread[u].call /\ heard[u].req = thread[u].req
                            /\ heard[u].own = thread[u].own
  BY PutKeeps DEF Answers
<1> HIDE DEF heard
<1>4. CASE PortOpens /\ thread' = [heard EXCEPT ![t].at = "inventory"] /\ UNCHANGED <<startupOwner, registered>>
  <2>1. [heard[t] EXCEPT !.at = "inventory"] \in Thread /\ heard[t] \in Thread
    BY <1>3 DEF Thread, Places
  <2>2. thread' \in [Threads -> Thread] /\ thread'[t] = [heard[t] EXCEPT !.at = "inventory"]
    BY <1>3, <1>4, <2>1
  <2>3. \A u \in Threads : u # t => SameButSaid(u)
    BY <1>3, <1>4 DEF SameButSaid
  <2>4. /\ thread'[t].at = "inventory" /\ thread'[t].bring = thread[t].bring /\ thread'[t].call = thread[t].call
        /\ thread'[t].req = thread[t].req /\ thread'[t].own = thread[t].own
    BY <1>3, <2>1, <2>2 DEF Thread
  <2>5. RequestsOK(t)'
    BY <1>1, <2>4 DEF RequestsOK
  <2>6. PlaceOK(t)'
    BY <1>1, <1>4, <2>4 DEF PlaceOK, PortOpens, Calling, Resetting, Admitted, Greeting, Reviving
  <2>7. Mine(t)' = Mine(t)
    BY <2>4 DEF Mine
  <2>8. QED
    BY <1>s, <1>4, <2>2, <2>3, <2>5, <2>6, <2>7, CallKeeps
<1>5. CASE RecoveryRaisesIn(heard, t)
  <2>1. PICK rec \in {IdleThread, Retry(t)} : thread' = [heard EXCEPT ![t] = rec]
    BY <1>5 DEF RecoveryRaisesIn
  <2>2. registered' = registered \ Mine(t) /\ startupOwner' # t /\ resetOwner' # t
    BY <1>1, <1>5 DEF RecoveryRaisesIn, PlaceOK, Admitted
  <2>3. rec \in Thread /\ rec.own = NoRequest /\ rec.req = NoRequest
        /\ ((rec.at = "idle" /\ rec.bring = "none") \/ (rec.at = "claim" /\ rec.bring = "retry"))
    <3>1. thread[t].call \in Calls /\ thread[t].cmd \in Commands \cup {NoCommand}
      BY <1>1 DEF Thread
    <3>2. CASE rec = IdleThread
      BY <3>2, IdleIsThread DEF IdleThread
    <3>3. CASE Retries(t) /\ rec = Retry(t)
      <4> DEFINE new == [IdleThread EXCEPT !.call = thread[t].call, !.cmd = thread[t].cmd, !.tried = TRUE,
                                           !.bring = "retry", !.at = "claim"]
      <4>1. new \in Thread
        BY <3>1, IdleIsThread DEF Thread, Places
      <4>2. new.at = "claim" /\ new.bring = "retry" /\ new.req = NoRequest /\ new.own = NoRequest
        BY DEF IdleThread
      <4>3. rec = new
        BY <3>3 DEF Retry
      <4> HIDE DEF new
      <4>4. QED
        BY <4>1, <4>2, <4>3
    <3>4. QED
      BY <3>2, <3>3 DEF Retry
  <2>4. thread' \in [Threads -> Thread] /\ thread'[t] = rec
    BY <1>3, <2>1, <2>3
  <2>5. \A u \in Threads : u # t => SameButSaid(u)
    BY <1>3, <2>1 DEF SameButSaid
  <2>6. RequestsOK(t)'
    BY <2>3, <2>4 DEF RequestsOK
  <2>7. PlaceOK(t)'
    BY <2>2, <2>3, <2>4 DEF PlaceOK, Calling, Resetting, Admitted, Greeting, Reviving
  <2>8. QED
    BY <1>s, <2>2, <2>4, <2>5, <2>6, <2>7, CallKeeps
<1>6. QED
  BY <1>2, <1>4, <1>5 DEF Reopen, heard

\* The reader, the gateway, the acquisition scope and a close: no thread moves.
LEMMA OthersKeep ==
  ASSUME IInv, [Next]_vars, OtherStep
  PROVE  IInv'
<1>1. /\ thread' \in [Threads -> Thread] /\ \A u \in Threads : SameButSaid(u)
  <2>1. CASE Route
    <3>1. replies \in Seq(Notices) /\ replies # <<>>
      BY <2>1 DEF Route, IInv, TypeOK, Notices
    <3>2. Head(replies).says \in Answers
      <4>1. Head(replies) \in Notices
        BY <3>1, TailInFlight
      <4>2. QED
        BY <4>1 DEF Notices, Answers
    <3>3. thread' = Put({Head(replies).id}, Head(replies).says)
      BY <2>1 DEF Route
    <3>4. QED
      BY <3>2, <3>3, PutKeeps DEF SameButSaid
  <2>2. CASE UNCHANGED thread
    BY <2>2 DEF IInv, TypeOK, SameButSaid
  <2>3. QED
    BY <2>1, <2>2 DEF OtherStep, SetScope, Close, ReadFails, ReaderStuck, ReaderReturns, Gateway, vars
<1>2. registered' \subseteq registered /\ UNCHANGED <<startupOwner, resetOwner>>
  BY DEF OtherStep, SetScope, Close, Route, ReadFails, ReaderStuck, ReaderReturns, Gateway, vars, admission,
         TransportFailure
<1>3. (hasOpened => hasOpened') /\ (started' => hasOpened')
  BY OpenedStays
<1>4. TypeOK'
  BY <1>1, SharedStep DEF TypeOK, SharedTypes, Orders, Notices
<1>5. ASSUME NEW u \in Threads PROVE RequestsOK(u)' /\ PlaceOK(u)' /\ Mine(u)' = Mine(u)
  <2>1. RequestsOK(u) /\ PlaceOK(u) /\ SameButSaid(u)
    BY <1>1 DEF IInv
  <2>2. RequestsOK(u)'
    BY <1>2, <2>1 DEF RequestsOK, SameButSaid
  <2>3. PlaceOK(u)'
    BY <1>2, <1>3, <2>1 DEF PlaceOK, Free, SameButSaid
  <2>4. QED
    BY <2>1, <2>2, <2>3 DEF SameButSaid, Mine
<1>6. Accounted'
  BY <1>2, <1>5 DEF IInv, Accounted
<1>7. QED
  BY <1>3, <1>4, <1>5, <1>6 DEF IInv

\* Nobody has called yet.
LEMMA InitIInv == Init => IInv
<1> SUFFICES ASSUME Init PROVE IInv
  OBVIOUS
<1>1. TypeOK
  <2>1. thread \in [Threads -> Thread]
    BY IdleIsThread DEF Init
  <2>2. <<>> \in Seq([kind : {"reset", "other"}, id : Ids])
    BY EmptyInFlight
  <2>3. <<>> \in Seq([kind : {"reset", "other"}, id : Ids, says : {"ok", "error"}])
    BY EmptyInFlight
  <2>4. faults \in 0..MaxFaults
    BY GatewayAssumption DEF Init
  <2>5. QED
    BY <2>1, <2>2, <2>3, <2>4 DEF Init, TypeOK
<1>2. \A t \in Threads : thread[t] = IdleThread /\ t # None
  BY GatewayAssumption DEF Init
<1>3. IdleThread.at = "idle" /\ IdleThread.bring = "none" /\ IdleThread.req = NoRequest /\ IdleThread.own = NoRequest
  BY DEF IdleThread
<1>4. ASSUME NEW t \in Threads PROVE RequestsOK(t) /\ PlaceOK(t)
  BY <1>2, <1>3 DEF Init, RequestsOK, PlaceOK, Calling, Resetting, Admitted, Greeting, Reviving
<1>5. QED
  BY <1>1, <1>4 DEF Init, IInv, Accounted

\* The invariant is inductive.
LEMMA IInvStep == IInv /\ [Next]_vars => IInv'
<1> SUFFICES ASSUME IInv, [Next]_vars PROVE IInv'
  OBVIOUS
<1>1. ASSUME NEW t \in Threads, CallStep(t) PROVE IInv'
  BY <1>1, CallsKeep, OpenKeeps, AdmitKeeps, EnlistKeeps, ResetWriteKeeps, ResetWaitKeeps, HelloKeeps, SendKeeps,
     WriteKeeps, WaitKeeps, ClaimKeeps, ProbeKeeps, ProbeWaitKeeps, ReopenKeeps, InventoryKeeps
  DEF CallStep, ThreadStep
<1>2. QED
  BY <1>1, OthersKeep DEF Next, CallStep, CallsCommand, OtherStep

\* The fields of the client and its threads keep their types.
THEOREM TypeCorrect == Spec => []TypeOK
<1>1. IInv => TypeOK
  BY DEF IInv
<1>2. QED
  BY <1>1, InitIInv, IInvStep, PTL DEF Spec

\* For any number of threads: while a thread waits for its BLE reset nobody else
\* reopens the port, and _startup_owner, _reset_owner and the registrations of
\* pending_requests end with the call they belong to, however it ends.
THEOREM OwnersAreAccounted == Spec => []OwnersAccounted
<1>1. IInv => OwnersAccounted
  <2> SUFFICES ASSUME IInv PROVE OwnersAccounted
    OBVIOUS
  <2>1. \A t \in Threads : PlaceOK(t)
    BY DEF IInv
  <2>2. startupOwner \in Threads \cup {None} /\ resetOwner \in Threads \cup {None}
    BY DEF IInv, TypeOK
  <2>3. \A t \in Threads : At(t, "resetwait") => Free(startupOwner, t)
    BY <2>1 DEF PlaceOK, At
  <2>4. startupOwner # None => thread[startupOwner].bring # "none"
    BY <2>1, <2>2 DEF PlaceOK, Reviving
  <2>5. resetOwner # None => thread[resetOwner].at \in {"enlist", "resetwrite", "resetwait"}
    BY <2>1, <2>2 DEF PlaceOK, Admitted
  <2>6. QED
    BY <2>3, <2>4, <2>5 DEF IInv, Accounted, OwnersAccounted
<1>2. QED
  BY <1>1, InitIInv, IInvStep, PTL DEF Spec

-----------------------------------------------------------------------------
(* A reset and an acquisition exclude each other *)

\* What the steps of a thread mean for a reset, if they do not admit it, list it or
\* write it.
Plain(t) ==
  /\ thread'[t].at \notin Admitted
  /\ thread'[t].own \in {thread[t].own, NoRequest} \/ (Fresh # {} /\ thread'[t].own = NewId)
  /\ thread'[t].call = "reset" =>
        /\ CallReset(t) \/ thread[t].call = "reset"
        /\ thread'[t].bring = "cold" \/ hasOpened'
  /\ Heading(t)' => Heading(t) \/ CallReset(t) \/ (Send(t) /\ startupOwner = None /\ ~hasOpened)
  /\ thread'[t].at = "admit" => Heading(t)'
  /\ thread'[t].at \in {"send", "open", "admit"} => thread'[t].said # "ok"
  /\ thread'[t].bring = "cold" => thread[t].bring = "cold" \/ scope = {}

\* A call that ends, or starts over after a recovery, is plain.
LEMMA LeavesPlain ==
  ASSUME IInv, NEW t \in Threads, thread'[t] = IdleThread \/ thread'[t] = Retry(t)
  PROVE  Plain(t)
<1>1. CASE thread'[t] = IdleThread
  <2>1. IdleThread.at = "idle" /\ IdleThread.bring = "none" /\ IdleThread.own = NoRequest /\ IdleThread.call = "none"
    BY DEF IdleThread
  <2>2. QED
    BY <1>1, <2>1 DEF Plain, Heading, Admitted, Reviving
<1>2. CASE Retries(t) /\ thread'[t] = Retry(t)
  <2> DEFINE new == [IdleThread EXCEPT !.call = thread[t].call, !.cmd = thread[t].cmd, !.tried = TRUE,
                                       !.bring = "retry", !.at = "claim"]
  <2>1. new.at = "claim" /\ new.bring = "retry" /\ new.own = NoRequest /\ new.call = thread[t].call
    BY DEF IdleThread
  <2>2. thread'[t] = new /\ thread[t].call # "reset"
    BY <1>2 DEF Retry, Retries
  <2> HIDE DEF new
  <2>3. QED
    BY <2>1, <2>2 DEF Plain, Heading, Admitted
<1>3. QED
  BY <1>1, <1>2 DEF Retry

\* A thread that goes on with the call and what it brings up.
LEMMA OnPlain ==
  ASSUME IInv, [Next]_vars, ResetInv, NEW t \in Threads,
         thread'[t].call = thread[t].call, thread'[t].bring = thread[t].bring, thread'[t].own = thread[t].own,
         \/ thread[t].at = "open" /\ thread'[t].at = "admit" /\ thread'[t].said = thread[t].said
         \/ thread'[t].at \in {"hello", "hellowait", "write", "wait"}
         \/ thread[t].at \in Reviving \cup {"claim"} /\ thread'[t].at \in Reviving
  PROVE  Plain(t)
<1>1. hasOpened => hasOpened'
  BY OpenedStays
<1>2. ResetOK(t) /\ PlaceOK(t)
  BY DEF ResetInv, IInv
<1>3. CASE thread[t].at = "open" /\ thread'[t].at = "admit" /\ thread'[t].said = thread[t].said
  BY <1>1, <1>2, <1>3 DEF Plain, ResetOK, PlaceOK, Heading, Admitted, Greeting
<1>4. CASE thread'[t].at \in {"hello", "hellowait", "write", "wait"}
  BY <1>1, <1>2, <1>4 DEF Plain, ResetOK, Heading, Admitted, Reviving
<1>5. CASE thread[t].at \in Reviving \cup {"claim"} /\ thread'[t].at \in Reviving
  BY <1>1, <1>2, <1>5 DEF Plain, ResetOK, Heading, Admitted, Reviving
<1>6. QED
  BY <1>3, <1>4, <1>5

\* The transport is up: a reset goes on to its admission, as it was heading for.
LEMMA BroughtPlain ==
  ASSUME IInv, [Next]_vars, ResetInv, NEW t \in Threads, Brought(t),
         thread[t].at \in {"hellowait", "probewait", "inventorywait"}
  PROVE  Plain(t)
<1>1. thread \in [Threads -> Thread] /\ thread[t] \in Thread /\ PlaceOK(t)
  BY Stepping
<1>2. CASE Resumes(t) = "idle"
  <2>1. thread'[t] = IdleThread
    BY <1>1, <1>2 DEF Brought, Leaves, Set
  <2>2. QED
    BY <2>1, LeavesPlain
<1>3. CASE Resumes(t) # "idle"
  <2> DEFINE new == [thread[t] EXCEPT !.at = Resumes(t), !.bring = "none", !.req = NoRequest, !.said = "none"]
  <2>1. thread'[t] = new
    BY <1>1, <1>3 DEF Brought, Set
  <2>2. new.at = Resumes(t) /\ new.bring = "none" /\ new.own = thread[t].own /\ new.call = thread[t].call
        /\ new.said = "none"
    BY <1>1 DEF Thread
  <2> HIDE DEF new
  <2>3. /\ Resumes(t) \in {"admit", "send", "write"} /\ (thread[t].call = "reset" => thread[t].bring # "cold")
        /\ (Resumes(t) = "admit" => thread[t].call = "reset")
    BY <1>3 DEF Resumes
  <2>4. thread[t].call = "reset" => thread[t].at \in Reviving /\ hasOpened
    BY <1>1, <2>3 DEF PlaceOK, Greeting, Reviving
  <2>5. hasOpened => hasOpened'
    BY OpenedStays
  <2>6. QED
    BY <2>1, <2>2, <2>3, <2>4, <2>5 DEF Plain, Heading, Admitted, Reviving
<1>4. QED
  BY <1>2, <1>3

\* The calls and start().
LEMMA CallsPlain ==
  ASSUME IInv, [Next]_vars, ResetInv, NEW t \in Threads, CallReset(t) \/ CallRecover(t) \/ CallsCommand(t) \/ Send(t)
  PROVE  Plain(t)
<1>1. /\ thread \in [Threads -> Thread] /\ thread[t] \in Thread /\ RequestsOK(t) /\ PlaceOK(t)
  BY Stepping
<1>2. UNCHANGED hasOpened
  BY DEF CallReset, CallRecover, CallsCommand, CallCommand, Send, transport
<1>r. ResetOK(t)
  BY DEF ResetInv
<1>3. ASSUME NEW rec \in Thread, NEW ids, Starts(t, rec, ids), rec.said # "ok",
             CallReset(t) \/ (Send(t) /\ startupOwner = None /\ rec.call # "reset"),
             rec.own = thread[t].own \/ (Fresh # {} /\ rec.own = NewId)
      PROVE  Plain(t)
  <2>1. CASE thread' = [thread EXCEPT ![t] = IdleThread]
    BY <1>1, <2>1, LeavesPlain
  <2>2. ASSUME NEW b \in {"cold", "recover"}, NEW p \in {"open", "claim"},
               thread' = [thread EXCEPT ![t] = [rec EXCEPT !.bring = b, !.at = p]],
               b = "cold" => ~hasOpened /\ scope = {}, b = "recover" => p = "claim" /\ hasOpened
        PROVE  Plain(t)
    <3>1. /\ thread'[t].at = p /\ thread'[t].bring = b /\ thread'[t].own = rec.own /\ thread'[t].call = rec.call
          /\ thread'[t].said = rec.said
      BY <1>1, <2>2 DEF Thread
    <3>2. QED
      BY <1>2, <1>3, <2>2, <3>1 DEF Plain, Heading, Admitted, Reviving
  <2>3. QED
    BY <1>3, <2>1, <2>2 DEF Starts, Set
<1>4. CASE CallReset(t)
  <2> DEFINE rec == [IdleThread EXCEPT !.call = "reset", !.at = "admit"]
  <2>1. rec \in Thread
    BY IdleIsThread DEF Thread, Calls, Places
  <2>2. rec.call = "reset" /\ rec.at = "admit" /\ rec.bring = "none" /\ rec.own = NoRequest /\ rec.said = "none"
    BY DEF IdleThread
  <2>3. thread[t].own = NoRequest
    BY <1>1, <1>4 DEF CallReset, At, RequestsOK
  <2>4. Starts(t, rec, registered) \/ (started /\ thread' = [thread EXCEPT ![t] = rec])
    BY <1>4 DEF CallReset, Set
  <2> HIDE DEF rec
  <2>5. CASE started /\ thread' = [thread EXCEPT ![t] = rec]
    <3>1. hasOpened' /\ thread'[t] = rec
      BY <1>1, <1>2, <2>5 DEF IInv
    <3>2. QED
      BY <1>4, <2>2, <3>1 DEF Plain, Heading, Admitted, Reviving
  <2>6. QED
    BY <1>3, <1>4, <2>1, <2>2, <2>3, <2>4, <2>5
<1>5. CASE CallRecover(t) \/ CallsCommand(t)
  <2>1. /\ thread'[t].call # "reset" /\ thread'[t].own = NoRequest /\ thread'[t].said = "none"
        /\ thread'[t].at \in {"claim", "send"} /\ thread'[t].bring # "cold"
    BY <1>1, <1>5 DEF CallRecover, CallsCommand, CallCommand, Set, IdleThread
  <2>2. QED
    BY <2>1 DEF Plain, Heading, Admitted, Reviving
<1>6. CASE Send(t)
  <2> DEFINE rec == [thread[t] EXCEPT !.own = NewId]
  <2>1. Fresh # {} /\ NewId \in Ids
    BY <1>6, NewIdFresh DEF Send
  <2>2. rec \in Thread
    BY <1>1, <2>1 DEF Thread
  <2>3. rec.at = thread[t].at /\ rec.bring = thread[t].bring /\ rec.call = thread[t].call /\ rec.own = NewId
        /\ rec.said = thread[t].said
    BY <1>1 DEF Thread
  <2>4. thread[t].at = "send" /\ thread[t].bring = "none" /\ thread[t].said # "ok"
    BY <1>1, <1>r, <1>6 DEF Send, At, PlaceOK, ResetOK, Calling
  <2>5. CASE thread' = [thread EXCEPT ![t] = IdleThread]
    BY <1>1, <2>5, LeavesPlain
  <2>6. CASE startupOwner = None /\ thread[t].call = "command" /\ Starts(t, rec, registered \cup {NewId})
    <3> HIDE DEF rec
    <3>1. QED
      BY <1>3, <1>6, <2>1, <2>2, <2>3, <2>4, <2>6
  <2>7. CASE started /\ thread' = [thread EXCEPT ![t] = [rec EXCEPT !.at = "write"]]
    <3>1. /\ thread'[t].at = "write" /\ thread'[t].bring = "none" /\ thread'[t].own = NewId
          /\ thread'[t].call = thread[t].call
      BY <1>1, <2>2, <2>3, <2>4, <2>7 DEF Thread
    <3>2. hasOpened'
      BY <1>2, <2>7 DEF IInv
    <3>3. QED
      BY <2>1, <3>1, <3>2 DEF Plain, Heading, Admitted, Reviving
  <2>8. QED
    BY <1>6, <2>5, <2>6, <2>7 DEF Send, Set
<1>7. QED
  BY <1>4, <1>5, <1>6

\* Every step of a call is plain that does not admit, list or write a reset.
LEMMA StepsPlain ==
  ASSUME IInv, [Next]_vars, ResetInv, NEW t \in Threads, CallStep(t), thread'[t].at \notin Admitted
  PROVE  Plain(t)
<1>1. thread \in [Threads -> Thread] /\ thread[t] \in Thread /\ PlaceOK(t)
  BY Stepping
<1>2. CASE thread' \in {[thread EXCEPT ![t] = IdleThread], [thread EXCEPT ![t] = Retry(t)]}
  BY <1>1, <1>2, LeavesPlain
<1>3. CASE Open(t)
  <2>1. CASE Goto(t, "admit")
    <3>1. thread[t].at = "open" /\ "admit" \in Places
      BY <1>3 DEF Open, At, Places
    <3>2. QED
      BY <2>1, <3>1, GotoFields, OnPlain
  <2>2. QED
    BY <1>2, <1>3, <2>1 DEF Open, Leaves, Set
<1>4. CASE Admit(t) \/ ResetWrite(t)
  <2>1. ASSUME NEW p \in {"enlist", "resetwait"} PROVE ~Goto(t, p)
    BY <1>1, <2>1, GotoFields DEF Admitted, Places
  <2>2. QED
    BY <1>2, <1>4, <2>1 DEF Admit, ResetWrite, ResetRaises, Set
<1>5. CASE Enlist(t)
  BY <1>1, <1>5 DEF Enlist, Set, Admitted, Thread
<1>6. CASE ResetWait(t)
  <2>1. CASE Goto(t, "hello")
    BY <2>1, GotoFields, OnPlain DEF Places
  <2>2. QED
    BY <1>2, <1>6, <2>1 DEF ResetWait, ResetRaises, Leaves, Set
<1>7. CASE HelloWrite(t)
  <2>1. CASE Set(t, [thread[t] EXCEPT !.at = "hellowait", !.req = Hello, !.said = "none"])
    <3>1. /\ thread'[t].at = "hellowait" /\ thread'[t].bring = thread[t].bring /\ thread'[t].call = thread[t].call
          /\ thread'[t].own = thread[t].own
      BY <1>1, <2>1 DEF Set, Thread
    <3>2. QED
      BY <3>1, OnPlain
  <2>2. QED
    BY <1>2, <1>7, <2>1 DEF HelloWrite, Leaves, Set
<1>8. CASE Write(t)
  <2>1. CASE Goto(t, "wait")
    BY <2>1, GotoFields, OnPlain DEF Places
  <2>2. QED
    BY <1>2, <1>8, <2>1 DEF Write, Leaves, Set
<1>9. CASE Wait(t)
  BY <1>2, <1>9 DEF Wait, Leaves, TimesOut, Set
<1>10. CASE RecoveryRaises(t)
  BY <1>2, <1>10 DEF RecoveryRaises, RecoveryRaisesIn
<1>11. CASE Brought(t) /\ (HelloWait(t) \/ ProbeWait(t) \/ InventoryWait(t))
  BY <1>11, BroughtPlain DEF HelloWait, ProbeWait, InventoryWait, At
<1>12. ASSUME NEW p \in {"probewait", "inventorywait"}, AsksInventory(t, p), thread[t].at \in Reviving PROVE Plain(t)
  <2>1. /\ thread'[t].at = p /\ thread'[t].bring = thread[t].bring /\ thread'[t].call = thread[t].call
        /\ thread'[t].own = thread[t].own
    BY <1>1, <1>12 DEF AsksInventory, Set, Thread
  <2>2. QED
    BY <1>12, <2>1, OnPlain DEF Reviving
<1>13. ASSUME NEW p \in {"probe", "reopen"}, Goto(t, p), thread[t].at \in Reviving \cup {"claim"} PROVE Plain(t)
  BY <1>13, GotoFields, OnPlain DEF Places, Reviving
<1>14. CASE HelloWait(t) \/ Claim(t) \/ Probe(t) \/ Inventory(t) \/ InventoryWait(t)
  BY <1>2, <1>10, <1>11, <1>12, <1>13, <1>14
  DEF HelloWait, Claim, Probe, Inventory, InventoryWait, At, Reviving, Leaves, Set
<1>15. CASE ProbeWait(t)
  <2>1. CASE Set(t, [thread[t] EXCEPT !.at = "reopen", !.req = NoRequest, !.said = "none"])
    <3>1. /\ thread'[t].at = "reopen" /\ thread'[t].bring = thread[t].bring /\ thread'[t].call = thread[t].call
          /\ thread'[t].own = thread[t].own /\ thread[t].at = "probewait"
      BY <1>1, <1>15, <2>1 DEF Set, Thread, ProbeWait, At
    <3>2. QED
      BY <3>1, OnPlain DEF Reviving
  <2>2. QED
    BY <1>10, <1>11, <1>15, <2>1 DEF ProbeWait
<1>16. CASE Reopen(t)
  <2> DEFINE heard == Put(registered, "error")
  <2>1. /\ heard \in [Threads -> Thread]
        /\ \A u \in Threads : /\ heard[u].at = thread[u].at /\ heard[u].bring = thread[u].bring
                              /\ heard[u].call = thread[u].call /\ heard[u].own = thread[u].own
    BY PutKeeps DEF Answers
  <2> HIDE DEF heard
  <2>2. CASE thread' = [heard EXCEPT ![t].at = "inventory"]
    <3>1. /\ thread'[t].at = "inventory" /\ thread'[t].bring = thread[t].bring /\ thread'[t].call = thread[t].call
          /\ thread'[t].own = thread[t].own /\ thread[t].at = "reopen"
      BY <1>16, <2>1, <2>2 DEF Thread, Reopen, At
    <3>2. QED
      BY <3>1, OnPlain DEF Reviving
  <2>3. CASE RecoveryRaisesIn(heard, t)
    BY <2>1, <2>3, LeavesPlain DEF RecoveryRaisesIn
  <2>4. QED
    BY <1>10, <1>16, <2>2, <2>3 DEF Reopen, heard
<1>17. QED
  BY <1>3, <1>4, <1>5, <1>6, <1>7, <1>8, <1>9, <1>14, <1>15, <1>16, CallsPlain DEF CallStep, ThreadStep


\* A send adds one id.
LEMMA IdsAppend ==
  ASSUME NEW T, NEW q \in Seq(T), NEW e \in T
  PROVE  IdsOf(Append(q, e)) = IdsOf(q) \cup {e.id}
<1>1. InFlight(Append(q, e)) = InFlight(q) \cup {e}
  BY AppendInFlight
<1>2. QED
  BY <1>1 DEF IdsOf

\* A receipt takes one id.
LEMMA IdsTail ==
  ASSUME NEW T, NEW q \in Seq(T), q # <<>>
  PROVE  IdsOf(q) = IdsOf(Tail(q)) \cup {Head(q).id}
BY HeadInFlight, Zenon DEF IdsOf

\* An empty queue has no ids.
LEMMA IdsEmpty == IdsOf(<<>>) = {}
BY DEF IdsOf, InFlight

\* The ids of the queues are among the known ones.
LEMMA IdsKnown ==
  ASSUME IInv
  PROVE  IdsOf(wire) \cup IdsOf(replies) \subseteq Known
<1>1. DOMAIN wire = 1..Len(wire) /\ DOMAIN replies = 1..Len(replies)
  BY DEF IInv, TypeOK
<1>2. QED
  BY <1>1, Zenon DEF IdsOf, InFlight, Known

\* A send of an id that is not on the queue, or not one of those, and a receipt keep
\* each of them on it at most once.
LEMMA OnceAppend ==
  ASSUME NEW T, NEW q \in Seq(T), NEW e \in T, NEW ids, OnceEach(q, ids), e.id \notin ids \/ e.id \notin IdsOf(q)
  PROVE  OnceEach(Append(q, e), ids)
<1>1. DOMAIN q = 1..Len(q) /\ DOMAIN Append(q, e) = 1..(Len(q) + 1) /\ Len(q) \in Nat
  OBVIOUS
<1>2. \A i \in 1..Len(q) : Append(q, e)[i] = q[i] /\ q[i].id \in IdsOf(q)
  BY <1>1 DEF IdsOf, InFlight
<1>3. Append(q, e)[Len(q) + 1] = e
  OBVIOUS
<1>4. ASSUME NEW i \in 1..(Len(q) + 1), NEW j \in 1..(Len(q) + 1),
             Append(q, e)[i].id \in ids, Append(q, e)[j].id = Append(q, e)[i].id
      PROVE  i = j
  <2>1. (i \in 1..Len(q) \/ i = Len(q) + 1) /\ (j \in 1..Len(q) \/ j = Len(q) + 1)
    BY <1>1
  <2>2. QED
    BY <1>1, <1>2, <1>3, <1>4, <2>1 DEF OnceEach
<1>5. QED
  BY <1>1, <1>4 DEF OnceEach

\* A receipt keeps each id at most once, and takes the only one.
LEMMA OnceTail ==
  ASSUME NEW T, NEW q \in Seq(T), q # <<>>, NEW ids, OnceEach(q, ids)
  PROVE  OnceEach(Tail(q), ids) /\ (Head(q).id \in ids => Head(q).id \notin IdsOf(Tail(q)))
<1>1. Len(q) \in Nat \ {0} /\ DOMAIN q = 1..Len(q) /\ Head(q) = q[1] /\ DOMAIN Tail(q) = 1..(Len(q) - 1)
  OBVIOUS
<1>2. \A i \in 1..(Len(q) - 1) : Tail(q)[i] = q[i + 1] /\ i + 1 \in DOMAIN q /\ i + 1 # 1
  BY <1>1
<1>3. ASSUME NEW i \in 1..(Len(q) - 1), NEW j \in 1..(Len(q) - 1), Tail(q)[i].id \in ids, Tail(q)[j].id = Tail(q)[i].id
      PROVE  i = j
  <2>1. i + 1 = j + 1
    BY <1>2, <1>3 DEF OnceEach
  <2>2. QED
    BY <2>1
<1>4. ASSUME Head(q).id \in ids, Head(q).id \in IdsOf(Tail(q)) PROVE FALSE
  <2>1. PICK i \in DOMAIN Tail(q) : Tail(q)[i].id = Head(q).id
    BY <1>4 DEF IdsOf, InFlight
  <2>2. QED
    BY <1>1, <1>2, <1>4, <2>1 DEF OnceEach
<1>5. QED
  BY <1>1, <1>3, <1>4 DEF OnceEach

\* What a step of t means for the other threads: at most an error in their queues.
LEMMA OthersHear ==
  ASSUME IInv, [Next]_vars, NEW t \in Threads, CallStep(t), NEW u \in Threads, u # t
  PROVE  SameButSaid(u) /\ (thread'[u].said = "ok" => thread[u].said = "ok")
<1>1. thread \in [Threads -> Thread] /\ thread[u] \in Thread
  BY DEF IInv, TypeOK
<1>2. ASSUME NEW rec, thread' = [thread EXCEPT ![t] = rec] PROVE thread'[u] = thread[u]
  BY <1>1, <1>2
<1>3. CASE thread'[u] = thread[u]
  BY <1>3 DEF SameButSaid
<1>4. CASE Reopen(t)
  <2> DEFINE heard == Put(registered, "error")
  <2>1. /\ heard \in [Threads -> Thread]
        /\ heard[u].at = thread[u].at /\ heard[u].bring = thread[u].bring /\ heard[u].req = thread[u].req
        /\ heard[u].call = thread[u].call /\ heard[u].own = thread[u].own
    BY PutKeeps DEF Answers
  <2>2. heard[u].said \in {thread[u].said, "error"}
    BY <1>1 DEF Put, Thread
  <2>3. thread' = [heard EXCEPT ![t].at = "inventory"] \/ RecoveryRaisesIn(heard, t) \/ RecoveryRaises(t)
    BY <1>4 DEF Reopen
  <2> HIDE DEF heard
  <2>4. thread'[u] = heard[u] \/ thread'[u] = thread[u]
    BY <1>1, <2>1, <2>3 DEF RecoveryRaises, RecoveryRaisesIn
  <2>5. QED
    BY <1>3, <2>1, <2>2, <2>4 DEF SameButSaid
<1>5. CASE CallReset(t) \/ CallRecover(t) \/ CallsCommand(t) \/ Send(t)
  BY <1>2, <1>3, <1>5 DEF CallReset, CallRecover, CallsCommand, CallCommand, Send, Starts, Set
<1>6. CASE Open(t) \/ Admit(t) \/ Enlist(t) \/ ResetWrite(t) \/ ResetWait(t) \/ HelloWrite(t) \/ HelloWait(t)
  BY <1>2, <1>3, <1>6 DEF Open, Admit, Enlist, ResetWrite, ResetWait, HelloWrite, HelloWait, ResetRaises, Brought,
                          Leaves, Goto, Set
<1>7. CASE Write(t) \/ Wait(t) \/ Claim(t) \/ Probe(t) \/ ProbeWait(t) \/ Inventory(t) \/ InventoryWait(t)
  BY <1>2, <1>3, <1>7 DEF Write, Wait, Claim, Probe, ProbeWait, Inventory, InventoryWait, TimesOut, AsksInventory,
                          RecoveryRaises, RecoveryRaisesIn, Brought, Leaves, Goto, Set
<1>8. QED
  BY <1>4, <1>5, <1>6, <1>7 DEF CallStep, ThreadStep

\* The heading of a thread that nobody moved.
LEMMA SameHeading ==
  ASSUME NEW u \in Threads, SameButSaid(u)
  PROVE  Heading(u)' <=> Heading(u)
BY DEF SameButSaid, Heading


\* Nobody else is at the admission, the list or the write of a reset.
LEMMA OneAdmitted ==
  ASSUME IInv, NEW t \in Threads, NEW u \in Threads, thread[u].at \in Admitted, resetOwner \in {t, None}
  PROVE  u = t
BY Stepping DEF PlaceOK

\* What a step of a call does to the doubt about a reset.
LEMMA DoubtMoves ==
  ASSUME NEW t \in Threads, CallStep(t)
  PROVE  \/ UNCHANGED <<resetUnconfirmed, pendingResetIds>>
         \/ ResetWait(t) /\ thread[t].said = "ok" /\ pendingResetIds' = {} /\ resetUnconfirmed' = FALSE
         \/ Admit(t) /\ scope = {} /\ resetOwner = None /\ Goto(t, "enlist")
         \/ Enlist(t)
BY DEF CallStep, ThreadStep, CallReset, CallRecover, CallsCommand, CallCommand, Send, Open, Admit, Enlist, ResetWrite,
       ResetWait, HelloWrite, HelloWait, Write, Wait, Claim, Probe, ProbeWait, Reopen, Inventory, InventoryWait, admission

\* A step of a call that adds no reset to the wire.
LEMMA QuietWire ==
  ASSUME IInv, ResetInv, NEW t \in Threads, CallStep(t), UNCHANGED pendingResetIds,
         ResetWrite(t) => wire' = wire
  PROVE  /\ WireOK' /\ IdsOf(replies') \subseteq IdsOf(replies)
         /\ pendingResetIds \cap IdsOf(wire') \subseteq pendingResetIds \cap IdsOf(wire)
         /\ InFlight(wire') \subseteq InFlight(wire) \cup [kind : {"other"}, id : Ids]
<1>1. wire \in Seq(Orders) /\ WireOK /\ ResetOK(t) /\ pendingResetIds \subseteq Known
  BY DEF IInv, TypeOK, Orders, ResetInv, Known
<1>2. IdsOf(replies') \subseteq IdsOf(replies)
  BY ReplyMoves, IdsEmpty
<1>3. CASE wire' = wire
  BY <1>1, <1>2, <1>3 DEF WireOK
<1>4. ASSUME NEW i \in Ids, i \notin pendingResetIds, wire' = Append(wire, [kind |-> "other", id |-> i])
      PROVE  /\ WireOK' /\ pendingResetIds \cap IdsOf(wire') \subseteq pendingResetIds \cap IdsOf(wire)
             /\ InFlight(wire') \subseteq InFlight(wire) \cup [kind : {"other"}, id : Ids]
  <2> DEFINE e == [kind |-> "other", id |-> i]
  <2>1. e \in Orders /\ e.id = i /\ e.kind = "other" /\ e \in [kind : {"other"}, id : Ids]
    BY DEF Orders
  <2> HIDE DEF e
  <2>2. wire' = Append(wire, e)
    BY <1>4 DEF e
  <2>3. InFlight(wire') = InFlight(wire) \cup {e} /\ IdsOf(wire') = IdsOf(wire) \cup {i}
    BY <1>1, <2>1, <2>2, AppendInFlight, IdsAppend
  <2>4. OnceEach(wire', pendingResetIds)
    BY <1>1, <1>4, <2>1, <2>2, OnceAppend DEF WireOK
  <2>5. QED
    BY <1>1, <1>2, <1>4, <2>1, <2>3, <2>4 DEF WireOK
<1>5. CASE Write(t) /\ wire' = Append(wire, [kind |-> "other", id |-> thread[t].own])
  <2>1. thread[t].own \in Ids
    BY <1>5, Stepping DEF Write, At, RequestsOK, Thread
  <2>2. QED
    BY <1>1, <1>2, <1>4, <1>5, <2>1 DEF ResetOK
<1>6. CASE wire' = Append(wire, [kind |-> "other", id |-> Hello])
  <2>1. Hello \in Ids
    BY GatewayAssumption DEF Hello, Ids
  <2>2. QED
    BY <1>1, <1>2, <1>4, <1>6, <2>1 DEF WireOK
<1>7. CASE Fresh # {} /\ wire' = Append(wire, [kind |-> "other", id |-> NewId])
  BY <1>1, <1>2, <1>4, <1>7, NewIdFresh
<1>8. QED
  BY <1>2, <1>3, <1>5, <1>6, <1>7, WireMoves

\* A call heads for a reset alone and only while none is in doubt.
OneResetter == RepeatsReset = FALSE /\ \A r, s \in Resetters : r = s

\* The thread that a step makes head for a reset is the only one.
LEMMA HeadsAlone ==
  ASSUME IInv, [Next]_vars, ResetInv, OneResetter, NEW t \in Threads, CallStep(t), Plain(t), Heading(t)'
  PROVE  ~resetUnconfirmed /\ \A u \in Threads : Heading(u)' => u = t
<1>1. ResetOK(t) /\ t # None /\ PlaceOK(t)
  BY Stepping DEF ResetInv
<1>2. ~resetUnconfirmed
  BY <1>1 DEF Plain, ResetInv, ResetOK, CallReset, OneResetter
<1>3. ASSUME NEW u \in Threads, Heading(u)', u # t PROVE FALSE
  <2>1. Heading(u)
    BY <1>3, OthersHear, SameHeading
  <2>2. ResetOK(u) /\ PlaceOK(u) /\ u # None
    BY Stepping DEF ResetInv
  <2>3. CASE Heading(t)
    BY <1>3, <2>1, <2>3 DEF ResetInv
  <2>4. CASE CallReset(t)
    <3>1. thread[u].bring # "cold" /\ t \in Resetters
      BY <2>2, <2>4 DEF CallReset, PlaceOK
    <3>2. QED
      BY <1>3, <2>1, <2>2, <3>1 DEF Heading, ResetOK, OneResetter
  <2>5. CASE startupOwner = None /\ ~hasOpened
    BY <2>1, <2>2, <2>5 DEF Heading, ResetOK, PlaceOK
  <2>6. QED
    BY <2>3, <2>4, <2>5 DEF Plain
<1>4. QED
  BY <1>2, <1>3


\* The threads after a plain step that leaves the doubt as it is.
LEMMA QuietCall ==
  ASSUME IInv, [Next]_vars, ResetInv, OneResetter, NEW t \in Threads, CallStep(t), thread'[t].at \notin Admitted,
         UNCHANGED <<resetUnconfirmed, pendingResetIds>>
  PROVE  ResetInv'
<1>1. Plain(t) /\ ResetOK(t) /\ t # None
  BY StepsPlain, Stepping DEF ResetInv
<1>2. /\ WireOK' /\ IdsOf(replies') \subseteq IdsOf(replies)
      /\ pendingResetIds \cap IdsOf(wire') \subseteq pendingResetIds \cap IdsOf(wire)
  <2>1. ResetWrite(t) => wire' = wire
    <3>1. "resetwait" \in Admitted /\ "resetwait" \in Places
      BY DEF Admitted, Places
    <3>2. ~Goto(t, "resetwait")
      BY <3>1, GotoFields
    <3>3. QED
      BY <3>2 DEF ResetWrite
  <2>2. QED
    BY <2>1, QuietWire
<1>3. hasOpened => hasOpened'
  BY OpenedStays
<1>4. ResetOK(t)'
  <2>1. thread'[t].own \notin pendingResetIds
    <3>1. pendingResetIds \subseteq Known /\ pendingResetIds \subseteq Ids /\ NoRequest \notin Ids
      BY DEF Known, IInv, TypeOK, Ids, NoRequest
    <3>2. QED
      BY <1>1, <3>1, NewIdFresh DEF Plain, ResetOK
  <2>2. thread'[t].call = "reset" => t \in Resetters
    BY <1>1 DEF Plain, ResetOK, CallReset
  <2>3. QED
    BY <1>1, <2>1, <2>2, HeadsAlone DEF Plain, ResetOK, Admitted
<1>5. ASSUME NEW u \in Threads, u # t PROVE ResetOK(u)'
  <2>1. SameButSaid(u) /\ (thread'[u].said = "ok" => thread[u].said = "ok") /\ (Heading(u)' <=> Heading(u))
    BY <1>5, OthersHear, SameHeading
  <2>2. ResetOK(u)
    BY DEF ResetInv
  <2>3. QED
    BY <1>2, <1>3, <2>1, <2>2 DEF SameButSaid, ResetOK
<1>6. ASSUME NEW u \in Threads, NEW v \in Threads, Heading(u)', Heading(v)' PROVE u = v
  <2>1. CASE u = t \/ v = t
    BY <1>1, <1>6, <2>1, HeadsAlone
  <2>2. CASE u # t /\ v # t
    BY <1>6, <2>2, OthersHear, SameHeading DEF ResetInv
  <2>3. QED
    BY <2>1, <2>2
<1>7. QED
  BY <1>2, <1>3, <1>4, <1>5, <1>6 DEF ResetInv

\* The acknowledgement: the gateway has executed the only reset there was.
LEMMA ConfirmedCall ==
  ASSUME IInv, [Next]_vars, ResetInv, OneResetter, NEW t \in Threads, ResetWait(t), thread[t].said = "ok",
         pendingResetIds' = {}, resetUnconfirmed' = FALSE
  PROVE  ResetInv'
<1>s. CallStep(t)
  BY DEF CallStep, ThreadStep
<1>1. /\ ResetOK(t) /\ WireOK /\ thread[t].at = "resetwait" /\ wire' = wire /\ resetOwner = t
  BY Stepping DEF ResetInv, ResetWait, At, PlaceOK, Admitted
<1>2. \A e \in InFlight(wire) : e.kind # "reset"
  BY <1>1 DEF WireOK, ResetOK, IdsOf
<1>3. WireOK'
  BY <1>1, <1>2 DEF WireOK, OnceEach
<1>4. thread'[t].at \notin Admitted
  <2>1. CASE thread'[t] = IdleThread
    BY <2>1 DEF IdleThread, Admitted
  <2>2. CASE Goto(t, "hello")
    BY <2>2, GotoFields DEF Places, Admitted
  <2>3. QED
    BY <2>1, <2>2, Stepping DEF ResetWait, Leaves, Set
<1>5. Plain(t) /\ ~CallReset(t) /\ ~Send(t) /\ ~Heading(t)
  BY <1>s, <1>1, <1>4, StepsPlain DEF CallReset, Send, At, Heading, Reviving
<1>6. ~Heading(t)'
  BY <1>5 DEF Plain
<1>7. hasOpened => hasOpened'
  BY OpenedStays
<1>8. ResetOK(t)'
  BY <1>1, <1>4, <1>5, <1>6 DEF ResetOK, Plain, Admitted
<1>9. ASSUME NEW u \in Threads, u # t PROVE ResetOK(u)' /\ (Heading(u)' <=> Heading(u))
  <2>1. SameButSaid(u) /\ (thread'[u].said = "ok" => thread[u].said = "ok") /\ (Heading(u)' <=> Heading(u))
    BY <1>s, <1>9, OthersHear, SameHeading
  <2>2. ResetOK(u) /\ thread[u].at \notin Admitted
    BY <1>1, <1>9, OneAdmitted DEF ResetInv
  <2>3. QED
    BY <1>7, <2>1, <2>2 DEF SameButSaid, ResetOK, Admitted
<1>10. QED
  BY <1>3, <1>6, <1>8, <1>9 DEF ResetInv

\* The admission: nobody else heads for a reset, and none is pending.
LEMMA AdmittedCall ==
  ASSUME IInv, [Next]_vars, ResetInv, NEW t \in Threads, Admit(t), resetOwner = None, Goto(t, "enlist")
  PROVE  ResetInv'
<1>s. CallStep(t)
  BY DEF CallStep, ThreadStep
<1>1. /\ "enlist" \in Places /\ thread[t].at = "admit" /\ ResetOK(t) /\ hasOpened /\ WireOK
  BY Stepping DEF Places, Admit, At, ResetInv, PlaceOK, Resetting
<1>2. /\ thread'[t].at = "enlist" /\ thread'[t].bring = thread[t].bring /\ thread'[t].call = thread[t].call
      /\ thread'[t].own = thread[t].own /\ thread'[t].said = thread[t].said
  BY <1>1, GotoFields
<1>3. Heading(t) /\ pendingResetIds = {}
  BY <1>1 DEF ResetOK, ResetInv
<1>4. /\ UNCHANGED <<pendingResetIds, wire, hasOpened>> /\ resetUnconfirmed' = TRUE /\ replies' = replies
  <2>1. ~Set(t, IdleThread)
    BY <1>2, Stepping DEF Set, IdleThread
  <2>2. QED
    BY <2>1 DEF Admit, ResetRaises, transport
<1>5. ~Heading(t)'
  BY <1>2 DEF Heading, Reviving
<1>6. ResetOK(t)'
  BY <1>1, <1>2, <1>3, <1>4, <1>5 DEF ResetOK
<1>7. ASSUME NEW u \in Threads, u # t PROVE ResetOK(u)' /\ ~Heading(u)'
  <2>1. SameButSaid(u) /\ (thread'[u].said = "ok" => thread[u].said = "ok") /\ (Heading(u)' <=> Heading(u))
    BY <1>s, <1>7, OthersHear, SameHeading
  <2>2. ResetOK(u) /\ thread[u].at \notin Admitted /\ ~Heading(u)
    BY <1>3, <1>7, OneAdmitted DEF ResetInv
  <2>3. QED
    BY <1>4, <2>1, <2>2 DEF SameButSaid, ResetOK, Admitted
<1>8. WireOK'
  BY <1>1, <1>4 DEF WireOK
<1>9. QED
  BY <1>1, <1>4, <1>5, <1>6, <1>7, <1>8 DEF ResetInv

\* The request of the reset is listed: no queue and no thread knows its id.
LEMMA EnlistedCall ==
  ASSUME IInv, [Next]_vars, ResetInv, NEW t \in Threads, Enlist(t)
  PROVE  ResetInv'
<1>s. CallStep(t)
  BY DEF CallStep, ThreadStep
<1>1. /\ thread[t].at = "enlist" /\ thread[t] \in Thread /\ ResetOK(t) /\ WireOK /\ resetOwner = t
      /\ thread \in [Threads -> Thread]
  BY Stepping DEF Enlist, At, ResetInv, PlaceOK, Admitted
<1>2. pendingResetIds = {} /\ resetUnconfirmed
  BY <1>1 DEF ResetOK
<1>3. /\ NewId \in Ids /\ NewId \notin Known /\ NewId # Hello
      /\ pendingResetIds' = {NewId} /\ UNCHANGED <<resetUnconfirmed, wire, replies, hasOpened>>
  BY <1>2, NewIdFresh DEF Enlist, Registers, transport
<1>4. NewId \notin IdsOf(wire) \cup IdsOf(replies) /\ \A u \in Threads : NewId # thread[u].own
  BY <1>3, IdsKnown DEF Known, Mine
<1>5. /\ thread'[t].at = "resetwrite" /\ thread'[t].bring = thread[t].bring /\ thread'[t].call = thread[t].call
      /\ thread'[t].own = thread[t].own /\ thread'[t].said = thread[t].said /\ thread'[t].req = NewId
  BY <1>1 DEF Enlist, Set, Thread
<1>6. ~Heading(t)'
  BY <1>5 DEF Heading, Reviving
<1>7. WireOK'
  <2>1. \A i \in DOMAIN wire : wire[i].id \in IdsOf(wire)
    BY DEF IdsOf, InFlight
  <2>2. QED
    BY <1>1, <1>2, <1>3, <1>4, <2>1 DEF WireOK, OnceEach
<1>8. ResetOK(t)'
  BY <1>1, <1>2, <1>3, <1>4, <1>5, <1>6 DEF ResetOK
<1>9. ASSUME NEW u \in Threads, u # t PROVE ResetOK(u)' /\ (Heading(u)' <=> Heading(u))
  <2>1. SameButSaid(u) /\ (thread'[u].said = "ok" => thread[u].said = "ok") /\ (Heading(u)' <=> Heading(u))
    BY <1>s, <1>9, OthersHear, SameHeading
  <2>2. ResetOK(u) /\ thread[u].at \notin Admitted
    BY <1>1, <1>9, OneAdmitted DEF ResetInv
  <2>3. QED
    BY <1>3, <1>4, <2>1, <2>2 DEF SameButSaid, ResetOK, Admitted
<1>10. QED
  BY <1>2, <1>3, <1>6, <1>7, <1>8, <1>9 DEF ResetInv

\* The reset is written: its id is on the wire once and has not been answered.
LEMMA WrittenCall ==
  ASSUME IInv, [Next]_vars, ResetInv, NEW t \in Threads, ResetWrite(t), Goto(t, "resetwait"),
         wire' = Append(wire, [kind |-> "reset", id |-> thread[t].req]), replies' = replies
  PROVE  ResetInv'
<1>s. CallStep(t)
  BY DEF CallStep, ThreadStep
<1>1. /\ thread[t].at = "resetwrite" /\ thread[t] \in Thread /\ ResetOK(t) /\ WireOK /\ resetOwner = t
      /\ RequestsOK(t) /\ "resetwait" \in Places /\ wire \in Seq(Orders)
  BY Stepping DEF ResetWrite, At, ResetInv, PlaceOK, Admitted, Places, IInv, TypeOK, Orders
<1>2. /\ pendingResetIds = {thread[t].req} /\ thread[t].req \notin IdsOf(wire) \cup IdsOf(replies)
      /\ thread[t].said # "ok" /\ resetUnconfirmed
  BY <1>1 DEF ResetOK
<1>3. /\ thread'[t].at = "resetwait" /\ thread'[t].bring = thread[t].bring /\ thread'[t].call = thread[t].call
      /\ thread'[t].own = thread[t].own /\ thread'[t].said = thread[t].said /\ thread'[t].req = thread[t].req
  BY <1>1, GotoFields
<1>4. UNCHANGED <<resetUnconfirmed, pendingResetIds>>
  BY DEF ResetWrite
<1>5. WireOK'
  <2> DEFINE e == [kind |-> "reset", id |-> thread[t].req]
  <2>1. thread[t].req \in Ids
    BY <1>1 DEF RequestsOK, Thread
  <2>2. e \in Orders /\ e.id = thread[t].req
    BY <2>1 DEF Orders
  <2> HIDE DEF e
  <2>3. wire' = Append(wire, e)
    BY DEF e
  <2>4. InFlight(wire') = InFlight(wire) \cup {e} /\ IdsOf(wire') = IdsOf(wire) \cup {e.id}
    BY <1>1, <2>2, <2>3, AppendInFlight, IdsAppend
  <2>5. OnceEach(wire', pendingResetIds)
    BY <1>1, <1>2, <2>2, <2>3, OnceAppend DEF WireOK
  <2>6. QED
    BY <1>1, <1>2, <1>4, <2>2, <2>4, <2>5 DEF WireOK
<1>6. ~Heading(t)' /\ (hasOpened => hasOpened')
  BY <1>3, OpenedStays DEF Heading, Reviving
<1>7. ResetOK(t)'
  BY <1>1, <1>2, <1>3, <1>4, <1>6 DEF ResetOK
<1>9. ASSUME NEW u \in Threads, u # t PROVE ResetOK(u)' /\ (Heading(u)' <=> Heading(u))
  <2>1. SameButSaid(u) /\ (thread'[u].said = "ok" => thread[u].said = "ok") /\ (Heading(u)' <=> Heading(u))
    BY <1>s, <1>9, OthersHear, SameHeading
  <2>2. ResetOK(u) /\ thread[u].at \notin Admitted
    BY <1>1, <1>9, OneAdmitted DEF ResetInv
  <2>3. QED
    BY <1>4, <1>6, <2>1, <2>2 DEF SameButSaid, ResetOK, Admitted
<1>10. QED
  BY <1>2, <1>4, <1>5, <1>6, <1>7, <1>9 DEF ResetInv


\* The places of a reset from its admission on are reached in their order only.
LEMMA AdmissionMoves ==
  ASSUME IInv, [Next]_vars, NEW t \in Threads, CallStep(t), thread'[t].at \in Admitted
  PROVE  \/ Enlist(t) \/ (ResetWrite(t) /\ Goto(t, "resetwait"))
         \/ Admit(t) /\ scope = {} /\ resetOwner = None /\ Goto(t, "enlist")
<1>1. thread \in [Threads -> Thread] /\ thread[t] \in Thread /\ PlaceOK(t) /\ PlaceOK(t)' /\ resetOwner' = t /\ t # None
  BY Stepping, IInvStep DEF PlaceOK, IInv
<1>2. CASE resetOwner # t
  BY <1>1, <1>2 DEF CallStep, ThreadStep, CallReset, CallRecover, CallsCommand, CallCommand, Send, Open, Admit,
       ResetWrite, ResetWait, HelloWrite, HelloWait, Write, Wait, Claim, Probe, ProbeWait, Reopen, Inventory,
       InventoryWait, ResetRaises, admission
<1>3. CASE resetOwner = t
  <2>1. thread[t].at \in Admitted
    BY <1>1, <1>3 DEF PlaceOK
  <2>2. Enlist(t) \/ ResetWrite(t) \/ ResetWait(t)
    BY <2>1 DEF CallStep, ThreadStep, CallReset, CallRecover, CallsCommand, CallCommand, Send, Open, Admit,
         HelloWrite, HelloWait, Write, Wait, Claim, Probe, ProbeWait, Reopen, Inventory, InventoryWait, At, Admitted
  <2>3. QED
    BY <1>1, <1>3, <2>2 DEF ResetWrite, ResetWait, ResetRaises
<1>4. QED
  BY <1>2, <1>3


\* A step that moves no thread, with a wire and replies that are still in order.
LEMMA UnmovedReset ==
  ASSUME IInv, [Next]_vars, ResetInv, UNCHANGED <<resetUnconfirmed, pendingResetIds, thread>>, WireOK',
         \A t \in Threads : thread[t].at = "resetwrite" => thread[t].req \notin IdsOf(wire') \cup IdsOf(replies'),
         IdsOf(wire') \subseteq IdsOf(wire)
  PROVE  ResetInv'
<1>1. hasOpened => hasOpened'
  BY OpenedStays
<1>2. ASSUME NEW t \in Threads PROVE ResetOK(t)' /\ (Heading(t)' <=> Heading(t))
  <2>1. ResetOK(t)
    BY DEF ResetInv
  <2>2. Heading(t)' <=> Heading(t)
    BY DEF Heading
  <2>3. QED
    BY <1>1, <2>1, <2>2 DEF ResetOK
<1>3. QED
  BY <1>1, <1>2 DEF ResetInv

\* The reader: an acknowledgement that it routes belongs to a reset that the gateway
\* has executed.
LEMMA RouteReset ==
  ASSUME IInv, [Next]_vars, ResetInv, Route
  PROVE  ResetInv'
<1> DEFINE m == Head(replies)
           heard == Put({m.id}, m.says)
<1>1. /\ replies \in Seq(Notices) /\ replies # <<>> /\ WireOK /\ wire' = wire /\ replies' = Tail(replies)
      /\ UNCHANGED hasOpened
  BY DEF IInv, TypeOK, Notices, ResetInv, Route, transport
<1>2. IdsOf(replies) = IdsOf(replies') \cup {m.id} /\ m \in Notices
  BY <1>1, IdsTail, TailInFlight
<1>3. m.id \in pendingResetIds => m.id \notin IdsOf(wire)
  BY <1>1, <1>2 DEF WireOK
<1>4. \/ UNCHANGED <<resetUnconfirmed, pendingResetIds>>
      \/ /\ m.id \in pendingResetIds /\ pendingResetIds' = pendingResetIds \ {m.id}
         /\ resetUnconfirmed' = (pendingResetIds' # {})
  BY DEF Route
<1>5. WireOK'
  <2>1. \A e \in InFlight(wire) : e.id \in IdsOf(wire)
    BY DEF IdsOf
  <2>2. QED
    BY <1>1, <1>2, <1>3, <1>4, <2>1 DEF WireOK, OnceEach
<1>6. thread' = heard /\ m.says \in Answers
  BY <1>2 DEF Route, Notices, Answers
<1>7. ASSUME NEW u \in Threads
      PROVE  /\ SameButSaid(u)
             /\ thread'[u].said = "ok" => thread[u].said = "ok" \/ (thread[u].req = m.id /\ m.id \in registered)
  <2>1. SameButSaid(u)
    BY <1>6, PutKeeps DEF SameButSaid
  <2>2. thread[u] \in Thread
    BY Stepping
  <2>3. heard[u].said = IF thread[u].req \in {m.id} \cap registered /\ thread[u].said = "none"
                        THEN m.says ELSE thread[u].said
    BY <2>2 DEF Put, Thread
  <2>4. QED
    BY <1>6, <2>1, <2>3
<1> HIDE DEF heard, m
<1>8. NoRequest \notin registered
  BY DEF IInv, TypeOK, Ids, NoRequest
<1>9. ASSUME NEW u \in Threads PROVE ResetOK(u)' /\ (Heading(u)' <=> Heading(u))
  <2>1. ResetOK(u) /\ RequestsOK(u) /\ SameButSaid(u) /\ (Heading(u)' <=> Heading(u))
    BY <1>7, Stepping, SameHeading DEF ResetInv
  <2>2. Heading(u) => ~resetUnconfirmed'
    BY <1>4, <2>1 DEF ResetOK, ResetInv
  <2>3. thread[u].at \in {"send", "open", "admit", "enlist", "resetwrite"} => thread'[u].said # "ok"
    BY <1>2, <1>7, <1>8, <2>1 DEF ResetOK, RequestsOK
  <2>4. thread[u].at = "enlist" => resetUnconfirmed' /\ pendingResetIds' = {}
    BY <1>4, <2>1 DEF ResetOK
  <2>5. thread[u].at = "resetwrite" => /\ resetUnconfirmed' /\ pendingResetIds' = {thread[u].req}
                                       /\ thread[u].req \notin IdsOf(wire') \cup IdsOf(replies')
    BY <1>1, <1>2, <1>4, <2>1 DEF ResetOK
  <2>6. thread[u].at = "resetwait" => /\ pendingResetIds' \subseteq {thread[u].req}
                                      /\ thread'[u].said = "ok" => pendingResetIds' \cap IdsOf(wire') = {}
    BY <1>1, <1>2, <1>3, <1>4, <1>7, <2>1 DEF ResetOK
  <2>7. QED
    BY <1>1, <1>4, <2>1, <2>2, <2>3, <2>4, <2>5, <2>6 DEF SameButSaid, ResetOK
<1>10. (pendingResetIds' # {} => resetUnconfirmed') /\ (~hasOpened' => ~resetUnconfirmed')
  <2>1. (pendingResetIds # {} => resetUnconfirmed) /\ (~hasOpened => ~resetUnconfirmed)
    BY DEF ResetInv
  <2>2. CASE UNCHANGED <<resetUnconfirmed, pendingResetIds>>
    BY <1>1, <2>1, <2>2
  <2>3. CASE m.id \in pendingResetIds /\ resetUnconfirmed' = (pendingResetIds' # {})
    <3>1. hasOpened'
      BY <1>1, <2>1, <2>3
    <3>2. pendingResetIds' # {} => resetUnconfirmed'
      BY <2>3
    <3>3. QED
      BY <3>1, <3>2
  <2>4. QED
    BY <1>4, <2>2, <2>3
<1>11. QED
  BY <1>5, <1>9, <1>10 DEF ResetInv

\* The gateway executes the oldest command.
LEMMA GatewayReset ==
  ASSUME IInv, [Next]_vars, ResetInv, Gateway
  PROVE  ResetInv'
<1> DEFINE c == Head(wire)
<1>1. /\ wire \in Seq(Orders) /\ replies \in Seq(Notices) /\ wire # <<>> /\ WireOK /\ wire' = Tail(wire)
      /\ UNCHANGED <<resetUnconfirmed, pendingResetIds, thread>>
  BY DEF IInv, TypeOK, Orders, Notices, ResetInv, Gateway, admission
<1>2. /\ IdsOf(wire) = IdsOf(wire') \cup {c.id} /\ c \in Orders /\ InFlight(wire') \subseteq InFlight(wire)
      /\ OnceEach(wire', pendingResetIds) /\ (c.id \in pendingResetIds => c.id \notin IdsOf(wire'))
  BY <1>1, IdsTail, TailInFlight, OnceTail DEF WireOK
<1>3. IdsOf(replies') \subseteq IdsOf(replies) \cup {c.id}
  <2>1. ASSUME NEW says \in {"ok", "error"}, replies' = Append(replies, [kind |-> c.kind, id |-> c.id, says |-> says])
        PROVE  IdsOf(replies') \subseteq IdsOf(replies) \cup {c.id}
    <3> DEFINE e == [kind |-> c.kind, id |-> c.id, says |-> says]
    <3>1. e \in Notices /\ e.id = c.id
      BY <1>2 DEF Notices, Orders
    <3> HIDE DEF e
    <3>2. replies' = Append(replies, e)
      BY <2>1 DEF e
    <3>3. QED
      BY <1>1, <3>1, <3>2, IdsAppend
  <2>2. QED
    BY <2>1 DEF Gateway
<1> HIDE DEF c
<1>4. WireOK'
  BY <1>1, <1>2, <1>3 DEF WireOK
<1>5. \A t \in Threads : thread[t].at = "resetwrite" => thread[t].req \notin IdsOf(wire') \cup IdsOf(replies')
  BY <1>2, <1>3 DEF ResetInv, ResetOK
<1>6. QED
  BY <1>1, <1>2, <1>4, <1>5, UnmovedReset

\* The acquisition scope, a close, and a reader that fails or is held up.
LEMMA OthersReset ==
  ASSUME IInv, [Next]_vars, ResetInv, OtherStep
  PROVE  ResetInv'
<1>1. CASE \/ \E S \in SUBSET Addresses, append \in BOOLEAN : SetScope(S, append)
           \/ Close \/ ReadFails \/ ReaderStuck \/ ReaderReturns \/ UNCHANGED vars
  <2>1. UNCHANGED <<resetUnconfirmed, pendingResetIds, thread, wire>> /\ replies' \in {replies, <<>>}
    BY <1>1 DEF SetScope, Close, ReadFails, ReaderStuck, ReaderReturns, TransportFailure, CloseTransport, vars, admission
  <2>2. IdsOf(replies') \subseteq IdsOf(replies)
    BY <2>1, IdsEmpty
  <2>3. WireOK'
    BY <2>1, <2>2 DEF WireOK, ResetInv
  <2>4. \A t \in Threads : thread[t].at = "resetwrite" => thread[t].req \notin IdsOf(wire') \cup IdsOf(replies')
    BY <2>1, <2>2 DEF ResetInv, ResetOK
  <2>5. QED
    BY <2>1, <2>3, <2>4, UnmovedReset
<1>2. QED
  BY <1>1, RouteReset, GatewayReset DEF OtherStep

\* The invariant of a reset is kept by every step.
LEMMA ResetInvStep ==
  ASSUME IInv, [Next]_vars, ResetInv, OneResetter
  PROVE  ResetInv'
<1>1. ASSUME NEW t \in Threads, CallStep(t) PROVE ResetInv'
  <2>1. CASE Enlist(t)
    BY <2>1, EnlistedCall
  <2>2. CASE ResetWait(t) /\ thread[t].said = "ok" /\ pendingResetIds' = {} /\ resetUnconfirmed' = FALSE
    BY <2>2, ConfirmedCall
  <2>3. CASE Admit(t) /\ resetOwner = None /\ Goto(t, "enlist")
    BY <2>3, AdmittedCall
  <2>4. CASE ResetWrite(t) /\ Goto(t, "resetwait")
    <3>1. thread'[t].at = "resetwait"
      BY <2>4, GotoFields DEF Places
    <3>2. ~Set(t, IdleThread)
      BY <3>1, Stepping DEF Set, IdleThread
    <3>3. wire' = Append(wire, [kind |-> "reset", id |-> thread[t].req]) /\ replies' = replies
      BY <2>4, <3>2 DEF ResetWrite, ResetRaises
    <3>4. QED
      BY <2>4, <3>3, WrittenCall
  <2>5. CASE /\ UNCHANGED <<resetUnconfirmed, pendingResetIds>> /\ ~Enlist(t)
             /\ ~(Admit(t) /\ resetOwner = None /\ Goto(t, "enlist")) /\ ~(ResetWrite(t) /\ Goto(t, "resetwait"))
    <3>1. thread'[t].at \notin Admitted
      BY <1>1, <2>5, AdmissionMoves
    <3>2. QED
      BY <1>1, <2>5, <3>1, QuietCall
  <2>6. QED
    BY <1>1, <2>1, <2>2, <2>3, <2>4, <2>5, DoubtMoves
<1>2. QED
  BY <1>1, OthersReset DEF Next, CallStep, CallsCommand, OtherStep


\* Nothing is in doubt before the first call.
LEMMA InitReset == Init => ResetInv
<1> SUFFICES ASSUME Init PROVE ResetInv
  OBVIOUS
<1>1. \A t \in Threads : thread[t] = IdleThread
  BY DEF Init
<1>2. IdleThread.at = "idle" /\ IdleThread.bring = "none" /\ IdleThread.call = "none" /\ IdleThread.own = NoRequest
  BY DEF IdleThread
<1>3. InFlight(wire) = {} /\ IdsOf(wire) = {} /\ DOMAIN wire = {}
  BY IdsEmpty DEF Init, InFlight
<1>4. \A t \in Threads : ~Heading(t)
  BY <1>1, <1>2 DEF Heading, Reviving
<1>5. WireOK
  BY <1>3 DEF Init, WireOK, OnceEach
<1>6. ASSUME NEW t \in Threads PROVE ResetOK(t)
  BY <1>1, <1>2, <1>4 DEF Init, ResetOK
<1>7. QED
  BY <1>4, <1>5, <1>6 DEF Init, ResetInv

\* The wire of an acquisition.
NoResetOnWire == \A e \in InFlight(wire) : e.kind # "reset"

\* While a sensor acquires, no call brings the exclusion to an end.
Apart ==
  scope # {} => /\ NoResetOnWire /\ resetOwner = None
                /\ \A t \in Threads : thread[t].bring # "cold"

\* No step of a call begins a reset or a first start beside an acquisition.
LEMMA ApartCall ==
  ASSUME IInv, [Next]_vars, ResetInv, Apart, NEW t \in Threads, CallStep(t)
  PROVE  Apart'
<1>1. scope' = scope
  BY DEF CallStep, ThreadStep, CallReset, CallRecover, CallsCommand, CallCommand, Send, Open, Admit, Enlist, ResetWrite,
       ResetWait, HelloWrite, HelloWait, Write, Wait, Claim, Probe, ProbeWait, Reopen, Inventory, InventoryWait, admission
<1> SUFFICES ASSUME scope # {} PROVE Apart'
  BY <1>1 DEF Apart
<1>2. /\ NoResetOnWire /\ resetOwner = None /\ \A u \in Threads : thread[u].bring # "cold"
  BY DEF Apart
<1>3. thread[t].at \notin Admitted /\ t # None
  BY <1>2, Stepping DEF PlaceOK
<1>4. ~Enlist(t) /\ ~ResetWrite(t) /\ ~ResetWait(t)
  BY <1>3 DEF Enlist, ResetWrite, ResetWait, At, Admitted
<1>5. thread'[t].at \notin Admitted
  BY <1>4, AdmissionMoves
<1>6. resetOwner' = None
  <2>1. PlaceOK(t)'
    BY IInvStep DEF IInv
  <2>2. QED
    BY <1>2, <1>3, <1>5, <2>1, ResetMoves DEF PlaceOK
<1>7. NoResetOnWire'
  <2>1. UNCHANGED pendingResetIds
    BY <1>4, <1>5, DoubtMoves, GotoFields DEF Admitted, Places
  <2>2. InFlight(wire') \subseteq InFlight(wire) \cup [kind : {"other"}, id : Ids]
    BY <1>4, <2>1, QuietWire
  <2>3. QED
    BY <1>2, <2>2 DEF NoResetOnWire
<1>8. ASSUME NEW u \in Threads PROVE thread'[u].bring # "cold"
  <2>1. CASE u = t
    BY <1>2, <1>5, <2>1, StepsPlain DEF Plain
  <2>2. CASE u # t
    BY <1>2, <2>2, OthersHear DEF SameButSaid
  <2>3. QED
    BY <2>1, <2>2
<1>9. QED
  BY <1>6, <1>7, <1>8 DEF Apart

\* A scope is set only when no reset is under way, whoever began it.
LEMMA ApartOthers ==
  ASSUME IInv, [Next]_vars, ResetInv, Apart, OtherStep
  PROVE  Apart'
<1>1. /\ UNCHANGED <<resetOwner, startupOwner>>
  BY DEF OtherStep, SetScope, Close, Route, ReadFails, ReaderStuck, ReaderReturns, Gateway, vars, admission
<1>2. InFlight(wire') \subseteq InFlight(wire)
  <2>1. wire \in Seq(Orders)
    BY DEF IInv, TypeOK, Orders
  <2>2. wire' = wire \/ (wire # <<>> /\ wire' = Tail(wire))
    BY DEF OtherStep, SetScope, Close, Route, ReadFails, ReaderStuck, ReaderReturns, Gateway, vars
  <2>3. QED
    BY <2>1, <2>2, TailInFlight
<1>3. \A u \in Threads : thread'[u].bring = thread[u].bring
  <2>1. CASE Route
    <3> DEFINE m == Head(replies)
    <3>1. replies \in Seq(Notices) /\ replies # <<>> /\ thread' = Put({m.id}, m.says)
      BY <2>1 DEF IInv, TypeOK, Notices, Route
    <3>2. m \in Notices
      BY <3>1, TailInFlight
    <3>3. m.says \in Answers
      BY <3>2 DEF Notices, Answers
    <3>4. QED
      BY <3>1, <3>3, PutKeeps
  <2>2. QED
    BY <2>1 DEF OtherStep, SetScope, Close, ReadFails, ReaderStuck, ReaderReturns, Gateway, vars
<1>4. CASE scope' = {} \/ scope' = scope
  BY <1>1, <1>2, <1>3, <1>4 DEF Apart, NoResetOnWire
<1>5. CASE startupOwner = None /\ resetOwner = None /\ ~resetUnconfirmed
  <2>1. NoResetOnWire
    BY <1>5 DEF ResetInv, WireOK, NoResetOnWire
  <2>2. \A u \in Threads : thread[u].bring # "cold"
    BY <1>5, Stepping DEF PlaceOK
  <2>3. QED
    BY <1>1, <1>2, <1>3, <1>5, <2>1, <2>2 DEF Apart, NoResetOnWire
<1>6. QED
  BY <1>4, <1>5 DEF OtherStep, SetScope, Close, Route, ReadFails, ReaderStuck, ReaderReturns, Gateway, vars, admission

\* set_acquisition_scope and reset_session exclude each other for any number of
\* threads, sensors, requests and faults, when one service resets and does not ask
\* again while its last reset is unconfirmed: no BLE reset is admitted, waits for the
\* gateway or is still to be executed by it while a sensor acquires, also one whose
\* caller gave up, and nobody opens the port for the first time.
THEOREM AcquisitionIsSafe ==
  ASSUME RepeatsReset = FALSE, \A r, s \in Resetters : r = s
  PROVE  Spec => []AcquisitionExcludesReset
<1>1. OneResetter
  BY DEF OneResetter
<1>2. Init => IInv /\ ResetInv /\ Apart
  BY InitIInv, InitReset DEF Init, Apart
<1>3. IInv /\ ResetInv /\ Apart /\ [Next]_vars => IInv' /\ ResetInv' /\ Apart'
  <2>1. IInv /\ ResetInv /\ Apart /\ [Next]_vars => Apart'
    BY ApartCall, ApartOthers DEF Next, CallStep, CallsCommand, OtherStep
  <2>2. QED
    BY <1>1, <2>1, IInvStep, ResetInvStep
<1>4. IInv /\ Apart => AcquisitionExcludesReset
  <2> SUFFICES ASSUME IInv, Apart, scope # {} PROVE AcquisitionExcludesReset
    BY DEF AcquisitionExcludesReset
  <2>1. NoResetOnWire /\ resetOwner = None /\ \A t \in Threads : thread[t].bring # "cold"
    BY DEF Apart
  <2>2. DOMAIN wire = 1..Len(wire)
    BY DEF IInv, TypeOK
  <2>3. ~ResetUnderWay
    BY <2>1, <2>2 DEF NoResetOnWire, InFlight, ResetUnderWay
  <2>4. QED
    BY <2>1, <2>3 DEF AcquisitionExcludesReset
<1>5. QED
  BY <1>2, <1>3, <1>4, PTL DEF Spec

-----------------------------------------------------------------------------
(* The Wi-Fi network *)

\* The steps of a discovery that hold the lock.
Locked == {"candidate", "join", "identify", "provision", "cleanup", "quiesce", "activate", "restart", "leave"}

\* What the manager loop knows of a discovery.
Operations ==
  [pc: Locked \cup {"groups", "enter", "rejoin", "cache"}, pending: SUBSET Sensors, excluded: SUBSET Devices,
   attempt: {1, 2}, devices: SUBSET Devices, known: SUBSET (Devices \cup {Unset}), tried: SUBSET Devices,
   device: Devices \cup {Unset}, failed: BOOLEAN, gone: BOOLEAN, restart: BOOLEAN]

\* A sensor's address is a device's or none.
IsSensor(r) ==
  /\ r = [address |-> r.address, handle |-> r.handle, connected |-> r.connected]
  /\ r.address \in Devices \cup {Unset} /\ r.connected \in BOOLEAN

\* The shapes of the state.
ShapesOK ==
  /\ scan \in SUBSET Devices
  /\ lock \in BOOLEAN /\ hosting \in BOOLEAN
  /\ adapter \in [init: BOOLEAN, closing: BOOLEAN, network: BOOLEAN]
  /\ sensor = [s \in Sensors |-> sensor[s]] /\ \A s \in Sensors : IsSensor(sensor[s])
  /\ op = Idle \/ op \in Operations
  /\ lock <=> op.pc \in Locked

\* At the end of a session the radio hosts the access point or a failure was reported.
SessionOK == hosting /\ op.pc = "leave" => radio = Hosting

\* A discovery under way searches for sensors without a connection, and has excluded the
\* addresses of all others.
SearchOK ==
  op # Idle /\ ~adapter.closing =>
    /\ adapter.init /\ op.pending # {} /\ op.pending \subseteq Unconnected
    /\ op.excluded = Excluded(op.pending)
    /\ ~PerSubject => op.pending = Unconnected

\* The invariant.
NetworkInv == ShapesOK /\ SessionOK /\ RadioRestored /\ SearchOK /\ AddressesDistinct

\* The backend starts with no discovery and no addresses.
LEMMA NetworkInitially == WifiInit => NetworkInv
<1> SUFFICES ASSUME WifiInit PROVE NetworkInv
  OBVIOUS
<1> USE DEF WifiInit, Idle, NewAdapter, FreshSensor, Unset
<1>1. ShapesOK
  BY DEF ShapesOK, IsSensor, Locked
<1>2. SessionOK /\ RadioRestored /\ SearchOK /\ AddressesDistinct
  BY DEF SessionOK, RadioRestored, SearchOK, AddressesDistinct
<1>3. QED
  BY <1>1, <1>2 DEF NetworkInv

\* Steps that leave the sensors, the adapter and the discovery alone keep the search and the addresses.
LEMMA SearchKept ==
  ASSUME SearchOK, AddressesDistinct, UNCHANGED <<sensor, adapter>>,
         \/ op' = Idle
         \/ op # Idle /\ op'.pending = op.pending /\ op'.excluded = op.excluded
  PROVE  SearchOK' /\ AddressesDistinct'
BY DEF SearchOK, AddressesDistinct, Unconnected, Excluded, Unset

\* A step of the environment.
LEMMA WorldMoves ==
  ASSUME NetworkInv, UNCHANGED <<radio, scan, adapter, lock, sensor, op, hosting>>
  PROVE  NetworkInv'
<1>1. ShapesOK'
  BY DEF NetworkInv, ShapesOK, IsSensor
<1>2. SearchOK' /\ AddressesDistinct'
  BY DEF NetworkInv, SearchOK, AddressesDistinct, Unconnected, Excluded
<1>3. QED
  BY <1>1, <1>2 DEF NetworkInv, SessionOK, RadioRestored

\* A step of a discovery that is not its end.
LEMMA DiscoveryGoesOn ==
  ASSUME NetworkInv, op \in Operations, op' = Idle \/ op' \in Operations,
         op' # Idle => op'.pending = op.pending /\ op'.excluded = op.excluded,
         UNCHANGED <<sensor, adapter>>, scan' \in SUBSET Devices, lock' \in BOOLEAN, hosting' \in BOOLEAN,
         lock' <=> op'.pc \in Locked,
         hosting' /\ (~lock' \/ op'.pc = "leave") => radio' = Hosting
  PROVE  NetworkInv'
<1>1. ShapesOK'
  BY DEF NetworkInv, ShapesOK, IsSensor
<1>2. op # Idle
  BY DEF Operations, Idle, Locked
<1>3. SearchOK' /\ AddressesDistinct'
  BY <1>2, SearchKept DEF NetworkInv
<1>4. QED
  BY <1>1, <1>3 DEF NetworkInv, SessionOK, RadioRestored

\* A step of a discovery outside a session.
LEMMA OutsideGoesOn ==
  ASSUME NetworkInv, op \in Operations, UNCHANGED <<radio, scan, adapter, lock, sensor, hosting>>, ~lock,
         \/ op' = Idle
         \/ op' \in Operations /\ op'.pc \in {"groups", "enter", "cache"} /\ op'.pending = op.pending
            /\ op'.excluded = op.excluded
  PROVE  NetworkInv'
<1>1. op'.pc \notin Locked
  BY DEF Idle, Locked
<1>2. lock' <=> op'.pc \in Locked
  BY <1>1
<1>3. scan' \in SUBSET Devices /\ lock' \in BOOLEAN /\ hosting' \in BOOLEAN
  BY DEF NetworkInv, ShapesOK
<1>4. hosting' /\ (~lock' \/ op'.pc = "leave") => radio' = Hosting
  BY DEF NetworkInv, RadioRestored
<1>5. QED
  BY <1>2, <1>3, <1>4, DiscoveryGoesOn

-----------------------------------------------------------------------------
(* The steps *)

\* A device moves, or completes its provisioning late.
LEMMA MoveStep == ASSUME NetworkInv, NEW d \in Devices, Move(d) \/ LateProvision(d) PROVE NetworkInv'
BY WorldMoves DEF Move, LateProvision, backend, plugins

\* Bridge or VLAN change.
LEMMA ChangeTopologyStep == ASSUME NetworkInv, ChangeTopology PROVE NetworkInv'
BY WorldMoves DEF ChangeTopology, backend, plugins

\* What _disconnect_sensor leaves of the sensors.
LEMMA DisconnectsShape ==
  ASSUME ShapesOK, NEW S \in SUBSET Sensors, Disconnects(S)
  PROVE  /\ sensor' = [s \in Sensors |-> sensor'[s]] /\ \A s \in Sensors : IsSensor(sensor'[s])
         /\ \A s \in Sensors : sensor'[s].address = sensor[s].address
<1>1. ASSUME NEW s \in Sensors
      PROVE  IsSensor(sensor'[s]) /\ sensor'[s].address = sensor[s].address
  <2>1. IsSensor(sensor[s])
    BY DEF ShapesOK
  <2>2. sensor'[s] = IF s \in S THEN [sensor[s] EXCEPT !.connected = FALSE] ELSE sensor[s]
    BY DEF Disconnects
  <2>3. QED
    BY <2>1, <2>2 DEF IsSensor
<1>2. QED
  BY <1>1 DEF Disconnects

\* A new configuration: either the old sensors are gone, or the first of them disconnected.
LEMMA ConfigureStep == ASSUME NetworkInv, Configure PROVE NetworkInv'
<1>1. op = Idle /\ op' = Idle /\ lock' = lock /\ ~adapter.closing
  BY DEF Configure
<1>2. lock = FALSE /\ op.pc # "leave"
  BY <1>1 DEF NetworkInv, ShapesOK, Idle, Locked
<1>3. CASE InitializeAll
  <2>1. scan' = {} /\ radio' \in {radio, Hosting}
    BY <1>3 DEF InitializeAll, EnsureApActive, EnsureApFails
  <2>2. hosting' => radio' = Hosting
    BY <1>2, <1>3, <2>1 DEF InitializeAll, EnsureApActive, NetworkInv, RadioRestored
  <2>3. /\ sensor' = [s \in Sensors |-> sensor'[s]]
        /\ \A s \in Sensors : /\ sensor'[s] = [FreshSensor EXCEPT !.address = sensor'[s].address]
                              /\ sensor'[s].address \in {Unset, sensor[s].address}
    <3>1. CASE sensor' = [s \in Sensors |-> FreshSensor]
      BY <3>1 DEF FreshSensor
    <3>2. CASE sensor' = [s \in Sensors |-> [FreshSensor EXCEPT !.address = sensor[s].address]]
      BY <3>2 DEF FreshSensor
    <3>3. QED
      BY <1>3, <3>1, <3>2, Zenon DEF InitializeAll
  <2>4. \A s \in Sensors : IsSensor(sensor'[s])
    BY <2>3 DEF NetworkInv, ShapesOK, IsSensor, FreshSensor
  <2>5. adapter' \in [init: BOOLEAN, closing: BOOLEAN, network: BOOLEAN]
    <3>1. adapter' = [init |-> TRUE, closing |-> FALSE, network |-> TRUE] \/ adapter' = NewAdapter
      BY <1>3, Zenon DEF InitializeAll
    <3>2. /\ [init |-> TRUE, closing |-> FALSE, network |-> TRUE] \in [init: BOOLEAN, closing: BOOLEAN, network: BOOLEAN]
          /\ NewAdapter \in [init: BOOLEAN, closing: BOOLEAN, network: BOOLEAN]
      BY DEF NewAdapter
    <3>3. QED
      BY <3>1, <3>2, Zenon
  <2>6. hosting' \in BOOLEAN
    BY <1>3 DEF InitializeAll, NetworkInv, ShapesOK
  <2>7. ShapesOK'
    BY <1>1, <1>2, <2>1, <2>3, <2>4, <2>5, <2>6 DEF ShapesOK, NetworkInv
  <2>8. AddressesDistinct'
    BY <1>1, <2>3 DEF AddressesDistinct, NetworkInv, Unset
  <2>9. QED
    BY <1>1, <1>2, <2>2, <2>7, <2>8 DEF NetworkInv, SessionOK, RadioRestored, SearchOK
<1>4. CASE \E S \in SUBSET (Sensors \ Unconnected) :
             Disconnects(S) /\ UNCHANGED <<radio, backend, adapter, drivers, hosting>>
  <2>1. PICK S \in SUBSET Sensors : Disconnects(S)
    BY <1>4
  <2>2. UNCHANGED <<radio, scan, adapter, hosting>>
    BY <1>4 DEF backend
  <2>3. ShapesOK'
    BY <1>1, <2>1, <2>2, DisconnectsShape DEF NetworkInv, ShapesOK
  <2>4. AddressesDistinct'
    BY <2>1, <2>2, DisconnectsShape DEF NetworkInv, AddressesDistinct
  <2>5. QED
    BY <1>1, <2>2, <2>3, <2>4 DEF NetworkInv, SessionOK, RadioRestored, SearchOK
<1>5. QED
  BY <1>3, <1>4 DEF Configure

\* The adapter is shut down, also within a session: a radio that hosts goes on hosting.
LEMMA ShutdownStep == ASSUME NetworkInv, Shutdown PROVE NetworkInv'
<1>1. UNCHANGED <<scan, lock, op, hosting>> /\ Disconnects(Sensors)
  BY DEF Shutdown
<1>2. radio = Hosting => radio' = Hosting
  BY DEF Shutdown, CloseBackend, Unbound, Hosting
<1>3. adapter' = [init |-> FALSE, closing |-> TRUE, network |-> FALSE]
  BY DEF Shutdown
<1>4. ShapesOK'
  BY <1>1, <1>3, DisconnectsShape DEF NetworkInv, ShapesOK
<1>5. QED
  BY <1>1, <1>2, <1>3, <1>4 DEF NetworkInv, SessionOK, RadioRestored, SearchOK, AddressesDistinct

\* The process starts anew, and with it what it says of the radio.
LEMMA RestartStep == ASSUME NetworkInv, Restart PROVE NetworkInv'
<1> USE DEF Restart, Idle, NewAdapter, FreshSensor, Unset
<1>1. ShapesOK'
  BY DEF ShapesOK, IsSensor, Locked
<1>2. QED
  BY <1>1 DEF NetworkInv, SessionOK, RadioRestored, SearchOK, AddressesDistinct

\* A discovery begins: it excludes the addresses of the sensors that it is not for.
LEMMA DiscoverStep == ASSUME NetworkInv, NEW P \in SUBSET Sensors, Discover(P) PROVE NetworkInv'
<1>1. op = Idle /\ Ready /\ UNCHANGED <<radio, scan, adapter, lock, sensor, hosting>>
  BY DEF Discover, backend, plugins
<1>2. op' = [pc |-> "groups", pending |-> P, excluded |-> Excluded(P), attempt |-> 1,
             devices |-> {}, known |-> {}, tried |-> {}, device |-> Unset, failed |-> FALSE,
             gone |-> FALSE, restart |-> FALSE]
  BY DEF Discover
<1>3. Excluded(P) \in SUBSET Devices
  BY DEF Excluded, NetworkInv, ShapesOK, IsSensor
<1>4. op' \in Operations /\ op'.pc = "groups" /\ op'.pending = P /\ op'.excluded = Excluded(P)
  BY <1>2, <1>3 DEF Operations, Unset
<1>5. ~lock
  BY <1>1 DEF NetworkInv, ShapesOK, Idle, Locked
<1>6. ShapesOK'
  BY <1>1, <1>4, <1>5 DEF NetworkInv, ShapesOK, IsSensor, Locked
<1>7. P # {} /\ P \subseteq Unconnected /\ (~PerSubject => P = Unconnected)
  BY DEF Discover
<1>8. Unconnected' = Unconnected /\ Excluded(P)' = Excluded(P)
  BY <1>1 DEF Unconnected, Excluded
<1>9. SearchOK'
  BY <1>1, <1>4, <1>7, <1>8 DEF SearchOK, Ready, Excluded
<1>10. QED
  BY <1>1, <1>4, <1>6, <1>9 DEF NetworkInv, SessionOK, RadioRestored, AddressesDistinct

\* At its steps a discovery is a record, and holds the lock or not.
LEMMA AtStep ==
  ASSUME NetworkInv, NEW pc, OpAt(pc), pc # "idle"
  PROVE  /\ op \in Operations /\ op.pc = pc /\ (lock <=> pc \in Locked) /\ scan \in SUBSET Devices
         /\ hosting \in BOOLEAN /\ (hosting /\ ~lock => radio = Hosting)
<1>1. op # Idle
  BY DEF OpAt, Idle
<1>2. QED
  BY <1>1 DEF NetworkInv, ShapesOK, OpAt, RadioRestored

\* The drivers answer, or the discovery ends.
LEMMA DiscoverGroupsStep == ASSUME NetworkInv, DiscoverGroups PROVE NetworkInv'
<1>1. UNCHANGED <<radio, scan, adapter, lock, sensor, hosting>> /\ OpAt("groups")
  BY DEF DiscoverGroups, backend, plugins
<1>2. op \in Operations /\ op.pc = "groups" /\ ~lock /\ scan \in SUBSET Devices /\ hosting \in BOOLEAN
      /\ (hosting => radio = Hosting)
  BY <1>1, AtStep DEF Locked
<1>3. Announced \in SUBSET Devices /\ Onward(Announced) \in {"enter", "cache"}
  BY DEF Announced, Onward
<1>4. op' = Idle \/ (op' \in Operations /\ op'.pc \in {"enter", "cache"} /\ op'.pending = op.pending
                     /\ op'.excluded = op.excluded)
  <2>1. \/ op' = Idle
        \/ op' = [op EXCEPT !.pc = Onward(Announced), !.devices = Announced, !.known = Announced, !.tried = {}]
    BY Zenon DEF DiscoverGroups
  <2>2. CASE op' = [op EXCEPT !.pc = Onward(Announced), !.devices = Announced, !.known = Announced, !.tried = {}]
    BY <1>2, <1>3, <2>2 DEF Operations, Locked
  <2>3. QED
    BY <2>1, <2>2
<1>5. QED
  BY <1>1, <1>2, <1>4, OutsideGoesOn

\* A session takes the lock before it takes the radio.
LEMMA EnterStep == ASSUME NetworkInv, Enter PROVE NetworkInv'
<1>1. UNCHANGED <<adapter, sensor, hosting>> /\ OpAt("enter") /\ lock'
  BY DEF Enter, plugins
<1>2. op \in Operations /\ op.pc = "enter" /\ scan \in SUBSET Devices /\ hosting \in BOOLEAN
  BY <1>1, AtStep
<1>3. op' \in Operations /\ op'.pc \in {"candidate", "cleanup"} /\ op'.pending = op.pending
      /\ op'.excluded = op.excluded
  BY <1>2 DEF Enter, To, Fail, Operations, Locked
<1>4. scan' \in SUBSET Devices /\ lock' \in BOOLEAN
  BY <1>2 DEF Enter, AccessPoints
<1>5. QED
  BY <1>1, <1>2, <1>3, <1>4, DiscoveryGoesOn DEF Locked

\* An access point is chosen, or there is none.
LEMMA ChooseCandidateStep == ASSUME NetworkInv, ChooseCandidate PROVE NetworkInv'
<1>1. UNCHANGED <<radio, scan, adapter, lock, sensor, hosting>> /\ OpAt("candidate")
  BY DEF ChooseCandidate, backend, plugins
<1>2. op \in Operations /\ op.pc = "candidate" /\ lock /\ scan \in SUBSET Devices /\ hosting \in BOOLEAN
  BY <1>1, AtStep DEF Locked
<1>3. op' \in Operations /\ op'.pc \in {"join", "cleanup"} /\ op'.pending = op.pending
      /\ op'.excluded = op.excluded
  <2>1. CASE Fail
    BY <1>2, <2>1 DEF Fail, Operations, Locked
  <2>2. CASE \E d \in Available : op' = [op EXCEPT !.pc = "join", !.device = d, !.tried = @ \cup {d}]
    <3>1. PICK d \in Devices : op' = [op EXCEPT !.pc = "join", !.device = d, !.tried = @ \cup {d}]
      BY <1>2, <2>2 DEF Available
    <3>2. QED
      BY <1>2, <3>1 DEF Operations, Locked
  <2>3. QED
    BY <2>1, <2>2 DEF ChooseCandidate
<1>4. QED
  BY <1>1, <1>2, <1>3, DiscoveryGoesOn DEF Locked

\* The radio joins the device's access point.
LEMMA ConnectTemporaryStep == ASSUME NetworkInv, ConnectTemporary PROVE NetworkInv'
<1>1. UNCHANGED <<scan, adapter, lock, sensor, hosting>> /\ OpAt("join")
  BY DEF ConnectTemporary, backend, plugins
<1>2. op \in Operations /\ op.pc = "join" /\ lock /\ scan \in SUBSET Devices /\ hosting \in BOOLEAN
  BY <1>1, AtStep DEF Locked
<1>3. op' \in Operations /\ op'.pc \in {"identify", "cleanup"} /\ op'.pending = op.pending
      /\ op'.excluded = op.excluded
  BY <1>2 DEF ConnectTemporary, To, Fail, Operations, Locked
<1>4. QED
  BY <1>1, <1>2, <1>3, DiscoveryGoesOn DEF Locked

\* The device is identified.
LEMMA IdentifyStep == ASSUME NetworkInv, Identify PROVE NetworkInv'
<1>1. UNCHANGED <<scan, adapter, lock, sensor, hosting>> /\ OpAt("identify")
  BY DEF Identify, backend, plugins
<1>2. op \in Operations /\ op.pc = "identify" /\ lock /\ scan \in SUBSET Devices /\ hosting \in BOOLEAN
  BY <1>1, AtStep DEF Locked
<1>3. op' \in Operations /\ op'.pc \in {"provision", "cleanup"} /\ op'.pending = op.pending
      /\ op'.excluded = op.excluded
  <2>1. Fail \/ To("provision")
    BY Zenon DEF Identify
  <2>2. QED
    BY <1>2, <2>1 DEF To, Fail, Operations, Locked
<1>4. QED
  BY <1>1, <1>2, <1>3, DiscoveryGoesOn DEF Locked

\* The device is provisioned; what fails leads to the restoration.
LEMMA ProvisionStep == ASSUME NetworkInv, Provision PROVE NetworkInv'
<1>1. UNCHANGED <<scan, adapter, lock, sensor, hosting>> /\ OpAt("provision")
  BY DEF Provision, backend, plugins
<1>2. op \in Operations /\ op.pc = "provision" /\ lock /\ scan \in SUBSET Devices /\ hosting \in BOOLEAN
  BY <1>1, AtStep DEF Locked
<1>3. op' \in Operations /\ op'.pc = "cleanup" /\ op'.pending = op.pending
      /\ op'.excluded = op.excluded
  <2>1. CASE Fail
    BY <1>2, <2>1 DEF Fail, Operations, Locked
  <2>2. CASE \E gone \in BOOLEAN : op' = [op EXCEPT !.pc = "cleanup", !.gone = gone]
    BY <1>2, <2>2 DEF Operations, Locked
  <2>3. QED
    BY <2>1, <2>2 DEF Provision
<1>4. QED
  BY <1>1, <1>2, <1>3, DiscoveryGoesOn DEF Locked

\* The restoration begins, or is reported as impossible.
LEMMA CleanupStep == ASSUME NetworkInv, Cleanup PROVE NetworkInv'
<1>1. UNCHANGED <<adapter, lock, sensor>> /\ OpAt("cleanup") /\ scan' = {}
  BY DEF Cleanup, plugins
<1>2. op \in Operations /\ op.pc = "cleanup" /\ lock /\ hosting \in BOOLEAN
  BY <1>1, AtStep DEF Locked
<1>3. op' \in Operations /\ op'.pc \in {"quiesce", "restart", "leave"} /\ op'.pending = op.pending
      /\ op'.excluded = op.excluded
  BY <1>2 DEF Cleanup, To, Operations, Locked
<1>4. hosting' \in BOOLEAN /\ (op'.pc = "leave" => ~hosting')
  BY <1>2 DEF Cleanup, To, Operations
<1>5. QED
  BY <1>1, <1>2, <1>3, <1>4, DiscoveryGoesOn DEF Locked

\* The two outcomes of a failed restoration.
LEMMA OrRestarts ==
  ASSUME op \in Operations, hosting \in BOOLEAN, OrRestart
  PROVE  /\ op' \in Operations /\ op'.pc \in {"restart", "leave"} /\ op'.pending = op.pending
         /\ op'.excluded = op.excluded /\ hosting' \in BOOLEAN /\ (op'.pc = "leave" => ~hosting')
<1>1. (To("restart") /\ hosting' = hosting) \/ (To("leave") /\ hosting' = FALSE)
  BY Zenon DEF OrRestart
<1>2. CASE To("restart") /\ hosting' = hosting
  BY <1>2 DEF To, Operations, Locked
<1>3. CASE To("leave") /\ hosting' = FALSE
  BY <1>3 DEF To, Operations, Locked
<1>4. QED
  BY <1>1, <1>2, <1>3

\* The radio is quiesced.
LEMMA QuiesceStep == ASSUME NetworkInv, Quiesce PROVE NetworkInv'
<1>1. UNCHANGED <<scan, adapter, lock, sensor>> /\ OpAt("quiesce")
  BY DEF Quiesce, backend, plugins
<1>2. op \in Operations /\ op.pc = "quiesce" /\ lock /\ scan \in SUBSET Devices /\ hosting \in BOOLEAN
  BY <1>1, AtStep DEF Locked
<1>3. CASE To("activate") /\ hosting' = hosting
  <2>1. op' \in Operations /\ op'.pc = "activate" /\ op'.pending = op.pending /\ op'.excluded = op.excluded
    BY <1>2, <1>3 DEF To, Operations, Locked
  <2>2. QED
    BY <1>1, <1>2, <1>3, <2>1, DiscoveryGoesOn DEF Locked
<1>4. CASE OrRestart
  BY <1>1, <1>2, <1>4, OrRestarts, DiscoveryGoesOn DEF Locked
<1>5. QED
  BY <1>3, <1>4 DEF Quiesce

\* The access point is activated: only here does the adapter say again that it hosts.
LEMMA ActivateApStep == ASSUME NetworkInv, ActivateAp PROVE NetworkInv'
<1>1. UNCHANGED <<scan, adapter, lock, sensor>> /\ OpAt("activate")
  BY DEF ActivateAp, backend, plugins
<1>2. op \in Operations /\ op.pc = "activate" /\ lock /\ scan \in SUBSET Devices /\ hosting \in BOOLEAN
  BY <1>1, AtStep DEF Locked
<1>3. CASE Activated /\ To("leave") /\ hosting' = TRUE
  <2>1. op' \in Operations /\ op'.pc = "leave" /\ op'.pending = op.pending /\ op'.excluded = op.excluded
    BY <1>2, <1>3 DEF To, Operations, Locked
  <2>2. QED
    BY <1>1, <1>2, <1>3, <2>1, DiscoveryGoesOn DEF Locked, Activated
<1>4. CASE OrRestart
  BY <1>1, <1>2, <1>4, OrRestarts, DiscoveryGoesOn DEF Locked
<1>5. QED
  BY <1>3, <1>4 DEF ActivateAp

\* The recovery service has run.
LEMMA RestartNetworkStackStep == ASSUME NetworkInv, RestartNetworkStack PROVE NetworkInv'
<1>1. UNCHANGED <<scan, adapter, lock, sensor>> /\ OpAt("restart")
  BY DEF RestartNetworkStack, plugins
<1>2. op \in Operations /\ op.pc = "restart" /\ lock /\ scan \in SUBSET Devices /\ hosting \in BOOLEAN
  BY <1>1, AtStep DEF Locked
<1>3. op' \in Operations /\ op'.pc \in {"quiesce", "leave"} /\ op'.pending = op.pending
      /\ op'.excluded = op.excluded /\ hosting' \in BOOLEAN /\ (op'.pc = "leave" => ~hosting')
  BY <1>2 DEF RestartNetworkStack, To, Operations, Locked
<1>4. QED
  BY <1>1, <1>2, <1>3, DiscoveryGoesOn DEF Locked

\* The lock is released, and the radio hosts or a failure was reported.
LEMMA LeaveStep == ASSUME NetworkInv, Leave PROVE NetworkInv'
<1>1. UNCHANGED <<radio, scan, sensor, hosting>> /\ OpAt("leave") /\ lock' = FALSE
  BY DEF Leave, backend, plugins
<1>2. op \in Operations /\ op.pc = "leave" /\ scan \in SUBSET Devices /\ hosting \in BOOLEAN
  BY <1>1, AtStep DEF Locked
<1>3. \/ op' = Idle
      \/ op' \in Operations /\ op'.pc = "rejoin" /\ op'.pending = op.pending /\ op'.excluded = op.excluded
  <2>1. op' = Idle \/ op' = [op EXCEPT !.pc = "rejoin", !.known = @ \cup {op.device},
                                       !.gone = FALSE, !.restart = FALSE]
    BY Zenon DEF Leave
  <2>2. CASE op' = [op EXCEPT !.pc = "rejoin", !.known = @ \cup {op.device}, !.gone = FALSE, !.restart = FALSE]
    BY <1>2, <2>2 DEF Operations, Locked
  <2>3. QED
    BY <2>1, <2>2
<1>4. /\ adapter' \in [init: BOOLEAN, closing: BOOLEAN, network: BOOLEAN]
      /\ adapter'.init = adapter.init /\ adapter'.closing = adapter.closing
  BY <1>2 DEF Leave, NetworkInv, ShapesOK
<1>5. ShapesOK'
  <2>1. op'.pc \notin Locked
    BY <1>3 DEF Locked, Idle
  <2>2. op' = Idle \/ op' \in Operations
    BY <1>3
  <2>3. QED
    BY <1>1, <1>2, <1>4, <2>1, <2>2 DEF NetworkInv, ShapesOK, IsSensor
<1>6. op # Idle
  BY <1>2 DEF Operations, Idle, Locked
<1>7. SearchOK' /\ AddressesDistinct'
  BY <1>1, <1>3, <1>4, <1>6 DEF NetworkInv, SearchOK, AddressesDistinct, Unconnected, Excluded, Unset
<1>8. hosting => radio = Hosting
  BY <1>2 DEF NetworkInv, SessionOK
<1>9. QED
  BY <1>1, <1>3, <1>5, <1>7, <1>8 DEF NetworkInv, SessionOK, RadioRestored, Idle

\* The device has rejoined, or its time is up.
LEMMA RejoinStep == ASSUME NetworkInv, Rejoin \/ RejoinTimesOut PROVE NetworkInv'
<1>1. UNCHANGED <<radio, scan, adapter, lock, sensor, hosting>> /\ OpAt("rejoin")
  BY DEF Rejoin, RejoinTimesOut, backend, plugins
<1>2. op \in Operations /\ op.pc = "rejoin" /\ ~lock /\ scan \in SUBSET Devices /\ hosting \in BOOLEAN
      /\ (hosting => radio = Hosting)
  BY <1>1, AtStep DEF Locked
<1>3. Announced \in SUBSET Devices /\ Onward(Announced) \in {"enter", "cache"}
  BY DEF Announced, Onward
<1>4. op' = Idle \/ (op' \in Operations /\ op'.pc \in {"enter", "cache"} /\ op'.pending = op.pending
                     /\ op'.excluded = op.excluded)
  <2>1. op' = Idle \/ op' = [op EXCEPT !.pc = Onward(Announced), !.devices = Announced]
    BY Zenon DEF Rejoin, RejoinTimesOut
  <2>2. QED
    BY <1>2, <1>3, <2>1 DEF Operations, Locked
<1>5. QED
  BY <1>1, <1>2, <1>4, OutsideGoesOn

-----------------------------------------------------------------------------
(* match_devices *)

\* Positions count up from 0 in the order of the numbers.
LEMMA PositionsCount ==
  ASSUME NEW S \in SUBSET Nat, IsFiniteSet(S), NEW x \in S
  PROVE  /\ Position(x, S) \in 0..(Cardinality(S) - 1)
         /\ \A y \in S : x < y => Position(x, S) < Position(y, S)
<1> DEFINE Below(y) == {z \in S : z < y}
<1>0. \A z \in S : z \in Nat
  OBVIOUS
<1>1. ASSUME NEW y \in S PROVE /\ IsFiniteSet(Below(y)) /\ Cardinality(Below(y)) \in Nat
                              /\ Cardinality(Below(y)) < Cardinality(S) /\ Cardinality(S) \in Nat
  <2>1. Below(y) \in SUBSET S /\ y \notin Below(y)
    OBVIOUS
  <2>2. Below(y) # S
    BY <2>1
  <2>3. QED
    BY <2>1, <2>2, FS_Subset, FS_CardinalityType
<1>2. ASSUME NEW y \in S, x < y PROVE Cardinality(Below(x)) < Cardinality(Below(y))
  <2>1. Below(x) \in SUBSET Below(y) /\ x \in Below(y) /\ x \notin Below(x)
    <3>1. \A z \in S : z < x => z < y
      BY <1>0, <1>2
    <3>2. ~(x < x)
      BY <1>0
    <3>3. QED
      BY <1>2, <3>1, <3>2, Zenon
  <2>2. Below(x) # Below(y)
    BY <2>1
  <2>3. Cardinality(Below(x)) <= Cardinality(Below(y)) /\ Cardinality(Below(x)) # Cardinality(Below(y))
    BY <1>1, <2>1, <2>2, FS_Subset
  <2>4. QED
    BY <1>1, <2>3
<1>3. \A y \in S : Position(y, S) = Cardinality(Below(y))
  BY DEF Position
<1> HIDE DEF Below
<1>4. QED
  BY <1>1, <1>2, <1>3

\* Every position below the number of elements is taken.
LEMMA PositionsTaken ==
  ASSUME NEW S \in SUBSET Nat, IsFiniteSet(S), NEW k \in 0..(Cardinality(S) - 1)
  PROVE  \E x \in S : Position(x, S) = k
<1> DEFINE n == Cardinality(S)
           T == 0..(n - 1)
           f == [x \in S |-> Position(x, S)]
<1>1. n \in Nat /\ IsFiniteSet(T) /\ Cardinality(T) = n
  BY FS_CardinalityType, FS_Interval
<1>2. f \in [S -> T]
  BY PositionsCount
<1>3. ASSUME NEW x \in S, NEW y \in S, f[x] = f[y] PROVE x = y
  <2>1. Position(x, S) = Position(y, S) /\ Position(x, S) \in Nat
    BY <1>3, PositionsCount, <1>1
  <2>2. ~(x < y) /\ ~(y < x)
    BY <2>1, PositionsCount
  <2>3. QED
    BY <2>2
<1>4. f \in Injection(S, T)
  BY <1>2, <1>3 DEF Injection, IsInjective
<1>5. f \in Surjection(S, T)
  BY <1>1, <1>4, FS_Injection
<1>6. QED
  BY <1>5 DEF Surjection

\* The sensors take different devices.
LEMMA MatchedDistinct ==
  ASSUME NEW P \in SUBSET Nat, IsFiniteSet(P), NEW C \in SUBSET Nat, IsFiniteSet(C), EnoughFor(P, C)
  PROVE  /\ \A s \in P : Matched(P, C)[s] \in C
         /\ \A s, t \in P : s # t => Matched(P, C)[s] # Matched(P, C)[t]
<1>1. Cardinality(P) \in Nat /\ Cardinality(C) \in Nat /\ Cardinality(P) <= Cardinality(C)
  BY FS_CardinalityType DEF EnoughFor
<1>2. ASSUME NEW s \in P
      PROVE  Matched(P, C)[s] \in C /\ Position(Matched(P, C)[s], C) = Position(s, P)
  <2>1. Position(s, P) \in 0..(Cardinality(C) - 1)
    BY <1>1, PositionsCount
  <2>2. \E d \in C : Position(d, C) = Position(s, P)
    BY <2>1, PositionsTaken
  <2>3. Matched(P, C)[s] = CHOOSE d \in C : Position(d, C) = Position(s, P)
    BY DEF Matched
  <2>4. QED
    BY <2>2, <2>3
<1>3. ASSUME NEW s \in P, NEW t \in P, s # t PROVE Position(s, P) # Position(t, P)
  <2>1. s < t \/ t < s
    BY <1>3
  <2>2. Position(s, P) \in Nat /\ Position(t, P) \in Nat
    BY PositionsCount, <1>1
  <2>3. QED
    BY <2>1, <2>2, PositionsCount
<1>4. QED
  BY <1>2, <1>3

-----------------------------------------------------------------------------
(* The end of a discovery, and connections *)

\* The devices are assigned: distinct among themselves, and not those that were excluded.
LEMMA AssignStep == ASSUME NetworkInv, Assign PROVE NetworkInv'
<1> DEFINE P == op.pending
           C == op.devices \ op.excluded
           f == CacheDiscovered(op.devices, P)
<1>1. UNCHANGED <<radio, scan, adapter, lock, hosting>> /\ OpAt("cache")
  BY DEF Assign, backend
<1>2. op \in Operations /\ op.pc = "cache" /\ ~lock /\ scan \in SUBSET Devices /\ hosting \in BOOLEAN
  BY <1>1, AtStep DEF Locked
<1>3. P \in SUBSET Sensors /\ C \in SUBSET Devices /\ op # Idle
  BY <1>2 DEF Operations, Idle, Locked
<1>4. CASE EnoughFor(P, C)
  <2>1. op' = Idle /\ sensor' = Handed(P, Matched(P, C), f)
    BY <1>4 DEF Assign
  <2>2. P \in SUBSET Nat /\ C \in SUBSET Nat /\ IsFiniteSet(P) /\ IsFiniteSet(C) /\ Unset \notin C
    BY <1>3, WifiAssumption, FS_Subset
  <2> DEFINE m == Matched(P, C)
  <2>3. /\ \A s \in P : m[s] \in C
        /\ \A s, t \in P : s # t => m[s] # m[t]
    BY <1>4, <2>2, MatchedDistinct
  <2> HIDE DEF m, f
  <2>4. /\ sensor' = [s \in Sensors |-> sensor'[s]]
        /\ \A s \in Sensors : \/ s \in P /\ Ready /\ sensor'[s] = [FreshSensor EXCEPT !.address = m[s], !.handle = f[m[s]]]
                              \/ s \in P /\ ~Ready /\ sensor'[s] = [sensor[s] EXCEPT !.address = m[s]]
                              \/ (s \notin P \/ ~Ready) /\ sensor'[s] = sensor[s]
    BY <2>1 DEF Handed, m
  <2>5. ASSUME NEW s \in Sensors
        PROVE  /\ IsSensor(sensor'[s])
               /\ s \in P /\ Ready => sensor'[s].address = m[s]
               /\ s \notin P => sensor'[s] = sensor[s]
    <3>1. IsSensor(sensor[s])
      BY DEF NetworkInv, ShapesOK
    <3>2. s \in P => m[s] \in Devices
      BY <1>3, <2>3
    <3>3. CASE s \in P /\ Ready /\ sensor'[s] = [FreshSensor EXCEPT !.address = m[s], !.handle = f[m[s]]]
      BY <3>2, <3>3 DEF IsSensor, FreshSensor
    <3>4. CASE s \in P /\ ~Ready /\ sensor'[s] = [sensor[s] EXCEPT !.address = m[s]]
      BY <3>1, <3>2, <3>4 DEF IsSensor
    <3>5. CASE (s \notin P \/ ~Ready) /\ sensor'[s] = sensor[s]
      BY <3>1, <3>5
    <3>6. QED
      BY <2>4, <3>3, <3>4, <3>5
  <2>6. ShapesOK'
    BY <1>1, <1>2, <2>1, <2>4, <2>5 DEF NetworkInv, ShapesOK, Idle, Locked
  <2>7. AddressesDistinct'
    <3>1. SUFFICES ASSUME ~adapter.closing, NEW s \in Sensors, NEW t \in Sensors, s # t,
                          sensor'[s].address # Unset, sensor'[s].address = sensor'[t].address
                   PROVE  FALSE
      BY <1>1 DEF AddressesDistinct
    <3>2. Ready /\ op.excluded = Excluded(P) /\ (~PerSubject => P = Unconnected)
      BY <1>3, <3>1 DEF NetworkInv, SearchOK, Ready
    <3>3. \A u \in Sensors \ P : sensor[u].address # Unset => sensor[u].address \in op.excluded
      BY <3>2 DEF Excluded, Unconnected
    <3>4. \A u \in P : m[u] \notin op.excluded /\ m[u] # Unset
      BY <2>2, <2>3
    <3>5. CASE s \in P /\ t \in P
      BY <2>3, <2>5, <3>1, <3>2, <3>5
    <3>6. CASE s \in P /\ t \notin P
      BY <2>5, <3>1, <3>2, <3>3, <3>4, <3>6
    <3>7. CASE s \notin P /\ t \in P
      BY <2>5, <3>1, <3>2, <3>3, <3>4, <3>7
    <3>8. CASE s \notin P /\ t \notin P
      BY <2>5, <3>1, <3>8 DEF NetworkInv, AddressesDistinct
    <3>9. QED
      BY <3>5, <3>6, <3>7, <3>8
  <2>8. QED
    BY <1>1, <2>1, <2>6, <2>7 DEF NetworkInv, SessionOK, RadioRestored, SearchOK, Idle
<1>5. CASE ~EnoughFor(P, C)
  <2>1. UNCHANGED sensor /\ (op' = Idle \/ (op.attempt = 1 /\ op' = [op EXCEPT !.pc = "groups", !.attempt = 2]))
    BY <1>5, Zenon DEF Assign
  <2>2. op' = Idle \/ (op' \in Operations /\ op'.pc = "groups" /\ op'.pending = op.pending
                       /\ op'.excluded = op.excluded)
    <3>1. CASE op' = [op EXCEPT !.pc = "groups", !.attempt = 2]
      BY <1>2, <3>1 DEF Operations, Locked
    <3>2. QED
      BY <2>1, <3>1
  <2>3. QED
    BY <1>1, <1>2, <2>1, <2>2, OutsideGoesOn
<1>6. QED
  BY <1>4, <1>5

\* A sensor is connected or disconnected, and keeps its address.
LEMMA ConnectStep == ASSUME NetworkInv, NEW s \in Sensors, ConnectSensor(s) \/ DisconnectSensor(s) PROVE NetworkInv'
<1>1. op = Idle /\ UNCHANGED <<radio, scan, adapter, lock, op, hosting>>
  BY DEF ConnectSensor, DisconnectSensor, backend
<1>2. /\ sensor' = [t \in Sensors |-> sensor'[t]]
      /\ \A t \in Sensors : IsSensor(sensor'[t]) /\ sensor'[t].address = sensor[t].address
  <2>1. CASE sensor' = sensor
    BY <2>1 DEF NetworkInv, ShapesOK
  <2>2. CASE sensor' = [sensor EXCEPT ![s].connected = TRUE]
    <3>1. ASSUME NEW t \in Sensors PROVE IsSensor(sensor'[t]) /\ sensor'[t].address = sensor[t].address
      <4>1. IsSensor(sensor[t])
        BY DEF NetworkInv, ShapesOK
      <4>2. sensor'[t] = IF t = s THEN [sensor[t] EXCEPT !.connected = TRUE] ELSE sensor[t]
        BY <2>2 DEF NetworkInv, ShapesOK
      <4>3. QED
        BY <4>1, <4>2 DEF IsSensor
    <3>2. QED
      BY <2>2, <3>1 DEF NetworkInv, ShapesOK
  <2>3. CASE Disconnects({s})
    BY <2>3, DisconnectsShape DEF NetworkInv
  <2>4. QED
    BY <2>1, <2>2, <2>3, Zenon DEF ConnectSensor, DisconnectSensor
<1>3. ShapesOK'
  BY <1>1, <1>2 DEF NetworkInv, ShapesOK
<1>4. AddressesDistinct'
  BY <1>1, <1>2 DEF NetworkInv, AddressesDistinct
<1>5. QED
  BY <1>1, <1>3, <1>4 DEF NetworkInv, SessionOK, RadioRestored, SearchOK

\* Every step keeps the invariant.
LEMMA NetworkNext == NetworkInv /\ [WifiNext]_wifiVars => NetworkInv'
<1> SUFFICES ASSUME NetworkInv, [WifiNext]_wifiVars PROVE NetworkInv'
  OBVIOUS
<1>1. CASE UNCHANGED wifiVars
  BY <1>1, WorldMoves DEF wifiVars
<1>2. CASE Discovering
  BY <1>2, DiscoverGroupsStep, EnterStep, ChooseCandidateStep, ConnectTemporaryStep, IdentifyStep,
     ProvisionStep, CleanupStep, QuiesceStep, ActivateApStep, RestartNetworkStackStep, LeaveStep,
     RejoinStep, AssignStep DEF Discovering
<1>3. QED
  BY <1>1, <1>2, MoveStep, ChangeTopologyStep, ConfigureStep, ShutdownStep, RestartStep, DiscoverStep,
     ConnectStep DEF WifiNext

\* The invariant holds always.
LEMMA NetworkInvariance == WifiSpec => []NetworkInv
BY NetworkInitially, NetworkNext, PTL DEF WifiSpec

\* Whatever fails within a session, and a shutdown in between, the radio hosts the sensor
\* network when the lock is free, or the failure was reported (restore_ap, __aexit__).
THEOREM RadioIsRestored == WifiSpec => []RadioRestored
<1>1. NetworkInv => RadioRestored
  BY DEF NetworkInv
<1>2. QED
  BY <1>1, NetworkInvariance, PTL

\* No device is given to two sensors, for any number of sensors, devices and searches
\* (discover_all, discover_for_subject, match_devices).
THEOREM AddressesAreDistinct == WifiSpec => []AddressesDistinct
<1>1. NetworkInv => AddressesDistinct
  BY DEF NetworkInv
<1>2. QED
  BY <1>1, NetworkInvariance, PTL
====

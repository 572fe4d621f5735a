------------------------- MODULE SensorRecoveryProofs -------------------------
(***************************************************************************)
(* The STOP obligation for any number of devices and sensor objects: the   *)
(* types; lifecycle work which outlives its command is covered by a        *)
(* quarantine; and, if the client does not search beside an obligation,    *)
(* no measuring device is forgotten, an obligation keeps its device and a  *)
(* late STOP ends no later session.                                        *)
(***************************************************************************)
EXTENDS SensorRecovery, SequenceTheorems, TLAPS

-----------------------------------------------------------------------------
(* The types, with those of the command and of the writes in the gateway. *)

\* An object: one with a transport client is bound to a device.
Records == [addr : Addrs \cup {None}, client : BOOLEAN, conn : BOOLEAN,
            status : BOOLEAN, pending : BOOLEAN, quar : BOOLEAN,
            aborted : BOOLEAN, worker : Workers,
            host : {"none", "up", "dead"}, task : Tasks, proof : BOOLEAN]
Objects == {r \in Records : r.client => r.addr \in Addrs}
Writes == [o : Objs, kind : {"start", "stop"}]
Sequential == {"connect", "start", "stop", "cleanup"}
Ops == Sequential \cup {"idle", "recover"}
Pcs == {"-", "await", "ok", "fail", "disconnect", "retire", "next"}
Commands == [op : Ops, pc : Pcs, o : Objs \cup {None}, todo : SUBSET Objs, was : BOOLEAN,
             confirmed : SUBSET Addrs, inv : SUBSET Addrs]

TypesOK ==
  /\ meas \subseteq Addrs /\ link \subseteq Addrs /\ lost \subseteq Addrs
  /\ air \in [Addrs -> Seq(Writes)]
  /\ \A a \in Addrs : Len(air[a]) <= MaxAir
  /\ reg \in [Addrs -> Objs \cup {None}]
  /\ obj \in [Objs -> Objects]
  /\ cur \in Objs /\ streaming \in BOOLEAN
  /\ oblig \in [Keys -> Objs \cup {None, Unknown}]
  /\ cmd \in Commands

-----------------------------------------------------------------------------
(* The inductive invariant of late work. *)

\* The lifecycle call that a command waits for.
KindOf(op) == CASE op = "connect" -> "setup" [] op = "start" -> "start" [] OTHER -> "stop"

\* Where each command can be, and the object it is about: a command of the loop is
\* about the configured one, a reset about a target it has taken from quarantine.
PlaceOK ==
  /\ cmd.op = "idle" <=> cmd.pc = "-"
  /\ cmd.op = "idle" => cmd = Idle
  /\ cmd.pc \in {"await", "ok", "fail", "disconnect", "retire"} => cmd.o \in Objs
  /\ cmd.pc = "next" => cmd.op = "recover" /\ cmd.o = None
  /\ cmd.op \in {"connect", "start", "stop"} => cmd.pc \in {"await", "ok", "fail"}
  /\ cmd.pc = "retire" => cmd.op = "cleanup"
  /\ cmd.op \in Sequential => cmd.o = cur
  /\ cmd.op = "recover" /\ cmd.o \in Objs => cmd.o \in cmd.todo

\* The call a command awaits is the one it made, and it has not expired.
AwaitOK ==
  /\ cmd.pc = "await" =>
       /\ obj[cmd.o].worker.kind = KindOf(cmd.op) /\ ~obj[cmd.o].worker.stale
       /\ obj[cmd.o].worker.at = "in" => obj[cmd.o].task.kind = obj[cmd.o].worker.kind
  /\ cmd.op = "recover" /\ cmd.o \in Objs => ~obj[cmd.o].quar

Late(r) == r.worker.kind # "none" \/ r.task.kind # "none"

\* Work of an object is covered by its quarantine or by the command that awaits it.
LateOK(o) ==
  Late(obj[o]) => \/ obj[o].quar
                  \/ /\ cmd.pc = "await" /\ cmd.o = o
                     /\ obj[o].task.kind # "none" => obj[o].worker.at = "in"

TaskOK(o) == obj[o].task.at \in {"writing", "acked"} => obj[o].task.kind \in {"start", "stop"}

LateInv == PlaceOK /\ AwaitOK /\ \A o \in Objs : LateOK(o) /\ TaskOK(o)

IInv == TypesOK /\ LateInv

-----------------------------------------------------------------------------
(* What the record transformers change. *)

\* Every field of an object is in its domain.
LEMMA Fields ==
  ASSUME NEW r \in Objects
  PROVE  /\ r.addr \in Keys /\ r.client \in BOOLEAN /\ r.conn \in BOOLEAN
         /\ r.status \in BOOLEAN /\ r.pending \in BOOLEAN /\ r.quar \in BOOLEAN
         /\ r.aborted \in BOOLEAN /\ r.worker \in Workers /\ r.task \in Tasks
         /\ r.host \in {"none", "up", "dead"} /\ r.proof \in BOOLEAN
         /\ r.worker.kind \in Kinds \cup {"none"} /\ r.worker.at \in {"sent", "in"}
         /\ r.worker.stale \in BOOLEAN /\ r.task.kind \in Kinds \cup {"none"}
         /\ r.task.at \in {"entered", "writing", "acked", "failed"}
         /\ r.task.stale \in BOOLEAN
         /\ r.client => r.addr \in Addrs
  BY DEF Objects, Records, Keys, Workers, Tasks

\* Nothing is at work in an object without worker and handler.
LEMMA Blank ==
  /\ NoWorker \in Workers /\ NoTask \in Tasks /\ Fresh \in Objects
  /\ NoWorker.kind = "none" /\ NoWorker.at = "sent" /\ NoWorker.stale = FALSE
  /\ NoTask.kind = "none" /\ NoTask.at = "entered" /\ NoTask.stale = FALSE
  /\ Fresh.addr = None /\ Fresh.worker = NoWorker /\ Fresh.task = NoTask
  /\ Fresh.pending = FALSE /\ Fresh.quar = FALSE /\ Fresh.client = FALSE
  /\ Fresh.conn = FALSE /\ Fresh.proof = FALSE /\ Fresh.status = FALSE
  /\ Idle \in Commands /\ Idle.op = "idle" /\ Idle.pc = "-" /\ Idle.o = None /\ Idle.todo = {}
  BY DEF NoWorker, NoTask, Fresh, Workers, Tasks, Objects, Records, Idle, Commands, Ops, Pcs, Sequential

\* Expiry marks the worker stale, and its handler too, and leaves the rest.
LEMMA ExpireFields ==
  ASSUME NEW r \in Objects
  PROVE  /\ Expire(r) \in Objects
         /\ Expire(r) = [r EXCEPT !.worker = Expire(r).worker, !.task = Expire(r).task]
         /\ Expire(r).worker.kind = r.worker.kind /\ Expire(r).worker.at = r.worker.at
         /\ Expire(r).task.kind = r.task.kind /\ Expire(r).task.at = r.task.at
  BY DEF Expire, Objects, Records, Workers, Tasks

\* A host that is gone leaves no worker, no handler and no proof.
LEMMA HostGoneFields ==
  ASSUME NEW r \in Objects, NEW h \in {"none", "dead"}
  PROVE  /\ HostGone(r, h) \in Objects
         /\ HostGone(r, h).worker = NoWorker /\ HostGone(r, h).task = NoTask
         /\ HostGone(r, h).proof = FALSE /\ HostGone(r, h).addr = r.addr
         /\ HostGone(r, h).client = r.client /\ HostGone(r, h).conn = r.conn
         /\ HostGone(r, h).status = r.status /\ HostGone(r, h).pending = r.pending
         /\ HostGone(r, h).quar = r.quar
  BY Blank DEF HostGone, Objects, Records

\* A launched call is a worker that is not late.
LEMMA LaunchFields ==
  ASSUME NEW r \in Objects, NEW kind \in Kinds
  PROVE  /\ Launch(r, kind) \in Objects
         /\ Launch(r, kind).worker.kind = kind /\ Launch(r, kind).worker.at = "sent"
         /\ Launch(r, kind).worker.stale = FALSE
         /\ Launch(r, kind) = [r EXCEPT !.worker = Launch(r, kind).worker]
  BY DEF Launch, Objects, Records, Workers, Kinds

\* One object is replaced, the others stay.
LEMMA SetMoves ==
  ASSUME obj \in [Objs -> Objects], NEW o \in Objs, NEW r \in Objects, Set(o, r)
  PROVE  /\ obj' \in [Objs -> Objects] /\ obj'[o] = r
         /\ \A p \in Objs \ {o} : obj'[p] = obj[p]
  BY DEF Set

\* A new command, a step of a command, and its end.
LEMMA CommandMoves ==
  ASSUME cmd \in Commands
  PROVE  /\ \A op \in Ops, pc \in Pcs, o \in Objs : Begin(op, pc, o) =>
              /\ cmd' \in Commands /\ cmd'.op = op /\ cmd'.pc = pc /\ cmd'.o = o
              /\ cmd'.todo = {} /\ cmd'.was = FALSE /\ cmd'.confirmed = {} /\ cmd'.inv = {}
         /\ \A pc \in Pcs : Goto(pc) =>
              /\ cmd' \in Commands /\ cmd'.op = cmd.op /\ cmd'.pc = pc /\ cmd'.o = cmd.o
              /\ cmd'.todo = cmd.todo /\ cmd'.was = cmd.was
              /\ cmd'.confirmed = cmd.confirmed /\ cmd'.inv = cmd.inv
         /\ \A o \in Objs, out \in {"ok", "fail"} : Deliver(o, out) =>
              /\ cmd' \in Commands /\ cmd'.op = cmd.op /\ cmd'.o = cmd.o
              /\ cmd'.todo = cmd.todo /\ cmd'.was = cmd.was
              /\ cmd'.confirmed = cmd.confirmed /\ cmd'.inv = cmd.inv
              /\ (cmd.o = o /\ cmd.pc = "await") => cmd'.pc = out
              /\ ~(cmd.o = o /\ cmd.pc = "await") => cmd' = cmd
  <1>1. \A op \in Ops, pc \in Pcs, o \in Objs : Begin(op, pc, o) =>
              /\ cmd' \in Commands /\ cmd'.op = op /\ cmd'.pc = pc /\ cmd'.o = o
              /\ cmd'.todo = {} /\ cmd'.was = FALSE /\ cmd'.confirmed = {} /\ cmd'.inv = {}
    BY DEF Begin, Idle, Commands
  <1>2. \A pc \in Pcs : Goto(pc) =>
              /\ cmd' \in Commands /\ cmd'.op = cmd.op /\ cmd'.pc = pc /\ cmd'.o = cmd.o
              /\ cmd'.todo = cmd.todo /\ cmd'.was = cmd.was
              /\ cmd'.confirmed = cmd.confirmed /\ cmd'.inv = cmd.inv
    BY DEF Goto, Commands
  <1>3. ASSUME NEW o \in Objs, NEW out \in {"ok", "fail"}, Deliver(o, out)
        PROVE  /\ cmd' \in Commands /\ cmd'.op = cmd.op /\ cmd'.o = cmd.o
               /\ cmd'.todo = cmd.todo /\ cmd'.was = cmd.was
               /\ cmd'.confirmed = cmd.confirmed /\ cmd'.inv = cmd.inv
               /\ (cmd.o = o /\ cmd.pc = "await") => cmd'.pc = out
               /\ ~(cmd.o = o /\ cmd.pc = "await") => cmd' = cmd
    BY <1>3 DEF Deliver, Commands, Pcs
  <1> QED BY <1>1, <1>2, <1>3

\* A worker that the host refuses.
LEMMA HostRefusesLate ==
  ASSUME IInv, NEW o \in Objs, Set(o, [obj[o] EXCEPT !.worker = NoWorker]), Deliver(o, "fail"),
         UNCHANGED <<Physical, reg, cur, oblig, streaming>>,
         obj[o].worker.kind # "none", obj[o].worker.at = "sent"
  PROVE  IInv'
  <1> DEFINE r == [obj[o] EXCEPT !.worker = NoWorker]
  <1>1. r \in Objects /\ r.worker = NoWorker /\ r.task = obj[o].task /\ r.quar = obj[o].quar
    BY Blank DEF IInv, TypesOK, Objects, Records
  <1> HIDE DEF r
  <1>2. obj' \in [Objs -> Objects] /\ obj'[o] = r /\ \A p \in Objs \ {o} : obj'[p] = obj[p]
    BY <1>1, SetMoves DEF IInv, TypesOK, r
  <1>3. /\ cmd' \in Commands /\ cmd'.op = cmd.op /\ cmd'.o = cmd.o /\ cmd'.todo = cmd.todo
        /\ (cmd.o = o /\ cmd.pc = "await") => cmd'.pc = "fail"
        /\ ~(cmd.o = o /\ cmd.pc = "await") => cmd' = cmd
    BY CommandMoves DEF IInv, TypesOK
  <1>4. TypesOK'
    BY <1>2, <1>3 DEF IInv, TypesOK, Physical
  <1>5. PlaceOK'
    BY <1>3 DEF IInv, LateInv, PlaceOK
  <1>6. AwaitOK'
    BY <1>1, <1>2, <1>3 DEF IInv, LateInv, AwaitOK, PlaceOK
  <1>7. \A p \in Objs : LateOK(p)' /\ TaskOK(p)'
    BY <1>1, <1>2, <1>3, Blank DEF IInv, LateInv, LateOK, TaskOK, Late
  <1> QED BY <1>4, <1>5, <1>6, <1>7 DEF IInv, LateInv

\* The host takes the call of a worker.
LEMMA HostAcceptsLate ==
  ASSUME IInv, NEW o \in Objs, HostEnter(o), UNCHANGED cmd,
         obj[o].worker.kind # "none", obj[o].worker.at = "sent", LifecycleIdle(obj[o]),
         Set(o, [obj[o] EXCEPT !.host = "up", !.worker.at = "in",
                     !.task = [kind |-> obj[o].worker.kind, at |-> "entered",
                               stale |-> obj[o].worker.stale],
                     !.proof = (@ /\ obj[o].worker.kind # "start")])
  PROVE  IInv'
  <1> DEFINE r == [obj[o] EXCEPT !.host = "up", !.worker.at = "in",
                     !.task = [kind |-> obj[o].worker.kind, at |-> "entered",
                               stale |-> obj[o].worker.stale],
                     !.proof = (@ /\ obj[o].worker.kind # "start")]
  <1>0. obj[o] \in Objects
    BY DEF IInv, TypesOK
  <1>1. /\ r \in Objects /\ r.quar = obj[o].quar
        /\ r.worker.kind = obj[o].worker.kind /\ r.worker.stale = obj[o].worker.stale
        /\ r.worker.at = "in" /\ r.task.kind = r.worker.kind /\ r.task.at = "entered"
    BY <1>0 DEF Objects, Records, Workers, Tasks
  <1> HIDE DEF r
  <1>2. obj' \in [Objs -> Objects] /\ obj'[o] = r /\ \A p \in Objs \ {o} : obj'[p] = obj[p]
    BY <1>1, SetMoves DEF IInv, TypesOK, r
  <1>4. TypesOK'
    BY <1>2 DEF IInv, TypesOK, HostEnter, Physical
  <1>5. PlaceOK'
    BY DEF IInv, LateInv, PlaceOK, HostEnter
  <1>6. AwaitOK'
    BY <1>1, <1>2 DEF IInv, LateInv, AwaitOK, PlaceOK, HostEnter
  <1>7. \A p \in Objs : LateOK(p)' /\ TaskOK(p)'
    BY <1>1, <1>2 DEF IInv, LateInv, LateOK, TaskOK, Late
  <1> QED BY <1>4, <1>5, <1>6, <1>7 DEF IInv, LateInv

\* The RPC reaches the host process.
LEMMA HostEnterLate ==
  ASSUME IInv, NEW o \in Objs, HostEnter(o)
  PROVE  IInv'
  BY HostRefusesLate, HostAcceptsLate DEF HostEnter

\* A handler's write moves it on: only the place of the handler changes.
LEMMA PlaceMovesLate ==
  ASSUME IInv, NEW o \in Objs, NEW at \in {"writing", "acked", "failed"},
         at # "failed" => obj[o].task.kind \in {"start", "stop"},
         Set(o, [obj[o] EXCEPT !.task.at = at]), UNCHANGED <<cmd, cur>>
  PROVE  LateInv' /\ obj' \in [Objs -> Objects]
  <1> DEFINE r == [obj[o] EXCEPT !.task.at = at]
  <1>0. obj[o] \in Objects
    BY DEF IInv, TypesOK
  <1>1. /\ r \in Objects /\ r.quar = obj[o].quar /\ r.worker = obj[o].worker
        /\ r.task.kind = obj[o].task.kind /\ r.task.at = at
    BY <1>0 DEF Objects, Records, Workers, Tasks
  <1> HIDE DEF r
  <1>2. obj' \in [Objs -> Objects] /\ obj'[o] = r /\ \A p \in Objs \ {o} : obj'[p] = obj[p]
    BY <1>1, SetMoves DEF IInv, TypesOK, r
  <1>5. PlaceOK'
    BY DEF IInv, LateInv, PlaceOK
  <1>6. AwaitOK'
    BY <1>1, <1>2 DEF IInv, LateInv, AwaitOK, PlaceOK
  <1>7. \A p \in Objs : LateOK(p)' /\ TaskOK(p)'
    BY <1>1, <1>2 DEF IInv, LateInv, LateOK, TaskOK, Late
  <1> QED BY <1>2, <1>5, <1>6, <1>7 DEF LateInv

\* The handler's write is refused or handed to the gateway, within its bound.
LEMMA HostWriteLate ==
  ASSUME IInv, NEW o \in Objs, HostWrite(o)
  PROVE  IInv'
  <1>1. LateInv' /\ obj' \in [Objs -> Objects]
    BY PlaceMovesLate DEF HostWrite
  <1>2. CASE UNCHANGED air
    BY <1>1, <1>2 DEF IInv, TypesOK, HostWrite
  <1>3. CASE ~ UNCHANGED air
    <2>1. /\ At(o) \in link /\ Len(air[At(o)]) < MaxAir /\ air' = Written(o)
          /\ obj[o].task.kind \in {"start", "stop"}
      BY <1>3 DEF HostWrite, At
    <2> DEFINE e == [o |-> o, kind |-> obj[o].task.kind]
    <2>2. e \in Writes /\ At(o) \in Addrs
      BY <2>1 DEF Writes, IInv, TypesOK
    <2>3. air[At(o)] \in Seq(Writes) /\ air' = [air EXCEPT ![At(o)] = Append(@, e)]
      BY <2>1, <2>2 DEF IInv, TypesOK, Written
    <2> HIDE DEF e
    <2>4. Append(air[At(o)], e) \in Seq(Writes) /\ Len(Append(air[At(o)], e)) = Len(air[At(o)]) + 1
      BY <2>2, <2>3
    <2>5. air' \in [Addrs -> Seq(Writes)]
      BY <2>3, <2>4 DEF IInv, TypesOK
    <2>6. \A a \in Addrs : Len(air'[a]) <= MaxAir
      <3> TAKE a \in Addrs
      <3>1. CASE a # At(o)
        BY <3>1, <2>3, <2>2 DEF IInv, TypesOK
      <3>2. CASE a = At(o)
        <4>1. air'[a] = Append(air[At(o)], e)
          BY <3>2, <2>3 DEF IInv, TypesOK
        <4> QED BY <4>1, <2>4, <2>1, <2>3, SlotAssumption
      <3> QED BY <3>1, <3>2
    <2> QED BY <1>1, <2>5, <2>6 DEF IInv, TypesOK, HostWrite
  <1> QED BY <1>2, <1>3

\* The write's response is late, lost or an error.
LEMMA WriteUnconfirmedLate ==
  ASSUME IInv, NEW o \in Objs, WriteUnconfirmed(o)
  PROVE  IInv'
  <1>1. LateInv' /\ obj' \in [Objs -> Objects]
    BY PlaceMovesLate DEF WriteUnconfirmed
  <1> QED BY <1>1 DEF IInv, TypesOK, WriteUnconfirmed, Physical

\* The handler returns, and the command learns it if it still waits.
LEMMA HostReturnLate ==
  ASSUME IInv, NEW o \in Objs, HostReturn(o)
  PROVE  IInv'
  <1> DEFINE r == [obj[o] EXCEPT !.task = NoTask, !.proof = (@ \/ StopProved(obj[o])),
                     !.worker = IF obj[o].worker.at = "in" THEN NoWorker ELSE @]
  <1>0. obj[o] \in Objects
    BY DEF IInv, TypesOK
  <1>a. StopProved(obj[o]) \in BOOLEAN
    BY DEF StopProved
  <1>1. /\ r \in Objects /\ r.quar = obj[o].quar /\ r.task = NoTask
        /\ r.worker = IF obj[o].worker.at = "in" THEN NoWorker ELSE obj[o].worker
    BY <1>0, <1>a, Blank DEF Objects, Records
  <1>b. Set(o, r)
    BY DEF HostReturn
  <1> HIDE DEF r
  <1>2. obj' \in [Objs -> Objects] /\ obj'[o] = r /\ \A p \in Objs \ {o} : obj'[p] = obj[p]
    BY <1>1, <1>b, SetMoves DEF IInv, TypesOK
  <1>c. \/ obj[o].worker.at = "in" /\ \E out \in {"ok", "fail"} : Deliver(o, out)
        \/ obj[o].worker.at # "in" /\ cmd' = cmd
    BY DEF HostReturn
  <1>3. /\ cmd' \in Commands /\ cmd'.op = cmd.op /\ cmd'.o = cmd.o /\ cmd'.todo = cmd.todo
        /\ (cmd.o = o /\ cmd.pc = "await" /\ obj[o].worker.at = "in") => cmd'.pc \in {"ok", "fail"}
        /\ ~(cmd.o = o /\ cmd.pc = "await" /\ obj[o].worker.at = "in") => cmd' = cmd
    BY <1>c, CommandMoves DEF IInv, TypesOK
  <1>4. TypesOK'
    BY <1>2, <1>3 DEF IInv, TypesOK, HostReturn, Physical
  <1>5. PlaceOK'
    BY <1>3 DEF IInv, LateInv, PlaceOK, HostReturn
  <1>6. AwaitOK'
    BY <1>1, <1>2, <1>3, Blank DEF IInv, LateInv, AwaitOK, PlaceOK
  <1>7. \A p \in Objs : LateOK(p)' /\ TaskOK(p)'
    BY <1>1, <1>2, <1>3, Blank DEF IInv, LateInv, LateOK, TaskOK, Late
  <1> QED BY <1>4, <1>5, <1>6, <1>7 DEF IInv, LateInv

\* The worker of an expired operation stops waiting.
LEMMA WorkerEndsLate ==
  ASSUME IInv, NEW o \in Objs, WorkerEnds(o)
  PROVE  IInv'
  <1> DEFINE r == [obj[o] EXCEPT !.worker = NoWorker]
  <1>1. r \in Objects /\ r.worker = NoWorker /\ r.task = obj[o].task /\ r.quar = obj[o].quar
    BY Blank DEF IInv, TypesOK, Objects, Records
  <1>b. Set(o, r)
    BY DEF WorkerEnds
  <1> HIDE DEF r
  <1>2. obj' \in [Objs -> Objects] /\ obj'[o] = r /\ \A p \in Objs \ {o} : obj'[p] = obj[p]
    BY <1>1, <1>b, SetMoves DEF IInv, TypesOK
  <1>4. TypesOK'
    BY <1>2 DEF IInv, TypesOK, WorkerEnds, Physical
  <1>5. PlaceOK'
    BY DEF IInv, LateInv, PlaceOK, WorkerEnds
  <1>6. AwaitOK'
    BY <1>1, <1>2 DEF IInv, LateInv, AwaitOK, PlaceOK, WorkerEnds
  <1>7. \A p \in Objs : LateOK(p)' /\ TaskOK(p)'
    BY <1>1, <1>2, Blank DEF IInv, LateInv, LateOK, TaskOK, Late, WorkerEnds, AwaitOK
  <1> QED BY <1>4, <1>5, <1>6, <1>7 DEF IInv, LateInv

\* A plugin host crashes.
LEMMA HostCrashLate ==
  ASSUME IInv, NEW o \in Objs, HostCrash(o)
  PROVE  IInv'
  <1> DEFINE r == HostGone(obj[o], "dead")
  <1>1. r \in Objects /\ r.worker = NoWorker /\ r.task = NoTask /\ r.quar = obj[o].quar
    BY HostGoneFields DEF IInv, TypesOK
  <1>b. Set(o, r) /\ Deliver(o, "fail")
    BY DEF HostCrash
  <1> HIDE DEF r
  <1>2. obj' \in [Objs -> Objects] /\ obj'[o] = r /\ \A p \in Objs \ {o} : obj'[p] = obj[p]
    BY <1>1, <1>b, SetMoves DEF IInv, TypesOK
  <1>3. /\ cmd' \in Commands /\ cmd'.op = cmd.op /\ cmd'.o = cmd.o /\ cmd'.todo = cmd.todo
        /\ (cmd.o = o /\ cmd.pc = "await") => cmd'.pc = "fail"
        /\ ~(cmd.o = o /\ cmd.pc = "await") => cmd' = cmd
    BY <1>b, CommandMoves DEF IInv, TypesOK
  <1>4. TypesOK'
    BY <1>2, <1>3 DEF IInv, TypesOK, HostCrash, Physical
  <1>5. PlaceOK'
    BY <1>3 DEF IInv, LateInv, PlaceOK, HostCrash
  <1>6. AwaitOK'
    BY <1>1, <1>2, <1>3 DEF IInv, LateInv, AwaitOK, PlaceOK
  <1>7. \A p \in Objs : LateOK(p)' /\ TaskOK(p)'
    BY <1>1, <1>2, <1>3, Blank DEF IInv, LateInv, LateOK, TaskOK, Late
  <1> QED BY <1>4, <1>5, <1>6, <1>7 DEF IInv, LateInv

\* A step that touches no worker, no handler and no quarantine.
LEMMA UntouchedLate ==
  ASSUME IInv, UNCHANGED <<cmd, cur>>,
         \A p \in Objs : /\ obj'[p].worker = obj[p].worker /\ obj'[p].task = obj[p].task
                         /\ obj'[p].quar = obj[p].quar
  PROVE  LateInv'
  <1>5. PlaceOK'
    BY DEF IInv, LateInv, PlaceOK
  <1>6. AwaitOK'
    BY DEF IInv, LateInv, AwaitOK, PlaceOK
  <1>7. \A p \in Objs : LateOK(p)' /\ TaskOK(p)'
    BY DEF IInv, LateInv, LateOK, TaskOK, Late
  <1> QED BY <1>5, <1>6, <1>7 DEF LateInv

\* What the queues of the gateway become when one is emptied or advances.
LEMMA Shorter ==
  ASSUME air \in [Addrs -> Seq(Writes)], \A a \in Addrs : Len(air[a]) <= MaxAir,
         NEW b, NEW q \in Seq(Writes), Len(q) <= MaxAir, air' = [air EXCEPT ![b] = q]
  PROVE  air' \in [Addrs -> Seq(Writes)] /\ \A a \in Addrs : Len(air'[a]) <= MaxAir
  <1>1. CASE b \in Addrs
    BY <1>1
  <1>2. CASE b \notin Addrs
    BY <1>2
  <1> QED BY <1>1, <1>2

\* The empty queue is one.
LEMMA NoWrites == <<>> \in Seq(Writes) /\ Len(<<>>) <= MaxAir
  BY SlotAssumption

\* The gateway executes a write: its handler is acknowledged.
LEMMA ExecuteLate ==
  ASSUME IInv, NEW a \in Addrs, Execute(a)
  PROVE  IInv'
  <1>1. air[a] \in Seq(Writes) /\ air[a] # <<>> /\ Len(air[a]) <= MaxAir
    BY DEF IInv, TypesOK, Execute
  <1>2. /\ Head(air[a]) \in Writes /\ Tail(air[a]) \in Seq(Writes)
        /\ Len(Tail(air[a])) <= MaxAir
    BY <1>1, SlotAssumption
  <1>3. air' \in [Addrs -> Seq(Writes)] /\ \A b \in Addrs : Len(air'[b]) <= MaxAir
    BY <1>2, Shorter DEF IInv, TypesOK, Execute
  <1> DEFINE o == Head(air[a]).o
  <1>4. o \in Objs
    BY <1>2 DEF Writes
  <1>5. LateInv' /\ obj' \in [Objs -> Objects]
    <2>1. CASE obj' = obj
      BY <2>1, UntouchedLate DEF Execute, IInv, TypesOK
    <2>2. CASE obj' # obj
      <3>1. obj' = [obj EXCEPT ![o].task.at = "acked"] /\ obj[o].task.at = "writing"
        BY <2>2 DEF Execute
      <3>2. obj[o].task.kind \in {"start", "stop"}
        BY <3>1, <1>4 DEF IInv, LateInv, TaskOK
      <3>3. Set(o, [obj[o] EXCEPT !.task.at = "acked"])
        BY <3>1 DEF Set
      <3> HIDE DEF o
      <3> QED BY <3>2, <3>3, <1>4, PlaceMovesLate DEF Execute
    <2> QED BY <2>1, <2>2
  <1>6. meas' \subseteq Addrs
    BY DEF Execute, IInv, TypesOK
  <1> QED BY <1>3, <1>5, <1>6 DEF IInv, TypesOK, Execute

\* A link is lost, or the operator power cycles a device.
LEMMA LinkLossLate ==
  ASSUME IInv, NEW a \in Addrs, LinkLoss(a) \/ PowerCycle(a)
  PROVE  IInv'
  <1>1. LateInv'
    BY UntouchedLate DEF LinkLoss, PowerCycle
  <1>2. air' \in [Addrs -> Seq(Writes)] /\ \A b \in Addrs : Len(air'[b]) <= MaxAir
    BY NoWrites, Shorter DEF IInv, TypesOK, LinkLoss, PowerCycle
  <1> QED BY <1>1, <1>2 DEF IInv, TypesOK, LinkLoss, PowerCycle

\* A sensor_disconnected event is handled.
LEMMA LossEventLate ==
  ASSUME IInv, NEW a \in Addrs, LossEvent(a)
  PROVE  IInv'
  <1>1. CASE obj' = obj
    BY <1>1, UntouchedLate DEF LossEvent, IInv, TypesOK
  <1>2. CASE obj' # obj
    <2> DEFINE o == reg[a]
               c == obj[o].conn /\ At(o) # a
               r == [obj[o] EXCEPT !.status = FALSE, !.conn = c]
    <2>1. o \in Objs /\ obj[o] \in Objects
      BY <1>2 DEF LossEvent, IInv, TypesOK
    <2>2. obj' = [obj EXCEPT ![o].status = FALSE, ![o].conn = (@ /\ At(o) # a)]
      BY <1>2 DEF LossEvent
    <2>3. Set(o, r)
      BY <2>1, <2>2 DEF Set, IInv, TypesOK, Objects, Records
    <2>a. c \in BOOLEAN
      OBVIOUS
    <2> HIDE DEF c
    <2>4. r \in Objects /\ r.worker = obj[o].worker /\ r.task = obj[o].task /\ r.quar = obj[o].quar
      BY <2>1, <2>a DEF Objects, Records
    <2> HIDE DEF r, o
    <2>5. obj' \in [Objs -> Objects] /\ obj'[o] = r /\ \A p \in Objs \ {o} : obj'[p] = obj[p]
      BY <2>1, <2>3, <2>4, SetMoves DEF IInv, TypesOK
    <2>6. LateInv'
      BY <2>4, <2>5, UntouchedLate DEF LossEvent
    <2> QED BY <2>5, <2>6 DEF LossEvent, IInv, TypesOK
  <1> QED BY <1>1, <1>2

\* Discovery binds the slot to a device.
LEMMA DiscoverLate ==
  ASSUME IInv, Discover
  PROVE  IInv'
  <1> PICK a \in Advertising : Set(cur, WithClient(obj[cur], a)) /\ reg' = [reg EXCEPT ![a] = cur]
    BY DEF Discover
  <1>0. cur \in Objs /\ obj[cur] \in Objects /\ a \in Addrs
    BY DEF IInv, TypesOK, Advertising
  <1> DEFINE r == WithClient(obj[cur], a)
  <1>1. /\ r \in Objects /\ r.worker = obj[cur].worker /\ r.task = obj[cur].task
        /\ r.quar = obj[cur].quar
    BY <1>0 DEF Objects, Records, WithClient
  <1> HIDE DEF r
  <1>2. obj' \in [Objs -> Objects] /\ obj'[cur] = r /\ \A p \in Objs \ {cur} : obj'[p] = obj[p]
    BY <1>0, <1>1, SetMoves DEF IInv, TypesOK, r
  <1>3. LateInv'
    BY <1>1, <1>2, UntouchedLate DEF Discover
  <1>4. reg' \in [Addrs -> Objs \cup {None}]
    BY <1>0 DEF IInv, TypesOK
  <1> QED BY <1>2, <1>3, <1>4 DEF IInv, TypesOK, Discover, Physical

\* A command of the loop begins: it makes a call, or the object is at rest.
LEMMA BeginLate ==
  ASSUME IInv, NEW op \in Sequential, NEW pc \in Pcs, cmd = Idle, Begin(op, pc, cur), cur' = cur,
         op # "cleanup" => pc = "await", pc \in {"await", "disconnect", "retire"},
         NEW r \in Objects, Set(cur, r), r.task = obj[cur].task, r.quar = obj[cur].quar,
         IF pc = "await" THEN r.worker.kind = KindOf(op) /\ ~r.worker.stale /\ r.worker.at = "sent"
                         ELSE r.worker = obj[cur].worker
  PROVE  LateInv' /\ obj' \in [Objs -> Objects] /\ cmd' \in Commands
  <1>0. cur \in Objs /\ op \in Ops /\ cmd.pc # "await"
    BY Blank DEF IInv, TypesOK, Ops
  <1>2. obj' \in [Objs -> Objects] /\ obj'[cur] = r /\ \A p \in Objs \ {cur} : obj'[p] = obj[p]
    BY <1>0, SetMoves DEF IInv, TypesOK
  <1>3. cmd' \in Commands /\ cmd'.op = op /\ cmd'.pc = pc /\ cmd'.o = cur
    BY <1>0, CommandMoves DEF IInv, TypesOK
  <1>4. Late(obj[cur]) => obj[cur].quar
    BY <1>0 DEF IInv, LateInv, LateOK
  <1>5. PlaceOK'
    BY <1>0, <1>3 DEF PlaceOK, Sequential
  <1>6. AwaitOK'
    BY <1>0, <1>2, <1>3 DEF AwaitOK, Sequential
  <1>7. \A p \in Objs : LateOK(p)' /\ TaskOK(p)'
    BY <1>0, <1>2, <1>3, <1>4 DEF IInv, LateInv, LateOK, TaskOK, Late
  <1> QED BY <1>2, <1>3, <1>5, <1>6, <1>7 DEF LateInv

\* Only a field that late work does not depend on is set.
LEMMA CurrentLate ==
  ASSUME IInv, UNCHANGED <<cmd, cur>>, NEW r \in Objects, Set(cur, r),
         r.worker = obj[cur].worker, r.task = obj[cur].task, r.quar = obj[cur].quar
  PROVE  LateInv' /\ obj' \in [Objs -> Objects]
  <1>2. obj' \in [Objs -> Objects] /\ obj'[cur] = r /\ \A p \in Objs \ {cur} : obj'[p] = obj[p]
    BY SetMoves DEF IInv, TypesOK
  <1> QED BY <1>2, UntouchedLate

\* A device is linked again for the client its object has kept.
LEMMA RelinkTypes ==
  ASSUME IInv, NEW o \in Objs, obj[o].client, Relink(o)
  PROVE  link' \subseteq Addrs /\ reg' \in [Addrs -> Objs \cup {None}]
  <1>1. At(o) \in Addrs
    BY Fields DEF At, IInv, TypesOK
  <1> QED BY <1>1 DEF Relink, LinkUp, IInv, TypesOK

\* connect_to_device and set_up_sensor.
LEMMA ConnectLate ==
  ASSUME IInv, Connect
  PROVE  IInv'
  <1>0. cur \in Objs /\ obj[cur] \in Objects /\ cmd = Idle
    BY DEF IInv, TypesOK, Connect
  <1>1. link' \subseteq Addrs /\ reg' \in [Addrs -> Objs \cup {None}]
    BY <1>0, RelinkTypes DEF Connect
  <1>2. LateInv' /\ obj' \in [Objs -> Objects] /\ cmd' \in Commands
    <2> DEFINE r == CountsConnected(obj[cur])
    <2>1. /\ r \in Objects /\ r.worker = obj[cur].worker /\ r.task = obj[cur].task
          /\ r.quar = obj[cur].quar
      BY <1>0 DEF Objects, Records, CountsConnected
    <2> DEFINE q == [obj[cur] EXCEPT !.conn = TRUE]
    <2>2. /\ q \in Objects /\ q.worker = obj[cur].worker /\ q.task = obj[cur].task
          /\ q.quar = obj[cur].quar
      BY <1>0 DEF Objects, Records
    <2>3. SetUpSensor(r) \/ (Set(cur, q) /\ UNCHANGED cmd)
      BY DEF Connect
    <2>4. cur' = cur /\ "setup" \in Kinds /\ KindOf("connect") = "setup"
      BY DEF Connect, Kinds, KindOf
    <2> HIDE DEF r, q
    <2>5. CASE Set(cur, q) /\ UNCHANGED cmd
      BY <2>2, <2>4, <2>5, CurrentLate DEF IInv, TypesOK
    <2>6. CASE Set(cur, r) /\ UNCHANGED cmd
      BY <2>1, <2>4, <2>6, CurrentLate DEF IInv, TypesOK
    <2>7. CASE Set(cur, Launch(r, "setup")) /\ Begin("connect", "await", cur)
      <3> DEFINE l == Launch(r, "setup")
      <3>1. /\ l \in Objects /\ l.worker.kind = "setup" /\ l.worker.at = "sent" /\ ~l.worker.stale
            /\ l = [r EXCEPT !.worker = l.worker]
        BY <2>1, <2>4, LaunchFields
      <3>2. l.task = r.task /\ l.quar = r.quar
        <4> HIDE DEF l
        <4> QED BY <3>1, <2>1 DEF Objects, Records
      <3>3. Set(cur, l)
        BY <2>7
      <3> HIDE DEF l
      <3> QED BY <3>1, <3>2, <3>3, <2>1, <2>4, <2>7, <1>0, BeginLate DEF Sequential, Pcs
    <2> QED BY <2>3, <2>5, <2>6, <2>7 DEF SetUpSensor
  <1> QED BY <1>1, <1>2 DEF IInv, TypesOK, Connect

\* _start_sensor_stream.
LEMMA StartLate ==
  ASSUME IInv, Start
  PROVE  IInv'
  <1>0. cur \in Objs /\ obj[cur] \in Objects /\ cmd = Idle
    BY DEF IInv, TypesOK, Start
  <1>2. LateInv' /\ obj' \in [Objs -> Objects] /\ cmd' \in Commands
    <2> DEFINE r == [obj[cur] EXCEPT !.pending = TRUE]
    <2>1. /\ r \in Objects /\ r.worker = obj[cur].worker /\ r.task = obj[cur].task
          /\ r.quar = obj[cur].quar
      BY <1>0 DEF Objects, Records
    <2>3. \/ Set(cur, r) /\ UNCHANGED cmd
          \/ Set(cur, Launch(r, "start")) /\ Begin("start", "await", cur)
      BY DEF Start
    <2>4. cur' = cur /\ "start" \in Kinds /\ KindOf("start") = "start"
      BY DEF Start, Kinds, KindOf
    <2> HIDE DEF r
    <2>6. CASE Set(cur, r) /\ UNCHANGED cmd
      BY <2>1, <2>4, <2>6, CurrentLate DEF IInv, TypesOK
    <2>7. CASE Set(cur, Launch(r, "start")) /\ Begin("start", "await", cur)
      <3> DEFINE l == Launch(r, "start")
      <3>1. /\ l \in Objects /\ l.worker.kind = "start" /\ l.worker.at = "sent" /\ ~l.worker.stale
            /\ l = [r EXCEPT !.worker = l.worker]
        BY <2>1, <2>4, LaunchFields
      <3>2. l.task = r.task /\ l.quar = r.quar
        <4> HIDE DEF l
        <4> QED BY <3>1, <2>1 DEF Objects, Records
      <3>3. Set(cur, l)
        BY <2>7
      <3> HIDE DEF l
      <3> QED BY <3>1, <3>2, <3>3, <2>1, <2>4, <2>7, <1>0, BeginLate DEF Sequential, Pcs
    <2> QED BY <2>3, <2>6, <2>7
  <1> QED BY <1>2 DEF IInv, TypesOK, Start, Physical

\* A command ends: its object is at rest, or expired and quarantined.
LEMMA EndLate ==
  ASSUME IInv, End, cur' = cur, NEW o \in Objs, NEW r \in Objects, Set(o, r), cmd.o = o,
         r.task.kind = obj[o].task.kind, r.task.at = obj[o].task.at, obj[o].quar => r.quar,
         r.worker.kind # "none" => obj[o].worker.kind # "none",
         cmd.pc = "await" => r.quar
  PROVE  LateInv' /\ obj' \in [Objs -> Objects] /\ cmd' \in Commands
  <1>1. cmd' = Idle
    BY DEF End
  <1>2. obj' \in [Objs -> Objects] /\ obj'[o] = r /\ \A p \in Objs \ {o} : obj'[p] = obj[p]
    BY SetMoves DEF IInv, TypesOK
  <1>5. PlaceOK'
    BY <1>1, Blank DEF PlaceOK, Sequential
  <1>6. AwaitOK'
    BY <1>1, Blank DEF AwaitOK
  <1>7. \A p \in Objs : LateOK(p)' /\ TaskOK(p)'
    BY <1>2 DEF IInv, LateInv, LateOK, TaskOK, Late
  <1> QED BY <1>1, <1>2, <1>5, <1>6, <1>7, Blank DEF LateInv

\* A setup or START ends; every failure of it quarantines.
LEMMA LifecycleEndsLate ==
  ASSUME IInv, LifecycleEnds
  PROVE  IInv'
  <1>0. cmd.o \in Objs /\ obj[cmd.o] \in Objects /\ cmd.pc # "await" /\ cur' = cur /\ End
    BY DEF IInv, TypesOK, LateInv, PlaceOK, LifecycleEnds
  <1> DEFINE r == [obj[cmd.o] EXCEPT !.quar = (@ \/ cmd.pc = "fail")]
  <1>1. /\ r \in Objects /\ r.worker = obj[cmd.o].worker /\ r.task = obj[cmd.o].task
        /\ obj[cmd.o].quar => r.quar
    BY <1>0 DEF Objects, Records
  <1>b. Set(cmd.o, r)
    BY DEF LifecycleEnds
  <1> HIDE DEF r
  <1>2. LateInv' /\ obj' \in [Objs -> Objects] /\ cmd' \in Commands
    BY <1>0, <1>1, <1>b, EndLate
  <1>3. streaming' \in BOOLEAN
    BY DEF LifecycleEnds, IInv, TypesOK
  <1> QED BY <1>2, <1>3 DEF IInv, TypesOK, LifecycleEnds, Physical

\* The record of an expired and quarantined object.
LEMMA ExpiredQuarantined ==
  ASSUME NEW r \in Objects
  PROVE  LET q == [Expire(r) EXCEPT !.quar = TRUE] IN
         /\ q \in Objects /\ q.quar /\ q.task.kind = r.task.kind /\ q.task.at = r.task.at
         /\ q.worker.kind = r.worker.kind /\ q.addr = r.addr /\ q.pending = r.pending
         /\ q.client = r.client /\ q.conn = r.conn /\ q.proof = r.proof /\ q.status = r.status
  <1> DEFINE x == Expire(r)
             q == [x EXCEPT !.quar = TRUE]
  <1>1. /\ x \in Objects /\ x = [r EXCEPT !.worker = x.worker, !.task = x.task]
        /\ x.worker.kind = r.worker.kind /\ x.task.kind = r.task.kind /\ x.task.at = r.task.at
    BY ExpireFields
  <1> HIDE DEF x
  <1>2. /\ x.addr = r.addr /\ x.pending = r.pending /\ x.client = r.client
        /\ x.conn = r.conn /\ x.proof = r.proof /\ x.status = r.status
    BY <1>1 DEF Objects, Records
  <1>3. /\ q \in Objects /\ q.quar /\ q.task = x.task /\ q.worker = x.worker /\ q.addr = x.addr
        /\ q.pending = x.pending /\ q.client = x.client /\ q.conn = x.conn
        /\ q.proof = x.proof /\ q.status = x.status
    BY <1>1 DEF Objects, Records
  <1> HIDE DEF q
  <1>4. /\ q \in Objects /\ q.quar /\ q.task.kind = r.task.kind /\ q.task.at = r.task.at
        /\ q.worker.kind = r.worker.kind /\ q.addr = r.addr /\ q.pending = r.pending
        /\ q.client = r.client /\ q.conn = r.conn /\ q.proof = r.proof /\ q.status = r.status
    BY <1>1, <1>2, <1>3
  <1> QED BY <1>4 DEF q, x

\* A setup, START or STOP outlives its deadline.
LEMMA ExpiryLate ==
  ASSUME IInv, cmd.pc = "await", End, cur' = cur,
         Set(cmd.o, [Expire(obj[cmd.o]) EXCEPT !.quar = TRUE])
  PROVE  LateInv' /\ obj' \in [Objs -> Objects] /\ cmd' \in Commands
  <1>0. cmd.o \in Objs /\ obj[cmd.o] \in Objects
    BY DEF IInv, TypesOK, LateInv, PlaceOK
  <1> DEFINE q == [Expire(obj[cmd.o]) EXCEPT !.quar = TRUE]
  <1>1. /\ q \in Objects /\ q.quar /\ q.task.kind = obj[cmd.o].task.kind
        /\ q.task.at = obj[cmd.o].task.at /\ q.worker.kind = obj[cmd.o].worker.kind
    BY <1>0, ExpiredQuarantined
  <1> HIDE DEF q
  <1>2. Set(cmd.o, q)
    BY DEF q
  <1> QED BY <1>0, <1>1, <1>2, EndLate

\* The deadline of a setup or START.
LEMMA LifecycleTimesOutLate ==
  ASSUME IInv, LifecycleTimesOut
  PROVE  IInv'
  <1>1. LateInv' /\ obj' \in [Objs -> Objects] /\ cmd' \in Commands
    BY ExpiryLate DEF LifecycleTimesOut
  <1> QED BY <1>1 DEF IInv, TypesOK, LifecycleTimesOut, Physical

\* recovery_obligations stays a map of addresses to objects.
LEMMA ObligeTypes ==
  ASSUME IInv, NEW o \in Objs
  PROVE  Oblige(o) \in [Keys -> Objs \cup {None, Unknown}]
  BY DEF IInv, TypesOK, Oblige

\* The configured sensor is quarantined outside a reset.
LEMMA QuarantineLate ==
  ASSUME IInv, UNCHANGED <<cmd, cur>>, cmd.op # "recover",
         Set(cur, [obj[cur] EXCEPT !.quar = TRUE])
  PROVE  LateInv' /\ obj' \in [Objs -> Objects]
  <1>0. cur \in Objs /\ obj[cur] \in Objects
    BY DEF IInv, TypesOK
  <1> DEFINE r == [obj[cur] EXCEPT !.quar = TRUE]
  <1>1. r \in Objects /\ r.worker = obj[cur].worker /\ r.task = obj[cur].task /\ r.quar
    BY <1>0 DEF Objects, Records
  <1> HIDE DEF r
  <1>2. obj' \in [Objs -> Objects] /\ obj'[cur] = r /\ \A p \in Objs \ {cur} : obj'[p] = obj[p]
    BY <1>0, <1>1, SetMoves DEF IInv, TypesOK, r
  <1>5. PlaceOK'
    BY DEF IInv, LateInv, PlaceOK
  <1>6. AwaitOK'
    BY <1>1, <1>2 DEF IInv, LateInv, AwaitOK, PlaceOK
  <1>7. \A p \in Objs : LateOK(p)' /\ TaskOK(p)'
    BY <1>1, <1>2 DEF IInv, LateInv, LateOK, TaskOK, Late
  <1> QED BY <1>2, <1>5, <1>6, <1>7 DEF LateInv

\* A STOP is handed to the plugin of the configured sensor.
LEMMA LaunchStopLate ==
  ASSUME IInv, cmd = Idle, NEW op \in {"stop", "cleanup"}, Begin(op, "await", cur), cur' = cur,
         NEW r \in Objects, r.task = obj[cur].task, r.quar = obj[cur].quar,
         Set(cur, Launch(r, "stop"))
  PROVE  LateInv' /\ obj' \in [Objs -> Objects] /\ cmd' \in Commands
  <1> DEFINE l == Launch(r, "stop")
  <1>0. "stop" \in Kinds /\ KindOf(op) = "stop" /\ op \in Sequential /\ "await" \in Pcs
    BY DEF Kinds, KindOf, Sequential, Pcs
  <1>1. /\ l \in Objects /\ l.worker.kind = "stop" /\ l.worker.at = "sent" /\ ~l.worker.stale
        /\ l = [r EXCEPT !.worker = l.worker]
    BY <1>0, LaunchFields
  <1>2. l.task = r.task /\ l.quar = r.quar
    <2> HIDE DEF l
    <2> QED BY <1>1 DEF Objects, Records
  <1>3. Set(cur, l)
    OBVIOUS
  <1> HIDE DEF l
  <1> QED BY <1>0, <1>1, <1>2, <1>3, BeginLate

\* stop_all.
LEMMA StopLate ==
  ASSUME IInv, Stop
  PROVE  IInv'
  <1>0. cur \in Objs /\ obj[cur] \in Objects /\ cmd = Idle /\ cur' = cur /\ cmd.op # "recover"
    BY Blank DEF IInv, TypesOK, Stop
  <1>1. oblig' \in [Keys -> Objs \cup {None, Unknown}]
    BY <1>0, ObligeTypes DEF Stop, IInv, TypesOK
  <1>2. LateInv' /\ obj' \in [Objs -> Objects] /\ cmd' \in Commands
    <2>1. CASE Set(cur, [obj[cur] EXCEPT !.quar = TRUE]) /\ UNCHANGED cmd
      BY <1>0, <2>1, QuarantineLate DEF IInv, TypesOK
    <2>2. CASE UNCHANGED <<obj, cmd>>
      BY <1>0, <2>2, UntouchedLate DEF IInv, TypesOK
    <2>3. CASE Set(cur, Launch(obj[cur], "stop")) /\ Begin("stop", "await", cur)
      BY <1>0, <2>3, LaunchStopLate
    <2> QED BY <2>1, <2>2, <2>3 DEF Stop
  <1> QED BY <1>1, <1>2 DEF IInv, TypesOK, Stop, Physical

\* A confirmed STOP clears the pending measurement only.
LEMMA StopConfirmedFields ==
  ASSUME NEW r \in Objects
  PROVE  LET q == StopConfirmed(r) IN
         /\ q \in Objects /\ q.worker = r.worker /\ q.task = r.task /\ q.quar = r.quar
         /\ q.addr = r.addr /\ q.client = r.client /\ q.conn = r.conn /\ q.proof = r.proof
         /\ q.status = r.status /\ q.pending = FALSE /\ q.host = r.host
  BY DEF StopConfirmed, Objects, Records

\* The object itself is a legal new value of it.
LEMMA SetSelf ==
  ASSUME IInv, NEW o \in Objs, obj' = obj
  PROVE  Set(o, obj[o]) /\ obj[o] \in Objects
  BY DEF IInv, TypesOK, Set

\* A STOP ends.
LEMMA StopEndsLate ==
  ASSUME IInv, StopEnds
  PROVE  IInv'
  <1>0. /\ cmd.o \in Objs /\ obj[cmd.o] \in Objects /\ cmd.pc # "await" /\ cur' = cur /\ End
    BY DEF IInv, TypesOK, LateInv, PlaceOK, StopEnds
  <1>1. oblig' \in [Keys -> Objs \cup {None, Unknown}]
    BY <1>0, ObligeTypes DEF StopEnds, IInv, TypesOK
  <1>2. LateInv' /\ obj' \in [Objs -> Objects] /\ cmd' \in Commands
    <2> DEFINE q == StopConfirmed(obj[cmd.o])
    <2>1. q \in Objects /\ q.worker = obj[cmd.o].worker /\ q.task = obj[cmd.o].task
          /\ q.quar = obj[cmd.o].quar
      BY <1>0, StopConfirmedFields
    <2>2. Set(cmd.o, q) \/ obj' = obj
      BY DEF StopEnds
    <2> HIDE DEF q
    <2>3. CASE Set(cmd.o, q)
      BY <1>0, <2>1, <2>3, EndLate
    <2>4. CASE obj' = obj
      BY <1>0, <2>4, SetSelf, EndLate
    <2> QED BY <2>2, <2>3, <2>4
  <1> QED BY <1>1, <1>2 DEF IInv, TypesOK, StopEnds, Physical

\* The deadline of a STOP.
LEMMA StopTimesOutLate ==
  ASSUME IInv, StopTimesOut
  PROVE  IInv'
  <1>0. cmd.o \in Objs
    BY DEF IInv, LateInv, PlaceOK, StopTimesOut, Running
  <1>1. LateInv' /\ obj' \in [Objs -> Objects] /\ cmd' \in Commands
    BY ExpiryLate DEF StopTimesOut, Running
  <1>2. oblig' \in [Keys -> Objs \cup {None, Unknown}]
    BY <1>0, ObligeTypes DEF StopTimesOut
  <1> QED BY <1>1, <1>2 DEF IInv, TypesOK, StopTimesOut, Physical

\* Core gives up waiting for the STOP.
LEMMA CoreGivesUpLate ==
  ASSUME IInv, CoreGivesUp
  PROVE  IInv'
  <1>1. LateInv' /\ obj' \in [Objs -> Objects]
    BY QuarantineLate DEF CoreGivesUp
  <1> QED BY <1>1 DEF IInv, TypesOK, CoreGivesUp, Physical

\* A cleanup begins.
LEMMA CleanupLate ==
  ASSUME IInv, Cleanup
  PROVE  IInv'
  <1>0. cur \in Objs /\ obj[cur] \in Objects /\ cmd = Idle /\ cur' = cur
    BY DEF IInv, TypesOK, Cleanup
  <1>1. oblig' \in [Keys -> Objs \cup {None, Unknown}]
    BY <1>0, ObligeTypes DEF Cleanup, IInv, TypesOK
  <1>2. link' \subseteq Addrs /\ reg' \in [Addrs -> Objs \cup {None}]
    <2>1. UNCHANGED <<link, reg>> \/ (obj[cur].client /\ Relink(cur))
      BY DEF Cleanup
    <2> QED BY <2>1, <1>0, RelinkTypes DEF IInv, TypesOK
  <1>3. LateInv' /\ obj' \in [Objs -> Objects] /\ cmd' \in Commands
    <2>1. CASE UNCHANGED <<obj, cmd>>
      BY <1>0, <2>1, UntouchedLate DEF IInv, TypesOK
    <2> DEFINE r == [obj[cur] EXCEPT !.conn = TRUE, !.status = (@ \/ ~obj[cur].conn)]
    <2>2. CASE Set(cur, Launch(r, "stop")) /\ Begin("cleanup", "await", cur)
      <3>1. r \in Objects /\ r.task = obj[cur].task /\ r.quar = obj[cur].quar
        BY <1>0 DEF Objects, Records
      <3> HIDE DEF r
      <3> QED BY <1>0, <2>2, <3>1, LaunchStopLate
    <2>3. CASE /\ obj' = obj
               /\ Begin("cleanup", IF obj[cur].conn THEN "disconnect" ELSE "retire", cur)
      <3> DEFINE pc == IF obj[cur].conn THEN "disconnect" ELSE "retire"
      <3>1. pc \in {"disconnect", "retire"} /\ pc \in Pcs /\ "cleanup" \in Sequential
        BY DEF Pcs, Sequential
      <3>2. Begin("cleanup", pc, cur) /\ Set(cur, obj[cur])
        BY <2>3, <1>0, SetSelf
      <3> HIDE DEF pc
      <3> QED BY <1>0, <3>1, <3>2, BeginLate
    <2> QED BY <2>1, <2>2, <2>3 DEF Cleanup
  <1> QED BY <1>1, <1>2, <1>3 DEF IInv, TypesOK, Cleanup

\* A cleanup goes on, with what its object has become.
LEMMA GotoLate ==
  ASSUME IInv, cmd.op = "cleanup", cmd.pc # "-", cmd.pc # "next",
         NEW pc \in {"disconnect", "retire"}, Goto(pc), cur' = cur,
         NEW r \in Objects, Set(cmd.o, r),
         r.task.kind = obj[cmd.o].task.kind, r.task.at = obj[cmd.o].task.at,
         r.worker.kind # "none" => obj[cmd.o].worker.kind # "none",
         obj[cmd.o].quar => r.quar, cmd.pc = "await" => r.quar
  PROVE  LateInv' /\ obj' \in [Objs -> Objects] /\ cmd' \in Commands
  <1>0. cmd.o \in Objs /\ pc \in Pcs
    BY DEF IInv, TypesOK, LateInv, PlaceOK, Pcs, Commands
  <1>2. obj' \in [Objs -> Objects] /\ obj'[cmd.o] = r /\ \A p \in Objs \ {cmd.o} : obj'[p] = obj[p]
    BY <1>0, SetMoves DEF IInv, TypesOK
  <1>3. cmd' \in Commands /\ cmd'.op = cmd.op /\ cmd'.pc = pc /\ cmd'.o = cmd.o
    BY <1>0, CommandMoves DEF IInv, TypesOK
  <1>5. PlaceOK'
    BY <1>0, <1>3 DEF IInv, LateInv, PlaceOK, Sequential
  <1>6. AwaitOK'
    BY <1>3 DEF AwaitOK
  <1>7. \A p \in Objs : LateOK(p)' /\ TaskOK(p)'
    BY <1>0, <1>2, <1>3 DEF IInv, LateInv, LateOK, TaskOK, Late
  <1> QED BY <1>2, <1>3, <1>5, <1>6, <1>7 DEF LateInv

\* The STOP of a cleanup ends.
LEMMA CleanupStopEndsLate ==
  ASSUME IInv, CleanupStopEnds
  PROVE  IInv'
  <1>0. /\ cmd.o \in Objs /\ obj[cmd.o] \in Objects /\ cmd.pc \in {"ok", "fail"} /\ cur' = cur
        /\ cmd.op = "cleanup" /\ Goto("disconnect")
    BY DEF IInv, TypesOK, LateInv, PlaceOK, CleanupStopEnds
  <1>2. LateInv' /\ obj' \in [Objs -> Objects] /\ cmd' \in Commands
    <2> DEFINE q == StopConfirmed(obj[cmd.o])
    <2>1. q \in Objects /\ q.worker = obj[cmd.o].worker /\ q.task = obj[cmd.o].task
          /\ q.quar = obj[cmd.o].quar
      BY <1>0, StopConfirmedFields
    <2>2. Set(cmd.o, q) \/ obj' = obj
      BY DEF CleanupStopEnds
    <2> HIDE DEF q
    <2>3. CASE Set(cmd.o, q)
      BY <1>0, <2>1, <2>3, GotoLate
    <2>4. CASE obj' = obj
      BY <1>0, <2>4, SetSelf, GotoLate
    <2> QED BY <2>2, <2>3, <2>4
  <1> QED BY <1>2 DEF IInv, TypesOK, CleanupStopEnds, Physical

\* An aborted object is expired and quarantined.
LEMMA AbortFields ==
  ASSUME NEW r \in Objects
  PROVE  LET q == Abort(r) IN
         /\ q \in Objects /\ q.quar /\ q.task.kind = r.task.kind /\ q.task.at = r.task.at
         /\ q.worker.kind = r.worker.kind /\ q.addr = r.addr /\ q.pending = r.pending
         /\ q.client = r.client /\ q.conn = r.conn /\ q.proof = r.proof /\ q.status = r.status
  <1> DEFINE x == Expire(r)
             q == [x EXCEPT !.aborted = TRUE, !.quar = TRUE]
  <1>1. /\ x \in Objects /\ x = [r EXCEPT !.worker = x.worker, !.task = x.task]
        /\ x.worker.kind = r.worker.kind /\ x.task.kind = r.task.kind /\ x.task.at = r.task.at
    BY ExpireFields
  <1> HIDE DEF x
  <1>2. /\ x.addr = r.addr /\ x.pending = r.pending /\ x.client = r.client
        /\ x.conn = r.conn /\ x.proof = r.proof /\ x.status = r.status
    BY <1>1 DEF Objects, Records
  <1>3. /\ q \in Objects /\ q.quar /\ q.task = x.task /\ q.worker = x.worker /\ q.addr = x.addr
        /\ q.pending = x.pending /\ q.client = x.client /\ q.conn = x.conn
        /\ q.proof = x.proof /\ q.status = x.status
    BY <1>1 DEF Objects, Records
  <1> HIDE DEF q
  <1>4. /\ q \in Objects /\ q.quar /\ q.task.kind = r.task.kind /\ q.task.at = r.task.at
        /\ q.worker.kind = r.worker.kind /\ q.addr = r.addr /\ q.pending = r.pending
        /\ q.client = r.client /\ q.conn = r.conn /\ q.proof = r.proof /\ q.status = r.status
    BY <1>1, <1>2, <1>3
  <1> QED BY <1>4 DEF q, x, Abort

\* The deadline of a cleanup's STOP.
LEMMA CleanupStopTimesOutLate ==
  ASSUME IInv, CleanupStopTimesOut
  PROVE  IInv'
  <1>0. /\ cmd.o \in Objs /\ obj[cmd.o] \in Objects /\ cmd.pc = "await" /\ cur' = cur
        /\ cmd.op = "cleanup" /\ Goto("disconnect")
    BY DEF IInv, TypesOK, LateInv, PlaceOK, CleanupStopTimesOut, Running
  <1>1. LateInv' /\ obj' \in [Objs -> Objects] /\ cmd' \in Commands
    <2> DEFINE q == Abort(obj[cmd.o])
    <2>1. /\ q \in Objects /\ q.quar /\ q.task.kind = obj[cmd.o].task.kind
          /\ q.task.at = obj[cmd.o].task.at /\ q.worker.kind = obj[cmd.o].worker.kind
      BY <1>0, AbortFields
    <2>2. Set(cmd.o, q)
      BY DEF CleanupStopTimesOut
    <2> HIDE DEF q
    <2> QED BY <1>0, <2>1, <2>2, GotoLate
  <1> QED BY <1>1 DEF IInv, TypesOK, CleanupStopTimesOut, Physical

\* A confirmed disconnect empties the queue of the device.
LEMMA UnlinkedTypes ==
  ASSUME IInv, NEW o \in Objs, Unlinked(o)
  PROVE  /\ link' \subseteq Addrs /\ reg' \in [Addrs -> Objs \cup {None}]
         /\ air' \in [Addrs -> Seq(Writes)] /\ \A a \in Addrs : Len(air'[a]) <= MaxAir
  <1>1. air' \in [Addrs -> Seq(Writes)] /\ \A a \in Addrs : Len(air'[a]) <= MaxAir
    BY NoWrites, Shorter DEF IInv, TypesOK, Unlinked
  <1>2. link' \subseteq Addrs /\ reg' \in [Addrs -> Objs \cup {None}]
    BY DEF IInv, TypesOK, Unlinked, Unregistered
  <1> QED BY <1>1, <1>2

\* A client is released.
LEMMA UnregisteredTypes ==
  ASSUME IInv, NEW o \in Objs
  PROVE  Unregistered(o) \in [Addrs -> Objs \cup {None}]
  BY DEF IInv, TypesOK, Unregistered

\* The disconnect of a cleanup.
LEMMA CleanupDisconnectsLate ==
  ASSUME IInv, CleanupDisconnects
  PROVE  IInv'
  <1>0. /\ cmd.o \in Objs /\ obj[cmd.o] \in Objects /\ cmd.pc = "disconnect" /\ cur' = cur
        /\ cmd.op = "cleanup"
    BY DEF IInv, TypesOK, LateInv, PlaceOK, CleanupDisconnects, Running
  <1>1. CASE Unlinked(cmd.o) /\ Set(cmd.o, Disconnected(obj[cmd.o])) /\ Goto("retire") /\ UNCHANGED oblig
    <2> DEFINE q == Disconnected(obj[cmd.o])
    <2>1. q \in Objects /\ q.worker = obj[cmd.o].worker /\ q.task = obj[cmd.o].task
          /\ q.quar = obj[cmd.o].quar
      BY <1>0 DEF Disconnected, Objects, Records
    <2>2. Set(cmd.o, q)
      BY <1>1
    <2> HIDE DEF q
    <2>3. LateInv' /\ obj' \in [Objs -> Objects] /\ cmd' \in Commands
      BY <1>0, <1>1, <2>1, <2>2, GotoLate
    <2>4. /\ link' \subseteq Addrs /\ reg' \in [Addrs -> Objs \cup {None}]
          /\ air' \in [Addrs -> Seq(Writes)] /\ \A a \in Addrs : Len(air'[a]) <= MaxAir
      BY <1>0, <1>1, UnlinkedTypes
    <2> QED BY <1>1, <2>3, <2>4 DEF IInv, TypesOK, CleanupDisconnects
  <1>2. ASSUME obj' = obj \/ Set(cmd.o, Abort(obj[cmd.o])), oblig' = Oblige(cmd.o), End,
               UNCHANGED <<link, air, reg>>
        PROVE  IInv'
    <2>1. oblig' \in [Keys -> Objs \cup {None, Unknown}]
      BY <1>0, <1>2, ObligeTypes
    <2>2. LateInv' /\ obj' \in [Objs -> Objects] /\ cmd' \in Commands
      <3>1. CASE obj' = obj
        BY <1>0, <1>2, <3>1, SetSelf, EndLate
      <3>2. CASE Set(cmd.o, Abort(obj[cmd.o]))
        <4> DEFINE q == Abort(obj[cmd.o])
        <4>1. /\ q \in Objects /\ q.quar /\ q.task.kind = obj[cmd.o].task.kind
              /\ q.task.at = obj[cmd.o].task.at /\ q.worker.kind = obj[cmd.o].worker.kind
          BY <1>0, AbortFields
        <4>2. Set(cmd.o, q)
          BY <3>2
        <4> HIDE DEF q
        <4> QED BY <1>0, <1>2, <4>1, <4>2, EndLate
      <3> QED BY <1>2, <3>1, <3>2
    <2> QED BY <1>2, <2>1, <2>2 DEF IInv, TypesOK, CleanupDisconnects
  <1> QED BY <1>1, <1>2 DEF CleanupDisconnects

\* A sensor without obligation is retired.
LEMMA RetiredFields ==
  ASSUME NEW r \in Objects
  PROVE  LET q == [HostGone(r, "none") EXCEPT !.client = FALSE, !.conn = FALSE]
             s == [HostGone(r, "none") EXCEPT !.client = FALSE, !.conn = FALSE, !.status = FALSE]
             u == ReleasedAfterStop(r) IN
         /\ q \in Objects /\ q.worker = NoWorker /\ q.task = NoTask /\ q.quar = r.quar
         /\ q.addr = r.addr /\ q.pending = r.pending /\ ~q.proof /\ ~q.client /\ ~q.conn
         /\ s \in Objects /\ s.worker = NoWorker /\ s.task = NoTask /\ s.quar = r.quar
         /\ s.addr = r.addr /\ s.pending = r.pending /\ ~s.proof /\ ~s.client /\ ~s.conn
         /\ u \in Objects /\ u.worker = NoWorker /\ u.task = NoTask /\ u.quar = r.quar
         /\ u.addr = r.addr /\ ~u.pending /\ ~u.proof /\ u.client = r.client /\ u.conn = r.conn
  <1> DEFINE h == HostGone(r, "none")
             q == [h EXCEPT !.client = FALSE, !.conn = FALSE]
             s == [h EXCEPT !.client = FALSE, !.conn = FALSE, !.status = FALSE]
             u == [h EXCEPT !.aborted = TRUE, !.pending = FALSE]
  <1>1. /\ h \in Objects /\ h.worker = NoWorker /\ h.task = NoTask /\ h.quar = r.quar
        /\ h.addr = r.addr /\ h.pending = r.pending /\ ~h.proof
        /\ h.client = r.client /\ h.conn = r.conn
    BY HostGoneFields
  <1> HIDE DEF h
  <1>2. /\ q \in Objects /\ q.worker = NoWorker /\ q.task = NoTask /\ q.quar = r.quar
        /\ q.addr = r.addr /\ q.pending = r.pending /\ ~q.proof /\ ~q.client /\ ~q.conn
    BY <1>1 DEF Objects, Records
  <1>3. /\ s \in Objects /\ s.worker = NoWorker /\ s.task = NoTask /\ s.quar = r.quar
        /\ s.addr = r.addr /\ s.pending = r.pending /\ ~s.proof /\ ~s.client /\ ~s.conn
    BY <1>1 DEF Objects, Records
  <1>4. /\ u \in Objects /\ u.worker = NoWorker /\ u.task = NoTask /\ u.quar = r.quar
        /\ u.addr = r.addr /\ ~u.pending /\ ~u.proof /\ u.client = r.client /\ u.conn = r.conn
    BY <1>1 DEF Objects, Records
  <1> QED BY <1>2, <1>3, <1>4 DEF h, ReleasedAfterStop

\* A command ends with an object at which nothing is at work any more.
LEMMA EndAtRest ==
  ASSUME IInv, End, cur' = cur, NEW o \in Objs, NEW r \in Objects, Set(o, r), cmd.pc # "await",
         r.worker = NoWorker, r.task = NoTask
  PROVE  LateInv' /\ obj' \in [Objs -> Objects] /\ cmd' \in Commands
  <1>1. cmd' = Idle
    BY DEF End
  <1>2. obj' \in [Objs -> Objects] /\ obj'[o] = r /\ \A p \in Objs \ {o} : obj'[p] = obj[p]
    BY SetMoves DEF IInv, TypesOK
  <1>5. PlaceOK'
    BY <1>1, Blank DEF PlaceOK, Sequential
  <1>6. AwaitOK'
    BY <1>1, Blank DEF AwaitOK
  <1>7. \A p \in Objs : LateOK(p)' /\ TaskOK(p)'
    BY <1>2, Blank DEF IInv, LateInv, LateOK, TaskOK, Late
  <1> QED BY <1>1, <1>2, <1>5, <1>6, <1>7, Blank DEF LateInv

\* The end of a cleanup.
LEMMA CleanupRetiresLate ==
  ASSUME IInv, CleanupRetires
  PROVE  IInv'
  <1>0. /\ cmd.o \in Objs /\ obj[cmd.o] \in Objects /\ cmd.pc = "retire" /\ cur' = cur /\ End
        /\ cmd.op = "cleanup"
    BY DEF IInv, TypesOK, LateInv, PlaceOK, CleanupRetires, Running
  <1>1. reg' \in [Addrs -> Objs \cup {None}] /\ oblig' \in [Keys -> Objs \cup {None, Unknown}]
    BY <1>0, UnregisteredTypes, ObligeTypes DEF CleanupRetires, IInv, TypesOK
  <1>2. LateInv' /\ obj' \in [Objs -> Objects] /\ cmd' \in Commands
    <2> DEFINE q == [HostGone(obj[cmd.o], "none") EXCEPT !.client = FALSE, !.conn = FALSE]
    <2>1. q \in Objects /\ q.worker = NoWorker /\ q.task = NoTask
      BY <1>0, RetiredFields
    <2>2. Set(cmd.o, q) \/ obj' = obj
      BY DEF CleanupRetires
    <2> HIDE DEF q
    <2>3. CASE Set(cmd.o, q)
      BY <1>0, <2>1, <2>3, EndAtRest
    <2>4. CASE obj' = obj
      BY <1>0, <2>4, SetSelf, EndLate
    <2> QED BY <2>2, <2>3, <2>4
  <1> QED BY <1>1, <1>2 DEF IInv, TypesOK, CleanupRetires, Physical

\* A reset is done with a target: it is isolated, or nothing is at work in it.
LEMMA NextTargetLate ==
  ASSUME IInv, cmd.op = "recover", cur' = cur, NEW o \in Objs, NEW r \in Objects, Set(o, r),
         cmd' = [cmd EXCEPT !.pc = "next", !.o = None, !.todo = @ \ {o}],
         cmd.pc = "await" => cmd.o = o,
         Late(r) => r.quar, r.task.at \in {"writing", "acked"} => r.task.kind \in {"start", "stop"}
  PROVE  LateInv' /\ obj' \in [Objs -> Objects] /\ cmd' \in Commands
  <1>1. cmd' \in Commands /\ cmd'.op = "recover" /\ cmd'.pc = "next" /\ cmd'.o = None
    BY DEF IInv, TypesOK, Commands, Pcs
  <1>2. obj' \in [Objs -> Objects] /\ obj'[o] = r /\ \A p \in Objs \ {o} : obj'[p] = obj[p]
    BY SetMoves DEF IInv, TypesOK
  <1>5. PlaceOK'
    BY <1>1, SlotAssumption DEF PlaceOK, Sequential
  <1>6. AwaitOK'
    BY <1>1, SlotAssumption DEF AwaitOK
  <1>7. \A p \in Objs : LateOK(p)' /\ TaskOK(p)'
    BY <1>2 DEF IInv, LateInv, LateOK, TaskOK, Late
  <1> QED BY <1>1, <1>2, <1>5, <1>6, <1>7 DEF LateInv

\* A target stays owed.
LEMMA OwedLate ==
  ASSUME IInv, cmd.op = "recover", cur' = cur, NEW o \in Objs, NEW r \in Objects, Owed(o, r),
         cmd.pc = "await" => cmd.o = o,
         r.task.kind = obj[o].task.kind, r.task.at = obj[o].task.at
  PROVE  /\ LateInv' /\ obj' \in [Objs -> Objects] /\ cmd' \in Commands
         /\ oblig' \in [Keys -> Objs \cup {None, Unknown}]
  <1> DEFINE q == [r EXCEPT !.quar = TRUE]
  <1>1. q \in Objects /\ q.quar /\ q.task = r.task
    BY DEF Objects, Records
  <1>2. /\ Set(o, q) /\ oblig' = [oblig EXCEPT ![r.addr] = o]
        /\ cmd' = [cmd EXCEPT !.pc = "next", !.o = None, !.todo = @ \ {o}]
    BY DEF Owed
  <1> HIDE DEF q
  <1>3. q.task.at \in {"writing", "acked"} => q.task.kind \in {"start", "stop"}
    BY <1>1 DEF IInv, LateInv, TaskOK
  <1>4. LateInv' /\ obj' \in [Objs -> Objects] /\ cmd' \in Commands
    BY <1>1, <1>2, <1>3, NextTargetLate
  <1> QED BY <1>2, <1>4 DEF IInv, TypesOK

\* A resolved target: eligible again, with nothing at work if it was at rest.
LEMMA ResolvedFields ==
  ASSUME NEW o \in Objs, NEW r \in Objects
  PROVE  LET h == IF o = cur THEN r ELSE HostGone(r, "none")
             q == [h EXCEPT !.quar = FALSE, !.status = FALSE, !.conn = FALSE] IN
         /\ q \in Objects /\ ~q.quar /\ ~q.conn /\ q.addr = r.addr /\ q.client = r.client
         /\ q.pending = r.pending
         /\ q.worker \in {r.worker, NoWorker} /\ q.task \in {r.task, NoTask}
         /\ q.proof \in {r.proof, FALSE}
  <1> DEFINE h == IF o = cur THEN r ELSE HostGone(r, "none")
             q == [h EXCEPT !.quar = FALSE, !.status = FALSE, !.conn = FALSE]
  <1>1. /\ h \in Objects /\ h.worker \in {r.worker, NoWorker} /\ h.task \in {r.task, NoTask}
        /\ h.proof \in {r.proof, FALSE} /\ h.addr = r.addr /\ h.client = r.client
        /\ h.pending = r.pending
    BY HostGoneFields
  <1> HIDE DEF h
  <1>2. /\ q \in Objects /\ ~q.quar /\ ~q.conn /\ q.addr = r.addr /\ q.client = r.client
        /\ q.pending = r.pending
        /\ q.worker \in {r.worker, NoWorker} /\ q.task \in {r.task, NoTask}
        /\ q.proof \in {r.proof, FALSE}
    BY <1>1 DEF Objects, Records
  <1> QED BY <1>2 DEF h

\* A target is resolved.
LEMMA ResolvedLate ==
  ASSUME IInv, cmd.op = "recover", cur' = cur, NEW o \in Objs, NEW r \in Objects, Resolved(o, r),
         cmd.pc = "await" => cmd.o = o, ~Late(r),
         r.task.at \in {"writing", "acked"} => r.task.kind \in {"start", "stop"}
  PROVE  /\ LateInv' /\ obj' \in [Objs -> Objects] /\ cmd' \in Commands
         /\ oblig' \in [Keys -> Objs \cup {None, Unknown}]
  <1> DEFINE h == IF o = cur THEN r ELSE HostGone(r, "none")
             q == [h EXCEPT !.quar = FALSE, !.status = FALSE, !.conn = FALSE]
  <1>1. q \in Objects /\ q.worker \in {r.worker, NoWorker} /\ q.task \in {r.task, NoTask}
    BY ResolvedFields
  <1>2. /\ Set(o, q) /\ oblig' = [oblig EXCEPT ![r.addr] = None]
        /\ cmd' = [cmd EXCEPT !.pc = "next", !.o = None, !.todo = @ \ {o}]
    BY DEF Resolved
  <1> HIDE DEF q
  <1>3. ~Late(q) /\ (q.task.at \in {"writing", "acked"} => q.task.kind \in {"start", "stop"})
    BY <1>1, Blank DEF Late
  <1>4. LateInv' /\ obj' \in [Objs -> Objects] /\ cmd' \in Commands
    BY <1>1, <1>2, <1>3, NextTargetLate
  <1> QED BY <1>2, <1>4 DEF IInv, TypesOK

\* The clients of the targets are registered.
LEMMA AdoptedTypes ==
  ASSUME IInv
  PROVE  Adopted \in [Addrs -> Objs \cup {None}] /\ Targets \subseteq Objs
  <1>1. Targets \subseteq Objs
    BY DEF Targets
  <1>2. ASSUME NEW a \in Addrs, \E o \in Targets : At(o) = a /\ obj[o].client
        PROVE  (CHOOSE o \in Targets : At(o) = a /\ obj[o].client) \in Objs
    BY <1>1, <1>2
  <1>3. \A a \in Addrs : reg[a] \in Objs \cup {None}
    BY DEF IInv, TypesOK
  <1>4. Adopted \in [Addrs -> Objs \cup {None}]
    BY <1>2, <1>3 DEF Adopted
  <1> QED BY <1>1, <1>4

\* A reset leaves the objects as they are but for what they know of their links.
LEMMA RecoverObjects ==
  ASSUME IInv, NEW links, NEW lose, lose \in [Objs -> BOOLEAN],
         obj' = [o \in Objs |-> IF At(o) = None THEN obj[o]
                   ELSE [Inventory(links, obj[o], o) EXCEPT !.status = (@ /\ ~lose[o])]]
  PROVE  /\ obj' \in [Objs -> Objects]
         /\ \A p \in Objs : /\ obj'[p].worker = obj[p].worker /\ obj'[p].task = obj[p].task
                            /\ obj'[p].quar = obj[p].quar /\ obj'[p].addr = obj[p].addr
                            /\ obj'[p].client = obj[p].client /\ obj'[p].pending = obj[p].pending
                            /\ obj'[p].proof = obj[p].proof /\ obj'[p].host = obj[p].host
                            /\ ~obj'[p].conn => ~obj[p].conn \/ At(p) \notin links
  <1> DEFINE c(p) == IF reg'[obj[p].addr] = p THEN obj[p].addr \in links ELSE obj[p].conn
             n(p) == IF At(p) = None THEN obj[p] ELSE
                     [obj[p] EXCEPT !.conn = c(p), !.status = (@ /\ ~lose[p])]
  <1>1. ASSUME NEW p \in Objs
        PROVE  obj'[p] = n(p)
    <2>1. obj[p] \in Objects
      BY DEF IInv, TypesOK
    <2>2. Inventory(links, obj[p], p) = [obj[p] EXCEPT !.conn = c(p)]
      BY <2>1 DEF Inventory, Objects, Records
    <2>3. [[obj[p] EXCEPT !.conn = c(p)] EXCEPT !.status = (@ /\ ~lose[p])] =
            [obj[p] EXCEPT !.conn = c(p), !.status = (@ /\ ~lose[p])]
      BY <2>1 DEF Objects, Records
    <2> QED BY <2>2, <2>3
  <1>2. ASSUME NEW p \in Objs
        PROVE  /\ n(p) \in Objects
               /\ n(p).worker = obj[p].worker /\ n(p).task = obj[p].task
               /\ n(p).quar = obj[p].quar /\ n(p).addr = obj[p].addr
               /\ n(p).client = obj[p].client /\ n(p).pending = obj[p].pending
               /\ n(p).proof = obj[p].proof /\ n(p).host = obj[p].host
               /\ n(p).conn \in BOOLEAN
               /\ n(p).conn = obj[p].conn \/ n(p).conn = (At(p) \in links)
    <2>1. obj[p] \in Objects /\ lose[p] \in BOOLEAN
      BY DEF IInv, TypesOK
    <2>2. (reg'[obj[p].addr] = p => c(p) = (At(p) \in links)) /\ (reg'[obj[p].addr] # p => c(p) = obj[p].conn)
      BY DEF At
    <2>3. c(p) \in BOOLEAN
      <3>1. obj[p].conn \in BOOLEAN
        BY <2>1, Fields
      <3>2. (At(p) \in links) \in BOOLEAN
        OBVIOUS
      <3> HIDE DEF c
      <3> QED BY <3>1, <3>2, <2>2, Zenon
    <2> HIDE DEF c
    <2>4. CASE At(p) = None
      BY <2>1, <2>4, Fields
    <2>5. CASE At(p) # None
      <3> DEFINE s == obj[p].status /\ ~lose[p]
                 m == [obj[p] EXCEPT !.conn = c(p), !.status = s]
      <3>0. s \in BOOLEAN
        OBVIOUS
      <3>1. n(p) = m
        BY <2>5, <2>1 DEF Objects, Records
      <3> HIDE DEF s, n
      <3>2. /\ m \in Objects /\ m.conn = c(p)
            /\ m.worker = obj[p].worker /\ m.task = obj[p].task
            /\ m.quar = obj[p].quar /\ m.addr = obj[p].addr
            /\ m.client = obj[p].client /\ m.pending = obj[p].pending
            /\ m.proof = obj[p].proof /\ m.host = obj[p].host
        BY <2>1, <2>3, <3>0 DEF Objects, Records
      <3> HIDE DEF m
      <3>3. n(p).conn \in BOOLEAN /\ (n(p).conn = obj[p].conn \/ n(p).conn = (At(p) \in links))
        BY <3>1, <3>2, <2>2, <2>3, Zenon
      <3> QED BY <3>1, <3>2, <3>3
    <2> QED BY <2>4, <2>5
  <1> HIDE DEF n
  <1>3. obj' \in [Objs -> Objects]
    BY <1>1, <1>2
  <1>4. ASSUME NEW p \in Objs
        PROVE  /\ obj'[p].worker = obj[p].worker /\ obj'[p].task = obj[p].task
               /\ obj'[p].quar = obj[p].quar /\ obj'[p].addr = obj[p].addr
               /\ obj'[p].client = obj[p].client /\ obj'[p].pending = obj[p].pending
               /\ obj'[p].proof = obj[p].proof /\ obj'[p].host = obj[p].host
    BY <1>1, <1>2
  <1>5. ASSUME NEW p \in Objs
        PROVE  ~obj'[p].conn => ~obj[p].conn \/ At(p) \notin links
    <2>1. obj'[p] = n(p)
      BY <1>1
    <2>2. n(p).conn \in BOOLEAN /\ (n(p).conn = obj[p].conn \/ n(p).conn = (At(p) \in links))
      BY <1>2, Zenon
    <2> QED BY <2>1, <2>2, Zenon
  <1> QED BY <1>3, <1>4, <1>5, Zenon

\* A reset begins.
LEMMA RecoverLate ==
  ASSUME IInv, Recover
  PROVE  IInv'
  <1> DEFINE Open == {a \in Addrs : PhysicallyStopped(a) /\ oblig[a] # None}
  <1>0. /\ cmd = Idle /\ cur' = cur /\ reg' = Adopted
    BY DEF Recover
  <1>1. PICK conf \in SUBSET Open, allow, uncertain, works \in BOOLEAN :
          LET resets == (conf # {} \/ uncertain) /\ allow
              resolves == works /\ (allow \/ (conf = {} /\ ~uncertain))
              inv == IF works /\ ~resets THEN link ELSE {} IN
          /\ allow \/ conf = {}
          /\ works \/ Faults
          /\ uncertain => Faults
          /\ reg' = Adopted
          /\ IF works
             THEN /\ link' = inv
                  /\ air' = [a \in Addrs |-> IF a \in inv THEN air[a] ELSE <<>>]
                  /\ obj' = [o \in Objs |->
                       IF At(o) = None THEN obj[o]
                       ELSE [Inventory(inv, obj[o], o) EXCEPT !.status = (@ /\ ~(resets /\ LosesLink(o)))]]
             ELSE UNCHANGED <<link, air, obj>>
          /\ oblig' = IF resolves THEN oblig
                      ELSE [k \in Keys |-> IF Target(k) \in Objs THEN Target(k) ELSE oblig[k]]
          /\ cmd' = [Idle EXCEPT !.op = "recover", !.pc = "next", !.inv = inv,
                     !.todo = IF resolves THEN Targets ELSE {},
                     !.was = (resets /\ works), !.confirmed = conf]
    BY Zenon DEF Recover, Open
  <1> DEFINE resets == (conf # {} \/ uncertain) /\ allow
             resolves == works /\ (allow \/ (conf = {} /\ ~uncertain))
             inv == IF works /\ ~resets THEN link ELSE {}
             lose == [o \in Objs |-> resets /\ LosesLink(o)]
  <1>2. inv \subseteq Addrs /\ conf \subseteq Addrs
    BY DEF IInv, TypesOK
  <1>3. lose \in [Objs -> BOOLEAN]
    OBVIOUS
  <1>4. /\ cmd' \in Commands /\ cmd'.op = "recover" /\ cmd'.pc = "next" /\ cmd'.o = None
    <2> DEFINE td == IF resolves THEN Targets ELSE {}
               wa == resets /\ works
    <2>1. td \subseteq Objs /\ wa \in BOOLEAN
      BY AdoptedTypes
    <2>2. cmd' = [Idle EXCEPT !.op = "recover", !.pc = "next", !.inv = inv,
                     !.todo = td, !.was = wa, !.confirmed = conf]
      BY <1>1
    <2> HIDE DEF td, wa, inv
    <2> QED BY <1>2, <2>1, <2>2 DEF Idle, Commands, Ops, Pcs
  <1>5. /\ obj' \in [Objs -> Objects]
        /\ \A p \in Objs : /\ obj'[p].worker = obj[p].worker /\ obj'[p].task = obj[p].task
                           /\ obj'[p].quar = obj[p].quar
    <2>1. CASE works
      <3>1. obj' = [o \in Objs |-> IF At(o) = None THEN obj[o]
                   ELSE [Inventory(inv, obj[o], o) EXCEPT !.status = (@ /\ ~lose[o])]]
        BY <1>1, <2>1
      <3> HIDE DEF inv, lose
      <3> QED BY <1>3, <3>1, RecoverObjects
    <2>2. CASE ~works
      BY <1>1, <2>2 DEF IInv, TypesOK
    <2> QED BY <2>1, <2>2
  <1>6. link' \subseteq Addrs /\ reg' \in [Addrs -> Objs \cup {None}]
    BY <1>0, <1>1, <1>2, AdoptedTypes DEF IInv, TypesOK
  <1>7. air' \in [Addrs -> Seq(Writes)] /\ \A a \in Addrs : Len(air'[a]) <= MaxAir
    <2>1. CASE works
      <3>1. air' = [a \in Addrs |-> IF a \in inv THEN air[a] ELSE <<>>]
        BY <1>1, <2>1
      <3> HIDE DEF inv
      <3> QED BY <3>1, NoWrites DEF IInv, TypesOK
    <2>2. CASE ~works
      BY <1>1, <2>2 DEF IInv, TypesOK
    <2> QED BY <2>1, <2>2
  <1>8. oblig' \in [Keys -> Objs \cup {None, Unknown}]
    <2>1. oblig' = oblig \/ oblig' = [k \in Keys |-> IF Target(k) \in Objs THEN Target(k) ELSE oblig[k]]
      BY <1>1
    <2> QED BY <2>1 DEF IInv, TypesOK
  <1>9. PlaceOK'
    BY <1>4, SlotAssumption DEF PlaceOK, Sequential
  <1>10. AwaitOK'
    BY <1>4, SlotAssumption DEF AwaitOK
  <1>11. \A p \in Objs : LateOK(p)' /\ TaskOK(p)'
    BY <1>0, <1>5, Blank DEF IInv, LateInv, LateOK, TaskOK, Late
  <1>12. UNCHANGED <<meas, lost, cur, streaming>>
    BY DEF Recover
  <1>13. TypesOK'
    BY <1>4, <1>5, <1>6, <1>7, <1>8, <1>12 DEF IInv, TypesOK
  <1> QED BY <1>9, <1>10, <1>11, <1>13 DEF IInv, LateInv

\* The operator's word replaces the plugin's.
LEMMA RetireConfirmedLate ==
  ASSUME IInv, NEW o \in Objs, RetireConfirmed(o)
  PROVE  IInv'
  <1>0. obj[o] \in Objects /\ cmd.op = "recover" /\ cmd.pc = "next" /\ cur' = cur
    BY DEF IInv, TypesOK, RetireConfirmed, Running
  <1>1. CASE Owed(o, obj[o]) /\ UNCHANGED reg
    <2>1. /\ LateInv' /\ obj' \in [Objs -> Objects] /\ cmd' \in Commands
          /\ oblig' \in [Keys -> Objs \cup {None, Unknown}]
      BY <1>0, <1>1, OwedLate
    <2> QED BY <1>1, <2>1 DEF IInv, TypesOK, RetireConfirmed, Physical
  <1>2. CASE Resolved(o, ReleasedAfterStop(obj[o])) /\ reg' = Unregistered(o)
    <2> DEFINE q == ReleasedAfterStop(obj[o])
    <2>1. q \in Objects /\ q.worker = NoWorker /\ q.task = NoTask
      BY <1>0, RetiredFields
    <2>2. Resolved(o, q)
      BY <1>2
    <2> HIDE DEF q
    <2>3. ~Late(q) /\ (q.task.at \in {"writing", "acked"} => q.task.kind \in {"start", "stop"})
      BY <2>1, Blank DEF Late
    <2>4. /\ LateInv' /\ obj' \in [Objs -> Objects] /\ cmd' \in Commands
          /\ oblig' \in [Keys -> Objs \cup {None, Unknown}]
      BY <1>0, <2>1, <2>2, <2>3, ResolvedLate
    <2>5. reg' \in [Addrs -> Objs \cup {None}]
      BY <1>2, UnregisteredTypes
    <2> QED BY <2>4, <2>5 DEF IInv, TypesOK, RetireConfirmed, Physical
  <1> QED BY <1>1, <1>2 DEF RetireConfirmed

\* The record of a target that prepare_recovery has accepted.
LEMMA PreparedFields ==
  ASSUME NEW x \in Objects
  PROVE  LET r == [x EXCEPT !.pending = (@ /\ ~(x.host = "up" /\ x.proof)),
                            !.quar = FALSE, !.aborted = FALSE] IN
         /\ r \in Objects /\ ~r.quar /\ r.worker = x.worker /\ r.task = x.task
         /\ r.addr = x.addr /\ r.client = x.client /\ r.conn = x.conn /\ r.proof = x.proof
         /\ r.pending <=> (x.pending /\ ~(x.host = "up" /\ x.proof))
  <1> DEFINE b == x.pending /\ ~(x.host = "up" /\ x.proof)
             r == [x EXCEPT !.pending = b, !.quar = FALSE, !.aborted = FALSE]
  <1>1. b \in BOOLEAN
    OBVIOUS
  <1> HIDE DEF b
  <1>2. /\ r \in Objects /\ ~r.quar /\ r.worker = x.worker /\ r.task = x.task
        /\ r.addr = x.addr /\ r.client = x.client /\ r.conn = x.conn /\ r.proof = x.proof
        /\ r.pending = b
    BY <1>1 DEF Objects, Records
  <1>3. r = [x EXCEPT !.pending = (@ /\ ~(x.host = "up" /\ x.proof)),
                      !.quar = FALSE, !.aborted = FALSE]
    BY DEF Objects, Records, b
  <1> HIDE DEF r
  <1> QED BY <1>2, <1>3 DEF b

\* The record of a target whose link is up for its plugin's STOP.
LEMMA CountsConnectedFields ==
  ASSUME NEW r \in Objects
  PROVE  LET q == CountsConnected(r) IN
         /\ q \in Objects /\ q.worker = r.worker /\ q.task = r.task /\ q.quar = r.quar
         /\ q.addr = r.addr /\ q.client = r.client /\ q.conn /\ q.status /\ q.proof = r.proof
         /\ q.pending = r.pending
  BY DEF CountsConnected, Objects, Records

\* The STOP that a reset asks of a target's plugin.
LEMMA ReconcileStopsLate ==
  ASSUME IInv, NEW o \in Objs, cmd.op = "recover", cmd.pc = "next", o \in cmd.todo, cur' = cur,
         cmd' = [cmd EXCEPT !.pc = "await", !.o = o],
         NEW r \in Objects, ~r.quar, r.task = obj[o].task, obj[o].task.kind = "none",
         Set(o, Launch(r, "stop"))
  PROVE  LateInv' /\ obj' \in [Objs -> Objects] /\ cmd' \in Commands
  <1> DEFINE l == Launch(r, "stop")
  <1>0. "stop" \in Kinds /\ KindOf("recover") = "stop"
    BY DEF Kinds, KindOf
  <1>1. /\ l \in Objects /\ l.worker.kind = "stop" /\ l.worker.at = "sent" /\ ~l.worker.stale
        /\ l = [r EXCEPT !.worker = l.worker]
    BY <1>0, LaunchFields
  <1>2. l.task = r.task /\ l.quar = r.quar
    <2> HIDE DEF l
    <2> QED BY <1>1 DEF Objects, Records
  <1>3. Set(o, l)
    OBVIOUS
  <1> HIDE DEF l
  <1>4. obj' \in [Objs -> Objects] /\ obj'[o] = l /\ \A p \in Objs \ {o} : obj'[p] = obj[p]
    BY <1>1, <1>3, SetMoves DEF IInv, TypesOK
  <1>5. /\ cmd' \in Commands /\ cmd'.op = "recover" /\ cmd'.pc = "await" /\ cmd'.o = o
        /\ cmd'.todo = cmd.todo
    BY DEF IInv, TypesOK, Commands, Pcs
  <1>6. PlaceOK'
    BY <1>5 DEF PlaceOK, Sequential
  <1>7. AwaitOK'
    BY <1>0, <1>1, <1>2, <1>4, <1>5 DEF AwaitOK
  <1>8. \A p \in Objs : LateOK(p)' /\ TaskOK(p)'
    BY <1>1, <1>2, <1>4, <1>5 DEF IInv, LateInv, LateOK, TaskOK, Late
  <1> QED BY <1>4, <1>5, <1>6, <1>7, <1>8 DEF LateInv

\* A reset goes on to the disconnect of a target at rest.
LEMMA ReconcileGoesOnLate ==
  ASSUME IInv, NEW o \in Objs, cmd.op = "recover", o \in cmd.todo, cur' = cur,
         cmd.pc = "await" => cmd.o = o,
         cmd' = [cmd EXCEPT !.pc = "disconnect", !.o = o],
         NEW r \in Objects, ~r.quar, ~Late(r), r.task = obj[o].task, Set(o, r)
  PROVE  LateInv' /\ obj' \in [Objs -> Objects] /\ cmd' \in Commands
  <1>4. obj' \in [Objs -> Objects] /\ obj'[o] = r /\ \A p \in Objs \ {o} : obj'[p] = obj[p]
    BY SetMoves DEF IInv, TypesOK
  <1>5. /\ cmd' \in Commands /\ cmd'.op = "recover" /\ cmd'.pc = "disconnect" /\ cmd'.o = o
        /\ cmd'.todo = cmd.todo
    BY DEF IInv, TypesOK, Commands, Pcs
  <1>6. PlaceOK'
    BY <1>5 DEF PlaceOK, Sequential
  <1>7. AwaitOK'
    BY <1>4, <1>5 DEF AwaitOK
  <1>8. \A p \in Objs : LateOK(p)' /\ TaskOK(p)'
    BY <1>4, <1>5 DEF IInv, LateInv, LateOK, TaskOK, Late
  <1> QED BY <1>4, <1>5, <1>6, <1>7, <1>8 DEF LateInv

\* _reconcile_sensor up to the plugin STOP.
LEMMA ReconcileLate ==
  ASSUME IInv, NEW o \in Objs, Reconcile(o)
  PROVE  IInv'
  <1> DEFINE r == [obj[o] EXCEPT !.pending = (@ /\ ~(obj[o].host = "up" /\ obj[o].proof)),
                            !.quar = FALSE, !.aborted = FALSE]
  <1>0. /\ obj[o] \in Objects /\ cmd.op = "recover" /\ cmd.pc = "next" /\ cur' = cur
        /\ o \in cmd.todo /\ cmd.pc # "await"
    BY DEF IInv, TypesOK, Reconcile, Running
  <1>1. /\ r \in Objects /\ ~r.quar /\ r.worker = obj[o].worker /\ r.task = obj[o].task
        /\ r.client = obj[o].client
    BY <1>0, PreparedFields
  <1>2. \/ /\ Owed(o, IF Prepared(obj[o]) THEN r ELSE obj[o])
           /\ UNCHANGED <<link, reg>>
        \/ /\ Prepared(obj[o]) /\ (r.conn \/ r.client)
           /\ IF r.conn THEN UNCHANGED <<link, reg>> ELSE Relink(o)
           /\ Set(o, Launch(CountsConnected(r), "stop"))
           /\ cmd' = [cmd EXCEPT !.pc = "await", !.o = o] /\ UNCHANGED oblig
        \/ /\ Prepared(obj[o])
           /\ Set(o, r) /\ cmd' = [cmd EXCEPT !.pc = "disconnect", !.o = o] /\ UNCHANGED oblig
           /\ UNCHANGED <<link, reg>>
        \/ /\ Prepared(obj[o]) /\ Resolved(o, r)
           /\ UNCHANGED <<link, reg>>
    BY DEF Reconcile
  <1>3. link' \subseteq Addrs /\ reg' \in [Addrs -> Objs \cup {None}]
    <2>1. UNCHANGED <<link, reg>> \/ (obj[o].client /\ Relink(o))
      <3> HIDE DEF r
      <3> QED BY <1>1, <1>2
    <2> QED BY <2>1, RelinkTypes DEF IInv, TypesOK
  <1>4. Prepared(obj[o]) => ~Late(obj[o]) /\ obj[o].task.kind = "none"
    BY DEF Prepared, LifecycleIdle, Late
  <1> HIDE DEF r
  <1>5. /\ LateInv' /\ obj' \in [Objs -> Objects] /\ cmd' \in Commands
        /\ oblig' \in [Keys -> Objs \cup {None, Unknown}]
    <2>1. CASE Owed(o, IF Prepared(obj[o]) THEN r ELSE obj[o])
      <3> DEFINE q == IF Prepared(obj[o]) THEN r ELSE obj[o]
      <3>1. q \in Objects /\ q.task = obj[o].task /\ Owed(o, q)
        BY <1>0, <1>1, <2>1
      <3> HIDE DEF q
      <3> QED BY <1>0, <3>1, OwedLate
    <2>2. CASE /\ Prepared(obj[o]) /\ Set(o, Launch(CountsConnected(r), "stop"))
               /\ cmd' = [cmd EXCEPT !.pc = "await", !.o = o] /\ UNCHANGED oblig
      <3> DEFINE q == CountsConnected(r)
      <3>1. q \in Objects /\ ~q.quar /\ q.task = obj[o].task /\ Set(o, Launch(q, "stop"))
        BY <1>1, <2>2, CountsConnectedFields
      <3> HIDE DEF q
      <3>2. LateInv' /\ obj' \in [Objs -> Objects] /\ cmd' \in Commands
        BY <1>0, <1>4, <2>2, <3>1, ReconcileStopsLate
      <3> QED BY <2>2, <3>2 DEF IInv, TypesOK
    <2>3. CASE /\ Prepared(obj[o])
               /\ Set(o, r) /\ cmd' = [cmd EXCEPT !.pc = "disconnect", !.o = o] /\ UNCHANGED oblig
      <3>1. ~Late(r)
        BY <1>1, <1>4, <2>3 DEF Late
      <3>2. LateInv' /\ obj' \in [Objs -> Objects] /\ cmd' \in Commands
        BY <1>0, <1>1, <2>3, <3>1, ReconcileGoesOnLate
      <3> QED BY <2>3, <3>2 DEF IInv, TypesOK
    <2>4. CASE Prepared(obj[o]) /\ Resolved(o, r)
      <3>1. ~Late(r) /\ (r.task.at \in {"writing", "acked"} => r.task.kind \in {"start", "stop"})
        BY <1>1, <1>4, <2>4 DEF Late, IInv, LateInv, TaskOK
      <3> QED BY <1>0, <1>1, <2>4, <3>1, ResolvedLate
    <2> QED BY <1>2, <2>1, <2>2, <2>3, <2>4
  <1> QED BY <1>3, <1>5 DEF IInv, TypesOK, Reconcile

\* The STOP of a reset ends or outlives its deadline.
LEMMA ReconcileStopEndsLate ==
  ASSUME IInv, ReconcileStopEnds
  PROVE  IInv'
  <1>0. /\ cmd.o \in Objs /\ obj[cmd.o] \in Objects /\ cmd.op = "recover" /\ cur' = cur
        /\ cmd.o \in cmd.todo /\ ~obj[cmd.o].quar
    BY DEF IInv, TypesOK, ReconcileStopEnds, LateInv, PlaceOK, AwaitOK
  <1> DEFINE q == StopConfirmed(obj[cmd.o])
             x == Expire(obj[cmd.o])
  <1>1. q \in Objects /\ q.worker = obj[cmd.o].worker /\ q.task = obj[cmd.o].task /\ ~q.quar
    BY <1>0, StopConfirmedFields
  <1>2. x \in Objects /\ x.task.kind = obj[cmd.o].task.kind /\ x.task.at = obj[cmd.o].task.at
    BY <1>0, ExpireFields
  <1>3. \/ cmd.pc = "ok" /\ Set(cmd.o, q) /\ Goto("disconnect") /\ UNCHANGED oblig
        \/ cmd.pc = "ok" /\ Resolved(cmd.o, q)
        \/ cmd.pc = "fail" /\ Owed(cmd.o, obj[cmd.o])
        \/ cmd.pc = "await" /\ Owed(cmd.o, x)
    BY DEF ReconcileStopEnds
  <1>4. cmd.pc = "ok" => /\ ~Late(q)
                         /\ q.task.at \in {"writing", "acked"} => q.task.kind \in {"start", "stop"}
    <2> HIDE DEF q
    <2> QED BY <1>0, <1>1 DEF IInv, LateInv, LateOK, TaskOK, Late
  <1> HIDE DEF q, x
  <1>5. /\ LateInv' /\ obj' \in [Objs -> Objects] /\ cmd' \in Commands
        /\ oblig' \in [Keys -> Objs \cup {None, Unknown}]
    <2>1. CASE cmd.pc = "ok" /\ Set(cmd.o, q) /\ Goto("disconnect") /\ UNCHANGED oblig
      <3>1. cmd' = [cmd EXCEPT !.pc = "disconnect", !.o = cmd.o]
        BY <2>1 DEF Goto, IInv, TypesOK, Commands
      <3>2. LateInv' /\ obj' \in [Objs -> Objects] /\ cmd' \in Commands
        BY <1>0, <1>1, <1>4, <2>1, <3>1, ReconcileGoesOnLate
      <3> QED BY <2>1, <3>2 DEF IInv, TypesOK
    <2>2. CASE cmd.pc = "ok" /\ Resolved(cmd.o, q)
      BY <1>0, <1>1, <1>4, <2>2, ResolvedLate
    <2>3. CASE cmd.pc = "fail" /\ Owed(cmd.o, obj[cmd.o])
      BY <1>0, <2>3, OwedLate
    <2>4. CASE cmd.pc = "await" /\ Owed(cmd.o, x)
      BY <1>0, <1>2, <2>4, OwedLate
    <2> QED BY <1>3, <2>1, <2>2, <2>3, <2>4
  <1> QED BY <1>5 DEF IInv, TypesOK, ReconcileStopEnds, Physical

\* The disconnect of a reset.
LEMMA ReconcileDisconnectsLate ==
  ASSUME IInv, ReconcileDisconnects
  PROVE  IInv'
  <1>0. /\ cmd.o \in Objs /\ obj[cmd.o] \in Objects /\ cmd.op = "recover" /\ cur' = cur
        /\ cmd.pc = "disconnect" /\ ~obj[cmd.o].quar
    BY DEF IInv, TypesOK, ReconcileDisconnects, LateInv, PlaceOK, AwaitOK, Running
  <1>1. ~Late(obj[cmd.o]) /\ TaskOK(cmd.o)
    BY <1>0 DEF IInv, LateInv, LateOK
  <1>2. CASE Unlinked(cmd.o) /\ Resolved(cmd.o, obj[cmd.o])
    <2>1. /\ LateInv' /\ obj' \in [Objs -> Objects] /\ cmd' \in Commands
          /\ oblig' \in [Keys -> Objs \cup {None, Unknown}]
      BY <1>0, <1>1, <1>2, ResolvedLate DEF TaskOK
    <2>2. /\ link' \subseteq Addrs /\ reg' \in [Addrs -> Objs \cup {None}]
          /\ air' \in [Addrs -> Seq(Writes)] /\ \A a \in Addrs : Len(air'[a]) <= MaxAir
      BY <1>0, <1>2, UnlinkedTypes
    <2> QED BY <2>1, <2>2 DEF IInv, TypesOK, ReconcileDisconnects
  <1>3. CASE Owed(cmd.o, obj[cmd.o]) /\ UNCHANGED <<link, air, reg>>
    <2>1. /\ LateInv' /\ obj' \in [Objs -> Objects] /\ cmd' \in Commands
          /\ oblig' \in [Keys -> Objs \cup {None, Unknown}]
      BY <1>0, <1>3, OwedLate
    <2> QED BY <1>3, <2>1 DEF IInv, TypesOK, ReconcileDisconnects
  <1> QED BY <1>2, <1>3 DEF ReconcileDisconnects

\* A reset ends.
LEMMA RecoverEndsLate ==
  ASSUME IInv, RecoverEnds
  PROVE  IInv'
  <1>1. /\ cmd' = Idle /\ obj' = obj /\ cur' = cur /\ cmd.pc = "next"
        /\ oblig' \in [Keys -> Objs \cup {None, Unknown}]
    <2>1. oblig \in [Keys -> Objs \cup {None, Unknown}]
      BY DEF IInv, TypesOK
    <2> QED BY <2>1 DEF RecoverEnds, End, Running
  <1>5. PlaceOK'
    BY <1>1, Blank DEF PlaceOK, Sequential
  <1>6. AwaitOK'
    BY <1>1, Blank DEF AwaitOK
  <1>7. \A p \in Objs : LateOK(p)' /\ TaskOK(p)'
    BY <1>1 DEF IInv, LateInv, LateOK, TaskOK, Late
  <1>8. TypesOK'
    BY <1>1, Blank DEF IInv, TypesOK, RecoverEnds, Physical
  <1> QED BY <1>5, <1>6, <1>7, <1>8 DEF IInv, LateInv

\* What a reconfiguration does to the objects.
LEMMA ReinitializeMoves ==
  ASSUME IInv, Reinitialize
  PROVE  /\ cmd = Idle /\ cmd' = Idle /\ ~streaming /\ oblig' = Retain
         /\ \/ UNCHANGED <<obj, cur, reg, link, air>>
            \/ \E n \in Objs \ {cur} : \E q \in Objects :
                 /\ \A k \in Keys : oblig'[k] # n
                 /\ cur' \in {cur, n} /\ obj' = [obj EXCEPT ![n] = Fresh, ![cur] = q]
                 /\ q.addr = obj[cur].addr /\ q.pending = obj[cur].pending
                 /\ \/ /\ q = obj[cur] /\ oblig'[At(cur)] # None /\ UNCHANGED <<link, air>>
                       /\ reg' = [a \in Addrs |-> IF reg[a] = n THEN None ELSE reg[a]]
                    \/ /\ oblig'[At(cur)] = None
                       /\ q.worker = NoWorker /\ q.task = NoTask /\ ~q.proof
                       /\ ~q.client /\ ~q.conn /\ q.quar = obj[cur].quar
                       /\ IF obj[cur].status
                          THEN /\ link' = link \ {obj[cur].addr}
                               /\ air' = [air EXCEPT ![obj[cur].addr] = <<>>]
                          ELSE UNCHANGED <<link, air>>
                       /\ reg' = [a \in Addrs |-> IF reg[a] \in {n, cur} THEN None ELSE reg[a]]
  <1>0. cur \in Objs /\ obj[cur] \in Objects
    BY DEF IInv, TypesOK
  <1>1. cmd = Idle /\ cmd' = Idle /\ ~streaming /\ oblig' = Retain
    BY DEF Reinitialize
  <1> DEFINE owed == oblig'[At(cur)] # None
             r == obj[cur]
             h == [HostGone(r, "none") EXCEPT !.client = FALSE, !.conn = FALSE, !.status = FALSE]
  <1>2. SUFFICES ASSUME ~UNCHANGED <<obj, cur, reg, link, air>>
        PROVE  \E n \in Objs \ {cur} : \E q \in Objects :
                 /\ \A k \in Keys : oblig'[k] # n
                 /\ cur' \in {cur, n} /\ obj' = [obj EXCEPT ![n] = Fresh, ![cur] = q]
                 /\ q.addr = obj[cur].addr /\ q.pending = obj[cur].pending
                 /\ \/ /\ q = obj[cur] /\ oblig'[At(cur)] # None /\ UNCHANGED <<link, air>>
                       /\ reg' = [a \in Addrs |-> IF reg[a] = n THEN None ELSE reg[a]]
                    \/ /\ oblig'[At(cur)] = None
                       /\ q.worker = NoWorker /\ q.task = NoTask /\ ~q.proof
                       /\ ~q.client /\ ~q.conn /\ q.quar = obj[cur].quar
                       /\ IF obj[cur].status
                          THEN /\ link' = link \ {obj[cur].addr}
                               /\ air' = [air EXCEPT ![obj[cur].addr] = <<>>]
                          ELSE UNCHANGED <<link, air>>
                       /\ reg' = [a \in Addrs |-> IF reg[a] \in {n, cur} THEN None ELSE reg[a]]
    BY <1>1
  <1>3. PICK n \in Objs \ {cur} : \E done \in BOOLEAN :
             /\ \A k \in Keys : oblig'[k] # n
             /\ done \/ Faults
             /\ cur' = IF done THEN n ELSE cur
             /\ obj' = [obj EXCEPT ![n] = Fresh, ![cur] = IF owed THEN r ELSE h]
             /\ IF r.status /\ ~owed
                THEN link' = link \ {r.addr} /\ air' = [air EXCEPT ![r.addr] = <<>>]
                ELSE UNCHANGED <<link, air>>
             /\ reg' = [a \in Addrs |-> IF reg[a] = n \/ (reg[a] = cur /\ ~owed)
                                        THEN None ELSE reg[a]]
    BY <1>2, Zenon DEF Reinitialize
  <1>4. cur' \in {cur, n}
    BY <1>3
  <1>5. CASE owed
    <2>1. /\ obj' = [obj EXCEPT ![n] = Fresh, ![cur] = r] /\ UNCHANGED <<link, air>>
          /\ reg' = [a \in Addrs |-> IF reg[a] = n THEN None ELSE reg[a]]
      BY <1>3, <1>5
    <2> QED BY <1>0, <1>3, <1>4, <1>5, <2>1
  <1>6. CASE ~owed
    <2>1. /\ obj' = [obj EXCEPT ![n] = Fresh, ![cur] = h]
          /\ IF r.status
             THEN link' = link \ {r.addr} /\ air' = [air EXCEPT ![r.addr] = <<>>]
             ELSE UNCHANGED <<link, air>>
          /\ reg' = [a \in Addrs |-> IF reg[a] \in {n, cur} THEN None ELSE reg[a]]
      BY <1>3, <1>6
    <2>2. /\ h \in Objects /\ h.worker = NoWorker /\ h.task = NoTask /\ h.quar = r.quar
          /\ h.addr = r.addr /\ h.pending = r.pending /\ ~h.proof /\ ~h.client /\ ~h.conn
      BY <1>0, RetiredFields
    <2> HIDE DEF h
    <2> QED BY <1>0, <1>3, <1>4, <1>6, <2>1, <2>2
  <1> QED BY <1>5, <1>6

\* A reconfiguration.
LEMMA ReinitializeLate ==
  ASSUME IInv, Reinitialize
  PROVE  IInv'
  <1>0. cur \in Objs /\ obj[cur] \in Objects /\ cmd = Idle /\ cmd' = Idle /\ cmd.pc # "await"
    BY Blank, ReinitializeMoves DEF IInv, TypesOK
  <1>1. oblig' \in [Keys -> Objs \cup {None, Unknown}]
    BY <1>0, ReinitializeMoves, ObligeTypes DEF Retain, IInv, TypesOK
  <1>2. /\ obj' \in [Objs -> Objects] /\ cur' \in Objs
        /\ \A p \in Objs : \/ obj'[p] = obj[p]
                           \/ obj'[p].worker = NoWorker /\ obj'[p].task = NoTask
        /\ link' \subseteq Addrs /\ reg' \in [Addrs -> Objs \cup {None}]
        /\ air' \in [Addrs -> Seq(Writes)] /\ \A a \in Addrs : Len(air'[a]) <= MaxAir
    <2>1. CASE UNCHANGED <<obj, cur, reg, link, air>>
      BY <2>1 DEF IInv, TypesOK
    <2>2. CASE ~UNCHANGED <<obj, cur, reg, link, air>>
      <3>1. PICK n \in Objs \ {cur}, q \in Objects :
                 /\ cur' \in {cur, n} /\ obj' = [obj EXCEPT ![n] = Fresh, ![cur] = q]
                 /\ \/ /\ q = obj[cur] /\ UNCHANGED <<link, air>>
                       /\ reg' = [a \in Addrs |-> IF reg[a] = n THEN None ELSE reg[a]]
                    \/ /\ q.worker = NoWorker /\ q.task = NoTask
                       /\ IF obj[cur].status
                          THEN /\ link' = link \ {obj[cur].addr}
                               /\ air' = [air EXCEPT ![obj[cur].addr] = <<>>]
                          ELSE UNCHANGED <<link, air>>
                       /\ reg' = [a \in Addrs |-> IF reg[a] \in {n, cur} THEN None ELSE reg[a]]
        BY <2>2, ReinitializeMoves
      <3>2. /\ obj' \in [Objs -> Objects] /\ cur' \in Objs
            /\ \A p \in Objs : \/ obj'[p] = obj[p]
                               \/ obj'[p].worker = NoWorker /\ obj'[p].task = NoTask
        BY <3>1, <1>0, Blank DEF IInv, TypesOK
      <3>3. link' \subseteq Addrs /\ reg' \in [Addrs -> Objs \cup {None}]
        BY <3>1 DEF IInv, TypesOK
      <3>4. air' \in [Addrs -> Seq(Writes)] /\ \A a \in Addrs : Len(air'[a]) <= MaxAir
        BY <3>1, NoWrites, Shorter DEF IInv, TypesOK
      <3> QED BY <3>2, <3>3, <3>4
    <2> QED BY <2>1, <2>2
  <1>5. PlaceOK'
    BY <1>0, Blank DEF PlaceOK, Sequential
  <1>6. AwaitOK'
    BY <1>0, Blank DEF AwaitOK
  <1>7. \A p \in Objs : LateOK(p)' /\ TaskOK(p)'
    BY <1>0, <1>2, Blank DEF IInv, LateInv, LateOK, TaskOK, Late
  <1>8. TypesOK'
    BY <1>0, <1>1, <1>2, Blank DEF IInv, TypesOK, Reinitialize
  <1> QED BY <1>5, <1>6, <1>7, <1>8 DEF IInv, LateInv

-----------------------------------------------------------------------------
(* Late work. *)

\* Initially nothing is at work.
LEMMA InitLate == Init => IInv
  <1> SUFFICES ASSUME Init PROVE IInv
    OBVIOUS
  <1>1. TypesOK
    <2>1. air \in [Addrs -> Seq(Writes)] /\ \A a \in Addrs : Len(air[a]) <= MaxAir
      BY NoWrites DEF Init
    <2> QED BY <2>1, Blank DEF Init, TypesOK
  <1>2. PlaceOK /\ AwaitOK
    BY Blank, SlotAssumption DEF Init, PlaceOK, AwaitOK, Sequential
  <1>3. \A o \in Objs : LateOK(o) /\ TaskOK(o)
    BY Blank DEF Init, LateOK, TaskOK, Late
  <1> QED BY <1>1, <1>2, <1>3 DEF IInv, LateInv

\* Every step keeps late work covered.
LEMMA StepLate == IInv /\ [Next]_vars => IInv'
  <1> SUFFICES ASSUME IInv, [Next]_vars PROVE IInv'
    OBVIOUS
  <1>1. CASE UNCHANGED vars
    BY <1>1 DEF vars, IInv, TypesOK, LateInv, PlaceOK, AwaitOK, LateOK, TaskOK, Late
  <1>2. ASSUME NEW o \in Objs,
               HostEnter(o) \/ HostWrite(o) \/ WriteUnconfirmed(o) \/ HostReturn(o)
               \/ WorkerEnds(o) \/ HostCrash(o) \/ RetireConfirmed(o) \/ Reconcile(o)
        PROVE  IInv'
    BY <1>2, HostEnterLate, HostWriteLate, WriteUnconfirmedLate, HostReturnLate, WorkerEndsLate,
       HostCrashLate, RetireConfirmedLate, ReconcileLate
  <1>3. ASSUME NEW a \in Addrs, Execute(a) \/ LinkLoss(a) \/ LossEvent(a) \/ PowerCycle(a)
        PROVE  IInv'
    BY <1>3, ExecuteLate, LinkLossLate, LossEventLate
  <1>4. CASE Discover \/ Connect \/ Start \/ LifecycleEnds \/ LifecycleTimesOut
             \/ Stop \/ StopEnds \/ StopTimesOut \/ CoreGivesUp
    BY <1>4, DiscoverLate, ConnectLate, StartLate, LifecycleEndsLate, LifecycleTimesOutLate,
       StopLate, StopEndsLate, StopTimesOutLate, CoreGivesUpLate
  <1>5. CASE Cleanup \/ CleanupStopEnds \/ CleanupStopTimesOut \/ CleanupDisconnects \/ CleanupRetires
    BY <1>5, CleanupLate, CleanupStopEndsLate, CleanupStopTimesOutLate, CleanupDisconnectsLate,
       CleanupRetiresLate
  <1>6. CASE Recover \/ ReconcileStopEnds \/ ReconcileDisconnects \/ RecoverEnds \/ Reinitialize
    BY <1>6, RecoverLate, ReconcileStopEndsLate, ReconcileDisconnectsLate, RecoverEndsLate,
       ReinitializeLate
  <1> QED BY <1>1, <1>2, <1>3, <1>4, <1>5, <1>6 DEF Next

\* The invariant holds in every reachable state.
LEMMA LateInvariant == Spec => []IInv
  BY InitLate, StepLate, PTL DEF Spec

\* Every variable stays in its domain, whatever the devices, the objects and the
\* faults: the gateway's queue of a device is never longer than MaxAir.
THEOREM TypeCorrect == Spec => []TypeOK
  <1>1. IInv => TypeOK
    BY DEF IInv, TypesOK, TypeOK, Objects, Records
  <1> QED BY <1>1, LateInvariant, PTL

\* Between two commands, a worker thread or a host handler that outlived its command
\* belongs to a quarantined sensor, whatever searches the client makes: neither a
\* START nor a plain STOP is issued beside it (_call_lifecycle, StreamingService.stop).
THEOREM LateWorkIsCovered == Spec => []QuarantineCoversLateWork
  <1>1. IInv => QuarantineCoversLateWork
    BY Blank DEF IInv, LateInv, LateOK, Late, QuarantineCoversLateWork
  <1> QED BY <1>1, LateInvariant, PTL

-----------------------------------------------------------------------------
(* Tracking of the measuring devices, when no search covers an unresolved slot or  *)
(* a device that is owed a STOP. *)

Stopping == {"stop", "cleanup", "recover"}

\* The objects a STOP can still be asked of.
Live(o) == (o = cur /\ At(cur) \in Addrs) \/ oblig[At(o)] = o

Starting(a) == \E i \in 1..Len(air[a]) : air[a][i].kind = "start"
Stopped(a) == \E i \in 1..Len(air[a]) : air[a][i].kind = "stop"
Quiet(a) == a \notin meas /\ ~Starting(a)

\* A device that measures, or is going to, is owed by an object that knows it, or by
\* nobody known.
Tracked(a) ==
  ~Quiet(a) => \/ oblig[a] = Unknown \/ (oblig[a] \in Objs /\ obj[oblig[a]].pending)
               \/ (At(cur) = a /\ obj[cur].pending)

\* One object for one device.
OwnerOK ==
  /\ ObligationKeepsIdentity
  /\ At(cur) \in Addrs => oblig[At(cur)] \in {None, cur}
  /\ \A o \in cmd.todo : Live(o)
  /\ cmd.todo = {} \/ cmd.op = "recover"

\* What a live object knows of its device.
ObjOK(o) ==
  /\ obj[o].task.at \in {"writing", "acked"} => At(o) \in Addrs
  /\ Live(o) /\ At(o) \in Addrs =>
       /\ obj[o].proof => Quiet(At(o))
       /\ obj[o].task.kind = "start" => ~obj[o].proof
       /\ obj[o].task.at = "writing" /\ air[At(o)] # <<>>
            => air[At(o)][Len(air[At(o)])] = [o |-> o, kind |-> obj[o].task.kind]
       /\ obj[o].task.at = "acked" /\ obj[o].task.kind = "stop" => PhysicallyStopped(At(o))
       /\ ~obj[o].client => ~Stopped(At(o))
       /\ obj[o].client /\ ~obj[o].conn => At(o) \notin link

\* A STOP on its way is owed, or its sensor is quarantined, or a command stops it.
StopOwed(a) ==
  Stopped(a) => \/ oblig[a] # None
                \/ /\ At(cur) = a
                   /\ \/ obj[cur].quar
                      \/ cmd.o = cur /\ cmd.op \in Stopping /\ cmd.pc \in {"await", "fail", "disconnect"}

\* What each command relies on between its steps.
PhaseOK ==
  /\ cmd.op = "start" => obj[cur].pending /\ At(cur) \in Addrs /\ ~Stopped(At(cur))
  /\ cmd.pc = "ok" /\ cmd.op \in Stopping => At(cmd.o) \in Addrs /\ PhysicallyStopped(At(cmd.o))
  /\ cmd.op = "recover" => \A a \in cmd.confirmed : PhysicallyStopped(a) /\ (cmd.was => a \notin link)
  /\ cmd.op = "recover" /\ cmd.pc = "disconnect" => ~obj[cmd.o].pending
  /\ cmd.op = "recover" /\ cmd.o \in Objs => At(cmd.o) \notin cmd.confirmed
  /\ cmd.pc = "retire" => ~obj[cmd.o].conn
  /\ cmd.op \in Stopping => ~streaming
  /\ streaming \/ cmd.op = "start" => obj[cur].task.kind # "stop" /\ obj[cur].worker.kind # "stop"

\* The gateway's writes of a device.
InOrder(q) == \A i, j \in 1..Len(q) : i < j => ~(q[i].kind = "stop" /\ q[j].kind = "start")
AirOK(a) ==
  /\ air[a] # <<>> => a \in link
  /\ a \in link => a \notin lost
  /\ InOrder(air[a])

TrackInv ==
  /\ OwnerOK /\ PhaseOK /\ \A o \in Objs : ObjOK(o)
  /\ \A a \in Addrs : AirOK(a) /\ Tracked(a) /\ StopOwed(a)

\* What is known of a device depends on what it does and has queued only.
LEMMA SameAir ==
  ASSUME NEW a, air'[a] = air[a], a \in meas' <=> a \in meas
  PROVE  /\ Quiet(a)' <=> Quiet(a)
         /\ Stopped(a)' <=> Stopped(a)
         /\ PhysicallyStopped(a)' <=> PhysicallyStopped(a)
         /\ Starting(a)' <=> Starting(a)
  BY DEF Quiet, Stopped, Starting, PhysicallyStopped

\* An emptied queue starts and stops nothing.
LEMMA EmptyAir ==
  ASSUME NEW a, air'[a] = <<>>, a \in meas' => a \in meas
  PROVE  /\ Quiet(a) => Quiet(a)'
         /\ ~Stopped(a)' /\ ~Starting(a)'
         /\ a \notin meas => PhysicallyStopped(a)'
         /\ Quiet(a) => PhysicallyStopped(a)'
         /\ InOrder(air'[a])
  BY DEF Quiet, Stopped, Starting, PhysicallyStopped, InOrder

\* A device that is physically stopped is quiet and has no STOP queued.
LEMMA PhysicallyQuiet ==
  ASSUME NEW a, PhysicallyStopped(a)
  PROVE  Quiet(a) /\ ~Stopped(a) /\ ~Starting(a)
  BY DEF Quiet, Stopped, Starting, PhysicallyStopped

\* Two live objects have two devices.
LEMMA OneOwner ==
  ASSUME OwnerOK, NEW o \in Objs, NEW p \in Objs, Live(o), Live(p), At(o) = At(p), At(o) \in Addrs,
         None \notin Objs
  PROVE  o = p
  BY DEF OwnerOK, Live, ObligationKeepsIdentity

\* A live object owes the tracking of its device.
LEMMA OwnerPending ==
  ASSUME OwnerOK, NEW o \in Objs, Live(o), At(o) \in Addrs, Tracked(At(o)), ~Quiet(At(o)),
         None \notin Objs, Unknown \notin Objs, Unknown # None, cur \in Objs
  PROVE  obj[o].pending
  BY DEF OwnerOK, Live, ObligationKeepsIdentity, Tracked

\* A step of the plugin host or of a worker: nothing reaches a device, nothing is
\* confirmed but what the gateway has acknowledged, and only the awaiting command
\* hears of it.
LEMMA HostTrack ==
  ASSUME IInv, TrackInv, NEW o \in Objs, NEW r \in Objects, Set(o, r),
         UNCHANGED <<meas, link, air, lost, cur, oblig, streaming>>,
         r.addr = obj[o].addr, r.client = obj[o].client, r.conn = obj[o].conn,
         r.pending = obj[o].pending, r.quar = obj[o].quar,
         r.proof => obj[o].proof \/ StopProved(obj[o]),
         r.task.kind = "start" /\ r.proof => obj[o].task.kind = "start" /\ obj[o].proof,
         r.task.at \in {"writing", "acked"} => r.task = obj[o].task,
         r.task.kind = "stop" => obj[o].task.kind = "stop" \/ obj[o].worker.kind = "stop",
         r.worker.kind = "stop" => obj[o].worker.kind = "stop",
         \/ cmd' = cmd
         \/ /\ cmd.o = o /\ cmd.pc = "await" /\ cmd'.pc \in {"ok", "fail"}
            /\ cmd'.op = cmd.op /\ cmd'.o = cmd.o /\ cmd'.todo = cmd.todo /\ cmd'.was = cmd.was
            /\ cmd'.confirmed = cmd.confirmed
            /\ cmd'.pc = "ok" /\ cmd.op \in Stopping => StopProved(obj[o])
  PROVE  TrackInv'
  <1>1. obj' \in [Objs -> Objects] /\ obj'[o] = r /\ \A p \in Objs \ {o} : obj'[p] = obj[p]
    BY SetMoves DEF IInv, TypesOK
  <1>2. \A a : /\ Quiet(a)' <=> Quiet(a)
               /\ Stopped(a)' <=> Stopped(a)
               /\ PhysicallyStopped(a)' <=> PhysicallyStopped(a)
    BY SameAir
  <1>3. \A p \in Objs : /\ obj'[p].addr = obj[p].addr /\ obj'[p].client = obj[p].client
                        /\ obj'[p].conn = obj[p].conn /\ obj'[p].pending = obj[p].pending
                        /\ obj'[p].quar = obj[p].quar
    BY <1>1
  <1>4. cur \in Objs /\ cur' = cur /\ oblig' = oblig /\ oblig \in [Keys -> Objs \cup {None, Unknown}]
    BY DEF IInv, TypesOK
  <1>5. cmd'.op = cmd.op /\ cmd'.o = cmd.o /\ cmd'.todo = cmd.todo /\ cmd'.was = cmd.was
        /\ cmd'.confirmed = cmd.confirmed /\ cmd.todo \subseteq Objs
        /\ (cmd'.pc = cmd.pc \/ (cmd.pc = "await" /\ cmd'.pc \in {"ok", "fail"}))
    BY DEF IInv, TypesOK, Commands
  <1>6. \A p \in Objs : Live(p)' <=> Live(p)
    BY <1>3, <1>4 DEF Live, At
  <1>a. \A p \in Objs : At(p)' = At(p)
    BY <1>3 DEF At
  <1>b. cmd.pc = "await" => cmd.o \in Objs
    BY DEF IInv, LateInv, PlaceOK
  <1>7. OwnerOK'
    BY <1>3, <1>4, <1>5, <1>6, <1>a DEF TrackInv, OwnerOK, ObligationKeepsIdentity
  <1>8. StopProved(obj[o]) => /\ At(o) \in Addrs
                              /\ Live(o) => PhysicallyStopped(At(o)) /\ Quiet(At(o))
    BY PhysicallyQuiet DEF TrackInv, ObjOK, StopProved
  <1>9. ASSUME NEW p \in Objs
        PROVE  ObjOK(p)'
    <2>1. CASE p # o
      <3>1. obj'[p] = obj[p] /\ ObjOK(p)
        BY <1>1, <2>1 DEF TrackInv
      <3> QED BY <3>1, <1>2, <1>6, <1>a DEF ObjOK
    <2>2. CASE p = o
      BY <1>1, <1>2, <1>6, <1>8, <1>a, <2>2 DEF TrackInv, ObjOK
    <2> QED BY <2>1, <2>2
  <1>10. \A a \in Addrs : AirOK(a)'
    BY DEF TrackInv, AirOK
  <1>11. \A a \in Addrs : Tracked(a)'
    BY <1>2, <1>3, <1>4, <1>a DEF TrackInv, Tracked
  <1>12. \A a \in Addrs : StopOwed(a)'
    <2> TAKE a \in Addrs
    <2>1. StopOwed(a)
      BY DEF TrackInv
    <2>2. cmd'.pc = "ok" /\ cmd.pc = "await" /\ cmd.o = cur /\ cmd.op \in Stopping /\ At(cur) = a => ~Stopped(a)
      <3> SUFFICES ASSUME cmd'.pc = "ok", cmd.pc = "await", cmd.o = cur, cmd.op \in Stopping, At(cur) = a
                   PROVE  ~Stopped(a)
        OBVIOUS
      <3>1. cmd.o = o /\ StopProved(obj[o])
        OBVIOUS
      <3>2. Live(o)
        BY <3>1 DEF Live
      <3> QED BY <3>1, <3>2, <1>8, PhysicallyQuiet
    <2> QED BY <1>2, <1>3, <1>4, <1>5, <1>a, <2>1, <2>2 DEF StopOwed
  <1>13. PhaseOK'
    <2>0. PhaseOK
      BY DEF TrackInv
    <2>1. (cmd.op = "start" => obj[cur].pending /\ At(cur) \in Addrs /\ ~Stopped(At(cur)))'
      BY <1>2, <1>3, <1>4, <1>5, <1>a, <2>0 DEF PhaseOK
    <2>2. (cmd.pc = "ok" /\ cmd.op \in Stopping => At(cmd.o) \in Addrs /\ PhysicallyStopped(At(cmd.o)))'
      <3> SUFFICES ASSUME cmd'.pc = "ok", cmd'.op \in Stopping
                   PROVE  At(cmd.o)' \in Addrs /\ PhysicallyStopped(At(cmd.o))'
        OBVIOUS
      <3>0. cmd.o \in Objs /\ cmd.op \in Stopping /\ cmd'.o = cmd.o
        BY <1>5, <1>b DEF IInv, LateInv, PlaceOK
      <3>1. CASE cmd.pc = "ok"
        BY <3>0, <3>1, <1>2, <1>a, <2>0 DEF PhaseOK
      <3>2. CASE cmd.pc # "ok"
        <4>1. cmd.o = o /\ StopProved(obj[o]) /\ cmd.pc = "await"
          BY <3>0, <3>2
        <4>2. At(o) \in Addrs
          BY <4>1, <1>8
        <4>3. Live(o)
          <5>1. CASE cmd.op = "recover"
            BY <5>1, <4>1 DEF IInv, LateInv, PlaceOK, TrackInv, OwnerOK
          <5>2. CASE cmd.op # "recover"
            BY <5>2, <3>0, <4>1, <4>2 DEF IInv, LateInv, PlaceOK, Stopping, Sequential, Live
          <5> QED BY <5>1, <5>2
        <4> QED BY <3>0, <4>1, <4>2, <4>3, <1>2, <1>8, <1>a
      <3> QED BY <3>1, <3>2
    <2>3. (cmd.op = "recover" => \A a \in cmd.confirmed : PhysicallyStopped(a) /\ (cmd.was => a \notin link))'
      BY <1>2, <1>5, <2>0 DEF PhaseOK
    <2>4. (cmd.op = "recover" /\ cmd.pc = "disconnect" => ~obj[cmd.o].pending)'
      <3> SUFFICES ASSUME cmd.op = "recover", cmd'.pc = "disconnect"
                   PROVE  ~obj'[cmd.o].pending
        BY <1>5
      <3>1. cmd.pc = "disconnect" /\ cmd.o \in Objs
        BY <1>5 DEF IInv, LateInv, PlaceOK
      <3> QED BY <3>1, <1>3, <2>0 DEF PhaseOK
    <2>5. (cmd.op = "recover" /\ cmd.o \in Objs => At(cmd.o) \notin cmd.confirmed)'
      BY <1>5, <1>a, <2>0 DEF PhaseOK
    <2>6. (cmd.pc = "retire" => ~obj[cmd.o].conn)'
      <3> SUFFICES ASSUME cmd'.pc = "retire"
                   PROVE  ~obj'[cmd.o].conn
        BY <1>5
      <3>1. cmd.pc = "retire" /\ cmd.o \in Objs
        BY <1>5 DEF IInv, LateInv, PlaceOK
      <3> QED BY <3>1, <1>3, <2>0 DEF PhaseOK
    <2>7. (cmd.op \in Stopping => ~streaming)'
      BY <1>5, <2>0 DEF PhaseOK
    <2>8. (streaming \/ cmd.op = "start" => obj[cur].task.kind # "stop" /\ obj[cur].worker.kind # "stop")'
      <3>1. streaming \/ cmd.op = "start" => obj[cur].task.kind # "stop" /\ obj[cur].worker.kind # "stop"
        BY <2>0 DEF PhaseOK
      <3>2. CASE o = cur
        BY <3>1, <3>2, <1>1, <1>4, <1>5
      <3>3. CASE o # cur
        BY <3>1, <3>3, <1>1, <1>4, <1>5
      <3> QED BY <3>2, <3>3
    <2> QED BY <2>1, <2>2, <2>3, <2>4, <2>5, <2>6, <2>7, <2>8, Zenon DEF PhaseOK
  <1> QED BY <1>7, <1>9, <1>10, <1>11, <1>12, <1>13 DEF TrackInv

\* The RPC reaches the host process, or is refused.
LEMMA HostEnterTrack ==
  ASSUME IInv, TrackInv, NEW o \in Objs, HostEnter(o)
  PROVE  TrackInv'
  <1>0. obj[o] \in Objects /\ cmd \in Commands
    BY DEF IInv, TypesOK
  <1>u. UNCHANGED <<meas, link, air, lost, cur, oblig, streaming>>
    BY DEF HostEnter, Physical
  <1>1. CASE Set(o, [obj[o] EXCEPT !.worker = NoWorker]) /\ Deliver(o, "fail")
    <2> DEFINE r == [obj[o] EXCEPT !.worker = NoWorker]
    <2>1. /\ r \in Objects /\ r.worker = NoWorker /\ r.task = obj[o].task /\ r.quar = obj[o].quar
          /\ r.addr = obj[o].addr /\ r.client = obj[o].client /\ r.conn = obj[o].conn
          /\ r.pending = obj[o].pending /\ r.proof = obj[o].proof
      BY <1>0, Blank DEF Objects, Records
    <2>2. Set(o, r)
      BY <1>1
    <2> HIDE DEF r
    <2>3. \/ cmd' = cmd
          \/ /\ cmd.o = o /\ cmd.pc = "await" /\ cmd'.pc = "fail"
             /\ cmd'.op = cmd.op /\ cmd'.o = cmd.o /\ cmd'.todo = cmd.todo /\ cmd'.was = cmd.was
             /\ cmd'.confirmed = cmd.confirmed
      BY <1>0, <1>1, CommandMoves
    <2> QED BY <1>u, <2>1, <2>2, <2>3, HostTrack, Blank
  <1>2. CASE /\ Set(o, [obj[o] EXCEPT !.host = "up", !.worker.at = "in",
                     !.task = [kind |-> obj[o].worker.kind, at |-> "entered",
                               stale |-> obj[o].worker.stale],
                     !.proof = (@ /\ obj[o].worker.kind # "start")])
             /\ UNCHANGED cmd
    <2> DEFINE r == [obj[o] EXCEPT !.host = "up", !.worker.at = "in",
                     !.task = [kind |-> obj[o].worker.kind, at |-> "entered",
                               stale |-> obj[o].worker.stale],
                     !.proof = (@ /\ obj[o].worker.kind # "start")]
    <2>1. /\ r \in Objects /\ r.worker.kind = obj[o].worker.kind /\ r.quar = obj[o].quar
          /\ r.addr = obj[o].addr /\ r.client = obj[o].client /\ r.conn = obj[o].conn
          /\ r.pending = obj[o].pending /\ r.task.kind = obj[o].worker.kind /\ r.task.at = "entered"
      BY <1>0 DEF Objects, Records, Workers, Tasks
    <2>a. r.proof => obj[o].proof /\ obj[o].worker.kind # "start"
      BY <1>0 DEF Objects, Records
    <2>2. Set(o, r)
      BY <1>2
    <2> HIDE DEF r
    <2> QED BY <1>2, <1>u, <2>1, <2>a, <2>2, HostTrack
  <1> QED BY <1>1, <1>2 DEF HostEnter

\* The handler's adapter call fails.
LEMMA FailedTrack ==
  ASSUME IInv, TrackInv, NEW o \in Objs, Set(o, [obj[o] EXCEPT !.task.at = "failed"]),
         UNCHANGED <<meas, link, air, lost, cur, oblig, cmd, streaming>>
  PROVE  TrackInv'
  <1>0. obj[o] \in Objects
    BY DEF IInv, TypesOK
  <1> DEFINE r == [obj[o] EXCEPT !.task.at = "failed"]
  <1>1. /\ r \in Objects /\ r.worker = obj[o].worker /\ r.quar = obj[o].quar
        /\ r.addr = obj[o].addr /\ r.client = obj[o].client /\ r.conn = obj[o].conn
        /\ r.pending = obj[o].pending /\ r.task.kind = obj[o].task.kind /\ r.task.at = "failed"
        /\ r.proof = obj[o].proof
    BY <1>0 DEF Objects, Records, Tasks
  <1>2. Set(o, r)
    OBVIOUS
  <1> HIDE DEF r
  <1> QED BY <1>1, <1>2, HostTrack

\* The write's response is late, lost or an error.
LEMMA WriteUnconfirmedTrack ==
  ASSUME IInv, TrackInv, NEW o \in Objs, WriteUnconfirmed(o)
  PROVE  TrackInv'
  BY FailedTrack DEF WriteUnconfirmed, Physical

\* The handler returns.
LEMMA HostReturnTrack ==
  ASSUME IInv, TrackInv, NEW o \in Objs, HostReturn(o)
  PROVE  TrackInv'
  <1> DEFINE r == [obj[o] EXCEPT !.task = NoTask, !.proof = (@ \/ StopProved(obj[o])),
                     !.worker = IF obj[o].worker.at = "in" THEN NoWorker ELSE @]
  <1>0. obj[o] \in Objects /\ cmd \in Commands
    BY DEF IInv, TypesOK
  <1>u. UNCHANGED <<meas, link, air, lost, cur, oblig, streaming>>
    BY DEF HostReturn, Physical
  <1>a. StopProved(obj[o]) \in BOOLEAN
    BY DEF StopProved
  <1>1. /\ r \in Objects /\ r.quar = obj[o].quar /\ r.task = NoTask
        /\ r.worker = IF obj[o].worker.at = "in" THEN NoWorker ELSE obj[o].worker
        /\ r.addr = obj[o].addr /\ r.client = obj[o].client /\ r.conn = obj[o].conn
        /\ r.pending = obj[o].pending
    BY <1>0, <1>a, Blank DEF Objects, Records
  <1>2. r.proof => obj[o].proof \/ StopProved(obj[o])
    BY <1>0 DEF Objects, Records
  <1>b. Set(o, r)
    BY DEF HostReturn
  <1> HIDE DEF r
  <1>3. r.worker.kind = "stop" => obj[o].worker.kind = "stop"
    BY <1>1, Blank
  <1>4. \/ cmd' = cmd
        \/ \E ok \in BOOLEAN : /\ ok => (obj[o].task.at = "acked" \/ obj[o].task.kind # "stop")
                               /\ obj[o].worker.at = "in"
                               /\ Deliver(o, IF ok THEN "ok" ELSE "fail")
    BY DEF HostReturn
  <1>5. \/ cmd' = cmd
        \/ /\ cmd.o = o /\ cmd.pc = "await" /\ cmd'.pc \in {"ok", "fail"}
           /\ cmd'.op = cmd.op /\ cmd'.o = cmd.o /\ cmd'.todo = cmd.todo /\ cmd'.was = cmd.was
           /\ cmd'.confirmed = cmd.confirmed
           /\ cmd'.pc = "ok" /\ cmd.op \in Stopping => StopProved(obj[o])
    <2> SUFFICES ASSUME cmd' # cmd
                 PROVE  /\ cmd.o = o /\ cmd.pc = "await" /\ cmd'.pc \in {"ok", "fail"}
                        /\ cmd'.op = cmd.op /\ cmd'.o = cmd.o /\ cmd'.todo = cmd.todo
                        /\ cmd'.was = cmd.was /\ cmd'.confirmed = cmd.confirmed
                        /\ cmd'.pc = "ok" /\ cmd.op \in Stopping => StopProved(obj[o])
      OBVIOUS
    <2>1. PICK ok \in BOOLEAN : /\ ok => (obj[o].task.at = "acked" \/ obj[o].task.kind # "stop")
                                /\ obj[o].worker.at = "in"
                                /\ Deliver(o, IF ok THEN "ok" ELSE "fail")
      BY <1>4
    <2> DEFINE out == IF ok THEN "ok" ELSE "fail"
    <2>2. out \in {"ok", "fail"} /\ Deliver(o, out) /\ (out = "ok" => ok)
      BY <2>1
    <2> HIDE DEF out
    <2>3. /\ cmd.o = o /\ cmd.pc = "await" /\ cmd'.pc = out
          /\ cmd'.op = cmd.op /\ cmd'.o = cmd.o /\ cmd'.todo = cmd.todo
          /\ cmd'.was = cmd.was /\ cmd'.confirmed = cmd.confirmed
      BY <1>0, <2>2, CommandMoves
    <2>4. ASSUME out = "ok", cmd.op \in Stopping
          PROVE  StopProved(obj[o])
      <3>1. KindOf(cmd.op) = "stop"
        BY <2>4 DEF Stopping, KindOf
      <3>2. obj[o].task.kind = "stop"
        BY <2>1, <2>3, <3>1 DEF IInv, LateInv, AwaitOK
      <3> QED BY <2>1, <2>2, <2>4, <3>2 DEF StopProved
    <2> QED BY <2>2, <2>3, <2>4
  <1> QED BY <1>b, <1>u, <1>1, <1>2, <1>3, <1>5, HostTrack, Blank

\* The worker of an expired operation stops waiting.
LEMMA WorkerEndsTrack ==
  ASSUME IInv, TrackInv, NEW o \in Objs, WorkerEnds(o)
  PROVE  TrackInv'
  <1>0. obj[o] \in Objects
    BY DEF IInv, TypesOK
  <1> DEFINE r == [obj[o] EXCEPT !.worker = NoWorker]
  <1>1. /\ r \in Objects /\ r.worker = NoWorker /\ r.task = obj[o].task /\ r.quar = obj[o].quar
        /\ r.addr = obj[o].addr /\ r.client = obj[o].client /\ r.conn = obj[o].conn
        /\ r.pending = obj[o].pending /\ r.proof = obj[o].proof
    BY <1>0, Blank DEF Objects, Records
  <1>2. Set(o, r) /\ UNCHANGED <<meas, link, air, lost, cur, oblig, cmd, streaming>>
    BY DEF WorkerEnds, Physical
  <1> HIDE DEF r
  <1> QED BY <1>1, <1>2, HostTrack, Blank

\* A plugin host crashes.
LEMMA HostCrashTrack ==
  ASSUME IInv, TrackInv, NEW o \in Objs, HostCrash(o)
  PROVE  TrackInv'
  <1>0. obj[o] \in Objects /\ cmd \in Commands
    BY DEF IInv, TypesOK
  <1> DEFINE r == HostGone(obj[o], "dead")
  <1>1. /\ r \in Objects /\ r.worker = NoWorker /\ r.task = NoTask /\ r.quar = obj[o].quar
        /\ r.addr = obj[o].addr /\ r.client = obj[o].client /\ r.conn = obj[o].conn
        /\ r.pending = obj[o].pending /\ ~r.proof
    BY <1>0, HostGoneFields
  <1>2. Set(o, r) /\ UNCHANGED <<meas, link, air, lost, cur, oblig, streaming>> /\ Deliver(o, "fail")
    BY DEF HostCrash, Physical
  <1> HIDE DEF r
  <1>3. \/ cmd' = cmd
        \/ /\ cmd.o = o /\ cmd.pc = "await" /\ cmd'.pc = "fail"
           /\ cmd'.op = cmd.op /\ cmd'.o = cmd.o /\ cmd'.todo = cmd.todo /\ cmd'.was = cmd.was
           /\ cmd'.confirmed = cmd.confirmed
    BY <1>0, <1>2, CommandMoves
  <1> QED BY <1>1, <1>2, <1>3, HostTrack, Blank

\* A queue with one more write.
LEMMA Queued ==
  ASSUME NEW q \in Seq(Writes), NEW e \in Writes, NEW kind, NEW w, w = Append(q, e)
  PROVE  /\ w # <<>> /\ w[Len(w)] = e
         /\ (\E i \in 1..Len(w) : w[i].kind = kind)
              <=> (e.kind = kind \/ \E i \in 1..Len(q) : q[i].kind = kind)
  <1>1. /\ Len(w) = Len(q) + 1 /\ Len(q) \in Nat /\ w[Len(q) + 1] = e
        /\ \A i \in 1..Len(q) : w[i] = q[i]
    OBVIOUS
  <1>2. w # <<>>
    BY AppendProperties
  <1>3. w[Len(w)] = e
    BY <1>1
  <1>4. (\E i \in 1..Len(w) : w[i].kind = kind)
              <=> (e.kind = kind \/ \E i \in 1..Len(q) : q[i].kind = kind)
    <2>1. ASSUME NEW i \in 1..Len(w), w[i].kind = kind
          PROVE  e.kind = kind \/ \E k \in 1..Len(q) : q[k].kind = kind
      <3>1. i = Len(q) + 1 \/ i \in 1..Len(q)
        BY <1>1
      <3> QED BY <1>1, <2>1, <3>1
    <2>2. ASSUME e.kind = kind
          PROVE  \E i \in 1..Len(w) : w[i].kind = kind
      <3>1. Len(q) + 1 \in 1..Len(w)
        BY <1>1
      <3> QED BY <1>1, <2>2, <3>1
    <2>3. ASSUME NEW i \in 1..Len(q), q[i].kind = kind
          PROVE  \E k \in 1..Len(w) : w[k].kind = kind
      <3>1. i \in 1..Len(w)
        BY <1>1
      <3> QED BY <1>1, <2>3, <3>1
    <2> QED BY <2>1, <2>2, <2>3
  <1> QED BY <1>2, <1>3, <1>4

\* A write that is no START behind a STOP keeps the order.
LEMMA QueuedInOrder ==
  ASSUME NEW q \in Seq(Writes), NEW e \in Writes, NEW w, w = Append(q, e), InOrder(q),
         e.kind = "start" => ~\E i \in 1..Len(q) : q[i].kind = "stop"
  PROVE  InOrder(w)
  <1>1. /\ Len(w) = Len(q) + 1 /\ Len(q) \in Nat /\ w[Len(q) + 1] = e
        /\ \A i \in 1..Len(q) : w[i] = q[i]
    OBVIOUS
  <1> SUFFICES ASSUME NEW i \in 1..Len(w), NEW j \in 1..Len(w), i < j, w[i].kind = "stop", w[j].kind = "start"
               PROVE  FALSE
    BY DEF InOrder
  <1>2. i \in 1..Len(q)
    BY <1>1
  <1>3. CASE j = Len(q) + 1
    BY <1>1, <1>2, <1>3
  <1>4. CASE j # Len(q) + 1
    <2>1. j \in 1..Len(q)
      BY <1>1, <1>4
    <2> QED BY <1>1, <1>2, <2>1 DEF InOrder
  <1> QED BY <1>3, <1>4

\* A queue without its oldest write.
LEMMA Dequeued ==
  ASSUME NEW q \in Seq(Writes), q # <<>>, NEW w, w = Tail(q)
  PROVE  /\ w # <<>> => w[Len(w)] = q[Len(q)]
         /\ \E i \in 1..Len(q) : q[i] = Head(q)
         /\ Len(q) = 1 => w = <<>> /\ Head(q) = q[Len(q)]
         /\ Head(q) \in Writes
  <1>1. /\ Len(q) \in Nat /\ Len(q) > 0 /\ w \in Seq(Writes) /\ Len(w) = Len(q) - 1
        /\ \A i \in 1..Len(w) : w[i] = q[i + 1]
        /\ Head(q) = q[1] /\ Head(q) \in Writes
    OBVIOUS
  <1>2. w # <<>> => Len(w) \in Nat \ {0}
    BY <1>1, EmptySeq
  <1>3. Len(q) = 1 => w = <<>>
    BY <1>1, <1>2
  <1>5. w # <<>> => w[Len(w)] = q[Len(q)]
    <2> SUFFICES ASSUME w # <<>> PROVE w[Len(w)] = q[Len(q)]
      OBVIOUS
    <2>1. w[Len(w)] = q[Len(w) + 1] /\ Len(w) + 1 = Len(q)
      BY <1>1, <1>2
    <2> QED BY <2>1
  <1>8. 1 \in 1..Len(q)
    BY <1>1
  <1> QED BY <1>1, <1>3, <1>5, <1>8

\* What is left of a queue was in it, in its order.
LEMMA DequeuedInOrder ==
  ASSUME NEW q \in Seq(Writes), q # <<>>, NEW w, w = Tail(q), InOrder(q)
  PROVE  InOrder(w)
  <1>1. /\ Len(q) \in Nat /\ Len(q) > 0 /\ w \in Seq(Writes) /\ Len(w) = Len(q) - 1
        /\ \A i \in 1..Len(w) : w[i] = q[i + 1]
    OBVIOUS
  <1>2. \A i \in 1..Len(w) : i + 1 \in 1..Len(q)
    BY <1>1
  <1> SUFFICES ASSUME NEW i \in 1..Len(w), NEW j \in 1..Len(w), i < j, w[i].kind = "stop", w[j].kind = "start"
               PROVE  FALSE
    BY DEF InOrder
  <1>3. i + 1 \in 1..Len(q) /\ j + 1 \in 1..Len(q) /\ i + 1 < j + 1
    BY <1>1, <1>2
  <1> QED BY <1>1, <1>3 DEF InOrder

\* A kind of write that is left was queued.
LEMMA DequeuedKind ==
  ASSUME NEW q \in Seq(Writes), q # <<>>, NEW w, w = Tail(q), NEW kind,
         \E i \in 1..Len(w) : w[i].kind = kind
  PROVE  \E i \in 1..Len(q) : q[i].kind = kind
  <1>1. /\ Len(q) \in Nat /\ Len(q) > 0 /\ w \in Seq(Writes) /\ Len(w) = Len(q) - 1
        /\ \A i \in 1..Len(w) : w[i] = q[i + 1]
    OBVIOUS
  <1>2. PICK i \in 1..Len(w) : w[i].kind = kind
    OBVIOUS
  <1>3. i + 1 \in 1..Len(q)
    BY <1>1
  <1> QED BY <1>1, <1>2, <1>3

\* The object that a command awaits is live, if it has a device.
LEMMA AwaitedLive ==
  ASSUME IInv, TrackInv, cmd.pc \notin {"-", "next"}, At(cmd.o) \in Addrs
  PROVE  Live(cmd.o)
  <1>1. CASE cmd.op = "recover"
    <2>1. cmd.o \in Objs
      BY DEF IInv, TypesOK, LateInv, PlaceOK, Commands, Pcs
    <2> QED BY <1>1, <2>1 DEF IInv, LateInv, PlaceOK, TrackInv, OwnerOK
  <1>2. CASE cmd.op # "recover"
    <2>1. cmd.op \in Sequential
      BY <1>2 DEF IInv, TypesOK, LateInv, PlaceOK, Commands, Ops
    <2> QED BY <2>1 DEF IInv, LateInv, PlaceOK, Live
  <1> QED BY <1>1, <1>2

\* A write that is not fenced is the awaited command's own.
LEMMA WrittenIsAwaited ==
  ASSUME IInv, NEW o \in Objs, obj[o].task.kind # "none", ~Fenced(obj[o])
  PROVE  cmd.pc = "await" /\ cmd.o = o /\ obj[o].task.kind = KindOf(cmd.op) /\ obj[o].client
  <1>1. cmd.pc = "await" /\ cmd.o = o /\ obj[o].worker.at = "in"
    BY DEF IInv, LateInv, LateOK, Late, Fenced
  <1>2. obj[o].task.kind = KindOf(cmd.op)
    BY <1>1 DEF IInv, LateInv, AwaitOK
  <1> QED BY <1>1, <1>2 DEF Fenced

\* The handler's write joins the queue of its device.
LEMMA HostWriteTrack ==
  ASSUME IInv, TrackInv, NEW o \in Objs, HostWrite(o)
  PROVE  TrackInv'
  <1>0. /\ obj[o] \in Objects /\ cmd \in Commands /\ cur \in Objs /\ cur' = cur /\ oblig' = oblig
        /\ cmd' = cmd /\ oblig \in [Keys -> Objs \cup {None, Unknown}]
        /\ UNCHANGED <<meas, link, lost, streaming>>
    BY DEF IInv, TypesOK, HostWrite
  <1>1. CASE Set(o, [obj[o] EXCEPT !.task.at = "failed"]) /\ UNCHANGED air
    BY <1>0, <1>1, FailedTrack
  <1>2. CASE ~(Set(o, [obj[o] EXCEPT !.task.at = "failed"]) /\ UNCHANGED air)
    <2> DEFINE e == [o |-> o, kind |-> obj[o].task.kind]
               r == [obj[o] EXCEPT !.task.at = "writing"]
    <2>b. PICK a \in link : a = At(o)
      BY <1>2 DEF HostWrite, At
    <2>1. /\ ~Fenced(obj[o]) /\ air' = Written(o) /\ Set(o, r)
          /\ obj[o].task.kind \in {"start", "stop"}
      BY <1>2 DEF HostWrite, At
    <2>2. e \in Writes /\ a \in Addrs /\ e.kind = obj[o].task.kind
      BY <2>1, <2>b DEF Writes, IInv, TypesOK
    <2>3. air[a] \in Seq(Writes) /\ air'[a] = Append(air[a], e) /\ \A b \in Addrs \ {a} : air'[b] = air[b]
      BY <2>1, <2>2, <2>b DEF IInv, TypesOK, Written
    <2>4. /\ cmd.pc = "await" /\ cmd.o = o /\ obj[o].task.kind = KindOf(cmd.op) /\ obj[o].client
      BY <2>1, WrittenIsAwaited
    <2>5. Live(o)
      BY <2>b, <2>2, <2>4, AwaitedLive
    <2>6. /\ r \in Objects /\ r.worker = obj[o].worker /\ r.quar = obj[o].quar
          /\ r.addr = obj[o].addr /\ r.client = obj[o].client /\ r.conn = obj[o].conn
          /\ r.pending = obj[o].pending /\ r.task.kind = obj[o].task.kind /\ r.task.at = "writing"
          /\ r.proof = obj[o].proof
      BY <1>0 DEF Objects, Records, Tasks
    <2> HIDE DEF r, e
    <2>7. obj' \in [Objs -> Objects] /\ obj'[o] = r /\ \A p \in Objs \ {o} : obj'[p] = obj[p]
      BY <2>1, <2>6, SetMoves DEF IInv, TypesOK
    <2>8. \A p \in Objs : /\ obj'[p].addr = obj[p].addr /\ obj'[p].client = obj[p].client
                          /\ obj'[p].conn = obj[p].conn /\ obj'[p].pending = obj[p].pending
                          /\ obj'[p].quar = obj[p].quar /\ obj'[p].worker = obj[p].worker
                          /\ obj'[p].task.kind = obj[p].task.kind /\ obj'[p].proof = obj[p].proof
      BY <2>6, <2>7
    <2>9. \A p \in Objs : (Live(p)' <=> Live(p)) /\ At(p)' = At(p)
      BY <1>0, <2>8 DEF Live, At
    <2>10. \A b \in Addrs \ {a} : /\ Quiet(b)' <=> Quiet(b)
                                  /\ Stopped(b)' <=> Stopped(b)
                                  /\ PhysicallyStopped(b)' <=> PhysicallyStopped(b)
      BY <1>0, <2>3, SameAir
    <2>11. /\ Stopped(a)' <=> (Stopped(a) \/ e.kind = "stop")
           /\ Starting(a)' <=> (Starting(a) \/ e.kind = "start")
           /\ air'[a] # <<>> /\ air'[a][Len(air'[a])] = e
           /\ InOrder(air[a]) /\ (e.kind = "start" => ~Stopped(a)) => InOrder(air'[a])
      <3> DEFINE q == air[a]
                 w == air'[a]
      <3>1. /\ Stopped(a)' <=> \E i \in 1..Len(w) : w[i].kind = "stop"
            /\ Starting(a)' <=> \E i \in 1..Len(w) : w[i].kind = "start"
            /\ Stopped(a) <=> \E i \in 1..Len(q) : q[i].kind = "stop"
            /\ Starting(a) <=> \E i \in 1..Len(q) : q[i].kind = "start"
        BY DEF Stopped, Starting
      <3>2. q = air[a] /\ w = air'[a] /\ q \in Seq(Writes) /\ w = Append(q, e) /\ e \in Writes
        BY <2>2, <2>3
      <3> HIDE DEF w, q
      <3>3. (\E i \in 1..Len(w) : w[i].kind = "stop")
                 <=> (e.kind = "stop" \/ \E i \in 1..Len(q) : q[i].kind = "stop")
        BY ONLY <3>2, Queued
      <3>5. w # <<>> /\ w[Len(w)] = e
        BY ONLY <3>2, Queued
      <3>6. ASSUME InOrder(q), e.kind = "start" => ~\E i \in 1..Len(q) : q[i].kind = "stop"
            PROVE  InOrder(w)
        BY ONLY <3>2, <3>6, QueuedInOrder
      <3>4. (\E i \in 1..Len(w) : w[i].kind = "start")
                 <=> (e.kind = "start" \/ \E i \in 1..Len(q) : q[i].kind = "start")
        BY ONLY <3>2, Queued
      <3> QED BY <3>1, <3>2, <3>3, <3>4, <3>5, <3>6
    <2>12. Quiet(a)' <=> (Quiet(a) /\ e.kind # "start")
      BY <1>0, <2>11 DEF Quiet
    <2>13. cmd.op = "start" <=> e.kind = "start"
      BY <2>1, <2>2, <2>4 DEF KindOf
    <2>14. e.kind = "start" => o = cur /\ ~Stopped(a) /\ obj[cur].pending
      BY <2>b, <2>4, <2>13 DEF IInv, LateInv, PlaceOK, TrackInv, PhaseOK, Sequential
    <2>a. cmd.todo \subseteq Objs
      BY <1>0 DEF Commands
    <2>15. OwnerOK'
      BY <1>0, <2>9, <2>a DEF TrackInv, OwnerOK, ObligationKeepsIdentity
    <2>16. ASSUME NEW p \in Objs
           PROVE  ObjOK(p)'
      <3>0. ObjOK(p)
        BY DEF TrackInv
      <3>1. CASE p = o
        BY <2>b, <1>0, <2>1, <2>2, <2>4, <2>5, <2>6, <2>7, <2>9, <2>11, <2>12, <3>0, <3>1 DEF ObjOK, e
      <3>2. CASE p # o
        <4>1. obj'[p] = obj[p]
          BY <2>7, <3>2
        <4>2. Live(p) /\ At(p) \in Addrs => At(p) # a
          BY <2>b, <2>2, <2>5, <3>2, OneOwner, SlotAssumption DEF TrackInv
        <4>3. At(p) \in Addrs \ {a} => air'[At(p)] = air[At(p)]
          BY <2>3
        <4> QED BY <1>0, <2>9, <2>10, <3>0, <4>1, <4>2, <4>3 DEF ObjOK
      <3> QED BY <3>1, <3>2
    <2>17. ASSUME NEW b \in Addrs
           PROVE  AirOK(b)' /\ Tracked(b)' /\ StopOwed(b)'
      <3>0. AirOK(b) /\ Tracked(b) /\ StopOwed(b)
        BY DEF TrackInv
      <3>1. CASE b # a
        BY <1>0, <2>3, <2>8, <2>9, <2>10, <3>0, <3>1 DEF AirOK, Tracked, StopOwed
      <3>2. CASE b = a
        <4>1. AirOK(a)'
          BY <2>b, <1>0, <2>1, <2>11, <2>14, <3>0, <3>2 DEF AirOK
        <4>2. Tracked(a)'
          BY <2>b, <1>0, <2>8, <2>9, <2>12, <2>14, <3>0, <3>2 DEF Tracked
        <4>3. StopOwed(a)'
          <5>1. CASE e.kind = "start"
            BY <2>11, <2>14, <5>1 DEF StopOwed
          <5>2. CASE e.kind # "start"
            <6>1. cmd.op \in Stopping
              <7>1. obj[o].task.kind = "stop"
                BY <2>1, <2>2, <5>2
              <7> QED BY <1>0, <2>4, <7>1 DEF IInv, LateInv, PlaceOK, KindOf, Stopping, Commands, Ops, Sequential
            <6>2. CASE o = cur
              BY <2>b, <1>0, <2>4, <2>9, <6>1, <6>2 DEF StopOwed
            <6>3. CASE o # cur
              <7>1. oblig[a] = o
                BY <2>b, <2>5, <6>3 DEF Live
              <7> QED BY <1>0, <2>9, <7>1, SlotAssumption DEF StopOwed
            <6> QED BY <6>2, <6>3
          <5> QED BY <5>1, <5>2
        <4> QED BY <3>2, <4>1, <4>2, <4>3
      <3> QED BY <3>1, <3>2
    <2>18. PhaseOK'
      <3>0. PhaseOK
        BY DEF TrackInv
      <3>1. (cmd.op = "start" => obj[cur].pending /\ At(cur) \in Addrs /\ ~Stopped(At(cur)))'
        BY <2>b, <1>0, <2>8, <2>9, <2>11, <2>13, <2>14, <3>0 DEF PhaseOK
      <3>2. (cmd.op = "recover" => \A b \in cmd.confirmed : PhysicallyStopped(b) /\ (cmd.was => b \notin link))'
        <4> SUFFICES ASSUME cmd.op = "recover", NEW b \in cmd.confirmed
                     PROVE  PhysicallyStopped(b)' /\ (cmd.was => b \notin link)
          BY <1>0
        <4>1. b # a /\ b \in Addrs
          BY <2>b, <1>0, <2>4, <3>0 DEF PhaseOK, Commands
        <4> QED BY <2>10, <3>0, <4>1 DEF PhaseOK
      <3>3. (cmd.op = "recover" /\ cmd.o \in Objs => At(cmd.o) \notin cmd.confirmed)'
        BY <1>0, <2>9, <3>0 DEF PhaseOK
      <3>4. (cmd.op \in Stopping => ~streaming)'
        BY <1>0, <3>0 DEF PhaseOK
      <3>5. (streaming \/ cmd.op = "start" => obj[cur].task.kind # "stop" /\ obj[cur].worker.kind # "stop")'
        BY <1>0, <2>8, <3>0 DEF PhaseOK
      <3> QED BY <1>0, <2>4, <3>1, <3>2, <3>3, <3>4, <3>5 DEF PhaseOK
    <2> QED BY <2>15, <2>16, <2>17, <2>18 DEF TrackInv
  <1> QED BY <1>1, <1>2

\* The gateway executes the oldest write of a device.
LEMMA ExecuteTrack ==
  ASSUME IInv, TrackInv, NEW a \in Addrs, Execute(a)
  PROVE  TrackInv'
  <1>0. /\ cmd \in Commands /\ cur \in Objs /\ cur' = cur /\ oblig' = oblig
        /\ cmd' = cmd /\ oblig \in [Keys -> Objs \cup {None, Unknown}]
        /\ UNCHANGED <<link, lost, streaming>> /\ cmd.todo \subseteq Objs
    BY DEF IInv, TypesOK, Execute, Commands
  <1> DEFINE q == air[a]
             w == air'[a]
             e == Head(air[a])
  <1>1. q \in Seq(Writes) /\ q # <<>> /\ w = Tail(q) /\ e = Head(q)
    BY DEF IInv, TypesOK, Execute
  <1>2. /\ \A b \in Addrs \ {a} : air'[b] = air[b] /\ (b \in meas' <=> b \in meas)
        /\ meas' = (IF e.kind = "start" THEN meas \cup {a} ELSE meas \ {a})
        /\ obj' = IF Len(q) = 1 /\ obj[e.o].addr = a /\ obj[e.o].task.at = "writing"
                  THEN [obj EXCEPT ![e.o].task.at = "acked"] ELSE obj
    BY DEF IInv, TypesOK, Execute
  <1>d. q = air[a] /\ w = air'[a]
    OBVIOUS
  <1>e. /\ Stopped(a)' <=> \E i \in 1..Len(w) : w[i].kind = "stop"
        /\ Starting(a)' <=> \E i \in 1..Len(w) : w[i].kind = "start"
        /\ Stopped(a) <=> \E i \in 1..Len(q) : q[i].kind = "stop"
        /\ Starting(a) <=> \E i \in 1..Len(q) : q[i].kind = "start"
    BY DEF Stopped, Starting
  <1> HIDE DEF q, w
  <1>3. w # <<>> => w[Len(w)] = q[Len(q)]
    BY ONLY <1>1, Dequeued
  <1>4. Len(q) = 1 => w = <<>> /\ e = q[Len(q)]
    BY ONLY <1>1, Dequeued
  <1>5. e \in Writes /\ \E i \in 1..Len(q) : q[i] = e
    BY ONLY <1>1, Dequeued
  <1>6. InOrder(q) => InOrder(w)
    BY ONLY <1>1, DequeuedInOrder
  <1>7. (\E i \in 1..Len(w) : w[i].kind = "stop") => (\E i \in 1..Len(q) : q[i].kind = "stop")
    BY ONLY <1>1, DequeuedKind
  <1>8. (\E i \in 1..Len(w) : w[i].kind = "start") => (\E i \in 1..Len(q) : q[i].kind = "start")
    BY ONLY <1>1, DequeuedKind
  <1>9. e.o \in Objs /\ e.kind \in {"start", "stop"}
    BY <1>5 DEF Writes
  <1>10. (Stopped(a)' => Stopped(a)) /\ (Starting(a)' => Starting(a)) /\ ~PhysicallyStopped(a)
    BY <1>e, <1>7, <1>8, <1>d, <1>1 DEF PhysicallyStopped
  <1>11. (e.kind = "start" => Starting(a)) /\ (a \in meas' <=> e.kind = "start")
    BY <1>e, <1>2, <1>5
  <1> HIDE DEF e
  <1>12. Quiet(a) => Quiet(a)'
    BY <1>10, <1>11 DEF Quiet
  <1>13. Len(q) = 1 /\ e.kind = "stop" => PhysicallyStopped(a)'
    BY <1>4, <1>9, <1>11, <1>d DEF PhysicallyStopped
  <1>14. \A b \in Addrs \ {a} : /\ Quiet(b)' <=> Quiet(b)
                                /\ Stopped(b)' <=> Stopped(b)
                                /\ PhysicallyStopped(b)' <=> PhysicallyStopped(b)
    BY <1>2, SameAir
  <1>15. \A b \in Addrs : /\ Quiet(b) => Quiet(b)'
                          /\ Stopped(b)' => Stopped(b)
                          /\ PhysicallyStopped(b) => PhysicallyStopped(b)'
    BY <1>10, <1>12, <1>14
  <1>16. \A p \in Objs :
            /\ obj'[p].addr = obj[p].addr /\ obj'[p].client = obj[p].client
            /\ obj'[p].conn = obj[p].conn /\ obj'[p].pending = obj[p].pending
            /\ obj'[p].quar = obj[p].quar /\ obj'[p].worker = obj[p].worker
            /\ obj'[p].task.kind = obj[p].task.kind /\ obj'[p].proof = obj[p].proof
            /\ \/ obj'[p].task.at = obj[p].task.at
               \/ /\ Len(q) = 1 /\ obj[p].addr = a /\ obj[p].task.at = "writing" /\ p = e.o
                  /\ obj'[p].task.at = "acked"
    <2> TAKE p \in Objs
    <2>1. obj[p] \in Objects /\ obj \in [Objs -> Objects]
      BY DEF IInv, TypesOK
    <2>2. CASE obj' = obj
      BY <2>2
    <2>3. CASE obj' # obj
      <3>1. /\ Len(q) = 1 /\ obj[e.o].addr = a /\ obj[e.o].task.at = "writing"
            /\ obj' = [obj EXCEPT ![e.o].task.at = "acked"]
        BY <1>2, <2>3
      <3>2. CASE p = e.o
        <4>1. obj'[p] = [obj[p] EXCEPT !.task.at = "acked"]
          BY <2>1, <3>1, <3>2, <1>9
        <4> QED BY <2>1, <3>1, <3>2, <4>1 DEF Objects, Records, Tasks
      <3>3. CASE p # e.o
        <4>1. obj'[p] = obj[p]
          BY <2>1, <3>1, <3>3, <1>9
        <4> QED BY <4>1
      <3> QED BY <3>2, <3>3
    <2> QED BY <2>2, <2>3
  <1>17. \A p \in Objs : (Live(p)' <=> Live(p)) /\ At(p)' = At(p)
    BY <1>0, <1>16 DEF Live, At
  <1>18. OwnerOK'
    BY <1>0, <1>17 DEF TrackInv, OwnerOK, ObligationKeepsIdentity
  <1>19. ASSUME NEW p \in Objs
         PROVE  ObjOK(p)'
    <2>0. ObjOK(p)
      BY DEF TrackInv
    <2>1. obj'[p].task.at \in {"writing", "acked"} => At(p)' \in Addrs
      BY <1>16, <1>17, <2>0 DEF ObjOK
    <2> SUFFICES ASSUME Live(p), At(p) \in Addrs
                 PROVE  /\ obj'[p].proof => Quiet(At(p))'
                        /\ obj'[p].task.kind = "start" => ~obj'[p].proof
                        /\ obj'[p].task.at = "writing" /\ air'[At(p)] # <<>>
                             => air'[At(p)][Len(air'[At(p)])] = [o |-> p, kind |-> obj'[p].task.kind]
                        /\ obj'[p].task.at = "acked" /\ obj'[p].task.kind = "stop" => PhysicallyStopped(At(p))'
                        /\ ~obj'[p].client => ~Stopped(At(p))'
                        /\ obj'[p].client /\ ~obj'[p].conn => At(p) \notin link'
      BY <1>17, <2>1 DEF ObjOK
    <2> PICK b \in Addrs : b = At(p)
      OBVIOUS
    <2>2. /\ obj[p].proof => Quiet(b)
          /\ obj[p].task.kind = "start" => ~obj[p].proof
          /\ obj[p].task.at = "writing" /\ air[b] # <<>>
               => air[b][Len(air[b])] = [o |-> p, kind |-> obj[p].task.kind]
          /\ obj[p].task.at = "acked" /\ obj[p].task.kind = "stop" => PhysicallyStopped(b)
          /\ ~obj[p].client => ~Stopped(b)
          /\ obj[p].client /\ ~obj[p].conn => b \notin link
      BY <2>0 DEF ObjOK
    <2>3. At(p)' = b
      BY <1>17
    <2>4. obj'[p].proof => Quiet(b)'
      BY <1>15, <1>16, <2>2
    <2>5. obj'[p].task.at = "writing" /\ air'[b] # <<>>
             => air'[b][Len(air'[b])] = [o |-> p, kind |-> obj'[p].task.kind]
      <3> SUFFICES ASSUME obj'[p].task.at = "writing", air'[b] # <<>>
                   PROVE  air'[b][Len(air'[b])] = [o |-> p, kind |-> obj[p].task.kind]
        BY <1>16
      <3>1. obj[p].task.at = "writing"
        BY <1>16
      <3>2. CASE b = a
        <4>1. air'[b] = w /\ air[b] = q
          BY <3>2, <1>d
        <4> QED BY <4>1, <3>1, <2>2, <1>1, <1>3
      <3>3. CASE b # a
        <4>1. air'[b] = air[b]
          BY <1>2, <3>3
        <4> QED BY <4>1, <3>1, <2>2
      <3> QED BY <3>2, <3>3
    <2>6. obj'[p].task.at = "acked" /\ obj'[p].task.kind = "stop" => PhysicallyStopped(b)'
      <3> SUFFICES ASSUME obj'[p].task.at = "acked", obj[p].task.kind = "stop"
                   PROVE  PhysicallyStopped(b)'
        BY <1>16
      <3>1. CASE obj[p].task.at = "acked"
        BY <3>1, <2>2, <1>15
      <3>2. CASE obj[p].task.at # "acked"
        <4>1. Len(q) = 1 /\ b = a /\ obj[p].task.at = "writing" /\ air[b] = q
          BY <3>2, <1>16, <1>d DEF At
        <4>2. e = [o |-> p, kind |-> "stop"]
          BY <4>1, <2>2, <1>1, <1>4
        <4>3. e.kind = "stop"
          BY <4>2
        <4> QED BY <4>1, <4>3, <1>13
      <3> QED BY <3>1, <3>2
    <2> QED BY <1>0, <1>15, <1>16, <2>2, <2>3, <2>4, <2>5, <2>6
  <1>20. ASSUME NEW b \in Addrs
         PROVE  AirOK(b)' /\ Tracked(b)' /\ StopOwed(b)'
    <2>0. AirOK(b) /\ Tracked(b) /\ StopOwed(b)
      BY DEF TrackInv
    <2>1. AirOK(b)'
      <3>1. CASE b = a
        <4>1. air'[b] = w /\ air[b] = q
          BY <3>1, <1>d
        <4> QED BY <4>1, <1>0, <1>1, <1>6, <2>0 DEF AirOK
      <3>2. CASE b # a
        BY <3>2, <1>0, <1>2, <2>0 DEF AirOK
      <3> QED BY <3>1, <3>2
    <2>2. Tracked(b)'
      BY <1>0, <1>15, <1>16, <1>17, <2>0 DEF Tracked
    <2>3. StopOwed(b)'
      BY <1>0, <1>15, <1>16, <1>17, <2>0 DEF StopOwed
    <2> QED BY <2>1, <2>2, <2>3
  <1>21. PhaseOK'
    <2>0. PhaseOK
      BY DEF TrackInv
    <2>1. (cmd.op = "start" => obj[cur].pending /\ At(cur) \in Addrs /\ ~Stopped(At(cur)))'
      BY <1>0, <1>15, <1>16, <1>17, <2>0 DEF PhaseOK
    <2>2. (cmd.pc = "ok" /\ cmd.op \in Stopping => At(cmd.o) \in Addrs /\ PhysicallyStopped(At(cmd.o)))'
      <3>1. cmd.pc = "ok" => cmd.o \in Objs
        BY DEF IInv, LateInv, PlaceOK
      <3> QED BY <1>0, <1>15, <1>17, <2>0, <3>1 DEF PhaseOK
    <2>3. (cmd.op = "recover" => \A b \in cmd.confirmed : PhysicallyStopped(b) /\ (cmd.was => b \notin link))'
      <3>1. cmd.confirmed \subseteq Addrs
        BY <1>0 DEF Commands
      <3> QED BY <1>0, <1>15, <2>0, <3>1 DEF PhaseOK
    <2>4. (cmd.op = "recover" /\ cmd.pc = "disconnect" => ~obj[cmd.o].pending)'
      <3>1. cmd.pc = "disconnect" => cmd.o \in Objs
        BY DEF IInv, LateInv, PlaceOK
      <3> QED BY <1>0, <1>16, <2>0, <3>1 DEF PhaseOK
    <2>5. (cmd.op = "recover" /\ cmd.o \in Objs => At(cmd.o) \notin cmd.confirmed)'
      BY <1>0, <1>17, <2>0 DEF PhaseOK
    <2>6. (cmd.pc = "retire" => ~obj[cmd.o].conn)'
      <3>1. cmd.pc = "retire" => cmd.o \in Objs
        BY DEF IInv, LateInv, PlaceOK
      <3> QED BY <1>0, <1>16, <2>0, <3>1 DEF PhaseOK
    <2>7. (cmd.op \in Stopping => ~streaming)'
      BY <1>0, <2>0 DEF PhaseOK
    <2>8. (streaming \/ cmd.op = "start" => obj[cur].task.kind # "stop" /\ obj[cur].worker.kind # "stop")'
      BY <1>0, <1>16, <2>0 DEF PhaseOK
    <2> QED BY <2>1, <2>2, <2>3, <2>4, <2>5, <2>6, <2>7, <2>8, Zenon DEF PhaseOK
  <1> QED BY <1>18, <1>19, <1>20, <1>21 DEF TrackInv

\* What devices and links do by themselves: queues are emptied, links go down.
LEMMA DeviceTrack ==
  ASSUME IInv, TrackInv, UNCHANGED <<cmd, cur, oblig, streaming>>,
         \A p \in Objs :
            /\ obj'[p].addr = obj[p].addr /\ obj'[p].client = obj[p].client
            /\ obj'[p].pending = obj[p].pending /\ obj'[p].proof = obj[p].proof
            /\ obj'[p].quar = obj[p].quar /\ obj'[p].worker = obj[p].worker
            /\ obj'[p].task = obj[p].task /\ (obj'[p].conn => obj[p].conn)
            /\ (~obj'[p].conn => ~obj[p].conn \/ At(p) \notin link'),
         link' \subseteq link, meas' \subseteq meas,
         \A b \in Addrs : /\ air'[b] = air[b] \/ air'[b] = <<>>
                          /\ air'[b] # <<>> => b \in link'
                          /\ b \in link' => b \notin lost'
  PROVE  TrackInv'
  <1>0. /\ cmd \in Commands /\ cur \in Objs /\ cur' = cur /\ oblig' = oblig
        /\ cmd' = cmd /\ oblig \in [Keys -> Objs \cup {None, Unknown}]
        /\ cmd.todo \subseteq Objs /\ streaming' = streaming
    BY DEF IInv, TypesOK, Commands
  <1>15. ASSUME NEW b \in Addrs
         PROVE  /\ Quiet(b) => Quiet(b)'
                /\ Stopped(b)' => Stopped(b)
                /\ PhysicallyStopped(b) => PhysicallyStopped(b)'
    <2>1. CASE air'[b] = <<>>
      BY <2>1, EmptyAir DEF PhysicallyStopped
    <2>2. CASE air'[b] = air[b]
      BY <2>2 DEF Quiet, Stopped, Starting, PhysicallyStopped
    <2> QED BY <2>1, <2>2
  <1>17. \A p \in Objs : (Live(p)' <=> Live(p)) /\ At(p)' = At(p)
    BY <1>0 DEF Live, At
  <1>18. OwnerOK'
    BY <1>0, <1>17 DEF TrackInv, OwnerOK, ObligationKeepsIdentity
  <1>19. ASSUME NEW p \in Objs
         PROVE  ObjOK(p)'
    <2>0. ObjOK(p)
      BY DEF TrackInv
    <2>1. At(p) \in Addrs => /\ air'[At(p)] = air[At(p)] \/ air'[At(p)] = <<>>
      OBVIOUS
    <2> QED BY <1>0, <1>15, <1>17, <2>0, <2>1 DEF ObjOK
  <1>20. ASSUME NEW b \in Addrs
         PROVE  AirOK(b)' /\ Tracked(b)' /\ StopOwed(b)'
    <2>0. AirOK(b) /\ Tracked(b) /\ StopOwed(b)
      BY DEF TrackInv
    <2>1. AirOK(b)'
      BY <2>0, EmptyAir DEF AirOK
    <2>2. Tracked(b)'
      BY <1>0, <1>15, <1>17, <2>0 DEF Tracked
    <2>3. StopOwed(b)'
      BY <1>0, <1>15, <1>17, <2>0 DEF StopOwed
    <2> QED BY <2>1, <2>2, <2>3
  <1>21. PhaseOK'
    <2>0. PhaseOK
      BY DEF TrackInv
    <2>1. (cmd.op = "start" => obj[cur].pending /\ At(cur) \in Addrs /\ ~Stopped(At(cur)))'
      BY <1>0, <1>15, <1>17, <2>0 DEF PhaseOK
    <2>2. (cmd.pc = "ok" /\ cmd.op \in Stopping => At(cmd.o) \in Addrs /\ PhysicallyStopped(At(cmd.o)))'
      <3>1. cmd.pc = "ok" => cmd.o \in Objs
        BY DEF IInv, LateInv, PlaceOK
      <3> QED BY <1>0, <1>15, <1>17, <2>0, <3>1 DEF PhaseOK
    <2>3. (cmd.op = "recover" => \A b \in cmd.confirmed : PhysicallyStopped(b) /\ (cmd.was => b \notin link))'
      <3>1. cmd.confirmed \subseteq Addrs
        BY <1>0 DEF Commands
      <3> QED BY <1>0, <1>15, <2>0, <3>1 DEF PhaseOK
    <2>4. (cmd.op = "recover" /\ cmd.pc = "disconnect" => ~obj[cmd.o].pending)'
      <3>1. cmd.pc = "disconnect" => cmd.o \in Objs
        BY DEF IInv, LateInv, PlaceOK
      <3> QED BY <1>0, <2>0, <3>1 DEF PhaseOK
    <2>5. (cmd.op = "recover" /\ cmd.o \in Objs => At(cmd.o) \notin cmd.confirmed)'
      BY <1>0, <1>17, <2>0 DEF PhaseOK
    <2>6. (cmd.pc = "retire" => ~obj[cmd.o].conn)'
      <3>1. cmd.pc = "retire" => cmd.o \in Objs
        BY DEF IInv, LateInv, PlaceOK
      <3> QED BY <1>0, <2>0, <3>1 DEF PhaseOK
    <2>7. (cmd.op \in Stopping => ~streaming)'
      BY <1>0, <2>0 DEF PhaseOK
    <2>8. (streaming \/ cmd.op = "start" => obj[cur].task.kind # "stop" /\ obj[cur].worker.kind # "stop")'
      BY <1>0, <2>0 DEF PhaseOK
    <2> QED BY <2>1, <2>2, <2>3, <2>4, <2>5, <2>6, <2>7, <2>8, Zenon DEF PhaseOK
  <1> QED BY <1>18, <1>19, <1>20, <1>21 DEF TrackInv

\* A link is lost, or the operator power cycles a device.
LEMMA LinkLossTrack ==
  ASSUME IInv, TrackInv, NEW a \in Addrs, LinkLoss(a) \/ PowerCycle(a)
  PROVE  TrackInv'
  <1>1. UNCHANGED <<obj, cmd, cur, oblig, streaming>> /\ meas' \subseteq meas /\ link' = link \ {a}
    BY DEF LinkLoss, PowerCycle
  <1>2. air' = [air EXCEPT ![a] = <<>>] /\ lost' \subseteq lost \cup {a}
    BY DEF LinkLoss, PowerCycle
  <1>3. ASSUME NEW b \in Addrs
        PROVE  /\ air'[b] = air[b] \/ air'[b] = <<>>
               /\ air'[b] # <<>> => b \in link'
               /\ b \in link' => b \notin lost'
    <2>0. AirOK(b)
      BY DEF TrackInv
    <2>1. CASE b = a
      BY <1>1, <1>2, <2>1 DEF IInv, TypesOK
    <2>2. CASE b # a
      <3>1. air'[b] = air[b] /\ (b \in meas' <=> b \in meas)
        BY <1>2, <2>2 DEF IInv, TypesOK, LinkLoss, PowerCycle
      <3> QED BY <1>1, <1>2, <2>0, <2>2, <3>1 DEF AirOK
    <2> QED BY <2>1, <2>2
  <1> QED BY <1>1, <1>3, DeviceTrack

\* A sensor_disconnected event is handled: the link was down before.
LEMMA LossEventTrack ==
  ASSUME IInv, TrackInv, NEW a \in Addrs, LossEvent(a)
  PROVE  TrackInv'
  <1>1. UNCHANGED <<meas, link, air, cmd, cur, oblig, streaming>> /\ a \in lost /\ lost' \subseteq lost
    BY DEF LossEvent
  <1>2. ASSUME NEW b \in Addrs
        PROVE  /\ air'[b] # <<>> => b \in link'
               /\ b \in link' => b \notin lost'
    BY <1>1 DEF TrackInv, AirOK
  <1>3. a \notin link'
    BY <1>1 DEF TrackInv, AirOK
  <1>4. ASSUME NEW p \in Objs
        PROVE  /\ obj'[p].addr = obj[p].addr /\ obj'[p].client = obj[p].client
               /\ obj'[p].pending = obj[p].pending /\ obj'[p].proof = obj[p].proof
               /\ obj'[p].quar = obj[p].quar /\ obj'[p].worker = obj[p].worker
               /\ obj'[p].task = obj[p].task /\ (obj'[p].conn => obj[p].conn)
               /\ (~obj'[p].conn => ~obj[p].conn \/ At(p) \notin link')
    <2>1. CASE obj' = obj
      BY <2>1
    <2>2. CASE obj' # obj
      <3> DEFINE o == reg[a]
                 c == obj[o].conn /\ At(o) # a
                 r == [obj[o] EXCEPT !.status = FALSE, !.conn = c]
      <3>1. o \in Objs /\ obj[o] \in Objects
        BY <2>2 DEF LossEvent, IInv, TypesOK
      <3>2. obj' = [obj EXCEPT ![o].status = FALSE, ![o].conn = (@ /\ At(o) # a)]
        BY <2>2 DEF LossEvent
      <3>3. Set(o, r)
        BY <3>1, <3>2 DEF Set, IInv, TypesOK, Objects, Records
      <3>a. c \in BOOLEAN /\ (c <=> obj[o].conn /\ At(o) # a)
        OBVIOUS
      <3> HIDE DEF c
      <3>4. /\ r \in Objects /\ r.worker = obj[o].worker /\ r.task = obj[o].task /\ r.quar = obj[o].quar
            /\ r.addr = obj[o].addr /\ r.client = obj[o].client /\ r.conn = c
            /\ r.pending = obj[o].pending /\ r.proof = obj[o].proof
        BY <3>1, <3>a DEF Objects, Records
      <3> HIDE DEF r, o
      <3>5. obj' \in [Objs -> Objects] /\ obj'[o] = r /\ \A x \in Objs \ {o} : obj'[x] = obj[x]
        BY <3>1, <3>3, <3>4, SetMoves DEF IInv, TypesOK
      <3>6. CASE p = o
        BY <1>3, <3>a, <3>4, <3>5, <3>6
      <3>7. CASE p # o
        BY <3>5, <3>7
      <3> QED BY <3>6, <3>7
    <2> QED BY <2>1, <2>2
  <1> QED BY <1>1, <1>2, <1>4, DeviceTrack

\* A step of a command for one object, which is live or the configured one: it may
\* clear the pending measurement, or drop the obligation, of a quiet device only.
LEMMA ObjectTrack ==
  ASSUME IInv, TrackInv, NEW o \in Objs, NEW r \in Objects, Set(o, r), NEW a, a = At(o),
         UNCHANGED <<meas, lost, cur>>, o = cur \/ Live(o), o # cur => cmd.o # cur,
         r.addr = obj[o].addr, r.client => obj[o].client,
         ~r.client => ~obj[o].client \/ ~Stopped(a),
         r.client /\ ~r.conn => a \notin link' \/ (~obj[o].conn /\ link' = link),
         r.task.at \in {"writing", "acked"} => r.task.at = obj[o].task.at /\ r.task.kind = obj[o].task.kind,
         r.task.kind = "start" => obj[o].task.kind = "start", r.proof => obj[o].proof,
         a \in Addrs => r.pending \/ ~obj[o].pending \/ Quiet(a),
         \A b \in Addrs : b # a => air'[b] = air[b] /\ (b \in link' <=> b \in link),
         a \in Addrs => /\ air'[a] = air[a] \/ air'[a] = <<>>
                        /\ air'[a] # <<>> => a \in link'
                        /\ a \in link' => a \notin lost,
         \A k \in Keys : k # a => oblig'[k] = oblig[k],
         oblig'[a] \in {oblig[a], o, None},
         a \in Addrs /\ oblig'[a] = None => oblig[a] = None \/ Quiet(a),
         cmd'.todo \subseteq cmd.todo, cmd'.todo # {} => Live(o) /\ cmd'.op = "recover",
         o \in cmd'.todo => oblig' = oblig,
         PhaseOK', a \in Addrs => StopOwed(a)'
  PROVE  TrackInv'
  <1>0. /\ cmd \in Commands /\ cur \in Objs /\ cur' = cur
        /\ oblig \in [Keys -> Objs \cup {None, Unknown}] /\ cmd.todo \subseteq Objs
        /\ meas' = meas /\ lost' = lost /\ a \in Keys
        /\ None \notin Objs /\ Unknown \notin Objs /\ Unknown # None /\ None \notin Addrs
    BY SlotAssumption, Fields DEF IInv, TypesOK, Commands, At
  <1>1. obj' \in [Objs -> Objects] /\ obj'[o] = r /\ \A p \in Objs \ {o} : obj'[p] = obj[p]
    BY SetMoves DEF IInv, TypesOK
  <1>2. \A p \in Objs : At(p)' = At(p)
    BY <1>1 DEF At
  <1>3. \A p \in Objs : At(p) \in Keys
    BY Fields DEF At, IInv, TypesOK
  <1>4. \A b \in Addrs : b # a => /\ Quiet(b)' <=> Quiet(b)
                                  /\ Stopped(b)' <=> Stopped(b)
                                  /\ PhysicallyStopped(b)' <=> PhysicallyStopped(b)
    BY <1>0, SameAir
  <1>5. a \in Addrs => /\ Quiet(a) => Quiet(a)'
                       /\ Stopped(a)' => Stopped(a)
                       /\ PhysicallyStopped(a) => PhysicallyStopped(a)'
    <2>1. CASE air'[a] = <<>>
      BY <1>0, <2>1, EmptyAir DEF PhysicallyStopped
    <2>2. CASE air'[a] = air[a]
      BY <1>0, <2>2, SameAir
    <2> QED BY <2>1, <2>2
  <1>6. a \in Addrs => Live(o)
    BY DEF Live
  <1>7. ASSUME NEW p \in Objs, p # o, Live(p)', At(p) \in Addrs
        PROVE  Live(p) /\ At(p) # a
    <2>1. Live(p)
      BY <1>0, <1>2, <1>3, <1>7 DEF Live
    <2> QED BY <1>0, <1>6, <1>7, <2>1, OneOwner DEF TrackInv
  <1>8. OwnerOK'
    <2>0. OwnerOK
      BY DEF TrackInv
    <2>1. ASSUME NEW k \in Keys, oblig'[k] \in Objs
          PROVE  At(oblig[k])' = k
      <3>1. CASE oblig'[k] = oblig[k]
        BY <1>2, <2>0, <2>1, <3>1 DEF OwnerOK, ObligationKeepsIdentity
      <3>2. CASE oblig'[k] # oblig[k]
        BY <1>0, <1>2, <2>1, <3>2
      <3> QED BY <3>1, <3>2
    <2>2. At(cur)' \in Addrs => oblig'[At(cur)'] \in {None, cur}
      <3> SUFFICES ASSUME At(cur) \in Addrs
                   PROVE  oblig'[At(cur)] \in {None, cur}
        BY <1>0, <1>2
      <3>1. CASE At(cur) = a
        <4>1. Live(cur) /\ Live(o)
          BY <1>6, <3>1 DEF Live
        <4>2. o = cur
          BY <1>0, <2>0, <3>1, <4>1, OneOwner
        <4> QED BY <2>0, <3>1, <4>2 DEF OwnerOK
      <3>2. CASE At(cur) # a
        BY <1>0, <1>3, <2>0, <3>2 DEF OwnerOK
      <3> QED BY <3>1, <3>2
    <2>3. ASSUME NEW p \in cmd'.todo
          PROVE  Live(p)'
      <3>0. p \in Objs /\ Live(p) /\ Live(o)
        BY <1>0, <2>0, <2>3 DEF OwnerOK
      <3>1. CASE p = o
        BY <1>0, <1>2, <2>3, <3>0, <3>1 DEF Live
      <3>2. CASE p # o
        <4>1. At(p) # a
          <5>1. CASE a \in Addrs
            BY <1>0, <2>0, <3>0, <3>2, <5>1, OneOwner
          <5>2. CASE a \notin Addrs
            BY <3>0, <3>2, <5>2 DEF Live
          <5> QED BY <5>1, <5>2
        <4> QED BY <1>0, <1>2, <1>3, <3>0, <4>1 DEF Live
      <3> QED BY <3>1, <3>2
    <2>4. cmd'.todo = {} \/ cmd'.op = "recover"
      OBVIOUS
    <2> QED BY <1>0, <2>1, <2>2, <2>3, <2>4 DEF OwnerOK, ObligationKeepsIdentity
  <1>9. ASSUME NEW p \in Objs
        PROVE  ObjOK(p)'
    <2>0. ObjOK(p)
      BY DEF TrackInv
    <2>1. CASE p = o
      <3>1. a \in Addrs =>
              /\ r.proof => Quiet(a)'
              /\ r.task.kind = "start" => ~r.proof
              /\ r.task.at = "writing" /\ air'[a] # <<>>
                   => air'[a][Len(air'[a])] = [o |-> o, kind |-> r.task.kind]
              /\ r.task.at = "acked" /\ r.task.kind = "stop" => PhysicallyStopped(a)'
              /\ ~r.client => ~Stopped(a)'
              /\ r.client /\ ~r.conn => a \notin link'
        BY <1>5, <1>6, <2>0, <2>1 DEF ObjOK
      <3> QED BY <1>1, <1>2, <2>0, <2>1, <3>1 DEF ObjOK
    <2>2. CASE p # o
      <3>1. obj'[p] = obj[p]
        BY <1>1, <2>2
      <3>2. SUFFICES ASSUME Live(p)', At(p) \in Addrs
                     PROVE  /\ obj[p].proof => Quiet(At(p))'
                            /\ obj[p].task.kind = "start" => ~obj[p].proof
                            /\ obj[p].task.at = "writing" /\ air'[At(p)] # <<>>
                                 => air'[At(p)][Len(air'[At(p)])] = [o |-> p, kind |-> obj[p].task.kind]
                            /\ obj[p].task.at = "acked" /\ obj[p].task.kind = "stop" => PhysicallyStopped(At(p))'
                            /\ ~obj[p].client => ~Stopped(At(p))'
                            /\ obj[p].client /\ ~obj[p].conn => At(p) \notin link'
        BY <1>2, <2>0, <3>1 DEF ObjOK
      <3>3. Live(p) /\ At(p) # a
        BY <1>7, <2>2, <3>2
      <3> PICK b \in Addrs : b = At(p) /\ b # a
        BY <3>2, <3>3
      <3>4. At(p)' = b
        BY <1>2
      <3> QED BY <1>4, <2>0, <3>3, <3>4 DEF ObjOK
    <2> QED BY <2>1, <2>2
  <1>10. ASSUME NEW b \in Addrs
         PROVE  AirOK(b)'
    <2>0. AirOK(b)
      BY DEF TrackInv
    <2>1. CASE b = a
      BY <1>0, <2>0, <2>1, EmptyAir DEF AirOK
    <2>2. CASE b # a
      BY <1>0, <2>0, <2>2 DEF AirOK
    <2> QED BY <2>1, <2>2
  <1>11. ASSUME NEW b \in Addrs
         PROVE  Tracked(b)'
    <2>0. Tracked(b) /\ OwnerOK
      BY DEF TrackInv
    <2>1. CASE b = a
      <3> SUFFICES ASSUME ~Quiet(a)'
                   PROVE  \/ (oblig'[a] \in Objs /\ obj'[oblig'[a]].pending)
                          \/ (At(cur)' = a /\ obj'[cur'].pending)
        BY <2>1 DEF Tracked
      <3>1. ~Quiet(a) /\ Live(o)
        BY <1>5, <1>6, <2>1
      <3>2. obj[o].pending
        BY <1>0, <2>0, <2>1, <3>1, OwnerPending
      <3>3. r.pending
        BY <2>1, <3>1, <3>2
      <3>4. CASE o = cur
        BY <1>0, <1>1, <1>2, <3>3, <3>4
      <3>5. CASE o # cur
        <4>1. oblig[a] = o
          BY <3>1, <3>5 DEF Live
        <4>2. oblig'[a] = o
          BY <1>0, <2>1, <3>1, <4>1
        <4> QED BY <1>1, <3>3, <4>2
      <3> QED BY <3>4, <3>5
    <2>2. CASE b # a
      <3>1. oblig'[b] = oblig[b] /\ b \in Keys
        BY <1>0, <2>2 DEF Keys
      <3>2. oblig[b] \in Objs => obj'[oblig[b]] = obj[oblig[b]]
        BY <1>1, <2>0, <2>2, <3>1 DEF OwnerOK, ObligationKeepsIdentity
      <3>3. At(cur) = b => obj'[cur] = obj[cur]
        BY <1>0, <1>1, <2>2
      <3> QED BY <1>0, <1>2, <1>4, <2>0, <2>2, <3>1, <3>2, <3>3 DEF Tracked
    <2> QED BY <2>1, <2>2
  <1>12. ASSUME NEW b \in Addrs
         PROVE  StopOwed(b)'
    <2>0. StopOwed(b)
      BY DEF TrackInv
    <2>1. CASE b = a
      BY <2>1
    <2>2. CASE b # a
      <3>1. oblig'[b] = oblig[b] /\ b \in Keys
        BY <1>0, <2>2 DEF Keys
      <3>2. At(cur) = b => obj'[cur] = obj[cur] /\ o # cur
        BY <1>0, <1>1, <2>2
      <3> QED BY <1>0, <1>2, <1>4, <2>0, <2>2, <3>1, <3>2 DEF StopOwed
    <2> QED BY <2>1, <2>2
  <1> QED BY <1>8, <1>9, <1>10, <1>11, <1>12 DEF TrackInv

\* The same, when the devices, their links and their queues stay as they are.
LEMMA CalmTrack ==
  ASSUME IInv, TrackInv, NEW o \in Objs, NEW r \in Objects, Set(o, r), NEW a, a = At(o),
         UNCHANGED <<meas, link, air, lost, cur>>, o = cur \/ Live(o), o # cur => cmd.o # cur,
         r.addr = obj[o].addr, r.client = obj[o].client,
         r.client /\ ~r.conn => ~obj[o].conn \/ a \notin link,
         r.task.at \in {"writing", "acked"} => r.task.at = obj[o].task.at /\ r.task.kind = obj[o].task.kind,
         r.task.kind = "start" => obj[o].task.kind = "start", r.proof => obj[o].proof,
         a \in Addrs => r.pending \/ ~obj[o].pending \/ Quiet(a),
         \/ oblig' = oblig
         \/ oblig' = [oblig EXCEPT ![a] = o]
         \/ oblig' = [oblig EXCEPT ![a] = None] /\ (a \in Addrs => Quiet(a)),
         cmd'.todo \subseteq cmd.todo, cmd'.todo # {} => Live(o) /\ cmd'.op = "recover",
         o \in cmd'.todo => oblig' = oblig,
         PhaseOK', a \in Addrs => StopOwed(a)'
  PROVE  TrackInv'
  <1>0. oblig \in [Keys -> Objs \cup {None, Unknown}] /\ a \in Keys
    BY Fields DEF IInv, TypesOK, At
  <1>1. /\ \A k \in Keys : k # a => oblig'[k] = oblig[k]
        /\ oblig'[a] \in {oblig[a], o, None}
        /\ a \in Addrs /\ oblig'[a] = None => oblig[a] = None \/ Quiet(a)
    BY <1>0, SlotAssumption
  <1>2. a \in Addrs => AirOK(a)
    BY DEF TrackInv
  <1>3. a \in Addrs => /\ air'[a] = air[a] \/ air'[a] = <<>>
                       /\ air'[a] # <<>> => a \in link'
                       /\ a \in link' => a \notin lost
    BY <1>2 DEF AirOK
  <1> QED BY <1>1, <1>3, ObjectTrack

\* Between two commands, only a recording constrains the configured sensor.
LEMMA IdlePhase ==
  ASSUME cmd' = Idle,
         streaming' => obj'[cur'].task.kind # "stop" /\ obj'[cur'].worker.kind # "stop"
  PROVE  PhaseOK' /\ cmd'.todo = {}
  BY Blank DEF PhaseOK, Stopping

\* A command has ended without touching the devices.
LEMMA EndTrack ==
  ASSUME IInv, TrackInv, NEW r \in Objects, Set(cur, r),
         UNCHANGED <<meas, link, air, lost, cur>>, cmd' = Idle,
         r.addr = obj[cur].addr, r.client = obj[cur].client, r.conn = obj[cur].conn,
         r.task.at = obj[cur].task.at, r.task.kind = obj[cur].task.kind, r.proof = obj[cur].proof,
         r.pending \/ ~obj[cur].pending \/ Quiet(At(cur)),
         oblig' = oblig \/ oblig' = Oblige(cur),
         streaming' => r.task.kind # "stop" /\ r.worker.kind # "stop",
         At(cur) \in Addrs /\ Stopped(At(cur)) => r.quar \/ oblig' = Oblige(cur) \/ oblig[At(cur)] # None
  PROVE  TrackInv'
  <1>0. cur \in Objs /\ oblig \in [Keys -> Objs \cup {None, Unknown}] /\ obj[cur] \in Objects
    BY DEF IInv, TypesOK
  <1>1. PICK a \in Keys : a = At(cur)
    BY <1>0, Fields DEF At
  <1>2. obj' \in [Objs -> Objects] /\ obj'[cur] = r
    BY <1>0, SetMoves DEF IInv, TypesOK
  <1>3. PhaseOK' /\ cmd'.todo = {}
    BY <1>2, IdlePhase
  <1>4. a \in Addrs => StopOwed(a)'
    <2> SUFFICES ASSUME a \in Addrs, Stopped(a)'
                 PROVE  oblig'[a] # None \/ (At(cur)' = a /\ obj'[cur'].quar)
      BY DEF StopOwed
    <2>1. Stopped(a)
      BY SameAir
    <2>2. At(cur)' = a
      BY <1>1, <1>2 DEF At
    <2>3. oblig' = Oblige(cur) => oblig'[a] = cur
      BY <1>0, <1>1 DEF Oblige
    <2> QED BY <1>0, <1>1, <1>2, <2>1, <2>2, <2>3, SlotAssumption DEF Oblige
  <1>5. oblig' = oblig \/ oblig' = [oblig EXCEPT ![a] = cur]
    BY <1>1 DEF Oblige
  <1>6. r.pending \/ ~obj[cur].pending \/ Quiet(a)
    BY <1>1
  <1> QED BY <1>0, <1>1, <1>3, <1>4, <1>5, <1>6, CalmTrack

\* A command about the configured sensor begins without touching the devices.
LEMMA BeginTrack ==
  ASSUME IInv, TrackInv, NEW r \in Objects, Set(cur, r), cmd = Idle,
         UNCHANGED <<meas, link, air, lost, cur, oblig>>,
         NEW op \in Sequential, NEW pc \in Pcs, Begin(op, pc, cur),
         r.addr = obj[cur].addr, r.client = obj[cur].client, r.quar = obj[cur].quar,
         obj[cur].conn => r.conn,
         r.task.at = obj[cur].task.at, r.task.kind = obj[cur].task.kind, r.proof = obj[cur].proof,
         obj[cur].pending => r.pending, pc # "ok", pc = "retire" => ~r.conn,
         op = "start" => r.pending /\ At(cur) \in Addrs /\ ~Stopped(At(cur)),
         op \in Stopping => ~streaming',
         streaming' \/ op = "start" => r.task.kind # "stop" /\ r.worker.kind # "stop"
  PROVE  TrackInv'
  <1>0. /\ cur \in Objs /\ oblig \in [Keys -> Objs \cup {None, Unknown}] /\ obj[cur] \in Objects
        /\ cmd \in Commands /\ op \in Ops
    BY DEF IInv, TypesOK, Ops
  <1>1. PICK a \in Keys : a = At(cur)
    BY <1>0, Fields DEF At
  <1>2. obj' \in [Objs -> Objects] /\ obj'[cur] = r
    BY <1>0, SetMoves DEF IInv, TypesOK
  <1>3. cmd'.op = op /\ cmd'.pc = pc /\ cmd'.o = cur /\ cmd'.todo = {}
    BY <1>0, CommandMoves
  <1>a. At(cur)' = a
    BY <1>1, <1>2 DEF At
  <1>b. /\ Stopped(a)' <=> Stopped(a)
        /\ PhysicallyStopped(a)' <=> PhysicallyStopped(a)
    BY SameAir
  <1>4. PhaseOK'
    BY <1>0, <1>1, <1>2, <1>3, <1>a, <1>b DEF PhaseOK, Sequential
  <1>5. a \in Addrs => StopOwed(a)'
    <2> SUFFICES ASSUME a \in Addrs, Stopped(a)'
                 PROVE  oblig'[a] # None \/ (At(cur)' = a /\ obj'[cur'].quar)
      BY DEF StopOwed
    <2>1. StopOwed(a)
      BY DEF TrackInv
    <2> QED BY <1>0, <1>1, <1>2, <1>a, <1>b, <2>1, Blank DEF StopOwed, Stopping
  <1>6. r.pending \/ ~obj[cur].pending \/ Quiet(a)
    OBVIOUS
  <1> QED BY <1>0, <1>1, <1>3, <1>4, <1>5, <1>6, CalmTrack


\* Between two commands, a STOP on its way is owed or its sensor is quarantined.
LEMMA IdleStops ==
  ASSUME TrackInv, cmd.op \notin Stopping, At(cur) \in Addrs, Stopped(At(cur))
  PROVE  oblig[At(cur)] # None \/ obj[cur].quar
  BY DEF TrackInv, StopOwed

\* What a command of the loop is about, and what it needs of the types.
LEMMA Configured ==
  ASSUME IInv
  PROVE  /\ cur \in Objs /\ obj[cur] \in Objects /\ At(cur) \in Keys /\ cmd \in Commands
         /\ cmd.op \in Sequential => cmd.o = cur
         /\ cmd.pc \notin {"-", "next"} => cmd.o \in Objs
         /\ cmd = Idle => /\ cmd.op = "idle" /\ cmd.pc = "-" /\ cmd.o = None /\ cmd.o # cur
                          /\ Late(obj[cur]) => obj[cur].quar
  <1>1. cur \in Objs /\ obj[cur] \in Objects /\ cmd \in Commands
    BY DEF IInv, TypesOK
  <1>2. At(cur) \in Keys
    BY <1>1, Fields DEF At
  <1>3. cmd.pc \notin {"-", "next"} => cmd.o \in Objs
    BY <1>1 DEF IInv, LateInv, PlaceOK, Commands, Pcs
  <1>4. cmd = Idle => /\ cmd.op = "idle" /\ cmd.pc = "-" /\ cmd.o = None /\ cmd.o # cur
                      /\ Late(obj[cur]) => obj[cur].quar
    BY <1>1, Blank, SlotAssumption DEF IInv, LateInv, LateOK
  <1> QED BY <1>1, <1>2, <1>3, <1>4 DEF IInv, LateInv, PlaceOK

\* A START is made of a sensor that no STOP can reach any more.
LEMMA StartTrack ==
  ASSUME IInv, TrackInv, Start
  PROVE  TrackInv'
  <1>0. cur \in Objs /\ obj[cur] \in Objects /\ cmd = Idle /\ cmd.op = "idle" /\ At(cur) \in Addrs
    BY Configured, Blank DEF Start, Keys
  <1>1. ~obj[cur].quar /\ oblig[At(cur)] = None
    BY DEF Start, Usable
  <1>2. ~Stopped(At(cur))
    BY <1>0, <1>1, IdleStops DEF Stopping
  <1>3. obj[cur].worker.kind = "none" /\ obj[cur].task.kind = "none"
    BY <1>0, <1>1, Configured DEF Late
  <1> DEFINE r == [obj[cur] EXCEPT !.pending = TRUE]
             l == Launch(r, "start")
  <1>4. /\ r \in Objects /\ r.addr = obj[cur].addr /\ r.client = obj[cur].client
        /\ r.conn = obj[cur].conn /\ r.quar = obj[cur].quar /\ r.task = obj[cur].task
        /\ r.proof = obj[cur].proof /\ r.pending /\ r.worker = obj[cur].worker
    BY <1>0 DEF Objects, Records
  <1>5. Set(cur, l) /\ Begin("start", "await", cur)
    BY <1>3, <1>4 DEF Start
  <1> HIDE DEF r
  <1>6. l \in Objects /\ l.worker.kind = "start" /\ l = [r EXCEPT !.worker = l.worker]
    BY <1>4, LaunchFields DEF Kinds
  <1> HIDE DEF l
  <1>7. /\ l.addr = r.addr /\ l.client = r.client /\ l.conn = r.conn /\ l.quar = r.quar
        /\ l.task = r.task /\ l.proof = r.proof /\ l.pending = r.pending
    BY <1>4, <1>6 DEF Objects, Records
  <1>8. UNCHANGED <<meas, link, air, lost, cur, oblig>>
    BY DEF Start, Physical
  <1>9. "start" \in Sequential /\ "await" \in Pcs /\ "start" \notin Stopping
    BY DEF Sequential, Pcs, Stopping
  <1>10. l.addr = obj[cur].addr /\ l.client = obj[cur].client /\ l.quar = obj[cur].quar
         /\ (obj[cur].conn => l.conn) /\ l.task.at = obj[cur].task.at /\ l.task.kind = obj[cur].task.kind
         /\ l.proof = obj[cur].proof /\ l.pending /\ l.task.kind # "stop" /\ l.worker.kind # "stop"
    BY <1>3, <1>4, <1>6, <1>7
  <1> QED BY <1>0, <1>2, <1>5, <1>6, <1>8, <1>9, <1>10, BeginTrack

\* A setup or START ends.
LEMMA LifecycleEndsTrack ==
  ASSUME IInv, TrackInv, LifecycleEnds
  PROVE  TrackInv'
  <1>0. /\ cur \in Objs /\ obj[cur] \in Objects /\ cmd.o = cur /\ cmd.op \notin Stopping
        /\ cmd' = Idle /\ UNCHANGED <<meas, link, air, lost, cur, oblig>>
    BY Configured DEF LifecycleEnds, Sequential, Stopping, End, Physical
  <1> DEFINE r == [obj[cmd.o] EXCEPT !.quar = (@ \/ cmd.pc = "fail")]
  <1>1. /\ r \in Objects /\ r.addr = obj[cur].addr /\ r.client = obj[cur].client
        /\ r.conn = obj[cur].conn /\ r.task = obj[cur].task /\ r.worker = obj[cur].worker
        /\ r.proof = obj[cur].proof /\ r.pending = obj[cur].pending
        /\ obj[cur].quar => r.quar
    BY <1>0 DEF Objects, Records
  <1>2. Set(cur, r)
    BY <1>0 DEF LifecycleEnds
  <1> HIDE DEF r
  <1>3. streaming' => r.task.kind # "stop" /\ r.worker.kind # "stop"
    BY <1>1 DEF LifecycleEnds, TrackInv, PhaseOK
  <1>4. At(cur) \in Addrs /\ Stopped(At(cur)) => oblig[At(cur)] # None \/ r.quar
    BY <1>0, <1>1, IdleStops
  <1>5. r.pending \/ ~obj[cur].pending
    BY <1>1
  <1> QED BY <1>0, <1>1, <1>2, <1>3, <1>4, <1>5, EndTrack

\* The deadline of a setup or START.
LEMMA LifecycleTimesOutTrack ==
  ASSUME IInv, TrackInv, LifecycleTimesOut
  PROVE  TrackInv'
  <1>0. /\ cur \in Objs /\ obj[cur] \in Objects /\ cmd.o = cur
        /\ cmd' = Idle /\ UNCHANGED <<meas, link, air, lost, cur, oblig, streaming>>
    BY Configured DEF LifecycleTimesOut, Sequential, End, Physical
  <1> DEFINE q == [Expire(obj[cmd.o]) EXCEPT !.quar = TRUE]
  <1>1. /\ q \in Objects /\ q.quar /\ q.task.kind = obj[cur].task.kind /\ q.task.at = obj[cur].task.at
        /\ q.worker.kind = obj[cur].worker.kind /\ q.addr = obj[cur].addr
        /\ q.pending = obj[cur].pending /\ q.client = obj[cur].client /\ q.conn = obj[cur].conn
        /\ q.proof = obj[cur].proof
    BY <1>0, ExpiredQuarantined
  <1>2. Set(cur, q)
    BY <1>0 DEF LifecycleTimesOut
  <1> HIDE DEF q
  <1>3. streaming' => q.task.kind # "stop" /\ q.worker.kind # "stop"
    BY <1>0, <1>1 DEF TrackInv, PhaseOK
  <1>5. q.pending \/ ~obj[cur].pending
    BY <1>1
  <1> QED BY <1>0, <1>1, <1>2, <1>3, <1>5, EndTrack


\* A quarantine changes nothing else.
LEMMA QuarantinedFields ==
  ASSUME NEW r \in Objects
  PROVE  LET q == [r EXCEPT !.quar = TRUE] IN
         /\ q \in Objects /\ q.quar /\ q.task = r.task /\ q.worker = r.worker /\ q.addr = r.addr
         /\ q.pending = r.pending /\ q.client = r.client /\ q.conn = r.conn /\ q.proof = r.proof
  BY DEF Objects, Records

\* A launched call changes the worker only.
LEMMA LaunchKeeps ==
  ASSUME NEW r \in Objects, NEW kind \in Kinds
  PROVE  LET l == Launch(r, kind) IN
         /\ l \in Objects /\ l.worker.kind = kind /\ l.quar = r.quar /\ l.task = r.task
         /\ l.addr = r.addr /\ l.pending = r.pending /\ l.client = r.client /\ l.conn = r.conn
         /\ l.proof = r.proof
  <1> DEFINE l == Launch(r, kind)
  <1>1. l \in Objects /\ l.worker.kind = kind /\ l = [r EXCEPT !.worker = l.worker]
    BY LaunchFields
  <1> HIDE DEF l
  <1>2. /\ l \in Objects /\ l.worker.kind = kind /\ l.quar = r.quar /\ l.task = r.task
        /\ l.addr = r.addr /\ l.pending = r.pending /\ l.client = r.client /\ l.conn = r.conn
        /\ l.proof = r.proof
    BY <1>1 DEF Objects, Records
  <1> QED BY <1>2 DEF l

\* stop_all: what is not asked to stop is owed.
LEMMA StopTrack ==
  ASSUME IInv, TrackInv, Stop
  PROVE  TrackInv'
  <1>0. /\ cur \in Objs /\ obj[cur] \in Objects /\ cmd = Idle /\ cmd.op = "idle" /\ ~streaming'
        /\ UNCHANGED <<meas, link, air, lost, cur>>
    BY Configured DEF Stop, Physical
  <1>1. CASE UNCHANGED <<obj, cmd>> /\ (oblig' = Oblige(cur) \/ oblig' = oblig)
    <2>1. Set(cur, obj[cur])
      BY <1>0, <1>1, SetSelf
    <2>2. At(cur) \in Addrs /\ Stopped(At(cur)) => oblig[At(cur)] # None \/ obj[cur].quar
      BY <1>0, IdleStops DEF Stopping
    <2>3. obj[cur].pending \/ ~obj[cur].pending
      OBVIOUS
    <2> QED BY <1>0, <1>1, <2>1, <2>2, <2>3, EndTrack
  <1>2. CASE Set(cur, [obj[cur] EXCEPT !.quar = TRUE]) /\ oblig' = Oblige(cur) /\ UNCHANGED cmd
    <2> DEFINE q == [obj[cur] EXCEPT !.quar = TRUE]
    <2>1. /\ q \in Objects /\ q.quar /\ q.task = obj[cur].task /\ q.worker = obj[cur].worker
          /\ q.addr = obj[cur].addr /\ q.pending = obj[cur].pending /\ q.client = obj[cur].client
          /\ q.conn = obj[cur].conn /\ q.proof = obj[cur].proof
      BY <1>0, QuarantinedFields
    <2>2. Set(cur, q)
      BY <1>2
    <2> HIDE DEF q
    <2>3. q.pending \/ ~obj[cur].pending
      BY <2>1
    <2> QED BY <1>0, <1>2, <2>1, <2>2, <2>3, EndTrack
  <1>3. CASE Set(cur, Launch(obj[cur], "stop")) /\ Begin("stop", "await", cur) /\ UNCHANGED oblig
    <2> DEFINE l == Launch(obj[cur], "stop")
    <2>1. /\ l \in Objects /\ l.quar = obj[cur].quar /\ l.task = obj[cur].task
          /\ l.addr = obj[cur].addr /\ l.pending = obj[cur].pending /\ l.client = obj[cur].client
          /\ l.conn = obj[cur].conn /\ l.proof = obj[cur].proof
      BY <1>0, LaunchKeeps DEF Kinds
    <2>2. Set(cur, l)
      BY <1>3
    <2> HIDE DEF l
    <2>3. "stop" \in Sequential /\ "await" \in Pcs
      BY DEF Sequential, Pcs
    <2> QED BY <1>0, <1>3, <2>1, <2>2, <2>3, BeginTrack
  <1> QED BY <1>1, <1>2, <1>3 DEF Stop

\* A STOP ends: only a confirmed one clears the pending measurement.
LEMMA StopEndsTrack ==
  ASSUME IInv, TrackInv, StopEnds
  PROVE  TrackInv'
  <1>0. /\ cur \in Objs /\ obj[cur] \in Objects /\ cmd.o = cur /\ cmd' = Idle
        /\ UNCHANGED <<meas, link, air, lost, cur, streaming>>
    BY Configured DEF StopEnds, Sequential, End, Physical
  <1>1. ~streaming'
    BY <1>0 DEF StopEnds, TrackInv, PhaseOK, Stopping
  <1>2. CASE cmd.pc = "ok"
    <2> DEFINE q == StopConfirmed(obj[cur])
    <2>1. /\ q \in Objects /\ q.task = obj[cur].task /\ q.addr = obj[cur].addr
          /\ q.client = obj[cur].client /\ q.conn = obj[cur].conn /\ q.proof = obj[cur].proof
      BY <1>0, StopConfirmedFields
    <2>2. Set(cur, q) /\ oblig' = oblig
      BY <1>0, <1>2 DEF StopEnds
    <2> HIDE DEF q
    <2>3. PhysicallyStopped(At(cur))
      BY <1>0, <1>2 DEF StopEnds, TrackInv, PhaseOK, Stopping
    <2>4. Quiet(At(cur)) /\ ~Stopped(At(cur))
      BY <2>3, PhysicallyQuiet
    <2> QED BY <1>0, <1>1, <2>1, <2>2, <2>4, EndTrack
  <1>3. CASE cmd.pc # "ok"
    <2>1. oblig' = Oblige(cur) /\ obj' = obj
      BY <1>0, <1>3 DEF StopEnds
    <2>2. Set(cur, obj[cur])
      BY <1>0, <2>1, SetSelf
    <2>3. obj[cur].pending \/ ~obj[cur].pending
      OBVIOUS
    <2> QED BY <1>0, <1>1, <2>1, <2>2, <2>3, EndTrack
  <1> QED BY <1>2, <1>3

\* The deadline of a STOP.
LEMMA StopTimesOutTrack ==
  ASSUME IInv, TrackInv, StopTimesOut
  PROVE  TrackInv'
  <1>0. /\ cur \in Objs /\ obj[cur] \in Objects /\ cmd.o = cur /\ cmd' = Idle
        /\ oblig' = Oblige(cur) /\ UNCHANGED <<meas, link, air, lost, cur, streaming>>
    BY Configured DEF StopTimesOut, Running, Sequential, End, Physical
  <1>1. ~streaming'
    BY <1>0 DEF StopTimesOut, Running, TrackInv, PhaseOK, Stopping
  <1> DEFINE q == [Expire(obj[cmd.o]) EXCEPT !.quar = TRUE]
  <1>2. /\ q \in Objects /\ q.quar /\ q.task.kind = obj[cur].task.kind /\ q.task.at = obj[cur].task.at
        /\ q.addr = obj[cur].addr
        /\ q.pending = obj[cur].pending /\ q.client = obj[cur].client /\ q.conn = obj[cur].conn
        /\ q.proof = obj[cur].proof
    BY <1>0, ExpiredQuarantined
  <1>3. Set(cur, q)
    BY <1>0 DEF StopTimesOut
  <1> HIDE DEF q
  <1>4. q.pending \/ ~obj[cur].pending
    BY <1>2
  <1> QED BY <1>0, <1>1, <1>2, <1>3, <1>4, EndTrack

\* Core gives up waiting for the STOP.
LEMMA CoreGivesUpTrack ==
  ASSUME IInv, TrackInv, CoreGivesUp
  PROVE  TrackInv'
  <1>0. /\ cur \in Objs /\ obj[cur] \in Objects /\ cmd.o = cur /\ cmd' = cmd /\ cmd.op = "stop"
        /\ UNCHANGED <<meas, link, air, lost, cur, streaming, oblig>>
    BY Configured DEF CoreGivesUp, Sequential, Physical
  <1>1. cmd.todo = {} /\ cmd.pc # "retire"
    BY <1>0 DEF TrackInv, OwnerOK, IInv, LateInv, PlaceOK
  <1> DEFINE q == [obj[cur] EXCEPT !.quar = TRUE]
  <1>2. /\ q \in Objects /\ q.quar /\ q.task = obj[cur].task /\ q.worker = obj[cur].worker
        /\ q.addr = obj[cur].addr /\ q.pending = obj[cur].pending /\ q.client = obj[cur].client
        /\ q.conn = obj[cur].conn /\ q.proof = obj[cur].proof
    BY <1>0, QuarantinedFields
  <1>3. Set(cur, q)
    BY DEF CoreGivesUp
  <1> HIDE DEF q
  <1>4. PICK a \in Keys : a = At(cur)
    BY Configured
  <1>5. obj'[cur] = q /\ At(cur)' = a
    BY <1>0, <1>2, <1>3, <1>4, SetMoves DEF IInv, TypesOK, At
  <1>6. PhysicallyStopped(a)' <=> PhysicallyStopped(a)
    BY <1>0, SameAir
  <1>7. PhaseOK'
    BY <1>0, <1>1, <1>2, <1>4, <1>5, <1>6 DEF TrackInv, PhaseOK, At
  <1>8. StopOwed(a)'
    BY <1>0, <1>2, <1>5 DEF StopOwed
  <1>9. q.pending \/ ~obj[cur].pending
    BY <1>2
  <1> QED BY <1>0, <1>1, <1>2, <1>3, <1>4, <1>7, <1>8, <1>9, CalmTrack


\* A command links the device of its object again.
LEMMA RelinkTrack ==
  ASSUME IInv, TrackInv, NEW o \in Objs, NEW r \in Objects, Set(o, r), NEW a, a = At(o),
         obj[o].client, Relink(o), UNCHANGED <<meas, air, lost, cur, oblig>>,
         o = cur \/ Live(o), o # cur => cmd.o # cur,
         r.addr = obj[o].addr, r.client = obj[o].client, r.conn, r.task = obj[o].task,
         r.proof => obj[o].proof, a \in Addrs => r.pending \/ ~obj[o].pending \/ Quiet(a),
         cmd'.todo \subseteq cmd.todo, cmd'.todo # {} => Live(o) /\ cmd'.op = "recover",
         PhaseOK', StopOwed(a)'
  PROVE  TrackInv'
  <1>1. a \in Addrs /\ oblig \in [Keys -> Objs \cup {None, Unknown}]
    BY Fields DEF At, IInv, TypesOK
  <1>2. link' = link \cup {a} /\ a \notin lost
    BY DEF Relink, LinkUp
  <1>3. oblig'[a] \in {oblig[a], o, None} /\ (oblig'[a] = None => oblig[a] = None)
    BY <1>1
  <1> QED BY <1>1, <1>2, <1>3, ObjectTrack

\* The phases of a command about the configured sensor, just begun.
LEMMA BegunPhase ==
  ASSUME IInv, cmd = Idle, cur' = cur, NEW op \in Sequential \ {"start"}, Begin(op, "await", cur),
         op \in Stopping => ~streaming',
         streaming' => obj'[cur].task.kind # "stop" /\ obj'[cur].worker.kind # "stop"
  PROVE  PhaseOK' /\ cmd'.todo = {} /\ cmd'.o = cur /\ cmd'.op = op /\ cmd'.pc = "await"
  <1>1. cmd'.op = op /\ cmd'.pc = "await" /\ cmd'.o = cur /\ cmd'.todo = {}
    BY Configured, CommandMoves DEF Ops, Pcs
  <1> QED BY <1>1 DEF PhaseOK, Sequential

\* connect_to_device and set_up_sensor.
LEMMA ConnectTrack ==
  ASSUME IInv, TrackInv, Connect
  PROVE  TrackInv'
  <1>0. /\ cur \in Objs /\ obj[cur] \in Objects /\ cmd = Idle /\ cmd.op = "idle" /\ obj[cur].client
        /\ Relink(cur) /\ UNCHANGED <<meas, air, lost, cur, oblig, streaming>> /\ cmd.todo = {}
    BY Configured, Blank DEF Connect
  <1>1. PICK a \in Addrs : a = At(cur)
    BY <1>0, Fields DEF At
  <1> DEFINE Kept(r) == /\ r \in Objects /\ r.addr = obj[cur].addr /\ r.client = obj[cur].client /\ r.conn
                        /\ r.task = obj[cur].task /\ r.proof = obj[cur].proof
                        /\ r.pending = obj[cur].pending /\ r.quar = obj[cur].quar
  <1>2. ASSUME NEW r, Kept(r), Set(cur, r), r.worker = obj[cur].worker \/ r.worker.kind = "setup",
               PhaseOK', cmd'.todo = {}
        PROVE  TrackInv'
    <2>1. obj'[cur] = r
      BY <1>0, <1>2, SetMoves DEF IInv, TypesOK
    <2>2. At(cur)' = a
      BY <1>0, <1>1, <1>2, <2>1 DEF At
    <2>3. Stopped(a)' <=> Stopped(a)
      BY <1>0, SameAir
    <2>4. StopOwed(a)'
      BY <1>0, <1>1, <1>2, <2>1, <2>2, <2>3, IdleStops DEF StopOwed, Stopping
    <2>5. r.pending \/ ~obj[cur].pending
      BY <1>2
    <2> QED BY <1>0, <1>1, <1>2, <2>4, <2>5, RelinkTrack
  <1>3. streaming => obj[cur].task.kind # "stop" /\ obj[cur].worker.kind # "stop"
    BY DEF TrackInv, PhaseOK
  <1>4. ASSUME NEW r, Kept(r), Set(cur, r), r.worker = obj[cur].worker, UNCHANGED cmd
        PROVE  TrackInv'
    <2>1. obj'[cur] = r
      BY <1>0, <1>4, SetMoves DEF IInv, TypesOK
    <2>2. PhaseOK' /\ cmd'.todo = {}
      BY <1>0, <1>3, <1>4, <2>1, IdlePhase
    <2> QED BY <1>2, <1>4, <2>2
  <1>5. ASSUME NEW r, Kept(r), Set(cur, Launch(r, "setup")), Begin("connect", "await", cur)
        PROVE  TrackInv'
    <2> DEFINE l == Launch(r, "setup")
    <2>1. /\ l \in Objects /\ l.worker.kind = "setup" /\ l.quar = r.quar /\ l.task = r.task
          /\ l.addr = r.addr /\ l.pending = r.pending /\ l.client = r.client /\ l.conn = r.conn
          /\ l.proof = r.proof
      BY <1>5, LaunchKeeps DEF Kinds
    <2>2. Set(cur, l)
      BY <1>5
    <2> HIDE DEF l
    <2>3. obj'[cur] = l
      BY <1>0, <2>1, <2>2, SetMoves DEF IInv, TypesOK
    <2>4. "connect" \in Sequential \ {"start"} /\ "connect" \notin Stopping
      BY DEF Sequential, Stopping
    <2>5. PhaseOK' /\ cmd'.todo = {}
      BY <1>0, <1>3, <1>5, <2>1, <2>3, <2>4, BegunPhase
    <2>6. Kept(l)
      BY <1>5, <2>1
    <2> QED BY <1>2, <2>1, <2>2, <2>5, <2>6
  <1>6. CASE Set(cur, [obj[cur] EXCEPT !.conn = TRUE]) /\ UNCHANGED cmd
    <2> DEFINE q == [obj[cur] EXCEPT !.conn = TRUE]
    <2>1. Kept(q) /\ q.worker = obj[cur].worker
      BY <1>0 DEF Objects, Records
    <2> QED BY <1>4, <1>6, <2>1
  <1>7. CASE SetUpSensor(CountsConnected(obj[cur]))
    <2> DEFINE q == CountsConnected(obj[cur])
    <2>1. Kept(q) /\ q.worker = obj[cur].worker
      BY <1>0 DEF CountsConnected, Objects, Records
    <2> HIDE DEF Kept
    <2> QED BY <1>4, <1>5, <1>7, <2>1 DEF SetUpSensor
  <1> QED BY <1>6, <1>7 DEF Connect

\* A cleanup begins.
LEMMA CleanupTrack ==
  ASSUME IInv, TrackInv, Cleanup
  PROVE  TrackInv'
  <1>0. /\ cur \in Objs /\ obj[cur] \in Objects /\ cmd = Idle /\ cmd.op = "idle" /\ ~streaming'
        /\ UNCHANGED <<meas, air, lost, cur>> /\ cmd.todo = {} /\ At(cur) \in Addrs
    BY Configured, Blank DEF Cleanup, At, Keys
  <1>1. CASE oblig' = Oblige(cur) /\ UNCHANGED <<obj, cmd, link, reg>>
    <2>1. Set(cur, obj[cur])
      BY <1>0, <1>1, SetSelf
    <2>3. obj[cur].pending \/ ~obj[cur].pending
      OBVIOUS
    <2> QED BY <1>0, <1>1, <2>1, <2>3, EndTrack
  <1> DEFINE r == [obj[cur] EXCEPT !.conn = TRUE, !.status = (@ \/ ~obj[cur].conn)]
             l == Launch(r, "stop")
  <1>2. ASSUME obj[cur].conn \/ obj[cur].client,
               IF obj[cur].conn THEN UNCHANGED <<link, reg>> ELSE Relink(cur),
               Set(cur, l), Begin("cleanup", "await", cur), UNCHANGED oblig
        PROVE  TrackInv'
    <2>1. /\ r \in Objects /\ r.addr = obj[cur].addr /\ r.client = obj[cur].client /\ r.conn
          /\ r.task = obj[cur].task /\ r.proof = obj[cur].proof
          /\ r.pending = obj[cur].pending /\ r.quar = obj[cur].quar
      BY <1>0 DEF Objects, Records
    <2>2. /\ l \in Objects /\ l.quar = r.quar /\ l.task = r.task
          /\ l.addr = r.addr /\ l.pending = r.pending /\ l.client = r.client /\ l.conn = r.conn
          /\ l.proof = r.proof
      <3> HIDE DEF r
      <3> QED BY <2>1, LaunchKeeps DEF Kinds
    <2> HIDE DEF r, l
    <2>3. "cleanup" \in Sequential \ {"start"} /\ "await" \in Pcs /\ "cleanup" \in Stopping
      BY DEF Sequential, Pcs, Stopping
    <2>4. CASE obj[cur].conn
      BY <1>0, <1>2, <2>1, <2>2, <2>3, <2>4, BeginTrack
    <2>5. CASE ~obj[cur].conn
      <3>1. PICK a \in Addrs : a = At(cur)
        BY <1>0
      <3>2. obj'[cur] = l
        BY <1>0, <1>2, <2>2, SetMoves DEF IInv, TypesOK
      <3>3. At(cur)' = a
        BY <1>0, <3>1, <3>2, <2>1, <2>2 DEF At
      <3>4. PhaseOK' /\ cmd'.todo = {} /\ cmd'.o = cur /\ cmd'.op = "cleanup" /\ cmd'.pc = "await"
        BY <1>0, <1>2, <2>3, BegunPhase
      <3>5. StopOwed(a)'
        BY <1>0, <3>3, <3>4, <2>3 DEF StopOwed
      <3>6. l.pending \/ ~obj[cur].pending
        BY <2>1, <2>2
      <3>7. l.addr = obj[cur].addr /\ l.client = obj[cur].client /\ l.conn /\ l.task = obj[cur].task
            /\ (l.proof => obj[cur].proof)
        BY <2>1, <2>2
      <3> QED BY <1>0, <1>2, <2>2, <2>5, <3>1, <3>4, <3>5, <3>6, <3>7, RelinkTrack
    <2> QED BY <2>4, <2>5
  <1>3. CASE /\ Begin("cleanup", IF obj[cur].conn THEN "disconnect" ELSE "retire", cur)
             /\ UNCHANGED <<obj, oblig, link, reg>>
    <2> DEFINE pc == IF obj[cur].conn THEN "disconnect" ELSE "retire"
    <2>1. pc \in Pcs /\ pc # "ok" /\ (pc = "retire" => ~obj[cur].conn) /\ "cleanup" \in Sequential
      BY DEF Pcs, Sequential
    <2>2. Begin("cleanup", pc, cur) /\ Set(cur, obj[cur])
      BY <1>3, <1>0, SetSelf
    <2> HIDE DEF pc
    <2> QED BY <1>0, <1>3, <2>1, <2>2, BeginTrack
  <1>4. \/ oblig' = Oblige(cur) /\ UNCHANGED <<obj, cmd, link, reg>>
        \/ /\ obj[cur].conn \/ obj[cur].client
           /\ IF obj[cur].conn THEN UNCHANGED <<link, reg>> ELSE Relink(cur)
           /\ Set(cur, l) /\ Begin("cleanup", "await", cur) /\ UNCHANGED oblig
        \/ /\ Begin("cleanup", IF obj[cur].conn THEN "disconnect" ELSE "retire", cur)
           /\ UNCHANGED <<obj, oblig, link, reg>>
    BY Zenon DEF Cleanup
  <1> HIDE DEF r, l
  <1> QED BY <1>1, <1>2, <1>3, <1>4


\* A cleanup goes on to the disconnect.
LEMMA GotoTrack ==
  ASSUME IInv, TrackInv, cmd.op = "cleanup", Goto("disconnect"), NEW r \in Objects, Set(cur, r),
         UNCHANGED <<meas, link, air, lost, cur, oblig, streaming>>,
         r.addr = obj[cur].addr, r.client = obj[cur].client, r.conn = obj[cur].conn,
         r.task.at = obj[cur].task.at, r.task.kind = obj[cur].task.kind, r.proof = obj[cur].proof,
         r.pending \/ ~obj[cur].pending \/ Quiet(At(cur))
  PROVE  TrackInv'
  <1>0. cur \in Objs /\ cmd \in Commands /\ cmd.o = cur
    BY Configured DEF Sequential
  <1>1. PICK a \in Keys : a = At(cur)
    BY Configured
  <1>2. obj'[cur] = r /\ At(cur)' = a
    BY <1>0, <1>1, SetMoves DEF IInv, TypesOK, At
  <1>3. /\ cmd'.op = "cleanup" /\ cmd'.pc = "disconnect" /\ cmd'.o = cur /\ cmd'.todo = cmd.todo
    BY <1>0, CommandMoves DEF Pcs
  <1>4. cmd.todo = {} /\ ~streaming
    BY DEF TrackInv, OwnerOK, PhaseOK, Stopping
  <1>5. PhaseOK'
    BY <1>0, <1>3, <1>4 DEF PhaseOK
  <1>6. StopOwed(a)'
    BY <1>2, <1>3 DEF StopOwed, Stopping
  <1>7. r.pending \/ ~obj[cur].pending \/ Quiet(a)
    BY <1>1
  <1> QED BY <1>0, <1>1, <1>3, <1>4, <1>5, <1>6, <1>7, CalmTrack

\* The STOP of a cleanup ends.
LEMMA CleanupStopEndsTrack ==
  ASSUME IInv, TrackInv, CleanupStopEnds
  PROVE  TrackInv'
  <1>0. /\ cur \in Objs /\ obj[cur] \in Objects /\ cmd.o = cur /\ cmd.op = "cleanup"
        /\ Goto("disconnect") /\ UNCHANGED <<meas, link, air, lost, cur, oblig, streaming>>
    BY Configured DEF CleanupStopEnds, Sequential, Physical
  <1>1. CASE cmd.pc = "ok"
    <2> DEFINE q == StopConfirmed(obj[cur])
    <2>1. /\ q \in Objects /\ q.task = obj[cur].task /\ q.addr = obj[cur].addr
          /\ q.client = obj[cur].client /\ q.conn = obj[cur].conn /\ q.proof = obj[cur].proof
      BY <1>0, StopConfirmedFields
    <2>2. Set(cur, q)
      BY <1>0, <1>1 DEF CleanupStopEnds
    <2> HIDE DEF q
    <2>3. PhysicallyStopped(At(cur))
      BY <1>0, <1>1 DEF TrackInv, PhaseOK, Stopping
    <2>4. Quiet(At(cur))
      BY <2>3, PhysicallyQuiet
    <2> QED BY <1>0, <2>1, <2>2, <2>4, GotoTrack
  <1>2. CASE cmd.pc # "ok"
    <2>1. Set(cur, obj[cur])
      BY <1>0, <1>2, SetSelf DEF CleanupStopEnds
    <2>2. obj[cur].pending \/ ~obj[cur].pending
      OBVIOUS
    <2> QED BY <1>0, <2>1, <2>2, GotoTrack
  <1> QED BY <1>1, <1>2

\* The deadline of a cleanup's STOP.
LEMMA CleanupStopTimesOutTrack ==
  ASSUME IInv, TrackInv, CleanupStopTimesOut
  PROVE  TrackInv'
  <1>0. /\ cur \in Objs /\ obj[cur] \in Objects /\ cmd.o = cur /\ cmd.op = "cleanup"
        /\ Goto("disconnect") /\ UNCHANGED <<meas, link, air, lost, cur, oblig, streaming>>
    BY Configured DEF CleanupStopTimesOut, Running, Sequential, Physical
  <1> DEFINE q == Abort(obj[cur])
  <1>1. /\ q \in Objects /\ q.task.kind = obj[cur].task.kind /\ q.task.at = obj[cur].task.at
        /\ q.addr = obj[cur].addr /\ q.pending = obj[cur].pending
        /\ q.client = obj[cur].client /\ q.conn = obj[cur].conn /\ q.proof = obj[cur].proof
    BY <1>0, AbortFields
  <1>2. Set(cur, q)
    BY <1>0 DEF CleanupStopTimesOut
  <1> HIDE DEF q
  <1>3. q.pending \/ ~obj[cur].pending
    BY <1>1
  <1> QED BY <1>0, <1>1, <1>2, <1>3, GotoTrack

\* The disconnect of a cleanup.
LEMMA CleanupDisconnectsTrack ==
  ASSUME IInv, TrackInv, CleanupDisconnects
  PROVE  TrackInv'
  <1>0. /\ cur \in Objs /\ obj[cur] \in Objects /\ cmd.o = cur /\ cmd.op = "cleanup"
        /\ cmd.pc = "disconnect" /\ cmd \in Commands /\ UNCHANGED <<meas, lost, cur, streaming>>
    BY Configured DEF CleanupDisconnects, Running, Sequential
  <1>1. cmd.todo = {} /\ ~streaming
    BY <1>0 DEF TrackInv, OwnerOK, PhaseOK, Stopping
  <1>2. CASE Unlinked(cmd.o) /\ Set(cmd.o, Disconnected(obj[cmd.o])) /\ Goto("retire") /\ UNCHANGED oblig
    <2> DEFINE q == Disconnected(obj[cur])
    <2>1. /\ q \in Objects /\ q.task = obj[cur].task /\ q.addr = obj[cur].addr /\ ~q.conn
          /\ q.client = obj[cur].client /\ q.proof = obj[cur].proof /\ q.pending = obj[cur].pending
      BY <1>0 DEF Disconnected, Objects, Records
    <2>2. Set(cur, q)
      BY <1>0, <1>2
    <2> HIDE DEF q
    <2>3. PICK a \in Keys : a = At(cur)
      BY Configured
    <2>4. obj'[cur] = q /\ At(cur)' = a
      BY <1>0, <2>1, <2>2, <2>3, SetMoves DEF IInv, TypesOK, At
    <2>5. cmd'.op = "cleanup" /\ cmd'.pc = "retire" /\ cmd'.o = cur /\ cmd'.todo = {}
      BY <1>0, <1>1, <1>2, CommandMoves DEF Pcs
    <2>6. PhaseOK'
      BY <1>0, <1>1, <2>1, <2>4, <2>5 DEF PhaseOK
    <2>7. /\ link' = link \ {a} /\ \A b \in Addrs : b # a => air'[b] = air[b]
          /\ a \in Addrs => air'[a] = <<>>
      BY <1>0, <1>2, <2>3 DEF Unlinked, IInv, TypesOK
    <2>8. a \in Addrs => StopOwed(a)'
      BY <1>0, <2>7, EmptyAir DEF StopOwed
    <2>9. q.pending \/ ~obj[cur].pending
      BY <2>1
    <2>10. oblig' = oblig
      BY <1>2
    <2> QED BY <1>0, <2>1, <2>2, <2>3, <2>5, <2>6, <2>7, <2>8, <2>9, <2>10, ObjectTrack
  <1>3. ASSUME obj' = obj \/ Set(cmd.o, Abort(obj[cmd.o])), oblig' = Oblige(cmd.o), End,
               UNCHANGED <<link, air, reg>>
        PROVE  TrackInv'
    <2>1. CASE obj' = obj
      <3>1. Set(cur, obj[cur])
        BY <1>0, <2>1, SetSelf
      <3>2. obj[cur].pending \/ ~obj[cur].pending
        OBVIOUS
      <3> QED BY <1>0, <1>1, <1>3, <3>1, <3>2, EndTrack DEF End
    <2>2. CASE Set(cmd.o, Abort(obj[cmd.o]))
      <3> DEFINE q == Abort(obj[cur])
      <3>1. /\ q \in Objects /\ q.task.kind = obj[cur].task.kind /\ q.task.at = obj[cur].task.at
            /\ q.addr = obj[cur].addr /\ q.pending = obj[cur].pending
            /\ q.client = obj[cur].client /\ q.conn = obj[cur].conn /\ q.proof = obj[cur].proof
        BY <1>0, AbortFields
      <3>2. Set(cur, q)
        BY <1>0, <2>2
      <3> HIDE DEF q
      <3>3. q.pending \/ ~obj[cur].pending
        BY <3>1
      <3> QED BY <1>0, <1>1, <1>3, <3>1, <3>2, <3>3, EndTrack DEF End
    <2> QED BY <1>3, <2>1, <2>2
  <1> QED BY <1>2, <1>3 DEF CleanupDisconnects

\* Nothing is queued for a device whose live object is not connected.
LEMMA Unreached ==
  ASSUME TrackInv, NEW o \in Objs, Live(o), At(o) \in Addrs, ~obj[o].conn \/ ~obj[o].client
  PROVE  ~Stopped(At(o)) /\ (obj[o].client => At(o) \notin link /\ air[At(o)] = <<>>)
  <1>1. ObjOK(o) /\ AirOK(At(o))
    BY DEF TrackInv
  <1>2. CASE ~obj[o].client
    BY <1>1, <1>2 DEF ObjOK
  <1>3. CASE obj[o].client
    <2>1. At(o) \notin link /\ air[At(o)] = <<>>
      BY <1>1, <1>3 DEF ObjOK, AirOK
    <2> QED BY <2>1 DEF Stopped
  <1> QED BY <1>2, <1>3

\* The end of a cleanup.
LEMMA CleanupRetiresTrack ==
  ASSUME IInv, TrackInv, CleanupRetires
  PROVE  TrackInv'
  <1>0. /\ cur \in Objs /\ obj[cur] \in Objects /\ cmd.o = cur /\ cmd.op = "cleanup"
        /\ cmd.pc = "retire" /\ cmd' = Idle /\ UNCHANGED <<meas, link, air, lost, cur, streaming>>
    BY Configured DEF CleanupRetires, Running, Sequential, End, Physical
  <1>1. cmd.todo = {} /\ ~streaming /\ ~obj[cur].conn
    BY <1>0 DEF TrackInv, OwnerOK, PhaseOK, Stopping
  <1>2. CASE oblig' = Oblige(cmd.o) /\ UNCHANGED <<obj, reg>>
    <2>1. Set(cur, obj[cur])
      BY <1>0, <1>2, SetSelf
    <2>2. obj[cur].pending \/ ~obj[cur].pending
      OBVIOUS
    <2> QED BY <1>0, <1>1, <1>2, <2>1, <2>2, EndTrack
  <1>3. CASE /\ ~obj[cur].pending /\ UNCHANGED oblig
             /\ Set(cmd.o, [HostGone(obj[cmd.o], "none") EXCEPT !.client = FALSE, !.conn = FALSE])
    <2> DEFINE q == [HostGone(obj[cur], "none") EXCEPT !.client = FALSE, !.conn = FALSE]
    <2>1. /\ q \in Objects /\ q.task = NoTask /\ q.addr = obj[cur].addr
          /\ q.pending = obj[cur].pending /\ ~q.proof /\ ~q.client /\ ~q.conn
      BY <1>0, RetiredFields
    <2>2. Set(cur, q)
      BY <1>0, <1>3
    <2> HIDE DEF q
    <2>3. PICK a \in Keys : a = At(cur)
      BY Configured
    <2>4. ~Stopped(a) \/ a \notin Addrs
      BY <1>0, <1>1, <2>3, Unreached DEF Live
    <2>5. a \notin Addrs => ~obj[cur].client
      BY <1>0, <2>3, Fields DEF At
    <2>6. a \in Addrs => StopOwed(a)'
      BY <1>0, <2>4, SameAir DEF StopOwed
    <2>7. PhaseOK' /\ cmd'.todo = {}
      BY <1>0, <1>1, IdlePhase
    <2>8. a \in Addrs => AirOK(a)
      BY DEF TrackInv
    <2>9. q.task.at = "entered" /\ q.task.kind = "none"
      BY <2>1, Blank
    <2>10. oblig' = oblig /\ (q.pending \/ ~obj[cur].pending)
      BY <1>3
    <2>11. a \in Addrs => /\ air'[a] = air[a] /\ (air'[a] # <<>> => a \in link')
                          /\ (a \in link' => a \notin lost)
      BY <1>0, <2>8 DEF AirOK
    <2> QED BY <1>0, <2>1, <2>2, <2>3, <2>4, <2>5, <2>6, <2>7, <2>9, <2>10, <2>11, ObjectTrack
  <1> QED BY <1>0, <1>2, <1>3 DEF CleanupRetires


\* A live object whose device is not pending, or whose STOP is proved, has a quiet device.
LEMMA TargetQuiet ==
  ASSUME IInv, TrackInv, NEW o \in Objs, Live(o), At(o) \in Addrs, ~obj[o].pending \/ obj[o].proof
  PROVE  Quiet(At(o))
  <1>1. OwnerOK /\ Tracked(At(o)) /\ ObjOK(o) /\ cur \in Objs
    BY Configured DEF TrackInv
  <1>2. CASE obj[o].proof
    BY <1>1, <1>2 DEF ObjOK
  <1>3. CASE ~obj[o].pending
    BY <1>1, <1>3, OwnerPending, SlotAssumption
  <1> QED BY <1>2, <1>3

\* The phases of a reset that goes on: no queue grows, no link comes up but the target's.
LEMMA ResetPhase ==
  ASSUME IInv, TrackInv, cmd.op = "recover", cmd'.op = "recover",
         cmd'.was = cmd.was, cmd'.confirmed = cmd.confirmed, UNCHANGED <<meas, cur, streaming>>,
         \A a \in cmd.confirmed : /\ air'[a] = air[a] \/ air'[a] = <<>>
                                  /\ a \in link' => a \in link,
         cmd'.pc \in {"next", "await", "disconnect"},
         cmd'.pc = "disconnect" => ~obj'[cmd'.o].pending,
         cmd'.o \in Objs => At(cmd.o)' \notin cmd.confirmed
  PROVE  PhaseOK'
  <1>1. ~streaming /\ \A a \in cmd.confirmed : PhysicallyStopped(a) /\ (cmd.was => a \notin link)
    BY DEF TrackInv, PhaseOK, Stopping
  <1>2. \A a \in cmd.confirmed : PhysicallyStopped(a)' /\ (cmd.was => a \notin link')
    BY <1>1 DEF PhysicallyStopped
  <1> QED BY <1>1, <1>2 DEF PhaseOK

\* A reset is done with a target.
LEMMA NextPhase ==
  ASSUME IInv, TrackInv, cmd.op = "recover", UNCHANGED <<meas, cur, streaming>>, NEW o \in Objs,
         \A a \in Addrs : /\ air'[a] = air[a] \/ air'[a] = <<>>
                          /\ a \in link' => a \in link,
         cmd' = [cmd EXCEPT !.pc = "next", !.o = None, !.todo = @ \ {o}]
  PROVE  PhaseOK' /\ cmd'.todo = cmd.todo \ {o} /\ cmd'.op = "recover"
  <1>1. /\ cmd'.op = "recover" /\ cmd'.pc = "next" /\ cmd'.o = None /\ cmd'.todo = cmd.todo \ {o}
        /\ cmd'.was = cmd.was /\ cmd'.confirmed = cmd.confirmed /\ cmd.confirmed \subseteq Addrs
    BY DEF IInv, TypesOK, Commands
  <1> QED BY <1>1, ResetPhase, SlotAssumption

\* A target stays owed.
LEMMA OwedTrack ==
  ASSUME IInv, TrackInv, cmd.op = "recover", NEW o \in Objs, Live(o), o # cur => cmd.o # cur,
         NEW r \in Objects, Owed(o, r), UNCHANGED <<meas, link, air, lost, cur, streaming>>,
         r.addr = obj[o].addr, r.client = obj[o].client, r.conn = obj[o].conn,
         r.task.at = obj[o].task.at, r.task.kind = obj[o].task.kind, r.proof = obj[o].proof,
         At(o) \in Addrs => r.pending \/ ~obj[o].pending \/ Quiet(At(o))
  PROVE  TrackInv'
  <1>0. oblig \in [Keys -> Objs \cup {None, Unknown}] /\ obj[o] \in Objects
    BY DEF IInv, TypesOK
  <1>1. PICK a \in Keys : a = At(o)
    BY <1>0, Fields DEF At
  <1> DEFINE q == [r EXCEPT !.quar = TRUE]
  <1>2. /\ q \in Objects /\ q.task = r.task /\ q.addr = r.addr
        /\ q.pending = r.pending /\ q.client = r.client /\ q.conn = r.conn /\ q.proof = r.proof
    BY QuarantinedFields
  <1>3. /\ Set(o, q) /\ oblig' = [oblig EXCEPT ![a] = o]
        /\ cmd' = [cmd EXCEPT !.pc = "next", !.o = None, !.todo = @ \ {o}]
    BY <1>1 DEF Owed, At
  <1> HIDE DEF q
  <1>4. PhaseOK' /\ cmd'.todo = cmd.todo \ {o} /\ cmd'.op = "recover"
    BY <1>3, NextPhase
  <1>5. oblig'[a] # None
    BY <1>0, <1>1, <1>3, SlotAssumption
  <1>6. StopOwed(a)'
    BY <1>5 DEF StopOwed
  <1>7. /\ q.addr = obj[o].addr /\ q.client = obj[o].client
        /\ q.client /\ ~q.conn => ~obj[o].conn
        /\ q.task.at = obj[o].task.at /\ q.task.kind = obj[o].task.kind /\ q.proof = obj[o].proof
        /\ a \in Addrs => q.pending \/ ~obj[o].pending \/ Quiet(a)
    BY <1>1, <1>2
  <1>8. cmd'.todo \subseteq cmd.todo /\ o \notin cmd'.todo
    BY <1>4
  <1> QED BY <1>1, <1>2, <1>3, <1>4, <1>6, <1>7, <1>8, CalmTrack

\* A target is resolved: its device is quiet and has no STOP on its way.
LEMMA ResolvedTrack ==
  ASSUME IInv, TrackInv, cmd.op = "recover", NEW o \in Objs, Live(o), o # cur => cmd.o # cur,
         NEW r \in Objects, Resolved(o, r), UNCHANGED <<meas, lost, cur, streaming>>, NEW a, a = At(o),
         \A b \in Addrs : b # a => air'[b] = air[b] /\ (b \in link' <=> b \in link),
         a \in Addrs => \/ air'[a] = air[a] /\ (a \in link' <=> a \in link)
                        \/ air'[a] = <<>> /\ a \notin link',
         r.addr = obj[o].addr, r.client = obj[o].client,
         r.client => a \notin link' \/ (~obj[o].conn /\ link' = link),
         r.task \in {obj[o].task, NoTask}, r.proof => obj[o].proof,
         a \in Addrs => Quiet(a) /\ ~Stopped(a)'
  PROVE  TrackInv'
  <1>0. oblig \in [Keys -> Objs \cup {None, Unknown}] /\ obj[o] \in Objects
    BY DEF IInv, TypesOK
  <1>1. a \in Keys
    BY <1>0, Fields DEF At
  <1> DEFINE h == IF o = cur THEN r ELSE HostGone(r, "none")
             q == [h EXCEPT !.quar = FALSE, !.status = FALSE, !.conn = FALSE]
  <1>2. /\ q \in Objects /\ ~q.conn /\ q.addr = r.addr /\ q.client = r.client
        /\ q.pending = r.pending /\ q.task \in {r.task, NoTask} /\ q.proof \in {r.proof, FALSE}
    BY ResolvedFields
  <1>3. /\ Set(o, q) /\ oblig' = [oblig EXCEPT ![a] = None]
        /\ cmd' = [cmd EXCEPT !.pc = "next", !.o = None, !.todo = @ \ {o}]
    BY DEF Resolved, At
  <1> HIDE DEF q
  <1>4. \A b \in Addrs : (air'[b] = air[b] \/ air'[b] = <<>>) /\ (b \in link' => b \in link)
    OBVIOUS
  <1>5. PhaseOK' /\ cmd'.todo = cmd.todo \ {o} /\ cmd'.op = "recover"
    BY <1>3, <1>4, NextPhase
  <1>6. a \in Addrs => AirOK(a)
    BY DEF TrackInv
  <1>7. a \in Addrs => /\ air'[a] = air[a] \/ air'[a] = <<>>
                       /\ air'[a] # <<>> => a \in link'
                       /\ a \in link' => a \notin lost
    BY <1>6 DEF AirOK
  <1>8. a \in Addrs => StopOwed(a)'
    BY DEF StopOwed
  <1>9. /\ \A k \in Keys : k # a => oblig'[k] = oblig[k]
        /\ oblig'[a] \in {oblig[a], o, None}
    BY <1>0, <1>1, <1>3
  <1>10. /\ q.task.at \in {"writing", "acked"} => q.task.at = obj[o].task.at /\ q.task.kind = obj[o].task.kind
         /\ q.task.kind = "start" => obj[o].task.kind = "start"
    BY <1>2, Blank
  <1>11. cmd'.todo \subseteq cmd.todo /\ o \notin cmd'.todo
    BY <1>5
  <1>12. /\ q.addr = obj[o].addr /\ (q.client => obj[o].client) /\ (~q.client => ~obj[o].client)
         /\ q.client /\ ~q.conn => a \notin link' \/ (~obj[o].conn /\ link' = link)
         /\ q.proof => obj[o].proof
    BY <1>2
  <1> QED BY <1>2, <1>3, <1>5, <1>7, <1>8, <1>9, <1>10, <1>11, <1>12, ObjectTrack


\* The operator's word, after a confirmed reset of the links, replaces the plugin's.
LEMMA RetireConfirmedTrack ==
  ASSUME IInv, TrackInv, NEW o \in Objs, RetireConfirmed(o)
  PROVE  TrackInv'
  <1>0. /\ obj[o] \in Objects /\ cmd.op = "recover" /\ cmd.o = None /\ cur \in Objs /\ cmd.o # cur
        /\ UNCHANGED <<meas, link, air, lost, cur, streaming>>
    BY Configured, SlotAssumption DEF RetireConfirmed, Running, IInv, TypesOK, LateInv, PlaceOK, Physical
  <1>1. Live(o) /\ At(o) \in cmd.confirmed /\ At(o) \in Addrs
    BY DEF RetireConfirmed, TrackInv, OwnerOK, IInv, TypesOK, Commands
  <1>2. CASE Owed(o, obj[o])
    BY <1>0, <1>1, <1>2, OwedTrack
  <1>3. CASE cmd.was /\ Resolved(o, ReleasedAfterStop(obj[o]))
    <2>1. PICK a \in Addrs : a = At(o)
      BY <1>1
    <2>2. PhysicallyStopped(a) /\ a \notin link
      BY <1>0, <1>1, <1>3, <2>1 DEF TrackInv, PhaseOK
    <2>3. Quiet(a) /\ ~Stopped(a)
      BY <2>2, PhysicallyQuiet
    <2>4. ~Stopped(a)'
      BY <1>0, <2>3, SameAir
    <2> DEFINE q == ReleasedAfterStop(obj[o])
    <2>5. q \in Objects /\ q.task = NoTask /\ q.addr = obj[o].addr /\ ~q.proof /\ q.client = obj[o].client
      BY <1>0, RetiredFields
    <2>6. Resolved(o, q)
      BY <1>3
    <2> HIDE DEF q
    <2> QED BY <1>0, <1>1, <2>1, <2>2, <2>3, <2>4, <2>5, <2>6, ResolvedTrack
  <1> QED BY <1>2, <1>3 DEF RetireConfirmed

\* A reset turns to a target: it waits for its STOP, or goes on to its disconnect.
LEMMA ResetTurns ==
  ASSUME IInv, TrackInv, cmd.op = "recover", NEW o \in Objs, Live(o), o \in cmd.todo,
         NEW pc \in {"await", "disconnect"}, cmd' = [cmd EXCEPT !.pc = pc, !.o = o],
         NEW a, a = At(o), a \notin cmd.confirmed, UNCHANGED <<meas, air, cur, streaming, oblig>>,
         link' = link \/ link' = link \cup {a},
         NEW r \in Objects, Set(o, r), r.addr = obj[o].addr, pc = "disconnect" => ~r.pending
  PROVE  PhaseOK' /\ StopOwed(a)' /\ cmd'.todo = cmd.todo /\ cmd'.op = "recover"
  <1>1. obj' \in [Objs -> Objects] /\ obj'[o] = r /\ \A p \in Objs \ {o} : obj'[p] = obj[p]
    BY SetMoves DEF IInv, TypesOK
  <1>2. /\ cmd'.op = "recover" /\ cmd'.pc = pc /\ cmd'.o = o /\ cmd'.todo = cmd.todo
        /\ cmd'.was = cmd.was /\ cmd'.confirmed = cmd.confirmed
    BY DEF IInv, TypesOK, Commands
  <1>3. At(o)' = a
    BY <1>1 DEF At
  <1>4. At(cmd.o)' \notin cmd.confirmed
    BY <1>1, <1>2 DEF At
  <1>5. PhaseOK'
    BY <1>1, <1>2, <1>4, ResetPhase
  <1>6. StopOwed(a)'
    <2> SUFFICES ASSUME oblig[a] = None
                 PROVE  At(cur)' = a /\ cmd'.o = cur'
      BY <1>2 DEF StopOwed, Stopping
    <2>1. o = cur
      BY SlotAssumption DEF Live
    <2> QED BY <1>2, <1>3, <2>1
  <1> QED BY <1>2, <1>5, <1>6

\* _reconcile_sensor up to the plugin STOP.
LEMMA ReconcileTrack ==
  ASSUME IInv, TrackInv, NEW o \in Objs, Reconcile(o)
  PROVE  TrackInv'
  <1> DEFINE r == [obj[o] EXCEPT !.pending = (@ /\ ~(obj[o].host = "up" /\ obj[o].proof)),
                            !.quar = FALSE, !.aborted = FALSE]
  <1>0. /\ obj[o] \in Objects /\ cmd.op = "recover" /\ cmd.o = None /\ cur \in Objs /\ cmd.o # cur
        /\ o \in cmd.todo /\ At(o) \notin cmd.confirmed /\ UNCHANGED <<meas, air, lost, cur, streaming>>
    BY Configured, SlotAssumption DEF Reconcile, Running, IInv, TypesOK, LateInv, PlaceOK
  <1>1. Live(o)
    BY <1>0 DEF TrackInv, OwnerOK
  <1>2. /\ r \in Objects /\ r.worker = obj[o].worker /\ r.task = obj[o].task
        /\ r.addr = obj[o].addr /\ r.client = obj[o].client /\ r.conn = obj[o].conn
        /\ r.proof = obj[o].proof
        /\ r.pending <=> (obj[o].pending /\ ~(obj[o].host = "up" /\ obj[o].proof))
    BY <1>0, PreparedFields
  <1>3. \/ /\ Owed(o, IF Prepared(obj[o]) THEN r ELSE obj[o])
           /\ UNCHANGED <<link, reg>>
        \/ /\ r.conn \/ r.client
           /\ IF r.conn THEN UNCHANGED <<link, reg>> ELSE Relink(o)
           /\ Set(o, Launch(CountsConnected(r), "stop"))
           /\ cmd' = [cmd EXCEPT !.pc = "await", !.o = o] /\ UNCHANGED oblig
        \/ /\ ~r.pending
           /\ Set(o, r) /\ cmd' = [cmd EXCEPT !.pc = "disconnect", !.o = o] /\ UNCHANGED oblig
           /\ UNCHANGED <<link, reg>>
        \/ /\ ~r.pending /\ ~r.conn /\ Resolved(o, r)
           /\ UNCHANGED <<link, reg>>
    BY Zenon DEF Reconcile
  <1> HIDE DEF r
  <1>4. PICK a \in Keys : a = At(o)
    BY <1>0, Fields DEF At
  <1>5. a \in Addrs => r.pending \/ ~obj[o].pending \/ Quiet(a)
    BY <1>1, <1>2, <1>4, TargetQuiet
  <1>6. CASE Owed(o, IF Prepared(obj[o]) THEN r ELSE obj[o]) /\ UNCHANGED <<link, reg>>
    <2> DEFINE q == IF Prepared(obj[o]) THEN r ELSE obj[o]
    <2>1. /\ q \in Objects /\ q.addr = obj[o].addr /\ q.client = obj[o].client
          /\ q.conn = obj[o].conn /\ q.task = obj[o].task /\ q.proof = obj[o].proof
          /\ Owed(o, q)
      BY <1>0, <1>2, <1>6
    <2>2. a \in Addrs => q.pending \/ ~obj[o].pending \/ Quiet(a)
      BY <1>5
    <2> HIDE DEF q
    <2> QED BY <1>0, <1>1, <1>4, <1>6, <2>1, <2>2, OwedTrack
  <1>7. CASE /\ r.conn \/ r.client
             /\ IF r.conn THEN UNCHANGED <<link, reg>> ELSE Relink(o)
             /\ Set(o, Launch(CountsConnected(r), "stop"))
             /\ cmd' = [cmd EXCEPT !.pc = "await", !.o = o] /\ UNCHANGED oblig
    <2> DEFINE c == CountsConnected(r)
               l == Launch(c, "stop")
    <2>1. /\ c \in Objects /\ c.conn /\ c.task = r.task /\ c.addr = r.addr
          /\ c.client = r.client /\ c.proof = r.proof /\ c.pending = r.pending
      BY <1>2 DEF CountsConnected, Objects, Records
    <2> HIDE DEF c
    <2>2. /\ l \in Objects /\ l.task = c.task /\ l.addr = c.addr /\ l.pending = c.pending
          /\ l.client = c.client /\ l.conn = c.conn /\ l.proof = c.proof
      BY <2>1, LaunchKeeps DEF Kinds
    <2>3. Set(o, l)
      BY <1>7 DEF c
    <2> HIDE DEF l
    <2>4. /\ l.addr = obj[o].addr /\ l.client = obj[o].client /\ l.conn /\ l.task = obj[o].task
          /\ l.proof = obj[o].proof
          /\ a \in Addrs => l.pending \/ ~obj[o].pending \/ Quiet(a)
      BY <1>2, <1>5, <2>1, <2>2
    <2>5. link' = link \/ link' = link \cup {a}
      BY <1>4, <1>7 DEF Relink, LinkUp
    <2>6. PhaseOK' /\ StopOwed(a)' /\ cmd'.todo = cmd.todo /\ cmd'.op = "recover"
      BY <1>0, <1>1, <1>4, <1>7, <2>2, <2>3, <2>4, <2>5, ResetTurns
    <2>7. CASE r.conn
      BY <1>0, <1>1, <1>4, <1>7, <2>2, <2>3, <2>4, <2>6, <2>7, CalmTrack
    <2>8. CASE ~r.conn
      BY <1>0, <1>1, <1>2, <1>4, <1>7, <2>2, <2>3, <2>4, <2>6, <2>8, RelinkTrack
    <2> QED BY <2>7, <2>8
  <1>8. CASE /\ ~r.pending
             /\ Set(o, r) /\ cmd' = [cmd EXCEPT !.pc = "disconnect", !.o = o] /\ UNCHANGED oblig
             /\ UNCHANGED <<link, reg>>
    <2>1. PhaseOK' /\ StopOwed(a)' /\ cmd'.todo = cmd.todo /\ cmd'.op = "recover"
      BY <1>0, <1>1, <1>2, <1>4, <1>8, ResetTurns
    <2> QED BY <1>0, <1>1, <1>2, <1>4, <1>5, <1>8, <2>1, CalmTrack
  <1>9. CASE ~r.pending /\ ~r.conn /\ Resolved(o, r) /\ UNCHANGED <<link, reg>>
    <2>1. a \in Addrs => Quiet(a)
      BY <1>1, <1>2, <1>4, <1>9, TargetQuiet
    <2>2. a \in Addrs => ~Stopped(a)
      BY <1>1, <1>2, <1>4, <1>9, Unreached
    <2>3. a \in Addrs => ~Stopped(a)'
      BY <1>0, <2>2, SameAir
    <2> QED BY <1>0, <1>1, <1>2, <1>4, <1>9, <2>1, <2>3, ResolvedTrack
  <1> QED BY <1>3, <1>6, <1>7, <1>8, <1>9

\* The STOP of a reset ends or outlives its deadline.
LEMMA ReconcileStopEndsTrack ==
  ASSUME IInv, TrackInv, ReconcileStopEnds
  PROVE  TrackInv'
  <1>0. /\ cmd.pc \in {"ok", "fail", "await"} /\ cmd.op = "recover"
        /\ UNCHANGED <<meas, link, air, lost, cur, streaming>>
    BY DEF ReconcileStopEnds, Physical
  <1>1. PICK o \in Objs : o = cmd.o
    BY <1>0 DEF IInv, LateInv, PlaceOK
  <1>2. Live(o) /\ o \in cmd.todo /\ obj[o] \in Objects /\ At(o) \notin cmd.confirmed
    BY <1>0, <1>1 DEF IInv, TypesOK, LateInv, PlaceOK, TrackInv, OwnerOK, PhaseOK
  <1> DEFINE q == StopConfirmed(obj[o])
             x == Expire(obj[o])
  <1>3. /\ q \in Objects /\ q.task = obj[o].task /\ q.addr = obj[o].addr /\ q.client = obj[o].client
        /\ q.conn = obj[o].conn /\ q.proof = obj[o].proof /\ ~q.pending
    BY <1>2, StopConfirmedFields
  <1>4. \/ cmd.pc = "ok" /\ Set(o, q) /\ Goto("disconnect") /\ UNCHANGED oblig
        \/ cmd.pc = "ok" /\ ~obj[o].conn /\ Resolved(o, q)
        \/ cmd.pc = "fail" /\ Owed(o, obj[o])
        \/ cmd.pc = "await" /\ Owed(o, x)
    BY <1>1 DEF ReconcileStopEnds
  <1> HIDE DEF q
  <1>5. PICK a \in Keys : a = At(o)
    BY <1>2, Fields DEF At
  <1>6. cmd.pc = "ok" => /\ Quiet(a) /\ ~Stopped(a) /\ ~Stopped(a)'
    <2>1. cmd.pc = "ok" => PhysicallyStopped(a)
      BY <1>0, <1>1, <1>5 DEF TrackInv, PhaseOK, Stopping
    <2> QED BY <1>0, <2>1, PhysicallyQuiet, SameAir
  <1>7. CASE cmd.pc = "ok" /\ Set(o, q) /\ Goto("disconnect") /\ UNCHANGED oblig
    <2>1. cmd' = [cmd EXCEPT !.pc = "disconnect", !.o = o]
      BY <1>1, <1>7 DEF Goto, IInv, TypesOK, Commands
    <2>2. PhaseOK' /\ StopOwed(a)' /\ cmd'.todo = cmd.todo /\ cmd'.op = "recover"
      BY <1>0, <1>2, <1>3, <1>5, <1>7, <2>1, ResetTurns
    <2>3. Quiet(a) /\ (o # cur => cmd.o # cur)
      BY <1>1, <1>6, <1>7
    <2> QED BY <1>0, <1>2, <1>3, <1>5, <1>7, <2>2, <2>3, CalmTrack
  <1>8. CASE cmd.pc = "ok" /\ ~obj[o].conn /\ Resolved(o, q)
    <2>1. o # cur => cmd.o # cur
      BY <1>1
    <2> QED BY <1>0, <1>2, <1>3, <1>5, <1>6, <1>8, <2>1, ResolvedTrack
  <1>9. CASE Owed(o, obj[o])
    BY <1>0, <1>1, <1>2, <1>9, OwedTrack
  <1>10. CASE Owed(o, x)
    <2>1. /\ x \in Objects /\ x = [obj[o] EXCEPT !.worker = x.worker, !.task = x.task]
          /\ x.task.kind = obj[o].task.kind /\ x.task.at = obj[o].task.at
      BY <1>2, ExpireFields
    <2> HIDE DEF x
    <2>2. /\ x.addr = obj[o].addr /\ x.client = obj[o].client /\ x.conn = obj[o].conn
          /\ x.proof = obj[o].proof /\ x.pending = obj[o].pending
      BY <1>2, <2>1 DEF Objects, Records
    <2>3. At(o) \in Addrs => x.pending \/ ~obj[o].pending
      BY <2>2
    <2> QED BY <1>0, <1>1, <1>2, <1>10, <2>1, <2>2, <2>3, OwedTrack
  <1> QED BY <1>4, <1>7, <1>8, <1>9, <1>10

\* The disconnect of a reset.
LEMMA ReconcileDisconnectsTrack ==
  ASSUME IInv, TrackInv, ReconcileDisconnects
  PROVE  TrackInv'
  <1>0. /\ cmd.pc = "disconnect" /\ cmd.op = "recover" /\ UNCHANGED <<meas, lost, cur, streaming>>
    BY DEF ReconcileDisconnects, Running
  <1>1. PICK o \in Objs : o = cmd.o
    BY <1>0 DEF IInv, LateInv, PlaceOK
  <1>2. Live(o) /\ obj[o] \in Objects /\ ~obj[o].pending
    BY <1>0, <1>1 DEF IInv, TypesOK, LateInv, PlaceOK, TrackInv, OwnerOK, PhaseOK
  <1>3. PICK a \in Keys : a = At(o)
    BY <1>2, Fields DEF At
  <1>4. CASE Unlinked(o) /\ Resolved(o, obj[o])
    <2>1. /\ link' = link \ {a} /\ \A b \in Addrs : b # a => air'[b] = air[b]
          /\ a \in Addrs => air'[a] = <<>>
      BY <1>3, <1>4 DEF Unlinked, IInv, TypesOK
    <2>2. a \in Addrs => Quiet(a)
      BY <1>2, <1>3, TargetQuiet
    <2>3. a \in Addrs => ~Stopped(a)'
      BY <1>0, <2>1, EmptyAir
    <2> QED BY <1>0, <1>1, <1>2, <1>3, <1>4, <2>1, <2>2, <2>3, ResolvedTrack
  <1>5. CASE Owed(o, obj[o]) /\ UNCHANGED <<link, air, reg>>
    BY <1>0, <1>1, <1>2, <1>5, OwedTrack
  <1> QED BY <1>1, <1>4, <1>5 DEF ReconcileDisconnects


\* Discovery without a search of unresolved slots: the slot owes nothing, and the device
\* it is given is owed by nobody and therefore quiet.
LEMMA DiscoverTrack ==
  ASSUME IInv, TrackInv, Discover, Searches = {}
  PROVE  TrackInv'
  <1>0. /\ cur \in Objs /\ obj[cur] \in Objects /\ cmd = Idle /\ cmd.op = "idle" /\ cmd.todo = {}
        /\ UNCHANGED <<meas, link, air, lost, cur, oblig, cmd, streaming>> /\ ~Unresolved(cur)
        /\ oblig \in [Keys -> Objs \cup {None, Unknown}] /\ None \notin Addrs /\ None \notin Objs
        /\ Unknown # None /\ Unknown \notin Objs
    BY Configured, Blank, SlotAssumption DEF Discover, Physical, IInv, TypesOK
  <1>1. PICK a \in Addrs : a \notin link /\ oblig[a] = None /\ Set(cur, WithClient(obj[cur], a))
    BY DEF Discover, Advertising
  <1> DEFINE r == WithClient(obj[cur], a)
  <1>2. /\ r \in Objects /\ r.addr = a /\ r.client /\ ~r.conn /\ r.worker = obj[cur].worker
        /\ r.task = obj[cur].task /\ r.quar = obj[cur].quar /\ r.pending = obj[cur].pending
        /\ r.proof = obj[cur].proof
    BY <1>0, <1>1 DEF Objects, Records, WithClient
  <1> HIDE DEF r
  <1>3. obj' \in [Objs -> Objects] /\ obj'[cur] = r /\ \A p \in Objs \ {cur} : obj'[p] = obj[p]
    BY <1>0, <1>1, <1>2, SetMoves DEF IInv, TypesOK, r
  <1>4. ~obj[cur].pending /\ ~obj[cur].quar /\ \A k \in Keys : oblig[k] # cur
    BY <1>0 DEF Unresolved
  <1>5. obj[cur].task.kind = "none" /\ obj[cur].task.at \notin {"writing", "acked"}
    <2>1. ~Late(obj[cur])
      BY <1>0, <1>4, Configured
    <2> QED BY <1>0, <2>1 DEF Late, IInv, LateInv, TaskOK
  <1>6. \A b : /\ Quiet(b)' <=> Quiet(b)
               /\ Stopped(b)' <=> Stopped(b)
               /\ PhysicallyStopped(b)' <=> PhysicallyStopped(b)
    BY <1>0, SameAir
  <1>7. Quiet(a)
    <2>1. Tracked(a)
      BY DEF TrackInv
    <2> QED BY <1>0, <1>1, <1>4, <2>1 DEF Tracked
  <1>8. OwnerOK'
    <2>1. ObligationKeepsIdentity'
      BY <1>0, <1>3, <1>4 DEF TrackInv, OwnerOK, ObligationKeepsIdentity, At
    <2> QED BY <1>0, <1>1, <1>2, <1>3, <2>1 DEF OwnerOK, At
  <1>9. PhaseOK'
    <2>1. streaming' => obj'[cur'].task.kind # "stop" /\ obj'[cur'].worker.kind # "stop"
      BY <1>0, <1>2, <1>3 DEF TrackInv, PhaseOK
    <2> QED BY <1>0, <2>1, IdlePhase
  <1>10. ASSUME NEW p \in Objs
         PROVE  ObjOK(p)'
    <2>1. CASE p = cur
      <3>1. At(p)' = a
        BY <1>2, <1>3, <2>1 DEF At
      <3> QED BY <1>0, <1>1, <1>2, <1>3, <1>5, <1>6, <1>7, <2>1, <3>1 DEF ObjOK
    <2>2. CASE p # cur
      <3>1. ObjOK(p) /\ obj'[p] = obj[p] /\ At(p)' = At(p)
        BY <1>3, <2>2 DEF TrackInv, At
      <3>2. Live(p)' => Live(p)
        BY <1>0, <2>2, <3>1 DEF Live
      <3> QED BY <1>0, <1>6, <3>1, <3>2 DEF ObjOK
    <2> QED BY <2>1, <2>2
  <1>11. ASSUME NEW b \in Addrs
         PROVE  AirOK(b)' /\ Tracked(b)' /\ StopOwed(b)'
    <2>0. AirOK(b) /\ Tracked(b) /\ StopOwed(b)
      BY DEF TrackInv
    <2>1. AirOK(b)'
      BY <1>0, <2>0 DEF AirOK
    <2>2. Tracked(b)'
      BY <1>0, <1>3, <1>4, <1>6, <2>0 DEF Tracked, Keys
    <2>3. StopOwed(b)'
      BY <1>0, <1>4, <1>6, <2>0 DEF StopOwed, Stopping
    <2> QED BY <2>1, <2>2, <2>3
  <1> QED BY <1>8, <1>9, <1>10, <1>11 DEF TrackInv

\* A reset ends: an unknown link is kept as an obligation, and dropped only on the
\* operator's word and after a confirmed reset of the links.
LEMMA RecoverEndsTrack ==
  ASSUME IInv, TrackInv, RecoverEnds
  PROVE  TrackInv'
  <1>0. /\ cur \in Objs /\ cmd' = Idle /\ cmd.op = "recover" /\ cmd.o = None /\ cmd.o # cur
        /\ UNCHANGED <<meas, link, air, lost, cur, obj, streaming>>
        /\ oblig \in [Keys -> Objs \cup {None, Unknown}] /\ None \notin Addrs /\ None \notin Objs
        /\ Unknown # None /\ Unknown \notin Objs /\ Addrs \subseteq Keys
    BY Configured, SlotAssumption DEF RecoverEnds, Running, End, Physical, IInv, TypesOK, LateInv, PlaceOK, Keys
  <1>1. \A k \in Keys :
          \/ oblig'[k] = oblig[k]
          \/ oblig[k] = Unknown /\ oblig'[k] = None /\ k \in cmd.confirmed
          \/ oblig[k] = None /\ oblig'[k] = Unknown /\ At(cur) # k
    BY <1>0 DEF RecoverEnds
  <1>2. \A b : /\ Quiet(b)' <=> Quiet(b)
               /\ Stopped(b)' <=> Stopped(b)
               /\ PhysicallyStopped(b)' <=> PhysicallyStopped(b)
    BY <1>0, SameAir
  <1>3. ~streaming /\ \A b \in cmd.confirmed : Quiet(b) /\ ~Stopped(b)
    BY <1>0, PhysicallyQuiet DEF TrackInv, PhaseOK, Stopping
  <1>4. \A p \in Objs : At(p) \in Keys /\ At(p)' = At(p)
    BY <1>0, Fields DEF At, IInv, TypesOK
  <1>5. PhaseOK' /\ cmd'.todo = {}
    BY <1>0, <1>3, IdlePhase
  <1>6. OwnerOK'
    <2>1. ObligationKeepsIdentity'
      BY <1>0, <1>1, <1>4 DEF TrackInv, OwnerOK, ObligationKeepsIdentity
    <2>2. At(cur)' \in Addrs => oblig'[At(cur)'] \in {None, cur}
      BY <1>0, <1>1, <1>4 DEF TrackInv, OwnerOK
    <2> QED BY <1>0, <1>4, <1>5, <2>1, <2>2 DEF OwnerOK
  <1>7. ASSUME NEW p \in Objs
        PROVE  ObjOK(p)'
    <2>1. ObjOK(p)
      BY DEF TrackInv
    <2>2. Live(p)' => Live(p)
      BY <1>0, <1>1, <1>4 DEF Live
    <2> QED BY <1>0, <1>2, <1>4, <2>1, <2>2 DEF ObjOK
  <1>8. ASSUME NEW b \in Addrs
        PROVE  AirOK(b)' /\ Tracked(b)' /\ StopOwed(b)'
    <2>0. AirOK(b) /\ Tracked(b) /\ StopOwed(b)
      BY DEF TrackInv
    <2>1. AirOK(b)'
      BY <1>0, <2>0 DEF AirOK
    <2>2. Tracked(b)'
      BY <1>0, <1>1, <1>2, <1>3, <1>4, <2>0 DEF Tracked
    <2>3. StopOwed(b)'
      BY <1>0, <1>1, <1>2, <1>3, <1>4, <2>0 DEF StopOwed
    <2> QED BY <2>1, <2>2, <2>3
  <1> QED BY <1>5, <1>6, <1>7, <1>8 DEF TrackInv


\* The targets of a reset are live objects.
LEMMA TargetsLive ==
  ASSUME IInv, TrackInv, NEW o \in Targets
  PROVE  o \in Objs /\ Live(o)
  <1>1. PICK k \in Keys : o = Target(k)
    BY DEF Targets
  <1>2. o \in Objs
    BY DEF Targets
  <1>3. CASE oblig[k] # None
    BY <1>1, <1>2, <1>3 DEF Target, TrackInv, OwnerOK, ObligationKeepsIdentity, Live
  <1>4. CASE oblig[k] = None
    BY <1>1, <1>2, <1>4, SlotAssumption DEF Target, Live, Keys
  <1> QED BY <1>2, <1>3, <1>4

\* A reset begins: links and queues stay or are cut, and obligations are only added.
LEMMA ResetTrack ==
  ASSUME IInv, TrackInv, cmd = Idle, ~streaming, lost = {}, UNCHANGED <<meas, lost, cur, streaming>>,
         \A a \in Addrs : \/ air'[a] = air[a] /\ (a \in link' <=> a \in link)
                          \/ air'[a] = <<>> /\ a \notin link',
         \A p \in Objs : /\ obj'[p].worker = obj[p].worker /\ obj'[p].task = obj[p].task
                         /\ obj'[p].quar = obj[p].quar /\ obj'[p].addr = obj[p].addr
                         /\ obj'[p].client = obj[p].client /\ obj'[p].pending = obj[p].pending
                         /\ obj'[p].proof = obj[p].proof
                         /\ ~obj'[p].conn /\ At(p) \in Addrs => ~obj[p].conn \/ At(p) \notin link',
         \A k \in Keys : oblig'[k] = oblig[k] \/ (oblig[k] = None /\ k \in Addrs /\ At(cur) = k /\ oblig'[k] = cur),
         cmd'.op = "recover", cmd'.pc = "next", cmd'.o = None, cmd'.todo \subseteq Targets,
         \A a \in cmd'.confirmed : a \in Addrs /\ PhysicallyStopped(a) /\ (cmd'.was => a \notin link')
  PROVE  TrackInv'
  <1>0. /\ cur \in Objs /\ cmd.op = "idle" /\ cmd.o # cur /\ cur' = cur
        /\ oblig \in [Keys -> Objs \cup {None, Unknown}] /\ None \notin Addrs /\ None \notin Objs
        /\ Unknown # None /\ Unknown \notin Objs /\ Addrs \subseteq Keys
    BY Configured, SlotAssumption DEF IInv, TypesOK, Keys
  <1>1. \A p \in Objs : At(p) \in Keys /\ At(p)' = At(p)
    BY Fields DEF At, IInv, TypesOK
  <1>2. ASSUME NEW b \in Addrs
        PROVE  /\ Quiet(b) => Quiet(b)'
               /\ Stopped(b)' => Stopped(b)
               /\ PhysicallyStopped(b) => PhysicallyStopped(b)'
               /\ b \in link' => b \in link
    <2>1. CASE air'[b] = air[b] /\ (b \in link' <=> b \in link)
      BY <2>1, SameAir
    <2>2. CASE air'[b] = <<>> /\ b \notin link'
      BY <2>2, EmptyAir DEF PhysicallyStopped
    <2> QED BY <2>1, <2>2
  <1>3. \A p \in Objs : Live(p)' <=> Live(p)
    BY <1>0, <1>1 DEF Live
  <1>4. PhaseOK'
    BY <1>0, <1>2 DEF PhaseOK
  <1>5. OwnerOK'
    <2>1. ObligationKeepsIdentity'
      BY <1>0, <1>1 DEF TrackInv, OwnerOK, ObligationKeepsIdentity
    <2>2. At(cur)' \in Addrs => oblig'[At(cur)'] \in {None, cur}
      BY <1>0, <1>1 DEF TrackInv, OwnerOK
    <2>3. \A o \in cmd'.todo : Live(o)'
      BY <1>3, TargetsLive
    <2> QED BY <1>0, <2>1, <2>2, <2>3 DEF OwnerOK
  <1>6. ASSUME NEW p \in Objs
        PROVE  ObjOK(p)'
    <2>1. ObjOK(p)
      BY DEF TrackInv
    <2>2. ASSUME Live(p)', At(p)' \in Addrs
          PROVE  /\ obj'[p].proof => Quiet(At(p))'
                 /\ obj'[p].task.kind = "start" => ~obj'[p].proof
                 /\ obj'[p].task.at = "writing" /\ air'[At(p)'] # <<>>
                      => air'[At(p)'][Len(air'[At(p)'])] = [o |-> p, kind |-> obj'[p].task.kind]
                 /\ obj'[p].task.at = "acked" /\ obj'[p].task.kind = "stop" => PhysicallyStopped(At(p))'
                 /\ ~obj'[p].client => ~Stopped(At(p))'
                 /\ obj'[p].client /\ ~obj'[p].conn => At(p)' \notin link'
      <3>1. PICK a \in Addrs : a = At(p) /\ a = At(p)'
        BY <1>1, <2>2
      <3>2. Live(p)
        BY <1>3, <2>2
      <3>3. /\ Quiet(a) => Quiet(a)'
            /\ Stopped(a)' => Stopped(a)
            /\ PhysicallyStopped(a) => PhysicallyStopped(a)'
            /\ a \in link' => a \in link
        BY <1>2
      <3>4. /\ Quiet(a)' => Quiet(At(p))'
            /\ Stopped(At(p))' => Stopped(a)'
            /\ PhysicallyStopped(a)' => PhysicallyStopped(At(p))'
        BY <3>1 DEF Quiet, Starting, Stopped, PhysicallyStopped
      <3> QED BY <2>1, <3>1, <3>2, <3>3, <3>4 DEF ObjOK
    <2>3. obj'[p].task.at \in {"writing", "acked"} => At(p)' \in Addrs
      BY <1>1, <2>1 DEF ObjOK
    <2> QED BY <2>2, <2>3 DEF ObjOK
  <1>7. ASSUME NEW b \in Addrs
        PROVE  AirOK(b)' /\ Tracked(b)' /\ StopOwed(b)'
    <2>0. AirOK(b) /\ Tracked(b) /\ StopOwed(b)
      BY DEF TrackInv
    <2>1. AirOK(b)'
      <3>1. InOrder(air'[b])
        <4>1. CASE air'[b] = <<>>
          BY <4>1, EmptyAir
        <4>2. CASE air'[b] = air[b]
          BY <2>0, <4>2 DEF AirOK
        <4> QED BY <4>1, <4>2
      <3> QED BY <2>0, <3>1 DEF AirOK
    <2>2. Tracked(b)'
      BY <1>0, <1>1, <1>2, <2>0 DEF Tracked
    <2>3. StopOwed(b)'
      BY <1>0, <1>1, <1>2, <2>0 DEF StopOwed, Stopping
    <2> QED BY <2>1, <2>2, <2>3
  <1> QED BY <1>4, <1>5, <1>6, <1>7 DEF TrackInv

\* recover_connections and the BLE reset.
LEMMA RecoverTrack ==
  ASSUME IInv, TrackInv, Recover
  PROVE  TrackInv'
  <1> DEFINE Open == {a \in Addrs : PhysicallyStopped(a) /\ oblig[a] # None}
  <1>0. /\ cmd = Idle /\ ~streaming /\ lost = {} /\ UNCHANGED <<meas, lost, cur, streaming>>
    BY DEF Recover, ResetAllowed
  <1>1. PICK conf \in SUBSET Open, allow, uncertain, works \in BOOLEAN :
          LET resets == (conf # {} \/ uncertain) /\ allow
              resolves == works /\ (allow \/ (conf = {} /\ ~uncertain))
              inv == IF works /\ ~resets THEN link ELSE {} IN
          /\ allow \/ conf = {}
          /\ works \/ Faults
          /\ uncertain => Faults
          /\ reg' = Adopted
          /\ IF works
             THEN /\ link' = inv
                  /\ air' = [a \in Addrs |-> IF a \in inv THEN air[a] ELSE <<>>]
                  /\ obj' = [o \in Objs |->
                       IF At(o) = None THEN obj[o]
                       ELSE [Inventory(inv, obj[o], o) EXCEPT !.status = (@ /\ ~(resets /\ LosesLink(o)))]]
             ELSE UNCHANGED <<link, air, obj>>
          /\ oblig' = IF resolves THEN oblig
                      ELSE [k \in Keys |-> IF Target(k) \in Objs THEN Target(k) ELSE oblig[k]]
          /\ cmd' = [Idle EXCEPT !.op = "recover", !.pc = "next", !.inv = inv,
                     !.todo = IF resolves THEN Targets ELSE {},
                     !.was = (resets /\ works), !.confirmed = conf]
    BY Zenon DEF Recover, Open
  <1> DEFINE resets == (conf # {} \/ uncertain) /\ allow
             resolves == works /\ (allow \/ (conf = {} /\ ~uncertain))
             inv == IF works /\ ~resets THEN link ELSE {}
             lose == [o \in Objs |-> resets /\ LosesLink(o)]
             was == resets /\ works
             td == IF resolves THEN Targets ELSE {}
  <1>2. td \subseteq Targets /\ was \in BOOLEAN /\ (was => works /\ inv = {}) /\ (inv = link \/ inv = {})
    OBVIOUS
  <1>3. /\ cmd'.op = "recover" /\ cmd'.pc = "next" /\ cmd'.o = None /\ cmd'.todo = td
        /\ cmd'.was = was /\ cmd'.confirmed = conf
    <2>2. cmd' = [Idle EXCEPT !.op = "recover", !.pc = "next", !.inv = inv,
                     !.todo = td, !.was = was, !.confirmed = conf]
      BY <1>1
    <2> HIDE DEF td, was, inv
    <2> QED BY <2>2 DEF Idle
  <1>4. \A k \in Keys : oblig'[k] = oblig[k] \/ (oblig[k] = None /\ k \in Addrs /\ At(cur) = k /\ oblig'[k] = cur)
    <2>1. CASE oblig' = oblig
      BY <2>1
    <2>2. CASE oblig' = [k \in Keys |-> IF Target(k) \in Objs THEN Target(k) ELSE oblig[k]]
      BY <2>2, SlotAssumption DEF Target, Keys
    <2> QED BY <1>1, <2>1, <2>2
  <1>5. /\ \A a \in Addrs : \/ air'[a] = air[a] /\ (a \in link' <=> a \in link)
                            \/ air'[a] = <<>> /\ a \notin link'
        /\ was => link' = {}
        /\ link' = inv \/ (~works /\ link' = link)
    <2>1. CASE works
      <3>1. air' = [a \in Addrs |-> IF a \in inv THEN air[a] ELSE <<>>] /\ link' = inv
        BY <1>1, <2>1
      <3> HIDE DEF inv, was
      <3> QED BY <1>2, <3>1
    <2>2. CASE ~works
      <3>1. air' = air /\ link' = link
        BY <1>1, <2>2
      <3> HIDE DEF inv, was
      <3> QED BY <1>2, <2>2, <3>1
    <2> QED BY <2>1, <2>2
  <1>6. lose \in [Objs -> BOOLEAN]
    OBVIOUS
  <1>7. ASSUME NEW p \in Objs
        PROVE  /\ obj'[p].worker = obj[p].worker /\ obj'[p].task = obj[p].task
               /\ obj'[p].quar = obj[p].quar /\ obj'[p].addr = obj[p].addr
               /\ obj'[p].client = obj[p].client /\ obj'[p].pending = obj[p].pending
               /\ obj'[p].proof = obj[p].proof
               /\ ~obj'[p].conn => ~obj[p].conn \/ At(p) \notin link'
    <2>1. CASE works
      <3>1. obj' = [o \in Objs |-> IF At(o) = None THEN obj[o]
                   ELSE [Inventory(inv, obj[o], o) EXCEPT !.status = (@ /\ ~lose[o])]]
        BY <1>1, <2>1
      <3>2. link' = inv
        BY <1>1, <2>1
      <3> HIDE DEF inv, lose
      <3>3. /\ obj'[p].worker = obj[p].worker /\ obj'[p].task = obj[p].task
            /\ obj'[p].quar = obj[p].quar /\ obj'[p].addr = obj[p].addr
            /\ obj'[p].client = obj[p].client /\ obj'[p].pending = obj[p].pending
            /\ obj'[p].proof = obj[p].proof
        BY <1>6, <3>1, RecoverObjects
      <3>4. ~obj'[p].conn => ~obj[p].conn \/ At(p) \notin inv
        BY ONLY IInv, p \in Objs, <1>6, <3>1, RecoverObjects
      <3> QED BY <3>2, <3>3, <3>4
    <2>2. CASE ~works
      BY <1>1, <2>2
    <2> QED BY <2>1, <2>2
  <1>8. \A a \in conf : a \in Addrs /\ PhysicallyStopped(a)
    OBVIOUS
  <1> HIDE DEF inv, was, td
  <1> QED BY <1>0, <1>2, <1>3, <1>4, <1>5, <1>7, <1>8, ResetTrack


\* A reconfiguration: an unresolved sensor is retained, the others are closed.
LEMMA ReinitializeTrack ==
  ASSUME IInv, TrackInv, Reinitialize
  PROVE  TrackInv'
  <1>0. /\ cur \in Objs /\ obj[cur] \in Objects /\ cmd = Idle /\ cmd' = Idle /\ cmd.op = "idle"
        /\ cmd.o # cur /\ ~streaming /\ UNCHANGED <<meas, lost, streaming>> /\ oblig' = Retain
        /\ oblig \in [Keys -> Objs \cup {None, Unknown}] /\ None \notin Addrs /\ None \notin Objs
        /\ Unknown # None /\ Unknown \notin Objs /\ Addrs \subseteq Keys
    BY Configured, ReinitializeMoves, SlotAssumption DEF Reinitialize, IInv, TypesOK, Keys
  <1>1. PICK c \in Keys : c = At(cur)
    BY Configured
  <1>2. oblig' = oblig \/ (oblig' = Oblige(cur) /\ c \in Addrs /\ oblig[c] = None)
    BY <1>0, <1>1 DEF Retain, Keys
  <1>3. \A k \in Keys : oblig'[k] = oblig[k] \/ (oblig[k] = None /\ k = c /\ c \in Addrs /\ oblig'[k] = cur)
    BY <1>0, <1>1, <1>2 DEF Oblige
  <1>4. PhaseOK' /\ cmd'.todo = {}
    BY <1>0, IdlePhase
  <1>5. CASE UNCHANGED <<obj, cur, reg, link, air>>
    <2>1. Set(cur, obj[cur])
      BY <1>0, <1>5, SetSelf
    <2>2. At(cur) \in Addrs /\ Stopped(At(cur)) => oblig[At(cur)] # None \/ obj[cur].quar
      BY <1>0, IdleStops DEF Stopping
    <2>3. obj[cur].pending \/ ~obj[cur].pending
      OBVIOUS
    <2>4. oblig' = oblig \/ oblig' = Oblige(cur)
      BY <1>2
    <2> QED BY <1>0, <1>5, <2>1, <2>2, <2>3, <2>4, EndTrack
  <1>6. CASE ~UNCHANGED <<obj, cur, reg, link, air>>
    <2>1. PICK n \in Objs \ {cur}, q \in Objects :
                 /\ \A k \in Keys : oblig'[k] # n
                 /\ cur' \in {cur, n} /\ obj' = [obj EXCEPT ![n] = Fresh, ![cur] = q]
                 /\ q.addr = obj[cur].addr /\ q.pending = obj[cur].pending
                 /\ \/ /\ q = obj[cur] /\ oblig'[At(cur)] # None /\ UNCHANGED <<link, air>>
                    \/ /\ oblig'[At(cur)] = None
                       /\ q.task = NoTask /\ ~q.proof /\ ~q.client /\ ~q.conn /\ q.quar = obj[cur].quar
                       /\ IF obj[cur].status
                          THEN /\ link' = link \ {obj[cur].addr}
                               /\ air' = [air EXCEPT ![obj[cur].addr] = <<>>]
                          ELSE UNCHANGED <<link, air>>
      BY <1>6, ReinitializeMoves
    <2>2. /\ obj'[n] = Fresh /\ obj'[cur] = q /\ obj' \in [Objs -> Objects]
          /\ \A p \in Objs \ {n, cur} : obj'[p] = obj[p]
      BY <1>0, <2>1, Blank DEF IInv, TypesOK
    <2>3. /\ At(n)' = None /\ \A p \in Objs \ {n} : At(p)' = At(p)
          /\ \A p \in Objs : At(p) \in Keys
      BY <1>0, <2>1, <2>2, Blank, Fields DEF At, IInv, TypesOK
    <2>4. \A k \in Keys : oblig[k] # n
      BY <1>0, <1>3, <2>1
    <2>5. ObligationKeepsIdentity /\ (c \in Addrs => oblig[c] \in {None, cur})
      BY <1>1 DEF TrackInv, OwnerOK
    <2>6. OwnerOK'
      <3>1. ObligationKeepsIdentity'
        BY <1>0, <1>1, <1>3, <2>1, <2>3, <2>5 DEF ObligationKeepsIdentity
      <3>2. At(cur)' \in Addrs => oblig'[At(cur)'] \in {None, cur'}
        <4>1. CASE cur' = n
          <5>1. At(cur)' = None
            BY <4>1, <2>2, Blank DEF At
          <5> QED BY <1>0, <5>1
        <4>2. CASE cur' = cur
          <5>1. At(cur)' = c
            BY <1>1, <2>1, <2>2, <4>2 DEF At
          <5> QED BY <1>3, <2>5, <4>2, <5>1
        <4> QED BY <2>1, <4>1, <4>2
      <3> QED BY <1>4, <3>1, <3>2 DEF OwnerOK
    \* The device of the configured sensor, if it is not owed: quiet, and not stopped.
    <2>7. ASSUME oblig'[c] = None, c \in Addrs
          PROVE  Quiet(c) /\ ~Stopped(c)
      <3>1. oblig[c] = None
        BY <1>0, <1>3, <2>7
      <3>2. ~obj[cur].pending /\ ~obj[cur].quar
        BY <1>0, <1>1, <2>7, <3>1 DEF Retain, Oblige
      <3>3. Live(cur)
        BY <1>1, <2>7 DEF Live
      <3> QED BY <1>0, <1>1, <2>7, <3>1, <3>2, <3>3, TargetQuiet, IdleStops DEF Stopping
    <2>8. ASSUME NEW b \in Addrs
          PROVE  /\ Quiet(b) => Quiet(b)'
                 /\ Stopped(b)' => Stopped(b)
                 /\ \/ air'[b] = air[b] /\ (b \in link' <=> b \in link)
                    \/ air'[b] = <<>> /\ b \notin link' /\ b = c /\ oblig'[c] = None
                 /\ PhysicallyStopped(b) => PhysicallyStopped(b)'
                 /\ AirOK(b)'
      <3>1. \/ air'[b] = air[b] /\ (b \in link' <=> b \in link)
            \/ air'[b] = <<>> /\ b \notin link' /\ b = c /\ oblig'[c] = None
        BY <1>1, <2>1 DEF At, IInv, TypesOK
      <3>2. AirOK(b)
        BY DEF TrackInv
      <3>3. CASE air'[b] = air[b] /\ (b \in link' <=> b \in link)
        BY <1>0, <3>2, <3>3, SameAir DEF AirOK
      <3>4. CASE air'[b] = <<>> /\ b \notin link' /\ b = c /\ oblig'[c] = None
        <4>1. /\ Quiet(b) => Quiet(b)'
              /\ ~Stopped(b)'
              /\ InOrder(air'[b])
              /\ PhysicallyStopped(b) => PhysicallyStopped(b)'
          BY <1>0, <3>4, EmptyAir DEF PhysicallyStopped
        <4> QED BY <3>4, <4>1 DEF AirOK
      <3> QED BY <3>1, <3>3, <3>4
    <2>9. ASSUME NEW p \in Objs
          PROVE  ObjOK(p)'
      <3>1. CASE p = n
        <4>1. At(p)' \notin Addrs
          BY <1>0, <2>3, <3>1
        <4> QED BY <2>2, <3>1, <4>1, Blank DEF ObjOK
      <3>2. CASE p = cur /\ q # obj[cur]
        <4>1. oblig'[c] = None /\ q.task = NoTask /\ ~q.proof /\ ~q.client
          BY <1>1, <2>1, <3>2
        <4>2. obj'[p] = q /\ At(p)' = c
          BY <1>1, <2>2, <2>3, <3>2
        <4>3. c \in Addrs => ~Stopped(c)'
          BY <2>7, <2>8, <4>1
        <4>4. c \in Addrs => ~Stopped(At(p))'
          BY <4>2, <4>3 DEF Stopped
        <4> QED BY <4>1, <4>2, <4>4, Blank DEF ObjOK
      <3>3. CASE p # n /\ (p = cur => q = obj[cur])
        <4>1. obj'[p] = obj[p] /\ At(p)' = At(p) /\ ObjOK(p)
          BY <2>2, <2>3, <3>3 DEF TrackInv
        <4>2. ASSUME Live(p)', At(p) \in Addrs
              PROVE  Live(p)
          <5>1. CASE p = cur
            BY <4>2, <5>1 DEF Live
          <5>2. CASE p # cur
            <6>1. oblig'[At(p)] = p
              BY <2>1, <3>3, <4>1, <4>2, <5>2 DEF Live
            <6>2. oblig[At(p)] = p
              BY <1>0, <1>3, <2>3, <5>2, <6>1
            <6> QED BY <6>2 DEF Live
          <5> QED BY <5>1, <5>2
        <4>3. ASSUME Live(p)', At(p)' \in Addrs
              PROVE  /\ obj'[p].proof => Quiet(At(p))'
                     /\ obj'[p].task.kind = "start" => ~obj'[p].proof
                     /\ obj'[p].task.at = "writing" /\ air'[At(p)'] # <<>>
                          => air'[At(p)'][Len(air'[At(p)'])] = [o |-> p, kind |-> obj'[p].task.kind]
                     /\ obj'[p].task.at = "acked" /\ obj'[p].task.kind = "stop" => PhysicallyStopped(At(p))'
                     /\ ~obj'[p].client => ~Stopped(At(p))'
                     /\ obj'[p].client /\ ~obj'[p].conn => At(p)' \notin link'
          <5>1. PICK a \in Addrs : a = At(p) /\ a = At(p)'
            BY <4>1, <4>3
          <5>2. Live(p)
            BY <4>2, <4>3, <5>1
          <5>3. /\ Quiet(a) => Quiet(a)'
                /\ Stopped(a)' => Stopped(a)
                /\ \/ air'[a] = air[a] /\ (a \in link' <=> a \in link)
                   \/ air'[a] = <<>> /\ a \notin link'
                /\ PhysicallyStopped(a) => PhysicallyStopped(a)'
            BY <2>8
          <5>4. /\ Quiet(a)' => Quiet(At(p))'
                /\ Stopped(At(p))' => Stopped(a)'
                /\ PhysicallyStopped(a)' => PhysicallyStopped(At(p))'
            BY <5>1 DEF Quiet, Starting, Stopped, PhysicallyStopped
          <5> QED BY <4>1, <5>1, <5>2, <5>3, <5>4 DEF ObjOK
        <4>4. obj'[p].task.at \in {"writing", "acked"} => At(p)' \in Addrs
          BY <4>1 DEF ObjOK
        <4> QED BY <4>3, <4>4 DEF ObjOK
      <3> QED BY <3>1, <3>2, <3>3
    <2>10. c \in Addrs /\ oblig'[c] # None => oblig'[c] = cur
      BY <1>3, <2>5
    <2>11. ASSUME NEW b \in Addrs
           PROVE  Tracked(b)' /\ StopOwed(b)'
      <3>0. Tracked(b) /\ StopOwed(b) /\ (oblig[b] # None => oblig'[b] = oblig[b])
        BY <1>0, <1>3 DEF TrackInv
      <3>1. \A p \in Objs \ {n} : obj'[p].pending = obj[p].pending
        BY <2>1, <2>2
      <3>2. ASSUME ~Quiet(b)
            PROVE  oblig'[b] = Unknown \/ (oblig'[b] \in Objs /\ obj'[oblig'[b]].pending)
        <4>1. CASE oblig[b] = Unknown
          BY <1>0, <3>0, <4>1
        <4>2. CASE oblig[b] \in Objs /\ obj[oblig[b]].pending
          BY <1>0, <2>4, <3>0, <3>1, <4>2
        <4>3. CASE At(cur) = b /\ obj[cur].pending
          <5>1. b = c /\ oblig'[c] = cur
            BY <1>1, <2>7, <2>10, <3>2, <4>3
          <5> QED BY <1>0, <2>1, <3>1, <4>3, <5>1
        <4> QED BY <3>0, <3>2, <4>1, <4>2, <4>3 DEF Tracked
      <3>3. Tracked(b)'
        BY <2>8, <3>2 DEF Tracked
      <3>4. Stopped(b) => oblig'[b] # None
        <4>1. CASE b = c
          BY <2>7, <4>1
        <4>2. CASE b # c
          BY <1>1, <3>0, <4>2 DEF StopOwed
        <4> QED BY <4>1, <4>2
      <3>5. StopOwed(b)'
        BY <2>8, <3>4 DEF StopOwed
      <3> QED BY <3>3, <3>5
    <2> QED BY <1>4, <2>6, <2>8, <2>9, <2>11 DEF TrackInv
  <1> QED BY <1>5, <1>6

-----------------------------------------------------------------------------
(* Tracking. *)

\* Initially no device measures and nothing is queued.
LEMMA InitTrack == Init => TrackInv
  <1> SUFFICES ASSUME Init PROVE TrackInv
    OBVIOUS
  <1>1. /\ cur \in Objs /\ \A o \in Objs : obj[o] = Fresh /\ At(o) = None
        /\ \A k \in Keys : oblig[k] = None
        /\ cmd = Idle /\ cmd.op = "idle" /\ cmd.pc = "-" /\ cmd.o = None /\ cmd.todo = {}
        /\ None \notin Addrs /\ None \notin Objs
    BY Blank, SlotAssumption DEF Init, At
  <1>2. OwnerOK
    BY <1>1 DEF OwnerOK, ObligationKeepsIdentity
  <1>3. PhaseOK
    BY <1>1, Blank DEF Init, PhaseOK, Stopping
  <1>4. \A o \in Objs : ObjOK(o)
    BY <1>1, Blank DEF ObjOK
  <1>5. ASSUME NEW a \in Addrs
        PROVE  AirOK(a) /\ Tracked(a) /\ StopOwed(a)
    <2>1. air[a] = <<>> /\ a \notin meas /\ a \notin link
      BY DEF Init
    <2> QED BY <2>1 DEF AirOK, InOrder, Tracked, Quiet, Starting, StopOwed, Stopped
  <1> QED BY <1>2, <1>3, <1>4, <1>5 DEF TrackInv

\* Every step keeps the measuring devices tracked.
LEMMA StepTrack ==
  ASSUME Searches = {}
  PROVE  IInv /\ TrackInv /\ [Next]_vars => TrackInv'
  <1> SUFFICES ASSUME IInv, TrackInv, [Next]_vars PROVE TrackInv'
    OBVIOUS
  <1>1. CASE UNCHANGED vars
    BY <1>1 DEF vars, TrackInv, OwnerOK, ObligationKeepsIdentity, At, Live, PhaseOK, ObjOK,
       AirOK, InOrder, Tracked, StopOwed, Quiet, Starting, Stopped, PhysicallyStopped
  <1>2. ASSUME NEW o \in Objs,
               HostEnter(o) \/ HostWrite(o) \/ WriteUnconfirmed(o) \/ HostReturn(o)
               \/ WorkerEnds(o) \/ HostCrash(o) \/ RetireConfirmed(o) \/ Reconcile(o)
        PROVE  TrackInv'
    BY <1>2, HostEnterTrack, HostWriteTrack, WriteUnconfirmedTrack, HostReturnTrack, WorkerEndsTrack,
       HostCrashTrack, RetireConfirmedTrack, ReconcileTrack
  <1>3. ASSUME NEW a \in Addrs, Execute(a) \/ LinkLoss(a) \/ LossEvent(a) \/ PowerCycle(a)
        PROVE  TrackInv'
    BY <1>3, ExecuteTrack, LinkLossTrack, LossEventTrack
  <1>4. CASE Discover \/ Connect \/ Start \/ LifecycleEnds \/ LifecycleTimesOut
             \/ Stop \/ StopEnds \/ StopTimesOut \/ CoreGivesUp
    BY <1>4, DiscoverTrack, ConnectTrack, StartTrack, LifecycleEndsTrack, LifecycleTimesOutTrack,
       StopTrack, StopEndsTrack, StopTimesOutTrack, CoreGivesUpTrack
  <1>5. CASE Cleanup \/ CleanupStopEnds \/ CleanupStopTimesOut \/ CleanupDisconnects \/ CleanupRetires
    BY <1>5, CleanupTrack, CleanupStopEndsTrack, CleanupStopTimesOutTrack, CleanupDisconnectsTrack,
       CleanupRetiresTrack
  <1>6. CASE Recover \/ ReconcileStopEnds \/ ReconcileDisconnects \/ RecoverEnds \/ Reinitialize
    BY <1>6, RecoverTrack, ReconcileStopEndsTrack, ReconcileDisconnectsTrack, RecoverEndsTrack,
       ReinitializeTrack
  <1> QED BY <1>1, <1>2, <1>3, <1>4, <1>5, <1>6 DEF Next

\* The tracking invariant holds in every reachable state.
LEMMA TrackInvariant ==
  ASSUME Searches = {}
  PROVE  Spec => [](IInv /\ TrackInv)
  BY InitLate, StepLate, InitTrack, StepTrack, PTL DEF Spec

\* A device that measures, or has a START on its way, is an obligation or the pending
\* measurement of the configured sensor: no timeout, lost response, late worker, host
\* crash, link loss, cleanup, reset or reconfiguration forgets it (cleanup_service,
\* SensorManager).  A client that searches for an unresolved slot, or finds a device
\* that is owed a STOP, can break this: Searches is empty.
THEOREM MeasuringIsNeverForgotten ==
  ASSUME Searches = {}
  PROVE  Spec => []MeasuringIsTracked
  <1>1. IInv /\ TrackInv => MeasuringIsTracked
    <2> SUFFICES ASSUME IInv, TrackInv, NEW a \in Addrs, ~Quiet(a)
                 PROVE  oblig[a] # None \/ (At(cur) = a /\ obj[cur].pending)
      BY DEF MeasuringIsTracked, Quiet, Starting
    <2>1. Tracked(a)
      BY DEF TrackInv
    <2> QED BY <2>1, SlotAssumption DEF Tracked
  <1> QED BY <1>1, TrackInvariant, PTL

\* A STOP of an earlier session never ends a later one: no START is queued behind a
\* STOP, and no STOP is at work in the configured sensor while a START is reported
\* (_call_lifecycle, StreamingService.stop).
THEOREM LateStopsAreHarmless ==
  ASSUME Searches = {}
  PROVE  Spec => []LateStopHarmless
  <1>1. IInv /\ TrackInv => LateStopHarmless
    BY DEF TrackInv, AirOK, InOrder, PhaseOK, LateStopHarmless
  <1> QED BY <1>1, TrackInvariant, PTL

\* The sensor object retained for an address is bound to that address: the STOP that
\* resolves an obligation reaches the device it is about (recovery_obligations).
THEOREM ObligationsKeepIdentity ==
  ASSUME Searches = {}
  PROVE  Spec => []ObligationKeepsIdentity
  <1>1. TrackInv => ObligationKeepsIdentity
    BY DEF TrackInv, OwnerOK
  <1> QED BY <1>1, TrackInvariant, PTL
=============================================================================

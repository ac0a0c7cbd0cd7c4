------------------------------- MODULE MdnsInv -------------------------------
(* The inductive invariant of MdnsService: types, the order of the         *)
(* transmit queue, the packet each machine waits for, and the actions that *)
(* marked packets wait for.                                                *)
EXTENDS MdnsService

Kinds == {"PTR", "SDPTR", "SRV", "TXT", "A"}
Names == {"host", "inst", "type", "sd"} \X Nat
Questions == [t : Kinds \cup {"ANY"}, n : Names]
Records == [t : Kinds, n : Names, v : Nat, long : BOOLEAN]

Messages ==
    [src : Nat, i : Ifaces, resp : BOOLEAN, legacy : BOOLEAN, qs : Seq(Questions),
     an : Seq(Records), ns : Seq(Records), ar : Seq(Records)]

Packets ==
    [at : Nat, i : Ifaces, left : 0 .. Second, queued : BOOLEAN, resp : BOOLEAN, bye : BOOLEAN,
     qs : Seq(Questions), an : Seq(Kinds), ns : Seq(Kinds), ar : Seq(Kinds)]

Pcbs == [state : {OFF} \cup PROBE_1 .. RUNNING, svcs : SUBSET {"http"}, ip : BOOLEAN, running : BOOLEAN]

Counts == [n : Nat, host : 0 .. 3, svc : 0 .. 3]

Actions ==
    {None, <<"hostname">>} \cup ({"tx"} \X Nat) \cup ({"rx"} \X Messages)
    \cup ({"event"} \X Ifaces \X BOOLEAN)

Device ==
    [ip : Nat, host : Nat, svc : Nat, up : SUBSET Ifaces, ready : SUBSET Ifaces,
     pcb : [Ifaces -> Pcbs], txq : Seq(Packets), out : Seq(Messages),
     probed : [Ifaces -> Counts], aq : Seq(Actions), held : Actions \cup {<<>>},
     timer : Nat, app : {"off", "name", "wait", "add", "done"}, named : BOOLEAN]

Frames ==
    [d : Device, m : Messages, qs : Seq(Questions),
     probe : BOOLEAN, known : BOOLEAN, quiet : BOOLEAN, directory : BOOLEAN]

-----------------------------------------------------------------------------
\* The transmit queue is in the order of time, and has no address twice.
QueueOK(q) ==
    \A j, k \in DOMAIN q : j < k => q[j].left <= q[k].left /\ q[j].at # q[k].at

\* The marked packets are the first ones of the queue and due, and their actions
\* are among `acts`, in the same order.
Marked(q) == {k \in DOMAIN q : q[k].queued}
MarkOK(q, acts) ==
    /\ \A k \in Marked(q) : q[k].left = 0 /\ \A j \in 1 .. k : j \in Marked(q)
    /\ \E g \in [Marked(q) -> DOMAIN acts] :
          /\ \A k \in Marked(q) : acts[g[k]] = <<"tx", q[k].at>>
          /\ \A j, k \in Marked(q) : j < k => g[j] < g[k]

\* The actions still to be executed.
Acts(d) == IF d.held = <<>> THEN d.aq ELSE <<d.held>> \o d.aq

\* What the handlers keep: `acts` is what is still to be executed after them, and
\* `sure` that every push found room.
BaseOK(d, acts, sure) ==
    /\ d \in Device /\ d.svc \in {0, d.host}
    /\ QueueOK(d.txq)
    /\ sure => MarkOK(d.txq, acts)

\* The packet that a probe of device d for what its machine claims asks with.
IsProbe(d, i, p) ==
    LET asked == ToSet(p.qs)
    IN  /\ ~p.resp
        /\ \A q \in asked : q.n \in {<<"host", d.host>>, Instance(d)}
        /\ d.pcb[i].svcs # {} => [t |-> "ANY", n |-> Instance(d)] \in asked

MachineOK(d, i) ==
    LET mine == PacketsOf(d, i)
    IN  /\ d.pcb[i].running => Probing(d.pcb[i])
        /\ Probing(d.pcb[i]) => \E k \in mine : mine = {k} /\ IsProbe(d, i, d.txq[k])
        /\ d.pcb[i].state \in ANNOUNCE_1 .. ANNOUNCE_3 => mine # {}

\* Interfaces that are not ready have no machine to speak of: a message that came
\* before they went down may start one.
MachinesBut(d, is) == \A i \in d.ready \ is : MachineOK(d, i)

\* Without a host name nothing is probed.
NamelessIdle(d) ==
    d.host = 0 => \A i \in Ifaces : ~Probing(d.pcb[i]) /\ ~d.pcb[i].running

HandledOK(d, acts, sure, is) == BaseOK(d, acts, sure) /\ NamelessIdle(d) /\ MachinesBut(d, is)

\* While the timer pushes packets, those before its place are marked.
TimerOK(d, sure) ==
    /\ d.timer \in 0 .. Len(d.txq) + 1
    /\ d.app = "off" => d.timer = 0
    /\ sure /\ d.timer # 0 => \A k \in DOMAIN d.txq : k \in Marked(d.txq) <=> k < d.timer

DeviceOK(d, sure) ==
    /\ HandledOK(d, Acts(d), sure, {}) /\ TimerOK(d, sure)
    /\ Len(d.aq) <= QueueLen

Sure(x) == "push" \notin full[x]

MdnsInv ==
    /\ dev = [x \in Devices |-> dev[x]] /\ full = [x \in Devices |-> full[x]]
    /\ \A x \in Devices : DeviceOK(dev[x], Sure(x))

-----------------------------------------------------------------------------
\* How often the present name was asked for on an interface.
Asked(d, i) ==
    IF d.probed[i].n = d.host THEN d.probed[i] ELSE [n |-> d.host, host |-> 0, svc |-> 0]

\* A name that was asked for n times was so as often as the machine thinks: three
\* times, or it is among what is being probed and every probe counted was sent.
Counted(n, pcb, among) ==
    \/ n = 3
    \/ Probing(pcb) /\ among /\ n >= pcb.state - PROBE_1

AsksHost(d, p) == [t |-> "ANY", n |-> <<"host", d.host>>] \in ToSet(p.qs)

HostEarned(d, i) ==
    LET pcb == d.pcb[i]
    IN  d.host # 0 =>
          /\ Counted(Asked(d, i).host, pcb, pcb.ip)
          /\ Probing(pcb) /\ pcb.ip => \A p \in ToSet(d.txq) : p.i = i => AsksHost(d, p)

SvcEarned(d, i) ==
    LET pcb == d.pcb[i]
    IN  d.svc # 0 => Counted(Asked(d, i).svc, pcb, pcb.svcs # {})

EarnedOK(d, i) == HostEarned(d, i) /\ SvcEarned(d, i)

\* Only what the device has is claimed or probed.
HasOwn(d, p) ==
    /\ p.resp => d.host # 0
    /\ "SRV" \in ToSet(p.an) \cup ToSet(p.ns) => d.svc # 0

OwnOK(d) ==
    /\ \A p \in ToSet(d.txq) : HasOwn(d, p)
    /\ \A i \in Ifaces : d.pcb[i].svcs # {} => d.svc # 0

IsClaim(m, r) == m.resp /\ r.long /\ r.t \in {"A", "SRV"}

\* What was claimed on an interface during the step was probed there.
ClaimsOK(d, i) ==
    \A m \in ToSet(d.out) : \A r \in ToSet(m.an) : m.i = i /\ IsClaim(m, r) =>
        /\ d.probed[i].n = r.n[2]
        /\ (IF r.t = "A" THEN d.probed[i].host ELSE d.probed[i].svc) = 3

\* Nothing is said between the execution of two actions, and an interface of
\* which no end was reported is up.
ServedOK(d, sure) ==
    /\ OwnOK(d)
    /\ d.app = "off" => d.ready = {} /\ d.out = <<>> /\ d.held = <<>>
    /\ d.held # <<>> => d.out = <<>>
    /\ sure => \A i \in Trusted(d, Acts(d)) : i \in d.up /\ EarnedOK(d, i) /\ ClaimsOK(d, i)

ProbedInv == \A x \in Devices : ServedOK(dev[x], "event" \notin full[x])

-----------------------------------------------------------------------------
\* Addresses of devices are numbers, other hosts say what the parser can read, and
\* memory does not run out.
IpsAreNumbers == \A x \in Devices : Ip[x] \in Nat
ScenariosOK == \A e \in Scenarios : e.up \subseteq Ifaces
ForeignReadable == \A d \in Device : Foreign(d) \subseteq Messages
EnoughAddrs == Addrs \subseteq Nat /\ \A S : IsFiniteSet(S) => Addrs \ S # {}
=============================================================================

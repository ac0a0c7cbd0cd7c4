----------------------------- MODULE MdnsService -----------------------------
(***************************************************************************)
(* The mDNS service of the web interface as a whole: the queue of actions, *)
(* the service task that executes them, the timer that pushes the packets  *)
(* that are due, the system events, the application's calls at start       *)
(* (main/web_interface.c) and the network between several devices.         *)
(*                                                                         *)
(* A device record d has the fields of MdnsSend and                        *)
(*   aq     the action queue: <<"tx", address>>, <<"rx", message>>,        *)
(*          <<"event", interface, enable>>, <<"hostname">>, <<"none">>     *)
(*   held   the action that the task took and did not execute yet          *)
(*   timer  the place in txq up to which the timer got while it has the    *)
(*          service lock, 0 while it does not have it                      *)
(*   app    where the application is: off, name, wait, add, done           *)
(*   named  the semaphore that hostname_set waits for                      *)
(*                                                                         *)
(* The task takes an action before it waits for the lock, so while the     *)
(* timer pushes packets a place in the queue can become free.              *)
(***************************************************************************)
EXTENDS MdnsReceive

CONSTANTS
    Devices,     \* the devices of this make, all with the same host name
    Ip,          \* the address of each
    Foreign(_),  \* what other hosts may say, given the state of a device
    QueueLen,    \* CONFIG_MDNS_ACTION_QUEUE_LEN
    Scenarios    \* environments: [on, up, step, fired, foreign, events, losses],
                 \* the devices in use, the interfaces that are up at the start, if
                 \* the timers keep step, and how many foreign messages, interface
                 \* events and losses there may be

ASSUME MdnsAssumption ==
    /\ QueueLen \in Nat \ {0}
    /\ \A x, y \in Devices : x # y => Ip[x] # Ip[y]

VARIABLES
    dev,   \* the devices
    env,   \* the scenario, with what is left of its bounds
    full   \* per device what a full queue cost: "event", "name", "push", "rx"

vars == <<dev, env, full>>

None == <<"none">>

NotProbed == [n |-> 0, host |-> 0, svc |-> 0]

NewDevice(x, up) ==
    [ip |-> Ip[x], host |-> 0, svc |-> 0, up |-> up, ready |-> {},
     pcb |-> [i \in Ifaces |-> IdlePcb], txq |-> <<>>, out |-> <<>>,
     probed |-> [i \in Ifaces |-> NotProbed],
     aq |-> <<>>, held |-> <<>>, timer |-> 0, app |-> "off", named |-> FALSE]

Init ==
    /\ env \in Scenarios
    /\ dev = [x \in Devices |-> NewDevice(x, IF x \in env.on THEN env.up ELSE {})]
    /\ full = [x \in Devices |-> {}]

-----------------------------------------------------------------------------
(* The action queue *)

HasRoom(d) == Len(d.aq) < QueueLen

\* mdns_priv_queue_action: no waiting; what does not fit is gone.
Queued(d, a) == IF HasRoom(d) THEN [d EXCEPT !.aq = Append(@, a)] ELSE d

\* The change of `full` when something is posted for x.
Posted(x, d, what) ==
    full' = IF HasRoom(d) THEN full ELSE [full EXCEPT ![x] = @ \cup {what}]

QueuedAll(d, as) ==
    LET room == QueueLen - Len(d.aq)
    IN  [d EXCEPT !.aq = @ \o SubSeq(as, 1, IF Len(as) < room THEN Len(as) ELSE room)]

-----------------------------------------------------------------------------
(* The application: init_mdns *)

\* mdns_priv_netif_init: every interface of the table that has an address is
\* enabled; the access point has its fixed one from the start.
NetifInit(d) == PcbEnable(IF "sta" \in d.up THEN PcbEnable(d, "sta") ELSE d, "ap")

\* mdns_init: the interfaces are enabled and the task and the timer started.
AppInit(x) ==
    /\ x \in env.on /\ dev[x].app = "off"
    /\ dev' = [dev EXCEPT ![x] = [NetifInit(@) EXCEPT !.app = "name"]]
    /\ UNCHANGED <<env, full>>

\* mdns_hostname_set: posts the action and waits for it; the result of a post
\* that fails is not looked at.
AppSetHostname(x) ==
    /\ dev[x].app = "name"
    /\ dev' = [dev EXCEPT ![x] = [Queued(@, <<"hostname">>) EXCEPT
                                    !.app = IF HasRoom(dev[x]) THEN "wait" ELSE "add"]]
    /\ Posted(x, dev[x], "name")
    /\ UNCHANGED env

AppNamed(x) ==
    /\ dev[x].app = "wait" /\ dev[x].named
    /\ dev' = [dev EXCEPT ![x].app = "add", ![x].named = FALSE]
    /\ UNCHANGED <<env, full>>

\* mdns_service_add: fails without a host name, works under the lock.
AppAddService(x) ==
    /\ dev[x].app = "add"
    /\ dev[x].host # 0 => dev[x].timer = 0
    /\ dev' = [dev EXCEPT ![x] =
            [(IF @.host = 0 THEN @ ELSE ServiceAdd(@)) EXCEPT !.app = "done"]]
    /\ UNCHANGED <<env, full>>

-----------------------------------------------------------------------------
(* The timer: timer_cb, mdns_priv_send_packets *)

Waiting(d) == {k \in DOMAIN d.txq : ~d.txq[k].queued}

\* A period has passed; the timer takes the lock and looks for the first packet
\* that was not pushed yet.
Tick(d) ==
    [d EXCEPT !.txq = [k \in DOMAIN d.txq |-> [d.txq[k] EXCEPT !.left = IF @ = 0 THEN 0 ELSE @ - 1]],
              !.timer = IF Waiting(d) = {} THEN 0 ELSE Min(Waiting(d))]

\* Timers that keep step have the same period, and the task is done with its
\* queue and the application with its calls within it; others go at any pace.
InStep(x) ==
    /\ env.step => /\ x \notin env.fired /\ dev[x].app = "done"
                   /\ dev[x].aq = <<>> /\ dev[x].held = <<>>
    /\ LET round == env.fired \cup {x}
           all == {y \in env.on : dev[y].app # "off"}
       IN  env' = [env EXCEPT !.fired = IF ~env.step \/ all \subseteq round THEN {} ELSE round]

TimerTick(x) ==
    /\ dev[x].app # "off" /\ dev[x].timer = 0
    /\ dev' = [dev EXCEPT ![x] = Tick(@)]
    /\ InStep(x)
    /\ UNCHANGED full

\* The next packet, if it is due: pushed, whether or not it was before.
TimerPush(x) ==
    LET d == dev[x]
        k == d.timer
    IN  /\ k # 0 /\ k <= Len(d.txq) /\ d.txq[k].left = 0
        /\ dev' = [dev EXCEPT ![x] =
                [Queued(d, <<"tx", d.txq[k].at>>) EXCEPT
                    !.txq[k].queued = HasRoom(d), !.timer = k + 1]]
        /\ Posted(x, d, "push")
        /\ UNCHANGED env

TimerDone(x) ==
    LET d == dev[x]
    IN  /\ d.timer # 0
        /\ d.timer <= Len(d.txq) => d.txq[d.timer].left > 0
        /\ dev' = [dev EXCEPT ![x].timer = 0]
        /\ UNCHANGED <<env, full>>

-----------------------------------------------------------------------------
(* The service task: service_task, execute_action *)

Take(x) ==
    /\ dev[x].app # "off" /\ dev[x].held = <<>> /\ dev[x].aq # <<>>
    /\ LET aq == dev[x].aq
       IN  dev' = [dev EXCEPT ![x] = [@ EXCEPT !.held = Head(aq), !.aq = Tail(aq), !.out = <<>>]]
    /\ UNCHANGED <<env, full>>

\* mdns_priv_receive_action
ExecuteReceive(d, m) == ParsePacket(d, m)

\* mdns_priv_responder_action gives the semaphore at the end.
ExecuteHostname(d) == [HostnameSet(d, 1) EXCEPT !.named = TRUE]

Executed(d) ==
    LET a == d.held
        e == [d EXCEPT !.held = <<>>]
    IN  CASE a[1] = "tx" -> SendPacket(e, a[2])
          [] a[1] = "rx" -> ExecuteReceive(e, a[2])
          [] a[1] = "event" -> IF a[3] THEN PcbEnable(e, a[2]) ELSE PcbDisable(e, a[2])
          [] a[1] = "hostname" -> ExecuteHostname(e)
          [] a[1] = "none" -> e

\* receive: the interface that the datagram came in by is looked up by its netif.
Heard(d, ms) == IF CanSend(d, "sta") THEN OnInterfaces(ms, {"sta"}) ELSE <<>>

\* send_rx_action: a message on the shared network reaches every device that
\* listens and has room for it.
Deliver(ds, x, ms) ==
    [y \in Devices |->
        IF y = x THEN ds[x]
        ELSE LET heard == Heard(ds[y], ms)
             IN  QueuedAll(ds[y], [k \in DOMAIN heard |-> <<"rx", heard[k]>>])]

Execute(x) ==
    LET d == Executed(dev[x])
        now == [dev EXCEPT ![x] = d]
        deaf == {y \in Devices \ {x} : ~HasRoom(dev[y]) /\ Heard(dev[y], d.out) # <<>>}
    IN  /\ dev[x].held # <<>> /\ dev[x].timer = 0
        /\ \/ /\ dev' = Deliver(now, x, d.out)
              /\ full' = [y \in Devices |-> IF y \in deaf THEN full[y] \cup {"rx"} ELSE full[y]]
              /\ UNCHANGED env
           \/ /\ d.out # <<>> /\ env.losses > 0
              /\ dev' = now
              /\ env' = [env EXCEPT !.losses = @ - 1]
              /\ UNCHANGED full

-----------------------------------------------------------------------------
(* The environment: handle_system_event_for_preset and other hosts *)

\* The stack changes and the handler posts; before mdns_init there is none.
Event(x, up, posts) ==
    /\ x \in env.on /\ env.events > 0
    /\ env' = [env EXCEPT !.events = @ - 1]
    /\ LET d == [dev[x] EXCEPT !.up = up]
       IN  IF d.app = "off" THEN dev' = [dev EXCEPT ![x] = d] /\ UNCHANGED full
           ELSE /\ dev' = [dev EXCEPT ![x] = QueuedAll(d, posts)]
                /\ Posted(x, d, "event")

\* IP_EVENT_STA_GOT_IP: enable IPv4, announce IPv6, send the browse queries.
StaUp(x) ==
    /\ "sta" \notin dev[x].up
    /\ Event(x, dev[x].up \cup {"sta"}, <<<<"event", "sta", TRUE>>, None, None>>)

\* WIFI_EVENT_STA_DISCONNECTED: disable IPv4 and IPv6.
StaDown(x) ==
    /\ "sta" \in dev[x].up
    /\ Event(x, dev[x].up \ {"sta"}, <<<<"event", "sta", FALSE>>, None>>)

\* WIFI_EVENT_AP_START
ApStart(x) ==
    /\ "ap" \notin dev[x].up
    /\ Event(x, dev[x].up \cup {"ap"}, <<<<"event", "ap", TRUE>>>>)

\* Another host on an interface says something about our names.
HearForeign(x) ==
    /\ env.foreign > 0
    /\ \E i \in {j \in Ifaces : CanSend(dev[x], j)}, m \in Foreign(dev[x]) :
            /\ dev' = [dev EXCEPT ![x] = Queued(@, <<"rx", [m EXCEPT !.i = i]>>)]
            /\ Posted(x, dev[x], "rx")
    /\ env' = [env EXCEPT !.foreign = @ - 1]

-----------------------------------------------------------------------------

App(x) == AppInit(x) \/ AppSetHostname(x) \/ AppNamed(x) \/ AppAddService(x)

Timer(x) == TimerTick(x) \/ TimerPush(x) \/ TimerDone(x)

Task(x) == Take(x) \/ Execute(x)

Environment(x) == StaUp(x) \/ StaDown(x) \/ ApStart(x) \/ HearForeign(x)

Next == \E x \in Devices : App(x) \/ Timer(x) \/ Task(x) \/ Environment(x)

Spec == Init /\ [][Next]_vars

\* The tasks run and the timer fires; nothing is assumed of the environment.  For
\* the task that executes and the application it is WF_vars with the states in
\* which they can step written out, which TLC evaluates faster than ENABLED.
ExecuteReady(x) == dev[x].held # <<>> /\ dev[x].timer = 0

AppReady(x) ==
    \/ x \in env.on /\ dev[x].app \in {"off", "name"}
    \/ dev[x].app = "wait" /\ dev[x].named
    \/ dev[x].app = "add" /\ (dev[x].host # 0 => dev[x].timer = 0)

Fairness(x) ==
    /\ WF_vars(Timer(x)) /\ WF_vars(Take(x))
    /\ []<>~ExecuteReady(x) \/ []<><<dev[x].held # <<>> /\ dev'[x].held = <<>>>>_vars
    /\ []<>~AppReady(x) \/ []<><<dev'[x].app # dev[x].app>>_vars

FairSpec == Spec /\ \A x \in Devices : Fairness(x)

-----------------------------------------------------------------------------
(* Properties *)

\* The static state of every device is well formed; the transmit queue is in the
\* order of time, holds each packet once, and fits the addresses of the
\* allocator (mdns_send.c).
MdnsTypeOK ==
    \A x \in Devices :
        LET d == dev[x]
        IN  /\ Len(d.aq) <= QueueLen
            /\ d.host \in Nat /\ d.svc \in {0, d.host}
            /\ d.ready \cup d.up \subseteq Ifaces
            /\ \A i \in Ifaces : d.pcb[i].state \in {OFF} \cup PROBE_1 .. RUNNING
            /\ \A i \in d.ready : d.pcb[i].running => Probing(d.pcb[i])
            /\ d.timer \in 0 .. Len(d.txq) + 1
            /\ \A j, k \in DOMAIN d.txq : j < k =>
                    d.txq[j].left <= d.txq[k].left /\ d.txq[j].at # d.txq[k].at

PacketsOf(d, i) == {k \in DOMAIN d.txq : d.txq[k].i = i}

\* The probe and announce machine has no timer of its own: it moves only when a
\* packet of its interface is sent.  So while it probes there is exactly one such
\* packet, which asks for the names that the device has now (its questions point
\* to the host name, which a conflict frees), and while it announces there is at
\* least one.
MachineHasPacket ==
    \A x \in Devices : \A i \in dev[x].ready :
        LET d == dev[x]
            mine == PacketsOf(d, i)
        IN  /\ Probing(d.pcb[i]) =>
                \E k \in mine :
                    LET asked == ToSet(d.txq[k].qs)
                    IN  /\ mine = {k} /\ ~d.txq[k].resp
                        /\ \A q \in asked : q.n \in {<<"host", d.host>>, Instance(d)}
                        /\ d.pcb[i].svcs # {} => [t |-> "ANY", n |-> Instance(d)] \in asked
            /\ d.pcb[i].state \in ANNOUNCE_1 .. ANNOUNCE_3 => mine # {}

\* A packet that is marked as pushed has an action on its way, so nothing waits
\* forever behind it: send_packet sends the head only, and the timer looks for
\* the first packet without the mark.  It takes that every push found room.
MarkedIsPushed ==
    \A x \in Devices :
        LET d == dev[x]
        IN  "push" \notin full[x] =>
                \A k \in DOMAIN d.txq : d.txq[k].queued =>
                    <<"tx", d.txq[k].at>> \in ToSet(d.aq) \cup {d.held}

\* A device claims its address or its service on an interface only after it
\* asked there three times, under the same name, whether somebody has it
\* (goodbyes aside).  It takes that no interface event was dropped and that the
\* interface did not go down behind the task's back: a probe that is due while
\* the stack has the interface down is not sent, and counted as if it was.
Trusted(d, acts) == {i \in d.ready : <<"event", i, FALSE>> \notin ToSet(acts)}

ProbedBeforeClaimed ==
    \A x \in Devices : "event" \notin full[x] =>
        \A m \in ToSet(dev[x].out) : \A r \in ToSet(m.an) :
            m.resp /\ r.long /\ r.t \in {"A", "SRV"}
            /\ m.i \in Trusted(dev[x], dev[x].aq) =>
                LET p == dev[x].probed[m.i]
                IN  p.n = r.n[2] /\ (IF r.t = "A" THEN p.host ELSE p.svc) = 3

Established(d) ==
    /\ "sta" \in d.ready \cap d.up /\ d.host # 0 /\ d.pcb["sta"].state = RUNNING
    /\ d.txq = <<>> /\ d.aq = <<>> /\ d.held = <<>>

\* Two devices on one network never both end up established under one name, in
\* whatever order they start and probe, even if any two messages are lost.
EstablishedNamesDiffer ==
    \A x, y \in Devices :
        x # y /\ Established(dev[x]) /\ Established(dev[y])
        /\ "rx" \notin full[x] \cup full[y] =>
            dev[x].host # dev[y].host

\* Once the environment is quiet, every interface that is up is served under an
\* established name: the announce machine of no interface stands still.  It
\* takes that the queue was never full when it mattered.
Settles ==
    \A x \in Devices : <>[](
        x \in env.on /\ full[x] = {} =>
            /\ dev[x].host # 0 /\ dev[x].svc # 0
            /\ \A i \in dev[x].up : i \in dev[x].ready /\ dev[x].pcb[i].state = RUNNING)

=============================================================================

------------------------------ MODULE MdnsSend ------------------------------
(***************************************************************************)
(* The transmit side of the mDNS library: packets, the queue they wait in  *)
(* and their dispatch (mdns_send.c, mdns_networking_lwip.c).  A device is  *)
(* a record d that holds the library's static state:                       *)
(*   ip     the address of the device on its interfaces                    *)
(*   host   the host name: 0 not set, 1 as configured, 2 its "-2", ...     *)
(*   svc    the host name in the service record, 0 without a service       *)
(*   up     the interfaces that the network stack has up                   *)
(*   ready  the interfaces that joined the multicast group                 *)
(*   pcb    per interface the probe and announce machine (MdnsPcb)         *)
(*   txq    the packets that wait, in the order of their time              *)
(*   out    the messages sent during the current step                      *)
(*   probed per interface how often the name was probed (for a property)   *)
(* and the queues of MdnsService.  The handlers are functions of d.        *)
(*                                                                         *)
(* Time is counted in periods of the library's timer: `left` is the number *)
(* of periods until send_at.  Only IPv4 is modelled (the firmware creates  *)
(* no IPv6 address); an A below is the pair A and AAAA of the code.        *)
(*                                                                         *)
(* A message of the model is a record                                      *)
(*   [resp, legacy, src, i, qs, an, ns, ar]                                *)
(* with questions [t, n] and records [t, n, v, long]; n is a name          *)
(* <<form, h>>: a host, a service instance, a service type or the service  *)
(* directory; h is the host name (1 the configured one, 2 its "-2", ...);  *)
(* v stands for the data of the record and `long` for a time to live above *)
(* half of the full one.                                                   *)
(***************************************************************************)
EXTENDS Naturals, Sequences, SequencesExt, FiniteSets

CONSTANT Addrs  \* the addresses that the allocator hands out for packets

\* s_esp_netifs: the interfaces of the table, where "sta" is the first; Ethernet,
\* its third entry, never comes up on this board.
Ifaces == {"sta", "ap"}

Soon == 0       \* at once
Shared == 1     \* 25 to 100 ms: an answer that others may give too
Quarter == 2    \* 120 to 250 ms: between probes
Second == 3     \* 1000 ms: between announcements

Services(d) == IF d.svc = 0 THEN {} ELSE {"http"}

\* mdns_utils_get_service_instance_name: the service has no instance name of
\* its own, so the host name is its instance name.
Instance(d) == <<"inst", d.host>>

\* mdns_priv_alloc_packet: the lowest free address, so an address is used again
\* as soon as the packet that had it is freed.
Alloc(d, busy) == Min((Addrs \ {d.txq[k].at : k \in DOMAIN d.txq}) \ busy)

Packet(at, i) ==
    [at |-> at, i |-> i, left |-> 0, queued |-> FALSE, resp |-> FALSE, bye |-> FALSE,
     qs |-> <<>>, an |-> <<>>, ns |-> <<>>, ar |-> <<>>]

-----------------------------------------------------------------------------
(* The interfaces: pcb_if_init and pcb_if_deinit *)

\* mdns_priv_if_ready
IfReady(d, i) == i \in d.ready

\* join_group: the multicast group cannot be joined while the stack has the
\* interface down, as it may be before the event is executed.
CanJoin(d, i) == i \in d.up

\* pcb_init, write_if_lwip: the one socket exists while an interface is ready, and
\* the stack sends while the interface is up.
CanSend(d, i) == IfReady(d, i) /\ i \in d.up

\* pcb_if_init: an error while the interface is ready already, or cannot join.
IfInit(d, i) == IF ~IfReady(d, i) /\ CanJoin(d, i) THEN [d EXCEPT !.ready = @ \cup {i}] ELSE d

\* pcb_if_deinit
IfDeinit(d, i) == [d EXCEPT !.ready = @ \ {i}]

-----------------------------------------------------------------------------
(* The packets and their queue *)

\* mdns_priv_create_answer: an answer is added once.
AddAnswer(answers, t) == IF t \in ToSet(answers) THEN answers ELSE Append(answers, t)

AddAnswers(answers, ts) ==
    LET added[k \in 0 .. Len(ts)] ==
            IF k = 0 THEN answers ELSE AddAnswer(added[k - 1], ts[k])
    IN  added[Len(ts)]

\* What is on the interfaces `is`, of a list of packets or of messages.
OnInterfaces(s, is) ==
    LET kept[k \in 0 .. Len(s)] ==
            IF k = 0 THEN <<>>
            ELSE IF s[k].i \in is THEN Append(kept[k - 1], s[k]) ELSE kept[k - 1]
    IN  kept[Len(s)]

\* The bug of a queue in the order of calls.
SendAtEnd(d, p, delay) == [d EXCEPT !.txq = Append(@, [p EXCEPT !.left = delay])]

\* mdns_priv_send_after: before the first packet that is due later.
SendAfter(d, p, delay) ==
    LET later == {k \in DOMAIN d.txq : d.txq[k].left > delay}
        place == IF later = {} THEN Len(d.txq) + 1 ELSE Min(later)
    IN  [d EXCEPT !.txq = InsertAt(@, place, [p EXCEPT !.left = delay])]

ClearTxQueue(d) == [d EXCEPT !.txq = <<>>]

\* The bug of clearing only while the head belongs to the interface.
ClearHeadOnly(d, i) ==
    [d EXCEPT !.txq = IF @ # <<>> /\ Head(@).i = i THEN Tail(@) ELSE @]

\* mdns_priv_clear_tx_queue_if
ClearTxQueueIf(d, i) == [d EXCEPT !.txq = OnInterfaces(@, Ifaces \ {i})]

\* The name in the data of a PTR record (an instance, or the type for the
\* directory) and of an SRV record (the host that runs the service).
Target(r) ==
    CASE r.t = "PTR" -> <<"inst", r.v>>
      [] r.t = "SDPTR" -> <<"type", 0>>
      [] r.t = "SRV" -> <<"host", r.n[2]>>

\* append_answer and the record writers under it: names and data are looked up
\* when the packet is sent.  The address is known while the interface is ready.
Resolve(d, p, t) ==
    CASE t = "PTR" -> [t |-> t, n |-> <<"type", 0>>, v |-> d.host, long |-> ~p.bye]
      [] t = "SRV" -> [t |-> t, n |-> Instance(d), v |-> 5, long |-> ~p.bye]
      [] t = "TXT" -> [t |-> t, n |-> Instance(d), v |-> 0, long |-> ~p.bye]
      [] t = "SDPTR" -> [t |-> t, n |-> <<"sd", 0>>, v |-> 0, long |-> TRUE]
      [] t = "A" -> [t |-> t, n |-> <<"host", d.host>>, v |-> d.ip, long |-> ~p.bye]

ResolveAll(d, p, ts) == [k \in DOMAIN ts |-> Resolve(d, p, ts[k])]

Message(d, p) ==
    [src |-> d.ip, i |-> p.i, resp |-> p.resp, legacy |-> FALSE, qs |-> p.qs,
     an |-> ResolveAll(d, p, p.an), ns |-> ResolveAll(d, p, p.ns),
     ar |-> ResolveAll(d, p, p.ar)]

\* For ProbedBeforeClaimed: how often the current name was asked for.
CountProbe(d, p) ==
    LET asked(n) == \E k \in DOMAIN p.qs : p.qs[k] = [t |-> "ANY", n |-> n]
        old == d.probed[p.i]
        base == IF old.n = d.host THEN old ELSE [n |-> d.host, host |-> 0, svc |-> 0]
        more(c, n) == IF asked(n) /\ ~p.resp /\ c < 3 THEN c + 1 ELSE c
    IN  [base EXCEPT !.host = more(@, <<"host", d.host>>), !.svc = more(@, Instance(d))]

\* mdns_priv_dispatch_tx_packet and mdns_priv_if_write: nothing leaves while the
\* interface is not ready or the stack has it down.
Dispatch(d, p) ==
    IF CanSend(d, p.i)
    THEN [d EXCEPT !.out = Append(@, Message(d, p)), !.probed[p.i] = CountProbe(d, p)]
    ELSE d

\* question_exists with its callers: a question is asked once.
AddQuestion(questions, q) == IF q \in ToSet(questions) THEN questions ELSE Append(questions, q)

\* append_host_questions_for_services: our host name, and the one of each service,
\* which is the same.
HostQuestions(d, questions) == AddQuestion(questions, [t |-> "ANY", n |-> <<"host", d.host>>])

\* mdns_priv_append_host_list_in_services and append_host_list
HostAnswers(answers) == AddAnswer(answers, "A")

\* mdns_priv_create_probe_packet: the names asked for, and in the authority
\* section the records that are meant to be claimed.
ProbePacket(d, i, svcs, ip) ==
    LET inst == IF svcs = {} THEN <<>> ELSE <<[t |-> "ANY", n |-> Instance(d)]>>
        srv == IF svcs = {} THEN <<>> ELSE <<"SRV">>
    IN  [Packet(Alloc(d, {}), i) EXCEPT
            !.qs = IF ip THEN HostQuestions(d, inst) ELSE inst,
            !.ns = IF ip THEN HostAnswers(srv) ELSE srv]

\* mdns_priv_create_announce_from_probe
AnnounceFromProbe(d, probe) ==
    LET ofService == IF "SRV" \in ToSet(probe.ns) THEN <<"SDPTR", "PTR", "SRV", "TXT", "A">> ELSE <<>>
        ofHost == IF "A" \in ToSet(probe.ns) THEN <<"A">> ELSE <<>>
    IN  [Packet(Alloc(d, {probe.at}), probe.i) EXCEPT
            !.resp = TRUE, !.an = AddAnswers(<<>>, ofService \o ofHost)]

\* mdns_priv_send_bye: sent at once; the address goes only with a rename of the
\* host by the application.
SendBye(d, i, svcs, ip) ==
    Dispatch(d, [Packet(0, i) EXCEPT
        !.resp = TRUE, !.bye = TRUE,
        !.an = LET ptr == IF svcs = {} THEN <<>> ELSE <<"PTR">>
               IN  IF ip THEN HostAnswers(ptr) ELSE ptr])
==============================================================================

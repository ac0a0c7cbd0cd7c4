------------------------------- MODULE MdnsPcb -------------------------------
(***************************************************************************)
(* The probe and announce machine of an interface (mdns_pcb.c) and the     *)
(* operations that start it on all interfaces (mdns_responder.c).  The     *)
(* machine has no timer of its own: it advances each time a packet of its  *)
(* interface has been sent.                                                *)
(***************************************************************************)
EXTENDS MdnsSend

\* mdns_pcb_state_t: OFF, DUP, INIT, PROBE_1..3, ANNOUNCE_1..3, RUNNING
OFF == 0
PROBE_1 == 3
PROBE_2 == 4
PROBE_3 == 5
ANNOUNCE_1 == 6
ANNOUNCE_2 == 7
ANNOUNCE_3 == 8
RUNNING == 9

Probing(pcb) == pcb.state \in PROBE_1 .. PROBE_3

IdlePcb == [state |-> OFF, svcs |-> {}, ip |-> FALSE, running |-> FALSE]

\* The bug of a service that joins probing on the way.
InitProbeKeepStep(d, i, svcs, ip) ==
    LET pcb == d.pcb[i]
        all == svcs \cup (IF Probing(pcb) THEN pcb.svcs ELSE {})
    IN  SendAfter([d EXCEPT !.pcb[i] =
                      [state |-> IF Probing(pcb) THEN pcb.state ELSE PROBE_1,
                       svcs |-> all, ip |-> ip \/ pcb.ip, running |-> TRUE]],
                  ProbePacket(d, i, all, ip \/ pcb.ip), Quarter)

\* init_probe_new_service: what was being probed stays in, and probing starts
\* from its first step.
InitProbeNewService(d, i, svcs, ip) ==
    LET pcb == d.pcb[i]
        all == svcs \cup (IF Probing(pcb) THEN pcb.svcs ELSE {})
        withIp == ip \/ pcb.ip
    IN  SendAfter([d EXCEPT !.pcb[i] =
                      [state |-> PROBE_1, svcs |-> all, ip |-> withIp, running |-> TRUE]],
                  ProbePacket(d, i, all, withIp), Quarter)

\* mdns_priv_init_pcb_probe: without a host name there is nothing to probe.
InitPcbProbe(d, i, svcs, ip) ==
    LET cleared == ClearTxQueueIf(d, i)
        pcb == d.pcb[i]
    IN  CASE d.host = 0 -> [cleared EXCEPT !.pcb[i].state = RUNNING]
          [] d.host # 0 /\ Probing(pcb) -> InitProbeNewService(cleared, i, svcs \ pcb.svcs, ip)
          [] d.host # 0 /\ ~Probing(pcb) -> InitProbeNewService(cleared, i, svcs, ip)

\* mdns_priv_probe_all_pcbs
ProbePcb(d, i, svcs, ip, clearOld) ==
    LET old == IF clearOld THEN [d EXCEPT !.pcb[i].svcs = {}, !.pcb[i].running = FALSE] ELSE d
    IN  IF IfReady(d, i) THEN InitPcbProbe(old, i, svcs, ip) ELSE d

ProbeAllPcbs(d, svcs, ip, clearOld) ==
    ProbePcb(ProbePcb(d, "sta", svcs, ip, clearOld), "ap", svcs, ip, clearOld)

\* mdns_priv_restart_all_pcbs
RestartAllPcbs(d) == ProbeAllPcbs(ClearTxQueue(d), Services(d), TRUE, TRUE)

\* restart_pcb: all there is to claim is probed.
RestartPcb(d, i) == InitPcbProbe(d, i, Services(d), TRUE)

\* mdns_priv_pcb_enable: nothing happens when the interface cannot join; one that
\* is ready already probes again.
PcbEnable(d, i) ==
    LET e == IfInit(d, i)
    IN  IF IfReady(e, i) THEN RestartPcb(e, i) ELSE d

\* deinit_pcb
DeinitPcb(d, i) ==
    [IfDeinit(d, i) EXCEPT
        !.pcb[i] = IdlePcb, !.probed[i] = [n |-> 0, host |-> 0, svc |-> 0]]

\* mdns_priv_pcb_disable
PcbDisable(d, i) ==
    IF IfReady(d, i) THEN DeinitPcb(ClearTxQueueIf(d, i), i)
    ELSE [d EXCEPT !.pcb[i].state = OFF]

\* mdns_priv_pcb_is_off
PcbIsOff(d, i) == d.pcb[i].state = OFF

NextState(d, i) == [d EXCEPT !.pcb[i].state = @ + 1]

\* Probing is over: nothing of it is kept.
ProbingDone(d, i) == [d EXCEPT !.pcb[i] = [IdlePcb EXCEPT !.state = ANNOUNCE_1]]

\* The bug of freeing the announcement instead of the probe it was made from.
ScheduleNoAnnounce(d, p) ==
    LET state == d.pcb[p.i].state
    IN  CASE state \in {PROBE_1, PROBE_2} -> NextState(SendAfter(d, p, Quarter), p.i)
          [] state = PROBE_3 -> ProbingDone(d, p.i)
          [] state \in {ANNOUNCE_1, ANNOUNCE_2} -> NextState(SendAfter(d, p, Second), p.i)
          [] state = ANNOUNCE_3 -> NextState(d, p.i)
          [] state \notin PROBE_1 .. ANNOUNCE_3 -> d

\* mdns_priv_pcb_schedule_tx_packet, after p was sent: the same packet goes out
\* for each probe; after the third the announcement takes its place.
ScheduleTxPacket(d, p) ==
    LET state == d.pcb[p.i].state
    IN  CASE state \in {PROBE_1, PROBE_2} -> NextState(SendAfter(d, p, Quarter), p.i)
          [] state = PROBE_3 -> SendAfter(ProbingDone(d, p.i), AnnounceFromProbe(d, p), Quarter)
          [] state \in {ANNOUNCE_1, ANNOUNCE_2} -> NextState(SendAfter(d, p, Second), p.i)
          [] state = ANNOUNCE_3 -> NextState(d, p.i)
          [] state \notin PROBE_1 .. ANNOUNCE_3 -> d

\* handle_packet
HandlePacket(d, p) ==
    IF PcbIsOff(d, p.i) THEN d ELSE ScheduleTxPacket(Dispatch(d, p), p)

\* The bug of a packet that is scheduled again and still counts as on its way.
SendPacketMarked(d, at) ==
    IF d.txq # <<>> /\ Head(d.txq).at = at /\ Head(d.txq).queued
    THEN HandlePacket([d EXCEPT !.txq = Tail(@)], Head(d.txq))
    ELSE d

\* send_packet: the packet behind the address must be the head of the queue and
\* marked, which it is not when the address was freed and used again.
SendPacket(d, at) ==
    IF d.txq # <<>> /\ Head(d.txq).at = at /\ Head(d.txq).queued
    THEN HandlePacket([d EXCEPT !.txq = Tail(@)], [Head(d.txq) EXCEPT !.queued = FALSE])
    ELSE d

\* send_bye_all_pcbs_no_instance with mdns_priv_pcb_send_bye_service: only
\* without an instance name of its own, only where the name is established.
SendByeAllPcbs(d, ip) ==
    LET one(e, i) == IF IfReady(e, i) /\ e.pcb[i].state = RUNNING
                     THEN SendBye(e, i, Services(e), ip) ELSE e
    IN  IF d.host = 0 \/ d.svc = 0 THEN d ELSE one(one(d, "sta"), "ap")

\* mdns_priv_remap_self_service_hostname: a service of the old name follows.
RemapSelfService(d, h) == [d EXCEPT !.svc = IF @ = d.host /\ @ # 0 THEN h ELSE @]

\* mdns_priv_set_global_hostname, after the services were moved
Rename(d, h) == [RemapSelfService(d, h) EXCEPT !.host = h]

\* mdns_priv_responder_action: ACTION_HOSTNAME_SET
HostnameSet(d, h) == RestartAllPcbs(Rename(SendByeAllPcbs(d, TRUE), h))

\* create_service_base: the host name given is copied into the record.
CreateService(d) == [d EXCEPT !.svc = d.host]

\* mdns_service_add_for_host_base, after its checks
ServiceAdd(d) == ProbeAllPcbs(CreateService(d), {"http"}, FALSE, FALSE)
==============================================================================

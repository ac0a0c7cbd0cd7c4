----------------------------- MODULE MdnsReceive -----------------------------
(***************************************************************************)
(* The packet parser of the mDNS library (mdns_receive.c): questions are   *)
(* collected, known answers taken out again, conflicts over the host name  *)
(* and the service resolved record by record, and the rest answered        *)
(* (mdns_send.c).  A device is the record d of MdnsSend; while a message   *)
(* is processed it travels in a frame f with                               *)
(*   qs     the questions that are ours, last one first                    *)
(*   probe  the message asks ANY for a name of ours                        *)
(*   known  the directory entry is already known to the asker              *)
(*   quiet  a conflict was lost, nothing is answered                       *)
(* No query or browse runs in this firmware, so records that are not about *)
(* us have no effect.                                                      *)
(***************************************************************************)
EXTENDS MdnsPcb

\* is_discovery
IsDiscovery(n) == n = <<"sd", 0>>

\* mdns_utils_hostname_is_ours: no delegated host is added by the firmware.
HostnameIsOurs(d, h) == d.host # 0 /\ h = d.host

\* mdns_utils_get_service_item: the service type is in the list of services.
HasServiceItem(d) == d.svc # 0

\* mdns_utils_get_service_item_instance: also the instance name is the one that
\* mdns_utils_get_service_instance_name gives.
HasServiceInstance(d, n) == HasServiceItem(d) /\ n = Instance(d)

\* is_ours
IsOurs(d, n) ==
    \/ n[1] = "host" /\ HostnameIsOurs(d, n[2])
    \/ n[1] = "type" /\ HasServiceItem(d)
    \/ n[1] = "inst" /\ HasServiceInstance(d, n)

\* A record of a name that is ours has a service unless the name is the host's.
OfService(n) == n[1] # "host"

\* is_name_selfhosted
IsSelfHosted(d, n) ==
    /\ d.host # 0
    /\ \/ n = <<"host", d.host>>
       \/ n[1] \in {"type", "inst"} /\ d.svc = d.host

\* mangle_name: "-2" is appended, or the number at the end grows by one.
Mangle(h) == h + 1

\* check_a_collision, check_srv_collision and check_txt_collision: 1 they win,
\* -1 we win, 0 the same data.  No interface here has a twin on the same
\* subnet.  The rank of SRV data stands for the order of its bytes.
Collision(ours, theirs) == IF theirs > ours THEN 1 ELSE IF theirs < ours THEN -1 ELSE 0

ACollision(d, r) == IF r.v = 0 THEN 1 ELSE Collision(d.ip, r.v)
TxtCollision(r) == IF r.v = 0 THEN 0 ELSE 1

\* The first loop of mdns_parse_packet: one question of the message.
CollectQuestion(f, q) ==
    CASE IsDiscovery(q.n) ->
            IF ~HasServiceItem(f.d) THEN f
            ELSE [f EXCEPT !.qs = <<[t |-> "SDPTR", n |-> <<"type", 0>>]>> \o @]
      [] ~IsDiscovery(q.n) /\ ~IsOurs(f.d, q.n) -> f
      [] ~IsDiscovery(q.n) /\ IsOurs(f.d, q.n) ->
            [f EXCEPT !.qs = <<q>> \o @,
                      !.probe = @ \/ (q.t = "ANY" /\ q.n[1] # "type")]

\* question_matches
QuestionMatches(d, q, t) ==
    /\ q.t = t
    /\ \/ t = "A"
       \/ t \in {"PTR", "SDPTR"} /\ q.n[1] \in {"type", "inst"}
       \/ t \in {"SRV", "TXT"} /\ q.n = Instance(d)

\* remove_parsed_question: the first one that matches.
RemoveQuestion(f, t) ==
    LET hits == {k \in DOMAIN f.qs : QuestionMatches(f.d, f.qs[k], t)}
    IN  IF hits = {} THEN f ELSE [f EXCEPT !.qs = RemoveAt(@, Min(hits))]

\* A question of the asker stands and the record is what it already knows.
KnownAnswer(f) == f.qs # <<>> /\ ~f.probe

\* The host name is given up for the next one and everything probed again.
TakeNextName(d) == RestartAllPcbs(Rename(d, Mangle(d.host)))

RecordPtr(f, r) ==
    LET directory == r.t = "SDPTR"
        rdata == Target(r)
    IN  IF \/ directory /\ ~f.directory
           \/ ~directory /\ ~IsOurs(f.d, r.n)
           \/ ~IsOurs(f.d, rdata) THEN f
        ELSE LET g == CASE directory -> RemoveQuestion(f, "SDPTR")
                        [] ~directory /\ KnownAnswer(f) -> RemoveQuestion(f, "PTR")
                        [] ~directory /\ ~KnownAnswer(f) -> f
             IN  [g EXCEPT !.known = @ \/ (directory /\ r.long)]

RecordSrv(f, r) ==
    LET d == f.d
        col == Collision(5, r.v)
    IN  CASE ~IsOurs(d, r.n) -> f
          [] IsOurs(d, r.n) /\ KnownAnswer(f) -> RemoveQuestion(f, "SRV")
          [] /\ IsOurs(d, r.n) /\ ~KnownAnswer(f) /\ OfService(r.n)
             /\ IsSelfHosted(d, r.n) /\ col # 0 /\ (f.probe \/ f.m.resp)
             /\ (col > 0 \/ r.v = 0) ->
                [f EXCEPT !.quiet = TRUE,
                          !.d = IF d.pcb[f.m.i].running THEN TakeNextName(d)
                                ELSE InitPcbProbe(SendBye(d, f.m.i, {"http"}, FALSE),
                                                  f.m.i, {"http"}, FALSE)]
          [] OTHER -> f

RecordTxt(f, r) ==
    LET d == f.d
    IN  CASE ~IsOurs(d, r.n) -> f
          [] IsOurs(d, r.n) /\ KnownAnswer(f) -> RemoveQuestion(f, "TXT")
          [] /\ IsOurs(d, r.n) /\ ~KnownAnswer(f) /\ OfService(r.n) /\ IsSelfHosted(d, r.n)
             /\ TxtCollision(r) # 0 /\ ~d.pcb[f.m.i].running ->
                [f EXCEPT !.quiet = TRUE, !.d = InitPcbProbe(d, f.m.i, {"http"}, TRUE)]
          [] OTHER -> f

\* The bug of minding a conflict only while the other host still probes.
RecordAProbeOnly(f, r) ==
    LET d == f.d
    IN  CASE IsOurs(d, r.n) /\ KnownAnswer(f) -> RemoveQuestion(f, "A")
          [] ~KnownAnswer(f) /\ IsSelfHosted(d, r.n) /\ ACollision(d, r) = 1 /\ f.probe ->
                [f EXCEPT !.quiet = TRUE,
                          !.d = IF ~d.pcb[f.m.i].running
                                THEN InitPcbProbe(d, f.m.i, {}, TRUE)
                                ELSE TakeNextName(d)]
          [] OTHER -> f

RecordA(f, r) ==
    LET d == f.d
    IN  CASE ~IsOurs(d, r.n) -> f
          [] IsOurs(d, r.n) /\ KnownAnswer(f) -> RemoveQuestion(f, "A")
          [] /\ IsOurs(d, r.n) /\ ~KnownAnswer(f)
             /\ IsSelfHosted(d, r.n) /\ ACollision(d, r) = 1 ->
                [f EXCEPT !.quiet = TRUE,
                          !.d = IF ~d.pcb[f.m.i].running
                                THEN InitPcbProbe(d, f.m.i, {}, TRUE)
                                ELSE IF f.probe \/ f.m.resp THEN TakeNextName(d) ELSE d]
          [] OTHER -> f

\* One record of the message.  A record that is not ours counts only in a
\* response or outside of the authority section, and then for queries alone.
Record(f, r) ==
    CASE r.t \in {"PTR", "SDPTR"} -> RecordPtr(f, r)
      [] r.t = "SRV" -> RecordSrv(f, r)
      [] r.t = "TXT" -> RecordTxt(f, r)
      [] r.t = "A" -> RecordA(f, r)

\* create_answer_from_hostname
AnswerHostname(a, q) ==
    IF q.t \in {"ANY", "A"} THEN [a EXCEPT !.an = HostAnswers(@)] ELSE a

\* create_answer_from_service: what question q adds to the answers and to the
\* additional records.
AnswerService(a, q, sharing) ==
    LET scoped == q.n[1] = "inst"
        both(an, ar) == [a EXCEPT !.an = AddAnswers(@, an), !.ar = AddAnswers(@, ar)]
    IN  CASE q.t = "ANY" /\ scoped -> both(<<"SRV", "TXT">>, <<"A">>)
          [] q.t = "PTR" \/ (q.t = "ANY" /\ ~scoped) ->
                IF sharing THEN both(<<"PTR">>, <<"SRV", "TXT", "A">>)
                ELSE both(<<"PTR", "A">>, <<"SRV", "TXT">>)
          [] q.t = "SRV" -> both(<<"SRV">>, <<"A">>)
          [] q.t = "TXT" -> both(<<"TXT">>, <<>>)
          [] q.t = "SDPTR" -> both(<<"SDPTR">>, <<>>)
          [] q.t = "A" -> a

IsShared(f, q) == q.t \in {"PTR", "SDPTR"} \/ ~f.probe

\* service_match_ptr_question, and mdns_utils_get_service_item_instance for SRV
\* and TXT: the question is about our service.
AsksService(d, q) == HasServiceItem(d) /\ (q.n[1] = "type" \/ HasServiceInstance(d, q.n))

\* One question of mdns_priv_create_answer_from_parsed_packet; a one-shot asker
\* gets its question back.
AnswerQuestion(f, a, q) ==
    LET back == IF f.m.legacy /\ q.t \in {"ANY", "A"} THEN [a EXCEPT !.qs = Append(@, q)] ELSE a
        answered == [back EXCEPT !.count = @ + 1]
        suppressed == f.known /\ q.t \notin {"SRV", "TXT"}
    IN  CASE q.n[1] \in {"type", "inst"} /\ AsksService(f.d, q) /\ ~suppressed ->
                AnswerService(answered, q, IsShared(f, q))
          [] q.n[1] = "host" /\ q.t \notin {"SRV", "TXT"} -> AnswerHostname(answered, q)
          [] OTHER -> back

\* What is given back, the answers, the additional records, and how many
\* questions were answered.
Answer(f) ==
    LET a[k \in 0 .. Len(f.qs)] ==
            IF k = 0 THEN [qs |-> <<>>, an |-> <<>>, ar |-> <<>>, count |-> 0]
            ELSE AnswerQuestion(f, a[k - 1], f.qs[k])
    IN  a[Len(f.qs)]

\* mdns_priv_create_answer_from_parsed_packet: sent at once if the last question
\* looked at was part of a probe, else with the short delay of shared answers.
CreateAnswer(f) ==
    LET a == Answer(f)
        p == [Packet(Alloc(f.d, {}), f.m.i) EXCEPT
                 !.resp = TRUE, !.qs = a.qs, !.an = a.an, !.ar = a.ar]
    IN  CASE f.qs = <<>> \/ a.count = 0 -> f.d
          [] f.qs # <<>> /\ a.count # 0 /\ IsShared(f, Last(f.qs)) -> SendAfter(f.d, p, Shared)
          [] f.qs # <<>> /\ a.count # 0 /\ ~IsShared(f, Last(f.qs)) -> Dispatch(f.d, p)

\* The start of mdns_parse_packet: our own messages, responses from another port
\* and questions before there is a name are dropped.
Dropped(d, m) ==
    \/ m.src = d.ip
    \/ m.resp /\ m.legacy
    \/ m.qs # <<>> /\ m.an = <<>> /\ d.host = 0

\* mdns_parsed_packet_t, as it is before the questions are read
NewFrame(d, m) ==
    [d |-> d, m |-> m, qs |-> <<>>, probe |-> FALSE, known |-> FALSE, quiet |-> FALSE,
     directory |-> \E k \in DOMAIN m.qs : IsDiscovery(m.qs[k].n)]

\* No question is ours, and there is no answer to look at.
Skipped(f) == f.m.qs # <<>> /\ f.qs = <<>> /\ ~f.directory /\ f.m.an = <<>>

\* mdns_priv_pcb_is_after_probing
IsAfterProbing(f) == f.d.pcb[f.m.i].state > PROBE_3

\* The two loops of mdns_parse_packet
CollectQuestions(f, qs) ==
    LET after[k \in 0 .. Len(qs)] ==
            IF k = 0 THEN f ELSE CollectQuestion(after[k - 1], qs[k])
    IN  after[Len(qs)]

ReadRecords(f, rs) ==
    LET after[k \in 0 .. Len(rs)] == IF k = 0 THEN f ELSE Record(after[k - 1], rs[k])
    IN  after[Len(rs)]

ParsePacket(d, m) ==
    LET asked == CollectQuestions(NewFrame(d, m), m.qs)
        read == ReadRecords(asked, m.an \o m.ns \o m.ar)
    IN  CASE Dropped(d, m) \/ Skipped(asked) -> d
          [] OTHER -> IF ~read.quiet /\ IsAfterProbing(read) THEN CreateAnswer(read) ELSE read.d
==============================================================================

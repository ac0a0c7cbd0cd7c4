------------------------------- MODULE MCMdns -------------------------------
(* A small instance of MdnsService for TLC: two devices that start on one  *)
(* network, or one that other hosts talk to and whose interfaces change.   *)
EXTENDS MdnsWire

MCDevices == {"low", "high"}

MCIp == [x \in MCDevices |-> IF x = "low" THEN 3 ELSE 6]

Scenario(on, up, step, foreign, events, losses) ==
    [on |-> on, up |-> up, step |-> step, fired |-> {},
     foreign |-> foreign, events |-> events, losses |-> losses]

\* Two devices that meet, with any two messages lost; one whose interfaces come
\* and go; one with two interfaces that hears one message; one with one that hears
\* it at any moment; one that hears two; one that hears a message and whose
\* interface goes and comes back.
MCScenarios ==
    {Scenario(MCDevices, {"sta"}, TRUE, 0, 0, 2),
     Scenario({"low"}, {}, FALSE, 0, 2, 0),
     Scenario({"low"}, {"ap", "sta"}, TRUE, 1, 0, 0),
     Scenario({"low"}, {"sta"}, FALSE, 1, 0, 0),
     Scenario({"low"}, {"sta"}, TRUE, 2, 0, 0),
     Scenario({"low"}, {"sta"}, TRUE, 1, 2, 0)}

Says(src, resp, legacy, qs, an, ns) ==
    [src |-> src, i |-> "sta", resp |-> resp, legacy |-> legacy, qs |-> qs,
     an |-> an, ns |-> ns, ar |-> <<>>]

Asks(qs, an) == Says(9, FALSE, FALSE, qs, an, <<>>)
Q(t, n) == <<[t |-> t, n |-> n]>>
R(t, n, v) == <<[t |-> t, n |-> n, v |-> v, long |-> TRUE]>>

\* Queries, known answers, a one-shot query, and the probes and announcements of
\* a host that claims our names with data below and above ours.
MCForeign(d) ==
    LET host == <<"host", d.host>>
        inst == <<"inst", d.host>>
        type == <<"type", 0>>
        sd == <<"sd", 0>>
    IN  IF d.host = 0 THEN {Asks(Q("PTR", type), <<>>)}
        ELSE {Asks(Q("A", host), <<>>), Asks(Q("PTR", type), <<>>),
              Asks(Q("PTR", type), R("PTR", type, d.host)),
              Asks(Q("PTR", sd), <<>>), Asks(Q("PTR", sd), R("SDPTR", sd, 0)),
              Asks(Q("SRV", inst) \o Q("TXT", inst), R("TXT", inst, 0)),
              Asks(Q("ANY", inst), <<>>),
              Says(9, FALSE, TRUE, Q("ANY", host), <<>>, <<>>)}
             \cup {Says(ip, FALSE, FALSE, Q("ANY", host), <<>>, R("A", host, ip)) : ip \in {1, 9}}
             \cup {Says(9, FALSE, FALSE, Q("ANY", inst), <<>>, R("SRV", inst, v)) : v \in {0, 4, 6}}
             \cup {Says(9, TRUE, FALSE, <<>>, R("A", host, 9), <<>>),
                   Says(9, TRUE, FALSE, <<>>, R("TXT", inst, 1), <<>>)}
=============================================================================

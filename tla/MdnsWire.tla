------------------------------ MODULE MdnsWire ------------------------------
(***************************************************************************)
(* The DNS messages of the mDNS library (managed_components/               *)
(* espressif__mdns) on the wire: how names are written with compression    *)
(* and read back.  A datagram is a sequence of cells: one per label, end   *)
(* of name, compression pointer, and fixed-size field; a pointer holds the *)
(* position of a cell where the code holds a byte offset.                  *)
(***************************************************************************)
EXTENDS MdnsService

HostLabel == <<"inverter", "inverter-2", "inverter-3", "inverter-4">>

Domain == "local"

\* The labels of a name, in the order in which they are written.
Labels(n) ==
    CASE n[1] = "host" -> <<HostLabel[n[2]], Domain>>
      [] n[1] = "inst" -> <<HostLabel[n[2]], "_http", "_tcp", Domain>>
      [] n[1] = "type" -> <<"_http", "_tcp", Domain>>
      [] n[1] = "sd" -> <<"_services", "_dns-sd", "_udp", Domain>>

Label(s) == [k |-> "label", s |-> s, at |-> 0]
Ref(p) == [k |-> "ref", s |-> "", at |-> p]
EndCell == [k |-> "end", s |-> "", at |-> 0]
Field(t, v) == [k |-> "field", s |-> t, at |-> v]

Unreadable == <<"?">>

\* mdns_utils_read_fqdn: the labels from position p on. A pointer must lead
\* backwards; the end of the datagram ends the name as well. No name here has
\* sixteen pointers, beyond which the code does not follow them.
RECURSIVE ReadFqdn(_, _)
ReadFqdn(w, p) ==
    IF p > Len(w) THEN <<>>
    ELSE CASE w[p].k = "end" -> <<>>
           [] w[p].k = "field" -> Unreadable
           [] w[p].k = "label" ->
                LET rest == ReadFqdn(w, p + 1)
                IN  IF rest = Unreadable THEN Unreadable ELSE <<w[p].s>> \o rest
           [] w[p].k = "ref" ->
                IF w[p].at >= p THEN Unreadable ELSE ReadFqdn(w, w[p].at)

\* The bug of a pointer to a name that only starts with the same label.
FirstLabelOnly(w, ls) == {p \in DOMAIN w : w[p] = Label(ls[1])}

\* The positions of the datagram at which a label of the given text is written
\* and the whole rest of the name is what is about to be written.
Occurrences(w, ls) ==
    {p \in DOMAIN w : w[p] = Label(ls[1]) /\ ReadFqdn(w, p) = ls}

\* append_fqdn: the name is shortened by a pointer to its first occurrence, or
\* its first label is written and the rest follows in the same way.
RECURSIVE AppendFqdn(_, _)
AppendFqdn(w, ls) ==
    IF ls = <<>> THEN Append(w, EndCell)
    ELSE LET found == Occurrences(w, ls)
         IN  IF found # {} THEN Append(w, Ref(Min(found)))
             ELSE AppendFqdn(Append(w, Label(ls[1])), Tail(ls))

\* Where reading continues after the name written at p.
RECURSIVE AfterFqdn(_, _)
AfterFqdn(w, p) == IF w[p].k = "label" THEN AfterFqdn(w, p + 1) ELSE p + 1

\* append_question
AppendQuestion(w, q) == Append(AppendFqdn(w, Labels(q.n)), Field(q.t, 0))

\* The owner name and the fixed fields; the data follows.
Typed(w, r) == Append(AppendFqdn(w, Labels(r.n)), Field(r.t, r.v))

AppendPtrRecord(w, r) == AppendFqdn(Typed(w, r), Labels(Target(r)))
AppendSdptrRecord(w, r) == AppendFqdn(Typed(w, r), Labels(Target(r)))
AppendSrvRecord(w, r) == AppendFqdn(Typed(w, r), Labels(Target(r)))
AppendTxtRecord(w, r) == Typed(w, r)
AppendARecord(w, r) == Typed(w, r)

\* append_answer
AppendRecord(w, r) ==
    CASE r.t = "PTR" -> AppendPtrRecord(w, r)
      [] r.t = "SDPTR" -> AppendSdptrRecord(w, r)
      [] r.t = "SRV" -> AppendSrvRecord(w, r)
      [] r.t = "TXT" -> AppendTxtRecord(w, r)
      [] r.t = "A" -> AppendARecord(w, r)

\* mdns_priv_dispatch_tx_packet: questions, answers, servers, additional.
Encode(m) == FoldLeft(AppendRecord, FoldLeft(AppendQuestion, <<>>, m.qs), m.an \o m.ns \o m.ar)

\* The name that the parser recovers at p: mdns_utils_parse_fqdn moves the parts
\* it read to host, service, protocol and domain by their number.
ParseFqdn(w, p) ==
    LET ls == ReadFqdn(w, p)
        known == {h \in DOMAIN HostLabel : ls # <<>> /\ HostLabel[h] = ls[1]}
        h == IF known = {} THEN 0 ELSE CHOOSE x \in known : TRUE
    IN  CASE ls = <<"_services", "_dns-sd", "_udp", Domain>> -> <<"sd", 0>>
          [] Len(ls) = 4 /\ ls[4] = Domain -> <<"inst", h>>
          [] Len(ls) = 3 /\ ls[3] = Domain -> <<"type", 0>>
          [] Len(ls) = 2 /\ ls[2] = Domain -> <<"host", h>>
          [] OTHER -> <<"invalid", 0>>

\* The record of the main parser's loop that starts at p, and where the next
\* one starts.
ParsedRecord(w, p) ==
    LET data == AfterFqdn(w, p)
        named == w[data].s \in {"PTR", "SDPTR", "SRV"}
    IN  [n |-> ParseFqdn(w, p), t |-> w[data].s, v |-> w[data].at,
         target |-> IF named THEN ParseFqdn(w, data + 1) ELSE <<"none", 0>>,
         next |-> IF named THEN AfterFqdn(w, data + 1) ELSE data + 1]

RECURSIVE DecodeRecords(_, _)
DecodeRecords(w, p) ==
    IF p > Len(w) THEN <<>>
    ELSE LET r == ParsedRecord(w, p)
         IN  <<[t |-> r.t, n |-> r.n, v |-> r.v, target |-> r.target]>> \o DecodeRecords(w, r.next)

\* mdns_parse_packet, its two loops: `count` questions, then records to the end.
RECURSIVE Decode(_, _, _)
Decode(w, p, count) ==
    IF count = 0 THEN [qs |-> <<>>, rrs |-> DecodeRecords(w, p)]
    ELSE LET type == AfterFqdn(w, p)
             rest == Decode(w, type + 1, count - 1)
         IN  [rest EXCEPT !.qs = <<[t |-> w[type].s, n |-> ParseFqdn(w, p)]>> \o @]

\* What a receiver should understand of the message.
Meaning(m) ==
    [qs |-> m.qs,
     rrs |-> LET all == m.an \o m.ns \o m.ar
             IN  [k \in DOMAIN all |->
                     [t |-> all[k].t, n |-> all[k].n, v |-> all[k].v,
                      target |-> IF all[k].t \in {"PTR", "SDPTR", "SRV"} THEN Target(all[k])
                                 ELSE <<"none", 0>>]]]

\* What a receiver reads in a datagram is what the sender meant, whatever names
\* were shortened by pointers to earlier ones (append_fqdn, mdns_utils_read_fqdn).
ReadsBack ==
    [][\A x \in Devices : dev'[x].out # dev[x].out =>
          \A m \in ToSet(dev'[x].out) : Decode(Encode(m), 1, Len(m.qs)) = Meaning(m)]_vars
==============================================================================

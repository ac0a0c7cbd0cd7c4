---------------------------- MODULE SdoClientInv -----------------------------
(* The inductive invariants of SdoClient.                                  *)
EXTENDS SdoClient

HandshakeOK ==
    /\ s_state \in {"idle", "error", "obtain_serial", "obtain_json"}
    /\ toggle_bit \in 0..1 /\ file \in BOOLEAN
    /\ tmp \in Seq(1..Segments) /\ schema \in Seq(1..Segments)

ScanOK ==
    /\ s_node_id \in 1..LastNode /\ saved \in 1..LastNode
    /\ attempts \in 0..ScanAfter /\ scanned \in BOOLEAN

WireOK ==
    /\ bus \in Seq(Requests) /\ Len(bus) <= TxDepth
    /\ s_rx_queue \in Seq(Replies) /\ Len(s_rx_queue) <= RxDepth
    /\ lost \in Nat

Walks == {"get", "set", "save", "remove", "json", "stream", "add", "canmap"}

HttpOK ==
    /\ http \in [op : Walks \cup {"none"}, at : {"none", "lock", "wait"},
                 index : Nat, sub : Nat, again : BOOLEAN]
    /\ http.op = "none" <=> http.at = "none"

\* The lock follows the places of the two tasks only because they are never both in
\* a transaction.
LockInv ==
    /\ poll \in {"loop", "retry", "scan"}
    /\ poll = "loop" \/ http.at # "wait"
    /\ lock = IF poll # "loop" THEN "poll" ELSE IF http.at = "wait" THEN "httpd" ELSE "free"

SdoInv ==
    /\ HandshakeOK /\ ScanOK /\ WireOK /\ HttpOK /\ LockInv
    /\ next \in 0..Segments

\* What a handler waits for is on its way until the handler takes it: on the bus, or
\* in the reply queue.
OnItsWay ==
    \/ \E i \in 1..Len(bus) : bus[i] = Asked
    \/ \E i \in 1..Len(s_rx_queue) : Answers(s_rx_queue[i])

WaitInv ==
    http.at = "wait" /\ http.op # "stream" /\ s_node_id = ServerNode /\ lost = 0 => OnItsWay

\* Until the schema is there, only the handshake talks to the inverter.
Handshaken(x) ==
    \/ x.cmd = "read" /\ x.index \in {Serial, Strings}
    \/ x.cmd = "segment" /\ x.index = 0

\* x comes before y on the way to the inverter and back: in a download the words of
\* the serial number, then the one request for the schema, then its segments; before
\* it, what is left of an earlier download, then the words.
Before(download, x, y) ==
    IF download THEN y.index \in {Serial, Strings} => x.index = Serial
                ELSE x.index = Serial => y.index = Serial

InOrder(download, replies, asked) ==
    /\ \A i, j \in 1..Len(asked) : i < j => Before(download, asked[i], asked[j])
    /\ \A i, j \in 1..Len(replies) : i < j => Before(download, replies[i], replies[j])
    /\ \A i \in 1..Len(replies) : \A j \in 1..Len(asked) : Before(download, replies[i], asked[j])

TalkOK(replies, asked) ==
    /\ \A i \in 1..Len(asked) : Handshaken(asked[i])
    /\ \A i \in 1..Len(replies) :
         /\ Handshaken(replies[i])
         /\ (replies[i].n # 0 \/ replies[i].abort) => replies[i].cmd = "segment"

Begun(asked) == \A i \in 1..Len(asked) : asked[i].index # Strings
AllAsk(asked, t) == \A i \in 1..Len(asked) : asked[i].cmd = "segment" => asked[i].sub = t
Turns(asked, t) ==
    \A i, j \in 1..Len(asked) :
      i < j /\ asked[i].cmd = "segment" /\ asked[i].sub = t => asked[j].sub = t

\* Segment n is the one that waits to be taken, and it waits once.
OneWaits(replies, n) ==
    \A i \in 1..Len(replies) : replies[i].n # 0 =>
      /\ replies[i].n = n
      /\ \A j \in 1..Len(replies) : replies[j].n # 0 => i = j
NoneWaits(replies) == \A i \in 1..Len(replies) : replies[i].n = 0

\* What was taken is the schema as far as it goes.  The segment that comes next is on
\* its way at most once, and no request on the bus can move the inverter past it.
DownloadOK(replies, asked, nxt) ==
    /\ file /\ Len(tmp) < Segments /\ toggle_bit = Len(tmp) % 2
    /\ \A i \in 1..Len(tmp) : tmp[i] = i
    /\ nxt \in {0, Len(tmp) + 1, Len(tmp) + 2}
    /\ OneWaits(replies, Len(tmp) + 1)
    /\ NoneWaits(replies) \/ (nxt # Len(tmp) + 1 /\ Begun(asked))
    /\ Begun(asked) \/ (nxt = 0 /\ tmp = <<>> /\ AllAsk(asked, 0))
    /\ nxt = Len(tmp) + 1 => Turns(asked, toggle_bit)
    /\ nxt = Len(tmp) + 2 => AllAsk(asked, toggle_bit)

\* Old segments that the inverter still sends are taken before the last word of the
\* serial number, and end its transfer.
SerialOK(replies, nxt) ==
    \A i \in 1..Len(replies) : replies[i].index = Serial => nxt = 0

SchemaInv ==
    /\ SchemaWhole
    /\ schema # <<>> => s_state # "obtain_json"
    /\ schema = <<>> =>
         /\ s_state # "idle" /\ http.op = "none" /\ (poll = "loop" \/ s_state # "obtain_json")
         /\ TalkOK(s_rx_queue, bus) /\ InOrder(s_state = "obtain_json", s_rx_queue, bus)
         /\ IF s_state = "obtain_json" THEN DownloadOK(s_rx_queue, bus, next)
                                       ELSE SerialOK(s_rx_queue, next)
=============================================================================

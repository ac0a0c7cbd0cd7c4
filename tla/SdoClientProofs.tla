--------------------------- MODULE SdoClientProofs ---------------------------
(* Theorems of SdoClient and their proofs.                                 *)
EXTENDS SdoClientInv, SequenceTheorems, TLAPS

USE SdoAssumption

-----------------------------------------------------------------------------
(* The wire.                                                               *)

LEMMA RestOK ==
    ASSUME WireOK, s_rx_queue # <<>>
    PROVE  /\ Head(s_rx_queue) \in Replies
           /\ Rest \in Seq(Replies) /\ Len(Rest) = Len(s_rx_queue) - 1
           /\ \A i \in 1..Len(Rest) : Rest[i] = s_rx_queue[i + 1]
BY SMTT(30) DEF WireOK, Rest

LEMMA BusTail ==
    ASSUME WireOK, bus # <<>>
    PROVE  /\ Head(bus) \in Requests
           /\ Tail(bus) \in Seq(Requests) /\ Len(Tail(bus)) = Len(bus) - 1
           /\ \A i \in 1..Len(Tail(bus)) : Tail(bus)[i] = bus[i + 1]
BY SMTT(30) DEF WireOK

\* A request to the inverter gets on the bus unless something is lost.
LEMMA SendOK ==
    ASSUME WireOK, NEW node, NEW q \in Requests, NEW rest \in Seq(Replies),
           Len(rest) <= RxDepth, SendTo(node, q, rest)
    PROVE  /\ WireOK'
           /\ s_rx_queue' = rest
           /\ lost' = 0 => lost = 0
           /\ node = ServerNode /\ lost' = 0 => \E i \in 1..Len(bus') : bus'[i] = q
<1>1. s_rx_queue' = rest
  BY DEF SendTo
<1>2. CASE node # ServerNode
  <2>1. bus' = bus /\ lost' = lost
    BY <1>2 DEF SendTo
  <2>2. QED
    BY <1>1, <1>2, <2>1 DEF WireOK
<1>3. CASE node = ServerNode /\ Len(bus) < TxDepth
  <2>1. bus' = Append(bus, q) /\ lost' = lost
    BY <1>3 DEF SendTo
  <2>2. Append(bus, q) \in Seq(Requests) /\ Len(Append(bus, q)) = Len(bus) + 1
        /\ Append(bus, q)[Len(bus) + 1] = q
    BY DEF WireOK
  <2>3. Len(bus) \in Nat
    BY DEF WireOK
  <2>4. WireOK'
    BY SMTT(30), <1>1, <1>3, <2>1, <2>2, <2>3 DEF WireOK
  <2>5. Len(bus) + 1 \in 1..Len(bus')
    BY <2>1, <2>2, <2>3
  <2>6. \E i \in 1..Len(bus') : bus'[i] = q
    BY <2>1, <2>2, <2>5
  <2>7. QED
    BY <1>1, <2>1, <2>4, <2>6
<1>4. CASE node = ServerNode /\ ~(Len(bus) < TxDepth)
  <2>1. bus' = bus /\ lost' = GivenUp
    BY <1>4 DEF SendTo
  <2>2. GivenUp \in Nat \ {0}
    BY DEF GivenUp
  <2>3. QED
    BY <1>1, <2>1, <2>2 DEF WireOK
<1>5. QED
  BY <1>2, <1>3, <1>4

\* What was sent before stays on the bus.
LEMMA TakenOK ==
    ASSUME WireOK, s_rx_queue # <<>>, Taken
    PROVE  WireOK'
BY SMTT(30), RestOK DEF WireOK, Taken

LEMMA AskSerialOK ==
    AskSerial \in Requests /\ <<>> \in Seq(Replies) /\ Len(<<>>) <= RxDepth
BY DEF AskSerial, Request, Requests, CmdSet, Serial

LEMMA AfreshOK ==
    ASSUME WireOK, NEW node, Afresh(node)
    PROVE  WireOK'
<1>1. CASE SendTo(node, AskSerial, <<>>)
  BY <1>1, AskSerialOK, SendOK
<1>2. CASE /\ s_rx_queue' = <<>> /\ UNCHANGED lost
           /\ bus' = IF node = ServerNode THEN <<AskSerial>> ELSE <<>>
  BY SMTT(30), <1>2, AskSerialOK DEF WireOK
<1>3. QED
  BY <1>1, <1>2 DEF Afresh

LEMMA DeliverOK ==
    ASSUME WireOK, NEW q \in Requests, NEW ok \in BOOLEAN, NEW n \in 0..Segments,
           Deliver(Reply(q, ok, n))
    PROVE  /\ s_rx_queue' \in Seq(Replies) /\ Len(s_rx_queue') <= RxDepth /\ lost' \in Nat
           /\ \A i \in 1..Len(s_rx_queue) : i \in 1..Len(s_rx_queue') /\ s_rx_queue'[i] = s_rx_queue[i]
           /\ lost' = 0 => lost = 0
           /\ s_node_id = ServerNode /\ lost' = 0 =>
                \E i \in 1..Len(s_rx_queue') : s_rx_queue'[i] = Reply(q, ok, n)
<1> DEFINE r == Reply(q, ok, n)
<1>1. r \in Replies
  BY DEF Reply, Requests, Replies
<1> HIDE DEF r
<1>2. CASE s_node_id # ServerNode
  <2>1. s_rx_queue' = s_rx_queue /\ lost' = lost
    BY <1>2 DEF Deliver
  <2>2. QED
    BY <1>2, <2>1 DEF WireOK
<1>3. CASE s_node_id = ServerNode /\ Len(s_rx_queue) < RxDepth
  <2>1. s_rx_queue' = Append(s_rx_queue, r) /\ lost' = lost
    BY <1>3 DEF Deliver, r
  <2>2. /\ Append(s_rx_queue, r) \in Seq(Replies) /\ Len(Append(s_rx_queue, r)) = Len(s_rx_queue) + 1
        /\ Append(s_rx_queue, r)[Len(s_rx_queue) + 1] = r
        /\ \A i \in 1..Len(s_rx_queue) : Append(s_rx_queue, r)[i] = s_rx_queue[i]
    BY <1>1 DEF WireOK
  <2>3. Len(s_rx_queue) \in Nat /\ Len(s_rx_queue) + 1 \in 1..(Len(s_rx_queue) + 1)
    BY SMTT(30) DEF WireOK
  <2>4. /\ s_rx_queue' \in Seq(Replies) /\ Len(s_rx_queue') <= RxDepth /\ lost' \in Nat
        /\ \A i \in 1..Len(s_rx_queue) : i \in 1..Len(s_rx_queue') /\ s_rx_queue'[i] = s_rx_queue[i]
    BY SMTT(30), <1>3, <2>1, <2>2, <2>3 DEF WireOK
  <2>5. \E i \in 1..Len(s_rx_queue') : s_rx_queue'[i] = r
    BY <2>1, <2>2, <2>3
  <2>6. QED
    BY <2>1, <2>4, <2>5 DEF r
<1>4. CASE s_node_id = ServerNode /\ ~(Len(s_rx_queue) < RxDepth)
  <2>1. s_rx_queue' = s_rx_queue /\ lost' = GivenUp
    BY <1>4 DEF Deliver
  <2>2. GivenUp \in Nat \ {0}
    BY DEF GivenUp
  <2>3. QED
    BY <2>1, <2>2 DEF WireOK
<1>5. QED
  BY <1>2, <1>3, <1>4

-----------------------------------------------------------------------------
(* The poll task.                                                          *)

LEMMA ResponseOK ==
    ASSUME SdoInv, s_rx_queue # <<>>, HandleSdoResponse(Head(s_rx_queue))
    PROVE  HandshakeOK' /\ WireOK'
<1> DEFINE r == Head(s_rx_queue)
<1>1. r \in Replies /\ Rest \in Seq(Replies) /\ Len(Rest) <= RxDepth
  BY SMTT(30), RestOK DEF SdoInv, WireOK
<1> HIDE DEF r
<1>2. HandshakeOK /\ WireOK
  BY DEF SdoInv
<1>3. CASE AbortReply(r)
  BY <1>2, <1>3, TakenOK DEF AbortReply, HandshakeOK
<1>4. CASE SerialReply(r)
  <2>1. CASE Send(Request("read", Serial, r.sub + 1), Rest) /\ UNCHANGED handshake
    <3>1. Request("read", Serial, r.sub + 1) \in Requests
      BY SMTT(30), <1>1 DEF Request, Requests, Replies, CmdSet, Serial
    <3>2. WireOK'
      BY <1>1, <1>2, <2>1, <3>1, SendOK DEF Send
    <3>3. QED
      BY <1>2, <2>1, <3>2 DEF HandshakeOK, handshake
  <2>2. CASE s_state' = "idle" /\ Taken /\ UNCHANGED <<toggle_bit, file, tmp, schema>>
    BY <1>2, <2>2, TakenOK DEF HandshakeOK
  <2>3. CASE /\ s_state' = "obtain_json" /\ toggle_bit' = 0 /\ file' = TRUE /\ tmp' = <<>>
             /\ Send(Request("read", Strings, 0), Rest) /\ UNCHANGED schema
    <3>1. Request("read", Strings, 0) \in Requests
      BY DEF Request, Requests, CmdSet, Strings
    <3>2. WireOK'
      BY <1>1, <1>2, <2>3, <3>1, SendOK DEF Send
    <3>3. QED
      BY <1>2, <2>3, <3>2 DEF HandshakeOK
  <2>4. QED
    BY <1>4, <2>1, <2>2, <2>3 DEF SerialReply
<1>5. CASE SchemaReply(r)
  <2>1. \A t \in 0..1 : AskSegment(t) \in Requests
    BY DEF AskSegment, Request, Requests, CmdSet
  <2>2. CASE /\ r.n = Segments /\ s_state' = "idle" /\ file' = FALSE
             /\ schema' = Append(tmp, r.n) /\ tmp' = <<>> /\ Taken /\ UNCHANGED toggle_bit
    <3>1. r.n \in 1..Segments
      BY <2>2
    <3>2. Append(tmp, r.n) \in Seq(1..Segments) /\ <<>> \in Seq(1..Segments)
      BY <1>2, <3>1 DEF HandshakeOK
    <3>3. QED
      BY <1>2, <2>2, <3>2, TakenOK DEF HandshakeOK
  <2>3. CASE /\ r.n \in 1..(Segments - 1)
             /\ tmp' = Append(tmp, r.n) /\ toggle_bit' = 1 - toggle_bit
             /\ Send(AskSegment(toggle_bit'), Rest) /\ UNCHANGED <<s_state, file, schema>>
    <3>1. toggle_bit' \in 0..1
      BY <1>2, <2>3 DEF HandshakeOK
    <3>2. WireOK'
      BY <1>1, <1>2, <2>1, <2>3, <3>1, SendOK DEF Send
    <3>3. r.n \in 1..Segments
      BY SMTT(30), <2>3
    <3>4. Append(tmp, r.n) \in Seq(1..Segments)
      BY <1>2, <3>3 DEF HandshakeOK
    <3>5. QED
      BY <1>2, <2>3, <3>1, <3>2, <3>4 DEF HandshakeOK
  <2>4. CASE Send(AskSegment(toggle_bit), Rest) /\ UNCHANGED handshake
    <3>1. WireOK'
      BY <1>1, <1>2, <2>1, <2>4, SendOK DEF Send, HandshakeOK
    <3>2. QED
      BY <1>2, <2>4, <3>1 DEF HandshakeOK, handshake
  <2>5. QED
    BY <1>5, <2>2, <2>3, <2>4 DEF SchemaReply
<1>6. CASE IgnoredReply(r)
  BY <1>2, <1>6, TakenOK DEF IgnoredReply, HandshakeOK, handshake
<1>7. QED
  BY <1>3, <1>4, <1>5, <1>6 DEF HandleSdoResponse, r

-----------------------------------------------------------------------------
(* The handlers.                                                           *)

LEMMA AskedOK ==
    ASSUME HttpOK
    PROVE  Asked \in Requests /\ \A i, j \in Nat : Request(Asked.cmd, i, j) \in Requests
BY DEF HttpOK, Asked, Request, Requests, CmdSet

\* What a handler that holds the lock leaves alone.
LEMMA HttpFrameOK ==
    ASSUME SdoInv, HttpFrame
    PROVE  HandshakeOK' /\ ScanOK' /\ next' \in 0..Segments /\ poll' = poll /\ s_node_id' = s_node_id
BY DEF SdoInv, HttpFrame, HandshakeOK, ScanOK, handshake, scan

LEMMA FinishOK ==
    ASSUME SdoInv, http.at = "wait", NEW told, Finish(told)
    PROVE  HttpOK' /\ http'.at = "none" /\ (poll' = poll => LockInv')
BY DEF SdoInv, Finish, NoHttp, HttpOK, LockInv

LEMMA LeaveOK ==
    ASSUME WireOK, NEW rest \in Seq(Replies), Len(rest) <= RxDepth, Leave(rest)
    PROVE  WireOK'
BY DEF WireOK, Leave

LEMMA AskNextOK ==
    ASSUME SdoInv, http.at = "wait", NEW index \in Nat, NEW sub \in Nat,
           NEW rest \in Seq(Replies), Len(rest) <= RxDepth, AskNext(index, sub, rest)
    PROVE  /\ HttpOK' /\ WireOK' /\ http'.at = "wait" /\ (poll' = poll => LockInv')
           /\ s_node_id = ServerNode /\ lost' = 0 => OnItsWay'
<1>1. HttpOK /\ WireOK
  BY DEF SdoInv
<1> DEFINE q == Request(Asked.cmd, index, sub)
<1>2. q \in Requests
  BY <1>1, AskedOK
<1>3. HttpOK' /\ http'.at = "wait" /\ http'.op = http.op /\ http'.index = index /\ http'.sub = sub
  BY <1>1 DEF AskNext, HttpOK
<1>4. Asked' = q
  BY <1>3 DEF Asked, Request
<1> HIDE DEF q
<1>5. SendTo(s_node_id, q, rest)
  BY DEF AskNext, Send, q
<1>6. WireOK' /\ (s_node_id = ServerNode /\ lost' = 0 => \E i \in 1..Len(bus') : bus'[i] = q)
  BY <1>1, <1>2, <1>5, SendOK
<1>7. poll' = poll => LockInv'
  BY <1>3 DEF SdoInv, LockInv, AskNext
<1>8. QED
  BY <1>3, <1>4, <1>6, <1>7 DEF OnItsWay

\* A handler keeps the invariant, and goes on only with its request on the bus.
LEMMA JsonNextOK ==
    ASSUME SdoInv, Waiting("json"), NEW rest \in Seq(Replies), Len(rest) <= RxDepth, JsonNext(rest)
    PROVE  /\ HttpOK' /\ WireOK' /\ (poll' = poll => LockInv')
           /\ http'.at = "wait" /\ s_node_id = ServerNode /\ lost' = 0 => OnItsWay'
<1>0. http.at = "wait" /\ HttpOK /\ WireOK /\ Param \in Nat /\ http.sub + 1 \in Nat
  BY SMTT(30) DEF Waiting, SdoInv, Param, HttpOK
<1>1. CASE AskNext(Param, http.sub + 1, rest)
  BY <1>0, <1>1, AskNextOK
<1>2. CASE Finish(NoAnswer) /\ Leave(rest)
  BY <1>0, <1>2, FinishOK, LeaveOK
<1>3. QED
  BY <1>1, <1>2 DEF JsonNext

LEMMA HandlerOK ==
    ASSUME SdoInv, WaitInv, Handler
    PROVE  SdoInv' /\ WaitInv'
<1>0. /\ HttpOK /\ WireOK /\ LockInv /\ <<>> \in Seq(Replies) /\ Len(<<>>) <= RxDepth
      /\ http.at = "wait" /\ HttpFrame
  <2>1. http.at = "wait" /\ HttpFrame
    BY DEF Handler, Waiting, SingleReply, SingleSilent, JsonReply, JsonDiscard, JsonSilent,
           AddReply, CanmapReply, WalkSilent, StreamAsk, StreamReply, StreamSilent
  <2>2. QED
    BY <2>1, AskSerialOK DEF SdoInv
<1>1. HandshakeOK' /\ ScanOK' /\ next' \in 0..Segments /\ poll' = poll /\ s_node_id' = s_node_id
  BY <1>0, HttpFrameOK
<1>2. SUFFICES /\ HttpOK' /\ WireOK' /\ LockInv'
               /\ http'.at = "wait" /\ http'.op # "stream" /\ s_node_id = ServerNode /\ lost' = 0
                    => OnItsWay'
  BY <1>1 DEF SdoInv, WaitInv
<1>3. s_rx_queue # <<>> => /\ Head(s_rx_queue) \in Replies /\ Rest \in Seq(Replies)
                           /\ Len(Rest) <= RxDepth /\ Len(Rest) = Len(s_rx_queue) - 1
                           /\ \A i \in 1..Len(Rest) : Rest[i] = s_rx_queue[i + 1]
  <2>1. RxDepth \in Nat /\ Len(s_rx_queue) \in Nat /\ Len(s_rx_queue) <= RxDepth
    BY <1>0, SdoAssumption DEF WireOK
  <2>2. ASSUME s_rx_queue # <<>>
        PROVE  /\ Head(s_rx_queue) \in Replies /\ Rest \in Seq(Replies)
               /\ Len(Rest) = Len(s_rx_queue) - 1
               /\ \A i \in 1..Len(Rest) : Rest[i] = s_rx_queue[i + 1]
    BY <1>0, <2>2, RestOK, Zenon
  <2>3. QED
    BY <2>1, <2>2
<1>4. \A told : Finish(told) => HttpOK' /\ LockInv' /\ http'.at = "none"
  BY <1>0, <1>1, FinishOK
<1>5. CASE SingleReply
  BY <1>0, <1>3, <1>4, <1>5, LeaveOK DEF SingleReply
<1>6. CASE SingleSilent
  BY <1>0, <1>4, <1>6, LeaveOK DEF SingleSilent
<1>7. CASE WalkSilent
  BY <1>0, <1>4, <1>7, LeaveOK DEF WalkSilent
<1>8. CASE JsonReply
  BY <1>0, <1>1, <1>3, <1>8, JsonNextOK DEF JsonReply
<1>9. CASE JsonDiscard
  <2>1. WireOK' /\ bus' = bus /\ s_rx_queue' = Rest /\ lost' = lost /\ http' = http /\ lock' = lock
    BY <1>0, <1>3, <1>9, LeaveOK DEF JsonDiscard, Leave
  <2>2. HttpOK' /\ LockInv'
    BY <1>0, <1>1, <2>1 DEF HttpOK, LockInv
  <2>3. ASSUME OnItsWay PROVE OnItsWay'
    <3>1. ASSUME NEW i \in 1..Len(s_rx_queue), Answers(s_rx_queue[i]) PROVE OnItsWay'
      <4>1. s_rx_queue # <<>> /\ ~Answers(s_rx_queue[1])
        BY <1>9 DEF JsonDiscard
      <4>2. i # 1
        BY <3>1, <4>1
      <4>3. Len(s_rx_queue) \in Nat
        BY <1>0 DEF WireOK
      <4>4. i - 1 \in 1..Len(Rest) /\ (i - 1) + 1 = i
        BY <1>3, <3>1, <4>1, <4>2, <4>3
      <4>5. Rest[i - 1] = s_rx_queue[i]
        BY <1>3, <4>1, <4>4
      <4>6. QED
        BY <2>1, <3>1, <4>4, <4>5 DEF OnItsWay, Answers
    <3>2. QED
      BY <2>1, <2>3, <3>1 DEF OnItsWay, Asked, Request
  <2>4. QED
    BY <2>1, <2>2, <2>3 DEF WaitInv
<1>10. CASE JsonSilent
  <2> DEFINE rest == IF s_rx_queue = <<>> THEN <<>> ELSE Rest
  <2>1. rest \in Seq(Replies) /\ Len(rest) <= RxDepth
    BY <1>0, <1>3
  <2> HIDE DEF rest
  <2>2. CASE JsonNext(rest)
    BY <1>0, <1>1, <1>10, <2>1, <2>2, JsonNextOK DEF JsonSilent
  <2>3. CASE http' = [http EXCEPT !.again = TRUE] /\ Send(Asked, rest) /\ UNCHANGED <<lock, answer>>
    <3>1. HttpOK' /\ http'.at = "wait" /\ Asked' = Asked
      BY <1>0, <2>3 DEF HttpOK, Asked, Request
    <3>2. LockInv'
      BY <1>0, <1>1, <2>3, <3>1 DEF LockInv
    <3>3. WireOK' /\ (s_node_id = ServerNode /\ lost' = 0 => \E i \in 1..Len(bus') : bus'[i] = Asked)
      BY <1>0, <2>1, <2>3, AskedOK, SendOK DEF Send
    <3>4. QED
      BY <3>1, <3>2, <3>3 DEF OnItsWay
  <2>4. QED
    BY <1>10, <2>2, <2>3 DEF JsonSilent, rest
<1>11. CASE AddReply
  <2>1. MapWrite \in Nat /\ http.sub + 1 \in Nat
    BY <1>0 DEF MapWrite, HttpOK
  <2>2. CASE Finish(NoAnswer) /\ Leave(Rest)
    BY <1>0, <1>3, <1>4, <1>11, <2>2, LeaveOK DEF AddReply
  <2>3. CASE AskNext(MapWrite, http.sub + 1, Rest)
    BY <1>0, <1>1, <1>3, <1>11, <2>1, <2>3, AskNextOK DEF AddReply
  <2>4. CASE Finish(NoAnswer) /\ Send(Request("write", MapWrite, http.sub + 1), Rest)
    <3>1. Request("write", MapWrite, http.sub + 1) \in Requests
      BY <2>1 DEF Request, Requests, CmdSet
    <3>2. WireOK'
      BY <1>0, <1>3, <1>11, <2>4, <3>1, SendOK DEF Send, AddReply
    <3>3. QED
      BY <1>4, <2>4, <3>2
  <2>5. QED
    BY <1>11, <2>2, <2>3, <2>4 DEF AddReply
<1>12. CASE CanmapReply
  <2>1. MapReadRx \in Nat /\ http.index \in Nat /\ http.sub \in Nat
    BY <1>0 DEF MapReadRx, MapRead, HttpOK
  <2>2. CASE Finish(NoAnswer) /\ Leave(Rest)
    BY <1>0, <1>3, <1>4, <1>12, <2>2, LeaveOK DEF CanmapReply
  <2>3. CASE \E index, sub \in Nat : AskNext(index, sub, Rest)
    BY <1>0, <1>1, <1>3, <1>12, <2>3, AskNextOK DEF CanmapReply
  <2>4. \/ Finish(NoAnswer) /\ Leave(Rest)
        \/ AskNext(http.index, http.sub + 1, Rest)
        \/ AskNext(MapReadRx, 0, Rest)
        \/ AskNext(http.index + 1, 0, Rest)
    BY <1>12 DEF CanmapReply
  <2>5. QED
    BY <2>1, <2>2, <2>3, <2>4
<1>13. CASE StreamAsk
  <2>1. /\ HttpOK' /\ http'.at = "wait" /\ http'.op = "stream" /\ lock' = lock
        /\ Request("read", Param, http'.sub) \in Requests
    BY <1>0, <1>13 DEF StreamAsk, Waiting, HttpOK, Request, Requests, CmdSet, Param
  <2>2. WireOK'
    BY <1>0, <1>13, <2>1, SendOK DEF StreamAsk, Send, WireOK
  <2>3. QED
    BY <1>0, <1>1, <2>1, <2>2 DEF LockInv
<1>14. CASE StreamReply
  <2>1. WireOK' /\ UNCHANGED <<http, lock>> /\ http.op = "stream"
    BY <1>0, <1>3, <1>14, LeaveOK DEF StreamReply, Waiting
  <2>2. QED
    BY <1>0, <1>1, <2>1 DEF HttpOK, LockInv
<1>15. CASE StreamSilent
  <2>1. CASE Finish(NoAnswer) /\ Leave(<<>>)
    BY <1>0, <1>4, <2>1, LeaveOK
  <2>2. CASE /\ http' = [http EXCEPT !.sub = 1, !.again = TRUE]
             /\ Send(Request("read", Param, 1), <<>>) /\ UNCHANGED <<lock, answer>>
    <3>0. Request("read", Param, 1) \in Requests
      BY DEF Request, Requests, CmdSet, Param
    <3>1. HttpOK' /\ http'.at = "wait" /\ http'.op = "stream" /\ Request("read", Param, 1) \in Requests
      BY <1>0, <1>15, <2>2, <3>0 DEF StreamSilent, Waiting, HttpOK
    <3>2. WireOK'
      BY <1>0, <2>2, <3>1, SendOK DEF Send
    <3>3. QED
      BY <1>0, <1>1, <2>2, <3>1, <3>2 DEF LockInv
  <2>3. QED
    BY <1>15, <2>1, <2>2 DEF StreamSilent
<1>16. QED
  BY <1>5, <1>6, <1>7, <1>8, <1>9, <1>10, <1>11, <1>12, <1>13, <1>14, <1>15 DEF Handler

-----------------------------------------------------------------------------
(* Every step.                                                             *)

LEMMA SdoInitOK == SdoInit => SdoInv /\ WaitInv
<1> SUFFICES ASSUME SdoInit PROVE SdoInv /\ WaitInv
  OBVIOUS
<1>1. HandshakeOK /\ ScanOK /\ HttpOK /\ LockInv /\ next \in 0..Segments /\ http.at = "none"
  <2>1. ScanOK /\ next \in 0..Segments
    <3>1. /\ s_node_id \in 1..LastNode /\ saved = s_node_id /\ attempts = 0
          /\ scanned = FALSE /\ next = 0
      BY Zenon DEF SdoInit
    <3>2. scanned \in BOOLEAN
      BY <3>1, Zenon
    <3>3. 0 \in 0..ScanAfter /\ 0 \in 0..Segments
      OBVIOUS
    <3>4. QED
      BY <3>1, <3>2, <3>3, Zenon DEF ScanOK
  <2>2. HandshakeOK
    <3>1. s_state = "obtain_serial" /\ toggle_bit = 0 /\ file = FALSE /\ tmp = <<>> /\ schema = <<>>
      BY Zenon DEF SdoInit
    <3>2. file \in BOOLEAN
      BY <3>1, Zenon
    <3>3. 0 \in 0..1 /\ <<>> \in Seq(1..Segments)
      OBVIOUS
    <3>4. QED
      BY <3>1, <3>2, <3>3, Zenon DEF HandshakeOK
  <2>3. HttpOK /\ LockInv /\ http.at = "none"
    BY DEF SdoInit, HttpOK, LockInv, NoHttp
  <2>4. QED
    BY <2>1, <2>2, <2>3
<1>2. WireOK
  BY AskSerialOK DEF SdoInit, WireOK
<1>3. QED
  BY <1>1, <1>2 DEF SdoInv, WaitInv

\* Where the poll task holds the lock, or nobody does, no handler waits.
LEMMA PollOK ==
    ASSUME SdoInv, Poll
    PROVE  SdoInv' /\ WaitInv'
<1>0. HandshakeOK /\ ScanOK /\ WireOK /\ HttpOK /\ LockInv /\ next \in 0..Segments
  BY DEF SdoInv
<1>1. http.at # "wait" /\ UNCHANGED <<web, next>>
  BY <1>0 DEF LockInv, Poll, PollTake, PollEmpty, PollSkip, PollRetry, StartScan, ScanNext, ScanEnd
<1>2. http' = http /\ next' = next
  BY <1>1 DEF web
<1>3. HttpOK' /\ WaitInv' /\ next' \in 0..Segments
  BY <1>0, <1>1, <1>2 DEF HttpOK, WaitInv
<1>4. SUFFICES HandshakeOK' /\ ScanOK' /\ WireOK' /\ LockInv'
  BY <1>3 DEF SdoInv
<1>5. CASE PollTake
  <2>1. HandshakeOK' /\ WireOK'
    BY <1>5, ResponseOK DEF PollTake
  <2>2. ScanOK'
    BY <1>0, <1>5 DEF PollTake, scan, ScanOK
  <2>3. LockInv'
    <3>1. CASE Shaky'
      BY <1>0, <1>1, <1>2, <1>5, <3>1 DEF PollTake, LockInv
    <3>2. CASE ~Shaky'
      BY <1>0, <1>1, <1>2, <1>5, <3>2 DEF PollTake, LockInv
    <3>3. QED
      BY <3>1, <3>2
  <2>4. QED
    BY <2>1, <2>2, <2>3
<1>6. CASE PollEmpty
  BY <1>0, <1>1, <1>2, <1>6 DEF PollEmpty, handshake, scan, wire, HandshakeOK, ScanOK, WireOK, LockInv
<1>7. CASE PollSkip
  BY <1>0, <1>1, <1>2, <1>7 DEF PollSkip, handshake, scan, wire, HandshakeOK, ScanOK, WireOK, LockInv
<1>8. ASSUME PollRetry \/ StartScan PROVE NextAttempt \in 0..ScanAfter /\ HandshakeOK'
  <2>1. NextAttempt \in 0..ScanAfter
    BY <1>0 DEF NextAttempt, ScanOK
  <2>2. HandshakeOK'
    BY <1>0, <1>8 DEF PollRetry, StartScan, HandshakeOK
  <2>3. QED
    BY <2>1, <2>2
<1>9. CASE PollRetry
  <2>1. WireOK'
    BY <1>0, <1>9, AskSerialOK, SendOK DEF PollRetry, Send
  <2>2. ScanOK' /\ LockInv'
    BY <1>0, <1>1, <1>2, <1>8, <1>9 DEF PollRetry, ScanOK, LockInv
  <2>3. QED
    BY <1>8, <1>9, <2>1, <2>2
<1>10. CASE StartScan
  <2>1. WireOK'
    BY <1>0, <1>10, AskSerialOK, SendOK DEF StartScan
  <2>2. ScanOK' /\ LockInv'
    BY SMTT(30), <1>0, <1>1, <1>2, <1>8, <1>10 DEF StartScan, ScanOK, LockInv
  <2>3. QED
    BY <1>8, <1>10, <2>1, <2>2
<1>11. CASE ScanNext
  <2>1. WireOK'
    BY <1>0, <1>11, AskSerialOK, SendOK DEF ScanNext
  <2>2. HandshakeOK' /\ ScanOK' /\ LockInv'
    BY SMTT(30), <1>0, <1>1, <1>2, <1>11 DEF ScanNext, handshake, HandshakeOK, ScanOK, LockInv
  <2>3. QED
    BY <2>1, <2>2
<1>12. CASE ScanEnd
  <2>1. WireOK'
    BY <1>0, <1>12, AskSerialOK, SendOK DEF ScanEnd
  <2>2. HandshakeOK' /\ ScanOK' /\ LockInv'
    BY <1>0, <1>1, <1>2, <1>12 DEF ScanEnd, handshake, HandshakeOK, ScanOK, LockInv
  <2>3. QED
    BY <2>1, <2>2
<1>13. QED
  BY <1>5, <1>6, <1>7, <1>9, <1>10, <1>11, <1>12 DEF Poll

LEMMA StartsOK ==
    ASSUME NEW start \in Starts
    PROVE  /\ start \in [op : Walks, at : {"lock"}, index : Nat, sub : Nat, again : BOOLEAN]
           /\ start.op # "none"
<1>1. \A op \in Walks : \A i, j \in Nat :
        /\ Start(op, i, j) \in [op : Walks, at : {"lock"}, index : Nat, sub : Nat, again : BOOLEAN]
        /\ Start(op, i, j).op # "none"
  BY DEF Start, Walks
<1>2. \E op \in Walks : \E i, j \in Nat : start = Start(op, i, j)
  <2>1. CASE start \in Named
    <3>1. CASE start \in {Start(op, Param, id) : op \in {"get", "set"}, id \in 1..Params}
      <4>1. PICK op \in {"get", "set"}, id \in 1..Params : start = Start(op, Param, id)
        BY <3>1
      <4>2. op \in Walks /\ Param \in Nat /\ id \in Nat
        BY DEF Walks, Param
      <4>3. QED
        BY <4>1, <4>2
    <3>2. CASE start \in {Start(op, Param, 1) : op \in {"json", "stream"}}
      BY <3>2 DEF Walks, Param
    <3>3. QED
      BY <2>1, <3>1, <3>2 DEF Named
  <2>2. CASE start \in {Start("save", Commands, 0), Start("remove", MapRead, 1),
                        Start("add", MapWrite, 0), Start("canmap", MapRead, 0)}
    BY <2>2 DEF Walks, Commands, MapRead, MapWrite
  <2>3. QED
    BY <2>1, <2>2 DEF Starts
<1>3. QED
  BY SMTT(30), <1>1, <1>2

LEMMA HttpStartOK ==
    ASSUME SdoInv, HttpStart
    PROVE  SdoInv' /\ WaitInv'
<1>0. HandshakeOK /\ ScanOK /\ WireOK /\ HttpOK /\ LockInv /\ next \in 0..Segments
  BY DEF SdoInv
<1>1. PICK start \in Starts : http' = start
  BY DEF HttpStart
<1>2. HttpOK' /\ http'.at = "lock" /\ http.at = "none"
  BY <1>0, <1>1, StartsOK DEF HttpOK, HttpStart
<1>3. HandshakeOK' /\ ScanOK' /\ WireOK' /\ next' \in 0..Segments
  BY <1>0 DEF HttpStart, handshake, scan, wire, HandshakeOK, ScanOK, WireOK
<1>4. LockInv'
  BY <1>0, <1>2 DEF HttpStart, LockInv
<1>5. QED
  BY <1>2, <1>3, <1>4 DEF SdoInv, WaitInv

LEMMA HttpLockOK ==
    ASSUME SdoInv, HttpLock
    PROVE  SdoInv' /\ WaitInv'
<1>0. HandshakeOK /\ ScanOK /\ WireOK /\ HttpOK /\ LockInv /\ next \in 0..Segments
  BY DEF SdoInv
<1>1. HttpOK' /\ http'.at = "wait" /\ Asked' = Asked
  BY <1>0 DEF HttpLock, HttpOK, Asked, Request
<1>2. WireOK' /\ (s_node_id = ServerNode /\ lost' = 0 => \E i \in 1..Len(bus') : bus'[i] = Asked)
  BY <1>0, AskedOK, AskSerialOK, SendOK DEF HttpLock, Send
<1>3. HandshakeOK' /\ ScanOK' /\ next' \in 0..Segments /\ s_node_id' = s_node_id
  BY <1>0 DEF HttpLock, handshake, scan, HandshakeOK, ScanOK
<1>4. LockInv'
  BY <1>0, <1>1 DEF HttpLock, LockInv
<1>5. QED
  BY <1>1, <1>2, <1>3, <1>4 DEF SdoInv, WaitInv, OnItsWay

LEMMA ServeOK ==
    ASSUME SdoInv, WaitInv, Serve
    PROVE  SdoInv' /\ WaitInv'
<1>0. HandshakeOK /\ ScanOK /\ WireOK /\ HttpOK /\ LockInv /\ next \in 0..Segments
  BY DEF SdoInv
<1> DEFINE q == Head(bus)
           ok == Accepts(q)
           n == IF q.cmd = "segment" /\ InTurn(q) THEN next ELSE 0
<1>1. q \in Requests /\ bus' = Tail(bus) /\ Tail(bus) \in Seq(Requests) /\ Len(Tail(bus)) = Len(bus) - 1
      /\ \A i \in 1..Len(Tail(bus)) : Tail(bus)[i] = bus[i + 1]
  BY <1>0, BusTail DEF Serve
<1>2. n \in 0..Segments /\ Transfer(q) /\ Deliver(Reply(q, ok, n))
  BY <1>0 DEF Serve
<1>3. ok \in BOOLEAN
  BY DEF Accepts, InTurn, Mapped
<1>4. UNCHANGED <<s_node_id, http, lock, poll>> /\ HandshakeOK' /\ ScanOK' /\ HttpOK' /\ LockInv'
  BY <1>0 DEF Serve, handshake, scan, web, HandshakeOK, ScanOK, HttpOK, LockInv
<1>5. next' \in 0..Segments
  BY <1>0, <1>2 DEF Transfer, InTurn
<1> HIDE DEF q, ok, n
<1>6. /\ s_rx_queue' \in Seq(Replies) /\ Len(s_rx_queue') <= RxDepth /\ lost' \in Nat
      /\ \A i \in 1..Len(s_rx_queue) : i \in 1..Len(s_rx_queue') /\ s_rx_queue'[i] = s_rx_queue[i]
      /\ lost' = 0 => lost = 0
      /\ s_node_id = ServerNode /\ lost' = 0 =>
            \E i \in 1..Len(s_rx_queue') : s_rx_queue'[i] = Reply(q, ok, n)
  BY <1>0, <1>1, <1>2, <1>3, DeliverOK
<1>7. WireOK'
  <2>1. Len(bus) \in Nat /\ Len(bus) <= TxDepth
    BY <1>0 DEF WireOK
  <2>2. Len(Tail(bus)) <= TxDepth
    BY SMTT(30), <1>1, <2>1
  <2>3. QED
    BY <1>1, <1>6, <2>2 DEF WireOK
<1>8. SUFFICES ASSUME OnItsWay, s_node_id = ServerNode, lost' = 0 PROVE OnItsWay'
  BY <1>4, <1>5, <1>6, <1>7 DEF SdoInv, WaitInv
<1>9. Asked' = Asked /\ \A r : Answers(r)' <=> Answers(r)
  BY <1>4 DEF Asked, Answers, Request
<1>10. CASE \E i \in 1..Len(s_rx_queue) : Answers(s_rx_queue[i])
  BY <1>4, <1>6, <1>10 DEF OnItsWay, Answers
<1>11. ASSUME NEW i \in 1..Len(bus), bus[i] = Asked PROVE OnItsWay'
  <2>1. CASE i = 1
    <3>1. q = Asked
      BY <1>0, <1>11, <2>1 DEF q, WireOK
    <3>2. Reply(q, ok, n).index = http.index /\ Reply(q, ok, n).sub = http.sub
      BY <3>1 DEF Reply, Asked, Request
    <3>3. QED
      BY <1>4, <1>6, <1>8, <3>2 DEF OnItsWay, Answers
  <2>2. CASE i # 1
    <3>1. Len(bus) \in Nat
      BY <1>0 DEF WireOK
    <3>2. i - 1 \in 1..Len(Tail(bus)) /\ (i - 1) + 1 = i
      BY SMTT(30), <1>1, <1>11, <2>2, <3>1
    <3>3. Tail(bus)[i - 1] = Asked
      BY <1>1, <1>11, <3>2
    <3>4. QED
      BY <1>1, <1>9, <3>2, <3>3 DEF OnItsWay
  <2>3. QED
    BY <2>1, <2>2
<1>12. QED
  BY <1>8, <1>10, <1>11 DEF OnItsWay

LEMMA RestartOK ==
    ASSUME SdoInv, NodeId \/ Reset
    PROVE  SdoInv' /\ WaitInv'
<1>0. HandshakeOK /\ ScanOK /\ WireOK /\ HttpOK /\ LockInv /\ next \in 0..Segments
  BY DEF SdoInv
<1>1. PICK node \in 1..LastNode : Begin(node) /\ Afresh(node)
  BY <1>0 DEF NodeId, Reset, ScanOK
<1>2. WireOK'
  BY <1>0, <1>1, AfreshOK
<1>3. HandshakeOK' /\ ScanOK' /\ next' \in 0..Segments
  <2>1. attempts' \in 0..ScanAfter /\ s_state' = "obtain_serial" /\ s_node_id' = node /\ saved' = node
    BY <1>1 DEF Begin
  <2>2. toggle_bit' \in 0..1 /\ file' \in BOOLEAN /\ scanned' \in BOOLEAN /\ UNCHANGED <<tmp, schema, next>>
    <3>1. CASE NodeId
      BY <1>0, <3>1 DEF NodeId, HandshakeOK, ScanOK
    <3>2. CASE Reset
      <4>1. toggle_bit' = 0 /\ file' = FALSE /\ scanned' = FALSE /\ UNCHANGED <<tmp, schema, next>>
        BY <3>2, Zenon DEF Reset
      <4>2. file' \in BOOLEAN /\ scanned' \in BOOLEAN
        BY <4>1, Zenon
      <4>3. 0 \in 0..1
        OBVIOUS
      <4>4. QED
        BY <4>1, <4>2, <4>3, Zenon
    <3>3. QED
      BY <3>1, <3>2
  <2>3. QED
    BY <1>0, <2>1, <2>2 DEF HandshakeOK, ScanOK
<1>4. HttpOK' /\ LockInv' /\ http'.at # "wait"
  <2>1. CASE NodeId
    BY <1>0, <2>1 DEF NodeId, HttpOK, LockInv
  <2>2. CASE Reset
    BY <2>2 DEF Reset, NoHttp, HttpOK, LockInv
  <2>3. QED
    BY <2>1, <2>2
<1>5. QED
  BY <1>2, <1>3, <1>4 DEF SdoInv, WaitInv

LEMMA SdoNextOK == SdoInv /\ WaitInv /\ [SdoNext]_vars => SdoInv' /\ WaitInv'
<1> SUFFICES ASSUME SdoInv, WaitInv, [SdoNext]_vars PROVE SdoInv' /\ WaitInv'
  OBVIOUS
<1>0. HandshakeOK /\ ScanOK /\ WireOK /\ HttpOK /\ LockInv /\ next \in 0..Segments
  BY DEF SdoInv
<1>1. CASE Lose
  <2>1. HandshakeOK' /\ ScanOK' /\ HttpOK' /\ LockInv' /\ next' \in 0..Segments
    BY <1>0, <1>1 DEF Lose, handshake, scan, web, HandshakeOK, ScanOK, HttpOK, LockInv
  <2>2. lost' \in Nat /\ lost' # 0 /\ s_rx_queue' = s_rx_queue /\ bus' = Tail(bus)
    BY <1>0, <1>1 DEF Lose, WireOK
  <2>3. WireOK'
    BY SMTT(30), <1>0, <1>1, <2>2, BusTail DEF WireOK, Lose
  <2>4. QED
    BY <2>1, <2>2, <2>3 DEF SdoInv, WaitInv
<1>2. CASE UNCHANGED vars
  BY <1>0, <1>2 DEF vars, handshake, scan, web, wire, SdoInv, WaitInv, HandshakeOK, ScanOK, WireOK,
                    HttpOK, LockInv, OnItsWay, Answers, Asked, Request
<1>3. QED
  BY <1>1, <1>2, PollOK, HttpStartOK, HttpLockOK, HandlerOK, ServeOK, RestartOK DEF SdoNext

LEMMA SdoInvariant == SdoSpec => [](SdoInv /\ WaitInv)
BY SdoInitOK, SdoNextOK, PTL DEF SdoSpec

-----------------------------------------------------------------------------
(* Results.                                                                *)

\* The state has its type, both queues stay within their depth, and s_sdo_lock is
\* held exactly while a task is in a transaction (oi_can.c:154-160).
THEOREM SdoTypeCorrect == SdoSpec => []SdoTypeOK
<1>1. SdoInv => SdoTypeOK
  BY DEF SdoInv, HandshakeOK, ScanOK, WireOK, LockInv, SdoTypeOK
<1>2. QED
  BY <1>1, SdoInvariant, PTL

\* A handler goes without an answer only while its request, or the reply to it, is
\* still on its way: the poll task has not taken it (oi_can.c:154-160).
THEOREM RepliesKept == SdoSpec => NoReplySwallowed
<1>1. SdoInv /\ WaitInv /\ [SdoNext]_vars =>
        [SingleSilent \/ JsonSilent \/ WalkSilent =>
           \/ lost > 0 \/ s_node_id # ServerNode
           \/ \E i \in 1..Len(bus) : bus[i] = Asked
           \/ \E i \in 1..Len(s_rx_queue) : Answers(s_rx_queue[i])]_vars
  <2> SUFFICES ASSUME SdoInv, WaitInv, SingleSilent \/ JsonSilent \/ WalkSilent,
                      s_node_id = ServerNode, ~(lost > 0)
               PROVE  OnItsWay
    BY DEF OnItsWay
  <2>1. lost = 0
    BY DEF SdoInv, WireOK
  <2>2. http.at = "wait" /\ http.op # "stream"
    BY DEF SingleSilent, JsonSilent, WalkSilent, Waiting, Single
  <2>3. QED
    BY <2>1, <2>2 DEF WaitInv
<1>2. QED
  BY <1>1, SdoInvariant, PTL DEF SdoSpec, NoReplySwallowed

-----------------------------------------------------------------------------
(* The schema.                                                             *)

HIDE SdoAssumption

LEMMA SegmentsNat == Segments \in Nat /\ Segments > 0
<1>1. Segments \in Nat \ {0}
  BY SdoAssumption, Zenon DEF SdoAssumption
<1>2. QED
  BY <1>1

Same(x, y) == x.cmd = y.cmd /\ x.index = y.index /\ x.sub = y.sub

LEMMA ReplyIs ==
    ASSUME NEW q, NEW ok, NEW n
    PROVE  /\ Same(Reply(q, ok, n), q)
           /\ Reply(q, ok, n).n = n /\ Reply(q, ok, n).abort = ~ok
BY DEF Reply, Same

LEMMA BeforeSame ==
    ASSUME NEW d, NEW x, NEW y, NEW z, Same(y, z)
    PROVE  (Before(d, x, y) <=> Before(d, x, z)) /\ (Before(d, y, x) <=> Before(d, z, x))
BY DEF Same, Before

\* The first reply of the queue came before all that is still on its way.
LEMMA OrderTake ==
    ASSUME NEW d, NEW r \in Seq(Replies), NEW b \in Seq(Requests), r # <<>>, InOrder(d, r, b)
    PROVE  /\ InOrder(d, Tail(r), b)
           /\ \A i \in 1..Len(Tail(r)) : Before(d, Head(r), Tail(r)[i])
           /\ \A j \in 1..Len(b) : Before(d, Head(r), b[j])
<1>1. /\ Len(r) \in Nat /\ Len(r) > 0 /\ Len(Tail(r)) = Len(r) - 1 /\ Head(r) = r[1]
      /\ \A i \in 1..Len(Tail(r)) : Tail(r)[i] = r[i + 1]
  OBVIOUS
<1>2. \A i \in 1..Len(Tail(r)) : i + 1 \in 1..Len(r) /\ 1 < i + 1
  BY <1>1
<1>3. 1 \in 1..Len(r)
  BY <1>1
<1>4. \A i, j \in 1..Len(Tail(r)) : i < j => i + 1 < j + 1
  BY <1>1
<1>5. \A i, j \in 1..Len(r) : i < j => Before(d, r[i], r[j])
  BY DEF InOrder
<1>6. \A i \in 1..Len(r) : \A j \in 1..Len(b) : Before(d, r[i], b[j])
  BY DEF InOrder
<1>7. \A i, j \in 1..Len(Tail(r)) : i < j => Before(d, Tail(r)[i], Tail(r)[j])
  BY <1>1, <1>2, <1>4, <1>5
<1>8. \A i \in 1..Len(Tail(r)) : \A j \in 1..Len(b) : Before(d, Tail(r)[i], b[j])
  BY <1>1, <1>2, <1>6
<1>9. InOrder(d, Tail(r), b)
  BY <1>7, <1>8 DEF InOrder
<1>10. QED
  BY <1>1, <1>2, <1>3, <1>5, <1>6, <1>9

LEMMA OrderSend ==
    ASSUME NEW d, NEW r \in Seq(Replies), NEW b \in Seq(Requests), NEW q \in Requests, InOrder(d, r, b),
           \A i \in 1..Len(r) : Before(d, r[i], q),
           \A i \in 1..Len(b) : Before(d, b[i], q)
    PROVE  InOrder(d, r, Append(b, q))
<1> DEFINE c == Append(b, q)
<1>1. /\ Len(b) \in Nat /\ Len(c) = Len(b) + 1 /\ c[Len(b) + 1] = q
      /\ \A i \in 1..Len(b) : c[i] = b[i]
  OBVIOUS
<1> HIDE DEF c
<1>2. \A i \in 1..Len(c) : i \in 1..Len(b) \/ i = Len(b) + 1
  BY <1>1
<1>3. \A i, j \in 1..Len(c) : i < j => i \in 1..Len(b)
  BY <1>1
<1>4. \A i, j \in 1..Len(c) : i < j => Before(d, c[i], c[j])
  <2> TAKE i, j \in 1..Len(c)
  <2> HAVE i < j
  <2>1. i \in 1..Len(b) /\ c[i] = b[i]
    BY <1>1, <1>3
  <2>2. CASE j = Len(b) + 1
    BY <1>1, <2>1, <2>2
  <2>3. CASE j \in 1..Len(b)
    BY <1>1, <2>1, <2>3 DEF InOrder
  <2>4. QED
    BY <1>2, <2>2, <2>3
<1>5. \A i \in 1..Len(r) : \A j \in 1..Len(c) : Before(d, r[i], c[j])
  BY <1>1, <1>2 DEF InOrder
<1>6. InOrder(d, r, c)
  BY <1>4, <1>5 DEF InOrder
<1>7. QED
  BY <1>6 DEF c

LEMMA OrderDrop ==
    ASSUME NEW d, NEW r \in Seq(Replies), NEW b \in Seq(Requests), b # <<>>, InOrder(d, r, b)
    PROVE  /\ InOrder(d, r, Tail(b))
           /\ \A i \in 1..Len(r) : Before(d, r[i], Head(b))
           /\ \A i \in 1..Len(Tail(b)) : Before(d, Head(b), Tail(b)[i])
<1>1. /\ Len(b) \in Nat /\ Len(b) > 0 /\ Len(Tail(b)) = Len(b) - 1 /\ Head(b) = b[1]
      /\ \A i \in 1..Len(Tail(b)) : Tail(b)[i] = b[i + 1]
  OBVIOUS
<1>2. \A i \in 1..Len(Tail(b)) : i + 1 \in 1..Len(b) /\ 1 < i + 1
  BY <1>1
<1>3. 1 \in 1..Len(b)
  BY <1>1
<1>4. \A i, j \in 1..Len(Tail(b)) : i < j => i + 1 < j + 1
  BY <1>1
<1>5. \A i, j \in 1..Len(b) : i < j => Before(d, b[i], b[j])
  BY DEF InOrder
<1>6. \A i \in 1..Len(r) : \A j \in 1..Len(b) : Before(d, r[i], b[j])
  BY DEF InOrder
<1>7. \A i, j \in 1..Len(Tail(b)) : i < j => Before(d, Tail(b)[i], Tail(b)[j])
  BY <1>1, <1>2, <1>4, <1>5
<1>8. \A i \in 1..Len(r) : \A j \in 1..Len(Tail(b)) : Before(d, r[i], Tail(b)[j])
  BY <1>1, <1>2, <1>6
<1>9. InOrder(d, r, Tail(b))
  BY <1>7, <1>8 DEF InOrder
<1>10. QED
  BY <1>1, <1>2, <1>3, <1>5, <1>6, <1>9

\* A reply that joins the queue.
LEMMA OrderReply ==
    ASSUME NEW d, NEW r \in Seq(Replies), NEW b \in Seq(Requests), NEW x \in Replies, InOrder(d, r, b),
           \A i \in 1..Len(r) : Before(d, r[i], x),
           \A i \in 1..Len(b) : Before(d, x, b[i])
    PROVE  InOrder(d, Append(r, x), b)
<1> DEFINE c == Append(r, x)
<1>1. /\ Len(r) \in Nat /\ Len(c) = Len(r) + 1 /\ c[Len(r) + 1] = x
      /\ \A i \in 1..Len(r) : c[i] = r[i]
  OBVIOUS
<1> HIDE DEF c
<1>2. \A i \in 1..Len(c) : i \in 1..Len(r) \/ i = Len(r) + 1
  BY <1>1
<1>3. \A i, j \in 1..Len(c) : i < j => i \in 1..Len(r)
  BY <1>1
<1>4. \A i, j \in 1..Len(c) : i < j => Before(d, c[i], c[j])
  <2> TAKE i, j \in 1..Len(c)
  <2> HAVE i < j
  <2>1. i \in 1..Len(r) /\ c[i] = r[i]
    BY <1>1, <1>3
  <2>2. CASE j = Len(r) + 1
    BY <1>1, <2>1, <2>2
  <2>3. CASE j \in 1..Len(r)
    BY <1>1, <2>1, <2>3 DEF InOrder
  <2>4. QED
    BY <1>2, <2>2, <2>3
<1>5. \A i \in 1..Len(c) : \A j \in 1..Len(b) : Before(d, c[i], b[j])
  BY <1>1, <1>2 DEF InOrder
<1>6. InOrder(d, c, b)
  BY <1>4, <1>5 DEF InOrder
<1>7. QED
  BY <1>6 DEF c

-----------------------------------------------------------------------------
\* How sequences change, element by element.
LEMMA TailIs ==
    ASSUME NEW S, NEW s \in Seq(S), s # <<>>
    PROVE  /\ Head(s) \in S /\ Tail(s) \in Seq(S) /\ 1 \in 1..Len(s) /\ Head(s) = s[1]
           /\ Len(s) \in Nat /\ Len(Tail(s)) = Len(s) - 1
           /\ \A i \in 1..Len(Tail(s)) : i + 1 \in 1..Len(s) /\ Tail(s)[i] = s[i + 1]
<1>1. /\ Len(s) \in Nat /\ Len(s) > 0 /\ Len(Tail(s)) = Len(s) - 1 /\ Head(s) = s[1]
      /\ \A i \in 1..Len(Tail(s)) : Tail(s)[i] = s[i + 1]
  OBVIOUS
<1>2. Head(s) \in S /\ Tail(s) \in Seq(S)
  OBVIOUS
<1>3. QED
  BY <1>1, <1>2

LEMMA AppendIs ==
    ASSUME NEW S, NEW s \in Seq(S), NEW x \in S
    PROVE  /\ Append(s, x) \in Seq(S) /\ Len(s) \in Nat /\ Len(Append(s, x)) = Len(s) + 1
           /\ \A i \in 1..Len(s) : i \in 1..Len(Append(s, x)) /\ Append(s, x)[i] = s[i]
           /\ Append(s, x)[Len(s) + 1] = x /\ Len(s) + 1 \in 1..Len(Append(s, x))
           /\ \A i \in 1..Len(Append(s, x)) : i \in 1..Len(s) \/ i = Len(s) + 1
<1>1. /\ Append(s, x) \in Seq(S) /\ Len(s) \in Nat /\ Len(Append(s, x)) = Len(s) + 1
      /\ \A i \in 1..Len(s) : Append(s, x)[i] = s[i]
      /\ Append(s, x)[Len(s) + 1] = x
  OBVIOUS
<1>2. QED
  BY <1>1

LEMMA TalkTail ==
    ASSUME NEW r \in Seq(Replies), NEW b \in Seq(Requests), TalkOK(r, b)
    PROVE  /\ r # <<>> => /\ TalkOK(Tail(r), b) /\ Handshaken(Head(r))
                          /\ (Head(r).n # 0 \/ Head(r).abort) => Head(r).cmd = "segment"
           /\ b # <<>> => TalkOK(r, Tail(b)) /\ Handshaken(Head(b))
           /\ TalkOK(<<>>, b)
<1>1. ASSUME r # <<>>
      PROVE  /\ TalkOK(Tail(r), b) /\ Handshaken(Head(r))
             /\ (Head(r).n # 0 \/ Head(r).abort) => Head(r).cmd = "segment"
  BY <1>1, TailIs DEF TalkOK
<1>2. ASSUME b # <<>> PROVE TalkOK(r, Tail(b)) /\ Handshaken(Head(b))
  BY <1>2, TailIs DEF TalkOK
<1>3. TalkOK(<<>>, b)
  BY DEF TalkOK
<1>4. QED
  BY <1>1, <1>2, <1>3

LEMMA TalkAppend ==
    ASSUME NEW r \in Seq(Replies), NEW b \in Seq(Requests), TalkOK(r, b)
    PROVE  /\ \A q \in Requests : Handshaken(q) => TalkOK(r, Append(b, q))
           /\ \A x \in Replies : Handshaken(x) /\ ((x.n # 0 \/ x.abort) => x.cmd = "segment")
                => TalkOK(Append(r, x), b)
<1>1. ASSUME NEW q \in Requests, Handshaken(q) PROVE TalkOK(r, Append(b, q))
  BY <1>1, AppendIs DEF TalkOK
<1>2. ASSUME NEW x \in Replies, Handshaken(x), (x.n # 0 \/ x.abort) => x.cmd = "segment"
      PROVE  TalkOK(Append(r, x), b)
  BY <1>2, AppendIs DEF TalkOK
<1>3. QED
  BY <1>1, <1>2

\* Requests that leave the bus, and one that joins it.
LEMMA AskTail ==
    ASSUME NEW b \in Seq(Requests), b # <<>>
    PROVE  /\ Begun(b) => Begun(Tail(b))
           /\ \A t : AllAsk(b, t) => AllAsk(Tail(b), t)
           /\ \A t : Turns(b, t) => Turns(Tail(b), t)
<1>1. (Begun(b) => Begun(Tail(b))) /\ \A t : AllAsk(b, t) => AllAsk(Tail(b), t)
  BY TailIs DEF Begun, AllAsk
<1>2. ASSUME NEW t, Turns(b, t) PROVE Turns(Tail(b), t)
  <2> SUFFICES ASSUME NEW i \in 1..Len(Tail(b)), NEW j \in 1..Len(Tail(b)), i < j,
                      Tail(b)[i].cmd = "segment", Tail(b)[i].sub = t
               PROVE  Tail(b)[j].sub = t
    BY DEF Turns
  <2>1. i + 1 \in 1..Len(b) /\ j + 1 \in 1..Len(b) /\ Tail(b)[i] = b[i + 1] /\ Tail(b)[j] = b[j + 1]
    BY TailIs
  <2>2. i + 1 < j + 1
    OBVIOUS
  <2>3. QED
    BY <1>2, <2>1, <2>2 DEF Turns
<1>3. QED
  BY <1>1, <1>2

LEMMA AskMore ==
    ASSUME NEW b \in Seq(Requests), NEW t \in 0..1
    PROVE  /\ AskSegment(t) \in Requests /\ Handshaken(AskSegment(t))
           /\ Begun(b) => Begun(Append(b, AskSegment(t)))
           /\ AllAsk(b, t) => AllAsk(Append(b, AskSegment(t)), t)
           /\ Turns(b, t) => Turns(Append(b, AskSegment(t)), t)
           /\ AllAsk(b, 1 - t) => Turns(b, t)
<1> DEFINE q == AskSegment(t)
<1>1. q \in Requests /\ Handshaken(q) /\ q.cmd = "segment" /\ q.index = 0 /\ q.sub = t /\ q.index # Strings
  BY DEF AskSegment, Request, Requests, CmdSet, Handshaken, Strings
<1> HIDE DEF q
<1> DEFINE c == Append(b, q)
<1>2. /\ Len(b) \in Nat /\ Len(c) = Len(b) + 1
      /\ \A i \in 1..Len(b) : i \in 1..Len(c) /\ c[i] = b[i]
      /\ c[Len(b) + 1] = q
      /\ \A i \in 1..Len(c) : i \in 1..Len(b) \/ i = Len(b) + 1
  BY <1>1, AppendIs
<1> HIDE DEF c
<1>3. (Begun(b) => Begun(c)) /\ (AllAsk(b, t) => AllAsk(c, t))
  BY <1>1, <1>2 DEF Begun, AllAsk
<1>4. ASSUME Turns(b, t) PROVE Turns(c, t)
  <2> SUFFICES ASSUME NEW i \in 1..Len(c), NEW j \in 1..Len(c), i < j, c[i].cmd = "segment", c[i].sub = t
               PROVE  c[j].sub = t
    BY DEF Turns
  <2>1. CASE j = Len(b) + 1
    BY <1>1, <1>2, <2>1
  <2>2. CASE j \in 1..Len(b)
    <3>1. i \in 1..Len(b)
      BY <1>2, <2>2
    <3>2. QED
      BY <1>2, <1>4, <2>2, <3>1 DEF Turns
  <2>3. QED
    BY <1>2, <2>1, <2>2
<1>5. AllAsk(b, 1 - t) => Turns(b, t)
  <2>1. 1 - t # t
    OBVIOUS
  <2>2. QED
    BY <2>1 DEF AllAsk, Turns
<1>6. QED
  BY <1>1, <1>3, <1>4, <1>5 DEF q, c

\* Replies that leave the queue, and one that joins it.
LEMMA WaitsTail ==
    ASSUME NEW r \in Seq(Replies), r # <<>>, NEW n
    PROVE  /\ NoneWaits(r) => NoneWaits(Tail(r))
           /\ OneWaits(r, n) => OneWaits(Tail(r), n)
           /\ OneWaits(r, n) /\ Head(r).n # 0 => NoneWaits(Tail(r)) /\ Head(r).n = n
<1>1. NoneWaits(r) => NoneWaits(Tail(r))
  BY TailIs DEF NoneWaits
<1>2. ASSUME OneWaits(r, n) PROVE OneWaits(Tail(r), n)
  <2> SUFFICES ASSUME NEW i \in 1..Len(Tail(r)), Tail(r)[i].n # 0
               PROVE  Tail(r)[i].n = n /\ \A j \in 1..Len(Tail(r)) : Tail(r)[j].n # 0 => i = j
    BY DEF OneWaits
  <2>1. i + 1 \in 1..Len(r) /\ Tail(r)[i] = r[i + 1]
    BY TailIs
  <2>2. r[i + 1].n = n /\ \A j \in 1..Len(r) : r[j].n # 0 => i + 1 = j
    BY <1>2, <2>1 DEF OneWaits
  <2>3. \A j \in 1..Len(Tail(r)) : j + 1 \in 1..Len(r) /\ Tail(r)[j] = r[j + 1] /\ (i + 1 = j + 1 => i = j)
    BY TailIs
  <2>4. QED
    BY <2>1, <2>2, <2>3
<1>3. ASSUME OneWaits(r, n), Head(r).n # 0 PROVE NoneWaits(Tail(r)) /\ Head(r).n = n
  <2>1. 1 \in 1..Len(r) /\ Head(r) = r[1]
    BY TailIs
  <2>2. Head(r).n = n /\ \A j \in 1..Len(r) : r[j].n # 0 => 1 = j
    BY <1>3, <2>1 DEF OneWaits
  <2>3. \A i \in 1..Len(Tail(r)) : i + 1 \in 1..Len(r) /\ Tail(r)[i] = r[i + 1] /\ 1 # i + 1
    BY TailIs
  <2>4. QED
    BY <2>2, <2>3 DEF NoneWaits
<1>4. QED
  BY <1>1, <1>2, <1>3

LEMMA WaitsAppend ==
    ASSUME NEW r \in Seq(Replies), NEW x \in Replies, NEW n
    PROVE  /\ x.n = 0 /\ NoneWaits(r) => NoneWaits(Append(r, x))
           /\ x.n = 0 /\ OneWaits(r, n) => OneWaits(Append(r, x), n)
           /\ x.n = n /\ NoneWaits(r) => OneWaits(Append(r, x), n)
<1> DEFINE c == Append(r, x)
<1>1. /\ Len(r) \in Nat /\ Len(c) = Len(r) + 1
      /\ \A i \in 1..Len(r) : i \in 1..Len(c) /\ c[i] = r[i]
      /\ c[Len(r) + 1] = x
      /\ \A i \in 1..Len(c) : i \in 1..Len(r) \/ i = Len(r) + 1
  BY AppendIs
<1> HIDE DEF c
<1>2. x.n = 0 /\ NoneWaits(r) => NoneWaits(c)
  BY <1>1 DEF NoneWaits
<1>3. x.n = 0 /\ OneWaits(r, n) => OneWaits(c, n)
  BY <1>1 DEF OneWaits
<1>4. x.n = n /\ NoneWaits(r) => OneWaits(c, n)
  BY <1>1 DEF OneWaits, NoneWaits
<1>5. QED
  BY <1>2, <1>3, <1>4 DEF c

-----------------------------------------------------------------------------
\* What the handshake sends; no other request comes near the mappings' indexes.
LEMMA HandshakenIs ==
    ASSUME NEW q \in Requests, Handshaken(q)
    PROVE  /\ \/ q.cmd = "read" /\ q.index = Serial
              \/ q.cmd = "read" /\ q.index = Strings
              \/ q.cmd = "segment" /\ q.index = 0
           /\ q.cmd = "read" => Accepts(q) /\ q.cmd # "segment"
           /\ q.cmd = "segment" => (Accepts(q) <=> InTurn(q)) /\ q.index \notin {Serial, Strings}
<1>1. ~(Serial <= MapReadRx + Mappings) /\ ~(Strings <= MapReadRx + Mappings)
  <2>0. {LastWord, Params, Mappings, MaxRequests, MaxLoss, MaxEarly, MaxResets} \subseteq Nat
    BY SdoAssumption, Zenon DEF SdoAssumption
  <2>1. Mappings \in Nat
    BY <2>0, Zenon
  <2>4. Mappings <= 128
    BY MappingAssumption, Zenon DEF MappingAssumption
  <2>2. MapReadRx = 3228 /\ Serial = 5000 /\ Strings = 5001
    BY DEF MapReadRx, MapRead, Serial, Strings
  <2>3. QED
    BY <2>1, <2>2, <2>4
<1>2. CASE q.cmd = "read" /\ q.index \in {Serial, Strings}
  <2>1. ~(q.index <= MapReadRx + Mappings)
    BY <1>1, <1>2
  <2>2. Accepts(q)
    BY <1>2, <2>1 DEF Accepts
  <2>3. QED
    BY <1>2, <2>2
<1>3. CASE q.cmd = "segment" /\ q.index = 0
  <2>1. Accepts(q) <=> InTurn(q)
    BY <1>3 DEF Accepts, InTurn
  <2>2. QED
    BY <1>3, <2>1 DEF Serial, Strings
<1>4. QED
  BY <1>2, <1>3 DEF Handshaken

LEMMA DownloadDrop ==
    ASSUME NEW r \in Seq(Replies), NEW b \in Seq(Requests), b # <<>>, NEW m, DownloadOK(r, b, m)
    PROVE  DownloadOK(r, Tail(b), m)
BY AskTail DEF DownloadOK

LEMMA DownloadTake ==
    ASSUME NEW r \in Seq(Replies), r # <<>>, NEW b \in Seq(Requests), NEW m, DownloadOK(r, b, m)
    PROVE  DownloadOK(Tail(r), b, m)
BY WaitsTail DEF DownloadOK

LEMMA DownloadAsk ==
    ASSUME NEW r \in Seq(Replies), NEW b \in Seq(Requests), NEW m, DownloadOK(r, b, m), Len(tmp) \in Nat
    PROVE  DownloadOK(r, Append(b, AskSegment(toggle_bit)), m)
<1>1. toggle_bit \in 0..1
  BY DEF DownloadOK
<1>2. ASSUME tmp = <<>> PROVE toggle_bit = 0
  BY <1>2 DEF DownloadOK
<1> DEFINE c == Append(b, AskSegment(toggle_bit))
<1>3. /\ Begun(b) => Begun(c)
      /\ AllAsk(b, toggle_bit) => AllAsk(c, toggle_bit)
      /\ Turns(b, toggle_bit) => Turns(c, toggle_bit)
  BY <1>1, AskMore
<1> HIDE DEF c
<1>4. tmp = <<>> /\ AllAsk(b, 0) => AllAsk(c, 0)
  BY <1>2, <1>3
<1>5. DownloadOK(r, c, m)
  BY <1>3, <1>4 DEF DownloadOK
<1>6. QED
  BY <1>5 DEF c

\* The two parities of successive segments differ.
LEMMA Parity ==
    ASSUME NEW n \in Nat
    PROVE  /\ n % 2 \in 0..1 /\ (n + 1) % 2 = 1 - (n % 2)
           /\ ((n + 1) - 1) % 2 = n % 2 /\ ((n + 2) - 1) % 2 = 1 - (n % 2)
BY SMTT(30)

\* The inverter serves a request of a download.
LEMMA DownloadServe ==
    ASSUME NEW r \in Seq(Replies), bus \in Seq(Requests), bus # <<>>, Len(tmp) \in Nat, next \in 0..Segments,
           DownloadOK(r, bus, next), TalkOK(r, bus), InOrder(TRUE, r, bus), Transfer(Head(bus))
    PROVE  LET q == Head(bus)
               n == IF q.cmd = "segment" /\ InTurn(q) THEN next ELSE 0 IN
           /\ DownloadOK(r, Tail(bus), next')
           /\ n = 0 => OneWaits(r, Len(tmp) + 1)
           /\ n # 0 => NoneWaits(r) /\ n = Len(tmp) + 1 /\ next' # Len(tmp) + 1 /\ Begun(Tail(bus))
           /\ NoneWaits(r) \/ (next' # Len(tmp) + 1 /\ Begun(Tail(bus)))
<1> DEFINE q == Head(bus)
           n == IF q.cmd = "segment" /\ InTurn(q) THEN next ELSE 0
           L == Len(tmp)
<1>0. /\ q \in Requests /\ Handshaken(q) /\ L \in Nat
      /\ \A i \in 1..Len(Tail(bus)) : Before(TRUE, q, Tail(bus)[i])
  <2>1. q \in Requests
    BY TailIs
  <2>2. Handshaken(q)
    BY TalkTail
  <2>3. QED
    BY <2>1, <2>2, OrderDrop
<1>1. /\ \/ q.cmd = "read" /\ q.index = Serial
         \/ q.cmd = "read" /\ q.index = Strings
         \/ q.cmd = "segment" /\ q.index = 0
  BY <1>0, HandshakenIs
<1>2. OneWaits(r, L + 1)
  BY DEF DownloadOK
<1>3. /\ Begun(bus) => Begun(Tail(bus))
      /\ \A t : AllAsk(bus, t) => AllAsk(Tail(bus), t)
      /\ \A t : Turns(bus, t) => Turns(Tail(bus), t)
  BY AskTail
<1>4. Serial # Strings /\ Serial # 0 /\ Strings # 0
  BY DEF Serial, Strings
<1>5. next' = CASE q.index = Strings -> 1
                [] InTurn(q) /\ q.cmd = "segment" /\ next < Segments -> next + 1
                [] OTHER -> 0
  BY DEF Transfer
<1> HIDE DEF q
<1>6. CASE q.cmd = "read" /\ q.index = Serial
  <2>1. next' = 0 /\ n = 0
    BY <1>4, <1>5, <1>6
  <2>2. QED
    BY <1>0, <1>2, <1>3, <2>1 DEF DownloadOK, q
<1>7. CASE q.cmd = "read" /\ q.index = Strings
  <2>1. next' = 1 /\ n = 0
    BY <1>5, <1>7
  <2>2. ~Begun(bus)
    BY <1>7, TailIs DEF Begun, q
  <2>3. tmp = <<>> /\ AllAsk(bus, 0) /\ NoneWaits(r) /\ L = 0 /\ toggle_bit = 0
    <3>1. tmp = <<>> /\ AllAsk(bus, 0) /\ NoneWaits(r)
      BY <2>2 DEF DownloadOK
    <3>2. L = 0
      BY <3>1
    <3>3. QED
      BY <3>1, <3>2 DEF DownloadOK
  <2>4. Begun(Tail(bus))
    BY <1>0, <1>4, <1>7 DEF Begun, Before
  <2>5. Turns(Tail(bus), 0)
    <3>1. \A i \in 1..Len(Tail(bus)) : Tail(bus)[i].index \notin {Serial, Strings}
      BY <1>0, <1>4, <1>7 DEF Before
    <3>2. TalkOK(r, Tail(bus))
      BY TalkTail
    <3>3. \A i \in 1..Len(Tail(bus)) : Tail(bus)[i].cmd = "segment"
      BY <3>1, <3>2 DEF TalkOK, Handshaken
    <3>4. QED
      BY <1>3, <2>3, <3>3 DEF Turns, AllAsk
  <2>6. QED
    BY <1>0, <1>2, <2>1, <2>3, <2>4, <2>5 DEF DownloadOK, q
<1>8. CASE q.cmd = "segment" /\ q.index = 0
  <2>1. Begun(Tail(bus))
    BY <1>0, <1>4, <1>8 DEF Begun, Before
  <2>2. CASE ~InTurn(q)
    <3>1. next' = 0 /\ n = 0
      BY <1>4, <1>5, <1>8, <2>2
    <3>2. QED
      BY <1>0, <1>2, <2>1, <3>1 DEF DownloadOK, q
  <2>3. CASE InTurn(q)
    <3>1. next > 0 /\ q.sub = (next - 1) % 2 /\ n = next
      BY <1>8, <2>3 DEF InTurn
    <3>2. next \in {L + 1, L + 2} /\ toggle_bit = L % 2
      BY <3>1 DEF DownloadOK
    <3>3. next # L + 2
      <4>1. SUFFICES ASSUME next = L + 2 PROVE FALSE
        OBVIOUS
      <4>2. AllAsk(bus, toggle_bit)
        BY <4>1 DEF DownloadOK
      <4>3. q.sub = toggle_bit
        BY <1>8, <4>2, TailIs DEF AllAsk, q
      <4>4. (next - 1) % 2 = 1 - (L % 2) /\ L % 2 \in 0..1
        BY <1>0, <4>1, Parity
      <4>5. QED
        BY <3>1, <3>2, <4>3, <4>4
    <3>4. next = L + 1 /\ q.sub = toggle_bit
      BY <1>0, <3>1, <3>2, <3>3, Parity
    <3>5. NoneWaits(r) /\ Turns(bus, toggle_bit)
      BY <3>4 DEF DownloadOK
    <3>6. AllAsk(Tail(bus), toggle_bit)
      <4>1. \A i \in 1..Len(Tail(bus)) : i + 1 \in 1..Len(bus) /\ 1 < i + 1 /\ Tail(bus)[i] = bus[i + 1]
        BY TailIs
      <4>2. 1 \in 1..Len(bus) /\ bus[1] = q
        BY TailIs DEF q
      <4>3. QED
        BY <1>8, <3>4, <3>5, <4>1, <4>2 DEF Turns, AllAsk
    <3>7. next' \in {0, L + 2}
      BY <1>0, <1>4, <1>5, <1>8, <2>3, <3>4
    <3>8. n # 0 /\ n = L + 1 /\ next' # L + 1
      BY <1>0, <3>1, <3>4, <3>7
    <3>9. QED
      BY <1>0, <1>2, <2>1, <3>5, <3>6, <3>7, <3>8 DEF DownloadOK, q
  <2>4. QED
    BY <2>2, <2>3
<1>9. QED
  BY <1>1, <1>6, <1>7, <1>8

-----------------------------------------------------------------------------
(* The steps that can be taken while there is no schema.                    *)

LEMMA SendIs ==
    ASSUME NEW node, NEW q, NEW rest, SendTo(node, q, rest)
    PROVE  s_rx_queue' = rest /\ (bus' = bus \/ bus' = Append(bus, q))
BY DEF SendTo

\* What the invariant says of a state without a schema.
NoSchema ==
    /\ schema = <<>> /\ http.op = "none"
    /\ s_state # "idle" /\ (poll = "loop" \/ s_state # "obtain_json")

Underway == s_state = "obtain_json"

PhaseOK == IF Underway THEN DownloadOK(s_rx_queue, bus, next) ELSE SerialOK(s_rx_queue, next)

LEMMA NoSchemaIs ==
    ASSUME SchemaInv, schema = <<>>
    PROVE  NoSchema /\ TalkOK(s_rx_queue, bus) /\ InOrder(Underway, s_rx_queue, bus) /\ PhaseOK
BY DEF SchemaInv, NoSchema, Underway, PhaseOK

LEMMA NoSchemaNext ==
    ASSUME NoSchema', TalkOK(s_rx_queue, bus)', InOrder(Underway, s_rx_queue, bus)', PhaseOK'
    PROVE  SchemaInv'
BY DEF SchemaInv, NoSchema, Underway, PhaseOK, SchemaWhole

LEMMA SchemaServe ==
    ASSUME SdoInv, SchemaInv, schema = <<>>, Serve
    PROVE  SchemaInv'
<1> DEFINE q == Head(bus)
           n == IF q.cmd = "segment" /\ InTurn(q) THEN next ELSE 0
           x == Reply(q, Accepts(q), n)
<1>0. /\ NoSchema /\ TalkOK(s_rx_queue, bus) /\ InOrder(Underway, s_rx_queue, bus) /\ PhaseOK
      /\ bus \in Seq(Requests) /\ s_rx_queue \in Seq(Replies) /\ next \in 0..Segments
      /\ tmp \in Seq(1..Segments)
  BY NoSchemaIs DEF SdoInv, WireOK, HandshakeOK
<1>1. /\ bus # <<>> /\ bus' = Tail(bus) /\ Transfer(q) /\ Deliver(x)
      /\ UNCHANGED <<s_state, toggle_bit, file, tmp, schema, http, poll>>
  BY DEF Serve, handshake, web
<1>2. q \in Requests /\ Tail(bus) \in Seq(Requests) /\ Handshaken(q) /\ TalkOK(s_rx_queue, Tail(bus))
  BY <1>0, <1>1, TailIs, TalkTail
<1>3. x \in Replies /\ Same(x, q) /\ x.n = n /\ x.abort = ~Accepts(q)
  <2>0. Accepts(q) \in BOOLEAN
    BY DEF Accepts, InTurn, Mapped
  <2>1. n \in 0..Segments
    <3>1. 0 \in 0..Segments
      BY SegmentsNat
    <3>2. QED
      BY <1>0, <3>1, Zenon
  <2>2. Same(x, q) /\ x.n = n /\ x.abort = ~Accepts(q)
    BY ReplyIs
  <2>3. x \in Replies
    BY <1>2, <2>0, <2>1 DEF Reply, Replies, Requests
  <2>4. QED
    BY <2>2, <2>3
<1>4. (n # 0 => q.cmd = "segment") /\ (~Accepts(q) => q.cmd = "segment")
  BY <1>2, HandshakenIs
<1>5. s_rx_queue' = s_rx_queue \/ s_rx_queue' = Append(s_rx_queue, x)
  BY <1>1 DEF Deliver
<1>6. /\ InOrder(Underway, s_rx_queue, Tail(bus))
      /\ \A i \in 1..Len(s_rx_queue) : Before(Underway, s_rx_queue[i], q)
      /\ \A i \in 1..Len(Tail(bus)) : Before(Underway, q, Tail(bus)[i])
  BY <1>0, <1>1, OrderDrop
<1> HIDE DEF q, n, x
<1>7. TalkOK(s_rx_queue, bus)'
  <2>1. Handshaken(x) /\ ((x.n # 0 \/ x.abort) => x.cmd = "segment")
    BY <1>2, <1>3, <1>4 DEF Handshaken, Same
  <2>2. TalkOK(Append(s_rx_queue, x), Tail(bus))
    BY <1>0, <1>2, <1>3, <2>1, TalkAppend
  <2>3. QED
    BY <1>1, <1>2, <1>5, <2>2
<1>8. InOrder(Underway, s_rx_queue, bus)'
  <2>1. /\ \A i \in 1..Len(s_rx_queue) : Before(Underway, s_rx_queue[i], x)
        /\ \A i \in 1..Len(Tail(bus)) : Before(Underway, x, Tail(bus)[i])
    BY <1>3, <1>6, BeforeSame
  <2>2. InOrder(Underway, Append(s_rx_queue, x), Tail(bus))
    BY <1>0, <1>2, <1>3, <1>6, <2>1, OrderReply
  <2>3. Underway' = Underway
    BY <1>1 DEF Underway
  <2>4. QED
    BY <1>1, <1>5, <1>6, <2>2, <2>3
<1>9. PhaseOK'
  <2>1. CASE Underway
    <3>1. DownloadOK(s_rx_queue, bus, next) /\ Len(tmp) \in Nat
      BY <1>0, <2>1 DEF PhaseOK
    <3>2. InOrder(TRUE, s_rx_queue, bus)
      BY <1>0, <2>1
    <3>3. /\ DownloadOK(s_rx_queue, Tail(bus), next')
          /\ n = 0 => OneWaits(s_rx_queue, Len(tmp) + 1)
          /\ n # 0 => /\ NoneWaits(s_rx_queue) /\ n = Len(tmp) + 1
                      /\ next' # Len(tmp) + 1 /\ Begun(Tail(bus))
          /\ NoneWaits(s_rx_queue) \/ (next' # Len(tmp) + 1 /\ Begun(Tail(bus)))
      BY <1>0, <1>1, <3>1, <3>2, DownloadServe DEF q, n
    <3>4. /\ OneWaits(Append(s_rx_queue, x), Len(tmp) + 1)
          /\ NoneWaits(Append(s_rx_queue, x)) \/ (next' # Len(tmp) + 1 /\ Begun(Tail(bus)))
      BY <1>0, <1>3, <3>3, WaitsAppend
    <3>5. DownloadOK(Append(s_rx_queue, x), Tail(bus), next')
      BY <3>3, <3>4 DEF DownloadOK
    <3>6. DownloadOK(s_rx_queue, bus, next)'
      BY <1>1, <1>5, <3>3, <3>5 DEF DownloadOK
    <3>7. QED
      BY <1>1, <2>1, <3>6 DEF PhaseOK, Underway
  <2>2. CASE ~Underway
    <3>1. SerialOK(s_rx_queue, next)
      BY <1>0, <2>2 DEF PhaseOK
    <3>2. q.index = Serial => next' = 0
      BY <1>1, <1>2, HandshakenIs DEF Transfer, Serial, Strings
    <3>3. \A i \in 1..Len(s_rx_queue) : s_rx_queue[i].index = Serial => next' = 0
      BY <1>6, <2>2, <3>2 DEF Before
    <3>4. SerialOK(Append(s_rx_queue, x), next')
      BY <1>0, <1>3, <3>2, <3>3, AppendIs DEF SerialOK, Same
    <3>5. SerialOK(s_rx_queue, next)'
      BY <1>5, <3>3, <3>4 DEF SerialOK
    <3>6. QED
      BY <1>1, <2>2, <3>5 DEF PhaseOK, Underway
  <2>3. QED
    BY <2>1, <2>2
<1>10. NoSchema'
  BY <1>0, <1>1 DEF NoSchema
<1>11. QED
  BY <1>7, <1>8, <1>9, <1>10, NoSchemaNext

LEMMA SchemaLose ==
    ASSUME SdoInv, SchemaInv, schema = <<>>, Lose
    PROVE  SchemaInv'
<1>0. /\ NoSchema /\ TalkOK(s_rx_queue, bus) /\ InOrder(Underway, s_rx_queue, bus) /\ PhaseOK
      /\ bus \in Seq(Requests) /\ s_rx_queue \in Seq(Replies)
  BY NoSchemaIs DEF SdoInv, WireOK
<1>1. /\ bus # <<>> /\ bus' = Tail(bus) /\ UNCHANGED <<s_rx_queue, next>>
      /\ UNCHANGED <<s_state, toggle_bit, file, tmp, schema, http, poll>>
  BY DEF Lose, handshake, web
<1>2. Underway' = Underway
  BY <1>1 DEF Underway
<1>3. TalkOK(s_rx_queue, bus)' /\ InOrder(Underway, s_rx_queue, bus)'
  BY <1>0, <1>1, <1>2, TalkTail, OrderDrop
<1>4. PhaseOK'
  <2>1. Underway => DownloadOK(s_rx_queue, Tail(bus), next)
    BY <1>0, <1>1, DownloadDrop DEF PhaseOK
  <2>2. Underway => DownloadOK(s_rx_queue, bus, next)'
    BY <1>1, <2>1 DEF DownloadOK
  <2>3. ~Underway => SerialOK(s_rx_queue, next)'
    BY <1>0, <1>1 DEF PhaseOK, SerialOK
  <2>4. QED
    BY <1>2, <2>2, <2>3 DEF PhaseOK
<1>5. NoSchema'
  BY <1>0, <1>1 DEF NoSchema
<1>6. QED
  BY <1>3, <1>4, <1>5, NoSchemaNext

\* The serial number is asked for again: the queue is emptied, the bus is not.
LEMMA SchemaAgain ==
    ASSUME SdoInv, SchemaInv, schema = <<>>, PollRetry \/ StartScan \/ ScanNext \/ ScanEnd
    PROVE  SchemaInv'
<1>0. /\ NoSchema /\ TalkOK(s_rx_queue, bus) /\ InOrder(Underway, s_rx_queue, bus)
      /\ bus \in Seq(Requests) /\ s_rx_queue \in Seq(Replies)
  BY NoSchemaIs DEF SdoInv, WireOK
<1>1. poll # "loop" /\ \E node : SendTo(node, AskSerial, <<>>)
  BY DEF PollRetry, StartScan, ScanNext, ScanEnd, Send
<1>2. ~Underway /\ InOrder(FALSE, s_rx_queue, bus)
  BY <1>0, <1>1 DEF NoSchema, Underway
<1>3. UNCHANGED <<schema, http>> /\ ~Underway' /\ s_state' # "idle"
  BY <1>0, <1>2 DEF PollRetry, StartScan, ScanNext, ScanEnd, handshake, web, Underway, NoSchema
<1>4. s_rx_queue' = <<>> /\ (bus' = bus \/ bus' = Append(bus, AskSerial))
  BY <1>1, SendIs
<1>5. AskSerial \in Requests /\ Handshaken(AskSerial) /\ \A y : Before(FALSE, y, AskSerial)
  BY DEF AskSerial, Request, Requests, CmdSet, Handshaken, Before, Serial
<1>6. <<>> \in Seq(Replies)
  OBVIOUS
<1>7. TalkOK(<<>>, bus) /\ InOrder(FALSE, <<>>, bus)
  <2>1. 1..Len(<<>>) = {}
    OBVIOUS
  <2>2. InOrder(FALSE, <<>>, bus)
    BY <1>2, <2>1 DEF InOrder
  <2>3. QED
    BY <1>0, <2>2, TalkTail
<1>8. TalkOK(<<>>, Append(bus, AskSerial)) /\ InOrder(FALSE, <<>>, Append(bus, AskSerial))
  BY <1>0, <1>5, <1>6, <1>7, TalkAppend, OrderSend
<1>9. TalkOK(s_rx_queue, bus)' /\ InOrder(Underway, s_rx_queue, bus)'
  <2>1. Underway' = FALSE
    BY <1>3 DEF Underway
  <2>2. QED
    BY <1>4, <1>7, <1>8, <2>1
<1>10. PhaseOK'
  BY <1>3, <1>4 DEF PhaseOK, SerialOK
<1>11. NoSchema'
  BY <1>0, <1>3 DEF NoSchema, Underway
<1>12. QED
  BY <1>9, <1>10, <1>11, NoSchemaNext

\* What the poll task finds when it takes a reply.
TakeFacts(r) ==
    /\ r = Head(s_rx_queue) /\ r \in Replies /\ Handshaken(r)
    /\ (r.n # 0 \/ r.abort) => r.cmd = "segment"
    /\ s_rx_queue \in Seq(Replies) /\ Rest \in Seq(Replies) /\ bus \in Seq(Requests) /\ s_rx_queue # <<>>
    /\ tmp \in Seq(1..Segments) /\ Len(tmp) \in Nat
    /\ TalkOK(Rest, bus) /\ InOrder(Underway, Rest, bus)
    /\ \A i \in 1..Len(Rest) : Before(Underway, r, Rest[i])
    /\ \A i \in 1..Len(bus) : Before(Underway, r, bus[i])

LEMMA TakeIs ==
    ASSUME SdoInv, SchemaInv, schema = <<>>, s_rx_queue # <<>>
    PROVE  TakeFacts(Head(s_rx_queue))
<1>1. /\ TalkOK(s_rx_queue, bus) /\ InOrder(Underway, s_rx_queue, bus)
      /\ bus \in Seq(Requests) /\ s_rx_queue \in Seq(Replies) /\ tmp \in Seq(1..Segments)
  BY NoSchemaIs DEF SdoInv, WireOK, HandshakeOK
<1>2. Head(s_rx_queue) \in Replies /\ Rest \in Seq(Replies) /\ Len(tmp) \in Nat
  BY <1>1, TailIs DEF Rest
<1>3. /\ TalkOK(Rest, bus) /\ Handshaken(Head(s_rx_queue))
      /\ (Head(s_rx_queue).n # 0 \/ Head(s_rx_queue).abort) => Head(s_rx_queue).cmd = "segment"
  BY <1>1, TalkTail DEF Rest
<1>4. /\ InOrder(Underway, Rest, bus)
      /\ \A i \in 1..Len(Rest) : Before(Underway, Head(s_rx_queue), Rest[i])
      /\ \A i \in 1..Len(bus) : Before(Underway, Head(s_rx_queue), bus[i])
  BY <1>1, OrderTake DEF Rest
<1>5. QED
  BY <1>1, <1>2, <1>3, <1>4 DEF TakeFacts

LEMMA SchemaAbort ==
    ASSUME NEW r, TakeFacts(r), PhaseOK, next' = next, AbortReply(r)
    PROVE  TalkOK(s_rx_queue, bus)' /\ InOrder(Underway, s_rx_queue, bus)' /\ PhaseOK'
<1>1. s_rx_queue' = Rest /\ bus' = bus /\ s_state' = "error" /\ Underway' = FALSE
  BY DEF AbortReply, Taken, Underway
<1>2. r.cmd = "segment" /\ r.index = 0 /\ Serial # 0 /\ Strings # 0
  BY DEF TakeFacts, AbortReply, Handshaken, Serial, Strings
<1>3. TalkOK(s_rx_queue, bus)'
  BY <1>1 DEF TakeFacts
<1>4. CASE Underway
  <2>1. /\ \A i \in 1..Len(Rest) : Rest[i].index # Serial
        /\ \A i \in 1..Len(bus) : bus[i].index # Serial
    BY <1>2, <1>4 DEF TakeFacts, Before
  <2>2. InOrder(FALSE, Rest, bus) /\ SerialOK(Rest, next')
    BY <2>1 DEF InOrder, Before, SerialOK
  <2>3. QED
    BY <1>1, <1>3, <2>2 DEF PhaseOK, SerialOK
<1>5. CASE ~Underway
  <2>1. InOrder(FALSE, Rest, bus)
    BY <1>5 DEF TakeFacts, Underway
  <2>2. \A i \in 1..Len(Rest) : i + 1 \in 1..Len(s_rx_queue) /\ Rest[i] = s_rx_queue[i + 1]
    BY TailIs DEF TakeFacts, Rest
  <2>3. SerialOK(Rest, next)
    BY <1>5, <2>2 DEF PhaseOK, SerialOK
  <2>4. QED
    BY <1>1, <1>3, <2>1, <2>3 DEF PhaseOK, SerialOK
<1>6. QED
  BY <1>4, <1>5

\* The last word but one, or the last: all that is still on its way are words.
LEMMA SchemaWord ==
    ASSUME NEW r, TakeFacts(r), PhaseOK, next' = next, SerialReply(r), schema = <<>>
    PROVE  TalkOK(s_rx_queue, bus)' /\ InOrder(Underway, s_rx_queue, bus)' /\ PhaseOK'
<1>1. ~Underway /\ Underway = FALSE /\ r.index = Serial /\ Serial # Strings /\ Serial # 0
  BY DEF SerialReply, Underway, Serial, Strings
<1>2. /\ \A i \in 1..Len(Rest) : Rest[i].index = Serial
      /\ \A i \in 1..Len(bus) : bus[i].index = Serial
  BY <1>1 DEF TakeFacts, Before
<1>3. next = 0
  <2>1. 1 \in 1..Len(s_rx_queue) /\ r = s_rx_queue[1]
    BY TailIs DEF TakeFacts
  <2>2. QED
    BY <1>1, <2>1 DEF PhaseOK, SerialOK
<1>4. CASE Send(Request("read", Serial, r.sub + 1), Rest) /\ UNCHANGED handshake
  <2> DEFINE q == Request("read", Serial, r.sub + 1)
  <2>1. q \in Requests /\ Handshaken(q) /\ \A y : Before(FALSE, y, q)
    <3>1. r.sub + 1 \in Nat
      BY DEF TakeFacts, Replies
    <3>2. QED
      BY <3>1 DEF Request, Requests, CmdSet, Handshaken, Before, Serial
  <2> HIDE DEF q
  <2>2. s_rx_queue' = Rest /\ (bus' = bus \/ bus' = Append(bus, q))
    BY <1>4, SendIs DEF Send, q
  <2>3. TalkOK(Rest, bus) /\ InOrder(FALSE, Rest, bus) /\ Rest \in Seq(Replies) /\ bus \in Seq(Requests)
    BY <1>1 DEF TakeFacts
  <2>4. TalkOK(Rest, Append(bus, q)) /\ InOrder(FALSE, Rest, Append(bus, q))
    BY <2>1, <2>3, TalkAppend, OrderSend
  <2>5. Underway' = FALSE
    BY <1>1, <1>4 DEF Underway, handshake
  <2>6. SerialOK(Rest, next')
    BY <1>3 DEF SerialOK
  <2>7. QED
    BY <2>2, <2>3, <2>4, <2>5, <2>6 DEF PhaseOK, SerialOK
<1>5. CASE /\ s_state' = "obtain_json" /\ toggle_bit' = 0 /\ file' = TRUE /\ tmp' = <<>>
           /\ Send(Request("read", Strings, 0), Rest) /\ UNCHANGED schema
  <2> DEFINE q == Request("read", Strings, 0)
  <2>1. q \in Requests /\ Handshaken(q) /\ q.cmd = "read" /\ \A y : y.index = Serial => Before(TRUE, y, q)
    BY DEF Request, Requests, CmdSet, Handshaken, Before, Strings
  <2> HIDE DEF q
  <2>2. s_rx_queue' = Rest /\ (bus' = bus \/ bus' = Append(bus, q))
    BY <1>5, SendIs DEF Send, q
  <2>3. TalkOK(Rest, bus) /\ InOrder(TRUE, Rest, bus) /\ Rest \in Seq(Replies) /\ bus \in Seq(Requests)
    BY <1>2 DEF TakeFacts, InOrder, Before
  <2>4. TalkOK(Rest, Append(bus, q)) /\ InOrder(TRUE, Rest, Append(bus, q))
    BY <1>2, <2>1, <2>3, TalkAppend, OrderSend
  <2>5. Underway' = TRUE
    BY <1>5 DEF Underway
  <2>6. NoneWaits(Rest)
    BY <1>1, <1>2, <2>3 DEF TalkOK, Handshaken, NoneWaits
  <2>7. AllAsk(bus, 0)
    BY <1>1, <1>2, <2>3 DEF TalkOK, Handshaken, AllAsk
  <2>8. AllAsk(Append(bus, q), 0)
    BY <2>1, <2>3, <2>7, AppendIs DEF AllAsk
  <2>9. /\ file' /\ Len(tmp') = 0 /\ tmp' = <<>> /\ toggle_bit' = Len(tmp') % 2 /\ Len(tmp') < Segments
    BY <1>5, SegmentsNat
  <2>10. OneWaits(Rest, Len(tmp') + 1)
    BY <2>6 DEF NoneWaits, OneWaits
  <2>11. AllAsk(bus', 0)
    BY <2>2, <2>7, <2>8
  <2>12. /\ next' = 0 /\ next' # Len(tmp') + 1 /\ next' # Len(tmp') + 2
         /\ \A i \in 1..Len(tmp') : tmp'[i] = i
    BY <1>3, <2>9
  <2>13. DownloadOK(s_rx_queue, bus, next)'
    BY <2>2, <2>6, <2>9, <2>10, <2>11, <2>12 DEF DownloadOK
  <2>14. QED
    BY <2>2, <2>3, <2>4, <2>5, <2>13 DEF PhaseOK
<1>6. QED
  BY <1>4, <1>5 DEF SerialReply

LEMMA AskSegmentIs ==
    ASSUME NEW t \in 0..1
    PROVE  AskSegment(t) \in Requests /\ Handshaken(AskSegment(t)) /\ \A y : Before(TRUE, y, AskSegment(t))
<1>1. AskSegment(t) \in Requests /\ Handshaken(AskSegment(t)) /\ AskSegment(t).index = 0
  BY DEF AskSegment, Request, Requests, CmdSet, Handshaken
<1>2. QED
  BY <1>1 DEF Before, Serial, Strings

\* A reply that is no segment: the next one is asked for.
LEMMA SchemaOther ==
    ASSUME NEW r, TakeFacts(r), PhaseOK, next' = next, Underway,
           s_rx_queue' = Rest, UNCHANGED <<s_state, toggle_bit, file, tmp>>,
           bus' = bus \/ bus' = Append(bus, AskSegment(toggle_bit))
    PROVE  TalkOK(s_rx_queue, bus)' /\ InOrder(Underway, s_rx_queue, bus)' /\ PhaseOK'
<1> DEFINE q == AskSegment(toggle_bit)
<1>1. DownloadOK(s_rx_queue, bus, next) /\ Underway = TRUE /\ Underway' = TRUE
  BY DEF PhaseOK, Underway
<1>2. toggle_bit \in 0..1
  BY <1>1 DEF DownloadOK, TakeFacts
<1>3. q \in Requests /\ Handshaken(q) /\ \A y : Before(TRUE, y, q)
  BY <1>2, AskSegmentIs
<1>4. /\ TalkOK(Rest, bus) /\ InOrder(TRUE, Rest, bus) /\ Rest \in Seq(Replies) /\ bus \in Seq(Requests)
      /\ s_rx_queue \in Seq(Replies) /\ s_rx_queue # <<>> /\ Len(tmp) \in Nat
  BY <1>1 DEF TakeFacts
<1>5. DownloadOK(Rest, bus, next)
  BY <1>1, <1>4, DownloadTake DEF Rest
<1>6. DownloadOK(Rest, Append(bus, q), next)
  BY <1>4, <1>5, DownloadAsk
<1> HIDE DEF q
<1>7. TalkOK(Rest, Append(bus, q)) /\ InOrder(TRUE, Rest, Append(bus, q))
  BY <1>3, <1>4, TalkAppend, OrderSend
<1>8. bus' = bus \/ bus' = Append(bus, q)
  BY DEF q
<1>9. DownloadOK(s_rx_queue, bus, next)'
  BY <1>5, <1>6, <1>8 DEF DownloadOK
<1>10. QED
  BY <1>1, <1>4, <1>7, <1>8, <1>9 DEF PhaseOK

\* A segment: it is the one that comes next.
LEMMA SchemaSegment ==
    ASSUME NEW r, TakeFacts(r), PhaseOK, next' = next, Underway, r.n \in 1..(Segments - 1),
           s_rx_queue' = Rest, UNCHANGED <<s_state, file>>,
           tmp' = Append(tmp, r.n), toggle_bit' = 1 - toggle_bit,
           bus' = bus \/ bus' = Append(bus, AskSegment(toggle_bit'))
    PROVE  TalkOK(s_rx_queue, bus)' /\ InOrder(Underway, s_rx_queue, bus)' /\ PhaseOK'
<1> DEFINE L == Len(tmp)
           u == 1 - toggle_bit
           q == AskSegment(u)
<1>1. /\ DownloadOK(s_rx_queue, bus, next) /\ Underway = TRUE /\ Underway' = TRUE
      /\ TalkOK(Rest, bus) /\ InOrder(TRUE, Rest, bus) /\ Rest \in Seq(Replies) /\ bus \in Seq(Requests)
      /\ s_rx_queue \in Seq(Replies) /\ s_rx_queue # <<>> /\ L \in Nat /\ r = Head(s_rx_queue)
      /\ tmp \in Seq(1..Segments)
  BY DEF PhaseOK, Underway, TakeFacts
<1>2. r.n # 0 /\ r.n \in 1..Segments /\ r.n < Segments
  BY SegmentsNat
<1>3. /\ OneWaits(s_rx_queue, L + 1) /\ file /\ toggle_bit = L % 2 /\ L < Segments
      /\ next \in {0, L + 1, L + 2} /\ \A i \in 1..L : tmp[i] = i
  BY <1>1 DEF DownloadOK
<1>4. r.n = L + 1 /\ NoneWaits(Rest)
  BY <1>1, <1>2, <1>3, WaitsTail DEF Rest
<1>5. next # L + 1 /\ Begun(bus)
  <2>1. ~NoneWaits(s_rx_queue)
    BY <1>1, <1>2, TailIs DEF NoneWaits
  <2>2. QED
    BY <1>1, <2>1 DEF DownloadOK
<1>6. u \in 0..1 /\ u = (L + 1) % 2 /\ 1 - u = toggle_bit
  BY <1>1, <1>3, Parity
<1>7. q \in Requests /\ Handshaken(q) /\ \A y : Before(TRUE, y, q)
  BY <1>6, AskSegmentIs
<1>8. next = L + 2 => Turns(bus, u)
  <2>1. next = L + 2 => AllAsk(bus, toggle_bit)
    BY <1>1 DEF DownloadOK
  <2>2. QED
    BY <1>1, <1>6, <2>1, AskMore
<1>9. (next = L + 2 => Turns(Append(bus, q), u)) /\ Begun(Append(bus, q))
  BY <1>1, <1>5, <1>6, <1>8, AskMore
<1>10. TalkOK(Rest, Append(bus, q)) /\ InOrder(TRUE, Rest, Append(bus, q))
  BY <1>1, <1>7, TalkAppend, OrderSend
<1>11. /\ Len(tmp') = L + 1 /\ L + 1 < Segments /\ \A i \in 1..Len(tmp') : tmp'[i] = i
       /\ tmp' # <<>>
  <2>1. /\ Len(tmp') = L + 1 /\ tmp'[L + 1] = L + 1
        /\ \A i \in 1..L : tmp'[i] = tmp[i]
        /\ \A i \in 1..Len(tmp') : i \in 1..L \/ i = L + 1
    BY <1>1, <1>2, <1>4, AppendIs
  <2>2. Len(tmp') > 0
    BY <1>1, <2>1
  <2>3. QED
    BY <1>2, <1>3, <1>4, <2>1, <2>2
<1>12. bus' = bus \/ bus' = Append(bus, q)
  OBVIOUS
<1> HIDE DEF L, u, q
<1>13. OneWaits(Rest, Len(tmp') + 1)
  BY <1>4 DEF NoneWaits, OneWaits
<1>14. /\ toggle_bit' = u /\ next' \in {0, Len(tmp') + 1} /\ next' # Len(tmp') + 2
       /\ next' = Len(tmp') + 1 => next = L + 2
  BY <1>1, <1>3, <1>5, <1>11 DEF u
<1>15. DownloadOK(s_rx_queue, bus, next)'
  BY <1>3, <1>4, <1>5, <1>6, <1>8, <1>9, <1>11, <1>12, <1>13, <1>14 DEF DownloadOK
<1>16. QED
  BY <1>1, <1>10, <1>12, <1>15 DEF PhaseOK

\* The last segment: the file is the schema.
LEMMA SchemaLast ==
    ASSUME NEW r, TakeFacts(r), PhaseOK, Underway, r.n = Segments, schema' = Append(tmp, r.n)
    PROVE  SchemaWhole' /\ schema' # <<>>
<1>1. /\ DownloadOK(s_rx_queue, bus, next) /\ s_rx_queue \in Seq(Replies) /\ s_rx_queue # <<>>
      /\ Len(tmp) \in Nat /\ r = Head(s_rx_queue) /\ tmp \in Seq(1..Segments)
  BY DEF PhaseOK, TakeFacts
<1>2. Segments \in Nat /\ Segments > 0 /\ r.n \in 1..Segments
  BY SegmentsNat
<1>3. r.n = Len(tmp) + 1 /\ \A i \in 1..Len(tmp) : tmp[i] = i
  BY <1>1, <1>2, WaitsTail DEF DownloadOK
<1>4. /\ schema' \in Seq(1..Segments) /\ Len(schema') = Segments
      /\ \A i \in 1..Segments : schema'[i] = i
  <2>1. /\ schema' \in Seq(1..Segments) /\ Len(schema') = Len(tmp) + 1 /\ schema'[Len(tmp) + 1] = r.n
        /\ \A i \in 1..Len(tmp) : schema'[i] = tmp[i]
        /\ \A i \in 1..Len(schema') : i \in 1..Len(tmp) \/ i = Len(tmp) + 1
    BY <1>1, <1>2, AppendIs
  <2>2. QED
    BY <1>3, <2>1
<1>5. schema' = [i \in 1..Segments |-> i]
  <2>1. schema' \in [1..Segments -> 1..Segments]
    BY <1>4, LenProperties
  <2>2. QED
    BY <1>4, <2>1
<1>6. schema' # <<>>
  BY <1>2, <1>4
<1>7. QED
  BY <1>5, <1>6 DEF SchemaWhole

LEMMA SchemaTake ==
    ASSUME SdoInv, SchemaInv, schema = <<>>, PollTake
    PROVE  SchemaInv'
<1> DEFINE r == Head(s_rx_queue)
<1>1. /\ NoSchema /\ PhaseOK /\ TakeFacts(r) /\ HandleSdoResponse(r)
      /\ next' = next /\ http' = http /\ toggle_bit \in 0..1
  BY NoSchemaIs, TakeIs DEF PollTake, web, SdoInv, HandshakeOK
<1>2. poll' = "loop" \/ s_state' # "obtain_json"
  BY <1>1 DEF PollTake, Shaky
<1> HIDE DEF r
<1>3. ASSUME schema' = <<>>, s_state' # "idle",
             TalkOK(s_rx_queue, bus)', InOrder(Underway, s_rx_queue, bus)', PhaseOK'
      PROVE  SchemaInv'
  <2>1. NoSchema'
    BY <1>1, <1>2, <1>3 DEF NoSchema
  <2>2. QED
    BY <1>3, <2>1, NoSchemaNext
<1>4. CASE AbortReply(r)
  BY <1>1, <1>3, <1>4, SchemaAbort DEF AbortReply
<1>5. CASE SerialReply(r)
  BY <1>1, <1>3, <1>5, SchemaWord DEF SerialReply, handshake, NoSchema
<1>6. CASE SchemaReply(r)
  <2>1. Underway
    BY <1>6 DEF SchemaReply, Underway
  <2>2. CASE r.n = Segments /\ s_state' = "idle" /\ schema' = Append(tmp, r.n)
    BY <1>1, <2>1, <2>2, SchemaLast DEF SchemaInv, NoSchema
  <2>3. CASE /\ r.n \in 1..(Segments - 1)
             /\ tmp' = Append(tmp, r.n) /\ toggle_bit' = 1 - toggle_bit
             /\ Send(AskSegment(toggle_bit'), Rest) /\ UNCHANGED <<s_state, file, schema>>
    <3>1. s_rx_queue' = Rest /\ (bus' = bus \/ bus' = Append(bus, AskSegment(toggle_bit')))
      BY <2>3, SendIs DEF Send
    <3>2. TalkOK(s_rx_queue, bus)' /\ InOrder(Underway, s_rx_queue, bus)' /\ PhaseOK'
      BY <1>1, <2>1, <2>3, <3>1, SchemaSegment
    <3>3. QED
      BY <1>1, <1>3, <2>3, <3>2 DEF NoSchema
  <2>4. CASE Send(AskSegment(toggle_bit), Rest) /\ UNCHANGED handshake
    <3>1. s_rx_queue' = Rest /\ (bus' = bus \/ bus' = Append(bus, AskSegment(toggle_bit)))
      BY <2>4, SendIs DEF Send
    <3>2. UNCHANGED <<s_state, toggle_bit, file, tmp, schema>>
      BY <2>4 DEF handshake
    <3>3. TalkOK(s_rx_queue, bus)' /\ InOrder(Underway, s_rx_queue, bus)' /\ PhaseOK'
      BY <1>1, <2>1, <3>1, <3>2, SchemaOther
    <3>4. QED
      BY <1>1, <1>3, <3>2, <3>3 DEF NoSchema
  <2>5. QED
    BY <1>6, <2>2, <2>3, <2>4 DEF SchemaReply
<1>7. CASE IgnoredReply(r)
  <2>1. s_rx_queue' = Rest /\ bus' = bus /\ UNCHANGED <<s_state, toggle_bit, file, tmp, schema>>
    BY <1>7 DEF IgnoredReply, Taken, handshake
  <2>2. CASE Underway
    BY <1>1, <1>3, <2>1, <2>2, SchemaOther DEF NoSchema
  <2>3. CASE ~Underway
    <3>1. \A i \in 1..Len(Rest) : i + 1 \in 1..Len(s_rx_queue) /\ Rest[i] = s_rx_queue[i + 1]
      BY <1>1, TailIs DEF TakeFacts, Rest
    <3>2. SerialOK(Rest, next)
      BY <1>1, <2>3, <3>1 DEF PhaseOK, SerialOK
    <3>3. PhaseOK' /\ Underway' = Underway
      BY <1>1, <2>1, <2>3, <3>2 DEF PhaseOK, SerialOK, Underway
    <3>4. TalkOK(s_rx_queue, bus)' /\ InOrder(Underway, s_rx_queue, bus)'
      BY <1>1, <2>1, <3>3 DEF TakeFacts
    <3>5. QED
      BY <1>1, <1>3, <2>1, <3>3, <3>4 DEF NoSchema
  <2>4. QED
    BY <2>2, <2>3
<1>8. QED
  BY <1>1, <1>4, <1>5, <1>6, <1>7 DEF HandleSdoResponse

-----------------------------------------------------------------------------
(* Every step.                                                             *)

\* A new handshake begins: no reply waits, and what is still to be served ends with the
\* words of the serial number, if it has any.
FreshTalk ==
    /\ s_state = "obtain_serial" /\ s_rx_queue = <<>>
    /\ TalkOK(<<>>, bus) /\ WordsLast(bus)

FreshPhase == TalkOK(s_rx_queue, bus) /\ InOrder(Underway, s_rx_queue, bus) /\ PhaseOK

LEMMA FreshOK == FreshTalk => FreshPhase
<1> SUFFICES ASSUME FreshTalk PROVE FreshPhase
  OBVIOUS
<1>1. Underway = FALSE
  BY DEF FreshTalk, Underway
<1>2. 1..Len(<<>>) = {} /\ DOMAIN bus = 1..Len(bus)
  BY DEF FreshTalk
<1>3. InOrder(FALSE, s_rx_queue, bus) /\ SerialOK(s_rx_queue, next)
  BY <1>2 DEF FreshTalk, WordsLast, Before, InOrder, SerialOK
<1>4. QED
  BY <1>1, <1>3 DEF FreshTalk, PhaseOK, FreshPhase

LEMMA FreshOKNext == FreshTalk' => FreshPhase'
BY FreshOK, PTL

LEMMA SchemaFrame ==
    ASSUME SchemaInv, schema = <<>>, poll' = "loop" \/ s_state # "obtain_json",
           UNCHANGED <<s_state, toggle_bit, file, tmp, schema, http, bus, s_rx_queue, next>>
    PROVE  SchemaInv'
<1>1. NoSchema /\ TalkOK(s_rx_queue, bus) /\ InOrder(Underway, s_rx_queue, bus) /\ PhaseOK
  BY NoSchemaIs
<1>2. Underway' = Underway
  BY DEF Underway
<1>3. TalkOK(s_rx_queue, bus)' /\ InOrder(Underway, s_rx_queue, bus)' /\ NoSchema'
  BY <1>1, <1>2 DEF NoSchema
<1>4. PhaseOK'
  BY <1>1, <1>2 DEF PhaseOK, DownloadOK, SerialOK
<1>5. QED
  BY <1>3, <1>4, NoSchemaNext

LEMMA SchemaSame ==
    ASSUME SchemaInv, schema = <<>>, UNCHANGED vars
    PROVE  SchemaInv'
BY SchemaFrame, NoSchemaIs DEF vars, handshake, web, wire, NoSchema

LEMMA SchemaInit == SdoInit => SchemaInv
<1> SUFFICES ASSUME SdoInit PROVE SchemaInv
  OBVIOUS
<1>1. AskSerial \in Requests /\ Handshaken(AskSerial)
  BY DEF AskSerial, Request, Requests, CmdSet, Handshaken, Serial
<1>2. \A i \in 1..Len(bus) : bus[i] = AskSerial
  BY DEF SdoInit
<1>3. TalkOK(<<>>, bus) /\ WordsLast(bus)
  BY <1>1, <1>2 DEF SdoInit, TalkOK, WordsLast, AskSerial, Request
<1>4. FreshTalk /\ schema = <<>> /\ poll = "loop" /\ http.op = "none"
  BY <1>3 DEF SdoInit, FreshTalk, NoHttp
<1>5. QED
  BY <1>4, FreshOK DEF FreshPhase, FreshTalk, SchemaInv, Underway, PhaseOK, SchemaWhole

\* Once it is there, the schema stays.
LEMMA SchemaStays ==
    ASSUME SchemaInv, schema # <<>>, [SdoNext]_vars
    PROVE  SchemaInv'
<1>1. SchemaWhole /\ s_state # "obtain_json"
  BY DEF SchemaInv
<1>2. CASE NodeId \/ Reset
  BY <1>1, <1>2 DEF NodeId, Reset, Begin, SchemaInv, SchemaWhole
<1>3. ASSUME ~NodeId, ~Reset PROVE schema' = schema /\ s_state' # "obtain_json"
  <2>1. CASE PollTake
    <3>1. HandleSdoResponse(Head(s_rx_queue))
      BY <2>1 DEF PollTake
    <3>2. QED
      BY <1>1, <3>1 DEF HandleSdoResponse, AbortReply, SerialReply, SchemaReply, IgnoredReply, handshake
  <2>2. CASE PollEmpty \/ PollSkip \/ PollRetry \/ StartScan \/ ScanNext \/ ScanEnd
    BY <1>1, <2>2 DEF PollEmpty, PollSkip, PollRetry, StartScan, ScanNext, ScanEnd, handshake
  <2>3. CASE HttpStart \/ HttpLock \/ Serve \/ Lose
    BY <1>1, <2>3 DEF HttpStart, HttpLock, Serve, Lose, handshake
  <2>4. CASE Handler
    <3>1. HttpFrame
      BY <2>4 DEF Handler, SingleReply, SingleSilent, JsonReply, JsonDiscard, JsonSilent,
                  AddReply, CanmapReply, WalkSilent, StreamAsk, StreamReply, StreamSilent
    <3>2. QED
      BY <1>1, <3>1 DEF HttpFrame, handshake
  <2>5. CASE UNCHANGED vars
    BY <1>1, <2>5 DEF vars, handshake
  <2>6. QED
    BY <1>3, <2>1, <2>2, <2>3, <2>4, <2>5 DEF SdoNext, Poll
<1>4. QED
  BY <1>1, <1>2, <1>3 DEF SchemaInv, SchemaWhole

LEMMA SchemaRestart ==
    ASSUME SdoInv, SchemaInv, schema = <<>>, NodeId \/ Reset, ~mixed'
    PROVE  SchemaInv'
<1>0. WordsLast(bus')
  BY DEF NodeId, Reset, Remains
<1>1. /\ s_state' = "obtain_serial" /\ schema' = <<>> /\ http'.op = "none" /\ s_rx_queue' = <<>>
  BY NoSchemaIs DEF NodeId, Reset, Begin, Afresh, SendTo, NoHttp, NoSchema
<1>2. bus' \in {bus, <<>>, <<AskSerial>>, Append(bus, AskSerial)}
  BY DEF NodeId, Reset, Afresh, SendTo
<1>3. TalkOK(<<>>, bus')
  <2>1. AskSerial \in Requests /\ Handshaken(AskSerial) /\ bus \in Seq(Requests)
    BY DEF AskSerial, Request, Requests, CmdSet, Handshaken, Serial, SdoInv, WireOK
  <2>2. TalkOK(<<>>, bus)
    BY NoSchemaIs DEF TalkOK
  <2>3. CASE bus' = Append(bus, AskSerial)
    BY <2>1, <2>2, <2>3, AppendIs DEF TalkOK
  <2>4. CASE bus' = <<>> \/ bus' = <<AskSerial>>
    BY <2>1, <2>4 DEF TalkOK
  <2>5. QED
    BY <1>2, <2>2, <2>3, <2>4
<1>4. FreshTalk' /\ NoSchema'
  BY <1>0, <1>1, <1>3 DEF FreshTalk, NoSchema
<1>5. QED
  BY <1>4, FreshOKNext, NoSchemaNext DEF FreshPhase

LEMMA SchemaNext ==
    ASSUME SdoInv, SchemaInv, [SdoNext]_vars, ~mixed'
    PROVE  SchemaInv'
<1>1. CASE schema # <<>>
  BY <1>1, SchemaStays
<1>2. CASE schema = <<>>
  <2>1. NoSchema /\ TalkOK(s_rx_queue, bus) /\ InOrder(Underway, s_rx_queue, bus) /\ PhaseOK
    BY <1>2, NoSchemaIs
  <2>2. http.at = "none"
    BY <2>1 DEF NoSchema, SdoInv, HttpOK
  <2>3. ~HttpStart /\ ~HttpLock /\ ~Handler
    <3>1. ~HttpStart /\ ~HttpLock
      BY <2>1, <2>2 DEF NoSchema, HttpStart, HttpLock
    <3>2. ~Handler
      BY <2>2 DEF Handler, Waiting, SingleReply, SingleSilent, JsonReply, JsonDiscard, JsonSilent,
                  AddReply, CanmapReply, WalkSilent, StreamAsk, StreamReply, StreamSilent
    <3>3. QED
      BY <3>1, <3>2
  <2>4. CASE NodeId \/ Reset
    BY <1>2, <2>4, SchemaRestart
  <2>5. CASE PollEmpty \/ PollSkip
    BY <1>2, <2>1, <2>5, SchemaFrame DEF PollEmpty, PollSkip, Shaky, handshake, web, wire, NoSchema
  <2>6. CASE UNCHANGED vars
    BY <1>2, <2>6, SchemaSame
  <2>7. QED
    BY <1>2, <2>3, <2>4, <2>5, <2>6, SchemaTake, SchemaAgain, SchemaServe, SchemaLose DEF SdoNext, Poll
<1>3. QED
  BY <1>1, <1>2

\* The exemption is for good: it is never taken back.
LEMMA MixedStays == [SdoNext]_vars /\ mixed => mixed'
<1> SUFFICES ASSUME [SdoNext]_vars, mixed PROVE mixed'
  OBVIOUS
<1>1. CASE NodeId \/ Reset
  BY <1>1 DEF NodeId, Reset, Remains
<1>2. CASE Poll
  BY <1>2 DEF Poll, PollTake, PollEmpty, PollSkip, PollRetry, StartScan, ScanNext, ScanEnd, past
<1>3. CASE HttpStart \/ HttpLock \/ Serve \/ Lose
  BY <1>3 DEF HttpStart, HttpLock, Serve, Lose, past
<1>4. CASE Handler
  <2>1. HttpFrame
    BY <1>4 DEF Handler, SingleReply, SingleSilent, JsonReply, JsonDiscard, JsonSilent,
                AddReply, CanmapReply, WalkSilent, StreamAsk, StreamReply, StreamSilent
  <2>2. QED
    BY <2>1 DEF HttpFrame, past
<1>5. CASE UNCHANGED vars
  BY <1>5 DEF vars, past
<1>6. QED
  BY <1>1, <1>2, <1>3, <1>4, <1>5 DEF SdoNext

\* Unless a reset or a new node id comes while two handshakes run at once, one of them
\* in its download, the file under the schema's name is the whole schema: aborts,
\* retries, the scan, lost and late replies, resets and new node ids in the middle of
\* a download leave no part of one there (oi_can.c:123-127, :425-426).
THEOREM SchemaIsWhole == SdoSpec => []SchemaWholeUnmixed
<1>1. SdoInit => mixed \/ SchemaInv
  BY SchemaInit
<1>2. SdoInv /\ (mixed \/ SchemaInv) /\ [SdoNext]_vars => (mixed \/ SchemaInv)'
  <2> SUFFICES ASSUME SdoInv, mixed \/ SchemaInv, [SdoNext]_vars, ~mixed' PROVE SchemaInv'
    OBVIOUS
  <2>1. SchemaInv
    BY MixedStays
  <2>2. QED
    BY <2>1, SchemaNext
<1>3. mixed \/ SchemaInv => SchemaWholeUnmixed
  BY DEF SchemaInv, SchemaWholeUnmixed
<1>4. QED
  BY <1>1, <1>2, <1>3, SdoInvariant, PTL DEF SdoSpec
=============================================================================

------------------------------ MODULE SdoClient ------------------------------
(***************************************************************************)
(* The SDO client of oi_can.c: the handshake with the inverter (serial     *)
(* number, then the parameter schema), the poll task that runs it, and the *)
(* HTTP handlers that read and write parameters.  Both tasks take replies  *)
(* from one queue and share s_sdo_lock.                                    *)
(*                                                                         *)
(* A request names a command, an object index (its hexadecimal digits) and *)
(* a sub-index; a reply repeats them.  The inverter is external: it serves *)
(* requests in order, when it likes, so that a reply may come after its    *)
(* wait has ended.  Values, names and the text of answers are left out;    *)
(* the schema is the sequence of the numbers of its segments.              *)
(***************************************************************************)
EXTENDS Naturals, Sequences

CONSTANTS
  LastWord,    \* the serial number has the words 0..LastWord
  Segments,    \* number of segments of the schema
  Params,      \* parameters are 1..Params
  Mappings,    \* CAN mappings of the inverter in each direction: at most 0x80
  Refused,     \* parameters the inverter refuses to change
  LastNode,    \* node ids are 1..LastNode
  ServerNode,  \* the node id of the inverter
  ScanAfter,   \* silent attempts before the scan
  TxDepth,     \* requests that can wait to be served (tx_queue_depth)
  RxDepth,     \* length of s_rx_queue
  Ops,         \* the HTTP requests the browser may make
  MaxRequests, \* bound: number of HTTP requests
  MaxLoss,     \* bound: requests the inverter leaves unanswered
  MaxEarly,    \* bound: retries while an answer is still to come
  MaxResets    \* bound: resets of the device

ASSUME SdoAssumption ==
  /\ {LastWord, Params, Mappings, MaxRequests, MaxLoss, MaxEarly, MaxResets} \subseteq Nat
  /\ {Segments, LastNode, ScanAfter, TxDepth, RxDepth} \subseteq Nat \ {0}
  /\ ServerNode \in 1..LastNode /\ Refused \subseteq 1..Params

\* The indexes of the mappings of the two directions are 0x80 apart (oi_can.c:953).
ASSUME MappingAssumption == Mappings <= 128

VARIABLES
  s_state,     \* "idle", "error", "obtain_serial" or "obtain_json"
  toggle_bit,  \* of the segment expected next
  file,        \* is the temporary schema file open?
  tmp,         \* segments in the temporary file
  schema,      \* segments in the file under the schema's name; <<>>: no file
  s_node_id, saved,  \* node id in use, and the one the scan puts back
  attempts, scanned, \* silent attempts (up to ScanAfter); has the scan run?
  lock,        \* who holds s_sdo_lock: "free", "poll" or "httpd"
  poll,        \* place of the poll task
  http,        \* the HTTP request under way
  answer,      \* what the last request that changes something was told
  bus,         \* requests sent and not yet served
  s_rx_queue,  \* replies received and not yet taken
  next,        \* segment the inverter would send next; 0: no transfer
  requests, lost, early, resets, \* what the bounds count
  mixed        \* a new handshake has found words of an old one before its download

handshake == <<s_state, toggle_bit, file, tmp, schema>>
scan      == <<s_node_id, saved, attempts, scanned>>
web       == <<http, answer, requests>>
wire      == <<bus, s_rx_queue, lost>>
past      == <<resets, mixed>>
vars == <<handshake, scan, lock, poll, web, wire, next, early, past>>

-----------------------------------------------------------------------------
(* Frames *)

Serial   == 5000
Strings  == 5001
Commands == 5002
Param    == 2100
MapWrite == 3000
MapRead  == 3100
MapReadRx == MapRead + 128

Request(cmd, index, sub) == [cmd |-> cmd, index |-> index, sub |-> sub]
Reply(q, ok, n) == [cmd |-> q.cmd, index |-> q.index, sub |-> q.sub, abort |-> ~ok, n |-> n]

\* A request or a reply that finds no room: nothing more is lost after it.
GivenUp == IF MaxLoss = 0 THEN 1 ELSE MaxLoss

\* Sends q, and leaves rest in the reply queue.  A request to another node
\* finds nobody; one that does not fit is given up (the wait is 10 ms).
SendTo(node, q, rest) ==
  /\ s_rx_queue' = rest
  /\ \/ node # ServerNode /\ UNCHANGED <<bus, lost>>
     \/ node = ServerNode /\ Len(bus) < TxDepth /\ bus' = Append(bus, q) /\ UNCHANGED lost
     \/ node = ServerNode /\ Len(bus) >= TxDepth /\ lost' = GivenUp /\ UNCHANGED bus
Send(q, rest) == SendTo(s_node_id, q, rest)

AskSerial == Request("read", Serial, 0)
AskSegment(t) == Request("segment", 0, t)

NoHttp == [op |-> "none", at |-> "none", index |-> 0, sub |-> 0, again |-> FALSE]
NoAnswer == [op |-> "none", sub |-> 0, ok |-> FALSE]

SdoInit ==
  /\ s_state = "obtain_serial" /\ toggle_bit = 0 /\ file = FALSE
  /\ tmp = <<>> /\ schema = <<>>
  /\ s_node_id \in 1..LastNode /\ saved = s_node_id /\ attempts = 0 /\ scanned = FALSE
  /\ lock = "free" /\ poll = "loop" /\ http = NoHttp /\ answer = NoAnswer
  /\ bus = IF s_node_id = ServerNode THEN <<AskSerial>> ELSE <<>>
  /\ s_rx_queue = <<>> /\ next = 0
  /\ requests = 0 /\ lost = 0 /\ early = 0 /\ resets = 0
  /\ mixed = FALSE

-----------------------------------------------------------------------------
(* The inverter and the receive interrupt *)

\* Does the inverter have the mapping entry that sub-index sub of index reads?
Mapped(index, sub) ==
  \E side \in {MapRead, MapReadRx} : index \in side..(side + Mappings - 1) /\ sub <= 2

InTurn(q) == next > 0 /\ q.sub = (next - 1) % 2

Accepts(q) ==
  CASE q.cmd = "segment" -> InTurn(q)
    [] q.cmd = "write" /\ q.index = Param -> q.sub \notin Refused
    [] q.cmd = "read" /\ q.index >= MapRead /\ q.index <= MapReadRx + Mappings -> Mapped(q.index, q.sub)
    [] OTHER -> TRUE

\* One transfer at a time: any other request ends it (CiA 301).
Transfer(q) ==
  next' = CASE q.index = Strings -> 1
            [] InTurn(q) /\ q.cmd = "segment" /\ next < Segments -> next + 1
            [] OTHER -> 0

\* The interrupt keeps replies of the node in use, while the queue has room.
Deliver(reply) ==
  LET heard == s_node_id = ServerNode IN
  \/ ~heard /\ UNCHANGED <<s_rx_queue, lost>>
  \/ heard /\ Len(s_rx_queue) < RxDepth /\ s_rx_queue' = Append(s_rx_queue, reply) /\ UNCHANGED lost
  \/ heard /\ Len(s_rx_queue) >= RxDepth /\ lost' = GivenUp /\ UNCHANGED s_rx_queue

Serve ==
  /\ bus # <<>> /\ bus' = Tail(bus)
  /\ LET q == Head(bus) IN
       /\ Transfer(q)
       /\ Deliver(Reply(q, Accepts(q), IF q.cmd = "segment" /\ InTurn(q) THEN next ELSE 0))
  /\ UNCHANGED <<handshake, scan, lock, poll, web, early, past>>

Lose ==
  /\ bus # <<>> /\ lost < MaxLoss
  /\ bus' = Tail(bus) /\ lost' = lost + 1
  /\ UNCHANGED <<handshake, scan, lock, poll, web, s_rx_queue, next, early, past>>

-----------------------------------------------------------------------------
(* The poll task.  It takes one reply in each iteration; it holds the lock *)
(* while it does, and never waits for it.                                  *)

Rest == Tail(s_rx_queue)
Taken == s_rx_queue' = Rest /\ UNCHANGED <<bus, lost>>

AbortReply(reply) ==
  /\ reply.abort
  /\ s_state' = "error"
  /\ Taken /\ UNCHANGED <<toggle_bit, file, tmp, schema>>

\* Mutant: the temporary file is opened to be appended to.
SerialReplyAppend(reply) ==
  /\ s_state = "obtain_serial" /\ ~reply.abort /\ reply.index = Serial
  /\ \/ /\ reply.sub < LastWord
        /\ Send(Request("read", Serial, reply.sub + 1), Rest)
        /\ UNCHANGED handshake
     \/ /\ reply.sub = LastWord /\ schema # <<>>
        /\ s_state' = "idle"
        /\ Taken /\ UNCHANGED <<toggle_bit, file, tmp, schema>>
     \/ /\ reply.sub = LastWord /\ schema = <<>>
        /\ s_state' = "obtain_json" /\ toggle_bit' = 0 /\ file' = TRUE
        /\ Send(Request("read", Strings, 0), Rest)
        /\ UNCHANGED <<tmp, schema>>

SerialReply(reply) ==
  /\ s_state = "obtain_serial" /\ ~reply.abort /\ reply.index = Serial
  /\ \/ /\ reply.sub < LastWord
        /\ Send(Request("read", Serial, reply.sub + 1), Rest)
        /\ UNCHANGED handshake
     \/ /\ reply.sub = LastWord /\ schema # <<>>
        /\ s_state' = "idle"
        /\ Taken /\ UNCHANGED <<toggle_bit, file, tmp, schema>>
     \/ /\ reply.sub = LastWord /\ schema = <<>>
        /\ s_state' = "obtain_json" /\ toggle_bit' = 0 /\ file' = TRUE /\ tmp' = <<>>
        /\ Send(Request("read", Strings, 0), Rest)
        /\ UNCHANGED schema

\* Any reply that is not a segment makes the client ask for the next segment.
SchemaReply(reply) ==
  /\ s_state = "obtain_json" /\ ~reply.abort /\ file
  /\ \/ /\ reply.n = Segments
        /\ s_state' = "idle" /\ file' = FALSE
        /\ schema' = Append(tmp, reply.n) /\ tmp' = <<>>
        /\ Taken /\ UNCHANGED toggle_bit
     \/ /\ reply.n \in 1..(Segments - 1) /\ reply.sub = toggle_bit
        /\ tmp' = Append(tmp, reply.n) /\ toggle_bit' = 1 - toggle_bit
        /\ Send(AskSegment(toggle_bit'), Rest)
        /\ UNCHANGED <<s_state, file, schema>>
     \/ /\ reply.cmd # "segment"
        /\ Send(AskSegment(toggle_bit), Rest)
        /\ UNCHANGED handshake

IgnoredReply(reply) ==
  /\ ~reply.abort
  /\ CASE s_state = "obtain_serial" -> reply.index # Serial
       [] s_state = "obtain_json"   -> ~file \/ (reply.n \in 1..(Segments - 1) /\ reply.sub # toggle_bit)
       [] OTHER                     -> TRUE
  /\ Taken /\ UNCHANGED handshake

HandleSdoResponse(reply) ==
  AbortReply(reply) \/ SerialReply(reply) \/ SchemaReply(reply) \/ IgnoredReply(reply)

\* Mutant: an abort is final.
ShakyUnlessAborted == s_state = "obtain_serial"

Shaky == s_state \in {"obtain_serial", "error"}

\* Mutant: the poll task takes replies without the lock, as it once did.
TakeUnlocked ==
  /\ poll = "loop" /\ s_rx_queue # <<>>
  /\ HandleSdoResponse(Head(s_rx_queue))
  /\ IF Shaky' THEN lock' = "poll" /\ poll' = "retry" ELSE UNCHANGED <<lock, poll>>
  /\ UNCHANGED <<scan, web, next, early, past>>

\* The lock is kept only for the retry that may follow.
PollTake ==
  /\ poll = "loop" /\ lock = "free" /\ s_rx_queue # <<>>
  /\ HandleSdoResponse(Head(s_rx_queue))
  /\ IF Shaky' THEN lock' = "poll" /\ poll' = "retry" ELSE UNCHANGED <<lock, poll>>
  /\ UNCHANGED <<scan, web, next, early, past>>

PollEmpty ==
  /\ poll = "loop" /\ lock = "free" /\ s_rx_queue = <<>> /\ Shaky
  /\ lock' = "poll" /\ poll' = "retry"
  /\ UNCHANGED <<handshake, scan, web, wire, next, early, past>>

\* Mutant: the lock is kept when there is nothing to retry.
KeepLock ==
  /\ poll = "retry"
  /\ poll' = "loop" /\ UNCHANGED lock
  /\ UNCHANGED <<handshake, scan, web, wire, next, early, past>>

\* Less than a second since the first word was asked for.
PollSkip ==
  /\ poll = "retry"
  /\ lock' = "free" /\ poll' = "loop"
  /\ UNCHANGED <<handshake, scan, web, wire, next, early, past>>

Quiet == bus = <<>> /\ s_rx_queue = <<>>
Due == IF Quiet THEN UNCHANGED early ELSE early < MaxEarly /\ early' = early + 1
NextAttempt == IF attempts < ScanAfter THEN attempts + 1 ELSE attempts
ScanNow == ~scanned /\ NextAttempt >= ScanAfter

PollRetry ==
  /\ poll = "retry" /\ ~ScanNow /\ Due
  /\ s_state' = "obtain_serial" /\ attempts' = NextAttempt
  /\ lock' = "free" /\ poll' = "loop"
  /\ UNCHANGED <<s_node_id, saved, scanned>> /\ Send(AskSerial, <<>>)
  /\ UNCHANGED <<toggle_bit, file, tmp, schema, web, next, past>>

StartScan ==
  /\ poll = "retry" /\ ScanNow /\ Due
  /\ s_state' = "obtain_serial" /\ attempts' = NextAttempt
  /\ scanned' = TRUE /\ poll' = "scan"
  /\ s_node_id' = 1 /\ SendTo(1, AskSerial, <<>>)
  /\ UNCHANGED <<toggle_bit, file, tmp, schema, saved, lock, web, next, past>>

\* A reply of the node under probe, or 20 ms without one, ends the probe.
ScanNext ==
  /\ poll = "scan" /\ s_node_id < LastNode
  /\ s_node_id' = s_node_id + 1 /\ SendTo(s_node_id + 1, AskSerial, <<>>)
  /\ UNCHANGED <<handshake, saved, attempts, scanned, lock, poll, web, next, early, past>>

ScanEnd ==
  /\ poll = "scan" /\ s_node_id = LastNode
  /\ s_node_id' = saved /\ SendTo(saved, AskSerial, <<>>)
  /\ lock' = "free" /\ poll' = "loop"
  /\ UNCHANGED <<handshake, saved, attempts, scanned, web, next, early, past>>

-----------------------------------------------------------------------------
(* The HTTP task.  It serves one request at a time: it looks at s_state,   *)
(* waits for the lock, empties the reply queue and begins its walk.        *)

Start(op, index, sub) == [op |-> op, at |-> "lock", index |-> index, sub |-> sub, again |-> FALSE]

\* Names are looked up in the schema; without it there is nothing to ask for.
Named == {Start(op, Param, id) : op \in {"get", "set"}, id \in 1..Params}
         \cup {Start(op, Param, 1) : op \in {"json", "stream"}}
Starts == (IF schema # <<>> THEN Named ELSE {}) \cup
  {Start("save", Commands, 0), Start("remove", MapRead, 1), Start("add", MapWrite, 0), Start("canmap", MapRead, 0)}

Asked == Request(IF http.op \in {"set", "save", "remove", "add"} THEN "write" ELSE "read", http.index, http.sub)

HttpStart ==
  /\ http.op = "none" /\ requests < MaxRequests /\ requests' = requests + 1
  /\ s_state = "idle"
  /\ \E start \in Starts : start.op \in Ops /\ http' = start
  /\ UNCHANGED <<handshake, scan, lock, poll, answer, wire, next, early, past>>

HttpLock ==
  /\ http.at = "lock" /\ lock = "free" /\ lock' = "httpd"
  /\ http' = [http EXCEPT !.at = "wait"]
  /\ Send(Asked, <<>>)
  /\ UNCHANGED <<handshake, scan, poll, answer, requests, next, early, past>>

HttpFrame == UNCHANGED <<handshake, scan, poll, requests, next, early, past>>

\* Mutant: the handler does not give the lock back.
FinishLocked(told) == http' = NoHttp /\ answer' = told /\ UNCHANGED lock

\* The handler is done.
Finish(told) == lock' = "free" /\ http' = NoHttp /\ answer' = told
\* The handler asks for sub-index sub of index next.
AskNext(index, sub, rest) ==
  /\ http' = [http EXCEPT !.index = index, !.sub = sub, !.again = FALSE]
  /\ Send(Request(Asked.cmd, index, sub), rest)
  /\ UNCHANGED <<lock, answer>>
\* The handler ends with a reply taken, or without one.
Leave(rest) == s_rx_queue' = rest /\ UNCHANGED <<bus, lost>>

Waiting(op) == http.op = op /\ http.at = "wait"
Single == {"get", "set", "save", "remove"}
Told(ok) == IF http.op = "set" THEN [op |-> "set", sub |-> http.sub, ok |-> ok] ELSE NoAnswer

\* oi_can_get_value, _set_value, _save_to_flash, _remove_mapping: one request,
\* answered by whatever reply comes next.
Confirms(reply) == reply.cmd = "write" /\ ~reply.abort
SingleReply ==
  /\ \E op \in Single : Waiting(op)
  /\ s_rx_queue # <<>>
  /\ Finish(Told(Confirms(Head(s_rx_queue)))) /\ Leave(Rest)
  /\ HttpFrame

SingleSilent ==
  /\ \E op \in Single : Waiting(op)
  /\ s_rx_queue = <<>>
  /\ Finish(Told(FALSE)) /\ Leave(<<>>)
  /\ HttpFrame

\* oi_can_send_json: each parameter is asked for, once more if it is not
\* answered in time; replies to other requests are discarded.
Answers(reply) == reply.index = http.index /\ reply.sub = http.sub
JsonNext(rest) ==
  IF http.sub < Params THEN AskNext(Param, http.sub + 1, rest)
                       ELSE Finish(NoAnswer) /\ Leave(rest)
JsonReply ==
  /\ Waiting("json") /\ s_rx_queue # <<>> /\ Answers(Head(s_rx_queue))
  /\ JsonNext(Rest)
  /\ HttpFrame

JsonDiscard ==
  /\ Waiting("json") /\ s_rx_queue # <<>> /\ ~Answers(Head(s_rx_queue))
  /\ Leave(Rest) /\ UNCHANGED <<http, lock, answer>>
  /\ HttpFrame

\* The wait also ends after a discarded reply if its time is up by then.
JsonSilent ==
  /\ Waiting("json")
  /\ IF s_rx_queue # <<>> THEN ~Answers(Head(s_rx_queue)) ELSE TRUE
  /\ LET rest == IF s_rx_queue = <<>> THEN <<>> ELSE Rest IN
     IF http.again THEN JsonNext(rest)
     ELSE /\ http' = [http EXCEPT !.again = TRUE]
          /\ Send(Asked, rest) /\ UNCHANGED <<lock, answer>>
  /\ HttpFrame

\* oi_can_add_mapping: three writes; the next one is sent before it is looked
\* at whether the last one was refused.
AddReply ==
  /\ Waiting("add") /\ s_rx_queue # <<>>
  /\ IF http.sub = 2 THEN Finish(NoAnswer) /\ Leave(Rest)
     ELSE IF ~Head(s_rx_queue).abort THEN AskNext(MapWrite, http.sub + 1, Rest)
     ELSE Finish(NoAnswer) /\ Send(Request("write", MapWrite, http.sub + 1), Rest)
  /\ HttpFrame

\* oi_can_send_can_mapping: the entries of each mapping, the mappings of each
\* direction, until the inverter refuses.
CanmapReply ==
  /\ Waiting("canmap") /\ s_rx_queue # <<>>
  /\ LET refused == Head(s_rx_queue).abort IN
     CASE ~refused -> AskNext(http.index, http.sub + 1, Rest)
       [] refused /\ http.sub = 0 /\ http.index < MapReadRx -> AskNext(MapReadRx, 0, Rest)
       [] refused /\ http.sub % 2 = 1 -> AskNext(http.index + 1, 0, Rest)
       [] OTHER -> Finish(NoAnswer) /\ Leave(Rest)
  /\ HttpFrame

WalkSilent ==
  /\ Waiting("add") \/ Waiting("canmap")
  /\ s_rx_queue = <<>>
  /\ Finish(NoAnswer) /\ Leave(<<>>)
  /\ HttpFrame

\* oi_can_stream_values, two rows: all items are asked for, then replies are
\* taken until none comes.
StreamAsk ==
  /\ Waiting("stream") /\ http.sub < Params
  /\ http' = [http EXCEPT !.sub = @ + 1]
  /\ Send(Request("read", Param, http'.sub), s_rx_queue) /\ UNCHANGED <<lock, answer>>
  /\ HttpFrame

StreamReply ==
  /\ Waiting("stream") /\ http.sub = Params /\ s_rx_queue # <<>>
  /\ Leave(Rest) /\ UNCHANGED <<http, lock, answer>>
  /\ HttpFrame

StreamSilent ==
  /\ Waiting("stream") /\ http.sub = Params /\ s_rx_queue = <<>>
  /\ IF http.again THEN Finish(NoAnswer) /\ Leave(<<>>)
     ELSE /\ http' = [http EXCEPT !.sub = 1, !.again = TRUE]
          /\ Send(Request("read", Param, 1), <<>>) /\ UNCHANGED <<lock, answer>>
  /\ HttpFrame

\* A new node and a new handshake, in any state of the old one.  The open
\* schema file is not closed.
Begin(node) ==
  /\ s_state' = "obtain_serial" /\ attempts' = 0
  /\ s_node_id' = node /\ saved' = node

\* What waited to be sent is gone; what was sent may still be served.
Afresh(node) ==
  \/ SendTo(node, AskSerial, <<>>)
  \/ /\ s_rx_queue' = <<>> /\ UNCHANGED lost
     /\ bus' = IF node = ServerNode THEN <<AskSerial>> ELSE <<>>

\* History: no word of the serial number is asked for before anything else.  It is
\* when a retry has set going a second handshake beside the first, and one of the
\* two has come to its download.
WordsLast(asked) ==
  \A i, j \in DOMAIN asked : i < j /\ asked[i].index = Serial => asked[j].index = Serial
Remains == mixed' = (mixed \/ (schema = <<>> /\ ~WordsLast(bus')))

\* oi_can_init, from /nodeid.
NodeId ==
  /\ "nodeid" \in Ops /\ http.op = "none" /\ lock = "free"
  /\ requests < MaxRequests /\ requests' = requests + 1
  /\ \E node \in 1..LastNode : Begin(node) /\ Afresh(node)
  /\ Remains
  /\ UNCHANGED <<toggle_bit, file, tmp, schema, scanned, lock, poll, http, answer, next, early, resets>>

\* The device resets.  Files stay; the inverter may still serve old requests.
Reset ==
  /\ resets < MaxResets /\ resets' = resets + 1
  /\ Begin(saved) /\ toggle_bit' = 0 /\ file' = FALSE /\ scanned' = FALSE
  /\ lock' = "free" /\ poll' = "loop" /\ http' = NoHttp /\ answer' = NoAnswer
  /\ Afresh(saved) /\ Remains
  /\ UNCHANGED <<tmp, schema, requests, next, early>>

-----------------------------------------------------------------------------
Poll == PollTake \/ PollEmpty \/ PollSkip \/ PollRetry \/ StartScan \/ ScanNext \/ ScanEnd
Handler == SingleReply \/ SingleSilent \/ JsonReply \/ JsonDiscard \/ JsonSilent
  \/ AddReply \/ CanmapReply \/ WalkSilent \/ StreamAsk \/ StreamReply \/ StreamSilent

SdoNext == Poll \/ HttpStart \/ HttpLock \/ Handler \/ NodeId \/ Serve \/ Lose \/ Reset

SdoSpec == SdoInit /\ [][SdoNext]_vars

\* The poll task and the HTTP task run; a second passes between two retries
\* now and then; s_sdo_lock is a FreeRTOS mutex, given to the task that waits.
\* The inverter serves what it is sent.
SdoFairSpec ==
  /\ SdoSpec
  /\ WF_vars(PollTake) /\ WF_vars(PollEmpty) /\ WF_vars(PollSkip)
  /\ SF_vars(PollRetry) /\ SF_vars(StartScan) /\ WF_vars(ScanNext) /\ WF_vars(ScanEnd)
  /\ SF_vars(HttpLock) /\ WF_vars(Handler) /\ WF_vars(Serve)

-----------------------------------------------------------------------------
(* Properties *)

CmdSet == {"read", "write", "segment"}
Requests == [cmd : CmdSet, index : Nat, sub : Nat]
Replies == [cmd : CmdSet, index : Nat, sub : Nat, abort : BOOLEAN, n : 0..Segments]

\* The state has its type, both queues stay within their depth, and a task
\* holds the lock exactly while it is in a transaction (oi_can.c:154-160).
SdoTypeOK ==
  /\ s_state \in {"idle", "error", "obtain_serial", "obtain_json"}
  /\ toggle_bit \in 0..1 /\ file \in BOOLEAN
  /\ tmp \in Seq(1..Segments) /\ schema \in Seq(1..Segments)
  /\ {s_node_id, saved} \subseteq 1..LastNode /\ attempts \in 0..ScanAfter /\ scanned \in BOOLEAN
  /\ bus \in Seq(Requests) /\ Len(bus) <= TxDepth
  /\ s_rx_queue \in Seq(Replies) /\ Len(s_rx_queue) <= RxDepth
  /\ next \in 0..Segments
  /\ lock = CASE poll # "loop" -> "poll" [] http.at = "wait" -> "httpd" [] OTHER -> "free"

\* "A partial transfer can never be mistaken for a cached schema" (oi_can.c:425-426,
\* :123-127): the file under the schema's name is the whole schema, whatever
\* interrupts a download: an abort, a reset, a new node id, a lost or a late reply.
SchemaWhole == schema \in {<<>>, [i \in 1..Segments |-> i]}

\* What the code does keep: the file is whole unless a reset or a new node id has
\* come while two handshakes ran at once, the words of one before the download of
\* the other.  What else is still to be served may be served later.
SchemaWholeUnmixed == mixed \/ SchemaWhole

\* The poll task takes no reply a handler waits for: a handler goes without
\* an answer only if its request was not served yet (oi_can.c:154-160).
NoReplySwallowed ==
  [][SingleSilent \/ JsonSilent \/ WalkSilent =>
       \/ lost > 0 \/ s_node_id # ServerNode
       \/ \E i \in 1..Len(bus) : bus[i] = Asked
       \/ \E i \in 1..Len(s_rx_queue) : Answers(s_rx_queue[i])]_vars

\* Every HTTP request comes to an end (the lock is given back on every path).
HttpAnswered == http.op # "none" ~> http.op = "none"

\* A handshake that was left unanswered, or was aborted, is begun again until
\* the inverter answers (oi_can.c:767-771).
HandshakeRetried ==
  s_state \in {"obtain_serial", "error"} /\ saved = ServerNode ~> s_state \in {"idle", "obtain_json"} \/ saved # ServerNode

\* A parameter that the inverter refuses to change is not reported as set:
\* "so a stale reply can't be mistaken for the answer to the next request"
\* (oi_can.c:280-281).
OkMeansSet == answer.op = "set" /\ answer.ok => answer.sub \notin Refused

=============================================================================

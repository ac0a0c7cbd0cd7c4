----------------------------- MODULE BleLinkInv ------------------------------
(* The inductive invariants of BleLink.                                    *)
EXTENDS BleLink

Streaming == {"size", "chunk", "piece"}
Answering == Commands \cup {"answer", "rotate", "header"} \cup Streaming

\* The task: LinkTypeOK says nothing of the fields that a record has, and the units
\* of a transfer stay within the file only because of the length of what is left.
TaskOK(t) ==
    /\ t \in [at : Places, pos : 0..FileUnits, chunk : {0, 1, WideMtu}, left : 0..WideMtu,
              piece : {0, 1, WideMtu}, lines : 0..BufLines, link : Nat, due : BOOLEAN]
    /\ t.at = "piece" => t.pos + t.left <= FileUnits

Hearing == [head : BOOLEAN, units : Seq(1..FileUnits)]

TypeInv ==
    /\ LinkTypeOK
    /\ can \in [at : {"receive", "stream", "post_live", "post_log"}, link : Nat]
    /\ TaskOK(task)
    /\ heard \in Hearing

\* The first units of a session, in order.
Prefix(units) == \A i \in 1..Len(units) : units[i] = i

\* While a session is sent, a phone that has its header has what was read of the
\* file so far: no piece is larger than the MTU, which only a new connection
\* lowers, and that is one without the header.
TransferInv ==
    /\ task.at \in {"header", "size"} => task.pos = 0
    /\ Prefix(heard.units)
    /\ ~heard.head => heard.units = <<>>
    /\ heard.head /\ task.at \in Streaming => Len(heard.units) = task.pos
    /\ heard.head /\ task.at = "piece" => task.piece <= payload
    /\ copy = <<>> \/ (Prefix(copy) /\ Len(copy) = FileUnits)

\* A test of the time under way is of this connection, and what it found still holds;
\* or it is torn. A command that waits is one of this connection or of an earlier.
ModeInv ==
    /\ conn = 0 => ~since /\ ~late
    /\ task.at \in Testing => mode # "web"
    /\ task.at \in Testing /\ ~torn => conn = task.link /\ (task.due => late)
    /\ task.at = "started" /\ ~torn => conn # 0
    /\ task.at = "speedo" => late \/ torn
    /\ cmds # <<>> \/ task.at \in Commands => conn = 0 \/ claimed \/ leftover

\* Every connection leaves at most one command without its answer.
Pending == Len(cmds) + (IF task.at \in Answering THEN 1 ELSE 0)
QueueInv ==
    /\ ~lost
    /\ Pending + (IF conn # 0 /\ ~owed THEN 1 ELSE 0) <= links

\* Frames that arrived before this connection; without one, all are.
OldLive == {i \in DOMAIN live : conn = 0 \/ live[i] # conn}
OldPost == can.at = "post_live" /\ (conn = 0 \/ can.link # conn)

\* Three seconds into a connection its frames have come through; speedo mode waits
\* for that; and a frame that was on its way to the live queue when the connection
\* ended is the only one of before that gets there.
StreamInv ==
    /\ late => /\ \A i \in DOMAIN rx : rx[i] = conn
               /\ can.at = "receive" \/ can.link = conn
    /\ mode = "speedo" => late \/ torn
    /\ ~torn => /\ \A i, j \in OldLive : i = j
                /\ OldPost => OldLive = {}
=============================================================================

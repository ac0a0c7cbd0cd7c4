------------------------------- MODULE BleLink -------------------------------
(***************************************************************************)
(* The link of src/main/ble_nus.c: the events of the NimBLE host task      *)
(* (connection, MTU, writes of the phone), and the task that processes the *)
(* commands, beside the CAN receiver. The host task preempts the other one *)
(* anywhere, so what the command task has tested may have changed when it  *)
(* acts; each action is what happens between two such points.              *)
(*                                                                         *)
(* A connection is its number; the code tells only one from none. Commands *)
(* are those the link tells apart: GET streams a file, TRIP_END waits for  *)
(* the logger, the others are answered at once. What they do is modelled   *)
(* by BleCommands.                                                         *)
(***************************************************************************)
EXTENDS CanReceiver, FiniteSets

CONSTANTS
    CmdDepth,       \* CMD_QUEUE_DEPTH
    FileUnits,      \* size of a session, in payloads of the default MTU
    WideMtu,        \* payload of the MTU agreed on, in the same unit
    BufLines,       \* frames that fit in one live notification
    MaxLinks,       \* connections, by the frame on the bus: a bound of the environment
    Sends           \* commands the phone sends, by the frame: another bound

Commands == {"get", "end", "other"}

ASSUME LinkAssumption ==
    /\ {CmdDepth, FileUnits, WideMtu, BufLines} \subseteq Nat \ {0}
    /\ MaxLinks \in [Signals -> Nat]
    /\ Sends \in [Signals -> SUBSET Commands]

VARIABLES
    links,          \* connections so far
    payload,        \* nus_payload_size
    since,          \* s_connect_time_ms is set
    late,           \* three seconds have passed since it was
    cmds,           \* cmd_queue
    task,           \* where ble_nus_task is, and its locals
    owed,           \* the phone: it waits for an answer
    heard,          \* the phone: the session it is receiving
    copy,           \* the phone: the session received on this connection, to END
    lost,           \* a command was dropped
    claimed,        \* a command was sent on this connection
    leftover,       \* commands of an earlier one were waiting at its CONNECT
    torn            \* the last DISCONNECT, or a CONNECT since, fell into Testing

phone   == <<owed, heard, copy>>
history == <<lost, claimed, leftover, torn>>
link    == <<conn, links, mode, payload, since, late>>
vars    == <<canVars, link, cmds, task, phone, history>>

Idle   == [at |-> "receive", pos |-> 0, chunk |-> 0, left |-> 0, piece |-> 0, lines |-> 0,
           link |-> 0, due |-> FALSE]
NoFile == [head |-> FALSE, units |-> <<>>]

\* From the reading of the time to the switch to speedo mode.
Testing == {"timed", "started", "speedo"}

\* Where the task is: at the command it has received, or in the midst of its work.
Places == Commands \cup Testing \cup
          {"receive", "answer", "rotate", "header", "size", "chunk", "piece", "connected", "mode",
           "stream"}

Smaller(m, n) == IF m < n THEN m ELSE n

LinkTypeOK ==
    /\ CanTypeOK
    /\ links \in 0..MaxLinks[signal] /\ conn \in {0, links}
    /\ mode \in {"detecting", "telematics", "speedo", "web"}
    /\ payload \in {1, WideMtu}
    /\ {since, late, lost, claimed, leftover, torn} \subseteq BOOLEAN
    /\ cmds \in Seq(Commands) /\ Len(cmds) <= CmdDepth
    /\ task.at \in Places /\ task.link \in Nat /\ task.due \in BOOLEAN
    /\ task.pos \in 0..FileUnits /\ task.lines \in 0..BufLines
    /\ task.left \in 0..WideMtu /\ {task.chunk, task.piece} \subseteq {0, 1, WideMtu}
    /\ owed \in BOOLEAN /\ heard.head \in BOOLEAN
    /\ heard.units \in Seq(1..FileUnits) /\ copy \in Seq(1..FileUnits)

LinkInit ==
    /\ CanInit
    /\ conn = 0 /\ links = 0 /\ mode \in {"detecting", "web"}
    /\ payload = 1 /\ since = FALSE /\ late = FALSE
    /\ cmds = <<>> /\ task = Idle
    /\ owed = FALSE /\ heard = NoFile /\ copy = <<>>
    /\ lost = FALSE /\ claimed = FALSE /\ leftover = FALSE /\ torn = FALSE

-----------------------------------------------------------------------------
(* The host task: gap_event_handler and the write callback.                *)

\* Web-interface mode persists; any other gives way to m.
Unless(m) == IF mode = "web" THEN "web" ELSE m

\* s_connect_time_ms: 0 without a connection.
NoTimer    == since' = FALSE /\ late' = FALSE
StartTimer == since' = TRUE /\ late' = FALSE

Connect ==
    /\ conn = 0 /\ links < MaxLinks[signal]
    /\ links' = links + 1 /\ conn' = links + 1
    /\ payload' = 1
    /\ mode' = Unless("detecting")
    /\ StartTimer
    /\ owed' = FALSE /\ heard' = NoFile /\ copy' = <<>>
    /\ claimed' = FALSE /\ leftover' = (cmds # <<>> \/ task.at \in Commands)
    /\ torn' = (torn \/ task.at \in Testing)
    /\ UNCHANGED <<canVars, cmds, task, lost>>

\* What was streamed and not sent stays.
KeepLive == live' = live
DrainLive == live' = <<>>

Disconnect ==
    /\ conn # 0 /\ conn' = 0
    /\ mode' = Unless("detecting")
    /\ NoTimer
    /\ DrainLive
    /\ torn' = (task.at \in Testing)
    /\ UNCHANGED <<signal, frames, rx, can, field>>
    /\ UNCHANGED <<links, payload, cmds, task, phone, lost, claimed, leftover>>

MtuAgreed ==
    /\ conn # 0 /\ payload # WideMtu
    /\ payload' = WideMtu
    /\ UNCHANGED <<canVars, conn, links, mode, since, late, cmds, task, phone, history>>

\* A full queue is given 10 ms.
Enqueue(cmd) ==
    /\ cmds' = Posted(cmds, cmd, CmdDepth)
    /\ lost' = (lost \/ Len(cmds) = CmdDepth)

\* The phone sends a command when it has the answer to the one before.
Write(cmd) ==
    /\ conn # 0 /\ ~owed
    /\ Enqueue(cmd)
    /\ owed' = TRUE /\ claimed' = TRUE
    /\ UNCHANGED <<canVars, link, task, heard, copy, leftover, torn>>

\* Speed frames are queued as any other command.
WriteSpeedQueued ==
    /\ conn # 0 /\ Enqueue("other")
    /\ UNCHANGED <<canVars, link, task, phone, claimed, leftover, torn>>

\* The phone streams its speed all the time; it is counted for the log only.
WriteSpeed == conn # 0 /\ UNCHANGED vars

\* The CAN task has long taken what arrived before the connection.
ThreeSeconds ==
    /\ since /\ ~late /\ late' = TRUE
    /\ can.at = "receive" \/ can.link = conn
    /\ \A i \in DOMAIN rx : rx[i] = conn
    /\ UNCHANGED <<canVars, conn, links, mode, payload, since, cmds, task, phone, history>>

-----------------------------------------------------------------------------
(* The command task. A notification is refused without a connection, and   *)
(* may be for want of a buffer.                                            *)

Kept == UNCHANGED <<conn, links, payload, since, late, history>>
Sent == conn # 0

Goto(place) == task' = [task EXCEPT !.at = place]

Receive ==
    /\ task.at = "receive" /\ cmds # <<>>
    /\ cmds' = Tail(cmds)
    /\ task' = [Idle EXCEPT !.at = Head(cmds)]
    /\ Kept /\ UNCHANGED <<canVars, mode, phone>>

Dispatch ==
    /\ task.at \in Commands
    /\ mode' = Unless("telematics")
    /\ task' = [Idle EXCEPT !.at = CASE task.at = "get" -> "header"
                                     [] task.at = "end" -> "rotate"
                                     [] OTHER -> "answer"]
    /\ Kept /\ UNCHANGED <<canVars, cmds, phone>>

\* The wait for the logger, up to two seconds, does not look at the connection.
Rotate ==
    /\ task.at = "rotate" /\ Goto("answer")
    /\ Kept /\ UNCHANGED <<canVars, mode, cmds, phone>>

Answer ==
    /\ task.at = "answer" /\ task' = Idle
    /\ \/ Sent /\ owed' = FALSE
       \/ owed' = owed
    /\ Kept /\ UNCHANGED <<canVars, mode, cmds, heard, copy>>

GetHeader ==
    /\ task.at = "header"
    /\ \/ Sent /\ Goto("size") /\ heard' = [head |-> TRUE, units |-> <<>>]
       \/ task' = Idle /\ heard' = heard
    /\ Kept /\ UNCHANGED <<canVars, mode, cmds, owed, copy>>

\* 50 ms later.
GetSize ==
    /\ task.at = "size"
    /\ task' = [task EXCEPT !.at = "chunk", !.chunk = payload]
    /\ Kept /\ UNCHANGED <<canVars, mode, cmds, phone>>

\* fread, the test of the connection, and the first lines of nus_notify.
GetChunk ==
    /\ task.at = "chunk" /\ task.pos < FileUnits
    /\ task' = IF conn = 0 THEN Idle
               ELSE [task EXCEPT !.at = "piece", !.piece = payload,
                       !.left = Smaller(task.chunk, FileUnits - task.pos)]
    /\ Kept /\ UNCHANGED <<canVars, mode, cmds, phone>>

\* nus_notify splits by the payload it has read.
NextPiece == Smaller(task.left, task.piece)

\* The phone takes units only after a header; NimBLE cuts what exceeds the MTU.
Hear(n) ==
    heard' = IF heard.head
             THEN [heard EXCEPT !.units =
                     @ \o [i \in 1..Smaller(n, payload) |-> task.pos + i]]
             ELSE heard

\* A piece that is refused is skipped.
GetPieceSkipped ==
    /\ task.at = "piece"
    /\ \/ Sent /\ Hear(NextPiece)
       \/ heard' = heard
    /\ task' = [task EXCEPT !.pos = @ + NextPiece, !.left = @ - NextPiece,
                  !.at = IF task.left = NextPiece THEN "chunk" ELSE "piece"]
    /\ Kept /\ UNCHANGED <<canVars, mode, cmds, owed, copy>>

GetPiece ==
    /\ task.at = "piece"
    /\ \/ /\ Sent
          /\ Hear(NextPiece)
          /\ task' = [task EXCEPT !.pos = @ + NextPiece, !.left = @ - NextPiece,
                        !.at = IF task.left = NextPiece THEN "chunk" ELSE "piece"]
       \/ task' = Idle /\ heard' = heard
    /\ Kept /\ UNCHANGED <<canVars, mode, cmds, owed, copy>>

\* END, after which the phone has what it heard since DATA.
GetEnd ==
    /\ task.at = "chunk" /\ task.pos = FileUnits /\ task' = Idle
    /\ \/ /\ Sent /\ owed' = FALSE /\ heard' = NoFile
          /\ copy' = IF heard.head THEN heard.units ELSE copy
       \/ UNCHANGED phone
    /\ Kept /\ UNCHANGED <<canVars, mode, cmds>>

\* No command within the timeout of the receive, and there is a connection.
Quiet ==
    /\ task.at = "receive" /\ cmds = <<>> /\ conn # 0
    /\ Goto("connected")
    /\ Kept /\ UNCHANGED <<canVars, mode, cmds, phone>>

\* A connection without a command yet, and then the time. Nobody else ends the mode
\* detecting; the connection may have ended, and another begun.
ReadNow ==
    /\ task.at = "connected" /\ mode = "detecting"
    /\ task' = [task EXCEPT !.at = "timed", !.link = conn, !.due = late]
    /\ Kept /\ UNCHANGED <<canVars, mode, cmds, phone>>

\* s_connect_time_ms > 0
TestStarted ==
    /\ task.at = "timed"
    /\ IF since THEN Goto("started") ELSE task' = Idle
    /\ Kept /\ UNCHANGED <<canVars, mode, cmds, phone>>

\* now_ms - s_connect_time_ms >= 3000, which is read again. If it is another's by now,
\* it is either 0 or later than now_ms, and what the difference is depends on how
\* long the firmware has run, and on the tick.
Elapsed == IF conn # 0 /\ conn = task.link THEN {task.due} ELSE BOOLEAN

\* Any time will do.
TestStartedOnly ==
    /\ task.at = "started" /\ Goto("speedo")
    /\ Kept /\ UNCHANGED <<canVars, mode, cmds, phone>>

TestConnectTime ==
    /\ task.at = "started"
    /\ \E passed \in Elapsed : IF passed THEN Goto("speedo") ELSE task' = Idle
    /\ Kept /\ UNCHANGED <<canVars, mode, cmds, phone>>

EnterSpeedo ==
    /\ task.at = "speedo" /\ task' = Idle
    /\ mode' = "speedo"
    /\ Kept /\ UNCHANGED <<canVars, cmds, phone>>

\* No longer in the mode detecting; the mode is read again.
OtherMode ==
    /\ task.at = "connected" /\ mode # "detecting"
    /\ Goto("mode")
    /\ Kept /\ UNCHANGED <<canVars, mode, cmds, phone>>

StartStream ==
    /\ task.at = "mode" /\ mode = "speedo"
    /\ Goto("stream")
    /\ Kept /\ UNCHANGED <<canVars, mode, cmds, phone>>

\* In telematics mode, a heartbeat; the phone does not wait for it.
Heartbeat ==
    /\ task.at = "mode" /\ mode # "speedo"
    /\ task' = Idle
    /\ Kept /\ UNCHANGED <<canVars, mode, cmds, phone>>

\* A line is put in the buffer, which is sent first when it is full; a failure
\* ends the round, and the frames taken are gone.
StreamLine ==
    /\ task.at = "stream" /\ live # <<>> /\ live' = Tail(live)
    /\ IF task.lines < BufLines THEN task' = [task EXCEPT !.lines = @ + 1]
       ELSE \/ Sent /\ task' = [task EXCEPT !.lines = 1]
            \/ task' = Idle
    /\ Kept /\ UNCHANGED <<signal, frames, rx, can, field, mode, cmds, phone>>

StreamRest ==
    /\ task.at = "stream" /\ live = <<>> /\ task' = Idle
    /\ Kept /\ UNCHANGED <<canVars, mode, cmds, phone>>

TaskStep ==
    \/ Receive \/ Dispatch \/ Rotate \/ Answer
    \/ GetHeader \/ GetSize \/ GetChunk \/ GetPiece \/ GetEnd
    \/ Quiet \/ ReadNow \/ TestStarted \/ TestConnectTime \/ EnterSpeedo
    \/ OtherMode \/ StartStream \/ StreamLine \/ StreamRest \/ Heartbeat

HostStep ==
    \/ Connect \/ Disconnect \/ MtuAgreed
    \/ \E cmd \in Sends[signal] : Write(cmd)
    \/ WriteSpeed
    \/ ThreeSeconds

Beside == UNCHANGED <<link, cmds, task, phone, history>>

LinkNext == HostStep \/ TaskStep \/ (CanStep /\ Beside)

LinkSpec == LinkInit /\ [][LinkNext]_vars

\* Time passes, and both tasks are run.
LinkFairSpec ==
    /\ LinkSpec
    /\ WF_vars(TaskStep) /\ WF_vars(CanTask /\ Beside) /\ WF_vars(ThreeSeconds)

-----------------------------------------------------------------------------
(* Properties.                                                             *)

\* "Anything that reaches the queue must survive": a phone that waits for its
\* answers never loses a command, however much it streams its speed, during a
\* GET too, and with the commands left over from the connections before.
CommandsSurvive == ~lost

\* "Phone discards incomplete session": what the phone has received between DATA
\* and END on one connection is the session, whole and in order, although the MTU
\* is agreed on or the connection is replaced in the middle of the transfer, which
\* then goes on to the new one, and although notifications fail.
CopyWhole == copy = <<>> \/ copy = [i \in 1..FileUnits |-> i]

\* DISCONNECT drains the live queue: of the frames waiting to be streamed to a
\* connection, at most the one that the CAN task held arrived before it. Excepted is
\* a connection before which, or at which, the test of the time was torn: the mode
\* may have been speedo without a phone then, and as CONNECT does not drain, all that
\* the queue holds may be old.
FreshStream ==
    conn # 0 /\ ~torn => Cardinality({ i \in DOMAIN live : live[i] # conn }) <= 1

\* A mode is earned: web-interface mode by booting into it, speedo by three seconds
\* of this connection, unless one ended or began between the reading of the time and
\* the switch (which needs no three seconds then), and telematics by a command, of
\* this connection or left over from the last. A connection begins and ends in none
\* of them.
ModeEarned ==
    [][/\ mode' = "web" <=> mode = "web"
       /\ mode' = "speedo" /\ mode # "speedo" => late \/ torn
       /\ mode' = "telematics" /\ mode # "telematics" => conn = 0 \/ claimed \/ leftover
       /\ conn' # conn => mode' \in {"detecting", "web"}
      ]_vars

\* A frame taken leaves in its field what the comments of the decoders say; one that
\* no decoder takes, and all else, leave the field as it was. Two things the comments
\* do not say: a shunt frame of less than six bytes is decoded as far as it goes, and
\* a speed below zero is one above the 15-bit number.
DecodedRight ==
    [][IF TakeFrame /\ Decoded(signal) THEN Means(signal, field') ELSE field' = field]_vars

\* A phone that stays is told apart: by a command, or after three seconds.
LeavesDetecting ==
    (conn # 0 /\ mode = "detecting") ~> (conn = 0 \/ mode # "detecting")

\* The CAN task is never held up by a phone that does not take its frames.
LoggingNeverStalls == (can.at # "receive") ~> (can.at = "receive")
=============================================================================

---------------------------- MODULE BleLinkProofs ----------------------------
(* Theorems of BleLink and their proofs.                                   *)
EXTENDS BleLinkInv, SequenceTheorems, FiniteSetTheorems, TLAPS

-----------------------------------------------------------------------------
(* Decoders.                                                               *)

\* A conversion to 16 bits changes no number that fits.
LEMMA Int16Fits ==
    ASSUME NEW n \in Int, n >= -32768, n <= 32767
    PROVE  Int16(n) = n
BY DEF Int16

\* Of one that does not, as much as 16 bits hold.
LEMMA Int16Holds ==
    ASSUME NEW n \in Int
    PROVE  Int16(n) \in Int /\ Holds16(Int16(n), n)
BY SMT DEF Int16, Holds16

\* Fahrenheit of a byte, to the tenth below zero and above.
LEMMA FahrenheitRight ==
    ASSUME NEW raw \in 0..255
    PROVE  Fahrenheit(raw) \in Int /\ Abs(9 * Fahrenheit(raw) - 50 * (raw - 32)) < 9
<1> DEFINE n == (raw - 32) * 50
           q == Quotient(n, 9)
<1>1. n \in Int /\ n >= -1600 /\ n <= 11150 /\ n = 50 * (raw - 32)
  OBVIOUS
<1> HIDE DEF n
<1>2. q \in Int /\ q >= -178 /\ q <= 1239 /\ 9 * q - n < 9 /\ n - 9 * q < 9
  <2>1. CASE n < 0
    <3>1. q = -((-n) \div 9)
      BY <2>1 DEF Quotient
    <3>2. (-n) \div 9 \in Int /\ 0 <= (-n) \div 9 /\ (-n) \div 9 <= 178 /\ 9 * ((-n) \div 9) <= -n /\ -n < 9 * ((-n) \div 9) + 9
      BY <1>1, <2>1
    <3>3. QED
      BY <1>1, <3>1, <3>2
  <2>2. CASE ~(n < 0)
    <3>1. q = n \div 9
      BY <2>2 DEF Quotient
    <3>2. n \div 9 \in Int /\ 0 <= n \div 9 /\ n \div 9 <= 1239 /\ 9 * (n \div 9) <= n /\ n < 9 * (n \div 9) + 9
      BY <1>1, <2>2
    <3>3. QED
      BY <1>1, <3>1, <3>2
  <2>3. QED
    BY <2>1, <2>2
<1>3. Fahrenheit(raw) = q
  BY <1>2, Int16Fits DEF Fahrenheit, n
<1>4. QED
  BY <1>1, <1>2, <1>3 DEF Abs

\* The speed, one more below zero.
LEMMA RpmRight ==
    ASSUME NEW raw \in Int, 0 <= raw, raw <= 32767
    PROVE  /\ Rpm(raw) \in Int
           /\ raw = 32767 => Rpm(raw) = 0
           /\ 16383 < raw /\ raw < 32767 => Rpm(raw) = (raw - 32768) + 1
           /\ raw <= 16383 => Rpm(raw) = raw
BY SMT DEF Rpm

\* What a short frame of the shunt has, whatever its length.
LEMMA IsaRight ==
    ASSUME NEW f, f.dlc \in 0..8, f.raw \in Int, f.dlc < 6
    PROVE  /\ IsaValue(f) \in Int /\ 0 <= IsaValue(f) /\ IsaValue(f) < Weight(f.dlc)
           /\ (f.raw - IsaValue(f)) % Weight(f.dlc) = 0
<1>1. CASE f.dlc <= 2
  BY SMT, <1>1 DEF IsaValue, Weight
<1>2. CASE f.dlc = 3
  BY SMT, <1>2 DEF IsaValue, Weight
<1>3. CASE f.dlc = 4
  BY SMT, <1>3 DEF IsaValue, Weight
<1>4. CASE f.dlc = 5
  BY SMT, <1>4 DEF IsaValue, Weight
<1>5. QED
  BY SMT, <1>1, <1>2, <1>3, <1>4

\* Every decoder gives what Means says, for every number that the bytes of the frame
\* can hold and every length of it that the decoder takes (can_handler.c:101-237).
THEOREM DecodersRight ==
    ASSUME NEW f, Decoded(f), f.dlc \in 0..8, Holds(f)
    PROVE  Value(f) \in Int /\ Means(f, Value(f))
<1> DEFINE raw == f.raw
<1>0. f.id \in Fields /\ raw \in Int
  BY DEF Decoded, Holds
<1>b. f.id \in Fields \ {"isa", "speed", "pack", "cells"} => 0 <= raw /\ raw <= 255
  BY SMT DEF Holds, Top
<1>1. CASE f.id = "speed"
  <2>1. 0 <= raw /\ raw <= 32767
    BY SMT, <1>1 DEF Holds, Fields, Top
  <2>2. Value(f) = Rpm(raw)
    BY <1>1 DEF Value
  <2>3. Means(f, Value(f)) <=> Value(f) = IF raw = 32767 THEN 0
                                          ELSE IF 16383 < raw /\ raw < 32767
                                               THEN (raw - 32768) + 1 ELSE raw
    BY SMT, <1>1 DEF Means
  <2>4. QED
    BY SMT, <1>0, <2>1, <2>2, <2>3, RpmRight
<1>2. CASE f.id = "temps"
  <2>1. raw \in 0..255
    BY SMT, <1>0, <1>b, <1>2 DEF Fields
  <2>2. Value(f) = Fahrenheit(raw)
    BY <1>2 DEF Value
  <2>3. Means(f, Value(f)) <=> Abs(9 * Value(f) - 50 * (raw - 32)) < 9
    BY SMT, <1>2 DEF Means
  <2>4. QED
    BY <2>1, <2>2, <2>3, FahrenheitRight
<1>3. CASE f.id = "cells"
  <2> DEFINE n == (raw - 273) * 10
  <2>1. n \in Int /\ n = 10 * raw - 2730
    BY SMT, <1>0
  <2>2. Value(f) = Int16(n)
    BY <1>3 DEF Value, Kelvin
  <2>3. Means(f, Value(f)) <=> Holds16(Value(f), 10 * raw - 2730)
    BY SMT, <1>3 DEF Means
  <2> HIDE DEF n
  <2>4. QED
    BY SMT, <2>1, <2>2, <2>3, Int16Holds
<1>4. CASE f.id = "pack"
  <2>1. Value(f) = Int16(raw)
    BY <1>4 DEF Value
  <2>2. Means(f, Value(f)) <=> Holds16(Value(f), raw)
    BY SMT, <1>4 DEF Means
  <2>3. QED
    BY SMT, <1>0, <2>1, <2>2, Int16Holds
<1>5. CASE f.id = "mg_temp"
  <2> DEFINE n == (raw - 50) * 10
  <2>1. n \in Int /\ n >= -32768 /\ n <= 32767 /\ n = 10 * raw - 500
    BY SMT, <1>0, <1>b, <1>5 DEF Fields
  <2>2. Value(f) = Int16(n)
    BY <1>5 DEF Value
  <2>3. Means(f, Value(f)) <=> Value(f) = 10 * raw - 500
    BY SMT, <1>5 DEF Means
  <2> HIDE DEF n
  <2>4. QED
    BY SMT, <2>1, <2>2, <2>3, Int16Fits
<1>6. CASE f.id = "isa"
  <2>1. Value(f) = IsaValue(f)
    BY <1>6 DEF Value
  <2>2. CASE f.dlc < 6
    <3>1. Means(f, Value(f)) <=> /\ 0 <= Value(f) /\ Value(f) < Weight(f.dlc)
                                /\ (raw - Value(f)) % Weight(f.dlc) = 0
      BY SMT, <1>6, <2>2 DEF Means
    <3>2. QED
      BY SMT, <1>0, <2>1, <2>2, <3>1, IsaRight
  <2>3. CASE ~(f.dlc < 6)
    <3>1. IsaValue(f) = raw
      BY SMT, <2>3 DEF IsaValue
    <3>2. Means(f, Value(f)) <=> Value(f) = raw
      BY SMT, <1>6, <2>3 DEF Means
    <3>3. QED
      BY <1>0, <2>1, <3>1, <3>2
  <2>4. QED
    BY <2>2, <2>3
<1>7. CASE f.id = "mg_lv"
  <2>1. Value(f) = raw * 125
    BY <1>7 DEF Value
  <2>2. Means(f, Value(f)) <=> 8 * Value(f) = 1000 * raw
    BY SMT, <1>7 DEF Means
  <2>3. QED
    BY SMT, <1>0, <2>1, <2>2
<1>8. CASE f.id = "soc"
  <2>1. Value(f) = raw
    BY <1>8 DEF Value
  <2>2. Means(f, Value(f)) <=> Value(f) = raw
    BY SMT, <1>8 DEF Means
  <2>3. QED
    BY <1>0, <2>1, <2>2
<1>9. CASE f.id = "plug"
  <2>1. Value(f) = IF raw = 1 THEN 1 ELSE 0
    BY <1>9 DEF Value
  <2>2. Means(f, Value(f)) <=> Value(f) \in {0, 1} /\ (Value(f) = 1 <=> raw = 1)
    BY SMT, <1>9 DEF Means
  <2>3. QED
    BY SMT, <2>1, <2>2
<1>10. QED
  BY <1>0, <1>1, <1>2, <1>3, <1>4, <1>5, <1>6, <1>7, <1>8, <1>9 DEF Fields

-----------------------------------------------------------------------------
(* Types.                                                                  *)

\* A queue holds no more than its depth, whatever is posted to it.
LEMMA PostedFits ==
    ASSUME NEW S, NEW q \in Seq(S), NEW x \in S, NEW n \in Nat, Len(q) <= n
    PROVE  Posted(q, x, n) \in Seq(S) /\ Len(Posted(q, x, n)) <= n
BY DEF Posted

\* Taking the first of a queue.
LEMMA TailFits ==
    ASSUME NEW S, NEW q \in Seq(S), q # <<>>
    PROVE  /\ Head(q) \in S /\ Tail(q) \in Seq(S) /\ Len(Tail(q)) = Len(q) - 1
           /\ Len(q) \in Nat
OBVIOUS

\* A decoder writes a number whatever the frame.
LEMMA DecodeType ==
    ASSUME NEW f \in Signals, NEW v \in Int
    PROVE  Decode(v, f) \in Int
<1>1. f.dlc \in 0..8 /\ Holds(f)
  BY CanAssumption DEF CanAssumption
<1>2. QED
  BY <1>1, DecodersRight DEF Decode

LEMMA InitType == LinkInit => TypeInv
<1> SUFFICES ASSUME LinkInit PROVE TypeInv
  OBVIOUS
<1> USE LinkAssumption, CanAssumption
    DEF LinkAssumption, CanAssumption, LinkInit, CanInit, Idle, NoFile, Waiting
<1>1. CanTypeOK
  BY DEF CanTypeOK
<1>2. links \in 0..MaxLinks[signal] /\ conn \in {0, links}
  OBVIOUS
<1>3. /\ heard.units \in Seq(1..FileUnits) /\ heard.head \in BOOLEAN
      /\ copy \in Seq(1..FileUnits) /\ cmds \in Seq(Commands) /\ Len(cmds) <= CmdDepth
  OBVIOUS
<1>4. /\ task.pos \in 0..FileUnits /\ task.lines \in 0..BufLines
      /\ task.left \in 0..WideMtu /\ {task.chunk, task.piece} \subseteq {0, 1, WideMtu}
      /\ task.at = "receive" /\ task.link = 0 /\ task.due = FALSE
  OBVIOUS
<1>5. payload \in {1, WideMtu} /\ mode \in {"detecting", "telematics", "speedo", "web"}
  OBVIOUS
<1>6. {since, late, lost, claimed, leftover, torn} \subseteq BOOLEAN /\ owed \in BOOLEAN
  OBVIOUS
<1>7. LinkTypeOK
  BY <1>1, <1>2, <1>3, <1>4, <1>5, <1>6 DEF LinkTypeOK, Places
<1>8. QED
  BY <1>4, <1>7 DEF TypeInv, TaskOK, Hearing, Places

\* The steps of the CAN task and its interrupt.
LEMMA CanStepType == TypeInv /\ CanStep /\ Beside => TypeInv'
<1> SUFFICES ASSUME TypeInv, CanStep, Beside PROVE TypeInv'
  OBVIOUS
<1> USE CanAssumption DEF CanAssumption, TypeInv, LinkTypeOK, CanTypeOK, Answering, Streaming, Beside, link, phone, history
<1>1. CASE FrameArrives
  <2>1. conn \in Nat
    BY LinkAssumption DEF LinkAssumption
  <2>2. rx' \in Seq(Nat) /\ Len(rx') <= RxDepth
    BY <1>1, <2>1, PostedFits DEF FrameArrives
  <2>3. signal' = signal /\ MaxFrames[signal] \in Nat /\ frames' \in 0..MaxFrames[signal']
    BY <1>1 DEF FrameArrives
  <2>4. QED
    BY <1>1, <2>2, <2>3 DEF FrameArrives
<1>2. CASE TakeFrame
  <2> HIDE DEF TypeInv
  <2>0. rx \in Seq(Nat) /\ rx # <<>> /\ Len(rx) <= RxDepth /\ RxDepth \in Nat
    BY <1>2 DEF TakeFrame, TypeInv
  <2>1. Head(rx) \in Nat /\ Tail(rx) \in Seq(Nat) /\ Len(Tail(rx)) <= RxDepth
    BY <2>0, TailFits
  <2>2. field' \in Int
    BY <1>2, DecodeType DEF TakeFrame, TypeInv
  <2>3. QED
    BY <1>2, <2>1, <2>2 DEF TakeFrame, TypeInv
<1>3. CASE ReadMode
  BY ZenonT(30), <1>3 DEF ReadMode
<1>4. CASE PostLive
  <2>1. live' \in Seq(Nat) /\ Len(live') <= LiveDepth
    BY <1>4, PostedFits DEF PostLive
  <2>2. QED
    BY ZenonT(30), <1>4, <2>1 DEF PostLive
<1>5. CASE PostLog
  BY <1>5 DEF PostLog, Waiting
<1>6. QED
  BY <1>1, <1>2, <1>3, <1>4, <1>5 DEF CanStep, CanTask

\* What the phone sends are commands.
LEMMA SendsCommands == TypeInv => Sends[signal] \subseteq Commands
BY LinkAssumption DEF LinkAssumption, TypeInv, LinkTypeOK, CanTypeOK

\* The events of the host task.
LEMMA HostStepType == TypeInv /\ HostStep => TypeInv'
<1> SUFFICES ASSUME TypeInv, HostStep PROVE TypeInv'
  OBVIOUS
<1> USE LinkAssumption, CanAssumption DEF LinkAssumption, CanAssumption
<1>t. MaxLinks[signal] \in Nat
  BY DEF TypeInv, LinkTypeOK, CanTypeOK
<1>1. CASE Connect
  <2>1. links \in Nat /\ links < MaxLinks[signal] /\ links' = links + 1 /\ conn' = links + 1
    BY <1>1, <1>t DEF Connect, TypeInv, LinkTypeOK
  <2>2. signal' = signal /\ links' \in 0..MaxLinks[signal'] /\ conn' \in {0, links'}
    BY <1>1, <1>t, <2>1 DEF Connect, canVars
  <2>3. mode' \in {"detecting", "web"} /\ {since', late', claimed'} \subseteq BOOLEAN
    BY <1>1 DEF Connect, Unless, StartTimer
  <2>4. leftover' \in BOOLEAN /\ torn' \in BOOLEAN
    BY <1>1 DEF Connect, TypeInv, LinkTypeOK
  <2>5. /\ heard' = [head |-> FALSE, units |-> <<>>] /\ copy' = <<>>
        /\ owed' = FALSE /\ payload' = 1
    BY <1>1 DEF Connect, NoFile
  <2>6. CanTypeOK'
    BY <1>1 DEF Connect, canVars, TypeInv, LinkTypeOK, CanTypeOK
  <2>7. UNCHANGED <<can, cmds, task, lost>>
    BY <1>1 DEF Connect, canVars
  <2>8. /\ heard' \in Hearing
        /\ heard'.head \in BOOLEAN /\ heard'.units \in Seq(1..FileUnits)
        /\ copy' \in Seq(1..FileUnits) /\ payload' \in {1, WideMtu}
    BY <2>5 DEF Hearing
  <2>9. LinkTypeOK'
    BY <2>2, <2>3, <2>4, <2>5, <2>6, <2>7, <2>8 DEF TypeInv, LinkTypeOK
  <2>10. QED
    BY <2>7, <2>8, <2>9 DEF TypeInv
<1>2. CASE Disconnect
  <2>1. torn' \in BOOLEAN
    BY <1>2 DEF Disconnect
  <2>2. mode' \in {"detecting", "web"} /\ {since', late'} \subseteq BOOLEAN /\ conn' = 0
    BY <1>2 DEF Disconnect, Unless, NoTimer
  <2>3. CanTypeOK'
    BY <1>2 DEF Disconnect, DrainLive, TypeInv, LinkTypeOK, CanTypeOK
  <2>4. UNCHANGED <<signal, can, links, payload, cmds, task, phone, lost, claimed, leftover>>
    BY <1>2 DEF Disconnect
  <2>5. QED
    BY <2>1, <2>2, <2>3, <2>4 DEF TypeInv, LinkTypeOK, phone
<1>3. CASE MtuAgreed
  BY <1>3 DEF MtuAgreed, TypeInv, LinkTypeOK, CanTypeOK, canVars, phone, history
<1>4. ASSUME NEW cmd \in Sends[signal], Write(cmd) PROVE TypeInv'
  <2>0. cmd \in Commands
    BY SendsCommands
  <2>1. cmds' \in Seq(Commands) /\ Len(cmds') <= CmdDepth /\ lost' \in BOOLEAN
    BY <1>4, <2>0, PostedFits DEF Write, Enqueue, TypeInv, LinkTypeOK
  <2>2. QED
    BY <1>4, <2>1 DEF Write, TypeInv, LinkTypeOK, CanTypeOK, canVars, link
<1>5. CASE WriteSpeed
  BY <1>5 DEF WriteSpeed, TypeInv, LinkTypeOK, CanTypeOK, vars, canVars, link, phone, history
<1>6. CASE ThreeSeconds
  BY <1>6 DEF ThreeSeconds, TypeInv, LinkTypeOK, CanTypeOK, canVars, phone, history
<1>7. QED
  BY <1>1, <1>2, <1>3, <1>4, <1>5, <1>6 DEF HostStep

\* The steps of the command task leave alone what belongs to the host task.
LEMMA TaskFrame ==
    ASSUME TypeInv, Kept, UNCHANGED <<signal, frames, rx, can, field>>,
           TaskOK(task'),
           live' \in Seq(Nat), Len(live') <= LiveDepth,
           mode' \in {"detecting", "telematics", "speedo", "web"},
           cmds' \in Seq(Commands), Len(cmds') <= CmdDepth,
           owed' \in BOOLEAN, heard' \in Hearing, copy' \in Seq(1..FileUnits)
    PROVE  TypeInv'
<1>1. CanTypeOK'
  BY DEF TypeInv, LinkTypeOK, CanTypeOK
<1>2. /\ task'.at \in Places /\ task'.link \in Nat /\ task'.due \in BOOLEAN
      /\ task'.pos \in 0..FileUnits /\ task'.lines \in 0..BufLines
      /\ task'.left \in 0..WideMtu /\ {task'.chunk, task'.piece} \subseteq {0, 1, WideMtu}
  BY DEF TaskOK
<1>3. heard'.head \in BOOLEAN /\ heard'.units \in Seq(1..FileUnits)
  BY DEF Hearing
<1>4. UNCHANGED <<conn, links, payload, since, late, lost, claimed, leftover, torn>>
  BY DEF Kept, history
<1>5. LinkTypeOK'
  BY <1>1, <1>2, <1>3, <1>4 DEF TypeInv, LinkTypeOK
<1>6. QED
  BY <1>5 DEF TypeInv

LEMMA TaskIdle == TaskOK(Idle)
BY LinkAssumption DEF LinkAssumption, TaskOK, Idle, Places

\* The task at another place, and at the beginning of a command.
LEMMA TaskPlaced ==
    ASSUME NEW t, TaskOK(t), NEW place \in Places, place # "piece"
    PROVE  TaskOK([t EXCEPT !.at = place])
BY DEF TaskOK

LEMMA TaskBegins ==
    ASSUME NEW place \in Places, place # "piece"
    PROVE  TaskOK([Idle EXCEPT !.at = place])
BY TaskPlaced, TaskIdle

LEMMA TaskGoes ==
    ASSUME TaskOK(task), NEW place \in Places, place # "piece", Goto(place)
    PROVE  TaskOK(task')
BY TaskPlaced DEF Goto

LEMMA TaskKept == TaskStep => Kept
BY DEF TaskStep, Receive, Dispatch, Rotate, Answer, GetHeader, GetSize, GetChunk, GetPiece,
   GetEnd, Quiet, ReadNow, TestStarted, TestConnectTime, EnterSpeedo, OtherMode, Heartbeat, StartStream,
   StreamLine, StreamRest

LEMMA TaskStepType == TypeInv /\ TaskStep => TypeInv'
<1> SUFFICES ASSUME TypeInv, TaskStep PROVE TypeInv'
  OBVIOUS
<1>t. /\ TaskOK(task) /\ live \in Seq(Nat) /\ Len(live) <= LiveDepth
      /\ mode \in {"detecting", "telematics", "speedo", "web"}
      /\ cmds \in Seq(Commands) /\ Len(cmds) <= CmdDepth
      /\ owed \in BOOLEAN /\ heard \in Hearing /\ copy \in Seq(1..FileUnits)
      /\ payload \in {1, WideMtu} /\ conn \in Nat /\ late \in BOOLEAN
  BY LinkAssumption DEF LinkAssumption, TypeInv, LinkTypeOK, CanTypeOK
<1>n. /\ CmdDepth \in Nat /\ FileUnits \in Nat /\ WideMtu \in Nat /\ WideMtu >= 1
      /\ BufLines \in Nat /\ BufLines >= 1 /\ LiveDepth \in Nat
  BY LinkAssumption, CanAssumption DEF LinkAssumption, CanAssumption
<1>0. CASE Receive
  <2>1. cmds' \in Seq(Commands) /\ Len(cmds') <= CmdDepth /\ Head(cmds) \in Commands
    BY <1>0, <1>t, <1>n, TailFits DEF Receive
  <2>2. TaskOK(task')
    BY <1>0, <2>1, TaskBegins DEF Receive, Places, Commands
  <2>3. QED
    BY <1>0, <1>t, <2>1, <2>2, TaskFrame DEF Receive, canVars, phone
<1>1. CASE Dispatch
  <2>1. task' = [Idle EXCEPT !.at = task'.at] /\ task'.at \in {"header", "rotate", "answer"}
    BY <1>1 DEF Dispatch, Idle
  <2>2. TaskOK(task')
    BY <2>1, TaskBegins DEF Places
  <2>3. QED
    BY <1>1, <1>t, <2>2, TaskFrame DEF Dispatch, canVars, phone, Unless
<1>2. CASE Rotate
  <2>1. TaskOK(task')
    BY <1>2, <1>t DEF Rotate, Goto, TaskOK, Places
  <2>2. QED
    BY <1>2, <1>t, <2>1, TaskFrame DEF Rotate, canVars, phone
<1>3. CASE Answer
  BY <1>3, <1>t, TaskIdle, TaskFrame DEF Answer, canVars
<1>4. CASE GetHeader
  <2>1. TaskOK(task')
    BY <1>4, <1>t, TaskIdle DEF GetHeader, Goto, TaskOK, Places
  <2>2. heard' \in Hearing
    <3>1. [head |-> TRUE, units |-> <<>>] \in Hearing
      BY DEF Hearing
    <3>2. QED
      BY <1>4, <1>t, <3>1 DEF GetHeader
  <2>3. QED
    BY <1>4, <1>t, <2>1, <2>2, TaskFrame DEF GetHeader, canVars
<1>5. CASE GetSize
  <2>1. TaskOK(task')
    BY <1>5, <1>t DEF GetSize, TaskOK, Places
  <2>2. QED
    BY <1>5, <1>t, <2>1, TaskFrame DEF GetSize, canVars, phone
<1>6. CASE GetChunk
  <2>1. TaskOK(task')
    <3>1. CASE conn = 0
      BY <1>6, <3>1, TaskIdle DEF GetChunk
    <3>2. CASE conn # 0
      <4> DEFINE n == Smaller(task.chunk, FileUnits - task.pos)
      <4>0. /\ task.chunk \in {0, 1, WideMtu} /\ task.pos \in 0..FileUnits
            /\ task.pos < FileUnits
        BY <1>6, <1>t DEF GetChunk, TaskOK
      <4>1. n \in 0..WideMtu /\ task.pos + n <= FileUnits
        BY <1>n, <4>0 DEF Smaller
      <4>2. task' = [task EXCEPT !.at = "piece", !.piece = payload, !.left = n]
        BY <1>6, <3>2 DEF GetChunk
      <4> HIDE DEF n
      <4>3. QED
        BY <1>t, <4>1, <4>2 DEF TaskOK, Places
    <3>3. QED
      BY <3>1, <3>2
  <2>2. QED
    BY <1>6, <1>t, <2>1, TaskFrame DEF GetChunk, canVars, phone
<1>7. CASE GetPiece
  <2> DEFINE n == NextPiece
  <2>1. /\ n \in Nat /\ n <= task.left
        /\ task.pos \in 0..FileUnits /\ task.left \in 0..WideMtu
        /\ task.pos + task.left <= FileUnits
    BY <1>7, <1>t, <1>n DEF GetPiece, TaskOK, NextPiece, Smaller
  <2> HIDE DEF n
  <2>2. CASE task' = Idle /\ heard' = heard
    BY <1>7, <1>t, <2>2, TaskIdle, TaskFrame DEF GetPiece, canVars
  <2>3. CASE /\ Hear(n)
             /\ task' = [task EXCEPT !.pos = @ + n, !.left = @ - n,
                            !.at = IF task.left = n THEN "chunk" ELSE "piece"]
    <3>1. TaskOK(task')
      <4>1. /\ task.pos + n \in 0..FileUnits /\ task.left - n \in 0..WideMtu
            /\ task.pos + n + (task.left - n) <= FileUnits
        BY <1>n, <2>1
      <4>2. task'.pos = task.pos + n /\ task'.left = task.left - n
        BY <1>t, <2>3 DEF TaskOK
      <4>3. task' \in [at : Places, pos : 0..FileUnits, chunk : {0, 1, WideMtu},
                       left : 0..WideMtu, piece : {0, 1, WideMtu}, lines : 0..BufLines,
                       link : Nat, due : BOOLEAN]
        BY <1>t, <2>3, <4>1 DEF TaskOK, Places
      <4>4. QED
        BY <4>1, <4>2, <4>3 DEF TaskOK
    <3>2. heard' \in Hearing
      <4> DEFINE k == Smaller(n, payload)
                 new == [i \in 1..k |-> task.pos + i]
      <4>1. k \in Nat /\ k <= n
        BY <1>t, <1>n, <2>1 DEF Smaller
      <4> HIDE DEF k
      <4>2. new \in Seq(1..FileUnits)
        BY <1>n, <2>1, <4>1
      <4> HIDE DEF new
      <4>3. heard.units \o new \in Seq(1..FileUnits)
        BY <1>t, <4>2 DEF Hearing
      <4>4. heard' = IF heard.head THEN [heard EXCEPT !.units = heard.units \o new] ELSE heard
        BY <2>3 DEF Hear, new, k
      <4>5. QED
        BY <1>t, <4>3, <4>4 DEF Hearing
    <3>3. QED
      BY <1>7, <1>t, <3>1, <3>2, TaskFrame DEF GetPiece, canVars
  <2>4. QED
    BY <1>7, <2>2, <2>3 DEF GetPiece, n
<1>8. CASE GetEnd
  <2>1. owed' \in BOOLEAN /\ heard' \in Hearing /\ copy' \in Seq(1..FileUnits)
    <3>1. NoFile \in Hearing
      BY DEF Hearing, NoFile
    <3>2. heard.units \in Seq(1..FileUnits)
      BY <1>t DEF Hearing
    <3>3. QED
      BY <1>8, <1>t, <3>1, <3>2 DEF GetEnd, phone
  <2>2. QED
    BY <1>8, <1>t, <2>1, TaskIdle, TaskFrame DEF GetEnd, canVars
<1>9. CASE Quiet \/ OtherMode \/ StartStream
  <2>1. TaskOK(task')
    BY <1>9, <1>t DEF Quiet, OtherMode, StartStream, Goto, TaskOK, Places
  <2>2. QED
    BY <1>9, <1>t, <2>1, TaskFrame DEF Quiet, OtherMode, StartStream, canVars, phone
<1>10. CASE ReadNow
  <2>1. TaskOK(task')
    BY <1>10, <1>t DEF ReadNow, TaskOK, Places, Testing
  <2>2. QED
    BY <1>10, <1>t, <2>1, TaskFrame DEF ReadNow, canVars, phone
<1>11. CASE TestStarted \/ TestConnectTime
  <2>1. TaskOK(task')
    <3>1. task' = Idle \/ Goto("started") \/ Goto("speedo")
      BY <1>11 DEF TestStarted, TestConnectTime
    <3>2. QED
      BY <1>t, <3>1, TaskIdle, TaskGoes DEF Places, Testing
  <2>2. QED
    BY <1>11, <1>t, <2>1, TaskFrame DEF TestStarted, TestConnectTime, canVars, phone
<1>14. CASE EnterSpeedo
  BY <1>14, <1>t, TaskIdle, TaskFrame DEF EnterSpeedo, canVars, phone
<1>15. CASE Heartbeat
  BY <1>15, <1>t, TaskIdle, TaskFrame DEF Heartbeat, canVars, phone
<1>12. CASE StreamLine
  <2>1. live' \in Seq(Nat) /\ Len(live') <= LiveDepth
    BY <1>12, <1>t, <1>n, TailFits DEF StreamLine
  <2>2. TaskOK(task')
    <3>1. CASE task.lines < BufLines
      <4>1. task.lines + 1 \in 0..BufLines /\ task.at = "stream"
        BY <1>12, <1>t, <1>n, <3>1 DEF TaskOK, StreamLine
      <4>2. task' = [task EXCEPT !.lines = task.lines + 1]
        BY <1>12, <3>1 DEF StreamLine
      <4>3. QED
        BY <1>t, <4>1, <4>2 DEF TaskOK
    <3>2. CASE ~(task.lines < BufLines) /\ task' = [task EXCEPT !.lines = 1]
      <4>1. 1 \in 0..BufLines /\ task.at = "stream"
        BY <1>12, <1>n DEF StreamLine
      <4>2. QED
        BY <1>t, <3>2, <4>1 DEF TaskOK
    <3>3. CASE task' = Idle
      BY <3>3, TaskIdle
    <3>4. QED
      BY <1>12, <3>1, <3>2, <3>3 DEF StreamLine
  <2>3. QED
    BY <1>12, <1>t, <2>1, <2>2, TaskFrame DEF StreamLine, phone
<1>13. CASE StreamRest
  BY <1>13, <1>t, TaskIdle, TaskFrame DEF StreamRest, canVars, phone
<1>16. QED
  BY <1>0, <1>1, <1>2, <1>3, <1>4, <1>5, <1>6, <1>7, <1>8, <1>9, <1>10, <1>11, <1>12,
     <1>13, <1>14, <1>15 DEF TaskStep

LEMMA NextType == TypeInv /\ [LinkNext]_vars => TypeInv'
<1>1. TypeInv /\ UNCHANGED vars => TypeInv'
  BY DEF TypeInv, LinkTypeOK, CanTypeOK, vars, canVars, link, phone, history
<1>2. QED
  BY <1>1, HostStepType, TaskStepType, CanStepType DEF LinkNext

LEMMA TypeAlways == LinkSpec => []TypeInv
<1>1. QED
  BY InitType, NextType, PTL DEF LinkSpec

\* Type correctness of the link and of the CAN receiver, for every depth of the
\* queues, size of a file, MTU and number of connections.
THEOREM LinkTypeCorrect == LinkSpec => []LinkTypeOK
<1>1. TypeInv => LinkTypeOK
  BY DEF TypeInv
<1>2. QED
  BY <1>1, TypeAlways, PTL

-----------------------------------------------------------------------------
(* Transfers.                                                              *)

LEMMA InitTransfer == LinkInit => TransferInv
BY DEF LinkInit, TransferInv, Idle, NoFile, Prefix, Streaming

\* A task that sends nothing, or no longer.
LEMMA TransferOver ==
    ASSUME TransferInv, UNCHANGED <<heard, copy>>,
           task'.at \notin {"header"} \cup Streaming
    PROVE  TransferInv'
BY DEF TransferInv, Prefix, Streaming

\* What the task does between two commands and has no effect on a transfer.
Waits ==
    \/ Quiet \/ ReadNow \/ TestStarted \/ TestConnectTime \/ EnterSpeedo
    \/ OtherMode \/ StartStream \/ StreamRest \/ Heartbeat

LEMMA WaitsPlace ==
    ASSUME TaskOK(task), Waits
    PROVE  /\ task.at \in {"receive", "connected", "mode", "stream"} \cup Testing
           /\ task'.at \in {"receive", "connected", "mode", "stream"} \cup Testing
<1>1. CASE Quiet \/ OtherMode \/ StartStream
  BY <1>1 DEF Quiet, OtherMode, StartStream, Goto, TaskOK
<1>2. CASE ReadNow
  BY <1>2 DEF ReadNow, TaskOK, Testing
<1>3. CASE TestStarted \/ TestConnectTime
  BY <1>3 DEF TestStarted, TestConnectTime, Goto, TaskOK, Testing, Idle
<1>4. CASE EnterSpeedo \/ Heartbeat \/ StreamRest
  BY <1>4 DEF EnterSpeedo, Heartbeat, StreamRest, Testing, Idle
<1>5. QED
  BY <1>1, <1>2, <1>3, <1>4 DEF Waits

LEMMA StepTransfer == TypeInv /\ TransferInv /\ [LinkNext]_vars => TransferInv'
<1> SUFFICES ASSUME TypeInv, TransferInv, [LinkNext]_vars PROVE TransferInv'
  OBVIOUS
<1>t. /\ TaskOK(task) /\ heard \in Hearing /\ copy \in Seq(1..FileUnits)
      /\ payload \in {1, WideMtu}
  BY DEF TypeInv, LinkTypeOK
<1>c. cmds \in Seq(Commands)
  BY DEF TypeInv, LinkTypeOK
<1>n. FileUnits \in Nat /\ FileUnits >= 1 /\ WideMtu \in Nat /\ WideMtu >= 1
  BY LinkAssumption DEF LinkAssumption
<1>1. CASE UNCHANGED <<task, heard, copy, payload>>
  BY <1>1 DEF TransferInv, Prefix
<1>2. CASE HostStep
  <2>1. CASE Connect
    BY <2>1 DEF Connect, TransferInv, Prefix, NoFile
  <2>2. CASE MtuAgreed
    <3>1. payload' = WideMtu /\ UNCHANGED <<task, heard, copy>>
      BY <2>2 DEF MtuAgreed, phone
    <3>2. task.at = "piece" => task.piece <= payload'
      BY <1>t, <1>n, <3>1 DEF TaskOK
    <3>3. QED
      BY <3>1, <3>2 DEF TransferInv, Prefix
  <2>3. CASE Disconnect \/ ThreeSeconds \/ WriteSpeed \/ \E cmd \in Sends[signal] : Write(cmd)
    BY <1>1, <2>3 DEF Disconnect, ThreeSeconds, WriteSpeed, Write, vars, link, phone
  <2>4. QED
    BY <1>2, <2>1, <2>2, <2>3 DEF HostStep
<1>3. CASE TaskStep
  <2>0. CASE Receive
    <3>1. task'.at \in Commands
      BY <2>0, <1>c, TailFits DEF Receive, Idle
    <3>2. UNCHANGED <<heard, copy>>
      BY <2>0 DEF Receive, phone
    <3>3. QED
      BY <3>1, <3>2, TransferOver DEF Commands, Streaming
  <2>1. CASE Dispatch
    <3>1. task' = [Idle EXCEPT !.at = task'.at] /\ task'.at \in {"header", "rotate", "answer"}
      BY <2>1 DEF Dispatch, Idle
    <3>2. task'.pos = 0 /\ task'.at \notin Streaming
      BY <3>1 DEF Idle, Streaming
    <3>3. UNCHANGED <<heard, copy>>
      BY <2>1 DEF Dispatch, phone
    <3>4. QED
      BY <3>1, <3>2, <3>3 DEF TransferInv, Prefix, Streaming
  <2>2. CASE Rotate \/ Answer \/ Waits
    <3>1. UNCHANGED <<heard, copy>>
      BY <2>2 DEF Rotate, Answer, Waits, Quiet, ReadNow, TestStarted, TestConnectTime,
                  EnterSpeedo, OtherMode, Heartbeat, StartStream, StreamRest, phone
    <3>2. task'.at \notin {"header"} \cup Streaming
      <4>1. CASE Rotate \/ Answer
        BY <1>t, <4>1 DEF Rotate, Answer, Goto, TaskOK, Idle, Streaming
      <4>2. CASE Waits
        BY <1>t, <4>2, WaitsPlace DEF Streaming, Testing
      <4>3. QED
        BY <2>2, <4>1, <4>2
    <3>3. QED
      BY <3>1, <3>2, TransferOver
  <2>3. CASE StreamLine
    <3>1. UNCHANGED <<heard, copy>> /\ task'.at \in {"stream", "receive"}
      BY <1>t, <2>3 DEF StreamLine, TaskOK, Idle, phone
    <3>2. QED
      BY <3>1, TransferOver DEF Streaming
  <2>4. CASE GetHeader
    <3>1. CASE task' = Idle /\ heard' = heard
      BY <2>4, <3>1, TransferOver DEF GetHeader, Idle, Streaming
    <3>2. CASE Goto("size") /\ heard' = [head |-> TRUE, units |-> <<>>]
      <4>1. task'.pos = 0 /\ task'.at = "size"
        BY <1>t, <2>4, <3>2 DEF GetHeader, Goto, TransferInv, TaskOK
      <4>2. QED
        BY <2>4, <3>2, <4>1 DEF GetHeader, TransferInv, Prefix
    <3>3. QED
      BY <2>4, <3>1, <3>2 DEF GetHeader
  <2>5. CASE GetSize
    <3>1. /\ task.at = "size" /\ task'.at = "chunk" /\ task'.pos = task.pos
          /\ UNCHANGED <<heard, copy>>
      BY <1>t, <2>5 DEF GetSize, TaskOK, phone
    <3>2. QED
      BY <3>1 DEF TransferInv, Prefix, Streaming
  <2>6. CASE GetChunk
    <3>1. CASE task' = Idle
      <4>1. UNCHANGED <<heard, copy>>
        BY <2>6 DEF GetChunk, phone
      <4>2. task'.at \notin {"header"} \cup Streaming
        BY <3>1 DEF Idle, Streaming
      <4>3. QED
        BY <4>1, <4>2, TransferOver
    <3>2. CASE task' # Idle
      <4>1. /\ task.at = "chunk" /\ task'.at = "piece" /\ task'.pos = task.pos
            /\ task'.piece = payload /\ UNCHANGED <<heard, copy, payload>>
        BY <1>t, <2>6, <3>2 DEF GetChunk, TaskOK, phone, Kept
      <4>2. QED
        BY <1>t, <1>n, <4>1 DEF TransferInv, Prefix, Streaming
    <3>3. QED
      BY <3>1, <3>2
  <2>7. CASE GetPiece
    <3> DEFINE n == NextPiece
               new == [i \in 1..n |-> task.pos + i]
    <3>1. CASE task' = Idle /\ heard' = heard
      BY <2>7, <3>1, TransferOver DEF GetPiece, Idle, Streaming
    <3>2. CASE /\ Hear(n)
               /\ task' = [task EXCEPT !.pos = @ + n, !.left = @ - n,
                              !.at = IF task.left = n THEN "chunk" ELSE "piece"]
      <4>1. n \in Nat /\ task.pos \in Nat /\ n <= task.piece
        BY <1>t, <1>n DEF TaskOK, NextPiece, Smaller
      <4>2. /\ task'.pos = task.pos + n /\ task'.piece = task.piece
            /\ task'.at \in {"chunk", "piece"}
            /\ task.at = "piece" /\ UNCHANGED <<copy, payload>>
        BY <1>t, <2>7, <3>2 DEF TaskOK, GetPiece, Kept
      <4>3. CASE ~heard.head
        BY <3>2, <4>2, <4>3 DEF Hear, TransferInv, Prefix
      <4>4. CASE heard.head
        <5>1. /\ Len(heard.units) = task.pos /\ task.piece <= payload
              /\ \A i \in 1..task.pos : heard.units[i] = i
          BY <4>2, <4>4 DEF TransferInv, Prefix, Streaming
        <5>2. Smaller(n, payload) = n
          BY <1>t, <1>n, <4>1, <5>1 DEF Smaller, TaskOK
        <5>3. heard' = [heard EXCEPT !.units = heard.units \o new]
          BY <3>2, <4>4, <5>2 DEF Hear
        <5> HIDE DEF n
        <5>4. new \in Seq(Nat) /\ Len(new) = n /\ \A i \in 1..n : new[i] = task.pos + i
          BY <4>1
        <5>5. heard.units \in Seq(Nat)
          BY <1>t, <1>n DEF Hearing
        <5> HIDE DEF new
        <5>6. /\ Len(heard.units \o new) = task.pos + n
              /\ \A i \in 1..(task.pos + n) : (heard.units \o new)[i] =
                    IF i <= task.pos THEN heard.units[i] ELSE new[i - task.pos]
          <6>1. /\ Len(heard.units \o new) = Len(heard.units) + Len(new)
                /\ \A i \in 1..(Len(heard.units) + Len(new)) : (heard.units \o new)[i] =
                      IF i <= Len(heard.units) THEN heard.units[i] ELSE new[i - Len(heard.units)]
            BY <5>4, <5>5, ConcatProperties
          <6>2. QED
            BY <5>1, <5>4, <6>1
        <5>7. \A i \in 1..(task.pos + n) : (heard.units \o new)[i] = i
          BY <4>1, <5>1, <5>4, <5>6
        <5>8. heard'.units = heard.units \o new /\ heard'.head
          BY <1>t, <4>4, <5>3 DEF Hearing
        <5>9. Prefix(heard'.units) /\ Len(heard'.units) = task'.pos
          BY <4>2, <5>6, <5>7, <5>8 DEF Prefix
        <5>10. task'.piece <= payload'
          BY <4>2, <5>1
        <5>11. copy' = <<>> \/ (Prefix(copy') /\ Len(copy') = FileUnits)
          BY <4>2 DEF TransferInv, Prefix
        <5>12. QED
          BY <4>2, <5>8, <5>9, <5>10, <5>11 DEF TransferInv
      <4>5. QED
        BY <1>t, <4>3, <4>4 DEF Hearing
    <3>3. QED
      BY <2>7, <3>1, <3>2 DEF GetPiece
  <2>8. CASE GetEnd
    <3>1. task.at = "chunk" /\ task.pos = FileUnits /\ task'.at = "receive"
      BY <2>8 DEF GetEnd, Idle
    <3>2. CASE UNCHANGED phone
      BY <3>1, <3>2, TransferOver DEF phone, Streaming
    <3>3. CASE heard' = NoFile /\ copy' = IF heard.head THEN heard.units ELSE copy
      <4>1. heard.head => Prefix(heard.units) /\ Len(heard.units) = FileUnits
        BY <3>1 DEF TransferInv, Streaming
      <4>2. copy' = <<>> \/ (Prefix(copy') /\ Len(copy') = FileUnits)
        BY <3>3, <4>1 DEF TransferInv
      <4>3. ~heard'.head /\ heard'.units = <<>> /\ Prefix(heard'.units)
        BY <3>3 DEF NoFile, Prefix
      <4>4. QED
        BY <3>1, <4>2, <4>3 DEF TransferInv
    <3>4. QED
      BY <2>8, <3>2, <3>3 DEF GetEnd
  <2>9. QED
    BY <1>3, <2>0, <2>1, <2>2, <2>3, <2>4, <2>5, <2>6, <2>7, <2>8 DEF TaskStep, Waits
<1>4. CASE CanStep /\ Beside
  BY <1>1, <1>4 DEF Beside, link, phone
<1>5. CASE UNCHANGED vars
  BY <1>1, <1>5 DEF vars, link, phone
<1>6. QED
  BY <1>2, <1>3, <1>4, <1>5 DEF LinkNext

\* "Phone discards incomplete session" (ble_nus.c:270): what a phone received between
\* the header and END on one connection is the whole session in order, whatever
\* the sizes, and however often connections are replaced and MTUs agreed on.
THEOREM CopyIsSession == LinkSpec => []CopyWhole
<1>1. TypeInv /\ TransferInv => CopyWhole
  <2> SUFFICES ASSUME TypeInv, TransferInv, copy # <<>>
               PROVE  copy = [i \in 1..FileUnits |-> i]
    BY DEF CopyWhole
  <2>1. copy \in Seq(1..FileUnits) /\ Len(copy) = FileUnits
    BY DEF TypeInv, LinkTypeOK, TransferInv
  <2>2. \A i \in 1..FileUnits : copy[i] = i
    BY <2>1 DEF TransferInv, Prefix
  <2>3. copy = [i \in 1..Len(copy) |-> copy[i]]
    BY <2>1
  <2>4. QED
    BY <2>1, <2>2, <2>3
<1>2. TypeInv /\ TransferInv /\ [LinkNext]_vars => TransferInv'
  BY StepTransfer
<1>3. QED
  BY <1>1, <1>2, InitTransfer, TypeAlways, PTL DEF LinkSpec

-----------------------------------------------------------------------------
(* Modes.                                                                  *)

LEMMA InitMode == LinkInit => ModeInv
BY DEF LinkInit, ModeInv, Idle, Testing, Commands

\* A step of the task to a place outside the test, with the mode as it is.
LEMMA ModeKept ==
    ASSUME ModeInv, UNCHANGED <<since, late, torn, conn, claimed, leftover>>,
           task'.at \notin Testing,
           cmds' # <<>> \/ task'.at \in Commands => cmds # <<>> \/ task.at \in Commands
    PROVE  ModeInv'
BY DEF ModeInv, Testing

LEMMA StepMode == TypeInv /\ ModeInv /\ [LinkNext]_vars => ModeInv'
<1> SUFFICES ASSUME TypeInv, ModeInv, [LinkNext]_vars PROVE ModeInv'
  OBVIOUS
<1>t. TaskOK(task) /\ cmds \in Seq(Commands) /\ links \in Nat
  BY DEF TypeInv, LinkTypeOK
<1>1. CASE UNCHANGED <<task, mode, since, late, torn, cmds, conn, claimed, leftover>>
  BY <1>1 DEF ModeInv
<1>2. CASE HostStep
  <2>1. CASE Connect
    <3>1. /\ task' = task /\ torn' = (torn \/ task.at \in Testing) /\ cmds' = cmds
          /\ leftover' = (cmds # <<>> \/ task.at \in Commands)
      BY <2>1 DEF Connect
    <3>2. conn = 0 /\ conn' # 0 /\ (mode # "web" => mode' # "web")
      BY <1>t, <2>1 DEF Connect, Unless
    <3>3. QED
      BY <3>1, <3>2 DEF ModeInv, Testing
  <2>2. CASE Disconnect
    <3>1. /\ torn' = (task.at \in Testing) /\ task' = task /\ conn' = 0
          /\ ~since' /\ ~late' /\ (mode # "web" => mode' # "web")
      BY <2>2 DEF Disconnect, Unless, NoTimer
    <3>2. QED
      BY <3>1 DEF ModeInv, Testing
  <2>3. CASE MtuAgreed \/ WriteSpeed
    BY <1>1, <2>3 DEF MtuAgreed, WriteSpeed, vars, link, history
  <2>4. CASE ThreeSeconds
    <3>1. /\ late' /\ UNCHANGED <<task, mode, since, cmds, conn, torn, claimed, leftover>>
          /\ since
      BY <2>4 DEF ThreeSeconds, history
    <3>2. QED
      BY <3>1 DEF ModeInv
  <2>5. ASSUME NEW cmd \in Sends[signal], Write(cmd) PROVE ModeInv'
    <3>1. claimed' /\ UNCHANGED <<task, mode, since, late, conn, torn>>
      BY <2>5 DEF Write, link
    <3>2. QED
      BY <3>1 DEF ModeInv
  <2>6. QED
    BY <1>2, <2>1, <2>2, <2>3, <2>4, <2>5 DEF HostStep
<1>3. CASE TaskStep
  <2>0. UNCHANGED <<since, late, torn, conn, claimed, leftover>>
    BY <1>3, TaskKept DEF Kept, history
  <2>1. CASE Receive
    <3>1. task'.at \in Commands /\ cmds # <<>>
      BY <1>t, <2>1, TailFits DEF Receive, Idle
    <3>2. QED
      BY <2>0, <3>1, ModeKept DEF Commands, Testing
  <2>2. CASE Dispatch
    <3>1. task'.at \in {"header", "rotate", "answer"} /\ cmds' = cmds
      BY <2>2 DEF Dispatch, Idle
    <3>2. QED
      BY <2>0, <3>1, ModeKept DEF Commands, Testing
  <2>3. CASE ReadNow
    <3>1. /\ task'.at = "timed" /\ task'.link = conn /\ task'.due = late
          /\ UNCHANGED <<cmds, mode>> /\ mode = "detecting"
      BY <1>t, <2>3 DEF ReadNow, TaskOK
    <3>2. QED
      BY <2>0, <3>1 DEF ModeInv, Testing, Commands
  <2>4. CASE TestStarted
    <3>1. task.at = "timed" /\ UNCHANGED <<cmds, mode>>
      BY <2>4 DEF TestStarted
    <3>2. CASE task' = Idle
      BY <2>0, <3>1, <3>2, ModeKept DEF Idle, Commands, Testing
    <3>3. CASE since /\ Goto("started")
      <4>1. /\ task'.at = "started" /\ task'.link = task.link /\ task'.due = task.due
        BY <1>t, <3>3 DEF Goto, TaskOK
      <4>2. QED
        BY <2>0, <3>1, <3>3, <4>1 DEF ModeInv, Testing, Commands
    <3>4. QED
      BY <2>4, <3>2, <3>3 DEF TestStarted
  <2>5. CASE TestConnectTime
    <3>1. task.at = "started" /\ UNCHANGED <<cmds, mode>>
      BY <2>5 DEF TestConnectTime
    <3>2. PICK passed \in Elapsed : IF passed THEN Goto("speedo") ELSE task' = Idle
      BY <2>5 DEF TestConnectTime
    <3>3. CASE task' = Idle
      BY <2>0, <3>1, <3>3, ModeKept DEF Idle, Commands, Testing
    <3>4. CASE passed /\ Goto("speedo")
      <4>1. /\ task'.at = "speedo" /\ task'.link = task.link /\ task'.due = task.due
        BY <1>t, <3>4 DEF Goto, TaskOK
      <4>2. ~torn => conn # 0 /\ conn = task.link /\ (task.due => late)
        BY <3>1 DEF ModeInv, Testing
      <4>3. ~torn => passed = task.due
        BY <3>2, <4>2 DEF Elapsed
      <4>4. late \/ torn
        BY <3>4, <4>2, <4>3
      <4>5. QED
        BY <2>0, <3>1, <4>1, <4>2, <4>4 DEF ModeInv, Testing, Commands
    <3>5. QED
      <4>1. passed \in BOOLEAN
        BY <1>t DEF Elapsed, TaskOK
      <4>2. QED
        BY <3>2, <3>3, <3>4, <4>1
  <2>6. CASE \/ Rotate \/ Answer \/ GetHeader \/ GetSize \/ GetChunk \/ GetPiece \/ GetEnd
             \/ Quiet \/ EnterSpeedo \/ OtherMode \/ Heartbeat \/ StartStream \/ StreamLine \/ StreamRest
    <3>1. cmds' = cmds
      BY <2>6 DEF Rotate, Answer, GetHeader, GetSize, GetChunk, GetPiece, GetEnd, Quiet,
                  EnterSpeedo, OtherMode, Heartbeat, StartStream, StreamLine, StreamRest
    <3>2. task' = Idle \/ task'.at \in {"answer", "size", "chunk", "piece", "connected", "mode", "stream"}
      <4>1. CASE Rotate \/ Answer \/ GetHeader \/ GetSize \/ GetChunk
        BY <1>t, <4>1 DEF Rotate, Answer, GetHeader, GetSize, GetChunk, Goto, TaskOK
      <4>2. CASE GetPiece
        BY <1>t, <4>2 DEF GetPiece, TaskOK
      <4>3. CASE Quiet \/ OtherMode \/ StartStream
        BY <1>t, <4>3 DEF Quiet, OtherMode, StartStream, Goto, TaskOK
      <4>4. CASE GetEnd \/ EnterSpeedo \/ Heartbeat \/ StreamRest
        BY <4>4 DEF GetEnd, EnterSpeedo, Heartbeat, StreamRest
      <4>5. CASE StreamLine
        BY <1>t, <4>5 DEF StreamLine, TaskOK
      <4>6. QED
        BY <2>6, <4>1, <4>2, <4>3, <4>4, <4>5
    <3>3. task'.at \notin Testing /\ task'.at \notin Commands
      BY <3>2 DEF Idle, Testing, Commands
    <3>4. QED
      BY <2>0, <3>1, <3>3, ModeKept
  <2>7. QED
    BY <1>3, <2>1, <2>2, <2>3, <2>4, <2>5, <2>6 DEF TaskStep
<1>4. CASE CanStep /\ Beside
  BY <1>1, <1>4 DEF Beside, link, history
<1>5. CASE UNCHANGED vars
  BY <1>1, <1>5 DEF vars, link, history
<1>6. QED
  BY <1>2, <1>3, <1>4, <1>5 DEF LinkNext

\* The mode changes only when the firmware says (ble_nus.c:569-600, 720-735): speedo
\* comes after three seconds of the connection, as long as none ends or begins between
\* the reading of the time and the switch; what else the host task does in between,
\* and wherever a connection ends or begins otherwise, does no harm.
THEOREM ModesEarned == LinkSpec => ModeEarned
<1>1. ASSUME TypeInv, ModeInv, [LinkNext]_vars
      PROVE  [/\ mode' = "web" <=> mode = "web"
              /\ mode' = "speedo" /\ mode # "speedo" => late \/ torn
              /\ mode' = "telematics" /\ mode # "telematics" => conn = 0 \/ claimed \/ leftover
              /\ conn' # conn => mode' \in {"detecting", "web"}]_vars
  <2>1. CASE UNCHANGED <<mode, conn>>
    BY <2>1
  <2>2. CASE Connect
    BY <2>2 DEF Connect, Unless
  <2>3. CASE Disconnect
    BY <2>3 DEF Disconnect, Unless
  <2>4. CASE Dispatch
    <3>1. task.at \in Commands
      BY <2>4 DEF Dispatch
    <3>2. conn = 0 \/ claimed \/ leftover
      BY <1>1, <3>1 DEF ModeInv
    <3>3. conn' = conn /\ mode' = IF mode = "web" THEN "web" ELSE "telematics"
      BY <2>4 DEF Dispatch, Kept, Unless
    <3>4. QED
      BY <3>2, <3>3
  <2>5. CASE EnterSpeedo
    <3>1. conn' = conn /\ mode' = "speedo" /\ task.at = "speedo"
      BY <2>5 DEF EnterSpeedo, Kept
    <3>2. mode # "web" /\ (late \/ torn)
      BY <1>1, <3>1 DEF ModeInv, Testing
    <3>3. QED
      BY <3>1, <3>2
  <2>6. CASE HostStep
    <3>1. ASSUME NEW cmd \in Sends[signal], Write(cmd) PROVE UNCHANGED <<mode, conn>>
      BY <3>1 DEF Write, link
    <3>2. CASE MtuAgreed \/ WriteSpeed \/ ThreeSeconds
      BY <2>1, <3>2 DEF MtuAgreed, WriteSpeed, ThreeSeconds, vars, link
    <3>3. QED
      BY <2>1, <2>2, <2>3, <2>6, <3>1, <3>2 DEF HostStep
  <2>7. CASE TaskStep
    <3>1. CASE \/ Receive \/ Rotate \/ Answer \/ GetHeader \/ GetSize \/ GetChunk \/ GetPiece
               \/ GetEnd \/ Quiet \/ ReadNow \/ TestStarted \/ TestConnectTime
               \/ OtherMode \/ Heartbeat
               \/ StartStream \/ StreamLine \/ StreamRest
      BY <2>1, <3>1 DEF Receive, Rotate, Answer, GetHeader, GetSize, GetChunk, GetPiece,
                        GetEnd, Quiet, ReadNow, TestStarted, TestConnectTime, OtherMode, Heartbeat,
                        StartStream, StreamLine, StreamRest, Kept
    <3>2. QED
      BY <2>4, <2>5, <2>7, <3>1 DEF TaskStep
  <2>8. CASE CanStep /\ Beside
    BY <2>1, <2>8 DEF Beside, link
  <2>9. QED
    BY <1>1, <2>6, <2>7, <2>8 DEF LinkNext
<1>2. TypeInv /\ ModeInv /\ [LinkNext]_vars => ModeInv'
  BY StepMode
<1>3. QED
  BY <1>1, <1>2, InitMode, TypeAlways, PTL DEF LinkSpec, ModeEarned

-----------------------------------------------------------------------------
(* Commands.                                                               *)

\* No more connections in a behaviour than commands fit the queue.
FewLinks == \A f \in Signals : MaxLinks[f] <= CmdDepth

LEMMA InitQueue == LinkInit => QueueInv
BY DEF LinkInit, QueueInv, Pending, Idle, Answering, Commands, Streaming

\* A step that neither answers nor queues.
LEMMA QueueKept ==
    ASSUME QueueInv, UNCHANGED <<cmds, conn, owed, links, lost>>,
           task'.at \in Answering <=> task.at \in Answering
    PROVE  QueueInv'
BY DEF QueueInv, Pending

\* A step that ends a command, with its answer or without.
LEMMA QueueAnswered ==
    ASSUME TypeInv, QueueInv, UNCHANGED <<cmds, conn, links, lost>>,
           task.at \in Answering, task'.at \notin Answering
    PROVE  QueueInv'
<1>1. Len(cmds) \in Nat /\ links \in Nat /\ Pending = Len(cmds) + 1 /\ Pending' = Len(cmds)
  BY DEF TypeInv, LinkTypeOK, Pending
<1>2. ~lost' /\ Len(cmds) + 1 <= links
  BY <1>1 DEF QueueInv
<1>3. QED
  BY <1>1, <1>2 DEF QueueInv

LEMMA StepQueue ==
    ASSUME FewLinks
    PROVE  TypeInv /\ QueueInv /\ [LinkNext]_vars => QueueInv'
<1> SUFFICES ASSUME TypeInv, QueueInv, [LinkNext]_vars PROVE QueueInv'
  OBVIOUS
<1>t. /\ TaskOK(task) /\ cmds \in Seq(Commands) /\ Len(cmds) \in Nat /\ links \in Nat
      /\ links <= CmdDepth /\ CmdDepth \in Nat /\ conn \in {0, links}
  <2>1. signal \in Signals /\ links \in 0..MaxLinks[signal] /\ MaxLinks[signal] \in Nat
    BY LinkAssumption DEF TypeInv, LinkTypeOK, CanTypeOK, LinkAssumption
  <2>2. QED
    BY <2>1, LinkAssumption DEF TypeInv, LinkTypeOK, LinkAssumption, FewLinks
<1>p. Pending \in Nat
  BY <1>t DEF Pending
<1>1. CASE UNCHANGED <<task, cmds, conn, owed, links, lost>>
  BY <1>1, QueueKept
<1>2. CASE HostStep
  <2>1. CASE Connect
    <3>1. /\ conn = 0 /\ links' = links + 1 /\ owed' = FALSE /\ Pending' = Pending /\ lost' = lost
      BY <2>1 DEF Connect, Pending
    <3>2. ~lost /\ Pending <= links
      BY <1>p, <1>t, <3>1 DEF QueueInv
    <3>3. QED
      BY <1>p, <1>t, <3>1, <3>2 DEF QueueInv
  <2>2. CASE Disconnect
    <3>1. conn' = 0 /\ UNCHANGED <<links, lost, cmds, task>>
      BY <2>2 DEF Disconnect
    <3>2. Pending' = Pending
      BY <3>1 DEF Pending
    <3>3. Pending <= links /\ ~lost
      BY <1>p, <1>t DEF QueueInv
    <3>4. Pending' + (IF conn' # 0 /\ ~owed' THEN 1 ELSE 0) = Pending
      BY <1>p, <3>1, <3>2
    <3>5. QED
      BY <3>1, <3>3, <3>4 DEF QueueInv
  <2>3. CASE MtuAgreed \/ WriteSpeed \/ ThreeSeconds
    BY <1>1, <2>3 DEF MtuAgreed, WriteSpeed, ThreeSeconds, vars, link, history, phone
  <2>4. ASSUME NEW cmd \in Sends[signal], Write(cmd) PROVE QueueInv'
    <3>1. /\ conn # 0 /\ ~owed /\ owed' /\ UNCHANGED <<task, conn, links>>
          /\ cmds' = Posted(cmds, cmd, CmdDepth) /\ lost' = (lost \/ Len(cmds) = CmdDepth)
      BY <2>4 DEF Write, Enqueue, link
    <3>2. ~lost /\ Pending + 1 <= links
      BY <3>1 DEF QueueInv
    <3>3. Len(cmds) <= Pending
      BY <1>t DEF Pending
    <3>4. Len(cmds) < CmdDepth
      BY <1>t, <1>p, <3>2, <3>3
    <3>5. ~lost'
      <4>1. Len(cmds) # CmdDepth
        BY <1>t, <3>4
      <4>2. ~lost /\ lost' = (lost \/ Len(cmds) = CmdDepth)
        BY <3>1, <3>2
      <4>3. QED
        BY <4>1, <4>2
    <3>6. Len(cmds') = Len(cmds) + 1
      BY <1>t, <3>1, <3>4 DEF Posted
    <3>7. Pending' = Pending + 1
      BY <1>t, <3>1, <3>6 DEF Pending
    <3>8. QED
      BY <1>p, <1>t, <3>1, <3>2, <3>5, <3>7 DEF QueueInv
  <2>5. QED
    BY <1>2, <2>1, <2>2, <2>3, <2>4 DEF HostStep
<1>3. CASE TaskStep
  <2>0. CASE Receive
    <3>1. /\ cmds # <<>> /\ cmds' = Tail(cmds) /\ task.at = "receive"
          /\ UNCHANGED <<conn, owed, links, lost>>
      BY <2>0 DEF Receive, Kept, phone, history
    <3>2. task'.at \in Commands
      BY <1>t, <2>0, TailFits DEF Receive, Idle
    <3>3. Len(cmds') = Len(cmds) - 1
      BY <1>t, <3>1, TailFits
    <3>4. Pending' = Pending
      BY <1>t, <3>1, <3>2, <3>3 DEF Pending, Answering, Streaming, Commands
    <3>5. QED
      BY <3>1, <3>4 DEF QueueInv
  <2>1. CASE Dispatch
    <3>1. UNCHANGED <<cmds, conn, owed, links, lost>> /\ task.at \in Commands
      BY <2>1 DEF Dispatch, Kept, phone, history
    <3>2. task'.at \in {"header", "rotate", "answer"}
      BY <2>1 DEF Dispatch, Idle
    <3>3. QED
      BY <3>1, <3>2, QueueKept DEF Answering
  <2>2. CASE Rotate \/ GetSize
    <3>1. UNCHANGED <<cmds, conn, owed, links, lost>>
      BY <2>2 DEF Rotate, GetSize, Kept, phone, history
    <3>2. task.at \in {"rotate", "size"} /\ task'.at \in {"answer", "chunk"}
      BY <1>t, <2>2 DEF Rotate, GetSize, Goto, TaskOK
    <3>3. QED
      BY <3>1, <3>2, QueueKept DEF Answering, Commands, Streaming
  <2>3. CASE Answer \/ GetEnd
    <3>1. UNCHANGED <<cmds, conn, links, lost>>
      BY <2>3 DEF Answer, GetEnd, Kept, history
    <3>2. task.at \in Answering /\ task'.at \notin Answering
      BY <2>3 DEF Answer, GetEnd, Idle, Answering, Commands, Streaming
    <3>3. QED
      BY <3>1, <3>2, QueueAnswered
  <2>4. CASE GetHeader \/ GetChunk \/ GetPiece
    <3>1. UNCHANGED <<cmds, conn, owed, links, lost>> /\ task.at \in Answering
      BY <2>4 DEF GetHeader, GetChunk, GetPiece, Kept, phone, history, Answering, Streaming
    <3>2. task' = Idle \/ task'.at \in {"size", "chunk", "piece"}
      <4>1. CASE GetHeader
        BY <1>t, <4>1 DEF GetHeader, Goto, TaskOK
      <4>2. CASE GetChunk
        BY <1>t, <4>2 DEF GetChunk, TaskOK
      <4>3. CASE GetPiece
        BY <1>t, <4>3 DEF GetPiece, TaskOK
      <4>4. QED
        BY <2>4, <4>1, <4>2, <4>3
    <3>3. CASE task' = Idle
      <4>1. task'.at \notin Answering
        BY <3>3 DEF Idle, Answering, Commands, Streaming
      <4>2. QED
        BY <3>1, <4>1, QueueAnswered
    <3>4. CASE task'.at \in {"size", "chunk", "piece"}
      <4>1. task'.at \in Answering
        BY <3>4 DEF Answering, Streaming
      <4>2. QED
        BY <3>1, <4>1, QueueKept
    <3>5. QED
      BY <3>2, <3>3, <3>4
  <2>5. CASE Waits \/ StreamLine
    <3>1. UNCHANGED <<cmds, conn, owed, links, lost>>
      BY <2>5 DEF Waits, Quiet, ReadNow, TestStarted, TestConnectTime, EnterSpeedo,
                  OtherMode, Heartbeat, StartStream, StreamLine, StreamRest, Kept, phone, history
    <3>2. /\ task.at \in {"receive", "connected", "mode", "stream"} \cup Testing
          /\ task'.at \in {"receive", "connected", "mode", "stream"} \cup Testing
      <4>1. CASE StreamLine
        BY <1>t, <4>1 DEF StreamLine, TaskOK, Idle
      <4>2. QED
        BY <1>t, <2>5, <4>1, WaitsPlace
    <3>3. task.at \notin Answering /\ task'.at \notin Answering
      BY <3>2 DEF Answering, Commands, Streaming, Testing
    <3>4. QED
      BY <3>1, <3>3, QueueKept
  <2>6. QED
    BY <1>3, <2>0, <2>1, <2>2, <2>3, <2>4, <2>5 DEF TaskStep, Waits
<1>4. CASE CanStep /\ Beside
  BY <1>1, <1>4 DEF Beside, link, phone, history
<1>5. CASE UNCHANGED vars
  BY <1>1, <1>5 DEF vars, link, phone, history
<1>6. QED
  BY <1>2, <1>3, <1>4, <1>5 DEF LinkNext

\* "Anything that reaches the queue must survive" (ble_nus.c:504): each connection
\* leaves at most one command unanswered, so a queue of CMD_QUEUE_DEPTH drops
\* none while the phone reconnects no oftener than that.
THEOREM CommandsKept ==
    ASSUME FewLinks
    PROVE  LinkSpec => []CommandsSurvive
<1>1. QueueInv => CommandsSurvive
  BY DEF QueueInv, CommandsSurvive
<1>2. TypeInv /\ QueueInv /\ [LinkNext]_vars => QueueInv'
  BY StepQueue
<1>3. QED
  BY <1>1, <1>2, InitQueue, TypeAlways, PTL DEF LinkSpec

-----------------------------------------------------------------------------
(* What a frame leaves in the record.                                      *)

\* A frame taken leaves in the field of the record what its decoder is for
\* (can_handler.c:101-237), a frame that is too short for its decoder and every other
\* step leave the field as it was: whatever frame is on the bus.
THEOREM FieldRight == LinkSpec => DecodedRight
<1>1. ASSUME TypeInv, [LinkNext]_vars
      PROVE  [IF TakeFrame /\ Decoded(signal) THEN Means(signal, field') ELSE field' = field]_vars
  <2>1. CASE TakeFrame
    <3>1. signal \in Signals /\ field' = Decode(field, signal)
      BY <1>1, <2>1 DEF TypeInv, LinkTypeOK, CanTypeOK, TakeFrame
    <3>2. signal.dlc \in 0..8 /\ Holds(signal)
      BY <3>1, CanAssumption DEF CanAssumption
    <3>3. CASE Decoded(signal)
      <4>1. field' = Value(signal) /\ Means(signal, Value(signal))
        BY <3>1, <3>2, <3>3, DecodersRight DEF Decode
      <4>2. QED
        BY <2>1, <3>3, <4>1
    <3>4. CASE ~Decoded(signal)
      BY <3>1, <3>4 DEF Decode
    <3>5. QED
      BY <3>3, <3>4
  <2>2. CASE ~TakeFrame /\ field' = field
    BY <2>2
  <2>3. CASE ~TakeFrame /\ HostStep
    BY <2>2, <2>3 DEF HostStep, Connect, Disconnect, MtuAgreed, Write, WriteSpeed,
                      ThreeSeconds, vars, canVars
  <2>4. CASE ~TakeFrame /\ TaskStep
    BY <2>2, <2>4 DEF TaskStep, Receive, Dispatch, Rotate, Answer, GetHeader, GetSize,
                      GetChunk, GetPiece, GetEnd, Quiet, ReadNow, TestStarted,
                      TestConnectTime, EnterSpeedo, OtherMode, Heartbeat, StartStream, StreamLine,
                      StreamRest, canVars
  <2>5. CASE ~TakeFrame /\ CanStep /\ Beside
    BY <2>2, <2>5 DEF CanStep, CanTask, FrameArrives, ReadMode, PostLive, PostLog
  <2>6. QED
    BY <1>1, <2>1, <2>3, <2>4, <2>5 DEF LinkNext
<1>2. QED
  BY <1>1, TypeAlways, PTL DEF LinkSpec, DecodedRight

-----------------------------------------------------------------------------
(* The frames waiting to be streamed.                                      *)

LEMMA InitStream == LinkInit => StreamInv
BY DEF LinkInit, CanInit, StreamInv, OldLive, OldPost, Waiting

\* What the switch of the task leaves alone.
LEMMA TaskStream ==
    ASSUME TypeInv, StreamInv, UNCHANGED <<rx, can, conn, late, torn>>,
           mode' = "speedo" => mode = "speedo" \/ late \/ torn,
           live' = live \/ (live # <<>> /\ live' = Tail(live))
    PROVE  StreamInv'
<1>1. CASE live' = live
  BY <1>1 DEF StreamInv, OldLive, OldPost
<1>2. CASE live # <<>> /\ live' = Tail(live)
  <2>1. live \in Seq(Nat)
    BY DEF TypeInv, LinkTypeOK, CanTypeOK
  <2>2. /\ DOMAIN live' = 1..(Len(live) - 1) /\ DOMAIN live = 1..Len(live)
        /\ Len(live) \in Nat /\ \A i \in DOMAIN live' : live'[i] = live[i + 1]
    BY <1>2, <2>1
  <2>3. \A i \in OldLive' : i \in Nat /\ i + 1 \in OldLive
    BY <2>2 DEF OldLive
  <2>4. ~torn => (\A i, j \in OldLive' : i = j) /\ (OldPost' => OldLive' = {})
    BY <2>3 DEF StreamInv, OldPost
  <2>5. QED
    BY <2>4 DEF StreamInv
<1>3. QED
  BY <1>1, <1>2

LEMMA StepStream == TypeInv /\ ModeInv /\ StreamInv /\ [LinkNext]_vars => StreamInv'
<1> SUFFICES ASSUME TypeInv, ModeInv, StreamInv, [LinkNext]_vars PROVE StreamInv'
  OBVIOUS
<1>t. /\ rx \in Seq(Nat) /\ live \in Seq(Nat) /\ conn \in Nat /\ links \in Nat
      /\ can \in [at : {"receive", "stream", "post_live", "post_log"}, link : Nat]
  BY DEF TypeInv, LinkTypeOK, CanTypeOK
<1>1. CASE UNCHANGED <<rx, can, conn, late, torn, mode, live>>
  BY <1>1 DEF StreamInv, OldLive, OldPost
<1>2. CASE HostStep
  <2>1. CASE Connect
    <3>1. /\ conn = 0 /\ late' = FALSE /\ UNCHANGED <<rx, can, live>>
          /\ (torn => torn') /\ mode' \in {"detecting", "web"}
      BY <2>1 DEF Connect, StartTimer, Unless, canVars
    <3>2. OldLive' \subseteq OldLive /\ (OldPost' => OldPost)
      BY <3>1 DEF OldLive, OldPost
    <3>3. QED
      BY <3>1, <3>2 DEF StreamInv
  <2>2. CASE Disconnect
    <3>1. live' = <<>> /\ late' = FALSE /\ mode' \in {"detecting", "web"}
      BY <2>2 DEF Disconnect, NoTimer, DrainLive, Unless
    <3>2. OldLive' = {}
      BY <3>1 DEF OldLive
    <3>3. QED
      BY <3>1, <3>2 DEF StreamInv
  <2>3. CASE MtuAgreed \/ WriteSpeed
    BY <1>1, <2>3 DEF MtuAgreed, WriteSpeed, vars, canVars, link, history
  <2>4. CASE ThreeSeconds
    BY <2>4 DEF ThreeSeconds, StreamInv, OldLive, OldPost, canVars, history
  <2>5. ASSUME NEW cmd \in Sends[signal], Write(cmd) PROVE StreamInv'
    BY <1>1, <2>5 DEF Write, link, canVars
  <2>6. QED
    BY <1>2, <2>1, <2>2, <2>3, <2>4, <2>5 DEF HostStep
<1>3. CASE TaskStep
  <2>1. UNCHANGED <<rx, can, conn, late, torn>>
    BY <1>3 DEF TaskStep, Receive, Dispatch, Rotate, Answer, GetHeader, GetSize, GetChunk,
       GetPiece, GetEnd, Quiet, ReadNow, TestStarted, TestConnectTime, EnterSpeedo, OtherMode, Heartbeat,
       StartStream, StreamLine, StreamRest, Kept,
       canVars, history
  <2>2. mode' = "speedo" => mode = "speedo" \/ late \/ torn
    BY <1>3 DEF TaskStep, Receive, Dispatch, Rotate, Answer, GetHeader, GetSize, GetChunk,
       GetPiece, GetEnd, Quiet, ReadNow, TestStarted, TestConnectTime, EnterSpeedo, OtherMode, Heartbeat,
       StartStream, StreamLine, StreamRest, Unless, ModeInv, Testing
  <2>3. live' = live \/ (live # <<>> /\ live' = Tail(live))
    BY <1>3 DEF TaskStep, Receive, Dispatch, Rotate, Answer, GetHeader, GetSize, GetChunk,
       GetPiece, GetEnd, Quiet, ReadNow, TestStarted, TestConnectTime, EnterSpeedo, OtherMode, Heartbeat,
       StartStream, StreamLine, StreamRest, canVars
  <2>4. QED
    BY <2>1, <2>2, <2>3, TaskStream
<1>4. CASE CanStep /\ Beside
  <2>0. UNCHANGED <<conn, late, torn, mode>>
    BY <1>4 DEF Beside, link, history
  <2>1. CASE FrameArrives
    <3>1. live' = live /\ can' = can /\ rx' \in {rx, Append(rx, conn)}
      BY <2>1 DEF FrameArrives, Posted
    <3>2. (\A i \in DOMAIN rx : rx[i] = conn) => \A i \in DOMAIN rx' : rx'[i] = conn
      <4>1. CASE rx' = rx
        BY <4>1
      <4>2. CASE rx' = Append(rx, conn)
        <5>1. /\ DOMAIN rx = 1..Len(rx) /\ Len(rx) \in Nat
              /\ DOMAIN rx' = 1..(Len(rx) + 1)
              /\ \A i \in DOMAIN rx : rx'[i] = rx[i]
              /\ rx'[Len(rx) + 1] = conn
          BY <1>t, <4>2
        <5>2. QED
          BY <5>1
      <4>3. QED
        BY <3>1, <4>1, <4>2
    <3>3. QED
      BY <2>0, <3>1, <3>2 DEF StreamInv, OldLive, OldPost
  <2>2. CASE TakeFrame
    <3>1. /\ rx # <<>> /\ rx' = Tail(rx) /\ live' = live
          /\ can' = [at |-> "stream", link |-> Head(rx)]
      BY <2>2 DEF TakeFrame
    <3>2. (\A i \in DOMAIN rx : rx[i] = conn)
            => (\A i \in DOMAIN rx' : rx'[i] = conn) /\ can'.link = conn
      BY <1>t, <3>1
    <3>3. QED
      BY <2>0, <3>1, <3>2 DEF StreamInv, OldLive, OldPost
  <2>3. CASE ReadMode
    <3>1. /\ rx' = rx /\ live' = live /\ can'.link = can.link /\ can.at = "stream"
          /\ can'.at = IF mode = "speedo" THEN "post_live" ELSE "post_log"
      BY <1>t, <2>3 DEF ReadMode
    <3>2. ~torn => ~OldPost'
      BY <2>0, <3>1 DEF StreamInv, OldPost, ModeInv
    <3>3. QED
      BY <2>0, <3>1, <3>2 DEF StreamInv, OldLive
  <2>4. CASE PostLive
    <3>1. /\ rx' = rx /\ live' \in {live, Append(live, can.link)} /\ can.at = "post_live"
          /\ can'.link = can.link /\ can'.at = "post_log"
      BY <1>t, <2>4 DEF PostLive, Posted
    <3>2. OldLive' \subseteq OldLive \cup (IF OldPost THEN {Len(live) + 1} ELSE {})
      <4>1. CASE live' = live
        BY <2>0, <4>1 DEF OldLive
      <4>2. CASE live' = Append(live, can.link)
        <5>1. /\ DOMAIN live = 1..Len(live) /\ Len(live) \in Nat
              /\ DOMAIN live' = 1..(Len(live) + 1)
              /\ \A i \in DOMAIN live : live'[i] = live[i]
              /\ live'[Len(live) + 1] = can.link
          BY <1>t, <4>2
        <5>2. QED
          BY <2>0, <3>1, <5>1 DEF OldLive, OldPost
      <4>3. QED
        BY <3>1, <4>1, <4>2
    <3>3. ~OldPost'
      BY <3>1 DEF OldPost
    <3>4. ~torn => \A i, j \in OldLive' : i = j
      BY <3>2 DEF StreamInv
    <3>5. QED
      BY <2>0, <3>1, <3>3, <3>4 DEF StreamInv
  <2>5. CASE PostLog
    BY <2>0, <2>5 DEF PostLog, StreamInv, OldLive, OldPost, Waiting
  <2>6. QED
    BY <1>4, <2>1, <2>2, <2>3, <2>4, <2>5 DEF CanStep, CanTask
<1>5. CASE UNCHANGED vars
  BY <1>1, <1>5 DEF vars, canVars, link, history
<1>6. QED
  BY <1>2, <1>3, <1>4, <1>5 DEF LinkNext

\* DISCONNECT drains the live queue (ble_nus.c:598-601): one frame of before is
\* all that a connection is streamed, however deep the queues and however often
\* the phone reconnects.
THEOREM StreamFresh == LinkSpec => []FreshStream
<1>1. StreamInv => FreshStream
  <2> SUFFICES ASSUME StreamInv, conn # 0, ~torn
               PROVE  Cardinality(OldLive) <= 1
    BY DEF FreshStream, OldLive
  <2>1. \A i, j \in OldLive : i = j
    BY DEF StreamInv
  <2>2. CASE OldLive = {}
    BY <2>2, FS_EmptySet
  <2>3. CASE OldLive # {}
    <3>1. PICK i \in OldLive : TRUE
      BY <2>3
    <3>2. OldLive = {i}
      BY <2>1, <3>1
    <3>3. QED
      BY <3>2, FS_Singleton
  <2>4. QED
    BY <2>2, <2>3
<1>2. TypeInv /\ ModeInv /\ StreamInv /\ [LinkNext]_vars => ModeInv' /\ StreamInv'
  BY StepMode, StepStream
<1>3. QED
  BY <1>1, <1>2, InitMode, InitStream, TypeAlways, PTL DEF LinkSpec
=============================================================================

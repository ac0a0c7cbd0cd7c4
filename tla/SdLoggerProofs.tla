--------------------------- MODULE SdLoggerProofs ---------------------------
(* Theorems of SdLogger and their proofs.                                  *)
EXTENDS SdLoggerInv, SequenceTheorems, TLAPS

-----------------------------------------------------------------------------
(* Files.                                                                  *)

\* Appending a row and syncing keep a file a file, and say what it holds.
LEMMA FileOps ==
    ASSUME NEW f \in File, NEW row \in Row
    PROVE  /\ Append1(f, row) \in File
           /\ Append1(f, row).rows = Append(f.rows, row)
           /\ Synced(f) \in File /\ Synced(f).rows = f.rows
           /\ Flushed(f) \in File /\ Flushed(f).rows = f.rows
<1>1. f.rows \in Seq(Row) /\ f.kept \in Nat /\ f.kept <= Len(f.rows)
  BY DEF File
<1>2. /\ Append(f.rows, row) \in Seq(Row) /\ Len(f.rows) \in Nat
      /\ Len(Append(f.rows, row)) = Len(f.rows) + 1
  BY <1>1
<1>3. Append1(f, row) \in File /\ Append1(f, row).rows = Append(f.rows, row)
  BY <1>1, <1>2 DEF File, Append1
<1>4. Synced(f) \in File /\ Synced(f).rows = f.rows
  BY <1>1, <1>2 DEF File, Synced
<1>5. Flushed(f) \in File /\ Flushed(f).rows = f.rows
  BY <1>4 DEF Flushed
<1>6. QED
  BY <1>3, <1>4, <1>5

\* The rows the code writes are rows.
LEMMA RowTypes ==
    /\ StartRow \in Row /\ SnapRow \in Row /\ Frame \subseteq Row
    /\ \A p \in Int : EndRow(p) \in Row
BY DEF Row, StartRow, SnapRow, EndRow

\* fopen "w" of a card is a card.
LEMMA CreateCard ==
    ASSUME NEW card, IsCard(card), NEW id \in Nat
    PROVE  /\ IsCard(Create(card, id))
           /\ DOMAIN Create(card, id) = DOMAIN card \cup {id}
           /\ Create(card, id)[id] = EmptyFile
           /\ \A i \in DOMAIN card \ {id} : Create(card, id)[i] = card[i]
<1>1. EmptyFile \in File
  BY DEF EmptyFile, File
<1>2. QED
  BY <1>1 DEF IsCard, Create

\* Replacing the contents of a file of a card gives a card.
LEMMA PutCard ==
    ASSUME NEW card, IsCard(card), NEW id \in DOMAIN card, NEW f \in File
    PROVE  /\ IsCard([card EXCEPT ![id] = f])
           /\ DOMAIN [card EXCEPT ![id] = f] = DOMAIN card
           /\ [card EXCEPT ![id] = f][id] = f
           /\ \A i \in DOMAIN card \ {id} : [card EXCEPT ![id] = f][i] = card[i]
BY DEF IsCard

\* A power cut leaves a card whose files are first parts of what they were,
\* and only the open file can be shorter.
LEMMA SurvivingCard ==
    ASSUME NEW card, IsCard(card), NEW file \in DOMAIN card \cup {NoFile},
           NEW c2 \in Surviving(card, file)
    PROVE  /\ IsCard(c2) /\ DOMAIN c2 = DOMAIN card
           /\ \A i \in DOMAIN card \ {file} : c2[i] = card[i]
           /\ file # NoFile =>
                \E k \in 0..Len(card[file].rows) : c2[file] = Cut(card[file], k)
<1>1. CASE file = NoFile
  BY <1>1, ConstantsAssumption DEF Surviving, IsCard
<1>2. CASE file # NoFile
  <2>1. file \in DOMAIN card /\ card[file] \in File
    BY <1>2 DEF IsCard
  <2>2. /\ card[file].rows \in Seq(Row) /\ card[file].kept \in Nat
        /\ card[file].kept <= Len(card[file].rows)
    BY <2>1 DEF File
  <2>3. PICK k \in 0..Len(card[file].rows) :
          c2 = [card EXCEPT ![file] = Cut(card[file], k)]
    BY <1>2, <2>2 DEF Surviving
  <2>4. /\ SubSeq(card[file].rows, 1, k) \in Seq(Row)
        /\ Len(SubSeq(card[file].rows, 1, k)) = k
    BY <2>2, <2>3, SubSeqProperties
  <2>5. Cut(card[file], k) \in File
    BY <2>3, <2>4 DEF Cut, File
  <2>6. QED
    BY <1>2, <2>1, <2>3, <2>5, PutCard
<1>3. QED
  BY <1>1, <1>2

-----------------------------------------------------------------------------
(* Type correctness.                                                       *)

\* What a message taken from the queue is.
LEMMA ReceiveType ==
    ASSUME TypeOK, NEW type, Receive(type)
    PROVE  /\ Head(logQueue) \in Message
           /\ logQueue' \in Seq(Message) /\ Len(logQueue') <= LogQueueLen
           /\ type = "FRAME" => Head(logQueue) \in Frame
<1>1. logQueue \in Seq(Message) /\ logQueue # <<>> /\ LogQueueLen \in Nat
  BY ConstantsAssumption DEF TypeOK, Receive
<1>2. /\ Head(logQueue) \in Message
      /\ Tail(logQueue) \in Seq(Message)
      /\ Len(Tail(logQueue)) = Len(logQueue) - 1
      /\ Len(logQueue) \in Nat
  BY <1>1, HeadTailProperties
<1>3. Len(logQueue) <= LogQueueLen
  BY DEF TypeOK
<1>4. type = "FRAME" => Head(logQueue) \in Frame
  BY <1>2 DEF Receive, Message, Marker, Frame
<1>5. QED
  BY <1>1, <1>2, <1>3, <1>4 DEF Receive

\* A current becomes a natural number, or INT32_MIN.
LEMMA AbsType ==
    ASSUME NEW c \in Currents
    PROVE  AbsMa(c) \in Int
BY ConstantsAssumption DEF AbsMa

LEMMA TypeInit == Init => TypeOK
<1> SUFFICES ASSUME Init PROVE TypeOK
  OBVIOUS
<1>1. IsCard(rawCard) /\ IsCard(snapCard)
  BY DEF Init, IsCard
<1>2. logQueue \in Seq(Message) /\ Len(logQueue) <= LogQueueLen
  BY ConstantsAssumption DEF Init
<1>3. flushCtr \in 0..(FlushRows - 1) /\ snapFlushCtr \in 0..(SnapFlushRows - 1)
  BY ConstantsAssumption DEF Init
<1>4. spent \in [Events -> Nat]
  BY DEF Init
<1>5. QED
  BY <1>1, <1>2, <1>3, <1>4 DEF Init, TypeOK

\* fopen leaves a card and a handle to a file of it.
LEMMA OpenTypes ==
    ASSUME TypeOK
    PROVE  /\ OpenRawFile => IsCard(rawCard') /\ rawFile' \in DOMAIN rawCard' \cup {NoFile}
           /\ OpenSnapFile => IsCard(snapCard') /\ snapFile' \in DOMAIN snapCard' \cup {NoFile}
<1>1. OpenRawFile => IsCard(rawCard') /\ rawFile' \in DOMAIN rawCard' \cup {NoFile}
  <2>1. IsCard(rawCard) /\ currentSession \in Nat
    BY DEF TypeOK
  <2>2. /\ IsCard(Create(rawCard, currentSession))
        /\ DOMAIN Create(rawCard, currentSession) = DOMAIN rawCard \cup {currentSession}
    BY <2>1, CreateCard
  <2>3. QED
    BY <2>1, <2>2 DEF TypeOK, OpenRawFile
<1>2. OpenSnapFile => IsCard(snapCard') /\ snapFile' \in DOMAIN snapCard' \cup {NoFile}
  <2>1. IsCard(snapCard) /\ currentSession \in Nat
    BY DEF TypeOK
  <2>2. /\ IsCard(Create(snapCard, currentSession))
        /\ DOMAIN Create(snapCard, currentSession) = DOMAIN snapCard \cup {currentSession}
    BY <2>1, CreateCard
  <2>3. QED
    BY <2>1, <2>2 DEF TypeOK, OpenSnapFile
<1>3. QED
  BY <1>1, <1>2

\* Adding a row to an open file, flushed, synced or not, leaves a card.
LEMMA AddRowCard ==
    ASSUME NEW card, IsCard(card), NEW file \in DOMAIN card, NEW row \in Row
    PROVE  /\ IsCard([card EXCEPT ![file] = Append1(card[file], row)])
           /\ IsCard([card EXCEPT ![file] = Flushed(Append1(card[file], row))])
           /\ IsCard([card EXCEPT ![file] = Synced(Append1(card[file], row))])
<1>1. card[file] \in File
  BY DEF IsCard
<1>2. Append1(card[file], row) \in File
  BY <1>1, FileOps
<1>3. /\ Flushed(Append1(card[file], row)) \in File
      /\ Synced(Append1(card[file], row)) \in File
  BY <1>2, FileOps
<1>4. QED
  BY <1>2, <1>3, PutCard

LEMMA TypeStep == TypeOK /\ [Next]_vars => TypeOK'
<1> SUFFICES ASSUME TypeOK, [Next]_vars PROVE TypeOK'
  OBVIOUS
<1> USE ConstantsAssumption
<1>1. ASSUME NEW c \in Currents \cup {NoCurrent}, LogFrame(c) PROVE TypeOK'
  <2>1. [type |-> "FRAME", current |-> c] \in Message
    BY DEF Message, Frame
  <2>2. logQueue' \in Seq(Message) /\ Len(logQueue') <= LogQueueLen
    BY <1>1, <2>1 DEF LogFrame, TypeOK
  <2>3. QED
    BY <1>1, <2>2 DEF LogFrame, TypeOK, Events, persistent, handles, trip, counters
<1>2. ASSUME NEW type \in {"TRIP_START", "TRIP_END"}, PostMarker(type)
      PROVE TypeOK'
  <2>1. [type |-> type] \in Message
    BY DEF Message, Marker
  <2>2. logQueue' \in Seq(Message) /\ Len(logQueue') <= LogQueueLen
    BY <1>2, <2>1 DEF PostMarker, TypeOK
  <2>3. QED
    BY <1>2, <2>2 DEF PostMarker, TypeOK, Events, persistent, handles, trip, counters
<1>3. CASE WaitRotate
  BY <1>3 DEF WaitRotate, TypeOK, persistent, handles, trip, counters
<1>4. CASE CreateSem
  BY <1>4 DEF CreateSem, TypeOK, persistent, handles, trip, counters
<1>5. CASE SdInit
  BY <1>5 DEF SdInit, TypeOK, persistent, handles, trip, counters
<1>6. CASE BootLoad
  BY <1>6 DEF BootLoad, LoadAndIncrementSession, TypeOK, trip, counters
<1>7. CASE BootOpenRaw
  <2>1. IsCard(rawCard') /\ rawFile' \in DOMAIN rawCard' \cup {NoFile}
    BY <1>7, OpenTypes DEF BootOpenRaw
  <2>2. QED
    BY <1>7, <2>1 DEF BootOpenRaw, TypeOK, trip, counters
<1>8. CASE BootOpenSnap
  <2>1. IsCard(snapCard') /\ snapFile' \in DOMAIN snapCard' \cup {NoFile}
    BY <1>8, OpenTypes DEF BootOpenSnap
  <2>2. QED
    BY <1>8, <2>1 DEF BootOpenSnap, TypeOK, trip, counters
<1>9. CASE WriteRawFrame
  <2>1. /\ Head(logQueue) \in Frame
        /\ logQueue' \in Seq(Message) /\ Len(logQueue') <= LogQueueLen
    BY <1>9, ReceiveType DEF WriteRawFrame
  <2>2. rawFile \in DOMAIN rawCard /\ IsCard(rawCard)
    BY <1>9 DEF WriteRawFrame, TypeOK
  <2>3. IsCard(rawCard') /\ DOMAIN rawCard' = DOMAIN rawCard
    <3>1. WriteRow(Head(logQueue))
      BY <1>9 DEF WriteRawFrame
    <3>2. DOMAIN rawCard' = DOMAIN rawCard
      BY <3>1 DEF WriteRow
    <3>3. QED
      BY <2>1, <2>2, <3>1, <3>2, AddRowCard, RowTypes DEF WriteRow
  <2>4. flushCtr' \in 0..(FlushRows - 1)
    <3>1. flushCtr' = IF flushCtr + 1 >= FlushRows THEN 0 ELSE flushCtr + 1
      BY <1>9 DEF WriteRawFrame, WriteRow
    <3>2. QED
      BY <3>1 DEF TypeOK
  <2>5. /\ IsCard(snapCard') /\ DOMAIN snapCard' = DOMAIN snapCard
        /\ snapFlushCtr' \in 0..(SnapFlushRows - 1)
    <3>1. CASE UNCHANGED <<snapCard, snapFlushCtr>>
      BY <3>1 DEF TypeOK
    <3>2. CASE WriteSnapshot /\ snapFile # NoFile
      <4>1. snapFile \in DOMAIN snapCard /\ IsCard(snapCard)
        BY <3>2 DEF TypeOK
      <4>2. DOMAIN snapCard' = DOMAIN snapCard
        BY <3>2 DEF WriteSnapshot
      <4>3. IsCard(snapCard')
        <5>1. /\ IsCard([snapCard EXCEPT ![snapFile] =
                           Append1(snapCard[snapFile], SnapRow)])
              /\ IsCard([snapCard EXCEPT ![snapFile] =
                           Flushed(Append1(snapCard[snapFile], SnapRow))])
          BY <4>1, AddRowCard, RowTypes
        <5>2. QED
          BY <3>2, <5>1 DEF WriteSnapshot
      <4>4. snapFlushCtr' \in 0..(SnapFlushRows - 1)
        <5>1. snapFlushCtr' = IF snapFlushCtr + 1 >= SnapFlushRows
                              THEN 0 ELSE snapFlushCtr + 1
          BY <3>2 DEF WriteSnapshot
        <5>2. QED
          BY <5>1 DEF TypeOK
      <4>5. QED
        BY <4>2, <4>3, <4>4
    <3>3. QED
      BY <1>9, <3>1, <3>2 DEF WriteRawFrame, WriteSnapshot
  <2>6. tripPeak' \in Nat
    <3>1. Head(logQueue).current \in Currents \cup {NoCurrent}
      BY <2>1 DEF Frame
    <3>2. tripPeak \in Nat
      BY DEF TypeOK
    <3>3. Head(logQueue).current # NoCurrent => AbsMa(Head(logQueue).current) \in Int
      BY <3>1, AbsType
    <3>4. TrackPeak(Head(logQueue).current)
      BY <1>9 DEF WriteRawFrame
    <3>5. QED
      BY <3>2, <3>3, <3>4 DEF TrackPeak
  <2>7. QED
    BY <1>9, <2>1, <2>3, <2>4, <2>5, <2>6 DEF WriteRawFrame, TypeOK, handles
<1>10. CASE SkipRawFrame
  BY <1>10, ReceiveType
     DEF SkipRawFrame, TypeOK, persistent, handles, trip, counters
<1>11. CASE TripStart
  BY <1>11, ReceiveType
     DEF TripStart, TypeOK, persistent, handles, trip, counters
<1>12. CASE StartOpenRaw
  <2>1. IsCard(rawCard') /\ rawFile' \in DOMAIN rawCard' \cup {NoFile}
    BY <1>12, OpenTypes DEF StartOpenRaw
  <2>2. QED
    BY <1>12, <2>1 DEF StartOpenRaw, TypeOK, trip, counters
<1>13. CASE StartOpenSnap
  <2>1. IsCard(snapCard') /\ snapFile' \in DOMAIN snapCard' \cup {NoFile}
    BY <1>13, OpenTypes DEF StartOpenSnap, TypeOK
  <2>2. QED
    BY <1>13, <2>1 DEF StartOpenSnap, TypeOK, trip, counters
<1>14. CASE StartArm
  <2>1. IsCard(rawCard') /\ DOMAIN rawCard' = DOMAIN rawCard
    <3>1. CASE rawFile = NoFile
      BY <1>14, <3>1 DEF StartArm, TypeOK, IsCard
    <3>2. CASE rawFile # NoFile
      BY <1>14, <3>2, AddRowCard, RowTypes DEF StartArm, TypeOK
    <3>3. QED
      BY <3>1, <3>2
  <2>2. IsCard(snapCard') /\ DOMAIN snapCard' = DOMAIN snapCard
    BY <1>14, AddRowCard, RowTypes DEF StartArm, ArmTrip, TypeOK
  <2>3. QED
    BY <1>14, <2>1, <2>2 DEF StartArm, ArmTrip, TypeOK, handles, counters
<1>15. CASE EndIgnored
  BY <1>15, ReceiveType
     DEF EndIgnored, GiveSem, TypeOK, persistent, handles, trip, counters
<1>16. CASE TripEnd
  BY <1>16, ReceiveType
     DEF TripEnd, TypeOK, persistent, handles, counters
<1>17. CASE EndCloseSnap
  <2>1. IsCard(snapCard')
    <3>1. EndRow(tripPeak) \in Row
      BY RowTypes DEF TypeOK
    <3>2. ASSUME snapFile # NoFile
          PROVE  IsCard([snapCard EXCEPT ![snapFile] =
                    Synced(Append1(snapCard[snapFile], EndRow(tripPeak)))])
      <4>1. IsCard(snapCard) /\ snapFile \in DOMAIN snapCard
        BY <3>2 DEF TypeOK
      <4>2. QED
        BY <3>1, <4>1, AddRowCard
    <3>3. QED
      BY <1>17, <3>2 DEF EndCloseSnap, TypeOK
  <2>2. QED
    BY <1>17, <2>1 DEF EndCloseSnap, TypeOK, trip, counters
<1>18. CASE EndCloseRaw
  <2>1. IsCard(rawCard')
    <3>1. EndRow(tripPeak) \in Row
      BY RowTypes DEF TypeOK
    <3>2. ASSUME rawFile # NoFile
          PROVE  IsCard([rawCard EXCEPT ![rawFile] =
                    Synced(Append1(rawCard[rawFile], EndRow(tripPeak)))])
      <4>1. IsCard(rawCard) /\ rawFile \in DOMAIN rawCard
        BY <3>2 DEF TypeOK
      <4>2. QED
        BY <3>1, <4>1, AddRowCard
    <3>3. QED
      BY <1>18, <3>2 DEF EndCloseRaw, TypeOK
  <2>2. QED
    BY <1>18, <2>1 DEF EndCloseRaw, TypeOK, trip, counters
<1>19. CASE EndRotate
  BY <1>19 DEF EndRotate, LoadAndIncrementSession, TypeOK, trip, counters
<1>20. CASE EndGive
  BY <1>20 DEF EndGive, GiveSem, TypeOK, persistent, handles, trip, counters
<1>21. CASE Reset
  <2>1. PICK first \in {"create_sem", "off"}, erased \in BOOLEAN :
          Restart(first, erased)
    BY <1>21 DEF Reset
  <2>2. IsCard(rawCard')
    BY <2>1, SurvivingCard DEF Restart, TypeOK
  <2>3. IsCard(snapCard')
    BY <2>1, SurvivingCard DEF Restart, TypeOK
  <2>4. /\ nvsSession' \in Nat /\ spent' \in [Events -> Nat]
        /\ Boot(first)
    BY <2>1 DEF Restart, TypeOK, Events
  <2>5. logQueue' \in Seq(Message) /\ Len(logQueue') <= LogQueueLen
    BY <2>4 DEF Boot
  <2>6. /\ flushCtr' \in 0..(FlushRows - 1)
        /\ snapFlushCtr' \in 0..(SnapFlushRows - 1)
    BY <2>4 DEF Boot
  <2>7. /\ pc' = first /\ currentSession' \in Nat
        /\ rawFile' = NoFile /\ snapFile' = NoFile
        /\ tripActive' \in BOOLEAN /\ tripPeak' \in Nat
        /\ snapForced' \in BOOLEAN /\ rotateSem' = "absent"
    BY <2>4 DEF Boot
  <2>8. QED
    BY <2>2, <2>3, <2>4, <2>5, <2>6, <2>7 DEF TypeOK
<1>22. CASE UNCHANGED vars
  BY <1>22 DEF vars, TypeOK, persistent, handles, trip, counters
<1>23. QED
  BY <1>1, <1>2, <1>3, <1>4, <1>5, <1>6, <1>7, <1>8, <1>9, <1>10, <1>11,
     <1>12, <1>13, <1>14, <1>15, <1>16, <1>17, <1>18, <1>19, <1>20, <1>21,
     <1>22 DEF Next, LoggerStep

\* Every variable keeps its type, whatever faults the environment shows.
THEOREM TypeCorrect == Spec => []TypeOK
BY TypeInit, TypeStep, PTL DEF Spec

-----------------------------------------------------------------------------
(* Where the task is tells which files are open.                           *)

LEMMA HandleInit == Init => HandleInv
BY DEF Init, HandleInv, TripHasRaw, Unnumbered

LEMMA HandleStep == TypeOK /\ HandleInv /\ [Next]_vars => HandleInv'
<1> SUFFICES ASSUME TypeOK, HandleInv, [Next]_vars PROVE HandleInv'
  OBVIOUS
<1>0. currentSession \in Nat /\ NoFile \notin Nat
  BY ConstantsAssumption DEF TypeOK
<1> USE DEF HandleInv, TripHasRaw, Unnumbered
<1>1. ASSUME NEW c \in Currents \cup {NoCurrent}, LogFrame(c) PROVE HandleInv'
  BY <1>1 DEF LogFrame, persistent, handles, trip
<1>2. ASSUME NEW type \in {"TRIP_START", "TRIP_END"}, PostMarker(type)
      PROVE HandleInv'
  BY <1>2 DEF PostMarker, persistent, handles, trip
<1>3. CASE WaitRotate
  BY <1>0, <1>3 DEF WaitRotate, persistent, handles, trip
<1>4. CASE CreateSem
  BY <1>0, <1>4 DEF CreateSem, persistent, handles, trip
<1>5. CASE SdInit
  BY <1>0, <1>5 DEF SdInit, persistent, handles, trip
<1>6. CASE BootLoad
  BY <1>0, <1>6 DEF BootLoad, LoadAndIncrementSession, trip
<1>7. CASE BootOpenRaw
  BY <1>0, <1>7 DEF BootOpenRaw, OpenRawFile, trip
<1>8. CASE BootOpenSnap
  BY <1>0, <1>8 DEF BootOpenSnap, OpenSnapFile, trip
<1>9. CASE WriteRawFrame
  BY <1>0, <1>9 DEF WriteRawFrame, Receive, handles
<1>10. CASE SkipRawFrame
  BY <1>0, <1>10 DEF SkipRawFrame, Receive, persistent, handles, trip
<1>11. CASE TripStart
  BY <1>0, <1>11 DEF TripStart, Receive, persistent, handles, trip
<1>12. CASE StartOpenRaw
  BY <1>0, <1>12 DEF StartOpenRaw, OpenRawFile, trip
<1>13. CASE StartOpenSnap
  BY <1>0, <1>13 DEF StartOpenSnap, OpenSnapFile, trip
<1>14. CASE StartArm
  BY <1>0, <1>14 DEF StartArm, ArmTrip, handles
<1>15. CASE EndIgnored
  BY <1>0, <1>15 DEF EndIgnored, Receive, persistent, handles, trip
<1>16. CASE TripEnd
  BY <1>0, <1>16 DEF TripEnd, Receive, persistent, handles
<1>17. CASE EndCloseSnap
  BY <1>0, <1>17 DEF EndCloseSnap, trip
<1>18. CASE EndCloseRaw
  BY <1>0, <1>18 DEF EndCloseRaw, trip
<1>19. CASE EndRotate
  BY <1>0, <1>19 DEF EndRotate, LoadAndIncrementSession, trip
<1>20. CASE EndGive
  BY <1>0, <1>20 DEF EndGive, persistent, handles, trip
<1>21. CASE Reset
  BY <1>21 DEF Reset, Restart, Boot
<1>22. CASE UNCHANGED vars
  BY <1>22 DEF vars, handles, trip
<1>23. QED
  BY <1>1, <1>2, <1>3, <1>4, <1>5, <1>6, <1>7, <1>8, <1>9, <1>10, <1>11, <1>12, <1>13, <1>14, <1>15, <1>16, <1>17, <1>18, <1>19, <1>20, <1>21, <1>22
  DEF Next, LoggerStep

-----------------------------------------------------------------------------
(* Session numbers, when NVS keeps the counter.                            *)

NumberFresh == NumberInv /\ FreshInv

LEMMA NumberInit == Init => NumberFresh
BY DEF Init, NumberFresh, NumberInv, FreshInv, Unnumbered, IdsBelowCounter,
       SessionsStartAtOne

\* The number loaded is one more than any in use, and the counter passes it.
LEMMA FreshNumber ==
    ASSUME TypeOK, NumberInv, NvsReliable, LoadAndIncrementSession
    PROVE  /\ currentSession' \in Nat /\ currentSession' >= 1
           /\ nvsSession' = currentSession' + 1 /\ nvsSession <= nvsSession'
           /\ currentSession' \notin DOMAIN rawCard
           /\ currentSession' \notin DOMAIN snapCard
<1>1. nvsSession \in Nat
  BY DEF TypeOK
<1>2. LET id == IF nvsSession = 0 THEN 1 ELSE nvsSession
      IN  currentSession' = id /\ nvsSession' = id + 1
  BY DEF LoadAndIncrementSession, NvsReliable
<1>3. \A i \in DOMAIN rawCard \cup DOMAIN snapCard : i < nvsSession /\ i >= 1
  BY DEF NumberInv, IdsBelowCounter, SessionsStartAtOne
<1>4. DOMAIN rawCard \subseteq Nat /\ DOMAIN snapCard \subseteq Nat
  BY DEF TypeOK, IsCard
<1>5. QED
  BY <1>1, <1>2, <1>3, <1>4

\* The numbers on a card, after a file is opened.
LEMMA OpenDomains ==
    /\ OpenRawFile =>
         \/ DOMAIN rawCard' = DOMAIN rawCard \cup {currentSession} /\ rawFile' = currentSession
         \/ rawCard' = rawCard /\ rawFile' = NoFile
    /\ OpenSnapFile =>
         \/ DOMAIN snapCard' = DOMAIN snapCard \cup {currentSession} /\ snapFile' = currentSession
         \/ snapCard' = snapCard /\ snapFile' = NoFile
BY DEF OpenRawFile, OpenSnapFile, Create

\* Writing rows and cutting files keep the numbers on a card.
LEMMA SameDomains ==
    ASSUME TypeOK, WriteRawFrame \/ StartArm \/ EndCloseSnap \/ EndCloseRaw \/ Reset
    PROVE  DOMAIN rawCard' = DOMAIN rawCard /\ DOMAIN snapCard' = DOMAIN snapCard
<1>1. CASE WriteRawFrame
  BY <1>1 DEF WriteRawFrame, WriteRow, WriteSnapshot
<1>2. CASE StartArm
  BY <1>2 DEF StartArm
<1>3. CASE EndCloseSnap
  BY <1>3 DEF EndCloseSnap
<1>4. CASE EndCloseRaw
  BY <1>4 DEF EndCloseRaw
<1>5. CASE Reset
  BY <1>5, SurvivingCard DEF Reset, Restart, TypeOK
<1>6. QED
  BY <1>1, <1>2, <1>3, <1>4, <1>5

LEMMA NumberStep ==
    ASSUME TypeOK, HandleInv, NumberFresh, NvsReliable, [Next]_vars
    PROVE  NumberFresh'
<1>0. /\ currentSession \in Nat /\ nvsSession \in Nat /\ NoFile \notin Nat
      /\ DOMAIN rawCard \subseteq Nat /\ DOMAIN snapCard \subseteq Nat
  BY ConstantsAssumption DEF TypeOK, IsCard
<1> USE DEF NumberFresh, NumberInv, FreshInv, Unnumbered, IdsBelowCounter,
            SessionsStartAtOne
<1>1. ASSUME NEW c \in Currents \cup {NoCurrent}, LogFrame(c) PROVE NumberFresh'
  BY <1>1 DEF LogFrame, persistent, handles
<1>2. ASSUME NEW type \in {"TRIP_START", "TRIP_END"}, PostMarker(type)
      PROVE NumberFresh'
  BY <1>2 DEF PostMarker, persistent, handles
<1>3. CASE WaitRotate
  BY <1>0, <1>3 DEF WaitRotate, persistent, handles
<1>4. CASE CreateSem
  BY <1>0, <1>4 DEF CreateSem, persistent, handles
<1>5. CASE SdInit
  BY <1>0, <1>5 DEF SdInit, persistent, handles
<1>6. CASE BootLoad
  BY <1>0, <1>6, FreshNumber DEF BootLoad, HandleInv
<1>7. CASE BootOpenRaw
  BY <1>0, <1>7, OpenDomains DEF BootOpenRaw, HandleInv
<1>8. CASE BootOpenSnap
  BY <1>0, <1>8, OpenDomains DEF BootOpenSnap, HandleInv
<1>9. CASE WriteRawFrame
  BY <1>0, <1>9, SameDomains DEF WriteRawFrame, handles, Receive
<1>10. CASE SkipRawFrame
  BY <1>0, <1>10 DEF SkipRawFrame, Receive, persistent, handles
<1>11. CASE TripStart
  BY <1>0, <1>11 DEF TripStart, Receive, persistent, handles
<1>12. CASE StartOpenRaw
  BY <1>0, <1>12, OpenDomains DEF StartOpenRaw, HandleInv
<1>13. CASE StartOpenSnap
  BY <1>0, <1>13, OpenDomains DEF StartOpenSnap
<1>14. CASE StartArm
  BY <1>0, <1>14, SameDomains DEF StartArm, ArmTrip, handles
<1>15. CASE EndIgnored
  BY <1>0, <1>15 DEF EndIgnored, Receive, persistent, handles
<1>16. CASE TripEnd
  BY <1>0, <1>16 DEF TripEnd, Receive, persistent, handles
<1>17. CASE EndCloseSnap
  BY <1>0, <1>17, SameDomains DEF EndCloseSnap
<1>18. CASE EndCloseRaw
  BY <1>0, <1>18, SameDomains DEF EndCloseRaw, HandleInv
<1>19. CASE EndRotate
  BY <1>0, <1>19, FreshNumber DEF EndRotate, HandleInv
<1>20. CASE EndGive
  BY <1>0, <1>20 DEF EndGive, persistent, handles
<1>21. CASE Reset
  BY <1>0, <1>21, SameDomains DEF Reset, Restart, Boot, NvsReliable
<1>22. CASE UNCHANGED vars
  BY <1>22 DEF vars, handles, persistent
<1>23. QED
  BY <1>1, <1>2, <1>3, <1>4, <1>5, <1>6, <1>7, <1>8, <1>9, <1>10, <1>11, <1>12, <1>13, <1>14, <1>15, <1>16, <1>17, <1>18, <1>19, <1>20, <1>21, <1>22
  DEF Next, LoggerStep

-----------------------------------------------------------------------------
(* What one step does to the files of a card.                              *)

\* card2 is card with one more row in a file.
Grown(card, card2, file, row) ==
    /\ DOMAIN card2 = DOMAIN card
    /\ card2[file].rows = Append(card[file].rows, row)
    /\ \A i \in DOMAIN card \ {file} : card2[i] = card[i]

Begun(card, file, card2, file2) ==
    /\ file = NoFile /\ file2 = currentSession
    /\ currentSession >= 1 /\ \A i \in DOMAIN card : i < currentSession
    /\ card2 = Create(card, currentSession)

Abandoned(card, file, card2, file2) ==
    /\ file \in DOMAIN card /\ file2 = NoFile
    /\ DOMAIN card2 = DOMAIN card
    /\ \A i \in DOMAIN card \ {file} : card2[i] = card[i]
    /\ \E k \in 0..Len(card[file].rows) : card2[file] = Cut(card[file], k)

CardStep(card, file, card2, file2, rows) ==
    \/ card2 = card /\ file2 = file
    \/ Begun(card, file, card2, file2)
    \/ /\ file \in DOMAIN card /\ file2 = file
       /\ \E row \in rows : Grown(card, card2, file, row)
    \/ /\ file \in DOMAIN card /\ file2 = NoFile
       /\ \E row \in Summary : Grown(card, card2, file, row)
    \/ Abandoned(card, file, card2, file2)

FreshFor(card) ==
    currentSession >= 1 /\ \A i \in DOMAIN card : i < currentSession

\* The current number is larger than that of any file of a card on which it
\* has no file.
LEMMA NewNumber ==
    ASSUME TypeOK, NumberFresh, pc \notin Unnumbered
    PROVE  /\ rawFile = NoFile /\ pc # "end_rotate" => FreshFor(rawCard)
           /\ snapFile = NoFile /\ pc \notin {"end_raw", "end_rotate"} => FreshFor(snapCard)
<1>1. /\ currentSession \in Nat /\ currentSession >= 1
      /\ nvsSession = currentSession + 1
      /\ DOMAIN rawCard \subseteq Nat /\ DOMAIN snapCard \subseteq Nat
  BY DEF TypeOK, IsCard, NumberFresh, NumberInv
<1>2. \A i \in DOMAIN rawCard \cup DOMAIN snapCard : i < nvsSession
  BY DEF NumberFresh, NumberInv, IdsBelowCounter
<1>3. /\ rawFile = NoFile /\ pc # "end_rotate" => currentSession \notin DOMAIN rawCard
      /\ snapFile = NoFile /\ pc \notin {"end_raw", "end_rotate"}
           => currentSession \notin DOMAIN snapCard
  BY DEF NumberFresh, FreshInv
<1>4. QED
  BY <1>1, <1>2, <1>3 DEF FreshFor

\* The three ways the code adds a row leave the same rows in the file.
LEMMA AddRowGrown ==
    ASSUME NEW card, IsCard(card), NEW file \in DOMAIN card, NEW row \in Row
    PROVE  LET f == Append1(card[file], row) IN
           /\ Grown(card, [card EXCEPT ![file] = f], file, row)
           /\ Grown(card, [card EXCEPT ![file] = Flushed(f)], file, row)
           /\ Grown(card, [card EXCEPT ![file] = Synced(f)], file, row)
<1> DEFINE f == Append1(card[file], row)
<1>1. card[file] \in File
  BY DEF IsCard
<1>2. f \in File /\ f.rows = Append(card[file].rows, row)
  BY <1>1, FileOps
<1>3. /\ Flushed(f) \in File /\ Flushed(f).rows = f.rows
      /\ Synced(f) \in File /\ Synced(f).rows = f.rows
  BY <1>2, FileOps
<1> HIDE DEF f
<1>4. \A g \in File : g.rows = Append(card[file].rows, row)
        => Grown(card, [card EXCEPT ![file] = g], file, row)
  BY PutCard DEF Grown
<1>5. QED
  BY <1>2, <1>3, <1>4 DEF f

\* What a cut does to the open file, or nothing to a card without one.
LEMMA CutStep ==
    ASSUME NEW card, IsCard(card), NEW file \in DOMAIN card \cup {NoFile},
           NEW c2 \in Surviving(card, file), NEW rows
    PROVE  CardStep(card, file, c2, NoFile, rows)
<1>1. CASE file = NoFile
  BY <1>1 DEF Surviving, CardStep
<1>2. CASE file # NoFile
  BY <1>2, SurvivingCard DEF CardStep, Abandoned
<1>3. QED
  BY <1>1, <1>2

RawRows == Frame \cup {StartRow}

\* Every step is a step of the raw files.
LEMMA RawStep ==
    ASSUME TypeOK, HandleInv, NumberFresh, [Next]_vars
    PROVE  CardStep(rawCard, rawFile, rawCard', rawFile', RawRows)
<1>0. /\ IsCard(rawCard) /\ rawFile \in DOMAIN rawCard \cup {NoFile}
      /\ currentSession \in Nat /\ NoFile \notin Nat /\ tripPeak \in Int
  BY ConstantsAssumption DEF TypeOK
<1> DEFINE Goal == CardStep(rawCard, rawFile, rawCard', rawFile', RawRows)
<1>1. ASSUME UNCHANGED <<rawCard, rawFile>> PROVE Goal
  BY <1>1 DEF CardStep
<1>2. ASSUME NEW ch \in Currents \cup {NoCurrent}, LogFrame(ch) PROVE Goal
  BY <1>1, <1>2 DEF LogFrame, persistent, handles
<1>3. ASSUME NEW type \in {"TRIP_START", "TRIP_END"}, PostMarker(type)
      PROVE Goal
  BY <1>1, <1>3 DEF PostMarker, persistent, handles
<1>4. CASE WaitRotate
  BY <1>1, <1>4 DEF WaitRotate, persistent, handles
<1>5. CASE CreateSem
  BY <1>1, <1>5 DEF CreateSem, persistent, handles
<1>6. CASE SdInit
  BY <1>1, <1>6 DEF SdInit, persistent, handles
<1>7. CASE BootLoad
  BY <1>1, <1>7 DEF BootLoad
<1>8. CASE SkipRawFrame
  BY <1>1, <1>8 DEF SkipRawFrame, persistent, handles
<1>9. CASE TripStart
  BY <1>1, <1>9 DEF TripStart, persistent, handles
<1>10. CASE EndIgnored
  BY <1>1, <1>10 DEF EndIgnored, persistent, handles
<1>11. CASE TripEnd
  BY <1>1, <1>11 DEF TripEnd, persistent, handles
<1>12. CASE EndRotate
  BY <1>1, <1>12 DEF EndRotate
<1>13. CASE EndGive
  BY <1>1, <1>13 DEF EndGive, persistent, handles
<1>14. CASE BootOpenSnap
  BY <1>1, <1>14 DEF BootOpenSnap
<1>15. CASE StartOpenSnap
  BY <1>1, <1>15 DEF StartOpenSnap
<1>16. CASE EndCloseSnap
  BY <1>1, <1>16 DEF EndCloseSnap
<1>17. CASE BootOpenRaw
  <2>1. rawFile = NoFile /\ FreshFor(rawCard)
    BY <1>0, <1>17, NewNumber DEF BootOpenRaw, HandleInv, Unnumbered
  <2>2. QED
    BY <1>17, <2>1 DEF BootOpenRaw, OpenRawFile, CardStep, Begun, FreshFor
<1>18. CASE StartOpenRaw
  <2>1. rawFile = NoFile /\ FreshFor(rawCard)
    BY <1>0, <1>18, NewNumber DEF StartOpenRaw, HandleInv, Unnumbered
  <2>2. QED
    BY <1>18, <2>1 DEF StartOpenRaw, OpenRawFile, CardStep, Begun, FreshFor
<1>19. CASE WriteRawFrame
  <2>1. rawFile \in DOMAIN rawCard /\ Head(logQueue) \in Frame
    BY <1>0, <1>19, ReceiveType DEF WriteRawFrame
  <2>2. Head(logQueue) \in Row /\ Head(logQueue) \in RawRows
    BY <2>1, RowTypes DEF RawRows
  <2>3. WriteRow(Head(logQueue)) /\ rawFile' = rawFile
    BY <1>19 DEF WriteRawFrame, handles
  <2>4. Grown(rawCard, rawCard', rawFile, Head(logQueue))
    BY <1>0, <2>1, <2>2, <2>3, AddRowGrown DEF WriteRow
  <2>5. QED
    BY <2>1, <2>2, <2>3, <2>4 DEF CardStep
<1>20. CASE StartArm
  <2>1. rawFile \in DOMAIN rawCard /\ rawFile' = rawFile
    BY <1>0, <1>20 DEF StartArm, handles, HandleInv
  <2>2. Grown(rawCard, rawCard', rawFile, StartRow)
    BY <1>0, <1>20, <2>1, AddRowGrown, RowTypes DEF StartArm
  <2>3. QED
    BY <2>1, <2>2 DEF CardStep, RawRows
<1>21. CASE EndCloseRaw
  <2>1. CASE rawFile = NoFile
    BY <1>1, <1>21, <2>1 DEF EndCloseRaw
  <2>2. CASE rawFile # NoFile
    <3>1. EndRow(tripPeak) \in Row /\ EndRow(tripPeak) \in Summary
      BY <1>0, RowTypes DEF Summary, EndRow
    <3>2. Grown(rawCard, rawCard', rawFile, EndRow(tripPeak))
      BY ZenonT(30), <1>0, <1>21, <2>2, <3>1, AddRowGrown DEF EndCloseRaw
    <3>3. QED
      BY <1>0, <1>21, <2>2, <3>1, <3>2 DEF CardStep, EndCloseRaw
  <2>3. QED
    BY <2>1, <2>2
<1>22. CASE Reset
  BY <1>0, <1>22, CutStep DEF Reset, Restart, Boot
<1>23. CASE UNCHANGED vars
  BY <1>1, <1>23 DEF vars, handles, persistent
<1>24. QED
  BY <1>2, <1>3, <1>4, <1>5, <1>6, <1>7, <1>8, <1>9, <1>10, <1>11, <1>12, <1>13, <1>14, <1>15, <1>16, <1>17, <1>18, <1>19, <1>20, <1>21, <1>22, <1>23
  DEF Next, LoggerStep

SnapRows == {SnapRow, StartRow}

\* Every step is a step of the snapshot files.
LEMMA SnapStep ==
    ASSUME TypeOK, HandleInv, NumberFresh, [Next]_vars
    PROVE  CardStep(snapCard, snapFile, snapCard', snapFile', SnapRows)
<1>0. /\ IsCard(snapCard) /\ snapFile \in DOMAIN snapCard \cup {NoFile}
      /\ currentSession \in Nat /\ NoFile \notin Nat /\ tripPeak \in Int
  BY ConstantsAssumption DEF TypeOK
<1> DEFINE Goal == CardStep(snapCard, snapFile, snapCard', snapFile', SnapRows)
<1>1. ASSUME UNCHANGED <<snapCard, snapFile>> PROVE Goal
  BY <1>1 DEF CardStep
<1>2. ASSUME NEW ch \in Currents \cup {NoCurrent}, LogFrame(ch) PROVE Goal
  BY <1>1, <1>2 DEF LogFrame, persistent, handles
<1>3. ASSUME NEW type \in {"TRIP_START", "TRIP_END"}, PostMarker(type)
      PROVE Goal
  BY <1>1, <1>3 DEF PostMarker, persistent, handles
<1>4. CASE WaitRotate
  BY <1>1, <1>4 DEF WaitRotate, persistent, handles
<1>5. CASE CreateSem
  BY <1>1, <1>5 DEF CreateSem, persistent, handles
<1>6. CASE SdInit
  BY <1>1, <1>6 DEF SdInit, persistent, handles
<1>7. CASE BootLoad
  BY <1>1, <1>7 DEF BootLoad
<1>8. CASE SkipRawFrame
  BY <1>1, <1>8 DEF SkipRawFrame, persistent, handles
<1>9. CASE TripStart
  BY <1>1, <1>9 DEF TripStart, persistent, handles
<1>10. CASE EndIgnored
  BY <1>1, <1>10 DEF EndIgnored, persistent, handles
<1>11. CASE TripEnd
  BY <1>1, <1>11 DEF TripEnd, persistent, handles
<1>12. CASE EndRotate
  BY <1>1, <1>12 DEF EndRotate
<1>13. CASE EndGive
  BY <1>1, <1>13 DEF EndGive, persistent, handles
<1>14. CASE BootOpenRaw
  BY <1>1, <1>14 DEF BootOpenRaw
<1>15. CASE StartOpenRaw
  BY <1>1, <1>15 DEF StartOpenRaw
<1>16. CASE EndCloseRaw
  BY <1>1, <1>16 DEF EndCloseRaw
<1>17. CASE BootOpenSnap
  <2>1. snapFile = NoFile /\ FreshFor(snapCard)
    BY <1>0, <1>17, NewNumber DEF BootOpenSnap, HandleInv, Unnumbered
  <2>2. QED
    BY <1>17, <2>1 DEF BootOpenSnap, OpenSnapFile, CardStep, Begun, FreshFor
<1>18. CASE StartOpenSnap
  <2>1. CASE snapFile # NoFile
    BY <1>1, <1>18, <2>1 DEF StartOpenSnap
  <2>2. CASE snapFile = NoFile
    <3>1. FreshFor(snapCard)
      BY <1>0, <1>18, <2>2, NewNumber DEF StartOpenSnap, Unnumbered
    <3>2. QED
      BY <1>18, <2>2, <3>1 DEF StartOpenSnap, OpenSnapFile, CardStep, Begun, FreshFor
  <2>3. QED
    BY <2>1, <2>2
<1>19. CASE WriteRawFrame
  <2>1. snapFile' = snapFile /\ (WriteSnapshot \/ UNCHANGED snapCard)
    BY <1>19 DEF WriteRawFrame, handles
  <2>2. CASE UNCHANGED snapCard
    BY <1>1, <2>1, <2>2
  <2>3. CASE WriteSnapshot /\ snapFile # NoFile
    <3>1. Grown(snapCard, snapCard', snapFile, SnapRow)
      <4>1. LET f == Append1(snapCard[snapFile], SnapRow) IN
            /\ Grown(snapCard, [snapCard EXCEPT ![snapFile] = f], snapFile, SnapRow)
            /\ Grown(snapCard, [snapCard EXCEPT ![snapFile] = Flushed(f)],
                     snapFile, SnapRow)
        BY <1>0, <2>3, AddRowGrown, RowTypes
      <4>2. QED
        BY <2>3, <4>1 DEF WriteSnapshot
    <3>2. QED
      BY <1>0, <2>1, <2>3, <3>1 DEF CardStep, SnapRows
  <2>4. QED
    BY <2>1, <2>2, <2>3 DEF WriteSnapshot
<1>20. CASE StartArm
  <2>1. CASE snapFile = NoFile
    BY <1>1, <1>20, <2>1 DEF StartArm, handles
  <2>2. CASE snapFile # NoFile
    <3>1. Grown(snapCard, snapCard', snapFile, StartRow)
      BY <1>0, <1>20, <2>2, AddRowGrown, RowTypes DEF StartArm
    <3>2. QED
      BY <1>0, <1>20, <2>2, <3>1 DEF CardStep, SnapRows, StartArm, handles
  <2>3. QED
    BY <2>1, <2>2
<1>21. CASE EndCloseSnap
  <2>1. CASE snapFile = NoFile
    BY <1>1, <1>21, <2>1 DEF EndCloseSnap
  <2>2. CASE snapFile # NoFile
    <3>1. EndRow(tripPeak) \in Row /\ EndRow(tripPeak) \in Summary
      BY <1>0, RowTypes DEF Summary, EndRow
    <3>2. Grown(snapCard, snapCard', snapFile, EndRow(tripPeak))
      BY ZenonT(30), <1>0, <1>21, <2>2, <3>1, AddRowGrown DEF EndCloseSnap
    <3>3. QED
      BY <1>0, <1>21, <2>2, <3>1, <3>2 DEF CardStep, EndCloseSnap
  <2>3. QED
    BY <2>1, <2>2
<1>22. CASE Reset
  BY <1>0, <1>22, CutStep DEF Reset, Restart, Boot
<1>23. CASE UNCHANGED vars
  BY <1>1, <1>23 DEF vars, handles, persistent
<1>24. QED
  BY <1>2, <1>3, <1>4, <1>5, <1>6, <1>7, <1>8, <1>9, <1>10, <1>11, <1>12, <1>13, <1>14, <1>15, <1>16, <1>17, <1>18, <1>19, <1>20, <1>21, <1>22, <1>23
  DEF Next, LoggerStep

-----------------------------------------------------------------------------
(* The open files have no summary yet, and completed files are kept.       *)

OpenUnfinished(card, file) == file # NoFile => NoSummary(card[file])

\* A step of a card keeps what is completed and the open file unfinished.
LEMMA StepKeeps ==
    ASSUME NEW card, IsCard(card), NEW card2, IsCard(card2),
           NEW file, file # NoFile => file \in DOMAIN card, NEW file2,
           NEW rows, \A row \in rows : row.type # "TRIP_END",
           CardStep(card, file, card2, file2, rows), OpenUnfinished(card, file)
    PROVE  Preserved(card, card2) /\ OpenUnfinished(card2, file2)
<1>1. \A i \in DOMAIN card : card[i].rows \in Seq(Row)
  BY DEF IsCard, File
<1>2. ~(file \in DOMAIN card /\ Completed(card[file]))
  <2>1. ASSUME file \in DOMAIN card, Completed(card[file]) PROVE FALSE
    <3>1. file # NoFile
      BY <2>1, ConstantsAssumption DEF IsCard
    <3>2. NoSummary(card[file]) /\ card[file].rows \in Seq(Row)
      BY <1>1, <2>1, <3>1 DEF OpenUnfinished
    <3>3. card[file].rows # <<>> => Len(card[file].rows) \in DOMAIN card[file].rows
      BY <3>2
    <3>4. QED
      BY <2>1, <3>2, <3>3 DEF NoSummary, Completed
  <2>2. QED
    BY <2>1
<1>3. CASE card2 = card /\ file2 = file
  BY <1>3 DEF Preserved
<1>4. CASE Begun(card, file, card2, file2)
  <2>1. currentSession \notin DOMAIN card
    BY <1>4 DEF Begun, IsCard
  <2>2. QED
    BY <1>4, <2>1
       DEF Begun, Create, Preserved, OpenUnfinished, NoSummary, EmptyFile
<1>5. CASE file \in DOMAIN card /\ file2 = file /\ \E row \in rows : Grown(card, card2, file, row)
  <2>1. PICK row \in rows : Grown(card, card2, file, row)
    BY <1>5
  <2>2. Preserved(card, card2)
    BY <1>2, <2>1 DEF Grown, Preserved
  <2>3. file # NoFile => NoSummary(card2[file])
    <3>1. \A i \in DOMAIN Append(card[file].rows, row) :
             \/ i \in DOMAIN card[file].rows
                  /\ Append(card[file].rows, row)[i] = card[file].rows[i]
             \/ Append(card[file].rows, row)[i] = row
      BY <1>1, <1>5
    <3>2. QED
      BY <2>1, <3>1 DEF Grown, OpenUnfinished, NoSummary
  <2>4. QED
    BY <1>5, <2>2, <2>3 DEF OpenUnfinished
<1>6. CASE file \in DOMAIN card /\ file2 = NoFile /\ \E row \in Summary : Grown(card, card2, file, row)
  BY <1>2, <1>6 DEF Grown, Preserved, OpenUnfinished
<1>7. CASE Abandoned(card, file, card2, file2)
  BY <1>2, <1>7 DEF Abandoned, Preserved, OpenUnfinished
<1>8. QED
  BY <1>3, <1>4, <1>5, <1>6, <1>7 DEF CardStep

LEMMA OpenStep ==
    ASSUME TypeOK, TypeOK', SafeInv, [Next]_vars
    PROVE  /\ Preserved(rawCard, rawCard') /\ Preserved(snapCard, snapCard')
           /\ OpenInv'
<1>1. /\ CardStep(rawCard, rawFile, rawCard', rawFile', RawRows)
      /\ CardStep(snapCard, snapFile, snapCard', snapFile', SnapRows)
  BY RawStep, SnapStep DEF SafeInv, NumberFresh
<1>2. /\ IsCard(rawCard) /\ IsCard(rawCard') /\ IsCard(snapCard) /\ IsCard(snapCard')
      /\ rawFile # NoFile => rawFile \in DOMAIN rawCard
      /\ snapFile # NoFile => snapFile \in DOMAIN snapCard
  BY DEF TypeOK
<1>3. /\ \A row \in RawRows : row.type # "TRIP_END"
      /\ \A row \in SnapRows : row.type # "TRIP_END"
  BY DEF RawRows, SnapRows, Frame, StartRow, SnapRow
<1>4. OpenUnfinished(rawCard, rawFile) /\ OpenUnfinished(snapCard, snapFile)
  BY DEF SafeInv, OpenInv, OpenUnfinished
<1>5. Preserved(rawCard, rawCard') /\ OpenUnfinished(rawCard', rawFile')
  BY <1>1, <1>2, <1>3, <1>4, StepKeeps
<1>6. Preserved(snapCard, snapCard') /\ OpenUnfinished(snapCard', snapFile')
  BY <1>1, <1>2, <1>3, <1>4, StepKeeps
<1>7. QED
  BY <1>5, <1>6 DEF OpenInv, OpenUnfinished

LEMMA SafeInit == Init => SafeInv
BY HandleInit, NumberInit DEF SafeInv, NumberFresh, OpenInv, Init

LEMMA SafeStep ==
    ASSUME NvsReliable, TypeOK, TypeOK', SafeInv, [Next]_vars
    PROVE  SafeInv'
<1>1. HandleInv'
  BY HandleStep DEF SafeInv
<1>2. NumberFresh'
  BY NumberStep DEF SafeInv, NumberFresh
<1>3. OpenInv'
  BY OpenStep
<1>4. QED
  BY <1>1, <1>2, <1>3 DEF SafeInv, NumberFresh

-----------------------------------------------------------------------------
(* The theorems.                                                           *)

\* With a counter that NVS keeps, the whole inductive invariant holds.
THEOREM Safety == ASSUME NvsReliable PROVE Spec => []SafeInv
<1>1. Init => SafeInv
  BY SafeInit
<1>2. TypeOK /\ TypeOK' /\ SafeInv /\ [Next]_vars => SafeInv'
  BY SafeStep
<1>3. QED
  BY <1>1, <1>2, TypeCorrect, PTL DEF Spec

\* No session number is used twice: every file's number is behind the counter.
THEOREM NumbersFresh == ASSUME NvsReliable PROVE Spec => []IdsBelowCounter
<1>1. SafeInv => IdsBelowCounter
  BY DEF SafeInv, NumberInv
<1>2. QED
  BY <1>1, Safety, PTL

\* A trip in progress always has a raw file, whatever the faults.
THEOREM TripRecorded == Spec => []TripHasRaw
<1>1. Init => HandleInv
  BY HandleInit
<1>2. TypeOK /\ HandleInv /\ [Next]_vars => HandleInv'
  BY HandleStep
<1>3. HandleInv => TripHasRaw
  BY DEF HandleInv
<1>4. QED
  BY <1>1, <1>2, <1>3, TypeCorrect, PTL DEF Spec

\* Completed sessions are never changed: by later trips, failing opens, or
\* power cuts.
THEOREM ArchiveKept == ASSUME NvsReliable PROVE Spec => MasterArchive
<1>1. TypeOK /\ TypeOK' /\ SafeInv /\ [Next]_vars
        => [Preserved(rawCard, rawCard') /\ Preserved(snapCard, snapCard')]_vars
  BY OpenStep
<1>2. QED
  BY <1>1, Safety, TypeCorrect, PTL DEF Spec, MasterArchive

-----------------------------------------------------------------------------
(* The logger implements the session archive, with each kind of file.      *)

\* The rows of the files before and after a step.
LEMMA GrownRows ==
    ASSUME NEW card, NEW card2, NEW file \in DOMAIN card, NEW row,
           card[file].rows \in Seq(Row), Grown(card, card2, file, row)
    PROVE  LET a == RowsOf(card)  b == RowsOf(card2) IN
           /\ b = [a EXCEPT ![file] = Append(a[file], row)]
           /\ Len(b[file]) = Len(a[file]) + 1
           /\ b[file][Len(b[file])] = row
<1>1. /\ RowsOf(card2) = [i \in DOMAIN card |-> card2[i].rows]
      /\ card2[file].rows = Append(card[file].rows, row)
      /\ \A i \in DOMAIN card \ {file} : card2[i].rows = card[i].rows
  BY DEF Grown, RowsOf
<1>2. RowsOf(card2) = [RowsOf(card) EXCEPT ![file] = Append(card[file].rows, row)]
  BY <1>1 DEF RowsOf
<1>3. /\ Len(Append(card[file].rows, row)) = Len(card[file].rows) + 1
      /\ Append(card[file].rows, row)[Len(card[file].rows) + 1] = row
  OBVIOUS
<1>4. RowsOf(card)[file] = card[file].rows /\ RowsOf(card2)[file] = card2[file].rows
  BY <1>1 DEF RowsOf
<1>5. QED
  BY <1>1, <1>2, <1>3, <1>4

LEMMA CutRows ==
    ASSUME NEW card, NEW card2, NEW file, Abandoned(card, file, card2, NoFile)
    PROVE  \E k \in 0..Len(RowsOf(card)[file]) :
             RowsOf(card2) = [RowsOf(card) EXCEPT ![file] = SubSeq(RowsOf(card)[file], 1, k)]
<1>1. PICK k \in 0..Len(card[file].rows) : card2[file] = Cut(card[file], k)
  BY DEF Abandoned
<1>2. /\ RowsOf(card2) = [i \in DOMAIN card |-> card2[i].rows]
      /\ card2[file].rows = SubSeq(card[file].rows, 1, k)
      /\ \A i \in DOMAIN card \ {file} : card2[i].rows = card[i].rows
  BY <1>1 DEF Abandoned, RowsOf, Cut
<1>3. RowsOf(card2) = [RowsOf(card) EXCEPT ![file] = SubSeq(card[file].rows, 1, k)]
  BY <1>2 DEF RowsOf
<1>4. RowsOf(card)[file] = card[file].rows
  BY DEF Abandoned, RowsOf
<1>5. QED
  BY <1>1, <1>3, <1>4

LEMMA RawArchiveInit == Init => Raw!ArchiveInit
BY DEF Init, Raw!ArchiveInit, RowsOf

LEMMA RawArchiveStep ==
    ASSUME TypeOK, SafeInv, [Next]_vars
    PROVE  [Raw!ArchiveNext]_(Raw!avars)
<1>1. CardStep(rawCard, rawFile, rawCard', rawFile', RawRows)
  BY RawStep DEF SafeInv, NumberFresh
<1>2. IsCard(rawCard) /\ currentSession \in Nat /\ NoFile \notin Nat
  BY ConstantsAssumption DEF TypeOK
<1>3. rawFile \in DOMAIN rawCard =>
        rawCard[rawFile] \in File /\ rawCard[rawFile].rows \in Seq(Row) /\ rawFile # NoFile
  BY <1>2 DEF IsCard, File
<1>4. CASE rawCard' = rawCard /\ rawFile' = rawFile
  BY <1>4 DEF Raw!avars, RowsOf
<1>5. CASE Begun(rawCard, rawFile, rawCard', rawFile')
  <2>1. /\ DOMAIN RowsOf(rawCard) = DOMAIN rawCard
        /\ \A i \in DOMAIN rawCard : i < currentSession
    BY <1>5 DEF RowsOf, Begun
  <2>2. RowsOf(rawCard)' = [i \in DOMAIN rawCard \cup {currentSession} |->
                            IF i = currentSession THEN <<>> ELSE RowsOf(rawCard)[i]]
    BY <1>5 DEF RowsOf, Begun, Create, EmptyFile
  <2>3. Raw!Begin(currentSession)
    BY <1>5, <2>1, <2>2 DEF Raw!Begin, Begun
  <2>4. currentSession \in DOMAIN RowsOf(rawCard)' /\ currentSession \in Nat \ {0}
    BY <1>2, <1>5, <2>2 DEF Begun
  <2>5. QED
    BY <2>3, <2>4 DEF Raw!ArchiveNext
<1>6. CASE /\ rawFile \in DOMAIN rawCard /\ rawFile' = rawFile
           /\ \E row \in RawRows : Grown(rawCard, rawCard', rawFile, row)
  <2>1. PICK row \in RawRows : Grown(rawCard, rawCard', rawFile, row)
    BY <1>6
  <2>2. LET a == RowsOf(rawCard)  b == RowsOf(rawCard') IN
        /\ b = [a EXCEPT ![rawFile] = Append(a[rawFile], row)]
        /\ Len(b[rawFile]) = Len(a[rawFile]) + 1
        /\ b[rawFile][Len(b[rawFile])] = row
    BY <1>3, <1>6, <2>1, GrownRows
  <2>3. Raw!Record
    BY <1>3, <1>6, <2>2 DEF Raw!Record, Raw!Grow, RawRows, RowsOf
  <2>4. QED
    BY <2>3 DEF Raw!ArchiveNext
<1>7. CASE /\ rawFile \in DOMAIN rawCard /\ rawFile' = NoFile
           /\ \E row \in Summary : Grown(rawCard, rawCard', rawFile, row)
  <2>1. PICK row \in Summary : Grown(rawCard, rawCard', rawFile, row)
    BY <1>7
  <2>2. LET a == RowsOf(rawCard)  b == RowsOf(rawCard') IN
        /\ b = [a EXCEPT ![rawFile] = Append(a[rawFile], row)]
        /\ Len(b[rawFile]) = Len(a[rawFile]) + 1
        /\ b[rawFile][Len(b[rawFile])] = row
    BY <1>3, <1>7, <2>1, GrownRows
  <2>3. Raw!Complete
    BY <1>3, <1>7, <2>2 DEF Raw!Complete, Raw!Grow, RowsOf
  <2>4. QED
    BY <2>3 DEF Raw!ArchiveNext
<1>8. CASE Abandoned(rawCard, rawFile, rawCard', rawFile')
  <2>1. rawFile' = NoFile /\ rawFile # NoFile
    BY <1>3, <1>8 DEF Abandoned
  <2>2. \E k \in 0..Len(RowsOf(rawCard)[rawFile]) :
          RowsOf(rawCard') = [RowsOf(rawCard) EXCEPT ![rawFile] =
                             SubSeq(RowsOf(rawCard)[rawFile], 1, k)]
    BY <1>8, <2>1, CutRows
  <2>3. Raw!Abandon
    BY <2>1, <2>2 DEF Raw!Abandon, RowsOf
  <2>4. QED
    BY <2>3 DEF Raw!ArchiveNext
<1>9. QED
  BY <1>1, <1>4, <1>5, <1>6, <1>7, <1>8 DEF CardStep

LEMMA SnapArchiveInit == Init => Snap!ArchiveInit
BY DEF Init, Snap!ArchiveInit, RowsOf

LEMMA SnapArchiveStep ==
    ASSUME TypeOK, SafeInv, [Next]_vars
    PROVE  [Snap!ArchiveNext]_(Snap!avars)
<1>1. CardStep(snapCard, snapFile, snapCard', snapFile', SnapRows)
  BY SnapStep DEF SafeInv, NumberFresh
<1>2. IsCard(snapCard) /\ currentSession \in Nat /\ NoFile \notin Nat
  BY ConstantsAssumption DEF TypeOK
<1>3. snapFile \in DOMAIN snapCard =>
        snapCard[snapFile] \in File /\ snapCard[snapFile].rows \in Seq(Row) /\ snapFile # NoFile
  BY <1>2 DEF IsCard, File
<1>4. CASE snapCard' = snapCard /\ snapFile' = snapFile
  BY <1>4 DEF Snap!avars, RowsOf
<1>5. CASE Begun(snapCard, snapFile, snapCard', snapFile')
  <2>1. /\ DOMAIN RowsOf(snapCard) = DOMAIN snapCard
        /\ \A i \in DOMAIN snapCard : i < currentSession
    BY <1>5 DEF RowsOf, Begun
  <2>2. RowsOf(snapCard)' = [i \in DOMAIN snapCard \cup {currentSession} |->
                            IF i = currentSession THEN <<>> ELSE RowsOf(snapCard)[i]]
    BY <1>5 DEF RowsOf, Begun, Create, EmptyFile
  <2>3. Snap!Begin(currentSession)
    BY <1>5, <2>1, <2>2 DEF Snap!Begin, Begun
  <2>4. currentSession \in DOMAIN RowsOf(snapCard)' /\ currentSession \in Nat \ {0}
    BY <1>2, <1>5, <2>2 DEF Begun
  <2>5. QED
    BY <2>3, <2>4 DEF Snap!ArchiveNext
<1>6. CASE /\ snapFile \in DOMAIN snapCard /\ snapFile' = snapFile
           /\ \E row \in SnapRows : Grown(snapCard, snapCard', snapFile, row)
  <2>1. PICK row \in SnapRows : Grown(snapCard, snapCard', snapFile, row)
    BY <1>6
  <2>2. LET a == RowsOf(snapCard)  b == RowsOf(snapCard') IN
        /\ b = [a EXCEPT ![snapFile] = Append(a[snapFile], row)]
        /\ Len(b[snapFile]) = Len(a[snapFile]) + 1
        /\ b[snapFile][Len(b[snapFile])] = row
    BY <1>3, <1>6, <2>1, GrownRows
  <2>3. Snap!Record
    BY <1>3, <1>6, <2>2 DEF Snap!Record, Snap!Grow, SnapRows, RowsOf
  <2>4. QED
    BY <2>3 DEF Snap!ArchiveNext
<1>7. CASE /\ snapFile \in DOMAIN snapCard /\ snapFile' = NoFile
           /\ \E row \in Summary : Grown(snapCard, snapCard', snapFile, row)
  <2>1. PICK row \in Summary : Grown(snapCard, snapCard', snapFile, row)
    BY <1>7
  <2>2. LET a == RowsOf(snapCard)  b == RowsOf(snapCard') IN
        /\ b = [a EXCEPT ![snapFile] = Append(a[snapFile], row)]
        /\ Len(b[snapFile]) = Len(a[snapFile]) + 1
        /\ b[snapFile][Len(b[snapFile])] = row
    BY <1>3, <1>7, <2>1, GrownRows
  <2>3. Snap!Complete
    BY <1>3, <1>7, <2>2 DEF Snap!Complete, Snap!Grow, RowsOf
  <2>4. QED
    BY <2>3 DEF Snap!ArchiveNext
<1>8. CASE Abandoned(snapCard, snapFile, snapCard', snapFile')
  <2>1. snapFile' = NoFile /\ snapFile # NoFile
    BY <1>3, <1>8 DEF Abandoned
  <2>2. \E k \in 0..Len(RowsOf(snapCard)[snapFile]) :
          RowsOf(snapCard') = [RowsOf(snapCard) EXCEPT ![snapFile] =
                             SubSeq(RowsOf(snapCard)[snapFile], 1, k)]
    BY <1>8, <2>1, CutRows
  <2>3. Snap!Abandon
    BY <2>1, <2>2 DEF Snap!Abandon, RowsOf
  <2>4. QED
    BY <2>3 DEF Snap!ArchiveNext
<1>9. QED
  BY <1>1, <1>4, <1>5, <1>6, <1>7, <1>8 DEF CardStep

\* With a counter that NVS keeps, the raw files are a session archive.
THEOREM RawRefinement == ASSUME NvsReliable PROVE Spec => RawIsArchive
<1>1. TypeOK /\ SafeInv /\ [Next]_vars => [Raw!ArchiveNext]_(Raw!avars)
  BY RawArchiveStep
<1>2. QED
  BY <1>1, RawArchiveInit, Safety, TypeCorrect, PTL
     DEF Spec, RawIsArchive, Raw!ArchiveSpec

\* So are the snapshot files, which are what the phone is served.
THEOREM SnapRefinement == ASSUME NvsReliable PROVE Spec => SnapIsArchive
<1>1. TypeOK /\ SafeInv /\ [Next]_vars => [Snap!ArchiveNext]_(Snap!avars)
  BY SnapArchiveStep
<1>2. QED
  BY <1>1, SnapArchiveInit, Safety, TypeCorrect, PTL
     DEF Spec, SnapIsArchive, Snap!ArchiveSpec
=============================================================================

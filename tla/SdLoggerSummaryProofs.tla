----------------------- MODULE SdLoggerSummaryProofs ------------------------
(* Theorems about the summary rows of SdLogger: the peak they carry, and    *)
(* the order in which the two files of a session get theirs; and about the *)
(* snapshot each trip is given.                                            *)
EXTENDS SdLoggerProofs

-----------------------------------------------------------------------------
(* Which step completes a file.                                            *)

\* An open raw file is closed by the end of the trip, or by the power.
LEMMA RawKeptOpen ==
    ASSUME TypeOK, HandleInv, [Next]_vars, rawFile # NoFile, ~EndCloseRaw, ~Reset
    PROVE  rawFile' = rawFile
<1>1. pc \notin {"open_raw", "start_raw"}
  BY DEF HandleInv
<1>2. /\ ~BootOpenRaw /\ ~StartOpenRaw
  BY <1>1 DEF BootOpenRaw, StartOpenRaw
<1>3. CASE UNCHANGED vars
  BY <1>3 DEF vars, handles
<1>4. CASE \E c \in Currents \cup {NoCurrent} : LogFrame(c)
  BY <1>4 DEF LogFrame, handles
<1>5. CASE \E type \in {"TRIP_START", "TRIP_END"} : PostMarker(type)
  BY <1>5 DEF PostMarker, handles
<1>6. CASE WaitRotate \/ CreateSem \/ SdInit \/ BootLoad \/ BootOpenSnap
  BY <1>6 DEF WaitRotate, CreateSem, SdInit, BootLoad, BootOpenSnap, handles
<1>7. CASE WriteRawFrame \/ SkipRawFrame \/ TripStart \/ StartOpenSnap \/ StartArm
  BY <1>7 DEF WriteRawFrame, SkipRawFrame, TripStart, StartOpenSnap, StartArm, handles
<1>8. CASE EndIgnored \/ TripEnd \/ EndCloseSnap \/ EndRotate \/ EndGive
  BY <1>8 DEF EndIgnored, TripEnd, EndCloseSnap, EndRotate, EndGive, handles
<1>9. QED
  BY <1>2, <1>3, <1>4, <1>5, <1>6, <1>7, <1>8 DEF Next, LoggerStep

LEMMA SnapKeptOpen ==
    ASSUME TypeOK, HandleInv, [Next]_vars, snapFile # NoFile, ~EndCloseSnap, ~Reset
    PROVE  snapFile' = snapFile
<1>1. pc # "open_snap"
  BY DEF HandleInv
<1>2. ~BootOpenSnap
  BY <1>1 DEF BootOpenSnap
<1>3. CASE UNCHANGED vars
  BY <1>3 DEF vars, handles
<1>4. CASE \E c \in Currents \cup {NoCurrent} : LogFrame(c)
  BY <1>4 DEF LogFrame, handles
<1>5. CASE \E type \in {"TRIP_START", "TRIP_END"} : PostMarker(type)
  BY <1>5 DEF PostMarker, handles
<1>6. CASE WaitRotate \/ CreateSem \/ SdInit \/ BootLoad \/ BootOpenRaw
  BY <1>6 DEF WaitRotate, CreateSem, SdInit, BootLoad, BootOpenRaw, handles
<1>7. CASE WriteRawFrame \/ SkipRawFrame \/ TripStart \/ StartOpenRaw \/ StartOpenSnap \/ StartArm
  BY <1>7 DEF WriteRawFrame, SkipRawFrame, TripStart, StartOpenRaw, StartOpenSnap, StartArm, handles
<1>8. CASE EndIgnored \/ TripEnd \/ EndCloseRaw \/ EndRotate \/ EndGive
  BY <1>8 DEF EndIgnored, TripEnd, EndCloseRaw, EndRotate, EndGive, handles
<1>9. QED
  BY <1>2, <1>3, <1>4, <1>5, <1>6, <1>7, <1>8 DEF Next, LoggerStep

\* The last row of a file to which one was added, and the rows before it.
LEMMA LastRow ==
    ASSUME NEW rows \in Seq(Row), NEW row
    PROVE  /\ DOMAIN rows = 1..Len(rows) /\ Len(rows) \in Nat
           /\ Append(rows, row) # <<>>
           /\ Len(Append(rows, row)) = Len(rows) + 1
           /\ DOMAIN Append(rows, row) = 1..(Len(rows) + 1)
           /\ Append(rows, row)[Len(rows) + 1] = row
           /\ \A i \in 1..Len(rows) : Append(rows, row)[i] = rows[i]
OBVIOUS

\* A file without a summary is not complete, and a first part of it neither.
LEMMA Unfinished ==
    ASSUME NEW f \in File, NoSummary(f)
    PROVE  ~Completed(f) /\ \A k \in 0..Len(f.rows) : ~Completed(Cut(f, k))
<1>1. f.rows \in Seq(Row) /\ DOMAIN f.rows = 1..Len(f.rows) /\ Len(f.rows) \in Nat
  BY DEF File
<1>2. ~Completed(f)
  BY <1>1 DEF Completed, NoSummary
<1>3. ASSUME NEW k \in 0..Len(f.rows) PROVE ~Completed(Cut(f, k))
  <2>1. /\ Len(SubSeq(f.rows, 1, k)) = k
        /\ \A i \in 1..k : SubSeq(f.rows, 1, k)[i] = f.rows[i]
    BY <1>1, SubSeqProperties
  <2>2. k # 0 => k \in DOMAIN f.rows /\ SubSeq(f.rows, 1, k)[k].type # "TRIP_END"
    BY <1>1, <2>1 DEF NoSummary
  <2>3. SubSeq(f.rows, 1, 0) = <<>>
    BY <1>1
  <2>4. QED
    BY <2>1, <2>2, <2>3 DEF Completed, Cut
<1>4. QED
  BY <1>2, <1>3

\* After a step of a card that leaves its open file open or is a cut, the
\* completed files are those of before.
LEMMA NoNewSummary ==
    ASSUME NEW card, IsCard(card), NEW card2, IsCard(card2), NEW file, NEW file2,
           NEW rows \in SUBSET Row, \A row \in rows : row.type # "TRIP_END",
           CardStep(card, file, card2, file2, rows), OpenUnfinished(card, file),
           file \in DOMAIN card => file2 = file \/ Abandoned(card, file, card2, file2),
           NoFile \notin DOMAIN card,
           NEW id \in DOMAIN card2, Completed(card2[id])
    PROVE  id \in DOMAIN card /\ Completed(card[id]) /\ card2[id] = card[id]
<1>1. CASE card2 = card
  BY <1>1
<1>2. CASE Begun(card, file, card2, file2)
  BY <1>2 DEF Begun, Create, EmptyFile, Completed
<1>3. CASE file \in DOMAIN card /\ \E row \in rows : Grown(card, card2, file, row)
  <2>1. PICK row \in rows : Grown(card, card2, file, row)
    BY <1>3
  <2>2. card[file].rows \in Seq(Row)
    BY <1>3 DEF IsCard, File
  <2>3. id # file
    BY <2>1, <2>2, LastRow DEF Grown, Completed
  <2>4. QED
    BY <2>1, <2>3 DEF Grown
<1>4. CASE Abandoned(card, file, card2, file2)
  <2>1. card[file] \in File /\ NoSummary(card[file])
    BY <1>4 DEF Abandoned, IsCard, OpenUnfinished
  <2>2. ~Completed(card2[file])
    BY <1>4, <2>1, Unfinished DEF Abandoned
  <2>3. QED
    BY <1>4, <2>2 DEF Abandoned
<1>5. CASE file \in DOMAIN card /\ file2 = NoFile /\ ~Abandoned(card, file, card2, file2)
  BY <1>5
<1>6. QED
  BY <1>1, <1>2, <1>3, <1>4, <1>5 DEF CardStep

\* Only the end of a trip completes a raw file.
LEMMA RawSummary ==
    ASSUME TypeOK, TypeOK', SafeInv, [Next]_vars, ~EndCloseRaw,
           NEW id \in DOMAIN rawCard', Completed(rawCard'[id])
    PROVE  id \in DOMAIN rawCard /\ Completed(rawCard[id]) /\ rawCard'[id] = rawCard[id]
<1>1. CardStep(rawCard, rawFile, rawCard', rawFile', RawRows)
  BY RawStep DEF SafeInv, NumberFresh
<1>2. /\ IsCard(rawCard) /\ IsCard(rawCard') /\ NoFile \notin DOMAIN rawCard
      /\ rawFile \in DOMAIN rawCard \cup {NoFile}
  BY ConstantsAssumption DEF TypeOK, IsCard
<1>3. RawRows \in SUBSET Row /\ \A row \in RawRows : row.type # "TRIP_END"
  BY RowTypes DEF RawRows, Frame, StartRow
<1>4. OpenUnfinished(rawCard, rawFile)
  BY DEF SafeInv, OpenInv, OpenUnfinished
<1>5. rawFile \in DOMAIN rawCard =>
        rawFile' = rawFile \/ Abandoned(rawCard, rawFile, rawCard', rawFile')
  <2>1. CASE Reset
    <3>1. rawCard' \in Surviving(rawCard, rawFile) /\ rawFile' = NoFile
      BY <2>1 DEF Reset, Restart, Boot
    <3>2. QED
      BY <1>2, <3>1, SurvivingCard DEF Abandoned
  <2>2. CASE ~Reset
    BY <1>2, <2>2, RawKeptOpen DEF SafeInv
  <2>3. QED
    BY <2>1, <2>2
<1>6. QED
  BY <1>1, <1>2, <1>3, <1>4, <1>5, NoNewSummary

LEMMA SnapSummary ==
    ASSUME TypeOK, TypeOK', SafeInv, [Next]_vars, ~EndCloseSnap,
           NEW id \in DOMAIN snapCard', Completed(snapCard'[id])
    PROVE  id \in DOMAIN snapCard /\ Completed(snapCard[id]) /\ snapCard'[id] = snapCard[id]
<1>1. CardStep(snapCard, snapFile, snapCard', snapFile', SnapRows)
  BY SnapStep DEF SafeInv, NumberFresh
<1>2. /\ IsCard(snapCard) /\ IsCard(snapCard') /\ NoFile \notin DOMAIN snapCard
      /\ snapFile \in DOMAIN snapCard \cup {NoFile}
  BY ConstantsAssumption DEF TypeOK, IsCard
<1>3. SnapRows \in SUBSET Row /\ \A row \in SnapRows : row.type # "TRIP_END"
  BY RowTypes DEF SnapRows, SnapRow, StartRow
<1>4. OpenUnfinished(snapCard, snapFile)
  BY DEF SafeInv, OpenInv, OpenUnfinished
<1>5. snapFile \in DOMAIN snapCard =>
        snapFile' = snapFile \/ Abandoned(snapCard, snapFile, snapCard', snapFile')
  <2>1. CASE Reset
    <3>1. snapCard' \in Surviving(snapCard, snapFile) /\ snapFile' = NoFile
      BY <2>1 DEF Reset, Restart, Boot
    <3>2. QED
      BY <1>2, <3>1, SurvivingCard DEF Abandoned
  <2>2. CASE ~Reset
    BY <1>2, <2>2, SnapKeptOpen DEF SafeInv
  <2>3. QED
    BY <2>1, <2>2
<1>6. QED
  BY <1>1, <1>2, <1>3, <1>4, <1>5, NoNewSummary

-----------------------------------------------------------------------------
(* The snapshot file is complete before the raw file.                      *)

SnapFirstInv == SnapClosedInv /\ SnapCompleteFirst

\* The last row of a completed file is the summary it was given.
LEMMA ClosedFile ==
    ASSUME NEW f \in File, NEW p \in Int
    PROVE  LET g == Synced(Append1(f, EndRow(p))) IN
           /\ Completed(g)
           /\ g.rows = Append(f.rows, EndRow(p))
           /\ g.rows[Len(g.rows)] = EndRow(p)
<1>1. EndRow(p) \in Row /\ EndRow(p).type = "TRIP_END"
  BY RowTypes DEF EndRow
<1>2. f.rows \in Seq(Row)
  BY DEF File
<1>3. Synced(Append1(f, EndRow(p))).rows = Append(f.rows, EndRow(p))
  BY DEF Synced, Append1
<1>4. QED
  BY <1>1, <1>2, <1>3, LastRow DEF Completed

LEMMA SnapClosedStep ==
    ASSUME TypeOK, TypeOK', SafeInv, SnapClosedInv, [Next]_vars
    PROVE  SnapClosedInv'
<1>1. CASE EndCloseSnap
  <2>1. CASE snapFile = NoFile
    <3>1. currentSession \notin DOMAIN snapCard
      BY <1>1, <2>1 DEF EndCloseSnap, SafeInv, FreshInv, Unnumbered
    <3>2. QED
      BY <1>1, <2>1, <3>1 DEF EndCloseSnap, SnapClosedInv
  <2>2. CASE snapFile # NoFile
    <3>1. /\ snapFile = currentSession /\ snapFile \in DOMAIN snapCard
          /\ snapCard[snapFile] \in File /\ tripPeak \in Int
      BY <2>2 DEF SafeInv, HandleInv, TypeOK, IsCard
    <3>2. /\ snapCard'[currentSession] = Synced(Append1(snapCard[currentSession], EndRow(tripPeak)))
          /\ tripPeak' = tripPeak /\ currentSession' = currentSession
      BY <1>1, <2>2, <3>1 DEF EndCloseSnap, trip
    <3>3. QED
      BY <3>1, <3>2, ClosedFile DEF SnapClosedInv
  <2>3. QED
    BY <2>1, <2>2
<1>2. CASE pc = "end_raw" /\ pc' = "end_raw"
  <2>1. UNCHANGED <<snapCard, currentSession, tripPeak>>
    <3>1. CASE UNCHANGED vars
      BY <3>1 DEF vars, persistent, handles, trip
    <3>2. CASE \E c \in Currents \cup {NoCurrent} : LogFrame(c)
      BY <3>2 DEF LogFrame, persistent, handles, trip
    <3>3. CASE \E type \in {"TRIP_START", "TRIP_END"} : PostMarker(type)
      BY <3>3 DEF PostMarker, persistent, handles, trip
    <3>4. CASE WaitRotate
      BY <3>4 DEF WaitRotate, persistent, handles, trip
    <3>5. ~Reset
      BY <1>2 DEF Reset, Restart, Boot
    <3>6. ~LoggerStep
      BY <1>2 DEF LoggerStep, CreateSem, SdInit, BootLoad, BootOpenRaw, BootOpenSnap,
         WriteRawFrame, SkipRawFrame, TripStart, StartOpenRaw, StartOpenSnap, StartArm,
         EndIgnored, TripEnd, EndCloseSnap, EndCloseRaw, EndRotate, EndGive, Receive
    <3>7. QED
      BY <3>1, <3>2, <3>3, <3>4, <3>5, <3>6 DEF Next
  <2>2. QED
    BY <1>2, <2>1 DEF SnapClosedInv
<1>3. CASE pc # "end_raw" /\ ~EndCloseSnap
  <2>1. pc' # "end_raw"
    BY <1>3 DEF Next, LoggerStep, CreateSem, SdInit, BootLoad, BootOpenRaw, BootOpenSnap,
       WriteRawFrame, SkipRawFrame, TripStart, StartOpenRaw, StartOpenSnap, StartArm,
       EndIgnored, TripEnd, EndCloseRaw, EndRotate, EndGive, Reset, Restart, Boot,
       LogFrame, PostMarker, WaitRotate, vars
  <2>2. QED
    BY <2>1 DEF SnapClosedInv
<1>4. CASE pc' # "end_raw"
  BY <1>4 DEF SnapClosedInv
<1>5. QED
  BY <1>1, <1>2, <1>3, <1>4

LEMMA SnapFirstStep ==
    ASSUME TypeOK, TypeOK', SafeInv, SnapFirstInv, [Next]_vars
    PROVE  SnapFirstInv'
<1>1. SnapClosedInv'
  BY SnapClosedStep DEF SnapFirstInv
<1>2. ASSUME NEW id \in DOMAIN rawCard', id \in DOMAIN snapCard', Completed(rawCard'[id])
      PROVE  /\ Completed(snapCard'[id])
             /\ snapCard'[id].rows[Len(snapCard'[id].rows)] = rawCard'[id].rows[Len(rawCard'[id].rows)]
  <2>1. CASE EndCloseRaw /\ id = rawFile
    <3>1. /\ rawFile # NoFile /\ rawFile = currentSession /\ rawFile \in DOMAIN rawCard
          /\ rawCard[rawFile] \in File /\ tripPeak \in Int
      BY <1>2, <2>1, ConstantsAssumption DEF EndCloseRaw, TypeOK, IsCard, SafeInv, HandleInv
    <3>2. /\ rawCard'[id] = Synced(Append1(rawCard[id], EndRow(tripPeak)))
          /\ snapCard' = snapCard /\ pc = "end_raw"
      BY <2>1, <3>1 DEF EndCloseRaw
    <3>3. rawCard'[id].rows[Len(rawCard'[id].rows)] = EndRow(tripPeak)
      BY <2>1, <3>1, <3>2, ClosedFile
    <3>4. /\ Completed(snapCard[id])
          /\ snapCard[id].rows[Len(snapCard[id].rows)] = EndRow(tripPeak)
      BY <1>2, <2>1, <3>1, <3>2 DEF SnapFirstInv, SnapClosedInv
    <3>5. QED
      BY <3>2, <3>3, <3>4
  <2>2. CASE ~(EndCloseRaw /\ id = rawFile)
    <3>1. id \in DOMAIN rawCard /\ Completed(rawCard[id]) /\ rawCard'[id] = rawCard[id]
      <4>1. CASE EndCloseRaw
        BY <1>2, <2>2, <4>1 DEF EndCloseRaw
      <4>2. CASE ~EndCloseRaw
        BY <1>2, <4>2, RawSummary
      <4>3. QED
        BY <4>1, <4>2
    <3>2. id \in DOMAIN snapCard
      <4>1. CardStep(snapCard, snapFile, snapCard', snapFile', SnapRows)
        BY SnapStep DEF SafeInv, NumberFresh
      <4>2. ASSUME id \notin DOMAIN snapCard PROVE FALSE
        <5>1. Begun(snapCard, snapFile, snapCard', snapFile')
          BY <1>2, <4>1, <4>2 DEF CardStep, Grown, Abandoned
        <5>2. id = currentSession
          BY <1>2, <4>2, <5>1 DEF Begun, Create
        <5>3. BootOpenSnap \/ StartOpenSnap
          BY <1>2, <4>2, SameDomains DEF Next, LoggerStep, vars, persistent, handles, LogFrame,
             PostMarker, WaitRotate, CreateSem, SdInit, BootLoad, BootOpenRaw, SkipRawFrame,
             TripStart, StartOpenRaw, EndIgnored, TripEnd, EndRotate, EndGive
        <5>4. rawFile = NoFile => currentSession \notin DOMAIN rawCard
          BY <5>3 DEF SafeInv, FreshInv, Unnumbered, BootOpenSnap, StartOpenSnap
        <5>5. rawFile # NoFile => NoSummary(rawCard[currentSession])
          BY DEF SafeInv, OpenInv, HandleInv
        <5>6. rawCard[id] \in File
          BY <3>1 DEF TypeOK, IsCard
        <5>7. QED
          BY <3>1, <5>2, <5>4, <5>5, <5>6, Unfinished
      <4>3. QED
        BY <4>2
    <3>3. /\ Completed(snapCard[id])
          /\ snapCard[id].rows[Len(snapCard[id].rows)] = rawCard[id].rows[Len(rawCard[id].rows)]
      BY <3>1, <3>2 DEF SnapFirstInv, SnapCompleteFirst
    <3>4. snapCard'[id] = snapCard[id]
      BY <3>2, <3>3, OpenStep DEF Preserved
    <3>5. QED
      BY <3>1, <3>3, <3>4
  <2>3. QED
    BY <2>1, <2>2
<1>3. SnapCompleteFirst'
  BY <1>2 DEF SnapCompleteFirst
<1>4. QED
  BY <1>1, <1>3 DEF SnapFirstInv

\* A session whose raw file is complete has its snapshot file complete, with
\* the same summary, or none at all.
THEOREM SnapFirst == ASSUME NvsReliable PROVE Spec => []SnapCompleteFirst
<1>1. Init => SnapFirstInv
  BY DEF Init, SnapFirstInv, SnapClosedInv, SnapCompleteFirst
<1>2. TypeOK /\ TypeOK' /\ SafeInv /\ SnapFirstInv /\ [Next]_vars => SnapFirstInv'
  BY SnapFirstStep
<1>3. SnapFirstInv => SnapCompleteFirst
  BY DEF SnapFirstInv
<1>4. QED
  BY <1>1, <1>2, <1>3, Safety, TypeCorrect, PTL DEF Spec

-----------------------------------------------------------------------------
(* The peak in the summary is that of the rows of the trip.                *)

\* Every current but the smallest int32 has a magnitude the code computes.
NoEdgeCurrent == IntMin \notin Currents

Magnitude(c) == IF c < 0 THEN -c ELSE c

\* A row that counts for the peak.
Counts(row) == row.type = "FRAME" /\ row.current # NoCurrent

LEMMA MagnitudeMember ==
    ASSUME NEW rows
    PROVE  TripMagnitudes(rows) =
             {Magnitude(rows[i].current) : i \in {j \in SinceStart(rows) : Counts(rows[j])}}
BY DEF TripMagnitudes, Counts, Magnitude

\* What one more row does to the rows of the last trip.
LEMMA SinceAppend ==
    ASSUME NEW rows \in Seq(Row), NEW row
    PROVE  /\ row.type = "TRIP_START" => SinceStart(Append(rows, row)) = {}
           /\ row.type # "TRIP_START"
                => SinceStart(Append(rows, row)) = SinceStart(rows) \cup {Len(rows) + 1}
<1> DEFINE n == Len(rows)
           more == Append(rows, row)
<1>1. /\ n \in Nat /\ DOMAIN rows = 1..n /\ DOMAIN more = 1..(n + 1)
      /\ more[n + 1] = row /\ \A i \in 1..n : more[i] = rows[i]
  BY LastRow
<1> HIDE DEF n, more
<1>2. ASSUME row.type = "TRIP_START" PROVE SinceStart(more) = {}
  BY <1>1, <1>2 DEF SinceStart
<1>3. ASSUME row.type # "TRIP_START" PROVE SinceStart(more) = SinceStart(rows) \cup {n + 1}
  <2>1. ASSUME NEW i \in SinceStart(more) PROVE i \in SinceStart(rows) \cup {n + 1}
    BY <1>1, <2>1 DEF SinceStart
  <2>2. ASSUME NEW i \in SinceStart(rows) PROVE i \in SinceStart(more)
    BY <1>1, <1>3, <2>2 DEF SinceStart
  <2>3. n + 1 \in SinceStart(more)
    BY <1>1, <1>3 DEF SinceStart
  <2>4. QED
    BY <2>1, <2>2, <2>3
<1>4. QED
  BY <1>2, <1>3 DEF n, more

\* What one more row does to the magnitudes of the last trip.
LEMMA MagnitudesAppend ==
    ASSUME NEW rows \in Seq(Row), NEW row
    PROVE  LET more == TripMagnitudes(Append(rows, row)) IN
           /\ row.type = "TRIP_START" => more = {}
           /\ row.type # "TRIP_START" /\ ~Counts(row) => more = TripMagnitudes(rows)
           /\ Counts(row) => more = TripMagnitudes(rows) \cup {Magnitude(row.current)}
<1> DEFINE n == Len(rows)
           longer == Append(rows, row)
           Of(r) == {j \in SinceStart(r) : Counts(r[j])}
<1>1. /\ n \in Nat /\ longer[n + 1] = row /\ \A i \in 1..n : longer[i] = rows[i]
  BY LastRow
<1>2. SinceStart(rows) \subseteq 1..n
  BY LastRow DEF SinceStart
<1>3. /\ row.type = "TRIP_START" => SinceStart(longer) = {}
      /\ row.type # "TRIP_START" => SinceStart(longer) = SinceStart(rows) \cup {n + 1}
  BY SinceAppend
<1>4. /\ TripMagnitudes(rows) = {Magnitude(rows[i].current) : i \in Of(rows)}
      /\ TripMagnitudes(longer) = {Magnitude(longer[i].current) : i \in Of(longer)}
  BY MagnitudeMember
<1> HIDE DEF n, longer
<1>5. ASSUME row.type = "TRIP_START" PROVE TripMagnitudes(longer) = {}
  BY <1>3, <1>4, <1>5
<1>6. ASSUME row.type # "TRIP_START", ~Counts(row)
      PROVE  TripMagnitudes(longer) = TripMagnitudes(rows)
  <2>1. Of(longer) = Of(rows)
    BY <1>1, <1>2, <1>3, <1>6
  <2>2. \A i \in Of(rows) : longer[i] = rows[i]
    BY <1>1, <1>2
  <2>3. QED
    BY <1>4, <2>1, <2>2
<1>7. ASSUME Counts(row)
      PROVE  TripMagnitudes(longer) = TripMagnitudes(rows) \cup {Magnitude(row.current)}
  <2>0. row.type # "TRIP_START"
    BY <1>7 DEF Counts
  <2>1. Of(longer) = Of(rows) \cup {n + 1}
    BY <1>1, <1>2, <1>3, <1>7, <2>0
  <2>2. \A i \in Of(rows) : longer[i] = rows[i]
    BY <1>1, <1>2
  <2>3. QED
    BY <1>1, <1>4, <2>1, <2>2
<1>8. QED
  BY <1>5, <1>6, <1>7 DEF longer

\* TrackPeak, at one frame of the trip, keeps the peak of the rows.
LEMMA PeakFollows ==
    ASSUME NoEdgeCurrent, NEW rows \in Seq(Row), NEW frame \in Frame,
           tripPeak \in Nat, IsPeak(tripPeak, rows), tripActive, TrackPeak(frame.current)
    PROVE  IsPeak(tripPeak', Append(rows, frame))
<1>1. frame.type = "FRAME" /\ frame.current \in Currents \cup {NoCurrent}
  BY DEF Frame
<1>2. CASE frame.current = NoCurrent
  <2>1. TripMagnitudes(Append(rows, frame)) = TripMagnitudes(rows)
    BY <1>1, <1>2, MagnitudesAppend DEF Counts
  <2>2. tripPeak' = tripPeak
    BY <1>2 DEF TrackPeak
  <2>3. QED
    BY <2>1, <2>2 DEF IsPeak
<1>3. CASE frame.current # NoCurrent
  <2>1. TripMagnitudes(Append(rows, frame))
          = TripMagnitudes(rows) \cup {Magnitude(frame.current)}
    BY <1>1, <1>3, MagnitudesAppend DEF Counts
  <2>2. /\ frame.current \in Int /\ frame.current # IntMin
        /\ AbsMa(frame.current) = Magnitude(frame.current)
        /\ Magnitude(frame.current) \in Nat
    <3>1. frame.current \in Currents /\ frame.current \in Int /\ frame.current # IntMin
      BY <1>1, <1>3, ConstantsAssumption DEF NoEdgeCurrent
    <3>2. QED
      BY <3>1 DEF AbsMa, Magnitude
  <2>3. tripPeak' = IF Magnitude(frame.current) > tripPeak
                    THEN Magnitude(frame.current) ELSE tripPeak
    BY <1>3, <2>2 DEF TrackPeak
  <2>4. TripMagnitudes(rows) \subseteq Int
    <3>1. ASSUME NEW i \in SinceStart(rows), Counts(rows[i])
          PROVE  Magnitude(rows[i].current) \in Int
      <4>1. rows[i] \in Row
        BY DEF SinceStart
      <4>2. rows[i] \in Frame
        BY <3>1, <4>1 DEF Row, Counts, StartRow, SnapRow
      <4>3. rows[i].current \in Int
        BY <3>1, <4>2, ConstantsAssumption DEF Frame, Counts
      <4>4. QED
        BY <4>3 DEF Magnitude
    <3>2. QED
      BY <3>1, MagnitudeMember
  <2>5. QED
    BY <2>1, <2>2, <2>3, <2>4 DEF IsPeak
<1>4. QED
  BY <1>2, <1>3
InTrip == tripActive \/ pc \in {"end_snap", "end_raw"}

LEMMA PeakStep ==
    ASSUME NoEdgeCurrent, TypeOK, TypeOK', SafeInv, PeakInv, [Next]_vars
    PROVE  PeakInv'
<1>1. InTrip => rawFile # NoFile /\ rawFile \in DOMAIN rawCard /\ rawCard[rawFile] \in File
  BY DEF InTrip, SafeInv, HandleInv, TripHasRaw, TypeOK, IsCard
<1>2. InTrip => IsPeak(tripPeak, rawCard[rawFile].rows)
  BY DEF InTrip, PeakInv
<1>3. ASSUME UNCHANGED <<rawCard, rawFile, tripPeak>>, InTrip' => InTrip
      PROVE  PeakInv'
  BY <1>2, <1>3 DEF InTrip, PeakInv
<1>4. ASSUME ~InTrip' PROVE PeakInv'
  BY <1>4 DEF InTrip, PeakInv
<1>5. CASE StartArm
  <2>1. rawFile # NoFile /\ rawFile \in DOMAIN rawCard /\ rawCard[rawFile] \in File
    BY <1>5 DEF StartArm, SafeInv, HandleInv, TypeOK, IsCard
  <2>2. /\ rawFile' = rawFile /\ tripPeak' = 0
        /\ rawCard'[rawFile] = Flushed(Append1(rawCard[rawFile], StartRow))
    BY <1>5, <2>1 DEF StartArm, ArmTrip, handles
  <2>3. rawCard'[rawFile].rows = Append(rawCard[rawFile].rows, StartRow)
    BY ZenonT(30), <2>1, <2>2, FileOps, RowTypes
  <2>4. rawCard[rawFile].rows \in Seq(Row) /\ StartRow.type = "TRIP_START"
    BY <2>1 DEF File, StartRow
  <2>5. TripMagnitudes(Append(rawCard[rawFile].rows, StartRow)) = {}
    BY <2>4, MagnitudesAppend
  <2>6. QED
    BY <2>2, <2>3, <2>5 DEF PeakInv, IsPeak
<1>6. CASE WriteRawFrame
  <2>1. CASE ~tripActive
    <3>1. ~InTrip'
      BY <1>6, <2>1 DEF WriteRawFrame, Receive, InTrip
    <3>2. QED
      BY <1>4, <3>1
  <2>2. CASE tripActive
    <3>1. rawFile \in DOMAIN rawCard /\ rawCard[rawFile] \in File
      BY <1>1, <2>2 DEF InTrip
    <3>2. Head(logQueue) \in Frame /\ Head(logQueue) \in Row
      BY <1>6, ReceiveType, RowTypes DEF WriteRawFrame
    <3>3. rawCard'[rawFile].rows = Append(rawCard[rawFile].rows, Head(logQueue))
      <4>1. Append1(rawCard[rawFile], Head(logQueue)) \in File
        BY <3>1, <3>2, FileOps
      <4>2. /\ Append1(rawCard[rawFile], Head(logQueue)).rows
                 = Append(rawCard[rawFile].rows, Head(logQueue))
            /\ Flushed(Append1(rawCard[rawFile], Head(logQueue))).rows
                 = Append(rawCard[rawFile].rows, Head(logQueue))
        BY <3>1, <3>2, <4>1, FileOps DEF Flushed, Synced
      <4>3. WriteRow(Head(logQueue))
        BY <1>6 DEF WriteRawFrame
      <4>4. QED
        BY <3>1, <4>2, <4>3 DEF WriteRow
    <3>4. rawFile' = rawFile /\ TrackPeak(Head(logQueue).current)
      BY <1>6 DEF WriteRawFrame, handles
    <3>5. IsPeak(tripPeak', Append(rawCard[rawFile].rows, Head(logQueue)))
      <4>1. rawCard[rawFile].rows \in Seq(Row) /\ tripPeak \in Nat
        BY <3>1 DEF File, TypeOK
      <4>2. QED
        BY <1>2, <2>2, <3>2, <3>4, <4>1, PeakFollows DEF InTrip
    <3>6. QED
      BY <3>3, <3>4, <3>5 DEF PeakInv
  <2>3. QED
    BY <2>1, <2>2
<1>7. CASE EndCloseRaw
  BY <1>4, <1>7 DEF EndCloseRaw, SafeInv, HandleInv, InTrip, trip
<1>8. CASE Reset
  BY <1>4, <1>8 DEF Reset, Restart, Boot, InTrip
<1>9. CASE BootOpenRaw \/ StartOpenRaw
  BY <1>4, <1>9 DEF BootOpenRaw, StartOpenRaw, SafeInv, HandleInv, InTrip, trip
<1>10. CASE UNCHANGED vars
  BY <1>3, <1>10 DEF vars, persistent, handles, trip, InTrip
<1>11. CASE \E c \in Currents \cup {NoCurrent} : LogFrame(c)
  BY <1>3, <1>11 DEF LogFrame, persistent, handles, trip, InTrip
<1>12. CASE \E type \in {"TRIP_START", "TRIP_END"} : PostMarker(type)
  BY <1>3, <1>12 DEF PostMarker, persistent, handles, trip, InTrip
<1>13. CASE WaitRotate \/ CreateSem \/ SdInit \/ BootLoad \/ BootOpenSnap
  BY <1>3, <1>13 DEF WaitRotate, CreateSem, SdInit, BootLoad, BootOpenSnap,
     persistent, handles, trip, InTrip
<1>14. CASE SkipRawFrame \/ TripStart \/ StartOpenSnap
  BY <1>3, <1>14 DEF SkipRawFrame, TripStart, StartOpenSnap, Receive,
     persistent, handles, trip, InTrip
<1>15. CASE EndIgnored \/ TripEnd \/ EndCloseSnap \/ EndRotate \/ EndGive
  BY <1>3, <1>15 DEF EndIgnored, TripEnd, EndCloseSnap, EndRotate, EndGive, Receive,
     persistent, handles, trip, InTrip
<1>16. QED
  BY <1>5, <1>6, <1>7, <1>8, <1>9, <1>10, <1>11, <1>12, <1>13, <1>14, <1>15
  DEF Next, LoggerStep

LEMMA MaximumStep ==
    ASSUME TypeOK, TypeOK', SafeInv, PeakInv, PeakIsTripMaximum, [Next]_vars
    PROVE  PeakIsTripMaximum'
<1> DEFINE Good(rows) == IsPeak(rows[Len(rows)].peak, rows)
<1>1. ASSUME NEW id \in DOMAIN rawCard', Completed(rawCard'[id])
      PROVE  Good(rawCard'[id].rows)
  <2>1. CASE EndCloseRaw /\ id = rawFile
    <3>1. /\ rawFile # NoFile /\ rawFile \in DOMAIN rawCard
          /\ rawCard[rawFile] \in File /\ tripPeak \in Int /\ pc = "end_raw"
      <4>1. /\ rawFile \in DOMAIN rawCard \cup {NoFile} /\ tripPeak \in Int
            /\ DOMAIN rawCard \subseteq Nat /\ rawCard \in [DOMAIN rawCard -> File]
        BY SMTT(30) DEF TypeOK, IsCard
      <4>2. pc = "end_raw" /\ (rawFile = NoFile => rawCard' = rawCard)
        BY <2>1 DEF EndCloseRaw
      <4>3. rawFile # NoFile
        BY <1>1, <2>1, <4>1, <4>2, ConstantsAssumption
      <4>4. QED
        BY <4>1, <4>2, <4>3
    <3>2. rawCard'[id] = Synced(Append1(rawCard[id], EndRow(tripPeak)))
      BY <2>1, <3>1 DEF EndCloseRaw
    <3>3. /\ rawCard'[id].rows = Append(rawCard[id].rows, EndRow(tripPeak))
          /\ rawCard'[id].rows[Len(rawCard'[id].rows)] = EndRow(tripPeak)
      BY <2>1, <3>1, <3>2, ClosedFile
    <3>4. TripMagnitudes(rawCard'[id].rows) = TripMagnitudes(rawCard[id].rows)
      BY <2>1, <3>1, <3>3, MagnitudesAppend DEF File, EndRow, Counts
    <3>5. IsPeak(tripPeak, rawCard[id].rows)
      BY <2>1, <3>1 DEF PeakInv
    <3>6. QED
      BY <3>3, <3>4, <3>5 DEF IsPeak, EndRow
  <2>2. CASE ~(EndCloseRaw /\ id = rawFile)
    <3>1. id \in DOMAIN rawCard /\ Completed(rawCard[id]) /\ rawCard'[id] = rawCard[id]
      <4>1. CASE EndCloseRaw
        BY <1>1, <2>2, <4>1 DEF EndCloseRaw
      <4>2. CASE ~EndCloseRaw
        BY <1>1, <4>2, RawSummary
      <4>3. QED
        BY <4>1, <4>2
    <3>2. QED
      BY <3>1 DEF PeakIsTripMaximum
  <2>3. QED
    BY <2>1, <2>2
<1>2. QED
  BY <1>1 DEF PeakIsTripMaximum

\* The peak in the summary of a session is the largest magnitude of the currents
\* logged since its last TRIP_START, whatever came before, between and after; the
\* smallest int32, which has no magnitude in the code, is taken to be no current.
THEOREM PeakCorrect == ASSUME NvsReliable, NoEdgeCurrent PROVE Spec => []PeakIsTripMaximum
<1>1. Init => PeakInv /\ PeakIsTripMaximum
  BY DEF Init, PeakInv, PeakIsTripMaximum
<1>2. TypeOK /\ TypeOK' /\ SafeInv /\ PeakInv /\ PeakIsTripMaximum /\ [Next]_vars
        => PeakInv' /\ PeakIsTripMaximum'
  BY PeakStep, MaximumStep
<1>3. QED
  BY <1>1, <1>2, Safety, TypeCorrect, PTL DEF Spec

-----------------------------------------------------------------------------
(* A trip that has logged a frame has a snapshot.                          *)

\* A row of its type since the last TRIP_START row, with one more row.
LEMMA TypesAppend ==
    ASSUME NEW rows \in Seq(Row), NEW row
    PROVE  /\ row.type = "TRIP_START" => ~FramesSince(Append(rows, row))
           /\ row.type = "SNAP1" => SnapsSince(Append(rows, row))
           /\ row.type # "TRIP_START" /\ SnapsSince(rows) => SnapsSince(Append(rows, row))
<1>1. /\ row.type = "TRIP_START" => SinceStart(Append(rows, row)) = {}
      /\ row.type # "TRIP_START"
           => SinceStart(Append(rows, row)) = SinceStart(rows) \cup {Len(rows) + 1}
  BY SinceAppend
<1>2. /\ Append(rows, row)[Len(rows) + 1] = row
      /\ \A i \in 1..Len(rows) : Append(rows, row)[i] = rows[i]
      /\ SinceStart(rows) \subseteq 1..Len(rows)
  BY LastRow DEF SinceStart
<1>3. QED
  BY <1>1, <1>2 DEF FramesSince, SnapsSince

\* WriteSnapshot adds a snapshot row to the snapshot file, if there is one.
LEMMA SnapshotWritten ==
    ASSUME TypeOK, WriteSnapshot, snapFile # NoFile
    PROVE  SnapsSince(snapCard'[snapFile].rows)
<1>1. snapFile \in DOMAIN snapCard /\ snapCard[snapFile] \in File
  BY DEF TypeOK, IsCard
<1>2. /\ Append1(snapCard[snapFile], SnapRow) \in File
      /\ Append1(snapCard[snapFile], SnapRow).rows = Append(snapCard[snapFile].rows, SnapRow)
      /\ Flushed(Append1(snapCard[snapFile], SnapRow)).rows = Append(snapCard[snapFile].rows, SnapRow)
  BY <1>1, FileOps, RowTypes
<1>3. snapCard'[snapFile].rows = Append(snapCard[snapFile].rows, SnapRow)
  BY <1>1, <1>2 DEF WriteSnapshot
<1>4. snapCard[snapFile].rows \in Seq(Row) /\ SnapRow.type = "SNAP1"
  BY <1>1 DEF File, SnapRow
<1>5. QED
  BY <1>3, <1>4, TypesAppend

LEMMA ForcedStep ==
    ASSUME TypeOK, HandleInv, HandleInv', ForcedInv, [Next]_vars
    PROVE  ForcedInv'
<1>0. /\ tripActive => rawFile # NoFile /\ rawFile \in DOMAIN rawCard
      /\ snapFile # NoFile => snapFile \in DOMAIN snapCard
      /\ IsCard(rawCard) /\ IsCard(snapCard)
  BY DEF HandleInv, TripHasRaw, TypeOK
<1>1. CASE pc' # "receive" \/ ~tripActive'
  BY <1>1 DEF ForcedInv
<1>2. CASE UNCHANGED <<pc, rawCard, snapCard, rawFile, snapFile, trip>>
  BY <1>2 DEF ForcedInv, trip
<1>3. CASE WriteRawFrame
  <2> SUFFICES ASSUME tripActive PROVE ForcedInv'
    BY <1>1, <1>3 DEF WriteRawFrame
  <2>1. /\ pc = "receive" /\ snapForced' = FALSE /\ snapFile' = snapFile
    BY <1>3 DEF WriteRawFrame, Receive, handles
  <2>2. snapFile # NoFile => SnapsSince(snapCard'[snapFile].rows)
    <3>1. CASE WriteSnapshot
      BY <3>1, SnapshotWritten
    <3>2. CASE ~WriteSnapshot
      <4>1. ~snapForced /\ snapCard' = snapCard
        BY <1>3, <3>2 DEF WriteRawFrame
      <4>2. QED
        BY <2>1, <4>1 DEF ForcedInv
    <3>3. QED
      BY <3>1, <3>2
  <2>3. QED
    BY <2>1, <2>2 DEF ForcedInv
<1>4. CASE StartArm
  <2>1. snapForced' = TRUE /\ rawFile' = rawFile /\ rawFile \in DOMAIN rawCard
    BY <1>4 DEF StartArm, ArmTrip, handles, HandleInv, TypeOK
  <2>2. rawCard[rawFile] \in File
    BY <1>0, <2>1 DEF IsCard
  <2>3. /\ Append1(rawCard[rawFile], StartRow) \in File
        /\ Flushed(Append1(rawCard[rawFile], StartRow)).rows
             = Append(rawCard[rawFile].rows, StartRow)
    BY <2>2, FileOps, RowTypes
  <2>4. rawCard'[rawFile].rows = Append(rawCard[rawFile].rows, StartRow)
    BY <1>4, <2>1, <2>3 DEF StartArm
  <2>5. rawCard[rawFile].rows \in Seq(Row) /\ StartRow.type = "TRIP_START"
    BY <2>2 DEF File, StartRow
  <2>6. ~FramesSince(rawCard'[rawFile].rows)
    BY <2>4, <2>5, TypesAppend
  <2>7. QED
    BY <2>1, <2>6 DEF ForcedInv
<1>5. CASE SkipRawFrame
  BY <1>2, <1>5 DEF SkipRawFrame, persistent, handles
<1>6. CASE \/ CreateSem \/ SdInit \/ BootLoad \/ BootOpenRaw \/ BootOpenSnap
           \/ StartOpenRaw \/ StartOpenSnap \/ EndRotate \/ EndGive
  <2>1. pc \notin {"receive", "start_snap", "start_trip"} \/ pc' # "receive"
    BY <1>6 DEF CreateSem, SdInit, BootLoad, BootOpenRaw, BootOpenSnap, StartOpenRaw,
       StartOpenSnap, EndRotate, EndGive
  <2>2. tripActive' = tripActive
    BY <1>6 DEF CreateSem, SdInit, BootLoad, BootOpenRaw, BootOpenSnap, StartOpenRaw,
       StartOpenSnap, EndRotate, EndGive, trip
  <2>3. QED
    BY <1>1, <2>1, <2>2 DEF HandleInv
<1>7. CASE TripStart \/ TripEnd \/ EndIgnored \/ EndCloseSnap \/ EndCloseRaw \/ Reset
  BY <1>1, <1>7 DEF TripStart, TripEnd, EndIgnored, EndCloseSnap, EndCloseRaw, Reset,
     Restart, Boot, trip
<1>8. CASE \/ \E c \in Currents \cup {NoCurrent} : LogFrame(c)
           \/ \E type \in {"TRIP_START", "TRIP_END"} : PostMarker(type)
           \/ WaitRotate \/ UNCHANGED vars
  BY <1>2, <1>8 DEF LogFrame, PostMarker, WaitRotate, vars, persistent, handles
<1>9. QED
  BY <1>3, <1>4, <1>5, <1>6, <1>7, <1>8 DEF Next, LoggerStep

\* Whatever the faults, a trip that has logged a frame and has a snapshot file has
\* a snapshot in it, also when TRIP_START came twice or opened the file late.
THEOREM SnapshotForced == Spec => []SnapshotPerTrip
<1>1. Init => HandleInv /\ ForcedInv
  BY HandleInit DEF Init, ForcedInv
<1>2. TypeOK /\ HandleInv /\ ForcedInv /\ [Next]_vars => HandleInv' /\ ForcedInv'
  BY HandleStep, ForcedStep
<1>3. ForcedInv => SnapshotPerTrip
  BY DEF ForcedInv, SnapshotPerTrip, FramesSince, SnapsSince
<1>4. QED
  BY <1>1, <1>2, <1>3, TypeCorrect, PTL DEF Spec
=============================================================================

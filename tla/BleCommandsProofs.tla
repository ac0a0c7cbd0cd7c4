------------------------- MODULE BleCommandsProofs --------------------------
(* Theorems of BleCommands and their proofs.                               *)
EXTENDS BleCommandsInv, SdLoggerSummaryProofs, FiniteSetTheorems

-----------------------------------------------------------------------------
(* The logger beside the command processor is the logger of SdLogger.      *)

\* What the phone does leaves the files and the trip alone.
LEMMA PhoneStep ==
    ASSUME BleStep
    PROVE  UNCHANGED <<persistent, pc, handles, trip, counters>>
<1>1. CASE \E type \in {"TRIP_START", "TRIP_END"} : Mark(type)
  BY <1>1 DEF Mark, PostMarker
<1>2. CASE Rotated
  BY <1>2 DEF Rotated, WaitRotate
<1>3. CASE WaitOver \/ ListRead \/ OpenDir \/ ReadEntry \/ ListSend
  BY <1>3 DEF WaitOver, ListRead, OpenDir, ReadEntry, ListSend, vars
<1>4. CASE (\E id \in offered : GetOpen(id)) \/ GetChunk \/ GetAbort \/ GetEnd
  BY <1>4 DEF GetOpen, GetChunk, GetAbort, GetEnd, vars
<1>5. CASE (\E id \in offered : Done(id)) \/ WifiMode
  BY <1>5 DEF Done, WifiMode, vars
<1>6. QED
  BY <1>1, <1>2, <1>3, <1>4, <1>5 DEF BleStep

LEMMA LoggerSteps ==
    ASSUME [BleNext]_allVars
    PROVE  [Next]_vars
<1>1. CASE BleStep
  <2>1. CASE \E type \in {"TRIP_START", "TRIP_END"} : Mark(type)
    BY <2>1 DEF Mark, Next
  <2>2. CASE Rotated
    BY <2>2 DEF Rotated, Next
  <2>3. CASE WaitOver \/ ListRead \/ OpenDir \/ ReadEntry \/ ListSend
    BY <2>3 DEF WaitOver, ListRead, OpenDir, ReadEntry, ListSend
  <2>4. CASE (\E id \in offered : GetOpen(id)) \/ GetChunk \/ GetAbort \/ GetEnd
    BY <2>4 DEF GetOpen, GetChunk, GetAbort, GetEnd
  <2>5. CASE (\E id \in offered : Done(id)) \/ WifiMode
    BY <2>5 DEF Done, WifiMode
  <2>6. QED
    BY <1>1, <2>1, <2>2, <2>3, <2>4, <2>5 DEF BleStep
<1>2. CASE \E c \in Currents \cup {NoCurrent} : LogFrame(c)
  BY <1>2 DEF Next
<1>3. CASE LoggerStep
  BY <1>3 DEF Next
<1>4. CASE Reboot
  BY <1>4 DEF Reboot, Next, Reset
<1>5. CASE UNCHANGED allVars
  BY <1>5 DEF allVars
<1>6. QED
  BY <1>1, <1>2, <1>3, <1>4, <1>5 DEF BleNext

\* Every behaviour of the composition is one of the logger, so that all that is
\* proved of the logger holds beside the phone.
THEOREM LoggerBeside == BleSpec => Spec
<1>1. BleInit => Init
  BY DEF BleInit
<1>2. [BleNext]_allVars => [Next]_vars
  BY LoggerSteps
<1>3. QED
  BY <1>1, <1>2, PTL DEF BleSpec, Spec

-----------------------------------------------------------------------------
(* Type correctness.                                                       *)

LEMMA NoScanType == NoScan \in Scan /\ NoTransfer \in Transfer /\ IsFiniteSet(NoScan.found)
BY FS_EmptySet DEF NoScan, NoTransfer, Scan, Transfer

\* What the locals have to be for their part of BleTypeOK.
LocalsOK ==
    /\ scan \in Scan /\ IsFiniteSet(scan.found) /\ Cardinality(scan.found) <= ListMax
    /\ transfer \in Transfer
    /\ ble = "get" => transfer.id \in DOMAIN snapCard

PhoneOK ==
    /\ offered \subseteq Nat /\ acked \subseteq Nat
    /\ DOMAIN copies \subseteq Nat /\ \A id \in DOMAIN copies : copies[id] \in Seq(Row)

FlagsOK ==
    /\ lastSynced \in Nat /\ {bootFlag, asked, timedOut, jumped} \subseteq BOOLEAN
    /\ ble \in {"idle", "wait", "list", "scan", "get", "restart"}

LEMMA BleTypeParts == BleTypeInv <=> TypeOK /\ LocalsOK /\ PhoneOK /\ FlagsOK
BY DEF BleTypeInv, BleTypeOK, LocalsOK, PhoneOK, FlagsOK, Scan, Transfer

LEMMA BleTypeInit == BleInit => BleTypeInv
<1> SUFFICES ASSUME BleInit PROVE BleTypeInv
  OBVIOUS
<1>1. TypeOK
  BY TypeInit DEF BleInit
<1>2. LocalsOK
  <2>1. scan = NoScan /\ transfer = NoTransfer /\ ble # "get" /\ scan.found = {}
    BY DEF BleInit, NoScan
  <2>2. QED
    BY <2>1, NoScanType, FS_EmptySet, BleAssumption DEF LocalsOK
<1>3. PhoneOK
  BY DEF BleInit, PhoneOK
<1>4. FlagsOK
  BY DEF BleInit, FlagsOK
<1>5. QED
  BY <1>1, <1>2, <1>3, <1>4, BleTypeParts

\* Files stay on the card.
LEMMA SnapsStay ==
    ASSUME TypeOK, [Next]_vars
    PROVE  DOMAIN snapCard \subseteq DOMAIN snapCard'
<1>1. CASE BootOpenSnap \/ StartOpenSnap
  BY <1>1, OpenDomains DEF BootOpenSnap, StartOpenSnap
<1>2. CASE WriteRawFrame \/ StartArm \/ EndCloseSnap \/ EndCloseRaw \/ Reset
  BY <1>2, SameDomains
<1>3. CASE UNCHANGED snapCard
  BY <1>3
<1>4. QED
  BY <1>1, <1>2, <1>3 DEF Next, LoggerStep, vars, persistent, LogFrame, PostMarker, WaitRotate,
     CreateSem, SdInit, BootLoad, BootOpenRaw, SkipRawFrame, TripStart, StartOpenRaw,
     EndIgnored, TripEnd, EndRotate, EndGive

LEMMA LocalsStep ==
    ASSUME BleTypeInv, [BleNext]_allVars
    PROVE  LocalsOK'
<1>0. LocalsOK /\ TypeOK /\ FlagsOK
  BY BleTypeParts
<1>a. DOMAIN snapCard \subseteq DOMAIN snapCard'
  BY <1>0, SnapsStay, LoggerSteps
<1>1. ASSUME UNCHANGED locals, ble' = "get" => ble = "get" PROVE LocalsOK'
  BY <1>0, <1>a, <1>1 DEF LocalsOK, locals
<1>2. ASSUME scan' = NoScan, transfer' \in {transfer, NoTransfer}, ble' # "get" PROVE LocalsOK'
  <2>1. /\ scan' \in Scan /\ IsFiniteSet(scan'.found) /\ transfer' \in Transfer
        /\ scan'.found = {}
    BY <1>0, <1>2, NoScanType DEF LocalsOK, NoScan
  <2>2. QED
    BY <1>2, <2>1, FS_EmptySet, BleAssumption DEF LocalsOK
<1>3. CASE (\E type \in {"TRIP_START", "TRIP_END"} : Mark(type)) \/ Rotated \/ WaitOver \/ OpenDir
  BY <1>1, <1>3 DEF Mark, Rotated, WaitOver, OpenDir
<1>4. CASE ListRead
  <2>1. nvsSession \in Nat /\ lastSynced \in Nat
    BY <1>0 DEF TypeOK, FlagsOK
  <2>2. Skipped \in Nat
    BY <2>1 DEF Skipped
  <2>3. scan' \in {NoScan, [active |-> Skipped, synced |-> lastSynced, next |-> 0, found |-> {}]}
    BY <1>4 DEF ListRead, NoScan
  <2>4. scan' \in Scan /\ scan'.found = {}
    BY <2>1, <2>2, <2>3 DEF Scan, NoScan
  <2>5. transfer' = transfer /\ ble' = "list"
    BY <1>4 DEF ListRead
  <2>6. QED
    BY <1>0, <2>4, <2>5, FS_EmptySet, BleAssumption DEF LocalsOK
<1>5. CASE ReadEntry
  <2>1. PICK id \in Unread :
          scan' = [scan EXCEPT !.next = id + 1,
                      !.found = IF /\ id # scan.active
                                   /\ id > scan.synced
                                   /\ HasSize(snapCard[id])
                                THEN @ \cup {id} ELSE @]
    BY <1>5 DEF ReadEntry
  <2>2. id \in Nat
    BY <1>0, <2>1 DEF Unread, TypeOK, IsCard
  <2>3. scan \in Scan
    BY <1>0 DEF LocalsOK
  <2>4. PICK found \in {scan.found, scan.found \cup {id}} :
          scan' = [active |-> scan.active, synced |-> scan.synced, next |-> id + 1, found |-> found]
    BY <2>1, <2>3 DEF Scan
  <2>5. scan' \in Scan /\ scan'.found = found
    BY <2>2, <2>3, <2>4 DEF Scan
  <2>6. /\ IsFiniteSet(scan.found) /\ Cardinality(scan.found) \in Nat
        /\ Cardinality(scan.found) # ListMax /\ Cardinality(scan.found) <= ListMax
    BY <1>0, <1>5, FS_CardinalityType DEF LocalsOK, ReadEntry, Full
  <2>7. /\ IsFiniteSet(scan.found \cup {id})
        /\ Cardinality(scan.found \cup {id}) \in {Cardinality(scan.found), Cardinality(scan.found) + 1}
    BY <2>6, FS_AddElement
  <2>8. IsFiniteSet(found) /\ Cardinality(found) <= ListMax
    BY <2>4, <2>6, <2>7, BleAssumption
  <2>9. transfer' = transfer /\ ble' = "scan"
    BY <1>5 DEF ReadEntry
  <2>10. QED
    BY <1>0, <2>5, <2>8, <2>9 DEF LocalsOK
<1>6. CASE ListSend
  BY <1>2, <1>6 DEF ListSend
<1>7. CASE \E id \in offered : GetOpen(id)
  <2>1. PICK id \in offered : GetOpen(id)
    BY <1>7
  <2>2. id \in Nat /\ id \in DOMAIN snapCard /\ snapCard[id] \in File
    BY <1>0, <2>1 DEF GetOpen, TypeOK, IsCard
  <2>3. transfer' \in Transfer /\ scan' = scan /\ transfer'.id = id
    BY <2>1, <2>2 DEF GetOpen, Transfer, File
  <2>4. QED
    BY <1>0, <1>a, <2>2, <2>3 DEF LocalsOK
<1>8. CASE GetChunk
  <2>1. transfer \in Transfer /\ transfer.id \in DOMAIN snapCard /\ ble' = ble
    BY <1>0, <1>8 DEF LocalsOK, GetChunk
  <2>2. snapCard[transfer.id].rows \in Seq(Row)
    BY <1>0, <2>1 DEF TypeOK, IsCard, File
  <2>3. Len(transfer.rows) + 1 \in 1..Len(snapCard[transfer.id].rows)
    BY <1>8, <2>1, <2>2 DEF GetChunk, Transfer
  <2>4. /\ transfer' = [id |-> transfer.id, size |-> transfer.size,
                        rows |-> Append(transfer.rows,
                                        snapCard[transfer.id].rows[Len(transfer.rows) + 1])]
        /\ scan' = scan
    BY <1>8, <2>1 DEF Transfer, GetChunk
  <2>6. snapCard[transfer.id].rows[Len(transfer.rows) + 1] \in Row
    BY <2>2, <2>3
  <2>7. Append(transfer.rows, snapCard[transfer.id].rows[Len(transfer.rows) + 1]) \in Seq(Row)
    BY <2>1, <2>6 DEF Transfer
  <2>8. transfer' \in Transfer /\ transfer'.id = transfer.id
    BY <2>1, <2>4, <2>7 DEF Transfer
  <2>5. QED
    BY <1>0, <1>a, <2>1, <2>4, <2>8 DEF LocalsOK
<1>9. CASE GetAbort \/ GetEnd
  BY <1>0, <1>9, NoScanType DEF GetAbort, GetEnd, LocalsOK
<1>10. CASE (\E id \in offered : Done(id)) \/ WifiMode
  BY <1>1, <1>10 DEF Done, WifiMode
<1>11. CASE Reboot
  BY <1>2, <1>11 DEF Reboot
<1>12. CASE UNCHANGED bleVars \/ UNCHANGED allVars
  BY <1>1, <1>12 DEF bleVars, allVars
<1>13. QED
  BY <1>3, <1>4, <1>5, <1>6, <1>7, <1>8, <1>9, <1>10, <1>11, <1>12 DEF BleNext, BleStep

LEMMA PhoneStepOK ==
    ASSUME BleTypeInv, [BleNext]_allVars
    PROVE  PhoneOK'
<1>0. PhoneOK /\ LocalsOK /\ TypeOK
  BY BleTypeParts
<1>1. CASE UNCHANGED phone
  BY <1>0, <1>1 DEF PhoneOK, phone
<1>2. CASE ListSend
  BY <1>0, <1>2 DEF ListSend, PhoneOK, LocalsOK, Scan
<1>3. CASE GetEnd
  BY <1>0, <1>3 DEF GetEnd, PhoneOK, LocalsOK, Transfer
<1>4. CASE \E id \in offered : Done(id)
  BY <1>0, <1>4 DEF Done, PhoneOK
<1>5. QED
  BY <1>1, <1>2, <1>3, <1>4 DEF BleNext, BleStep, Mark, Rotated, WaitOver, ListRead,
     OpenDir, ReadEntry, GetOpen, GetChunk, GetAbort, WifiMode, Reboot, bleVars, allVars

LEMMA FlagsStepOK ==
    ASSUME BleTypeInv, [BleNext]_allVars
    PROVE  FlagsOK'
<1>0. FlagsOK /\ PhoneOK
  BY BleTypeParts
<1>1. CASE \E id \in offered : Done(id)
  BY <1>0, <1>1 DEF Done, StoreSynced, FlagsOK, PhoneOK
<1>2. CASE Reboot
  <2>1. PICK erased \in BOOLEAN, first \in {"off", "create_sem"} :
          /\ ReadAndClearBootMode(bootFlag /\ ~erased, first)
          /\ lastSynced' = IF erased THEN 0 ELSE lastSynced
    BY <1>2 DEF Reboot
  <2>2. bootFlag \in BOOLEAN /\ lastSynced \in Nat
    BY <1>0 DEF FlagsOK
  <2>3. bootFlag' \in BOOLEAN
    BY <2>1, <2>2, Zenon DEF ReadAndClearBootMode
  <2>4. lastSynced' \in Nat
    BY <2>1, <2>2
  <2>5. ble' = "idle" /\ asked' = FALSE /\ timedOut' = timedOut /\ jumped' = jumped
    BY <1>2 DEF Reboot
  <2>6. QED
    BY <1>0, <2>3, <2>4, <2>5 DEF FlagsOK
<1>3. CASE WifiMode
  BY <1>0, <1>3 DEF WifiMode, FlagsOK
<1>4. CASE WaitOver
  BY <1>0, <1>4 DEF WaitOver, FlagsOK
<1>5. CASE UNCHANGED bleVars \/ UNCHANGED allVars
  BY <1>0, <1>5 DEF bleVars, allVars, history, FlagsOK
<1>6. CASE \/ \E type \in {"TRIP_START", "TRIP_END"} : Mark(type)
           \/ Rotated \/ ListRead \/ OpenDir \/ ReadEntry \/ ListSend
           \/ \E id \in offered : GetOpen(id)
           \/ GetChunk \/ GetAbort \/ GetEnd
  BY <1>0, <1>6 DEF Mark, Rotated, ListRead, OpenDir, ReadEntry, ListSend, GetOpen,
     GetChunk, GetAbort, GetEnd, history, FlagsOK
<1>7. QED
  BY <1>1, <1>2, <1>3, <1>4, <1>5, <1>6 DEF BleNext, BleStep

\* The types with those of the locals, and the session being sent on the card.
LEMMA BleTypeInvCorrect == BleSpec => []BleTypeInv
<1>1. BleInit => BleTypeInv
  BY BleTypeInit
<1>2. BleTypeInv /\ [BleNext]_allVars => BleTypeInv'
  <2> SUFFICES ASSUME BleTypeInv, [BleNext]_allVars PROVE BleTypeInv'
    OBVIOUS
  <2>1. TypeOK'
    BY LoggerSteps, TypeStep DEF BleTypeInv, BleTypeOK
  <2>2. LocalsOK' /\ PhoneOK' /\ FlagsOK'
    BY LocalsStep, PhoneStepOK, FlagsStepOK
  <2>3. QED
    BY <2>1, <2>2 DEF BleTypeInv, BleTypeOK, LocalsOK, PhoneOK, FlagsOK, Scan, Transfer
<1>3. QED
  BY <1>1, <1>2, PTL DEF BleSpec

\* The command processor and the phone keep their types, whatever the faults:
\* a LIST answer never holds more sessions than fit it.
THEOREM BleTypeCorrect == BleSpec => []BleTypeOK
<1>1. BleTypeInv => BleTypeOK
  BY DEF BleTypeInv
<1>2. QED
  BY <1>1, BleTypeInvCorrect, PTL

-----------------------------------------------------------------------------
(* Web-interface mode is opt-in.                                           *)

\* A boot mode that NVS stores and clears is only left set by WIFI_MODE.
THEOREM WebOptIn == ASSUME NvsReliable PROVE BleSpec => WebIsOptIn
<1>1. BleInit => OptInv
  BY DEF BleInit, OptInv
<1>2. BleTypeInv /\ OptInv /\ [BleNext]_allVars => OptInv'
  <2> SUFFICES ASSUME BleTypeInv, OptInv, [BleNext]_allVars PROVE OptInv'
    OBVIOUS
  <2>1. CASE UNCHANGED <<bootFlag, asked>>
    BY <2>1 DEF OptInv
  <2>2. CASE WifiMode
    BY <2>2 DEF WifiMode, OptInv
  <2>3. CASE Reboot
    <3>1. PICK erased \in BOOLEAN, first \in {"off", "create_sem"} :
            ReadAndClearBootMode(bootFlag /\ ~erased, first)
      BY <2>3 DEF Reboot
    <3>2. bootFlag' = FALSE
      BY <3>1, Zenon DEF ReadAndClearBootMode, NvsReliable
    <3>3. QED
      BY <3>2 DEF OptInv
  <2>4. QED
    BY <2>1, <2>2, <2>3 DEF BleNext, BleStep, Mark, Rotated, WaitOver, ListRead, OpenDir,
       ReadEntry, ListSend, GetOpen, GetChunk, GetAbort, GetEnd, Done, bleVars, allVars, history
<1>3. BleTypeInv /\ OptInv /\ [BleNext]_allVars
        => [spent'["resets"] # spent["resets"] /\ pc' = "off" => asked]_allVars
  <2> SUFFICES ASSUME BleTypeInv, OptInv, [BleNext]_allVars,
                      spent'["resets"] # spent["resets"], pc' = "off"
               PROVE  asked
    OBVIOUS
  <2>1. spent \in [Events -> Nat]
    BY DEF BleTypeInv, BleTypeOK, TypeOK
  <2>2. ~UNCHANGED allVars /\ ~UNCHANGED vars
    BY DEF allVars, vars
  <2>3. ASSUME NEW c \in Currents \cup {NoCurrent} PROVE ~LogFrame(c)
    BY <2>1 DEF LogFrame, Events
  <2>4. ASSUME NEW type \in {"TRIP_START", "TRIP_END"} PROVE ~PostMarker(type)
    BY <2>1 DEF PostMarker, Events
  <2>5. ~WaitRotate /\ ~LoggerStep
    BY DEF WaitRotate, LoggerStep, CreateSem, SdInit, BootLoad, BootOpenRaw, BootOpenSnap,
       WriteRawFrame, SkipRawFrame, TripStart, StartOpenRaw, StartOpenSnap, StartArm,
       EndIgnored, TripEnd, EndCloseSnap, EndCloseRaw, EndRotate, EndGive
  <2>6. ~BleStep
    BY <2>2, <2>4, <2>5 DEF BleStep, Mark, Rotated, WaitOver, ListRead, OpenDir, ReadEntry,
       ListSend, GetOpen, GetChunk, GetAbort, GetEnd, Done, WifiMode
  <2>7. Reboot
    BY <2>2, <2>3, <2>5, <2>6 DEF BleNext
  <2>8. PICK erased \in BOOLEAN, first \in {"off", "create_sem"} :
          /\ pc' = first
          /\ ReadAndClearBootMode(bootFlag /\ ~erased, first)
    BY <2>7 DEF Reboot, Restart, Boot
  <2>9. bootFlag
    BY <2>8, Zenon DEF ReadAndClearBootMode
  <2>10. QED
    BY <2>9 DEF OptInv
<1>4. BleSpec => []BleTypeInv
  BY BleTypeInvCorrect
<1>5. QED
  BY <1>1, <1>2, <1>3, <1>4, PTL DEF BleSpec, WebIsOptIn

-----------------------------------------------------------------------------
(* What LIST and GET serve is complete, and the phone has it as it is.     *)

\* Completed sessions stay as they are.
LEMMA SnapsKept ==
    ASSUME TypeOK, TypeOK', SafeInv, [Next]_vars
    PROVE  \A id \in CompletedSnaps : id \in CompletedSnaps' /\ snapCard'[id] = snapCard[id]
<1>1. Preserved(snapCard, snapCard')
  BY OpenStep
<1>2. QED
  BY <1>1 DEF Preserved, CompletedSnaps

\* Until a file is closed its directory entry shows what it did before, or, when
\* it is new, nothing.
LEMMA SizeStep ==
    ASSUME ~ImmediateFsync, TypeOK, [Next]_vars, ~EndCloseSnap, NEW id \in DOMAIN snapCard'
    PROVE  \/ snapCard'[id].kept = 0
           \/ id \in DOMAIN snapCard /\ snapCard'[id].kept = snapCard[id].kept
<1>0. /\ snapFile \in DOMAIN snapCard \cup {NoFile} /\ IsCard(snapCard)
      /\ \A f : Flushed(f) = f
      /\ \A f, row : Append1(f, row).kept = f.kept
  BY DEF TypeOK, Flushed, Append1
<1>1. CASE UNCHANGED snapCard
  BY <1>1
<1>2. CASE OpenSnapFile
  BY <1>2 DEF OpenSnapFile, Create, EmptyFile
<1>3. CASE WriteRawFrame
  BY <1>0, <1>3 DEF WriteRawFrame, WriteSnapshot
<1>4. CASE StartArm
  BY <1>0, <1>4 DEF StartArm
<1>5. CASE Reset
  <2>1. snapCard' \in Surviving(snapCard, snapFile)
    BY <1>5 DEF Reset, Restart
  <2>2. CASE snapFile = NoFile
    BY <2>1, <2>2 DEF Surviving
  <2>3. CASE snapFile # NoFile
    <3>1. snapCard[snapFile].kept \in Nat
      BY <1>0, <2>3 DEF IsCard, File
    <3>2. snapCard' = [snapCard EXCEPT ![snapFile] =
                          Cut(snapCard[snapFile], snapCard[snapFile].kept)]
      BY <2>1, <2>3, <3>1 DEF Surviving
    <3>3. QED
      BY <3>2 DEF Cut
  <2>4. QED
    BY <2>2, <2>3
<1>6. QED
  BY <1>1, <1>2, <1>3, <1>4, <1>5 DEF Next, LoggerStep, vars, persistent, LogFrame, PostMarker,
     WaitRotate, CreateSem, SdInit, BootLoad, BootOpenRaw, BootOpenSnap, SkipRawFrame, TripStart,
     StartOpenRaw, StartOpenSnap, EndIgnored, TripEnd, EndCloseRaw, EndRotate, EndGive

LEMMA KeptStep ==
    ASSUME ~ImmediateFsync, TypeOK, TypeOK', SafeInv, KeptInv, [Next]_vars
    PROVE  KeptInv'
<1> SUFFICES ASSUME NEW id \in DOMAIN snapCard'
             PROVE  snapCard'[id].kept =
                      IF id \in CompletedSnaps' THEN Len(snapCard'[id].rows) ELSE 0
  BY DEF KeptInv
<1>1. CASE EndCloseSnap /\ snapFile # NoFile
  <2>1. snapFile \in DOMAIN snapCard /\ snapCard[snapFile] \in File /\ tripPeak \in Int
    BY <1>1 DEF TypeOK, IsCard
  <2>2. snapCard' = [snapCard EXCEPT ![snapFile] =
                        Synced(Append1(snapCard[snapFile], EndRow(tripPeak)))]
    BY <1>1 DEF EndCloseSnap
  <2>3. CASE id = snapFile
    <3>1. Completed(snapCard'[id]) /\ snapCard'[id].kept = Len(snapCard'[id].rows)
      BY <2>1, <2>2, <2>3, ClosedFile DEF Synced
    <3>2. QED
      BY <3>1 DEF CompletedSnaps
  <2>4. CASE id # snapFile
    <3>1. id \in DOMAIN snapCard /\ snapCard'[id] = snapCard[id]
      BY <2>2, <2>4
    <3>2. QED
      BY <3>1 DEF KeptInv, CompletedSnaps
  <2>5. QED
    BY <2>3, <2>4
<1>2. CASE EndCloseSnap /\ snapFile = NoFile
  BY <1>2 DEF EndCloseSnap, KeptInv, CompletedSnaps
<1>3. CASE ~EndCloseSnap
  <2>1. CASE id \in CompletedSnaps'
    <3>1. id \in CompletedSnaps /\ snapCard'[id] = snapCard[id]
      BY <1>3, <2>1, SnapSummary DEF CompletedSnaps
    <3>2. QED
      BY <2>1, <3>1 DEF KeptInv, CompletedSnaps
  <2>2. CASE id \notin CompletedSnaps'
    <3>1. id \notin CompletedSnaps
      BY <2>2, SnapsKept
    <3>2. QED
      BY <1>3, <2>2, <3>1, SizeStep DEF KeptInv
  <2>3. QED
    BY <2>1, <2>2
<1>4. QED
  BY <1>1, <1>2, <1>3

Told == scan.found \subseteq CompletedSnaps /\ offered \subseteq CompletedSnaps

Held ==
    /\ DOMAIN copies \subseteq CompletedSnaps /\ acked \subseteq DOMAIN copies
    /\ \A id \in DOMAIN copies : copies[id] = snapCard[id].rows

Sending ==
    ble = "get" =>
       /\ transfer.id \in CompletedSnaps
       /\ transfer.size = Len(snapCard[transfer.id].rows)
       /\ Len(transfer.rows) <= transfer.size
       /\ \A i \in 1..Len(transfer.rows) : transfer.rows[i] = snapCard[transfer.id].rows[i]

LEMMA CopyParts == CopyInv <=> Told /\ Held /\ Sending
BY DEF CopyInv, Told, Held, Sending

\* LIST adds what has a size: that is a completed session.
LEMMA ToldStep ==
    ASSUME ~ImmediateFsync, BleTypeInv, TypeOK', SafeInv, KeptInv, Told, [BleNext]_allVars
    PROVE  Told'
<1>0. \A id \in CompletedSnaps : id \in CompletedSnaps'
  BY SnapsKept, LoggerSteps DEF BleTypeInv, BleTypeOK
<1>1. ASSUME scan'.found \subseteq scan.found, offered' \subseteq offered \cup scan.found
      PROVE  Told'
  BY <1>0, <1>1 DEF Told
<1>2. CASE ReadEntry
  <2>1. PICK id \in Unread :
          scan' = [scan EXCEPT !.next = id + 1,
                      !.found = IF /\ id # scan.active
                                   /\ id > scan.synced
                                   /\ HasSize(snapCard[id])
                                THEN @ \cup {id} ELSE @]
    BY <1>2 DEF ReadEntry
  <2>2. scan \in Scan
    BY DEF BleTypeInv
  <2>3. \/ scan'.found = scan.found
        \/ scan'.found = scan.found \cup {id} /\ HasSize(snapCard[id])
    BY <2>1, <2>2 DEF Scan
  <2>4. id \in DOMAIN snapCard
    BY <2>1 DEF Unread
  <2>5. HasSize(snapCard[id]) => id \in CompletedSnaps
    BY <2>4 DEF HasSize, KeptInv
  <2>6. offered' = offered
    BY <1>2 DEF ReadEntry, phone
  <2>7. QED
    BY <1>0, <2>3, <2>5, <2>6 DEF Told
<1>3. CASE UNCHANGED <<scan, offered>>
  BY <1>1, <1>3
<1>4. CASE ListRead
  <2>1. scan' \in {NoScan, [active |-> Skipped, synced |-> lastSynced, next |-> 0, found |-> {}]}
    BY <1>4 DEF ListRead, NoScan
  <2>2. scan'.found = {} /\ offered' = offered
    BY <1>4, <2>1 DEF ListRead, NoScan, phone
  <2>3. QED
    BY <1>1, <2>2
<1>5. CASE ListSend \/ Reboot
  <2>1. scan'.found = {} /\ offered' \in {offered, scan.found}
    BY <1>5 DEF ListSend, Reboot, NoScan, phone
  <2>2. QED
    BY <1>1, <2>1
<1>6. QED
  BY <1>2, <1>3, <1>4, <1>5 DEF BleNext, BleStep, Mark, Rotated, WaitOver, OpenDir, GetOpen,
     GetChunk, GetAbort, GetEnd, Done, WifiMode, bleVars, allVars, phone, locals

LEMMA SendingStep ==
    ASSUME ~ImmediateFsync, BleTypeInv, TypeOK', SafeInv, KeptInv, Told, Sending,
           [BleNext]_allVars
    PROVE  Sending'
<1>0. /\ \A id \in CompletedSnaps : id \in CompletedSnaps' /\ snapCard'[id] = snapCard[id]
      /\ TypeOK
  BY SnapsKept, LoggerSteps DEF BleTypeInv, BleTypeOK
<1>1. CASE ble' # "get"
  BY <1>1 DEF Sending
<1>2. CASE UNCHANGED <<ble, transfer>>
  BY <1>0, <1>2 DEF Sending
<1>3. CASE \E id \in offered : GetOpen(id)
  <2>1. PICK id \in offered : GetOpen(id)
    BY <1>3
  <2>2. id \in CompletedSnaps /\ snapCard[id].kept = Len(snapCard[id].rows)
    BY <2>1 DEF Told, KeptInv, CompletedSnaps
  <2>3. /\ transfer' = [id |-> id, size |-> snapCard[id].kept, rows |-> <<>>]
        /\ snapCard' = snapCard /\ CompletedSnaps' = CompletedSnaps
    BY <2>1 DEF GetOpen, vars, persistent, CompletedSnaps
  <2>4. Len(snapCard[id].rows) \in Nat
    BY <1>0, <2>2 DEF CompletedSnaps, TypeOK, IsCard, File
  <2>5. QED
    BY <2>2, <2>3, <2>4 DEF Sending
<1>4. CASE GetChunk
  <2> DEFINE n == Len(transfer.rows) + 1
             rows == snapCard[transfer.id].rows
  <2>1. /\ transfer \in Transfer /\ transfer.id \in CompletedSnaps /\ rows \in Seq(Row)
        /\ transfer.size = Len(rows) /\ n <= Len(rows) /\ n \in Nat
    BY SMTT(30), <1>0, <1>4 DEF BleTypeInv, GetChunk, Sending, CompletedSnaps, TypeOK, IsCard, File, Transfer
  <2>2. /\ transfer' = [id |-> transfer.id, size |-> transfer.size,
                        rows |-> Append(transfer.rows, rows[n])]
        /\ snapCard' = snapCard /\ CompletedSnaps' = CompletedSnaps
    BY <1>4, <2>1 DEF GetChunk, vars, persistent, CompletedSnaps, Transfer
  <2>3. transfer.rows \in Seq(Row)
    BY <2>1 DEF Transfer
  <2>4. /\ Len(transfer'.rows) = n
        /\ \A i \in 1..n : transfer'.rows[i] = rows[i]
    <3>1. \A i \in 1..Len(transfer.rows) : transfer.rows[i] = rows[i]
      BY <1>4 DEF GetChunk, Sending
    <3> HIDE DEF rows
    <3>2. QED
      BY <2>2, <2>3, <3>1
  <2>5. QED
    BY <2>1, <2>2, <2>4 DEF Sending
<1>5. CASE ListRead \/ OpenDir \/ ListSend \/ GetAbort \/ GetEnd \/ WifiMode \/ Reboot
           \/ Rotated \/ WaitOver \/ \E type \in {"TRIP_START", "TRIP_END"} : Mark(type)
  BY <1>1, <1>5 DEF ListRead, OpenDir, ListSend, GetAbort, GetEnd, WifiMode, Reboot, Rotated,
     WaitOver, Mark
<1>6. QED
  BY <1>2, <1>3, <1>4, <1>5 DEF BleNext, BleStep, ReadEntry, Done, bleVars, allVars, locals

LEMMA SameRows ==
    ASSUME NEW a \in Seq(Row), NEW b \in Seq(Row), Len(a) = Len(b),
           \A i \in 1..Len(a) : a[i] = b[i]
    PROVE  a = b
OBVIOUS

LEMMA HeldStep ==
    ASSUME BleTypeInv, TypeOK', SafeInv, Told, Held, Sending, [BleNext]_allVars
    PROVE  Held'
<1>0. /\ \A id \in CompletedSnaps : id \in CompletedSnaps' /\ snapCard'[id] = snapCard[id]
      /\ TypeOK
  BY SnapsKept, LoggerSteps DEF BleTypeInv, BleTypeOK
<1>1. CASE UNCHANGED <<copies, acked>>
  BY <1>0, <1>1 DEF Held
<1>2. CASE GetEnd
  <2>1. /\ transfer \in Transfer /\ transfer.id \in CompletedSnaps
        /\ snapCard[transfer.id].rows \in Seq(Row)
        /\ Len(transfer.rows) = Len(snapCard[transfer.id].rows)
        /\ \A i \in 1..Len(transfer.rows) : transfer.rows[i] = snapCard[transfer.id].rows[i]
    BY <1>0, <1>2 DEF BleTypeInv, GetEnd, Sending, CompletedSnaps, TypeOK, IsCard, File
  <2>2. transfer.rows = snapCard[transfer.id].rows
    BY <2>1, SameRows DEF Transfer
  <2>3. /\ copies' = [id \in DOMAIN copies \cup {transfer.id} |->
                        IF id = transfer.id THEN transfer.rows ELSE copies[id]]
        /\ acked' = acked
    BY <1>2 DEF GetEnd
  <2>4. QED
    BY <1>0, <2>1, <2>2, <2>3 DEF Held
<1>3. CASE \E id \in offered : Done(id)
  BY <1>0, <1>3 DEF Done, Held
<1>4. QED
  BY <1>1, <1>2, <1>3 DEF BleNext, BleStep, Mark, Rotated, WaitOver, ListRead, OpenDir,
     ReadEntry, ListSend, GetOpen, GetChunk, GetAbort, WifiMode, Reboot, bleVars, allVars, phone

\* With the FAT as it is configured (no fsync at each fflush) and a counter that
\* NVS keeps.
LEMMA CopyCorrect ==
    ASSUME NvsReliable, ~ImmediateFsync
    PROVE  BleSpec => [](KeptInv /\ CopyInv)
<1>1. BleInit => KeptInv /\ CopyInv
  BY DEF BleInit, Init, KeptInv, CopyInv, NoScan
<1>2. BleTypeInv /\ BleTypeInv' /\ SafeInv /\ KeptInv /\ CopyInv /\ [BleNext]_allVars
        => KeptInv' /\ CopyInv'
  <2> SUFFICES ASSUME BleTypeInv, BleTypeInv', SafeInv, KeptInv, CopyInv, [BleNext]_allVars
               PROVE  KeptInv' /\ CopyInv'
    OBVIOUS
  <2>1. TypeOK /\ TypeOK'
    BY DEF BleTypeInv, BleTypeOK
  <2>2. KeptInv'
    BY <2>1, KeptStep, LoggerSteps
  <2>3. Told' /\ Held' /\ Sending'
    BY <2>1, CopyParts, ToldStep, HeldStep, SendingStep
  <2>4. QED
    BY <2>2, <2>3 DEF CopyInv, Told, Held, Sending
<1>3. BleSpec => []SafeInv
  BY LoggerBeside, Safety, PTL
<1>4. QED
  BY <1>1, <1>2, <1>3, BleTypeInvCorrect, PTL DEF BleSpec

\* LIST offers only sessions that SUMMARY answers with a job: neither the open
\* one nor one that a power cut left without its summary row.
THEOREM OfferedComplete ==
    ASSUME NvsReliable, ~ImmediateFsync
    PROVE  BleSpec => []OfferedHasJob
<1>1. BleTypeInv /\ CopyInv => OfferedHasJob
  <2> SUFFICES ASSUME BleTypeInv, CopyInv, NEW id \in offered
               PROVE  id \in DOMAIN snapCard /\ HasJob(snapCard[id])
    BY DEF OfferedHasJob
  <2>1. id \in DOMAIN snapCard /\ Completed(snapCard[id]) /\ snapCard[id].rows \in Seq(Row)
    BY DEF CopyInv, CompletedSnaps, BleTypeInv, BleTypeOK, TypeOK, IsCard, File
  <2>2. Len(snapCard[id].rows) \in DOMAIN snapCard[id].rows
    BY <2>1 DEF Completed
  <2>3. QED
    BY <2>1, <2>2 DEF Completed, HasJob
<1>2. QED
  BY <1>1, CopyCorrect, BleTypeInvCorrect, PTL

\* The phone's copy of an acknowledged session is the session on the card for
\* ever after.
THEOREM CopyIsSession ==
    ASSUME NvsReliable, ~ImmediateFsync
    PROVE  BleSpec => []AckedCopyIsSession
<1>1. CopyInv => AckedCopyIsSession
  BY DEF CopyInv, AckedCopyIsSession, CompletedSnaps
<1>2. QED
  BY <1>1, CopyCorrect, PTL

-----------------------------------------------------------------------------
(* An answer of TRIP_END that found the rotation in time comes after it.   *)

\* What a frame added to the queue, and the message taken from it, change.
LEMMA FrameQueued ==
    ASSUME TypeOK, NEW c, LogFrame(c)
    PROVE  /\ EndQueued' => EndQueued
           /\ FramesAfter(0) => FramesAfter(0)'
           /\ EndAhead => EndAhead'
<1>1. /\ logQueue \in Seq(Message)
      /\ logQueue' = Append(logQueue, [type |-> "FRAME", current |-> c])
  BY DEF TypeOK, LogFrame
<1>2. /\ DOMAIN logQueue = 1..Len(logQueue) /\ Len(logQueue) \in Nat
      /\ DOMAIN logQueue' = 1..(Len(logQueue) + 1)
      /\ \A i \in DOMAIN logQueue : logQueue'[i] = logQueue[i]
      /\ logQueue'[Len(logQueue) + 1].type = "FRAME"
  BY <1>1
<1>3. QED
  BY <1>2 DEF EndQueued, FramesAfter, EndAhead, NoEndBefore

LEMMA MessageTaken ==
    ASSUME TypeOK, NEW type, Receive(type)
    PROVE  /\ EndQueued' => EndQueued
           /\ FramesAfter(0) => FramesAfter(0)' /\ type = "FRAME"
           /\ EndAhead => IF type = "TRIP_END" THEN FramesAfter(0)' ELSE EndAhead'
           /\ type = "TRIP_END" => EndQueued
<1>1. /\ logQueue \in Seq(Message) /\ logQueue # <<>>
      /\ logQueue' = Tail(logQueue) /\ Head(logQueue).type = type
  BY DEF TypeOK, Receive
<1>2. /\ DOMAIN logQueue = 1..Len(logQueue) /\ Len(logQueue) \in Nat \ {0}
      /\ DOMAIN logQueue' = 1..(Len(logQueue) - 1)
      /\ \A i \in DOMAIN logQueue' : logQueue'[i] = logQueue[i + 1]
      /\ logQueue[1].type = type
  BY <1>1
<1>3. (EndQueued' => EndQueued) /\ (type = "TRIP_END" => EndQueued)
  BY <1>2 DEF EndQueued
<1>4. FramesAfter(0) => FramesAfter(0)' /\ type = "FRAME"
  BY <1>2 DEF FramesAfter
<1>5. ASSUME EndAhead PROVE IF type = "TRIP_END" THEN FramesAfter(0)' ELSE EndAhead'
  <2>1. PICK i \in DOMAIN logQueue :
          logQueue[i].type = "TRIP_END" /\ FramesAfter(i) /\ NoEndBefore(i)
    BY <1>5 DEF EndAhead
  <2>2. CASE type = "TRIP_END"
    <3>1. i = 1
      BY <1>2, <2>1, <2>2 DEF NoEndBefore
    <3>2. QED
      BY <1>2, <2>1, <2>2, <3>1 DEF FramesAfter
  <2>3. CASE type # "TRIP_END"
    <3>1. i - 1 \in DOMAIN logQueue' /\ logQueue'[i - 1].type = "TRIP_END"
      BY <1>2, <2>1, <2>3
    <3>2. FramesAfter(i - 1)' /\ NoEndBefore(i - 1)'
      BY <1>2, <2>1, <3>1 DEF FramesAfter, NoEndBefore
    <3>3. QED
      BY <2>3, <3>1, <3>2 DEF EndAhead
  <2>4. QED
    BY <2>2, <2>3
<1>6. QED
  BY <1>3, <1>4, <1>5

\* The TRIP_END of a queue that has none yet.
LEMMA EndPosted ==
    ASSUME TypeOK, ~EndQueued, PostMarker("TRIP_END")
    PROVE  EndAhead'
<1>1. /\ logQueue \in Seq(Message)
      /\ logQueue' = Append(logQueue, [type |-> "TRIP_END"])
  BY DEF TypeOK, PostMarker
<1>2. /\ DOMAIN logQueue = 1..Len(logQueue) /\ Len(logQueue) \in Nat
      /\ DOMAIN logQueue' = 1..(Len(logQueue) + 1)
      /\ \A i \in DOMAIN logQueue : logQueue'[i] = logQueue[i]
      /\ logQueue'[Len(logQueue) + 1].type = "TRIP_END"
  BY <1>1
<1>3. PICK last \in DOMAIN logQueue' : last = Len(logQueue) + 1
  BY <1>2
<1>4. FramesAfter(last)' /\ NoEndBefore(last)'
  BY <1>2, <1>3 DEF FramesAfter, NoEndBefore, EndQueued
<1>5. QED
  BY <1>2, <1>3, <1>4 DEF EndAhead

LEMMA StartPosted ==
    ASSUME TypeOK, ~EndQueued, PostMarker("TRIP_START")
    PROVE  ~EndQueued'
<1>1. /\ logQueue \in Seq(Message)
      /\ logQueue' = Append(logQueue, [type |-> "TRIP_START"])
  BY DEF TypeOK, PostMarker
<1>2. /\ DOMAIN logQueue = 1..Len(logQueue) /\ Len(logQueue) \in Nat
      /\ DOMAIN logQueue' = 1..(Len(logQueue) + 1)
      /\ \A i \in DOMAIN logQueue : logQueue'[i] = logQueue[i]
      /\ logQueue'[Len(logQueue) + 1].type = "TRIP_START"
  BY <1>1
<1>3. QED
  BY <1>2 DEF EndQueued

\* Nothing but frames means no TRIP_END, and the other way round there is one ahead.
LEMMA QueueKinds ==
    ASSUME TypeOK
    PROVE  /\ FramesAfter(0) => ~EndQueued
           /\ EndAhead => EndQueued
           /\ logQueue = <<>> => ~EndQueued
<1>1. DOMAIN logQueue = 1..Len(logQueue)
  BY DEF TypeOK
<1>2. QED
  BY <1>1 DEF FramesAfter, EndQueued, EndAhead

\* The logger takes the TRIP_END, ends the trip and gives the semaphore.
LEMMA LoggerEnds ==
    ASSUME TypeOK, HandleInv, SemInv, EndWaits, pc # "off",
           LoggerStep \/ \E c \in Currents \cup {NoCurrent} : LogFrame(c)
    PROVE  EndWaits'
<1>1. CASE \E c \in Currents \cup {NoCurrent} : LogFrame(c)
  <2>1. PICK c \in Currents \cup {NoCurrent} : LogFrame(c)
    BY <1>1
  <2>2. pc' = pc /\ rotateSem' = rotateSem /\ tripActive' = tripActive
    BY <2>1 DEF LogFrame, trip
  <2>3. QED
    BY <2>1, <2>2, FrameQueued DEF EndWaits, Ending
<1>2. CASE \/ CreateSem \/ SdInit \/ BootLoad \/ BootOpenRaw \/ BootOpenSnap
           \/ StartOpenRaw \/ StartOpenSnap \/ StartArm
  <2>1. /\ logQueue' = logQueue /\ ~Ending /\ ~Ending' /\ pc # "receive"
        /\ rotateSem' = rotateSem \/ rotateSem' = "empty"
    BY <1>2 DEF Ending, CreateSem, SdInit, BootLoad, BootOpenRaw, BootOpenSnap, StartOpenRaw,
       StartOpenSnap, StartArm
  <2>2. EndAhead /\ rotateSem # "full"
    BY <2>1 DEF EndWaits
  <2>3. EndAhead'
    BY <2>1, <2>2 DEF EndAhead, FramesAfter, NoEndBefore
  <2>4. QED
    BY <2>1, <2>2, <2>3 DEF EndWaits
<1>3. CASE WriteRawFrame \/ SkipRawFrame
  <2>1. /\ Receive("FRAME") /\ pc' = pc /\ rotateSem' = rotateSem /\ tripActive' = tripActive
    BY <1>3 DEF WriteRawFrame, SkipRawFrame, trip
  <2>2. QED
    BY <2>1, MessageTaken DEF EndWaits, Ending
<1>4. CASE TripStart
  <2>1. /\ Receive("TRIP_START") /\ pc = "receive" /\ ~Ending' /\ rotateSem' = rotateSem
    BY <1>4 DEF TripStart, Receive, Ending
  <2>2. QED
    BY <2>1, MessageTaken DEF EndWaits, Ending
<1>5. CASE EndIgnored
  <2>1. /\ Receive("TRIP_END") /\ pc = "receive" /\ pc' = pc
        /\ ~tripActive /\ ~tripActive' /\ GiveSem
    BY <1>5 DEF EndIgnored, Receive, trip
  <2>2. rotateSem' = "full"
    BY <2>1 DEF GiveSem, SemInv
  <2>3. FramesAfter(0)'
    BY <2>1, MessageTaken DEF EndWaits, Ending
  <2>4. QED
    BY <2>1, <2>2, <2>3 DEF EndWaits
<1>6. CASE TripEnd
  <2>1. /\ Receive("TRIP_END") /\ pc = "receive" /\ Ending' /\ rotateSem' = rotateSem
        /\ tripActive
    BY <1>6 DEF TripEnd, Receive, Ending
  <2>2. FramesAfter(0)' /\ rotateSem # "full"
    BY <2>1, MessageTaken DEF EndWaits, Ending
  <2>3. QED
    BY <2>1, <2>2 DEF EndWaits
<1>7. CASE EndCloseSnap \/ EndCloseRaw \/ EndRotate
  <2>1. Ending /\ Ending' /\ rotateSem' = rotateSem /\ logQueue' = logQueue /\ pc # "receive"
    BY <1>7 DEF EndCloseSnap, EndCloseRaw, EndRotate, Ending
  <2>2. QED
    BY <2>1 DEF EndWaits, FramesAfter
<1>8. CASE EndGive
  <2>1. /\ Ending /\ pc = "end_give" /\ pc' = "receive" /\ GiveSem
        /\ logQueue' = logQueue /\ tripActive' = tripActive
    BY <1>8 DEF EndGive, Ending, trip
  <2>2. ~tripActive'
    BY <2>1 DEF HandleInv
  <2>3. rotateSem' = "full"
    BY <2>1 DEF GiveSem, SemInv
  <2>4. FramesAfter(0)'
    BY <2>1 DEF EndWaits, FramesAfter
  <2>5. QED
    BY <2>1, <2>2, <2>3, <2>4 DEF EndWaits
<1>9. QED
  BY <1>1, <1>2, <1>3, <1>4, <1>5, <1>6, <1>7, <1>8 DEF LoggerStep

LEMMA LoggerNoEnd ==
    ASSUME TypeOK, NoEnd, LoggerStep \/ \E c \in Currents \cup {NoCurrent} : LogFrame(c)
    PROVE  NoEnd'
<1>1. CASE \E c \in Currents \cup {NoCurrent} : LogFrame(c)
  <2>1. PICK c \in Currents \cup {NoCurrent} : LogFrame(c)
    BY <1>1
  <2>2. pc' = pc /\ rotateSem' = rotateSem
    BY <2>1 DEF LogFrame
  <2>3. QED
    BY <2>1, <2>2, FrameQueued DEF NoEnd, Ending
<1>2. CASE \/ CreateSem \/ SdInit \/ BootLoad \/ BootOpenRaw \/ BootOpenSnap
           \/ StartOpenRaw \/ StartOpenSnap \/ StartArm
  <2>1. /\ logQueue' = logQueue /\ ~Ending'
        /\ rotateSem' = rotateSem \/ rotateSem' = "empty"
    BY <1>2 DEF Ending, CreateSem, SdInit, BootLoad, BootOpenRaw, BootOpenSnap, StartOpenRaw,
       StartOpenSnap, StartArm
  <2>2. QED
    BY <2>1 DEF NoEnd, EndQueued
<1>3. CASE WriteRawFrame \/ SkipRawFrame \/ TripStart
  <2>1. /\ \E type : Receive(type)
        /\ ~Ending' /\ rotateSem' = rotateSem
    BY <1>3 DEF WriteRawFrame, SkipRawFrame, TripStart, Ending, Receive
  <2>2. QED
    BY <2>1, MessageTaken DEF NoEnd
<1>4. ~EndIgnored /\ ~TripEnd
  BY MessageTaken DEF EndIgnored, TripEnd, NoEnd
<1>5. ~EndCloseSnap /\ ~EndCloseRaw /\ ~EndRotate /\ ~EndGive
  BY DEF EndCloseSnap, EndCloseRaw, EndRotate, EndGive, NoEnd, Ending
<1>6. QED
  BY <1>1, <1>2, <1>3, <1>4, <1>5 DEF LoggerStep

\* The semaphore is there once the task has run its first statement.
LEMMA SemStep ==
    ASSUME TypeOK, SemInv, [Next]_vars
    PROVE  SemInv'
<1>1. CASE LoggerStep
  BY <1>1 DEF LoggerStep, SemInv, CreateSem, SdInit, BootLoad, BootOpenRaw, BootOpenSnap,
     WriteRawFrame, SkipRawFrame, Receive, TripStart, StartOpenRaw, StartOpenSnap, StartArm,
     EndIgnored, TripEnd, EndCloseSnap, EndCloseRaw, EndRotate, EndGive, GiveSem
<1>2. CASE Reset
  BY <1>2 DEF Reset, Restart, Boot, SemInv
<1>3. CASE \/ \E c \in Currents \cup {NoCurrent} : LogFrame(c)
           \/ \E type \in {"TRIP_START", "TRIP_END"} : PostMarker(type)
           \/ WaitRotate \/ UNCHANGED vars
  BY <1>3 DEF LogFrame, PostMarker, WaitRotate, vars, SemInv
<1>4. QED
  BY <1>1, <1>2, <1>3 DEF Next

LEMMA RotateStep ==
    ASSUME BleTypeInv, HandleInv, RotateInv, [BleNext]_allVars
    PROVE  RotateInv'
<1>0. TypeOK
  BY DEF BleTypeInv, BleTypeOK
<1>a. SemInv'
  BY <1>0, SemStep, LoggerSteps DEF RotateInv
<1> DEFINE InTime == timedOut \/ pc = "off" \/ IF ble = "wait" THEN EndWaits ELSE NoEnd
           Started == pc = "create_sem" => ble = "idle"
<1>1. ASSUME UNCHANGED vars, timedOut' = timedOut, ble # "wait", ble' # "wait",
             pc = "create_sem" => ble' = "idle"
      PROVE  RotateInv'
  <2>1. NoEnd' <=> NoEnd
    BY <1>1 DEF vars, NoEnd, EndQueued, Ending
  <2>2. pc' = pc
    BY <1>1 DEF vars
  <2>3. QED
    BY <1>a, <1>1, <2>1, <2>2 DEF RotateInv
<1>2. CASE ListRead \/ OpenDir \/ ReadEntry \/ ListSend
  <2>1. /\ UNCHANGED vars /\ timedOut' = timedOut /\ ble # "wait" /\ ble' # "wait"
        /\ pc = "create_sem" => ble' = "idle"
    BY <1>2 DEF ListRead, OpenDir, ReadEntry, ListSend, history, Ready, Mounted, RotateInv
  <2>2. QED
    BY <1>1, <2>1
<1>3. CASE (\E id \in offered : GetOpen(id)) \/ GetChunk \/ GetAbort \/ GetEnd
  <2>1. /\ UNCHANGED vars /\ timedOut' = timedOut /\ ble # "wait" /\ ble' # "wait"
        /\ pc = "create_sem" => ble' = "idle"
    BY <1>3 DEF GetOpen, GetChunk, GetAbort, GetEnd, history, Ready, RotateInv
  <2>2. QED
    BY <1>1, <2>1
<1>4. CASE (\E id \in offered : Done(id)) \/ WifiMode
  <2>1. /\ UNCHANGED vars /\ timedOut' = timedOut /\ ble # "wait" /\ ble' # "wait"
        /\ pc = "create_sem" => ble' = "idle"
    BY <1>4 DEF Done, WifiMode, Ready, RotateInv
  <2>2. QED
    BY <1>1, <2>1
<1>5. CASE Mark("TRIP_START")
  <2>1. /\ PostMarker("TRIP_START") /\ ble = "idle" /\ ble' = "idle" /\ timedOut' = timedOut
    BY <1>5 DEF Mark, Ready, history
  <2>2. pc' = pc /\ rotateSem' = rotateSem
    BY <2>1 DEF PostMarker
  <2>3. QED
    BY <1>0, <1>a, <2>1, <2>2, StartPosted DEF RotateInv, NoEnd, Ending
<1>6. CASE Mark("TRIP_END")
  <2>1. /\ PostMarker("TRIP_END") /\ ble = "idle" /\ pc # "create_sem" /\ ble' = "wait"
        /\ timedOut' = timedOut
    BY <1>6 DEF Mark, Ready, history
  <2>2. pc' = pc /\ rotateSem' = rotateSem
    BY <2>1 DEF PostMarker
  <2>3. QED
    BY <1>0, <1>a, <2>1, <2>2, EndPosted DEF RotateInv, NoEnd, EndWaits, Ending
<1>7. CASE Rotated
  <2>1. /\ WaitRotate /\ ble = "wait" /\ ble' = "idle" /\ timedOut' = timedOut
    BY <1>7 DEF Rotated, history
  <2>2. pc' = pc /\ rotateSem = "full" /\ rotateSem' = "empty" /\ logQueue' = logQueue
    BY <2>1 DEF WaitRotate
  <2>3. EndWaits => NoEnd'
    BY <1>0, <2>2, QueueKinds DEF EndWaits, NoEnd, EndQueued, Ending
  <2>4. QED
    BY <1>a, <2>1, <2>2, <2>3 DEF RotateInv
<1>8. CASE WaitOver
  <2>1. /\ UNCHANGED vars /\ ble = "wait" /\ ble' = "idle" /\ rotateSem # "full"
        /\ timedOut' = (timedOut \/ rotateSem = "empty")
    BY <1>8 DEF WaitOver
  <2>2. pc' = pc /\ rotateSem \in {"absent", "empty", "full"}
    BY <1>0, <2>1 DEF vars, TypeOK
  <2>3. timedOut' \/ pc' = "off"
    <3>1. CASE rotateSem = "empty"
      BY <2>1, <3>1
    <3>2. CASE rotateSem = "absent"
      BY <2>1, <2>2, <3>2 DEF RotateInv, SemInv
    <3>3. QED
      BY <2>1, <2>2, <3>1, <3>2
  <2>4. QED
    BY <1>a, <2>1, <2>3 DEF RotateInv
<1>9. CASE (LoggerStep \/ \E c \in Currents \cup {NoCurrent} : LogFrame(c)) /\ UNCHANGED bleVars
  <2>1. ble' = ble /\ timedOut' = timedOut
    BY <1>9 DEF bleVars, history
  <2>2. pc' # "create_sem" \/ pc' = pc
    BY <1>9 DEF LoggerStep, CreateSem, SdInit, BootLoad, BootOpenRaw, BootOpenSnap,
       WriteRawFrame, SkipRawFrame, TripStart, StartOpenRaw, StartOpenSnap, StartArm,
       EndIgnored, TripEnd, EndCloseSnap, EndCloseRaw, EndRotate, EndGive, LogFrame
  <2>3. pc = "off" => pc' = "off"
    BY <1>9 DEF LoggerStep, CreateSem, SdInit, BootLoad, BootOpenRaw, BootOpenSnap,
       WriteRawFrame, SkipRawFrame, TripStart, StartOpenRaw, StartOpenSnap, StartArm,
       EndIgnored, TripEnd, EndCloseSnap, EndCloseRaw, EndRotate, EndGive, LogFrame, Receive
  <2>4. pc # "off" /\ EndWaits => EndWaits'
    BY <1>0, <1>9, LoggerEnds DEF RotateInv
  <2>5. NoEnd => NoEnd'
    BY <1>0, <1>9, LoggerNoEnd
  <2>6. QED
    BY <1>a, <2>1, <2>2, <2>3, <2>4, <2>5 DEF RotateInv
<1>10. CASE Reboot
  <2>1. /\ ble' = "idle" /\ logQueue' = <<>> /\ pc' \in {"off", "create_sem"}
        /\ rotateSem' = "absent"
    BY <1>10 DEF Reboot, Restart, Boot
  <2>2. NoEnd'
    BY <2>1 DEF NoEnd, EndQueued, Ending
  <2>3. QED
    BY <1>a, <2>1, <2>2 DEF RotateInv
<1>11. CASE UNCHANGED allVars
  <2>1. NoEnd' = NoEnd /\ EndWaits' = EndWaits /\ pc' = pc /\ ble' = ble /\ timedOut' = timedOut
    BY <1>11 DEF allVars, vars, bleVars, history, trip, NoEnd, EndWaits, EndQueued, EndAhead,
       FramesAfter, NoEndBefore, Ending
  <2>2. QED
    BY <1>a, <2>1 DEF RotateInv
<1>12. QED
  BY <1>2, <1>3, <1>4, <1>5, <1>6, <1>7, <1>8, <1>9, <1>10, <1>11 DEF BleNext, BleStep

LEMMA RotateCorrect == BleSpec => []RotateInv
<1>1. BleInit => RotateInv
  BY DEF BleInit, Init, RotateInv, SemInv, NoEnd, EndQueued, Ending
<1>2. BleTypeInv /\ HandleInv /\ RotateInv /\ [BleNext]_allVars => RotateInv'
  BY RotateStep
<1>3. BleSpec => []HandleInv
  <2>1. Init => HandleInv
    BY HandleInit
  <2>2. TypeOK /\ HandleInv /\ [Next]_vars => HandleInv'
    BY HandleStep
  <2>3. QED
    BY <2>1, <2>2, LoggerBeside, TypeCorrect, PTL DEF Spec
<1>4. QED
  BY <1>1, <1>2, <1>3, BleTypeInvCorrect, PTL DEF BleSpec

\* The session that LIST skips is not a complete one while the task waits for
\* its next message.
LEMMA SkippedIsOpen ==
    ASSUME TypeOK, SafeInv, pc = "receive"
    PROVE  \A id \in CompletedSnaps : id # nvsSession - 1
<1> SUFFICES ASSUME currentSession \in CompletedSnaps PROVE FALSE
  BY DEF SafeInv, NumberInv, Unnumbered, TypeOK
<1>1. snapFile = currentSession
  BY DEF SafeInv, HandleInv, FreshInv, Unnumbered, CompletedSnaps
<1>2. snapCard[snapFile] \in File /\ snapFile # NoFile
  BY <1>1, ConstantsAssumption DEF TypeOK, IsCard, CompletedSnaps
<1>3. QED
  BY <1>1, <1>2, Unfinished DEF SafeInv, OpenInv, CompletedSnaps

\* As long as no wait has run out of time, an OK that comes of the semaphore
\* comes when the trip is over and its session is not the one LIST skips.
THEOREM OkInTime == ASSUME NvsReliable PROVE BleSpec => OkInTimeMeansRotated
<1>1. BleTypeInv /\ SafeInv /\ RotateInv /\ [BleNext]_allVars
        => [~timedOut /\ ble = "wait" /\ ble' = "idle" /\ rotateSem = "full"
            => /\ ~tripActive
               /\ \A id \in DOMAIN snapCard :
                     Completed(snapCard[id]) => id # nvsSession - 1]_allVars
  <2> SUFFICES ASSUME BleTypeInv, SafeInv, RotateInv,
                      ~timedOut, ble = "wait", rotateSem = "full"
               PROVE  /\ ~tripActive
                      /\ \A id \in DOMAIN snapCard :
                            Completed(snapCard[id]) => id # nvsSession - 1
    OBVIOUS
  <2>1. pc = "receive" /\ ~tripActive
    BY DEF RotateInv, SemInv, EndWaits
  <2>2. QED
    BY <2>1, SkippedIsOpen DEF BleTypeInv, BleTypeOK, CompletedSnaps
<1>2. BleSpec => []SafeInv
  BY LoggerBeside, Safety, PTL
<1>3. QED
  BY <1>1, <1>2, RotateCorrect, BleTypeInvCorrect, PTL DEF BleSpec, OkInTimeMeansRotated

-----------------------------------------------------------------------------
(* DONE in order strands no session.                                       *)

\* A session that is completed has the largest number of all that are.
LEMMA CompletionStep ==
    ASSUME TypeOK, TypeOK', SafeInv, [Next]_vars
    PROVE  \/ CompletedSnaps' = CompletedSnaps
           \/ /\ EndCloseSnap
              /\ CompletedSnaps' = CompletedSnaps \cup {currentSession}
              /\ \A id \in CompletedSnaps : id < currentSession
              /\ currentSession >= 1
<1>1. \A id \in CompletedSnaps : id \in CompletedSnaps'
  BY SnapsKept
<1>2. CASE ~EndCloseSnap
  <2>1. \A id \in CompletedSnaps' : id \in CompletedSnaps
    BY <1>2, SnapSummary DEF CompletedSnaps
  <2>2. QED
    BY <1>1, <2>1
<1>3. CASE EndCloseSnap /\ snapFile = NoFile
  BY <1>3 DEF EndCloseSnap, CompletedSnaps
<1>4. CASE EndCloseSnap /\ snapFile # NoFile
  <2>1. /\ snapFile = currentSession /\ currentSession \in DOMAIN snapCard
        /\ snapCard[snapFile] \in File /\ NoSummary(snapCard[snapFile]) /\ tripPeak \in Int
    BY <1>4 DEF SafeInv, HandleInv, OpenInv, TypeOK, IsCard
  <2>2. currentSession \notin CompletedSnaps
    BY <2>1, Unfinished DEF CompletedSnaps
  <2>3. snapCard' = [snapCard EXCEPT ![currentSession] =
                        Synced(Append1(snapCard[snapFile], EndRow(tripPeak)))]
    BY <1>4, <2>1 DEF EndCloseSnap
  <2>4. Completed(snapCard'[currentSession])
    BY <2>1, <2>3, ClosedFile
  <2>5. CompletedSnaps' = CompletedSnaps \cup {currentSession}
    BY <2>1, <2>3, <2>4 DEF CompletedSnaps
  <2>6. /\ \A id \in CompletedSnaps : id \in Nat /\ id < nvsSession
        /\ nvsSession = currentSession + 1 /\ currentSession >= 1 /\ currentSession \in Nat
    BY <1>4 DEF EndCloseSnap, SafeInv, NumberInv, IdsBelowCounter, Unnumbered, CompletedSnaps,
       TypeOK, IsCard
  <2>7. \A id \in CompletedSnaps : id < currentSession
    BY <2>2, <2>6
  <2>8. QED
    BY <1>4, <2>5, <2>6, <2>7
<1>5. QED
  BY <1>2, <1>3, <1>4

\* Unless a wait has run out of time, none is completed but while it is waited for.
LEMMA NoneCompleted ==
    ASSUME TypeOK, TypeOK', SafeInv, RotateInv, ~timedOut, ble # "wait", [Next]_vars
    PROVE  CompletedSnaps' = CompletedSnaps
<1>1. ~EndCloseSnap
  BY DEF RotateInv, NoEnd, Ending, EndCloseSnap
<1>2. QED
  BY <1>1, CompletionStep

LEMMA ListStep ==
    ASSUME BleTypeInv, ListInv, [BleNext]_allVars
    PROVE  ListInv'
<1>1. CASE ListRead
  <2>1. scan' \in {NoScan, [active |-> Skipped, synced |-> lastSynced, next |-> 0, found |-> {}]}
    BY <1>1 DEF ListRead, NoScan
  <2>2. QED
    BY <2>1 DEF ListInv, NoScan
<1>2. CASE UNCHANGED <<ble, scan>> \/ ble' # "list"
  BY <1>2 DEF ListInv
<1>3. QED
  BY <1>1, <1>2 DEF BleNext, BleStep, Mark, Rotated, WaitOver, OpenDir, ReadEntry, ListSend,
     GetOpen, GetChunk, GetAbort, GetEnd, Done, WifiMode, Reboot, bleVars, allVars, locals

\* The watermark only moves to a session acknowledged.
LEMMA SyncStep ==
    ASSUME NvsReliable, BleTypeInv, SyncInv, [BleNext]_allVars
    PROVE  /\ SyncInv' /\ lastSynced' >= lastSynced
           /\ lastSynced' = lastSynced \/ \E id \in offered : Done(id)
<1>0. lastSynced \in Nat /\ offered \subseteq Nat
  BY DEF BleTypeInv, BleTypeOK
<1>1. CASE UNCHANGED <<lastSynced, acked>>
  BY <1>0, <1>1 DEF SyncInv
<1>2. CASE \E id \in offered : Done(id)
  <2>1. PICK id \in offered : Done(id)
    BY <1>2
  <2>2. /\ lastSynced' = IF id > lastSynced THEN id ELSE lastSynced
        /\ acked' = acked \cup {id}
    BY <2>1 DEF Done, StoreSynced, NvsReliable
  <2>3. QED
    BY <1>0, <1>2, <2>2 DEF SyncInv
<1>3. CASE Reboot
  <2>1. lastSynced' = lastSynced /\ acked' = acked
    BY <1>3 DEF Reboot, Restart, NvsReliable, phone
  <2>2. QED
    BY <1>1, <2>1
<1>4. QED
  BY <1>1, <1>2, <1>3 DEF BleNext, BleStep, Mark, Rotated, WaitOver, ListRead, OpenDir,
     ReadEntry, ListSend, GetOpen, GetChunk, GetAbort, GetEnd, WifiMode, bleVars, allVars, phone

LEMMA ScanStep ==
    ASSUME NvsReliable, ~ImmediateFsync, BleTypeInv, TypeOK', SafeInv, KeptInv, RotateInv,
           ~timedOut, ListInv, SyncInv, ScanInv, [BleNext]_allVars
    PROVE  ScanInv'
<1>0. /\ TypeOK /\ scan \in Scan /\ lastSynced \in Nat /\ nvsSession \in Nat
      /\ CompletedSnaps \subseteq Nat /\ CompletedSnaps \subseteq DOMAIN snapCard
      /\ \A id \in DOMAIN snapCard : id \in Nat
  BY DEF BleTypeInv, BleTypeOK, TypeOK, IsCard, CompletedSnaps
<1>1. CASE ble' \notin {"list", "scan"}
  BY <1>1 DEF ScanInv
<1>2. CASE UNCHANGED <<ble, scan, lastSynced>> /\ ble # "wait"
  <2>1. CompletedSnaps' = CompletedSnaps
    BY <1>0, <1>2, NoneCompleted, LoggerSteps
  <2>2. QED
    BY <1>2, <2>1 DEF ScanInv
<1>3. CASE ListRead
  <2>1. /\ scan' \in {NoScan, [active |-> Skipped, synced |-> lastSynced, next |-> 0, found |-> {}]}
        /\ scan'.active = Skipped /\ scan'.synced = lastSynced
    BY <1>3 DEF ListRead, NoScan, NvsReliable
  <2>2. scan'.next = 0 /\ scan'.found = {} /\ lastSynced' = lastSynced
        /\ CompletedSnaps' = CompletedSnaps
    BY <1>3, <2>1 DEF ListRead, NoScan, vars, persistent, CompletedSnaps
  <2>3. \A id \in CompletedSnaps : id < nvsSession
    BY DEF SafeInv, NumberInv, IdsBelowCounter, CompletedSnaps
  <2>4. \A id \in CompletedSnaps : id <= Skipped
    BY <1>0, <2>3 DEF Skipped
  <2>5. QED
    BY <1>0, <2>1, <2>2, <2>4 DEF ScanInv
<1>4. CASE OpenDir
  BY <1>4 DEF OpenDir, ScanInv, vars, persistent, locals, CompletedSnaps
<1>5. CASE ReadEntry
  <2>1. PICK id \in Unread :
          /\ \A other \in Unread : id <= other
          /\ scan' = [scan EXCEPT !.next = id + 1,
                      !.found = IF /\ id # scan.active
                                   /\ id > scan.synced
                                   /\ HasSize(snapCard[id])
                                THEN @ \cup {id} ELSE @]
    BY <1>5 DEF ReadEntry
  <2>2. /\ scan'.next = id + 1 /\ scan'.active = scan.active /\ scan'.synced = scan.synced
        /\ scan'.found = IF /\ id # scan.active
                            /\ id > scan.synced
                            /\ HasSize(snapCard[id])
                         THEN scan.found \cup {id} ELSE scan.found
    BY <1>0, <2>1 DEF Scan
  <2>3. /\ id \in Nat /\ id \in DOMAIN snapCard /\ id >= scan.next /\ scan.next \in Nat
        /\ scan.found \subseteq Nat
    BY <1>0, <2>1 DEF Unread, Scan
  <2>4. /\ lastSynced' = lastSynced /\ CompletedSnaps' = CompletedSnaps /\ ble = "scan"
    BY <1>5 DEF ReadEntry, vars, persistent, CompletedSnaps
  <2>5. id \in CompletedSnaps => HasSize(snapCard[id])
    BY <1>0, <2>3 DEF HasSize, KeptInv, CompletedSnaps, Completed, TypeOK, IsCard, File
  <2>6. \A c \in CompletedSnaps : c >= scan.next => id <= c
    BY <1>0, <2>1 DEF Unread
  <2>7. scan.synced = lastSynced
    BY <2>4 DEF ScanInv
  <2>8. \A c \in scan'.found : c < scan'.next
    BY <2>2, <2>3, <2>4 DEF ScanInv
  <2>9. \A c \in CompletedSnaps :
          c < scan'.next /\ c > lastSynced => c \in scan'.found \/ c = scan'.active
    <3> SUFFICES ASSUME NEW c \in CompletedSnaps, c < id + 1, c > lastSynced, c # scan.active
                 PROVE  c \in scan'.found
      BY <2>2
    <3>1. CASE c < scan.next
      BY <2>2, <2>4, <3>1 DEF ScanInv
    <3>2. CASE c >= scan.next
      <4>1. c = id
        BY <1>0, <2>3, <2>6, <3>2
      <4>2. QED
        BY <2>2, <2>5, <2>7, <4>1
    <3>3. QED
      BY <1>0, <2>3, <3>1, <3>2
  <2>10. QED
    BY <2>2, <2>4, <2>7, <2>8, <2>9 DEF ScanInv
<1>6. CASE ListSend \/ (\E id \in offered : GetOpen(id)) \/ GetAbort \/ GetEnd \/ Rotated
           \/ WaitOver \/ WifiMode \/ Reboot \/ GetChunk \/ (\E id \in offered : Done(id))
           \/ \E type \in {"TRIP_START", "TRIP_END"} : Mark(type)
  BY <1>1, <1>6 DEF ListSend, GetOpen, GetAbort, GetEnd, Rotated, WaitOver, WifiMode, Reboot,
     Mark, GetChunk, Done, Ready
<1>7. CASE (LoggerStep \/ \E c \in Currents \cup {NoCurrent} : LogFrame(c)) /\ UNCHANGED bleVars
  BY <1>1, <1>2, <1>7 DEF bleVars, locals
<1>8. CASE UNCHANGED allVars
  BY <1>1, <1>2, <1>8 DEF bleVars, allVars, locals
<1>9. QED
  BY <1>3, <1>4, <1>5, <1>6, <1>7, <1>8 DEF BleNext, BleStep

LEMMA OfferStep ==
    ASSUME NvsReliable, BleTypeInv, BleTypeInv', SafeInv, CopyInv, SyncInv, ScanInv, OfferInv,
           [BleNext]_allVars
    PROVE  OfferInv'
<1>0. /\ TypeOK /\ TypeOK' /\ scan \in Scan /\ lastSynced \in Nat /\ lastSynced' \in Nat
      /\ CompletedSnaps \subseteq Nat /\ currentSession \in Nat
  BY DEF BleTypeInv, BleTypeOK, TypeOK, IsCard, CompletedSnaps
<1>1. CASE offered' = offered
  <2> SUFFICES ASSUME NEW id \in offered, NEW older \in CompletedSnaps',
                      older < id, older > lastSynced'
               PROVE  older \in offered
    BY <1>1 DEF OfferInv
  <2>1. id \in CompletedSnaps
    BY DEF CopyInv
  <2>2. older \in CompletedSnaps
    BY <1>0, <2>1, CompletionStep, LoggerSteps
  <2>3. older > lastSynced
    BY <1>0, <2>2, SyncStep
  <2>4. QED
    BY <2>2, <2>3 DEF OfferInv
<1>2. CASE ListSend
  <2>1. /\ offered' = scan.found /\ lastSynced' = lastSynced
        /\ CompletedSnaps' = CompletedSnaps /\ ble = "scan"
    BY <1>2 DEF ListSend, vars, persistent, CompletedSnaps
  <2> SUFFICES ASSUME NEW id \in scan.found, NEW older \in CompletedSnaps,
                      older < id, older > lastSynced
               PROVE  older \in scan.found
    BY <2>1 DEF OfferInv
  <2>2. id \in CompletedSnaps /\ id <= scan.active /\ id < scan.next
    BY <2>1 DEF CopyInv, ScanInv
  <2>3. scan.active \in Nat /\ scan.next \in Nat
    BY <1>0 DEF Scan
  <2>4. older < scan.next /\ older # scan.active
    BY <1>0, <2>2, <2>3
  <2>5. QED
    BY <2>1, <2>4 DEF ScanInv
<1>3. QED
  BY <1>1, <1>2 DEF BleNext, BleStep, Mark, Rotated, WaitOver, ListRead, OpenDir,
     ReadEntry, GetOpen, GetChunk, GetAbort, GetEnd, Done, WifiMode, Reboot, bleVars, allVars, phone

LEMMA StrandedStep ==
    ASSUME NvsReliable, BleTypeInv, TypeOK', SafeInv, CopyInv, SyncInv,
           timedOut \/ OfferInv, InOrderNothingStranded, [BleNext]_allVars
    PROVE  InOrderNothingStranded'
<1>0. /\ TypeOK /\ lastSynced \in Nat /\ CompletedSnaps \subseteq Nat /\ currentSession \in Nat
      /\ acked \subseteq CompletedSnaps /\ offered \subseteq CompletedSnaps
  BY DEF BleTypeInv, BleTypeOK, TypeOK, IsCard, CompletedSnaps, CopyInv
<1>1. timedOut => timedOut'
  BY DEF BleNext, BleStep, Mark, Rotated, WaitOver, ListRead, OpenDir, ReadEntry, ListSend,
     GetOpen, GetChunk, GetAbort, GetEnd, Done, WifiMode, Reboot, bleVars, allVars, history
<1>2. CASE \E id \in offered : Done(id)
  <2>1. PICK id \in offered : Done(id)
    BY <1>2
  <2>2. /\ lastSynced' = IF id > lastSynced THEN id ELSE lastSynced
        /\ acked' = acked \cup {id} /\ snapCard' = snapCard
        /\ jumped' = (jumped \/ \E other \in offered \ acked : other < id)
    BY <2>1 DEF Done, StoreSynced, NvsReliable, vars, persistent
  <2> SUFFICES ASSUME ~jumped', ~timedOut', NEW c \in CompletedSnaps, c \notin acked'
               PROVE  c > lastSynced'
    BY <2>2 DEF InOrderNothingStranded, NothingStranded, CompletedSnaps
  <2>3. c \notin acked /\ c # id /\ c > lastSynced
    BY <1>1, <2>2 DEF InOrderNothingStranded, NothingStranded, CompletedSnaps
  <2>4. ~(c < id)
    BY <1>1, <2>2, <2>3 DEF OfferInv
  <2>5. QED
    BY <1>0, <2>2, <2>3, <2>4
<1>3. CASE ~\E id \in offered : Done(id)
  <2>1. lastSynced' = lastSynced
    BY <1>3, SyncStep
  <2>2. acked' = acked /\ jumped' = jumped
    BY <1>3 DEF BleNext, BleStep, Mark, Rotated, WaitOver, ListRead, OpenDir, ReadEntry, ListSend,
       GetOpen, GetChunk, GetAbort, GetEnd, WifiMode, Reboot, bleVars, allVars, history, phone
  <2> SUFFICES ASSUME ~jumped, ~timedOut, NEW c \in CompletedSnaps', c \notin acked
               PROVE  c > lastSynced
    BY <1>1, <2>1, <2>2 DEF InOrderNothingStranded, NothingStranded, CompletedSnaps
  <2>3. CASE c \in CompletedSnaps
    BY <2>3 DEF InOrderNothingStranded, NothingStranded, CompletedSnaps
  <2>4. CASE c \notin CompletedSnaps
    <3>1. /\ c = currentSession /\ currentSession >= 1
          /\ \A id \in CompletedSnaps : id < currentSession
      BY <1>0, <2>4, CompletionStep, LoggerSteps
    <3>2. QED
      BY <1>0, <3>1 DEF SyncInv
  <2>5. QED
    BY <2>3, <2>4
<1>4. QED
  BY <1>2, <1>3

\* If the phone acknowledges the oldest session first, and no wait ran out of
\* time, no completed session is ever left behind the watermark unread.
THEOREM NoneStranded ==
    ASSUME NvsReliable, ~ImmediateFsync
    PROVE  BleSpec => []InOrderNothingStranded
<1>1. BleInit => OrderInv
  BY DEF BleInit, Init, OrderInv, ListInv, SyncInv, ScanInv, OfferInv, InOrderNothingStranded,
     NothingStranded
<1>2. BleTypeInv /\ BleTypeInv' /\ SafeInv /\ KeptInv /\ CopyInv /\ RotateInv /\ OrderInv
        /\ [BleNext]_allVars => OrderInv'
  <2> SUFFICES ASSUME BleTypeInv, BleTypeInv', SafeInv, KeptInv, CopyInv, RotateInv, OrderInv,
                      [BleNext]_allVars
               PROVE  OrderInv'
    OBVIOUS
  <2>1. /\ TypeOK' /\ ListInv /\ SyncInv /\ InOrderNothingStranded
        /\ timedOut \/ (ScanInv /\ OfferInv)
    BY DEF BleTypeInv, BleTypeOK, OrderInv
  <2>2. ListInv' /\ SyncInv'
    BY <2>1, ListStep, SyncStep
  <2>3. timedOut => timedOut'
    BY DEF BleNext, BleStep, Mark, Rotated, WaitOver, ListRead, OpenDir, ReadEntry, ListSend,
       GetOpen, GetChunk, GetAbort, GetEnd, Done, WifiMode, Reboot, bleVars, allVars, history
  <2>4. timedOut \/ (ScanInv' /\ OfferInv')
    BY <2>1, ScanStep, OfferStep
  <2>5. InOrderNothingStranded'
    BY <2>1, StrandedStep
  <2>6. QED
    BY <2>2, <2>3, <2>4, <2>5 DEF OrderInv
<1>3. OrderInv => InOrderNothingStranded
  BY DEF OrderInv
<1>4. BleSpec => []SafeInv
  BY LoggerBeside, Safety, PTL
<1>5. QED
  BY <1>1, <1>2, <1>3, <1>4, CopyCorrect, RotateCorrect, BleTypeInvCorrect, PTL DEF BleSpec
=============================================================================

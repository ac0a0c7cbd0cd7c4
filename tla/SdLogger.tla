------------------------------ MODULE SdLogger ------------------------------
(***************************************************************************)
(* The SD logger of the telematics firmware (src/main/sd_logger.c): one    *)
(* FreeRTOS task that mounts the card, numbers a session with a counter    *)
(* kept in NVS, and then drains log_queue: CAN frames become rows of       *)
(* session_NNNN.csv, once a second a row of snap_NNNN.csv; the markers     *)
(* TRIP_START and TRIP_END open, arm, summarise, close and rotate the two  *)
(* files of the session.                                                   *)
(*                                                                         *)
(* The task is a sequence of steps (pc) because three things happen        *)
(* between them: can_rx_task and ble_nus_task post to the queue, the BLE   *)
(* task reads trip_active, NVS and the card and takes the semaphore, and   *)
(* the power goes.                                                         *)
(*                                                                         *)
(* A CAN frame is abstracted to the current it carries: a value of         *)
(* Currents (in mA) for a full 0x521 frame, NoCurrent for any other frame. *)
(* A file is its rows after the header.                                    *)
(***************************************************************************)
EXTENDS Integers, Sequences

CONSTANTS
    Currents,       \* currents a 0x521 frame can carry, a set of int32
    NoCurrent,      \* what any other frame carries
    IntMin,         \* the smallest int32
    LogQueueLen,    \* depth of log_queue (512 in main.c)
    FlushRows,      \* raw rows between two fflush (100)
    SnapFlushRows,  \* snapshot rows between two fflush (60)
    ImmediateFsync, \* CONFIG_FATFS_IMMEDIATE_FSYNC (not set in sdkconfig)
    Faults,         \* the faults of the environment that may happen
    NoFile,         \* a NULL FILE pointer
    MaxFrames,      \* bound on the CAN frames logged
    MaxMarkers,     \* bound on the trip markers posted
    MaxResets       \* bound on power cuts and restarts

Events == {"frames", "markers", "resets"}

FaultKinds == {"nvs_open", "nvs_write", "nvs_erase", "fopen"}

ASSUME ConstantsAssumption ==
    /\ Currents \subseteq Int
    /\ NoCurrent \notin Int
    /\ IntMin \in Int /\ IntMin < 0
    /\ \A c \in Currents : IntMin <= c /\ c < -IntMin
    /\ LogQueueLen \in Nat \ {0}
    /\ FlushRows \in Nat \ {0}
    /\ SnapFlushRows \in Nat \ {0}
    /\ ImmediateFsync \in BOOLEAN
    /\ Faults \subseteq FaultKinds
    /\ NoFile \notin Nat
    /\ MaxFrames \in Nat /\ MaxMarkers \in Nat /\ MaxResets \in Nat

VARIABLES
    nvsSession,     \* NVS key "session_id": the next id, 0 when absent
    rawCard,        \* the files session_NNNN.csv on the card, by id
    snapCard,       \* the files snap_NNNN.csv on the card, by id
    pc,             \* where sd_logger_task is
    logQueue,       \* log_queue
    currentSession, \* current_session_id
    rawFile,        \* raw_file: the id of the file it writes, or NoFile
    snapFile,       \* snap_file, likewise
    tripActive,     \* trip_active
    tripPeak,       \* trip_peak_current
    snapForced,     \* last_snapshot_tick was reset: the next frame is due
    flushCtr,       \* flush_ctr of write_raw_frame
    snapFlushCtr,   \* snap_flush_ctr of write_snapshot
    rotateSem,      \* rotate_sem: "absent", "empty" or "full"
    spent           \* environment events so far, for the bounds

persistent == <<nvsSession, rawCard, snapCard>>
handles    == <<currentSession, rawFile, snapFile>>
trip       == <<tripActive, tripPeak, snapForced>>
counters   == <<flushCtr, snapFlushCtr>>
vars == <<persistent, pc, logQueue, handles, trip, counters, rotateSem, spent>>

-----------------------------------------------------------------------------
(* Messages of log_queue, rows of the files, files.                        *)

Frame    == [type : {"FRAME"}, current : Currents \cup {NoCurrent}]
Marker   == [type : {"TRIP_START", "TRIP_END"}]
Message  == Frame \cup Marker
StartRow == [type |-> "TRIP_START"]
SnapRow  == [type |-> "SNAP1"]
EndRow(peak) == [type |-> "TRIP_END", peak |-> peak]

Row  == Frame \cup {StartRow, SnapRow} \cup [type : {"TRIP_END"}, peak : Int]
File == {f \in [rows : Seq(Row), kept : Nat] : f.kept <= Len(f.rows)}

\* The FAT directory entry of a file gives its size as of the last sync:
\* "kept" rows. Without the immediate fsync only fclose syncs.
EmptyFile == [rows |-> <<>>, kept |-> 0]
Append1(f, row) == [rows |-> Append(f.rows, row), kept |-> f.kept]
Synced(f)  == [rows |-> f.rows, kept |-> Len(f.rows)]
Flushed(f) == IF ImmediateFsync THEN Synced(f) ELSE f

\* fopen(path, "w") creates the file or truncates the one of that name.
Create(card, id) ==
    [i \in DOMAIN card \cup {id} |-> IF i = id THEN EmptyFile ELSE card[i]]

IsCard(card) == DOMAIN card \subseteq Nat /\ card \in [DOMAIN card -> File]

\* A summary row is the last one written before fclose.
Completed(f) == f.rows # <<>> /\ f.rows[Len(f.rows)].type = "TRIP_END"

\* int32 negation: -INT32_MIN is INT32_MIN.
AbsMa(c) == IF c < 0 /\ c # IntMin THEN -c ELSE c

TypeOK ==
    /\ nvsSession \in Nat
    /\ IsCard(rawCard) /\ IsCard(snapCard)
    /\ pc \in {"off", "create_sem", "mount", "load", "open_raw", "open_snap",
               "receive", "start_raw", "start_snap", "start_trip",
               "end_snap", "end_raw", "end_rotate", "end_give"}
    /\ logQueue \in Seq(Message) /\ Len(logQueue) <= LogQueueLen
    /\ currentSession \in Nat
    /\ rawFile \in (DOMAIN rawCard) \cup {NoFile}
    /\ snapFile \in (DOMAIN snapCard) \cup {NoFile}
    /\ tripActive \in BOOLEAN /\ tripPeak \in Nat /\ snapForced \in BOOLEAN
    /\ flushCtr \in 0..(FlushRows - 1)
    /\ snapFlushCtr \in 0..(SnapFlushRows - 1)
    /\ rotateSem \in {"absent", "empty", "full"}
    /\ spent \in [Events -> Nat]

-----------------------------------------------------------------------------
(* Power on: RAM holds its initial values, the queue is new. Web-interface *)
(* mode does not start the task ("off").                                   *)

Boot(first) ==
    /\ pc' = first /\ logQueue' = <<>>
    /\ currentSession' = 0 /\ rawFile' = NoFile /\ snapFile' = NoFile
    /\ tripActive' = FALSE /\ tripPeak' = 0 /\ snapForced' = FALSE
    /\ flushCtr' = 0 /\ snapFlushCtr' = 0
    /\ rotateSem' = "absent"

Init ==
    /\ nvsSession = 0 /\ rawCard = <<>> /\ snapCard = <<>>
    /\ pc = "create_sem" /\ logQueue = <<>>
    /\ currentSession = 0 /\ rawFile = NoFile /\ snapFile = NoFile
    /\ tripActive = FALSE /\ tripPeak = 0 /\ snapForced = FALSE
    /\ flushCtr = 0 /\ snapFlushCtr = 0
    /\ rotateSem = "absent"
    /\ spent = [e \in Events |-> 0]

-----------------------------------------------------------------------------
(* The tasks that post to the queue, and the waiter of the semaphore.      *)

\* can_rx_task, which web-interface mode does not start, logs a frame without
\* waiting; a full queue drops it, which changes nothing.
LogFrame(c) ==
    /\ pc # "off"
    /\ spent["frames"] < MaxFrames
    /\ Len(logQueue) < LogQueueLen
    /\ logQueue' = Append(logQueue, [type |-> "FRAME", current |-> c])
    /\ spent' = [spent EXCEPT !["frames"] = @ + 1]
    /\ UNCHANGED <<persistent, pc, handles, trip, counters, rotateSem>>

\* ble_nus_task posts a marker; it waits 200 ms for room.
PostMarker(type) ==
    /\ spent["markers"] < MaxMarkers
    /\ Len(logQueue) < LogQueueLen
    /\ logQueue' = Append(logQueue, [type |-> type])
    /\ spent' = [spent EXCEPT !["markers"] = @ + 1]
    /\ UNCHANGED <<persistent, pc, handles, trip, counters, rotateSem>>

\* sd_logger_wait_rotate returns true; a wait that times out, or that finds
\* no semaphore, changes nothing.
WaitRotate ==
    /\ rotateSem = "full"
    /\ rotateSem' = "empty"
    /\ UNCHANGED <<persistent, pc, logQueue, handles, trip, counters, spent>>

-----------------------------------------------------------------------------
(* sd_logger_task.                                                         *)

CreateSem ==
    /\ pc = "create_sem" /\ pc' = "mount"
    /\ rotateSem' = "empty"
    /\ UNCHANGED <<persistent, logQueue, handles, trip, counters, spent>>

\* A mount that fails is tried again after 5 s and changes nothing.
SdInit ==
    /\ pc = "mount" /\ pc' = "load"
    /\ UNCHANGED <<persistent, logQueue, handles, trip, counters, rotateSem,
                   spent>>

\* A counter that is read but not stored again.
ReuseSession ==
    /\ currentSession' = IF nvsSession = 0 THEN 1 ELSE nvsSession
    /\ nvsSession' = nvsSession

\* nvs_open may fail: the id is 0 and the counter stays. A failing
\* nvs_set_u32 or nvs_commit is not looked at: the id is used, not counted.
LoadAndIncrementSession ==
    LET id == IF nvsSession = 0 THEN 1 ELSE nvsSession IN
    \/ currentSession' = id /\ nvsSession' = id + 1
    \/ "nvs_write" \in Faults /\ currentSession' = id /\ nvsSession' = nvsSession
    \/ "nvs_open" \in Faults /\ currentSession' = 0 /\ nvsSession' = nvsSession

BootLoad ==
    /\ pc = "load" /\ pc' = "open_raw"
    /\ LoadAndIncrementSession
    /\ UNCHANGED <<rawCard, snapCard, logQueue, rawFile, snapFile, trip,
                   counters, rotateSem, spent>>

OpenRawFile ==
    \/ rawCard' = Create(rawCard, currentSession) /\ rawFile' = currentSession
    \/ "fopen" \in Faults /\ rawCard' = rawCard /\ rawFile' = NoFile

OpenSnapFile ==
    \/ snapCard' = Create(snapCard, currentSession) /\ snapFile' = currentSession
    \/ "fopen" \in Faults /\ snapCard' = snapCard /\ snapFile' = NoFile

BootOpenRaw ==
    /\ pc = "open_raw" /\ pc' = "open_snap"
    /\ OpenRawFile
    /\ UNCHANGED <<nvsSession, snapCard, logQueue, currentSession, snapFile,
                   trip, counters, rotateSem, spent>>

BootOpenSnap ==
    /\ pc = "open_snap" /\ pc' = "receive"
    /\ OpenSnapFile
    /\ UNCHANGED <<nvsSession, rawCard, logQueue, currentSession, rawFile,
                   trip, counters, rotateSem, spent>>

\* xQueueReceive: the task blocks on an empty queue.
Receive(type) ==
    /\ pc = "receive"
    /\ logQueue # <<>> /\ Head(logQueue).type = type
    /\ logQueue' = Tail(logQueue)

-----------------------------------------------------------------------------
(* LOG_MSG_RAW_FRAME: write_raw_frame and write_snapshot.                  *)

\* The peaks of speed and temperatures follow the pattern of the current and
\* are left out; the row is all that is kept of the snapshot.
WriteSnapshot ==
    IF snapFile = NoFile
    THEN UNCHANGED <<snapCard, snapFlushCtr>>
    ELSE LET f == Append1(snapCard[snapFile], SnapRow)
             flush == snapFlushCtr + 1 >= SnapFlushRows
         IN  /\ snapCard' = [snapCard EXCEPT ![snapFile] =
                                IF flush THEN Flushed(f) ELSE f]
             /\ snapFlushCtr' = IF flush THEN 0 ELSE snapFlushCtr + 1

\* An off-by-one in the test that resets the counter.
WriteRowLate(frame) ==
    /\ rawCard' = [rawCard EXCEPT ![rawFile] = Append1(@, frame)]
    /\ flushCtr' = IF flushCtr >= FlushRows THEN 0 ELSE flushCtr + 1

WriteRow(frame) ==
    LET f == Append1(rawCard[rawFile], frame)
        flush == flushCtr + 1 >= FlushRows
    IN  /\ rawCard' = [rawCard EXCEPT ![rawFile] =
                          IF flush THEN Flushed(f) ELSE f]
        /\ flushCtr' = IF flush THEN 0 ELSE flushCtr + 1

TrackPeak(c) ==
    tripPeak' = IF tripActive /\ c # NoCurrent /\ AbsMa(c) > tripPeak
                THEN AbsMa(c) ELSE tripPeak

\* The second elapsed since the last snapshot, or last_snapshot_tick is 0 (the
\* uptime is at least a second by the time a phone has started a trip).
WriteRawFrame ==
    /\ Receive("FRAME") /\ rawFile # NoFile
    /\ \E due \in BOOLEAN :
         /\ snapForced => due
         /\ IF due THEN WriteSnapshot ELSE UNCHANGED <<snapCard, snapFlushCtr>>
    /\ snapForced' = FALSE
    /\ WriteRow(Head(logQueue))
    /\ TrackPeak(Head(logQueue).current)
    /\ UNCHANGED <<pc, nvsSession, handles, tripActive, rotateSem, spent>>

SkipRawFrame ==
    /\ Receive("FRAME") /\ rawFile = NoFile
    /\ UNCHANGED <<pc, persistent, handles, trip, counters, rotateSem, spent>>

-----------------------------------------------------------------------------
(* LOG_MSG_TRIP_START: handle_trip_start.                                  *)

TripStart ==
    /\ Receive("TRIP_START")
    /\ pc' = IF rawFile = NoFile THEN "start_raw" ELSE "start_snap"
    /\ UNCHANGED <<persistent, handles, trip, counters, rotateSem, spent>>

StartOpenRaw ==
    /\ pc = "start_raw"
    /\ OpenRawFile
    /\ pc' = IF rawFile' = NoFile THEN "receive" ELSE "start_snap"
    /\ UNCHANGED <<nvsSession, snapCard, logQueue, currentSession, snapFile,
                   trip, counters, rotateSem, spent>>

StartOpenSnap ==
    /\ pc = "start_snap" /\ pc' = "start_trip"
    /\ IF snapFile = NoFile THEN OpenSnapFile ELSE UNCHANGED <<snapCard, snapFile>>
    /\ UNCHANGED <<nvsSession, rawCard, logQueue, currentSession, rawFile,
                   trip, counters, rotateSem, spent>>

\* The peak of the trip before is kept; the snapshot tick is not reset.
ArmKeepPeak == tripActive' = TRUE /\ tripPeak' = tripPeak /\ snapForced' = TRUE
ArmUnforced == tripActive' = TRUE /\ tripPeak' = 0 /\ snapForced' = snapForced

ArmTrip == tripActive' = TRUE /\ tripPeak' = 0 /\ snapForced' = TRUE

StartArm ==
    /\ pc = "start_trip" /\ pc' = "receive"
    /\ ArmTrip
    /\ rawCard' = [rawCard EXCEPT ![rawFile] = Flushed(Append1(@, StartRow))]
    /\ snapCard' = IF snapFile = NoFile THEN snapCard
                   ELSE [snapCard EXCEPT ![snapFile] = Flushed(Append1(@, StartRow))]
    /\ UNCHANGED <<nvsSession, logQueue, handles, counters, rotateSem, spent>>

-----------------------------------------------------------------------------
(* LOG_MSG_TRIP_END: handle_trip_end.                                      *)

GiveNothing == UNCHANGED rotateSem   \* the waiter is forgotten

GiveSem == rotateSem' = IF rotateSem = "absent" THEN "absent" ELSE "full"

EndIgnored ==
    /\ Receive("TRIP_END") /\ ~tripActive
    /\ GiveSem
    /\ UNCHANGED <<pc, persistent, handles, trip, counters, spent>>

\* trip_active is not cleared.
EndStillActive ==
    /\ Receive("TRIP_END") /\ tripActive
    /\ pc' = "end_snap"
    /\ UNCHANGED <<persistent, handles, trip, counters, rotateSem, spent>>

TripEnd ==
    /\ Receive("TRIP_END") /\ tripActive
    /\ tripActive' = FALSE
    /\ pc' = "end_snap"
    /\ UNCHANGED <<persistent, handles, tripPeak, snapForced, counters,
                   rotateSem, spent>>

\* The snapshot file is closed without its summary row.
EndDropSnap ==
    /\ pc = "end_snap" /\ pc' = "end_raw"
    /\ snapFile' = NoFile
    /\ UNCHANGED <<persistent, logQueue, currentSession, rawFile, trip, counters,
                   rotateSem, spent>>

EndCloseSnap ==
    /\ pc = "end_snap" /\ pc' = "end_raw"
    /\ IF snapFile = NoFile THEN snapCard' = snapCard
       ELSE snapCard' = [snapCard EXCEPT ![snapFile] =
                            Synced(Append1(@, EndRow(tripPeak)))]
    /\ snapFile' = NoFile
    /\ UNCHANGED <<nvsSession, rawCard, logQueue, currentSession, rawFile,
                   trip, counters, rotateSem, spent>>

EndCloseRaw ==
    /\ pc = "end_raw"
    /\ IF rawFile = NoFile
       THEN pc' = "end_give" /\ rawCard' = rawCard
       ELSE /\ pc' = "end_rotate"
            /\ rawCard' = [rawCard EXCEPT ![rawFile] =
                              Synced(Append1(@, EndRow(tripPeak)))]
    /\ rawFile' = NoFile
    /\ UNCHANGED <<nvsSession, snapCard, logQueue, currentSession, snapFile,
                   trip, counters, rotateSem, spent>>

\* The session number is not rotated after the trip.
EndSameSession ==
    /\ pc = "end_rotate" /\ pc' = "end_give"
    /\ UNCHANGED <<persistent, logQueue, handles, trip, counters, rotateSem, spent>>

EndRotate ==
    /\ pc = "end_rotate" /\ pc' = "end_give"
    /\ LoadAndIncrementSession
    /\ UNCHANGED <<rawCard, snapCard, logQueue, rawFile, snapFile, trip,
                   counters, rotateSem, spent>>

EndGive ==
    /\ pc = "end_give" /\ pc' = "receive"
    /\ GiveSem
    /\ UNCHANGED <<persistent, logQueue, handles, trip, counters, spent>>

-----------------------------------------------------------------------------
(* A power cut, or esp_restart: nothing closes the files. Without the      *)
(* immediate fsync an open file keeps only what its directory entry says;  *)
(* with it, what was flushed and whatever more stdio had already written.  *)

Cut(f, k) == [rows |-> SubSeq(f.rows, 1, k), kept |-> k]

Surviving(card, file) ==
    IF file = NoFile THEN {card}
    ELSE { [card EXCEPT ![file] = Cut(card[file], k)] :
             k \in card[file].kept ..
                   (IF ImmediateFsync THEN Len(card[file].rows)
                    ELSE card[file].kept) }

\* app_main erases NVS when it is full or of another version.
Restart(first, erased) ==
    /\ spent["resets"] < MaxResets
    /\ spent' = [spent EXCEPT !["resets"] = @ + 1]
    /\ rawCard' \in Surviving(rawCard, rawFile)
    /\ snapCard' \in Surviving(snapCard, snapFile)
    /\ erased => "nvs_erase" \in Faults
    /\ nvsSession' = IF erased THEN 0 ELSE nvsSession
    /\ Boot(first)

Reset == \E first \in {"create_sem", "off"}, erased \in BOOLEAN : Restart(first, erased)

-----------------------------------------------------------------------------
LoggerStep ==
    \/ CreateSem \/ SdInit \/ BootLoad \/ BootOpenRaw \/ BootOpenSnap
    \/ WriteRawFrame \/ SkipRawFrame
    \/ TripStart \/ StartOpenRaw \/ StartOpenSnap \/ StartArm
    \/ EndIgnored \/ TripEnd
    \/ EndCloseSnap \/ EndCloseRaw \/ EndRotate \/ EndGive

Next ==
    \/ \E c \in Currents \cup {NoCurrent} : LogFrame(c)
    \/ \E type \in {"TRIP_START", "TRIP_END"} : PostMarker(type)
    \/ WaitRotate
    \/ LoggerStep
    \/ Reset

Spec == Init /\ [][Next]_vars

\* The scheduler runs the logger task again and again: whatever outranks it on
\* its core blocks between two CAN frames.
FairSpec == Spec /\ WF_vars(LoggerStep)

-----------------------------------------------------------------------------
(* Properties.                                                             *)

\* Every file on the card has an id the NVS counter has passed, so that the
\* next session number names no file (load_and_increment_session hands out
\* fopen "w" targets that do not exist).
IdsBelowCounter ==
    \A id \in DOMAIN rawCard \cup DOMAIN snapCard : id < nvsSession

\* "SD is the master archive": once a session carries its summary row, no
\* step changes it: no reuse of its number, no truncating fopen, no late row,
\* no power cut.
Preserved(card, card2) ==
    \A id \in DOMAIN card :
        Completed(card[id]) => id \in DOMAIN card2 /\ card2[id] = card[id]

MasterArchive ==
    [][Preserved(rawCard, rawCard') /\ Preserved(snapCard, snapCard')]_vars

\* Rows written after the last TRIP_START row.
SinceStart(rows) ==
    { i \in DOMAIN rows :
        \A k \in DOMAIN rows : k >= i => rows[k].type # "TRIP_START" }

TripMagnitudes(rows) ==
    { IF rows[i].current < 0 THEN -rows[i].current ELSE rows[i].current :
        i \in { j \in SinceStart(rows) :
                 rows[j].type = "FRAME" /\ rows[j].current # NoCurrent } }

IsPeak(peak, rows) ==
    /\ peak \in TripMagnitudes(rows) \cup {0}
    /\ \A m \in TripMagnitudes(rows) : m <= peak

\* The peak in the summary row of a session is the largest magnitude among
\* the currents logged since its last TRIP_START: neither an earlier trip,
\* nor frames outside the trip, nor a second TRIP_START leak into it.
PeakIsTripMaximum ==
    \A id \in DOMAIN rawCard :
        LET rows == rawCard[id].rows IN
        Completed(rawCard[id]) => IsPeak(rows[Len(rows)].peak, rows)

\* A session whose raw file is complete has a complete snapshot file with the
\* same summary, or none: whatever power cut falls between the two fclose, the
\* file that LIST and SUMMARY read is not the one left behind.
SnapCompleteFirst ==
    \A id \in DOMAIN rawCard \cap DOMAIN snapCard :
        LET r == rawCard[id].rows
            s == snapCard[id].rows
        IN  Completed(rawCard[id]) =>
              Completed(snapCard[id]) /\ s[Len(s)] = r[Len(r)]

\* Only a session with an open raw file has a trip in progress (otherwise the
\* summary would be skipped and the session number not rotated).
TripHasRaw == tripActive => rawFile # NoFile

\* "force a snapshot on the next frame": a trip that has logged a frame has a
\* snapshot, from which the peaks of speed and temperature are taken.
SnapshotPerTrip ==
    (pc = "receive" /\ tripActive /\ snapFile # NoFile
       /\ \E i \in SinceStart(rawCard[rawFile].rows) :
             rawCard[rawFile].rows[i].type = "FRAME")
    => \E i \in SinceStart(snapCard[snapFile].rows) :
             snapCard[snapFile].rows[i].type = "SNAP1"

\* "Flush every 100 frames to limit data loss on power cut": no step takes
\* FlushRows rows or more off a session.
LossBounded ==
    [][\A id \in DOMAIN rawCard :
          /\ id \in DOMAIN rawCard'
          /\ Len(rawCard[id].rows) - Len(rawCard'[id].rows) < FlushRows]_vars

\* "sessions start at 1; 0 is reserved as nothing synced yet".
SessionsStartAtOne ==
    \A id \in DOMAIN rawCard \cup DOMAIN snapCard : id >= 1

\* A TRIP_END queued while a trip is on is eventually signalled on rotate_sem,
\* unless the device is reset: the waiter's two seconds are the only risk.
EndQueued == \E i \in DOMAIN logQueue : logQueue[i].type = "TRIP_END"
EndSignalled ==
    (tripActive /\ EndQueued) ~> (rotateSem = "full" \/ pc \in {"create_sem", "off"})
=============================================================================

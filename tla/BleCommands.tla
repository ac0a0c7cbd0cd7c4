----------------------------- MODULE BleCommands ----------------------------
(***************************************************************************)
(* The command processor of the BLE task (src/main/ble_nus.c) beside the   *)
(* SD logger, and the boot decision of src/main/main.c. One command at a   *)
(* time is taken from the phone; the logger runs between the steps of a    *)
(* command, shares NVS, the card, log_queue and rotate_sem with it, and in *)
(* web-interface mode does not run at all.                                 *)
(*                                                                         *)
(* The phone keeps what it has been told: the sessions last offered, the   *)
(* copies downloaded, and the sessions it has acknowledged. STATUS and     *)
(* TIME change nothing here and have no action; an ERR answer changes      *)
(* nothing either.                                                         *)
(***************************************************************************)
EXTENDS SdLogger, FiniteSets

CONSTANTS
    ListMax         \* sessions that fit the 512 bytes of a LIST answer

ASSUME BleAssumption == ListMax \in Nat \ {0}

VARIABLES
    lastSynced,     \* NVS key "last_synced"
    bootFlag,       \* NVS key of the boot mode: TRUE for web interface
    ble,            \* what the command processor is doing
    scan,           \* locals of handle_list_command
    transfer,       \* locals of handle_get_command
    offered,        \* the phone: sessions of the last LIST answer
    copies,         \* the phone: rows of the sessions downloaded, by id
    acked,          \* the phone: sessions it has sent DONE for
    asked,          \* WIFI_MODE was answered since the last boot
    timedOut,       \* a wait for the rotation once ran out of time
    jumped          \* the phone once acknowledged a session before an older one

phone   == <<offered, copies, acked>>
locals  == <<scan, transfer>>
history == <<asked, timedOut, jumped>>
bleVars == <<lastSynced, bootFlag, ble, locals, phone, history>>
allVars == <<vars, bleVars>>

NoScan     == [active |-> 0, synced |-> 0, next |-> 0, found |-> {}]
NoTransfer == [id |-> 0, size |-> 0, rows |-> <<>>]

BleTypeOK ==
    /\ TypeOK
    /\ lastSynced \in Nat /\ {bootFlag, asked, timedOut, jumped} \subseteq BOOLEAN
    /\ ble \in {"idle", "wait", "list", "scan", "get", "restart"}
    /\ scan.active \in Nat /\ scan.synced \in Nat /\ scan.next \in Nat
    /\ scan.found \subseteq Nat /\ Cardinality(scan.found) <= ListMax
    /\ transfer.id \in Nat /\ transfer.size \in Nat /\ transfer.rows \in Seq(Row)
    /\ offered \subseteq Nat /\ acked \subseteq Nat
    /\ DOMAIN copies \subseteq Nat /\ \A id \in DOMAIN copies : copies[id] \in Seq(Row)

BleInit ==
    /\ Init
    /\ lastSynced = 0 /\ bootFlag = FALSE
    /\ asked = FALSE /\ timedOut = FALSE /\ jumped = FALSE
    /\ ble = "idle" /\ scan = NoScan /\ transfer = NoTransfer
    /\ offered = {} /\ copies = <<>> /\ acked = {}

\* The card can be read once sd_init has mounted it.
Mounted == pc \notin {"off", "create_sem", "mount"}

\* A command to process. The phone connects long after sd_logger_task has run
\* its first statement.
Ready == ble = "idle" /\ pc # "create_sem"

-----------------------------------------------------------------------------
(* TRIP_START and TRIP_END: handle_trip_marker. The queue full for 200 ms  *)
(* is answered ERR. After TRIP_END the answer waits for the rotation, and  *)
(* is OK whether or not the wait succeeds.                                 *)

Mark(type) ==
    /\ Ready
    /\ PostMarker(type)
    /\ ble' = IF type = "TRIP_END" THEN "wait" ELSE "idle"
    /\ UNCHANGED <<lastSynced, bootFlag, locals, phone, history>>

Rotated ==
    /\ ble = "wait" /\ ble' = "idle"
    /\ WaitRotate
    /\ UNCHANGED <<lastSynced, bootFlag, locals, phone, history>>

\* sd_logger_wait_rotate without its test for a missing semaphore.
WaitLonger ==
    /\ ble = "wait" /\ ble' = "idle"
    /\ rotateSem = "empty" /\ timedOut' = TRUE
    /\ UNCHANGED <<vars, lastSynced, bootFlag, locals, phone, asked, jumped>>

\* There is no semaphore (web-interface mode), or the two seconds are over.
WaitOver ==
    /\ ble = "wait" /\ ble' = "idle"
    /\ rotateSem # "full"
    /\ timedOut' = (timedOut \/ rotateSem = "empty")
    /\ UNCHANGED <<vars, lastSynced, bootFlag, locals, phone, asked, jumped>>

-----------------------------------------------------------------------------
(* LIST: the counters are read from NVS, then the directory entry by entry *)
(* in the order of creation, while the logger may open, close and rotate.  *)

\* The test for no session yet is missing.
SkippedUntested == nvsSession - 1

\* The session that LIST leaves out as open.
Skipped == IF nvsSession > 0 THEN nvsSession - 1 ELSE 0

ListRead ==
    /\ Ready /\ ble' = "list"
    /\ \/ scan' = [NoScan EXCEPT !.active = Skipped, !.synced = lastSynced]
       \/ "nvs_open" \in Faults /\ scan' = NoScan
    /\ UNCHANGED <<vars, lastSynced, bootFlag, transfer, phone, history>>

OpenDir ==
    /\ ble = "list"
    /\ ble' = IF Mounted THEN "scan" ELSE "idle"   \* ERR no_sd
    /\ UNCHANGED <<vars, lastSynced, bootFlag, locals, phone, history>>

\* stat sees the directory entry: 0 bytes until a sync. The header of the file
\* is flushed when it is opened.
NoSizeCheck(f) == TRUE
HasSize(f) == ImmediateFsync \/ f.kept > 0

Unread == { id \in DOMAIN snapCard : id >= scan.next }

Full == Cardinality(scan.found) = ListMax

ReadEntry ==
    /\ ble = "scan" /\ Mounted /\ ~Full
    /\ \E id \in Unread :
         /\ \A other \in Unread : id <= other
         /\ scan' = [scan EXCEPT !.next = id + 1,
                       !.found = IF /\ id # scan.active
                                    /\ id > scan.synced
                                    /\ HasSize(snapCard[id])
                                 THEN @ \cup {id} ELSE @]
    /\ UNCHANGED <<vars, lastSynced, bootFlag, ble, transfer, phone, history>>

ListSend ==
    /\ ble = "scan" /\ ble' = "idle"
    /\ Full \/ Unread = {}
    /\ offered' = scan.found
    /\ scan' = NoScan
    /\ UNCHANGED <<vars, lastSynced, bootFlag, transfer, copies, acked, history>>

-----------------------------------------------------------------------------
(* GET: stat and fopen fix the size; a row stands for a chunk.             *)

GetOpen(id) ==
    /\ Ready /\ ble' = "get"
    /\ Mounted /\ id \in offered \cap DOMAIN snapCard
    /\ transfer' = [id |-> id, size |-> snapCard[id].kept, rows |-> <<>>]
    /\ UNCHANGED <<vars, lastSynced, bootFlag, scan, phone, history>>

GetChunk ==
    /\ ble = "get" /\ Len(transfer.rows) < transfer.size
    /\ LET rows == snapCard[transfer.id].rows
           n    == Len(transfer.rows) + 1
       IN  /\ n <= Len(rows)
           /\ transfer' = [transfer EXCEPT !.rows = Append(@, rows[n])]
    /\ UNCHANGED <<vars, lastSynced, bootFlag, ble, scan, phone, history>>

\* The phone is gone or a notification failed; what was sent is discarded.
GetAbort ==
    /\ ble = "get" /\ ble' = "idle"
    /\ transfer' = NoTransfer
    /\ UNCHANGED <<vars, lastSynced, bootFlag, scan, phone, history>>

GetEnd ==
    /\ ble = "get" /\ ble' = "idle"
    /\ Len(transfer.rows) = transfer.size
    /\ copies' = [id \in DOMAIN copies \cup {transfer.id} |->
                     IF id = transfer.id THEN transfer.rows ELSE copies[id]]
    /\ transfer' = NoTransfer
    /\ UNCHANGED <<vars, lastSynced, bootFlag, scan, offered, acked, history>>

-----------------------------------------------------------------------------
(* DONE: the watermark only moves up. A store that fails is not noticed.   *)

\* The watermark is taken for the first session not yet synced.
StoreNext(id) == lastSynced' = IF id >= lastSynced THEN id + 1 ELSE lastSynced

StoreSynced(id) ==
    \/ lastSynced' = IF id > lastSynced THEN id ELSE lastSynced
    \/ Faults \cap {"nvs_open", "nvs_write"} # {} /\ lastSynced' = lastSynced

Done(id) ==
    /\ Ready
    /\ id \in (offered \cap DOMAIN copies) \ acked
    /\ StoreSynced(id)
    /\ acked' = acked \cup {id}
    /\ jumped' = (jumped \/ \E other \in offered \ acked : other < id)
    /\ UNCHANGED <<vars, bootFlag, ble, locals, offered, copies, asked, timedOut>>

-----------------------------------------------------------------------------
(* SUMMARY reads the last TRIP_END row, wherever it is in the file.        *)

HasJob(f) == \E i \in DOMAIN f.rows : f.rows[i].type = "TRIP_END"

-----------------------------------------------------------------------------
(* WIFI_MODE stores the boot mode and restarts 200 ms later; the logger    *)
(* runs until then. app_main reads the mode, clears it, and starts one of  *)
(* the two sets of tasks. A power cut, or the reboot of the web interface, *)
(* comes at any time.                                                      *)

WifiMode ==
    /\ Ready /\ ble' = "restart"
    /\ \/ bootFlag' = TRUE
       \/ "nvs_write" \in Faults /\ bootFlag' = bootFlag
    /\ asked' = TRUE
    /\ UNCHANGED <<vars, lastSynced, locals, phone, timedOut, jumped>>

\* The boot mode is read and stays.
ReadBootMode(flag, first) ==
    /\ first = IF flag THEN "off" ELSE "create_sem"
    /\ bootFlag' = flag

ReadAndClearBootMode(flag, first) ==
    \/ /\ first = (IF flag THEN "off" ELSE "create_sem")
       /\ bootFlag' \in {FALSE, "nvs_write" \in Faults /\ flag}
    \/ /\ "nvs_open" \in Faults
       /\ first = "create_sem" /\ bootFlag' = flag

Reboot ==
    /\ \E erased \in BOOLEAN, first \in {"off", "create_sem"} :
         /\ Restart(first, erased)
         /\ ReadAndClearBootMode(bootFlag /\ ~erased, first)
         /\ lastSynced' = IF erased THEN 0 ELSE lastSynced
    /\ ble' = "idle" /\ scan' = NoScan /\ transfer' = NoTransfer
    /\ asked' = FALSE
    /\ UNCHANGED <<phone, timedOut, jumped>>

-----------------------------------------------------------------------------
BleStep ==
    \/ \E type \in {"TRIP_START", "TRIP_END"} : Mark(type)
    \/ Rotated \/ WaitOver
    \/ ListRead \/ OpenDir \/ ReadEntry \/ ListSend
    \/ \E id \in offered : GetOpen(id)
    \/ GetChunk \/ GetAbort \/ GetEnd
    \/ \E id \in offered : Done(id)
    \/ WifiMode

BleNext ==
    \/ BleStep
    \/ (\E c \in Currents \cup {NoCurrent} : LogFrame(c)) /\ UNCHANGED bleVars
    \/ LoggerStep /\ UNCHANGED bleVars
    \/ Reboot

BleSpec == BleInit /\ [][BleNext]_allVars

\* The steps of a command under way.
Answer ==
    \/ Rotated \/ WaitOver
    \/ OpenDir \/ ReadEntry \/ ListSend
    \/ GetChunk \/ GetAbort \/ GetEnd

\* Both tasks are run again and again; a command under way goes on.
BleFairSpec ==
    /\ BleSpec
    /\ WF_allVars(LoggerStep /\ UNCHANGED bleVars)
    /\ WF_allVars(Answer)

-----------------------------------------------------------------------------
(* Properties.                                                             *)

\* "so that ble_nus can delay its OK response until the session is available in
\* LIST": when the wait for the rotation succeeds, the trip is over and its session
\* is not the one LIST skips.
OkMeansRotated ==
    [][ble = "wait" /\ ble' = "idle" /\ rotateSem = "full"
       => /\ ~tripActive
          /\ \A id \in DOMAIN snapCard :
                Completed(snapCard[id]) => id # nvsSession - 1
      ]_allVars

\* The same, as long as no wait has run out of time.
OkInTimeMeansRotated ==
    [][~timedOut /\ ble = "wait" /\ ble' = "idle" /\ rotateSem = "full"
       => /\ ~tripActive
          /\ \A id \in DOMAIN snapCard :
                Completed(snapCard[id]) => id # nvsSession - 1
      ]_allVars

\* "skip already-synced sessions": LIST skips everything up to last_synced, so
\* a completed session up to there must have been acknowledged, or the phone
\* is never offered it again.  False as it is: a session skipped by the phone is one.
NothingStranded ==
    \A id \in DOMAIN snapCard :
        Completed(snapCard[id]) /\ id \notin acked => id > lastSynced

\* The same, as long as the phone acknowledges the oldest session it was offered
\* first and no wait has run out of time: after one, two trips may end during a
\* single LIST, which then offers the second and not the first.
InOrderNothingStranded == jumped \/ timedOut \/ NothingStranded

\* "List completed session files": SUMMARY answers JOB for every session LIST
\* has offered; the open session and those cut short by a power cut are left
\* out, although LIST reads only sizes, while the logger runs.
OfferedHasJob ==
    \A id \in offered : id \in DOMAIN snapCard /\ HasJob(snapCard[id])

\* The phone's copy of a session it has acknowledged is the session on the
\* card, now and after any later trip or power cut.
AckedCopyIsSession ==
    \A id \in acked : id \in DOMAIN snapCard /\ copies[id] = snapCard[id].rows

\* "web-interface mode is opt-in per boot, not sticky": a restart leads to it
\* only if WIFI_MODE was answered since the boot before.
WebIsOptIn ==
    [][spent'["resets"] # spent["resets"] /\ pc' = "off" => asked]_allVars

\* The command processor never hangs: LIST, GET and TRIP_END come to an end in
\* either boot mode, whatever the logger does and whichever fault there is.
CommandAnswered ==
    (ble \in {"wait", "list", "scan", "get"}) ~> (ble = "idle")
=============================================================================

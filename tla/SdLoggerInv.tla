---------------------------- MODULE SdLoggerInv -----------------------------
(* The inductive invariant behind the safety properties of SdLogger: where *)
(* the task is tells which files are open, which number they have, and     *)
(* that the number of a file about to be opened names no file yet.         *)
EXTENDS SdLoggerArchive

\* The NVS counter is read, stored and kept: what every claim about session
\* numbers rests on.
NvsReliable == Faults \cap {"nvs_open", "nvs_write", "nvs_erase"} = {}

\* The task has no session number yet.
Unnumbered == {"off", "create_sem", "mount", "load"}

NumberInv ==
    /\ IdsBelowCounter /\ SessionsStartAtOne
    /\ pc \notin Unnumbered =>
         currentSession >= 1 /\ nvsSession = currentSession + 1

HandleInv ==
    /\ rawFile \in {currentSession, NoFile}
    /\ snapFile \in {currentSession, NoFile}
    /\ pc \in Unnumbered \cup {"open_raw", "start_raw", "end_rotate", "end_give"}
         => rawFile = NoFile
    /\ pc \in Unnumbered \cup {"open_raw", "open_snap", "end_raw", "end_rotate",
                               "end_give"}
         => snapFile = NoFile
    /\ pc \in {"start_snap", "start_trip", "end_snap", "end_raw"}
         => rawFile # NoFile
    /\ tripActive => pc \in {"receive", "start_snap", "start_trip"}
    /\ TripHasRaw

\* fopen "w" never meets an existing file.
FreshInv ==
    /\ rawFile = NoFile /\ pc \notin Unnumbered \cup {"end_rotate"}
         => currentSession \notin DOMAIN rawCard
    /\ snapFile = NoFile /\ pc \notin Unnumbered \cup {"end_raw", "end_rotate"}
         => currentSession \notin DOMAIN snapCard

NoSummary(f) == \A i \in DOMAIN f.rows : f.rows[i].type # "TRIP_END"

OpenInv ==
    /\ rawFile # NoFile => NoSummary(rawCard[rawFile])
    /\ snapFile # NoFile => NoSummary(snapCard[snapFile])

SafeInv == NumberInv /\ HandleInv /\ FreshInv /\ OpenInv

\* The peak being tracked is that of the rows of the trip so far, and the
\* snapshot file is complete by the time the raw file is closed.
PeakInv ==
    tripActive \/ pc \in {"end_snap", "end_raw"}
      => IsPeak(tripPeak, rawCard[rawFile].rows)

SnapClosedInv ==
    pc = "end_raw" /\ currentSession \in DOMAIN snapCard
      => /\ Completed(snapCard[currentSession])
         /\ LET s == snapCard[currentSession].rows
            IN  s[Len(s)] = EndRow(tripPeak)

FramesSince(rows) == \E i \in SinceStart(rows) : rows[i].type = "FRAME"
SnapsSince(rows)  == \E i \in SinceStart(rows) : rows[i].type = "SNAP1"

\* The snapshot of a trip is still to be forced, or it is written.
ForcedInv ==
    pc = "receive" /\ tripActive =>
        IF snapForced THEN ~FramesSince(rawCard[rawFile].rows)
        ELSE snapFile # NoFile => SnapsSince(snapCard[snapFile].rows)
=============================================================================

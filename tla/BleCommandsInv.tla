--------------------------- MODULE BleCommandsInv ---------------------------
(* The inductive invariants of BleCommands: what the phone holds is what   *)
(* the card has, a TRIP_END under way is where the processor waits for it, *)
(* and a LIST sees the sessions in the order of their completion.          *)
EXTENDS BleCommands, SdLoggerInv

Scan     == [active : Nat, synced : Nat, next : Nat, found : SUBSET Nat]
Transfer == [id : Nat, size : Nat, rows : Seq(Row)]

\* BleTypeOK says nothing of the fields that the locals have, nor that the session
\* sent is on the card.
BleTypeInv ==
    /\ BleTypeOK
    /\ scan \in Scan /\ IsFiniteSet(scan.found)
    /\ transfer \in Transfer
    /\ ble = "get" => transfer.id \in DOMAIN snapCard

\* The completed sessions that LIST, GET and SUMMARY serve.
CompletedSnaps == {id \in DOMAIN snapCard : Completed(snapCard[id])}

\* A size other than 0 is that of a completed file.
KeptInv ==
    \A id \in DOMAIN snapCard :
        snapCard[id].kept = IF id \in CompletedSnaps THEN Len(snapCard[id].rows) ELSE 0

\* What the phone was told of is complete; what it has is what the card has.
CopyInv ==
    /\ scan.found \subseteq CompletedSnaps /\ offered \subseteq CompletedSnaps
    /\ DOMAIN copies \subseteq CompletedSnaps /\ acked \subseteq DOMAIN copies
    /\ \A id \in DOMAIN copies : copies[id] = snapCard[id].rows
    /\ ble = "get" =>
         /\ transfer.id \in CompletedSnaps
         /\ transfer.size = Len(snapCard[transfer.id].rows)
         /\ Len(transfer.rows) <= transfer.size
         /\ \A i \in 1..Len(transfer.rows) : transfer.rows[i] = snapCard[transfer.id].rows[i]

\* The boot mode is web interface only after WIFI_MODE.
OptInv == bootFlag => asked

-----------------------------------------------------------------------------
Ending == pc \in {"end_snap", "end_raw", "end_rotate", "end_give"}

\* Nothing but frames behind place i of the queue.
FramesAfter(i) == \A k \in DOMAIN logQueue : k > i => logQueue[k].type = "FRAME"

NoEndBefore(i) == \A k \in DOMAIN logQueue : k < i => logQueue[k].type # "TRIP_END"

\* The one TRIP_END in the queue, with nothing but frames behind it.
EndAhead ==
    \E i \in DOMAIN logQueue :
        logQueue[i].type = "TRIP_END" /\ FramesAfter(i) /\ NoEndBefore(i)

\* The TRIP_END that is waited for is queued, under way, or signalled.
EndWaits ==
    \/ EndAhead /\ ~Ending /\ rotateSem # "full"
    \/ FramesAfter(0) /\ Ending /\ rotateSem # "full"
    \/ FramesAfter(0) /\ pc = "receive" /\ rotateSem = "full" /\ ~tripActive

NoEnd == ~EndQueued /\ ~Ending /\ rotateSem # "full"

SemInv == pc \in {"off", "create_sem"} <=> rotateSem = "absent"

\* As long as no wait ran out of time there is at most one TRIP_END, and only
\* while it is waited for.
RotateInv ==
    /\ SemInv
    /\ pc = "create_sem" => ble = "idle"
    /\ timedOut \/ pc = "off" \/ IF ble = "wait" THEN EndWaits ELSE NoEnd

\* A LIST under way has every completed session it has passed, or the last.
ScanInv ==
    ble \in {"list", "scan"} =>
        /\ scan.synced = lastSynced
        /\ \A id \in CompletedSnaps : id <= scan.active
        /\ \A id \in scan.found : id < scan.next
        /\ \A id \in CompletedSnaps :
              id < scan.next /\ id > lastSynced => id \in scan.found \/ id = scan.active

\* The phone was offered what is older than a session it was offered.
OfferInv ==
    \A id \in offered, older \in CompletedSnaps :
        older < id /\ older > lastSynced => older \in offered

\* Before the first entry of a LIST nothing is found.
ListInv == ble = "list" => scan.next = 0 /\ scan.found = {}

SyncInv == lastSynced = 0 \/ lastSynced \in acked

OrderInv ==
    /\ ListInv /\ SyncInv
    /\ timedOut \/ (ScanInv /\ OfferInv)
    /\ InOrderNothingStranded
=============================================================================

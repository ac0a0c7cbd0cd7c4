----------------------------- MODULE CanReceiver -----------------------------
(***************************************************************************)
(* The receiving side of src/main/can_handler.c: the interrupt, its queue, *)
(* and the task that decodes a frame, streams it to the phone if the mode  *)
(* is speedo, and logs it. The mode belongs to the BLE tasks; the task     *)
(* reads it before it posts, so it may have changed by then.               *)
(*                                                                         *)
(* Frames differ in the phone's connection during which they arrived. A    *)
(* decoder looks at nothing but its frame, so one kind of frame is on the  *)
(* bus in a behaviour.                                                     *)
(***************************************************************************)
EXTENDS VehicleState, Sequences

CONSTANTS
    Signals,        \* frames: [id, dlc, raw]
    RxDepth,        \* s_rx_queue
    LiveDepth,      \* g_ble_live_queue
    MaxFrames       \* frames on the bus, by the frame: a bound of the environment

ASSUME CanAssumption ==
    /\ \A f \in Signals : f.id \in Fields \cup {"unknown"} /\ f.dlc \in 0..8 /\ Holds(f)
    /\ {RxDepth, LiveDepth} \subseteq Nat \ {0}
    /\ MaxFrames \in [Signals -> Nat]

VARIABLES
    conn,           \* conn_handle: the connection, 0 if there is none
    mode,           \* g_app_mode
    signal,         \* the frame the bus carries
    frames,         \* frames sent so far
    rx,             \* s_rx_queue
    can,            \* where can_rx_task is, and the frame it has
    field,          \* the field of the record that the frame is for
    live            \* g_ble_live_queue

canVars == <<signal, frames, rx, can, field, live>>

Waiting == [at |-> "receive", link |-> 0]

CanTypeOK ==
    /\ signal \in Signals /\ frames \in 0..MaxFrames[signal] /\ field \in Int
    /\ rx \in Seq(Nat) /\ Len(rx) <= RxDepth
    /\ can.at \in {"receive", "stream", "post_live", "post_log"} /\ can.link \in Nat
    /\ live \in Seq(Nat) /\ Len(live) <= LiveDepth

CanInit ==
    /\ signal \in Signals /\ frames = 0 /\ field = 0
    /\ rx = <<>> /\ can = Waiting /\ live = <<>>

\* A queue that takes one more than fits.
Overfilled(q, x, n) == IF Len(q) <= n THEN Append(q, x) ELSE q

\* What xQueueSend makes of a queue that holds n.
Posted(q, x, n) == IF Len(q) < n THEN Append(q, x) ELSE q

\* The interrupt; in web-interface mode there is no receiver.
FrameArrives ==
    /\ mode # "web" /\ frames < MaxFrames[signal]
    /\ frames' = frames + 1
    /\ rx' = Posted(rx, conn, RxDepth)
    /\ UNCHANGED <<signal, can, field, live>>

TakeFrame ==
    /\ can.at = "receive" /\ rx # <<>>
    /\ rx' = Tail(rx)
    /\ can' = [at |-> "stream", link |-> Head(rx)]
    /\ field' = Decode(field, signal)
    /\ UNCHANGED <<signal, frames, live>>

ReadMode ==
    /\ can.at = "stream"
    /\ can' = [can EXCEPT !.at = IF mode = "speedo" THEN "post_live" ELSE "post_log"]
    /\ UNCHANGED <<signal, frames, rx, field, live>>

\* The post waits until there is room.
PostLiveBlocking ==
    /\ can.at = "post_live" /\ Len(live) < LiveDepth
    /\ can' = [can EXCEPT !.at = "post_log"]
    /\ live' = Append(live, can.link)
    /\ UNCHANGED <<signal, frames, rx, field>>

PostLive ==
    /\ can.at = "post_live"
    /\ can' = [can EXCEPT !.at = "post_log"]
    /\ live' = Posted(live, can.link, LiveDepth)
    /\ UNCHANGED <<signal, frames, rx, field>>

\* Posted or, if log_queue is full, dropped; SdLogger models what comes of it.
PostLog ==
    /\ can.at = "post_log"
    /\ can' = Waiting
    /\ UNCHANGED <<signal, frames, rx, field, live>>

CanTask == TakeFrame \/ ReadMode \/ PostLive \/ PostLog
CanStep == FrameArrives \/ CanTask
=============================================================================

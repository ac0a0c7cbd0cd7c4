------------------------------ MODULE CanUpdate ------------------------------
(***************************************************************************)
(* The firmware update of the inverter over CAN (oi_can.c, handle_update   *)
(* and oi_can_start_update; web_interface.c, /fwupdate).  The inverter is  *)
(* reset into its bootloader, which asks for the image piece by piece; the *)
(* client answers from oi_can_loop, called by the poll task and by the     *)
(* handler that waits for a page.  Replies to SDO requests come by the     *)
(* same queue.                                                             *)
(*                                                                         *)
(* Sizes are counted in chunks of eight bytes, a page has PageChunks of    *)
(* them, and a checksum is the sequence of the chunks it was computed      *)
(* over.  The bootloader is external: it asks for one thing at a time and  *)
(* goes on when it is answered; after a wrong checksum it reports the      *)
(* error and asks again.  Of the SDO client (SdoClient) only matters here  *)
(* whether it is in a state in which it begins its handshake again.        *)
(***************************************************************************)
EXTENDS Naturals, Sequences

CONSTANTS
    Files,       \* the images that can be opened
    Size,        \* the number of chunks of each
    PageChunks,  \* PAGE_SIZE_BYTES
    JsonRetries, \* s_retries after an update
    TxDepth,     \* frames that can wait to be sent
    RxDepth,     \* length of s_rx_queue
    Bounds       \* sets of bounds, [starts, others, garbled, cycles]: how many updates
                 \* are begun, other requests made of the inverter, chunks arrive
                 \* wrong, and how often the inverter is switched off and on

ASSUME UpdateAssumption ==
    /\ JsonRetries \in Nat
    /\ Bounds \subseteq [starts : Nat, others : Nat, garbled : Nat, cycles : Nat]
    /\ {PageChunks, TxDepth, RxDepth} \subseteq Nat \ {0}
    /\ \A f \in Files : Size[f] \in Nat \ {0}
    /\ "none" \notin Files

VARIABLES
    s_upd_state,     \* as in the code
    s_update_file,   \* the open image, or NoFile
    s_current_page, s_current_byte,
    s_update_crc,
    s_retries,
    shaky,           \* s_state is ST_OBTAINSERIAL or ST_ERROR
    lock,            \* s_sdo_lock: "free", "loop", "other"
    recvd,           \* recvd_response of the loop that has the lock
    http,            \* the HTTP request under way
    ui,              \* the browser: the image, its pages, the step to ask for
    s_rx_queue,      \* frames received
    bus,             \* frames sent
    boot,            \* the bootloader
    flash,           \* the pages it wrote, by number
    installed,       \* the image it last started
    up,              \* the firmware runs, in web interface mode
    amiss,           \* what went amiss so far: a frame of the bootloader, or to it,
                     \* had no effect ("frame"; "error" if it was the report of a
                     \* wrong checksum), or an update was begun while another was
                     \* under way ("overlap"; "again" if only the client was at it)
    left             \* what is left of the bounds

client == <<s_upd_state, s_update_file, s_current_page, s_current_byte, s_update_crc, s_retries>>
browser == <<http, ui>>
inverter == <<boot, flash, installed>>
vars == <<client, shaky, lock, recvd, browser, s_rx_queue, bus, inverter, up,
          amiss, left>>

NoFile == "none"
NoHttp == [at |-> "none", file |-> NoFile]

-----------------------------------------------------------------------------
(* Images *)

\* What fseek and fread give at chunk b, filled up with 0xFF.
ReadChunk(f, b) == IF f # NoFile /\ b < Size[f] THEN <<f, b>> ELSE <<"0xff", 0>>

PagesOf(f) == IF f = NoFile THEN 0 ELSE (Size[f] + PageChunks - 1) \div PageChunks

PageOf(f, k) == [c \in 1 .. PageChunks |-> ReadChunk(f, k * PageChunks + c - 1)]

Image(f) == [k \in 1 .. PagesOf(f) |-> PageOf(f, k - 1)]

-----------------------------------------------------------------------------
(* Frames *)

Frame(type, v) == [type |-> type, v |-> v]

\* twai_send: a frame that does not fit is given up.
HasSpace == Len(bus) < TxDepth
Sent(frames) == bus' = SubSeq(bus \o frames, 1, IF HasSpace THEN Len(bus) + Len(frames) ELSE Len(bus))

\* The frames of the bootloader among those that go unread, for `amiss`.
Unread(frames) ==
    {IF frames[k] = "E" THEN "error" ELSE "frame" : k \in {j \in DOMAIN frames : frames[j] # "sdo"}}

Unsent == IF HasSpace THEN {} ELSE {"frame"}

UpdateInit ==
    /\ s_upd_state = "UPD_IDLE" /\ s_update_file = NoFile
    /\ s_current_page = 0 /\ s_current_byte = 0 /\ s_update_crc = <<>> /\ s_retries = 0
    /\ shaky \in BOOLEAN /\ lock = "free" /\ recvd = FALSE
    /\ http = NoHttp /\ ui = [file |-> NoFile, pages |-> 0, step |-> 0]
    /\ s_rx_queue = <<>> /\ bus = <<>>
    /\ boot = [at |-> "app", pages |-> 0, page |-> 0, buf |-> <<>>]
    /\ flash = <<>> /\ installed = <<>>
    /\ up = TRUE /\ amiss = {}
    /\ left \in Bounds

-----------------------------------------------------------------------------
(* handle_update: one frame of the bootloader *)

\* SEND_MAGIC: the identification goes back.
Identify(frame) ==
    /\ s_upd_state = "SEND_MAGIC" /\ frame = "magic"
    /\ s_upd_state' = "SEND_SIZE" /\ Sent(<<Frame("id", 0)>>)
    /\ UNCHANGED <<s_update_file, s_current_page, s_current_byte, s_update_crc, s_retries, shaky, up>>

\* SEND_SIZE, with the number of pages in one byte.
TellSize(frame) ==
    /\ s_upd_state = "SEND_SIZE" /\ frame = "S" /\ s_update_file # NoFile
    /\ s_upd_state' = "SEND_PAGE" /\ Sent(<<Frame("size", PagesOf(s_update_file) % 256)>>)
    /\ s_update_crc' = <<>> /\ s_current_byte' = 0 /\ s_current_page' = 0
    /\ UNCHANGED <<s_update_file, s_retries, shaky, up>>

\* fileno of no file: the firmware panics and restarts, not in this mode.
SizeOfNothing(frame) ==
    /\ s_upd_state = "SEND_SIZE" /\ frame = "S" /\ s_update_file = NoFile
    /\ up' = FALSE
    /\ UNCHANGED <<client, shaky, bus>>

\* crc32_word, twice: the checksum of what was sent since 0xFFFFFFFF, <<>>.
CrcWord(crc, chunk) == Append(crc, chunk)

\* The next chunk, with the checksum so far.
SendChunk(crc) ==
    LET chunk == ReadChunk(s_update_file, s_current_byte)
    IN  /\ Sent(<<Frame("data", chunk)>>)
        /\ s_update_crc' = CrcWord(crc, chunk)
        /\ s_current_byte' = s_current_byte + 1
        /\ s_upd_state' = "SEND_PAGE"

\* SEND_PAGE, 'P'
NextChunk(frame) ==
    /\ s_upd_state = "SEND_PAGE" /\ frame = "P"
    /\ SendChunk(s_update_crc)
    /\ UNCHANGED <<s_update_file, s_current_page, s_retries, shaky, up>>

\* The bug of counting the page when its checksum is asked for.
TellCrcCounted(frame) ==
    /\ s_upd_state = "SEND_PAGE" /\ frame = "C"
    /\ s_upd_state' = "CHECK_CRC" /\ Sent(<<Frame("crc", s_update_crc)>>)
    /\ s_current_page' = s_current_page + 1
    /\ UNCHANGED <<s_update_file, s_current_byte, s_update_crc, s_retries, shaky, up>>

\* The bug of not sending it.
TellCrcSilent(frame) ==
    /\ s_upd_state = "SEND_PAGE" /\ frame = "C"
    /\ s_upd_state' = "CHECK_CRC" /\ UNCHANGED bus
    /\ UNCHANGED <<s_update_file, s_current_page, s_current_byte, s_update_crc, s_retries, shaky, up>>

\* SEND_PAGE, 'C'
TellCrc(frame) ==
    /\ s_upd_state = "SEND_PAGE" /\ frame = "C"
    /\ s_upd_state' = "CHECK_CRC" /\ Sent(<<Frame("crc", s_update_crc)>>)
    /\ UNCHANGED <<s_update_file, s_current_page, s_current_byte, s_update_crc, s_retries, shaky, up>>

\* CHECK_CRC, 'P': the page was accepted and the next one begins.
NextPage(frame) ==
    /\ s_upd_state = "CHECK_CRC" /\ frame = "P"
    /\ s_current_page' = s_current_page + 1
    /\ SendChunk(<<>>)
    /\ UNCHANGED <<s_update_file, s_retries, shaky, up>>

\* The bug of going on where the rejected page ended.
PageAgainOnward(frame) ==
    /\ s_upd_state = "CHECK_CRC" /\ frame = "E"
    /\ s_upd_state' = "SEND_PAGE" /\ s_update_crc' = <<>>
    /\ UNCHANGED <<s_update_file, s_current_page, s_current_byte, s_retries, shaky, bus, up>>

\* CHECK_CRC, 'E': back to the first byte of the page.  Nothing is sent; handle_update,
\* called again with this frame, does nothing with it.
PageAgain(frame) ==
    /\ s_upd_state = "CHECK_CRC" /\ frame = "E"
    /\ s_upd_state' = "SEND_PAGE" /\ s_update_crc' = <<>>
    /\ s_current_byte' = s_current_page * PageChunks
    /\ UNCHANGED <<s_update_file, s_current_page, s_retries, shaky, bus, up>>

\* CHECK_CRC, 'D': the SDO client begins afresh.
UpdateComplete(frame) ==
    /\ s_upd_state = "CHECK_CRC" /\ frame = "D"
    /\ s_upd_state' = "REQUEST_JSON" /\ s_update_crc' = <<>>
    /\ s_retries' = JsonRetries /\ s_update_file' = NoFile
    /\ shaky' = TRUE
    /\ UNCHANGED <<s_current_page, s_current_byte, bus, up>>

Expected ==
    CASE s_upd_state = "SEND_MAGIC" -> {"magic"}
      [] s_upd_state = "SEND_SIZE" -> {"S"}
      [] s_upd_state = "SEND_PAGE" -> {"P", "C"}
      [] s_upd_state = "CHECK_CRC" -> {"P", "E", "D"}
      [] OTHER -> {}

Unexpected(frame) ==
    /\ frame \notin Expected
    /\ s_update_crc' = IF s_upd_state = "CHECK_CRC" THEN <<>> ELSE s_update_crc
    /\ UNCHANGED <<s_upd_state, s_update_file, s_current_page, s_current_byte, s_retries, shaky, bus, up>>

HandleUpdate(frame) ==
    /\ \/ Identify(frame) \/ TellSize(frame) \/ SizeOfNothing(frame) \/ NextChunk(frame)
       \/ TellCrc(frame) \/ NextPage(frame) \/ PageAgain(frame) \/ UpdateComplete(frame)
       \/ Unexpected(frame)
    /\ amiss' = amiss \cup (IF frame \notin Expected THEN Unread(<<frame>>)
                           ELSE IF frame \in {"E", "D"} THEN {} ELSE Unsent)

-----------------------------------------------------------------------------
(* oi_can_loop, by the poll task or by the handler that waits for a page; it *)
(* does nothing while another has the lock                                   *)

LoopFrame == UNCHANGED <<browser, inverter, left>>

LoopUpdate ==
    /\ up /\ lock = "free" /\ s_rx_queue # <<>> /\ Head(s_rx_queue) # "sdo"
    /\ HandleUpdate(Head(s_rx_queue))
    /\ s_rx_queue' = Tail(s_rx_queue) /\ lock' = "loop" /\ recvd' = FALSE
    /\ LoopFrame

\* An SDO reply may end the handshake, carry it on, or refuse it.
LoopSdo ==
    /\ up /\ lock = "free" /\ s_rx_queue # <<>> /\ Head(s_rx_queue) = "sdo"
    /\ shaky' \in BOOLEAN
    /\ s_rx_queue' = Tail(s_rx_queue) /\ lock' = "loop" /\ recvd' = TRUE
    /\ UNCHANGED <<client, bus, up, amiss>> /\ LoopFrame

LoopEmpty ==
    /\ up /\ lock = "free" /\ s_rx_queue = <<>>
    /\ shaky \/ s_upd_state = "REQUEST_JSON"
    /\ lock' = "loop" /\ recvd' = FALSE
    /\ UNCHANGED <<client, shaky, s_rx_queue, bus, up, amiss>> /\ LoopFrame

Ask == Frame("read", 0)

\* The rest of the loop.  After a second in a shaky state the queue is emptied and
\* the serial number asked for; after an update it is asked for until a reply is
\* taken or the retries are used up.
LoopEnd ==
    /\ up /\ lock = "loop" /\ lock' = "free"
    /\ \E retry \in (IF shaky THEN BOOLEAN ELSE {FALSE}) :
        LET pacing == s_upd_state = "REQUEST_JSON"
            over == recvd \/ s_retries = 0
        IN  /\ s_rx_queue' = IF retry THEN <<>> ELSE s_rx_queue
            /\ amiss' = amiss \cup (IF retry THEN Unread(s_rx_queue) ELSE {})
            /\ Sent((IF retry THEN <<Ask>> ELSE <<>>) \o (IF pacing /\ ~over THEN <<Ask>> ELSE <<>>))
            /\ s_retries' = IF pacing /\ s_retries > 0 THEN s_retries - 1 ELSE s_retries
            /\ s_upd_state' = IF pacing /\ over THEN "UPD_IDLE" ELSE s_upd_state
    /\ recvd' = FALSE
    /\ UNCHANGED <<s_update_file, s_current_page, s_current_byte, s_update_crc, shaky, up>>
    /\ LoopFrame

-----------------------------------------------------------------------------
(* The HTTP task: one request at a time *)

\* /fwupdate with step -1, oi_can_start_update: the image is opened, whoever uses
\* the file in the meantime;
StartOpen ==
    /\ up /\ http = NoHttp /\ left.starts > 0
    /\ left' = [left EXCEPT !.starts = @ - 1]
    /\ \E f \in Files \cup {NoFile} :
        s_update_file' = f /\ http' = [at |-> "reset", file |-> f]
    /\ amiss' = amiss
          \cup (IF boot.at # "app" \/ Unread(s_rx_queue) # {} THEN {"overlap"} ELSE {})
          \cup (IF s_upd_state \in {"UPD_IDLE", "REQUEST_JSON"} THEN {} ELSE {"again"})
    /\ UNCHANGED <<s_upd_state, s_current_page, s_current_byte, s_update_crc, s_retries, shaky, lock,
                   recvd, ui, s_rx_queue, bus, inverter, up>>

\* the inverter is reset, under the lock;
StartReset ==
    /\ up /\ http.at = "reset" /\ lock = "free"
    /\ Sent(<<Frame("reset", 0)>>)
    /\ amiss' = amiss \cup Unsent
    /\ http' = [http EXCEPT !.at = "magic"]
    /\ UNCHANGED <<client, shaky, lock, recvd, ui, s_rx_queue, inverter, up, left>>

\* and the bootloader is waited for.  The browser is told the pages of the file
\* that is open now.
StartMagic ==
    /\ up /\ http.at = "magic"
    /\ s_upd_state' = "SEND_MAGIC" /\ s_current_page' = 0
    /\ ui' = [file |-> http.file, pages |-> PagesOf(s_update_file), step |-> 0]
    /\ http' = NoHttp
    /\ UNCHANGED <<s_update_file, s_current_byte, s_update_crc, s_retries, shaky, lock, recvd,
                   s_rx_queue, bus, inverter, up, amiss, left>>

\* /fwupdate with a step: the handler calls the loop until that page is reached.
StepAsk ==
    /\ up /\ http = NoHttp /\ ui.step < ui.pages
    /\ http' = [at |-> "step", file |-> ui.file]
    /\ UNCHANGED <<client, shaky, lock, recvd, ui, s_rx_queue, bus, inverter, up, amiss, left>>

StepReturn ==
    /\ up /\ http.at = "step" /\ s_current_page >= ui.step
    /\ http' = NoHttp /\ ui' = [ui EXCEPT !.step = @ + 1]
    /\ UNCHANGED <<client, shaky, lock, recvd, s_rx_queue, bus, inverter, up, amiss, left>>

\* Any other request to the inverter empties the queue, asks, and takes the next
\* frame as the answer.
OtherAsk ==
    /\ up /\ http = NoHttp /\ lock = "free" /\ ~shaky /\ left.others > 0
    /\ left' = [left EXCEPT !.others = @ - 1]
    /\ lock' = "other" /\ http' = [at |-> "other", file |-> NoFile]
    /\ s_rx_queue' = <<>> /\ Sent(<<Ask>>)
    /\ amiss' = amiss \cup Unread(s_rx_queue)
    /\ UNCHANGED <<client, shaky, recvd, ui, inverter, up>>

OtherEnd ==
    /\ up /\ http.at = "other" /\ lock' = "free" /\ http' = NoHttp
    /\ LET answer == IF s_rx_queue = <<>> THEN <<>> ELSE <<Head(s_rx_queue)>>
       IN  /\ s_rx_queue' = SubSeq(s_rx_queue, Len(answer) + 1, Len(s_rx_queue))
           /\ amiss' = amiss \cup Unread(answer)
    /\ UNCHANGED <<client, shaky, recvd, ui, bus, inverter, up, left>>

-----------------------------------------------------------------------------
(* The inverter *)

InverterFrame == UNCHANGED <<client, shaky, lock, recvd, browser, up>>

\* The interrupt queues what fits.
Says(frames) ==
    LET all == s_rx_queue \o frames
    IN  /\ s_rx_queue' = SubSeq(all, 1, IF Len(all) < RxDepth THEN Len(all) ELSE RxDepth)
        /\ amiss' = amiss \cup Unread(SubSeq(all, RxDepth + 1, Len(all)))

\* The page that was announced is right: it is written, and the next one asked for;
\* the last one ends the update and the new image is started.
AcceptPage ==
    /\ flash' = [k \in (DOMAIN flash) \cup {boot.page} |-> IF k = boot.page THEN boot.buf ELSE flash[k]]
    /\ IF boot.page + 1 < boot.pages
       THEN /\ boot' = [boot EXCEPT !.page = @ + 1, !.buf = <<>>, !.at = "page"]
            /\ Says(<<"P">>) /\ UNCHANGED installed
       ELSE /\ boot' = [boot EXCEPT !.at = "app", !.buf = <<>>]
            /\ installed' = [k \in 1 .. boot.pages |-> flash'[k - 1]]
            /\ Says(<<"D">>)

RejectPage ==
    /\ boot' = [boot EXCEPT !.buf = <<>>, !.at = "page"]
    /\ Says(<<"E", "P">>)
    /\ UNCHANGED <<flash, installed>>

\* A chunk, as it arrived.
TakeChunk(chunk) ==
    LET buf == Append(boot.buf, chunk)
        last == Len(buf) = PageChunks
    IN  /\ boot' = [boot EXCEPT !.buf = buf, !.at = IF last THEN "crc" ELSE "page"]
        /\ Says(IF last THEN <<"C">> ELSE <<"P">>)
        /\ UNCHANGED <<flash, installed>>

\* What the bootloader, or the firmware, makes of a frame.
Heeded == {<<"reset", "app">>, <<"read", "app">>, <<"id", "magic">>, <<"size", "size">>,
           <<"data", "page">>, <<"crc", "crc">>}

HeedReset(frame) ==
    /\ frame.type = "reset" /\ boot.at = "app"
    /\ boot' = [boot EXCEPT !.at = "magic"]
    /\ Says(<<"magic">>) /\ UNCHANGED <<flash, installed, left>>

HeedRead(frame) ==
    /\ frame.type = "read" /\ boot.at = "app"
    /\ Says(<<"sdo">>) /\ UNCHANGED <<boot, flash, installed, left>>

HeedId(frame) ==
    /\ frame.type = "id" /\ boot.at = "magic"
    /\ boot' = [boot EXCEPT !.at = "size"]
    /\ Says(<<"S">>) /\ UNCHANGED <<flash, installed, left>>

HeedSize(frame) ==
    /\ frame.type = "size" /\ boot.at = "size"
    /\ boot' = [at |-> "page", pages |-> frame.v, page |-> 0, buf |-> <<>>]
    /\ Says(<<"P">>) /\ UNCHANGED <<flash, installed, left>>

HeedData(frame) ==
    /\ frame.type = "data" /\ boot.at = "page"
    /\ \/ TakeChunk(frame.v) /\ UNCHANGED left
       \/ /\ left.garbled > 0 /\ left' = [left EXCEPT !.garbled = @ - 1]
          /\ TakeChunk(<<"garbled", 0>>)

HeedCrc(frame) ==
    /\ frame.type = "crc" /\ boot.at = "crc"
    /\ IF frame.v = boot.buf THEN AcceptPage ELSE RejectPage
    /\ UNCHANGED left

Ignored(frame) ==
    /\ <<frame.type, boot.at>> \notin Heeded
    /\ amiss' = amiss \cup (IF frame.type = "read" THEN {} ELSE {"frame"})
    /\ UNCHANGED <<s_rx_queue, boot, flash, installed, left>>

Serve ==
    /\ bus # <<>> /\ bus' = Tail(bus)
    /\ LET frame == Head(bus)
       IN  HeedReset(frame) \/ HeedRead(frame) \/ HeedId(frame) \/ HeedSize(frame)
           \/ HeedData(frame) \/ HeedCrc(frame) \/ Ignored(frame)
    /\ InverterFrame

\* The inverter is switched off and on; its bootloader speaks first.
PowerCycle ==
    /\ left.cycles > 0 /\ left' = [left EXCEPT !.cycles = @ - 1]
    /\ boot' = [at |-> "magic", pages |-> 0, page |-> 0, buf |-> <<>>]
    /\ bus' = <<>> /\ Says(<<"magic">>)
    /\ UNCHANGED <<flash, installed>> /\ InverterFrame

-----------------------------------------------------------------------------
Loop == LoopUpdate \/ LoopSdo \/ LoopEmpty \/ LoopEnd
Http == StartOpen \/ StartReset \/ StartMagic \/ StepAsk \/ StepReturn \/ OtherAsk \/ OtherEnd

UpdateNext == Loop \/ Http \/ Serve \/ PowerCycle

UpdateSpec == UpdateInit /\ [][UpdateNext]_vars

\* The poll task calls the loop and the HTTP task goes on; the bootloader serves
\* what it is sent.
UpdateFairSpec ==
    /\ UpdateSpec
    /\ WF_vars(LoopUpdate \/ LoopSdo) /\ WF_vars(LoopEnd)
    /\ WF_vars(StepReturn) /\ WF_vars(OtherEnd) /\ WF_vars(Serve)

-----------------------------------------------------------------------------
(* Properties *)

\* What the bootloader starts is one whole image, every page in its place, whatever
\* chunks arrived wrong and whatever was lost or switched off on the way
\* (oi_can.c:518-530).  It takes that no update was begun while another was under
\* way, and that no report of a wrong checksum was thrown away: then the client
\* takes the next question for the acceptance of the page and goes on.
InstalledIsOneFile ==
    amiss \cap {"error", "overlap"} # {} \/ installed = <<>>
    \/ \E f \in Files : installed = Image(f)

\* When the browser is told that step k is done, the pages before page k of its
\* image have been accepted and written (web_interface.c:370-373), under the same
\* conditions.
StepMeansAccepted ==
    [][StepReturn /\ amiss \cap {"error", "overlap"} = {} =>
          \A k \in 0 .. ui.step - 1 : k \in DOMAIN flash /\ flash[k] = PageOf(ui.file, k)]_vars

\* The handler that waits for a page comes to an end, however many chunks arrive
\* wrong, as long as nothing went amiss; it has no other way out.
StepAnswered == http.at = "step" ~> http.at # "step" \/ amiss # {}
==============================================================================

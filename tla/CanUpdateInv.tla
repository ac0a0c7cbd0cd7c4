---------------------------- MODULE CanUpdateInv -----------------------------
(* The inductive invariant of CanUpdate.                                   *)
EXTENDS CanUpdate

Chunks == (Files \X Nat) \cup {<<"0xff", 0>>, <<"garbled", 0>>}
Questions == {"P", "C", "E", "D"}
Replies == {"sdo", "magic", "S"} \cup Questions

BusFrames ==
    [type : {"reset", "read", "id"}, v : {0}] \cup [type : {"size"}, v : Nat]
    \cup [type : {"data"}, v : Chunks] \cup [type : {"crc"}, v : Seq(Chunks)]

UpdateTypeOK ==
    /\ s_upd_state \in {"UPD_IDLE", "SEND_MAGIC", "SEND_SIZE", "SEND_PAGE", "CHECK_CRC", "REQUEST_JSON"}
    /\ s_update_file \in Files \cup {NoFile}
    /\ s_current_page \in Nat /\ s_current_byte \in Nat /\ s_update_crc \in Seq(Chunks)
    /\ http \in [at : {"none", "reset", "magic", "step", "other"}, file : Files \cup {NoFile}]
    /\ ui \in [file : Files \cup {NoFile}, pages : Nat, step : Nat]
    /\ s_rx_queue \in Seq(Replies) /\ bus \in Seq(BusFrames)
    /\ boot \in [at : {"app", "magic", "size", "page", "crc"}, pages : Nat, page : Nat, buf : Seq(Chunks)]

\* The properties hold as long as no report of a wrong checksum was thrown away and
\* no update was begun while another was under way.
Sound == amiss \cap {"error", "overlap"} = {}

Pending == http.at \in {"reset", "magic"}
Queued(frames) == \E i \in DOMAIN s_rx_queue : s_rx_queue[i] \in frames
Followed(first, later) ==
    \E i, j \in DOMAIN s_rx_queue : i < j /\ s_rx_queue[i] \in first /\ s_rx_queue[j] \in later
OnBus(types) == \E i \in DOMAIN bus : bus[i].type \in types

\* The sizes on the bus that the bootloader will take: it has had an identification,
\* or one is before the size.  With one, or when it asks for pages, an update is on.
Sizes == {k \in DOMAIN bus :
            /\ bus[k].type = "size"
            /\ \/ boot.at = "size"
               \/ boot.at = "magic" /\ \E i \in 1..(k - 1) : bus[i].type = "id"}

\* Page k is in the flash, as it is in image f.
Written(f, k) == k \in DOMAIN flash /\ flash[k] = PageOf(f, k)
Transfer == boot.at \in {"page", "crc"}
Committed == Transfer \/ Sizes # {}

\* No client that may hear the bootloader's first frame has an update on: it would
\* begin again in the middle.
Hears == s_upd_state = "SEND_MAGIC" \/ Pending
IdentInv ==
    /\ Committed => s_upd_state \in {"SEND_MAGIC", "SEND_PAGE", "CHECK_CRC"}
    /\ Hears /\ (Committed \/ boot.at = "app") => ~Queued({"magic"})
    /\ Hears => ~Followed({"magic"}, Questions)
    /\ s_upd_state = "SEND_SIZE" => ~Queued(Questions)

\* No identification waits for the bootloader when it starts, or is on the bus while
\* the client has yet to hear of that; and while the firmware of the inverter runs,
\* nothing makes the client send a chunk.
EarlyBus == \A i, j \in DOMAIN bus : i < j /\ bus[i].type = "reset" => bus[j].type # "id"
EarlyInv ==
    /\ boot.at = "app" =>
         /\ s_upd_state \notin {"SEND_SIZE", "SEND_PAGE"} /\ EarlyBus
         /\ s_upd_state = "CHECK_CRC" => ~Queued({"P", "E"})
    /\ s_upd_state = "SEND_MAGIC" /\ Pending =>
         ~Queued({"S"}) /\ (boot.at # "app" => ~OnBus({"id"}))
    /\ s_upd_state = "SEND_SIZE" /\ Pending /\ Followed({"S"}, {"magic"}) =>
         boot.at = "magic" /\ ~OnBus({"id"})

\* A size the bootloader will take is that of the open file, and nothing of a
\* transfer is behind it.
SizeInv ==
    \A k \in Sizes :
        /\ s_update_file \in Files /\ bus[k].v = PagesOf(s_update_file)
        /\ \A j \in DOMAIN bus : j > k => bus[j].type \in {"read", "reset"}

\* In a transfer, the pages before the bootloader's are those of the open file; one
\* frame at most is on the bus; and a checksum there is that of the whole page.
OneFrame ==
    \A i, j \in DOMAIN bus : bus[i].type \in {"data", "crc"} /\ bus[j].type \in {"data", "crc"} => i = j
RightCrc == \A i \in DOMAIN bus : bus[i].type = "crc" => bus[i].v = PageOf(s_update_file, boot.page)
TransferOK ==
    /\ s_update_file \in Files
    /\ boot.pages = PagesOf(s_update_file) /\ boot.page < boot.pages
    /\ \A k \in 0..(boot.page - 1) : Written(s_update_file, k)
    /\ IF boot.at = "page" THEN Len(boot.buf) < PageChunks ELSE Len(boot.buf) = PageChunks
    /\ ~OnBus({"id", "size"})
    /\ boot.at = "page" => ~OnBus({"crc"})
    /\ boot.at = "crc" => ~OnBus({"data"})
    /\ OneFrame /\ RightCrc
TransferInv == Transfer => TransferOK

\* The bootloader asks one thing at a time, but for the report of a wrong checksum.
AskedInv ==
    s_upd_state \in {"SEND_PAGE", "CHECK_CRC"} =>
        /\ ~Followed(Questions, Questions \ {"P"}) /\ ~Followed(Questions \ {"E"}, Questions)
        /\ s_upd_state = "SEND_PAGE" => ~Queued({"E", "D"})
        /\ s_upd_state = "CHECK_CRC" => ~Queued({"C"})

\* What was sent of the page, and its checksum, when the next chunk is due;
PageSent ==
    /\ s_update_crc = [c \in 1..Len(s_update_crc) |->
                          ReadChunk(s_update_file, s_current_page * PageChunks + c - 1)]
    /\ s_current_byte = s_current_page * PageChunks + Len(s_update_crc)

\* a client with an update on is as far as the bootloader.
SendInv ==
    Committed /\ s_upd_state = "SEND_PAGE" =>
        /\ PageSent
        /\ ~Transfer => s_current_page = 0 /\ s_update_crc = <<>> /\ ~Queued(Questions)
        /\ Transfer =>
             /\ Queued(Questions) => ~OnBus({"data", "crc"})
             /\ Queued(Questions) \/ OnBus({"data"}) => s_current_page = boot.page
             /\ ~OnBus({"crc"})
             /\ Queued({"P"}) => boot.at = "page" /\ Len(s_update_crc) = Len(boot.buf)
             /\ Queued({"C"}) => boot.at = "crc" /\ Len(s_update_crc) = PageChunks
             /\ OnBus({"data"}) => Len(s_update_crc) = Len(boot.buf) + 1

CheckInv ==
    Committed /\ s_upd_state = "CHECK_CRC" =>
        /\ Transfer /\ s_current_byte = (s_current_page + 1) * PageChunks
        /\ Queued(Questions) => boot.at = "page" /\ boot.buf = <<>>
        /\ ~Queued({"D"}) /\ ~OnBus({"data"})
        /\ OnBus({"crc"}) => s_current_page = boot.page /\ ~Queued(Questions)
        /\ Queued({"E"}) => s_current_page = boot.page
        /\ Queued({"P"}) /\ ~Queued({"E"}) => s_current_page + 1 = boot.page

\* The pages before the client's are written, of the image the browser was told of.
KeptInv ==
    /\ s_update_file \in {IF Pending THEN http.file ELSE ui.file, NoFile}
    /\ ~Pending =>
         /\ \A k \in 0..(s_current_page - 1) : Written(ui.file, k)
         /\ s_upd_state = "CHECK_CRC" /\ Queued({"P"}) /\ ~Queued({"E"}) => Written(ui.file, s_current_page)

SoundInv ==
    /\ IdentInv /\ EarlyInv /\ SizeInv /\ TransferInv
    /\ AskedInv /\ SendInv /\ CheckInv /\ KeptInv
    /\ installed = <<>> \/ \E f \in Files : installed = Image(f)

UpdateInv == UpdateTypeOK /\ (Sound => SoundInv)

\* The number of pages is sent in one byte (oi_can.c:486).
PagesFit == \A f \in Files : PagesOf(f) < 256
=============================================================================

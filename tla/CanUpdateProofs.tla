--------------------------- MODULE CanUpdateProofs ---------------------------
(* Theorems of CanUpdate and their proofs.                                 *)
EXTENDS CanUpdateInv, SequenceTheorems, TLAPS

USE UpdateAssumption DEF NoFile

-----------------------------------------------------------------------------
(* The reply queue.                                                        *)

RxOK == s_rx_queue \in Seq(Replies)

LEMMA TakeRx ==
    ASSUME RxOK, s_rx_queue # <<>>, s_rx_queue' = Tail(s_rx_queue)
    PROVE  /\ RxOK' /\ Head(s_rx_queue) \in Replies
           /\ \A F : Queued(F) <=> Head(s_rx_queue) \in F \/ Queued(F)'
           /\ \A A, B : Followed(A, B) <=> Followed(A, B)' \/ (Head(s_rx_queue) \in A /\ Queued(B)')
<1> DEFINE n == Len(s_rx_queue)
<1>1. /\ n \in Nat \ {0} /\ DOMAIN s_rx_queue = 1..n /\ RxOK' /\ Head(s_rx_queue) \in Replies
      /\ DOMAIN s_rx_queue' = 1..(n - 1) /\ Head(s_rx_queue) = s_rx_queue[1]
      /\ \A i \in 1..(n - 1) : s_rx_queue'[i] = s_rx_queue[i + 1]
  BY DEF RxOK
<1> HIDE DEF n
<1>2. \A i \in 1..(n - 1) : i + 1 \in 1..n /\ i + 1 # 1
  BY <1>1
<1>3. \A i \in 1..n : i = 1 \/ (i - 1 \in 1..(n - 1) /\ s_rx_queue'[i - 1] = s_rx_queue[i])
  <2> SUFFICES ASSUME NEW i \in 1..n, i # 1
               PROVE  i - 1 \in 1..(n - 1) /\ s_rx_queue'[i - 1] = s_rx_queue[i]
    OBVIOUS
  <2>1. i - 1 \in 1..(n - 1) /\ (i - 1) + 1 = i
    BY <1>1
  <2>2. QED
    BY <1>1, <2>1
<1>4. 1 \in 1..n
  BY <1>1
<1>5. ASSUME NEW F PROVE Queued(F) <=> Head(s_rx_queue) \in F \/ Queued(F)'
  <2>1. Queued(F) => Head(s_rx_queue) \in F \/ Queued(F)'
    BY <1>1, <1>3 DEF Queued
  <2>2. Queued(F)' => Queued(F)
    BY <1>1, <1>2 DEF Queued
  <2>3. Head(s_rx_queue) \in F => Queued(F)
    BY <1>1, <1>4 DEF Queued
  <2>4. QED
    BY <2>1, <2>2, <2>3
<1>6. ASSUME NEW A, NEW B
      PROVE  Followed(A, B) <=> Followed(A, B)' \/ (Head(s_rx_queue) \in A /\ Queued(B)')
  <2>1. ASSUME NEW i \in 1..n, NEW j \in 1..n, i < j, s_rx_queue[i] \in A, s_rx_queue[j] \in B
        PROVE  Followed(A, B)' \/ (Head(s_rx_queue) \in A /\ Queued(B)')
    <3>1. j # 1
      BY <1>1, <2>1
    <3>2. CASE i = 1
      BY <1>1, <1>3, <2>1, <3>1, <3>2 DEF Queued
    <3>3. CASE i # 1
      <4>1. i - 1 < j - 1
        BY <1>1, <2>1
      <4>2. /\ i - 1 \in 1..(n - 1) /\ s_rx_queue'[i - 1] \in A
            /\ j - 1 \in 1..(n - 1) /\ s_rx_queue'[j - 1] \in B
        BY <1>3, <2>1, <3>1, <3>3
      <4>3. Followed(A, B)'
        BY <1>1, <4>1, <4>2 DEF Followed
      <4>4. QED
        BY <4>3
    <3>4. QED
      BY <3>2, <3>3
  <2>2. Followed(A, B)' => Followed(A, B)
    <3> SUFFICES ASSUME NEW i \in 1..(n - 1), NEW j \in 1..(n - 1), i < j,
                        s_rx_queue'[i] \in A, s_rx_queue'[j] \in B
                 PROVE  Followed(A, B)
      BY <1>1 DEF Followed
    <3>1. i + 1 \in 1..n /\ j + 1 \in 1..n /\ i + 1 < j + 1
      BY <1>1
    <3>2. QED
      BY <1>1, <3>1 DEF Followed
  <2>3. Head(s_rx_queue) \in A /\ Queued(B)' => Followed(A, B)
    <3> SUFFICES ASSUME Head(s_rx_queue) \in A, NEW j \in 1..(n - 1), s_rx_queue'[j] \in B
                 PROVE  Followed(A, B)
      BY <1>1 DEF Queued
    <3>1. j + 1 \in 1..n /\ 1 < j + 1
      BY <1>1
    <3>2. QED
      BY <1>1, <1>4, <3>1 DEF Followed
  <2>4. QED
    BY <1>1, <2>1, <2>2, <2>3 DEF Followed
<1>7. QED
  BY <1>1, <1>5, <1>6

LEMMA EmptyRx ==
    ASSUME s_rx_queue' = <<>>
    PROVE  RxOK' /\ (\A F : ~Queued(F)') /\ (\A A, B : ~Followed(A, B)')
BY DEF RxOK, Queued, Followed

LEMMA SameRx ==
    ASSUME RxOK, s_rx_queue' = s_rx_queue
    PROVE  RxOK' /\ (\A F : Queued(F)' <=> Queued(F)) /\ (\A A, B : Followed(A, B)' <=> Followed(A, B))
BY DEF RxOK, Queued, Followed

\* What the interrupt queues is a beginning of what was there and what was said.
LEMMA SayRx ==
    ASSUME RxOK, NEW frames \in Seq(Replies), Says(frames)
    PROVE  /\ RxOK' /\ DOMAIN s_rx_queue = 1..Len(s_rx_queue) /\ DOMAIN s_rx_queue' = 1..Len(s_rx_queue')
           /\ Len(s_rx_queue) \in Nat /\ Len(s_rx_queue') \in Nat
           /\ Len(s_rx_queue') <= Len(s_rx_queue) + Len(frames)
           /\ \A i \in 1..Len(s_rx_queue') :
                s_rx_queue'[i] = IF i <= Len(s_rx_queue) THEN s_rx_queue[i] ELSE frames[i - Len(s_rx_queue)]
<1> DEFINE all == s_rx_queue \o frames
           n == Len(s_rx_queue)
           m == IF Len(all) < RxDepth THEN Len(all) ELSE RxDepth
<1>1. /\ n \in Nat /\ Len(frames) \in Nat /\ all \in Seq(Replies) /\ Len(all) = n + Len(frames)
      /\ \A i \in 1..Len(all) : all[i] = IF i <= n THEN s_rx_queue[i] ELSE frames[i - n]
      /\ DOMAIN s_rx_queue = 1..n
  BY DEF RxOK
<1>2. s_rx_queue' = SubSeq(all, 1, m) /\ m \in Nat /\ m <= Len(all)
  BY <1>1 DEF Says
<1> HIDE DEF all, m
<1>3. /\ SubSeq(all, 1, m) \in Seq(Replies) /\ Len(SubSeq(all, 1, m)) = m
      /\ \A i \in 1..m : SubSeq(all, 1, m)[i] = all[i]
  BY <1>1, <1>2
<1>4. RxOK' /\ Len(s_rx_queue') = m /\ DOMAIN s_rx_queue' = 1..m
  BY <1>2, <1>3 DEF RxOK
<1>5. \A i \in 1..m : i \in 1..Len(all)
  BY <1>1, <1>2
<1>6. QED
  BY <1>1, <1>2, <1>3, <1>4, <1>5

LEMMA SayOne ==
    ASSUME RxOK, NEW f \in Replies, Says(<<f>>)
    PROVE  /\ RxOK'
           /\ \A F : Queued(F)' => Queued(F) \/ f \in F
           /\ \A A, B : Followed(A, B)' => Followed(A, B) \/ (Queued(A) /\ f \in B)
<1> DEFINE n == Len(s_rx_queue)
           m == Len(s_rx_queue')
<1>1. <<f>> \in Seq(Replies) /\ Len(<<f>>) = 1 /\ <<f>>[1] = f
  OBVIOUS
<1>2. /\ RxOK' /\ DOMAIN s_rx_queue = 1..n /\ DOMAIN s_rx_queue' = 1..m /\ n \in Nat /\ m \in Nat /\ m <= n + 1
      /\ \A i \in 1..m : s_rx_queue'[i] = IF i <= n THEN s_rx_queue[i] ELSE <<f>>[i - n]
  BY <1>1, SayRx
<1> HIDE DEF n, m
<1>3. \A i \in 1..m : (i \in 1..n /\ s_rx_queue'[i] = s_rx_queue[i]) \/ (i = n + 1 /\ s_rx_queue'[i] = f)
  BY <1>1, <1>2
<1>4. \A i, j \in 1..m : i < j => i \in 1..n
  BY <1>2
<1>5. QED
  BY SMTT(30), <1>2, <1>3, <1>4 DEF Queued, Followed

\* The report of a wrong checksum is in the queue, or was thrown away.
LEMMA SayError ==
    ASSUME RxOK, Says(<<"E", "P">>)
    PROVE  /\ RxOK'
           /\ \A F : Queued(F)' => Queued(F) \/ "E" \in F \/ "P" \in F
           /\ \A A, B : Followed(A, B)' =>
                 Followed(A, B) \/ (Queued(A) /\ ("E" \in B \/ "P" \in B)) \/ ("E" \in A /\ "P" \in B)
           /\ Queued({"P"})' /\ ~Queued({"P"}) => Queued({"E"})'
<1> DEFINE n == Len(s_rx_queue)
           m == Len(s_rx_queue')
<1>1. <<"E", "P">> \in Seq(Replies) /\ Len(<<"E", "P">>) = 2 /\ <<"E", "P">>[1] = "E" /\ <<"E", "P">>[2] = "P"
  BY DEF Replies, Questions
<1>2. /\ RxOK' /\ DOMAIN s_rx_queue = 1..n /\ DOMAIN s_rx_queue' = 1..m /\ n \in Nat /\ m \in Nat /\ m <= n + 2
      /\ \A i \in 1..m : s_rx_queue'[i] = IF i <= n THEN s_rx_queue[i] ELSE <<"E", "P">>[i - n]
  BY <1>1, SayRx
<1> HIDE DEF n, m
<1>3. \A i \in 1..m : \/ i \in 1..n /\ s_rx_queue'[i] = s_rx_queue[i]
                      \/ i = n + 1 /\ s_rx_queue'[i] = "E"
                      \/ i = n + 2 /\ s_rx_queue'[i] = "P"
  BY <1>1, <1>2
<1>4. \A F : Queued(F)' => Queued(F) \/ "E" \in F \/ "P" \in F
  BY <1>2, <1>3 DEF Queued
<1>5. ASSUME NEW A, NEW B, NEW i \in 1..m, NEW j \in 1..m, i < j, s_rx_queue'[i] \in A, s_rx_queue'[j] \in B
      PROVE  Followed(A, B) \/ (Queued(A) /\ ("E" \in B \/ "P" \in B)) \/ ("E" \in A /\ "P" \in B)
  <2>1. CASE i \in 1..n /\ s_rx_queue'[i] = s_rx_queue[i]
    BY <1>2, <1>3, <1>5, <2>1 DEF Queued, Followed
  <2>2. CASE i = n + 1 /\ s_rx_queue'[i] = "E"
    <3>1. j = n + 2 /\ s_rx_queue'[j] = "P"
      BY <1>2, <1>3, <1>5, <2>2
    <3>2. QED
      BY <1>5, <2>2, <3>1
  <2>3. CASE i = n + 2
    BY <1>2, <1>5, <2>3
  <2>4. QED
    BY <1>3, <2>1, <2>2, <2>3
<1>6. ASSUME Queued({"P"})', ~Queued({"P"}) PROVE Queued({"E"})'
  <2>1. PICK i \in 1..m : s_rx_queue'[i] = "P"
    BY <1>2, <1>6 DEF Queued
  <2>2. i = n + 2
    BY <1>2, <1>3, <1>6, <2>1 DEF Queued
  <2>3. n + 1 \in 1..m /\ s_rx_queue'[n + 1] = "E"
    BY <1>1, <1>2, <2>2
  <2>4. QED
    BY <1>2, <2>3 DEF Queued
<1>7. QED
  BY <1>2, <1>4, <1>5, <1>6 DEF Followed

-----------------------------------------------------------------------------
(* The bus.                                                                *)

BusOK == bus \in Seq(BusFrames)

\* The bus has what it had and, after it, frames of these types only.
Grows(types) ==
    /\ BusOK'
    /\ \A i \in DOMAIN bus : i \in DOMAIN bus' /\ bus'[i] = bus[i]
    /\ \A i \in DOMAIN bus' :
         i \in DOMAIN bus \/ (bus'[i].type \in types /\ \A j \in DOMAIN bus : j < i)

LEMMA BusDomain ==
    ASSUME BusOK
    PROVE  Len(bus) \in Nat /\ DOMAIN bus = 1..Len(bus) /\ \A i \in DOMAIN bus : bus[i] \in BusFrames
BY DEF BusOK

\* A frame that does not fit is given up.
LEMMA SendBus ==
    ASSUME BusOK, NEW f \in BusFrames, Sent(<<f>>)
    PROVE  /\ Grows({f.type})
           /\ \/ bus' = bus
              \/ /\ Len(bus) + 1 \in DOMAIN bus' /\ bus'[Len(bus) + 1] = f
                 /\ \A i \in DOMAIN bus' : i \in DOMAIN bus \/ i = Len(bus) + 1
<1> DEFINE n == Len(bus)
           all == bus \o <<f>>
<1>1. /\ n \in Nat /\ all \in Seq(BusFrames) /\ Len(all) = n + 1 /\ DOMAIN bus = 1..n /\ DOMAIN all = 1..(n + 1)
      /\ \A i \in 1..n : all[i] = bus[i]
      /\ all[n + 1] = f
  BY DEF BusOK
<1>2. Len(<<f>>) = 1 /\ bus' = SubSeq(all, 1, IF HasSpace THEN n + Len(<<f>>) ELSE n)
  BY DEF Sent
<1> HIDE DEF n, all
<1>3. CASE HasSpace
  <2>1. bus' = SubSeq(all, 1, n + 1)
    BY <1>2, <1>3
  <2>2. SubSeq(all, 1, n + 1) = all
    BY <1>1
  <2>3. /\ n + 1 \in 1..(n + 1) /\ \A i \in 1..n : i \in 1..(n + 1) /\ i < n + 1
        /\ \A i \in 1..(n + 1) : i \in 1..n \/ i = n + 1
    BY <1>1
  <2>4. BusOK' /\ DOMAIN bus' = 1..(n + 1) /\ bus'[n + 1] = f /\ \A i \in 1..n : bus'[i] = bus[i]
    BY <1>1, <2>1, <2>2 DEF BusOK
  <2>5. Grows({f.type})
    BY <1>1, <2>3, <2>4 DEF Grows
  <2>6. QED
    BY <1>1, <2>3, <2>4, <2>5 DEF n
<1>4. CASE ~HasSpace
  <2>1. bus' = SubSeq(all, 1, n)
    BY <1>2, <1>4
  <2>2. /\ SubSeq(all, 1, n) \in Seq(BusFrames) /\ Len(SubSeq(all, 1, n)) = n
        /\ \A i \in 1..n : SubSeq(all, 1, n)[i] = all[i]
    BY <1>1
  <2>3. bus' = bus
    BY <1>1, <2>1, <2>2 DEF BusOK
  <2>4. QED
    BY <2>3 DEF Grows, BusOK
<1>5. QED
  BY <1>3, <1>4

\* Frames that are not of a transfer change nothing in what is said of the bus.
LEMMA GrowBus ==
    ASSUME BusOK, NEW T, Grows(T), boot' = boot
    PROVE  /\ \A U : OnBus(U) => OnBus(U)'
           /\ \A U : U \cap T = {} => (OnBus(U)' <=> OnBus(U))
           /\ Sizes \subseteq Sizes' /\ \A k \in Sizes' : k \in Sizes \/ k \notin DOMAIN bus
           /\ "size" \notin T => Sizes' = Sizes
<1>1. Len(bus) \in Nat /\ DOMAIN bus = 1..Len(bus) /\ Len(bus') \in Nat /\ DOMAIN bus' = 1..Len(bus')
  BY BusDomain DEF Grows, BusOK
<1>2. \A U : OnBus(U) => OnBus(U)'
  BY DEF OnBus, Grows
<1>3. ASSUME NEW U, U \cap T = {}, OnBus(U)' PROVE OnBus(U)
  <2>1. PICK i \in DOMAIN bus' : bus'[i].type \in U
    BY <1>3 DEF OnBus
  <2>2. i \in DOMAIN bus /\ bus'[i] = bus[i]
    BY <1>3, <2>1 DEF Grows
  <2>3. QED
    BY <2>1, <2>2 DEF OnBus
<1>4. \A k \in DOMAIN bus : \A i \in 1..(k - 1) : i \in DOMAIN bus /\ i \in DOMAIN bus' /\ bus'[i] = bus[i]
  BY <1>1 DEF Grows
<1>5. \A k \in DOMAIN bus : k \in Sizes' <=> k \in Sizes
  BY <1>1, <1>4 DEF Sizes, Grows
<1>6. "size" \notin T => \A k \in Sizes' : k \in DOMAIN bus
  BY DEF Sizes, Grows
<1>7. Sizes \subseteq DOMAIN bus
  BY DEF Sizes
<1>8. QED
  BY <1>2, <1>3, <1>5, <1>6, <1>7

LEMMA TakeBus ==
    ASSUME BusOK, bus # <<>>, bus' = Tail(bus)
    PROVE  /\ BusOK' /\ Head(bus) \in BusFrames /\ 1 \in DOMAIN bus /\ bus[1] = Head(bus)
           /\ DOMAIN bus \subseteq Nat \ {0} /\ DOMAIN bus' \subseteq Nat \ {0}
           /\ \A k \in DOMAIN bus' : k + 1 \in DOMAIN bus /\ bus'[k] = bus[k + 1]
           /\ \A k \in DOMAIN bus : k = 1 \/ (k - 1 \in DOMAIN bus' /\ bus'[k - 1] = bus[k])
           /\ \A U : OnBus(U) <=> Head(bus).type \in U \/ OnBus(U)'
<1> DEFINE n == Len(bus)
<1>1. /\ n \in Nat \ {0} /\ DOMAIN bus = 1..n /\ BusOK' /\ Head(bus) \in BusFrames
      /\ DOMAIN bus' = 1..(n - 1) /\ Head(bus) = bus[1]
      /\ \A i \in 1..(n - 1) : bus'[i] = bus[i + 1]
  BY DEF BusOK
<1> HIDE DEF n
<1>2. \A k \in DOMAIN bus' : k + 1 \in DOMAIN bus /\ bus'[k] = bus[k + 1]
  BY <1>1
<1>3. ASSUME NEW k \in DOMAIN bus, k # 1 PROVE k - 1 \in DOMAIN bus' /\ bus'[k - 1] = bus[k]
  <2>1. k - 1 \in 1..(n - 1) /\ (k - 1) + 1 = k
    BY <1>1, <1>3
  <2>2. QED
    BY <1>1, <2>1
<1>4. 1 \in DOMAIN bus /\ DOMAIN bus \subseteq Nat \ {0} /\ DOMAIN bus' \subseteq Nat \ {0}
  BY <1>1
<1>5. ASSUME NEW U PROVE OnBus(U) <=> Head(bus).type \in U \/ OnBus(U)'
  BY <1>1, <1>2, <1>3, <1>4 DEF OnBus
<1>6. QED
  BY <1>1, <1>2, <1>3, <1>4, <1>5

LEMMA SendAsks ==
    ASSUME BusOK, NEW r \in Seq({Ask}), Sent(r)
    PROVE  Grows({"read"})
<1> DEFINE n == Len(bus)
           m == Len(r)
           all == bus \o r
<1>1. Ask \in BusFrames /\ Ask.type = "read"
  BY DEF Ask, Frame, BusFrames
<1>2. /\ n \in Nat /\ m \in Nat /\ r \in Seq(BusFrames) /\ DOMAIN bus = 1..n
      /\ \A i \in 1..m : r[i] = Ask
  BY <1>1 DEF BusOK
<1>3. /\ all \in Seq(BusFrames) /\ Len(all) = n + m /\ DOMAIN all = 1..(n + m)
      /\ \A i \in 1..(n + m) : all[i] = IF i <= n THEN bus[i] ELSE r[i - n]
  BY <1>2 DEF BusOK
<1>4. bus' = SubSeq(all, 1, IF HasSpace THEN n + m ELSE n)
  BY DEF Sent
<1> HIDE DEF n, m, all
<1>5. PICK k \in {n, n + m} : bus' = SubSeq(all, 1, k)
  BY <1>4
<1>6. k \in Nat /\ n <= k /\ k <= n + m
  BY <1>2, <1>5
<1>7. BusOK' /\ DOMAIN bus' = 1..k /\ \A i \in 1..k : bus'[i] = all[i]
  BY <1>3, <1>5, <1>6 DEF BusOK
<1>8. ASSUME NEW i \in 1..n PROVE i \in 1..k /\ bus'[i] = bus[i]
  BY <1>2, <1>3, <1>6, <1>7
<1>9. ASSUME NEW i \in 1..k, i \notin 1..n PROVE bus'[i].type = "read" /\ \A j \in 1..n : j < i
  <2>1. i - n \in 1..m /\ i \in 1..(n + m) /\ ~(i <= n) /\ \A j \in 1..n : j < i
    BY <1>2, <1>6, <1>9
  <2>2. bus'[i] = Ask
    BY <1>2, <1>3, <1>7, <2>1
  <2>3. QED
    BY <1>1, <2>1, <2>2
<1>10. QED
  BY <1>2, <1>7, <1>8, <1>9 DEF Grows

-----------------------------------------------------------------------------
(* Steps that begin nothing, and take nothing the update waits for.        *)

UpdIdle == {"UPD_IDLE", "REQUEST_JSON"}

\* Nothing of the bootloader is new in the queue, and no report of a wrong checksum
\* is gone without being acted on.
Dropped ==
    /\ \A F : "sdo" \notin F => (Queued(F)' => Queued(F))
    /\ \A A, B : "sdo" \notin B => (Followed(A, B)' => Followed(A, B))
    /\ Queued({"E"}) => Queued({"E"})'

\* Nothing of a transfer is new on the bus.
BusKeeps ==
    /\ (Transfer' <=> Transfer) /\ (Committed' => Committed)
    /\ \A U \in {{"id"}, {"data"}, {"crc"}, {"data", "crc"}, {"id", "size"}} : OnBus(U)' => OnBus(U)
    /\ (boot.at = "app" => EarlyBus') /\ SizeInv'
    /\ (Transfer => OneFrame' /\ RightCrc')

QuietFrame ==
    /\ boot' = boot /\ flash' = flash /\ installed' = installed /\ ui'.file = ui.file
    /\ s_update_file' = s_update_file /\ s_current_page' = s_current_page /\ s_current_byte' = s_current_byte
    /\ (Pending' <=> Pending) /\ (Pending => http'.file = http.file)
    /\ s_upd_state' = s_upd_state \/ (s_upd_state \in UpdIdle /\ s_upd_state' \in UpdIdle)
    /\ s_update_crc' = s_update_crc \/ s_upd_state = "CHECK_CRC"

LEMMA GrowKeeps ==
    ASSUME BusOK, SoundInv, QuietFrame, Grows({"read", "reset"})
    PROVE  BusKeeps
<1>1. EarlyInv /\ SizeInv /\ TransferInv
  BY DEF SoundInv
<1>2. /\ Sizes' = Sizes /\ \A U : U \cap {"read", "reset"} = {} => (OnBus(U)' <=> OnBus(U))
  BY GrowBus DEF QuietFrame
<1>3. \A U \in {{"id"}, {"data"}, {"crc"}, {"data", "crc"}, {"id", "size"}} : OnBus(U)' => OnBus(U)
  <2>1. \A U \in {{"id"}, {"data"}, {"crc"}, {"data", "crc"}, {"id", "size"}} : U \cap {"read", "reset"} = {}
    OBVIOUS
  <2>2. QED
    BY <1>2, <2>1
<1>4. (Transfer' <=> Transfer) /\ (Committed' <=> Committed)
  BY <1>2 DEF QuietFrame, Transfer, Committed
<1>5. \A i \in DOMAIN bus' : \/ i \in DOMAIN bus /\ bus'[i] = bus[i]
                             \/ bus'[i].type \in {"read", "reset"} /\ \A j \in DOMAIN bus : j < i
  BY DEF Grows
<1>6. ASSUME boot.at = "app", NEW i \in DOMAIN bus', NEW j \in DOMAIN bus', i < j, bus'[i].type = "reset"
      PROVE  bus'[j].type # "id"
  <2>1. CASE i \in DOMAIN bus /\ j \in DOMAIN bus
    <3>1. bus'[i] = bus[i] /\ bus'[j] = bus[j]
      BY <2>1 DEF Grows
    <3>2. QED
      BY <1>1, <1>6, <2>1, <3>1 DEF EarlyInv, EarlyBus
  <2>2. CASE j \notin DOMAIN bus
    BY <1>5, <2>2
  <2>3. CASE j \in DOMAIN bus /\ i \notin DOMAIN bus
    <3>1. j < i /\ i \in Nat /\ j \in Nat
      BY <1>5, <2>3, BusDomain DEF Grows, BusOK
    <3>2. QED
      BY <1>6, <3>1
  <2>4. QED
    BY <2>1, <2>2, <2>3
<1>7. SizeInv'
  <2>1. ASSUME NEW k \in Sizes' PROVE k \in Sizes /\ k \in DOMAIN bus /\ bus'[k] = bus[k]
    BY <1>2 DEF Sizes, Grows
  <2>2. QED
    BY <1>1, <1>5, <2>1 DEF SizeInv, QuietFrame
<1>8. ASSUME Transfer PROVE OneFrame' /\ RightCrc'
  <2>1. \A i \in DOMAIN bus' : bus'[i].type \in {"data", "crc"} => i \in DOMAIN bus /\ bus'[i] = bus[i]
    BY <1>5
  <2>2. QED
    BY <1>1, <1>8, <2>1 DEF TransferInv, TransferOK, OneFrame, RightCrc, QuietFrame
<1>9. QED
  BY <1>3, <1>4, <1>6, <1>7, <1>8 DEF BusKeeps, EarlyBus

LEMMA QuietStep ==
    ASSUME SoundInv, Dropped, QuietFrame, BusKeeps
    PROVE  SoundInv'
<1>1. IdentInv /\ EarlyInv /\ SizeInv /\ TransferInv /\ AskedInv /\ SendInv /\ CheckInv /\ KeptInv
  BY DEF SoundInv
<1>2. /\ OnBus({"id"})' => OnBus({"id"})
      /\ OnBus({"crc"})' => OnBus({"crc"})
      /\ OnBus({"data"})' => OnBus({"data"})
      /\ OnBus({"data", "crc"})' => OnBus({"data", "crc"})
      /\ OnBus({"id", "size"})' => OnBus({"id", "size"})
  BY DEF BusKeeps
<1>3. (Transfer' <=> Transfer) /\ (Committed' => Committed)
  BY DEF BusKeeps
<1>4. \A st \in {"SEND_MAGIC", "SEND_SIZE", "SEND_PAGE", "CHECK_CRC"} :
        s_upd_state' = st <=> s_upd_state = st
  BY DEF QuietFrame, UpdIdle
<1>5. Hears' <=> Hears
  BY <1>4 DEF Hears, QuietFrame
<1>6. /\ \A F \in {{"magic"}, {"S"}, {"P"}, {"C"}, {"D"}, {"E"}, {"E", "D"}, {"P", "E"}, Questions} :
           Queued(F)' => Queued(F)
      /\ Queued({"E"}) => Queued({"E"})'
      /\ \A A : \A B \in {{"magic"}, Questions, Questions \ {"P"}} : Followed(A, B)' => Followed(A, B)
  BY DEF Dropped, Questions
<1>7. IdentInv'
  BY <1>1, <1>3, <1>4, <1>5, <1>6 DEF IdentInv, QuietFrame
<1>8. EarlyInv'
  BY <1>1, <1>2, <1>4, <1>6 DEF EarlyInv, QuietFrame, BusKeeps
<1>9. TransferInv'
  <2>1. \A k : Written(s_update_file, k)' <=> Written(s_update_file, k)
    BY DEF Written, QuietFrame
  <2>2. QED
    BY <1>1, <1>2, <1>3, <2>1 DEF TransferInv, TransferOK, QuietFrame, BusKeeps
<1>10. AskedInv'
  BY <1>1, <1>4, <1>6 DEF AskedInv
<1>11. SendInv'
  BY <1>1, <1>2, <1>3, <1>4, <1>6 DEF SendInv, PageSent, QuietFrame
<1>12. CheckInv'
  BY <1>1, <1>2, <1>3, <1>4, <1>6 DEF CheckInv, QuietFrame
<1>13. KeptInv'
  BY <1>1, <1>4, <1>6 DEF KeptInv, Written, QuietFrame
<1>14. QED
  BY <1>7, <1>8, <1>9, <1>10, <1>11, <1>12, <1>13 DEF SoundInv, QuietFrame, BusKeeps

\* The frames behind the first one are the same to the bootloader when it has taken
\* that, if its place does not change or it has had its identification.
LEMMA ShiftSizes ==
    ASSUME BusOK, bus # <<>>, bus' = Tail(bus), s_update_file' = s_update_file, SizeInv,
           boot'.at = boot.at \/ (boot'.at = "size" /\ boot.at = "magic" /\ Head(bus).type = "id")
    PROVE  SizeInv' /\ (Sizes' # {} => Sizes # {})
<1>1. /\ 1 \in DOMAIN bus /\ bus[1] = Head(bus)
      /\ DOMAIN bus \subseteq Nat \ {0} /\ DOMAIN bus' \subseteq Nat \ {0}
      /\ \A k \in DOMAIN bus' : k + 1 \in DOMAIN bus /\ bus'[k] = bus[k + 1]
  BY TakeBus
<1>2. Len(bus) \in Nat /\ DOMAIN bus = 1..Len(bus) /\ BusOK' /\ Len(bus') \in Nat /\ DOMAIN bus' = 1..Len(bus')
  BY TakeBus, BusDomain DEF BusOK
<1>3. ASSUME NEW k \in Sizes' PROVE k + 1 \in Sizes /\ k \in DOMAIN bus' /\ bus'[k] = bus[k + 1]
  <2>1. k \in DOMAIN bus' /\ bus'[k].type = "size" /\ k \in Nat \ {0}
        /\ (boot'.at = "size" \/ (boot'.at = "magic" /\ \E i \in 1..(k - 1) : bus'[i].type = "id"))
    BY <1>1 DEF Sizes
  <2>2. k + 1 \in DOMAIN bus /\ bus[k + 1].type = "size"
    BY <1>1, <2>1
  <2>3. CASE boot'.at = "size" /\ boot.at = "size"
    BY <1>1, <2>1, <2>2, <2>3 DEF Sizes
  <2>4. CASE boot'.at = "size" /\ boot.at = "magic" /\ Head(bus).type = "id"
    <3>1. 1 \in 1..((k + 1) - 1)
      BY <2>1
    <3>2. QED
      BY <1>1, <2>1, <2>2, <2>4, <3>1 DEF Sizes
  <2>5. CASE boot'.at = "magic" /\ boot.at = "magic"
    <3>1. PICK i \in 1..(k - 1) : bus'[i].type = "id"
      BY <2>1, <2>5
    <3>2. i \in DOMAIN bus' /\ i + 1 \in 1..((k + 1) - 1)
      BY <1>2, <2>1
    <3>3. bus[i + 1].type = "id"
      BY <1>1, <3>1, <3>2
    <3>4. QED
      BY <1>1, <2>1, <2>2, <2>5, <3>2, <3>3 DEF Sizes
  <2>6. QED
    BY <2>1, <2>3, <2>4, <2>5
<1>4. ASSUME NEW k \in Sizes'
      PROVE  /\ s_update_file \in Files /\ bus'[k].v = PagesOf(s_update_file)
             /\ \A j \in DOMAIN bus' : j > k => bus'[j].type \in {"read", "reset"}
  <2>1. /\ s_update_file \in Files /\ bus[k + 1].v = PagesOf(s_update_file)
        /\ \A j \in DOMAIN bus : j > k + 1 => bus[j].type \in {"read", "reset"}
    BY <1>3 DEF SizeInv
  <2>2. ASSUME NEW j \in DOMAIN bus', j > k PROVE bus'[j].type \in {"read", "reset"}
    <3>1. j + 1 > k + 1
      BY <1>1, <1>3, <2>2
    <3>2. QED
      BY <1>1, <2>1, <3>1
  <2>3. QED
    BY <1>3, <2>1, <2>2
<1>5. SizeInv'
  BY <1>4 DEF SizeInv
<1>6. QED
  BY <1>3, <1>5

\* So does what is said of the frames of a transfer.
LEMMA ShiftFrames ==
    ASSUME BusOK, bus # <<>>, bus' = Tail(bus)
    PROVE  /\ \A U : OnBus(U)' => OnBus(U)
           /\ EarlyBus => EarlyBus' /\ (Head(bus).type = "reset" => ~OnBus({"id"})')
           /\ OneFrame => OneFrame' /\ (Head(bus).type \in {"data", "crc"} => ~OnBus({"data", "crc"})')
           /\ s_update_file' = s_update_file /\ boot'.page = boot.page /\ RightCrc => RightCrc'
<1>1. /\ 1 \in DOMAIN bus /\ bus[1] = Head(bus)
      /\ DOMAIN bus \subseteq Nat \ {0} /\ DOMAIN bus' \subseteq Nat \ {0}
      /\ \A k \in DOMAIN bus' : k + 1 \in DOMAIN bus /\ bus'[k] = bus[k + 1]
      /\ \A U : OnBus(U) <=> Head(bus).type \in U \/ OnBus(U)'
  BY TakeBus
<1>2. \A i, j \in DOMAIN bus' : /\ i < j => i + 1 < j + 1
                               /\ 1 < i + 1 /\ 1 # i + 1 /\ (i + 1 = j + 1 => i = j)
  BY <1>1
<1>3. EarlyBus => EarlyBus' /\ (Head(bus).type = "reset" => ~OnBus({"id"})')
  <2> SUFFICES ASSUME EarlyBus PROVE EarlyBus' /\ (Head(bus).type = "reset" => ~OnBus({"id"})')
    OBVIOUS
  <2>1. EarlyBus'
    BY <1>1, <1>2 DEF EarlyBus
  <2>2. Head(bus).type = "reset" => ~OnBus({"id"})'
    BY <1>1, <1>2 DEF EarlyBus, OnBus
  <2>3. QED
    BY <2>1, <2>2
<1>4. OneFrame => OneFrame' /\ (Head(bus).type \in {"data", "crc"} => ~OnBus({"data", "crc"})')
  <2> SUFFICES ASSUME OneFrame
               PROVE  OneFrame' /\ (Head(bus).type \in {"data", "crc"} => ~OnBus({"data", "crc"})')
    OBVIOUS
  <2>1. OneFrame'
    <3> SUFFICES ASSUME NEW i \in DOMAIN bus', NEW j \in DOMAIN bus',
                        bus'[i].type \in {"data", "crc"}, bus'[j].type \in {"data", "crc"}
                 PROVE  i = j
      BY DEF OneFrame
    <3>1. i + 1 = j + 1
      BY <1>1 DEF OneFrame
    <3>2. QED
      BY <1>2, <3>1
  <2>2. Head(bus).type \in {"data", "crc"} => ~OnBus({"data", "crc"})'
    BY <1>1, <1>2 DEF OneFrame, OnBus
  <2>3. QED
    BY <2>1, <2>2
<1>5. s_update_file' = s_update_file /\ boot'.page = boot.page /\ RightCrc => RightCrc'
  BY <1>1 DEF RightCrc
<1>6. QED
  BY <1>1, <1>3, <1>4, <1>5

LEMMA IgnoredKeeps ==
    ASSUME BusOK, SoundInv, QuietFrame, bus # <<>>, bus' = Tail(bus)
    PROVE  BusKeeps
<1>1. EarlyInv /\ SizeInv /\ TransferInv
  BY DEF SoundInv
<1>2. SizeInv' /\ (Sizes' # {} => Sizes # {})
  BY <1>1, ShiftSizes DEF QuietFrame
<1>3. (Transfer' <=> Transfer) /\ (Committed' => Committed)
  BY <1>2 DEF QuietFrame, Transfer, Committed
<1>4. QED
  BY <1>1, <1>2, <1>3, ShiftFrames
  DEF BusKeeps, QuietFrame, EarlyInv, TransferInv, TransferOK

-----------------------------------------------------------------------------
(* A report of a wrong checksum that is thrown away is remembered.         *)

LEMMA UnreadError ==
    ASSUME NEW frames \in Seq(Replies), NEW i \in DOMAIN frames, frames[i] = "E"
    PROVE  "error" \in Unread(frames)
<1>1. i \in {j \in DOMAIN frames : frames[j] # "sdo"}
  OBVIOUS
<1>2. QED
  BY <1>1 DEF Unread

LEMMA SaysKeeps ==
    ASSUME RxOK, NEW frames \in Seq(Replies), Says(frames), Sound', Queued({"E"})
    PROVE  Queued({"E"})'
<1> DEFINE all == s_rx_queue \o frames
           n == Len(s_rx_queue)
           rest == SubSeq(all, RxDepth + 1, Len(all))
<1>1. PICK i \in 1..n : s_rx_queue[i] = "E"
  BY DEF Queued, RxOK
<1>2. /\ n \in Nat /\ all \in Seq(Replies) /\ Len(all) \in Nat /\ n <= Len(all) /\ all[i] = "E" /\ i \in 1..Len(all)
  BY <1>1 DEF RxOK
<1>3. s_rx_queue' = SubSeq(all, 1, IF Len(all) < RxDepth THEN Len(all) ELSE RxDepth)
      /\ amiss' = amiss \cup Unread(rest)
  BY DEF Says
<1> HIDE DEF all, n, rest
<1>4. CASE i <= RxDepth
  <2> DEFINE m == IF Len(all) < RxDepth THEN Len(all) ELSE RxDepth
  <2>1. m \in Nat /\ m <= Len(all) /\ i \in 1..m
    BY <1>2, <1>4
  <2> HIDE DEF m
  <2>2. i \in DOMAIN SubSeq(all, 1, m) /\ SubSeq(all, 1, m)[i] = all[i]
    BY <1>2, <2>1
  <2>3. s_rx_queue' = SubSeq(all, 1, m)
    BY <1>3 DEF m
  <2>4. QED
    BY <1>2, <2>2, <2>3 DEF Queued
<1>5. CASE i > RxDepth
  <2> DEFINE k == RxDepth + 1
             x == i - RxDepth
  <2>1. k \in Nat \ {0} /\ k <= Len(all) /\ x \in 1..(Len(all) - k + 1) /\ k + x - 1 = i
    <3>1. RxDepth \in Nat /\ i \in Int /\ Len(all) \in Int /\ RxDepth < i /\ i <= Len(all)
      BY <1>2, <1>5
    <3>2. QED
      BY <3>1
  <2>2. rest = SubSeq(all, k, Len(all))
    BY DEF rest
  <2> HIDE DEF k, x
  <2>3. /\ rest \in Seq(Replies) /\ Len(rest) = Len(all) - k + 1
        /\ \A y \in 1..(Len(all) - k + 1) : rest[y] = all[k + y - 1]
    <3>1. SubSeq(all, k, Len(all)) \in Seq(Replies)
      BY <1>2, <2>1, SubSeqProperties
    <3>2. Len(SubSeq(all, k, Len(all))) = Len(all) - k + 1
      BY <1>2, <2>1, SubSeqProperties
    <3>3. \A y \in 1..(Len(all) - k + 1) : SubSeq(all, k, Len(all))[y] = all[k + y - 1]
      BY <1>2, <2>1, SubSeqProperties
    <3>4. QED
      BY <2>2, <3>1, <3>2, <3>3
  <2>4. x \in DOMAIN rest /\ rest[x] = "E"
    BY SMTT(30), <1>2, <2>1, <2>3
  <2>5. "error" \in Unread(rest)
    BY <2>3, <2>4, UnreadError
  <2>6. QED
    BY <1>3, <2>5 DEF Sound
<1>6. QED
  BY <1>2, <1>4, <1>5

-----------------------------------------------------------------------------
(* Types.                                                                  *)

LEMMA FrameTypes ==
    /\ Frame("id", 0) \in BusFrames /\ Frame("reset", 0) \in BusFrames /\ Ask \in BusFrames
    /\ \A n \in Nat : Frame("size", n) \in BusFrames
    /\ \A c \in Chunks : Frame("data", c) \in BusFrames
    /\ \A s \in Seq(Chunks) : Frame("crc", s) \in BusFrames
BY DEF Frame, BusFrames, Ask

LEMMA ReadType ==
    ASSUME NEW f \in Files \cup {NoFile}, NEW b \in Nat
    PROVE  ReadChunk(f, b) \in Chunks
BY DEF ReadChunk, Chunks

LEMMA Rounding ==
    ASSUME NEW a \in Nat \ {0}, NEW b \in Nat \ {0}
    PROVE  (a + b - 1) \div b \in Nat \ {0}
OBVIOUS

LEMMA PagesType ==
    ASSUME NEW f \in Files \cup {NoFile}
    PROVE  PagesOf(f) \in Nat /\ (f \in Files => PagesOf(f) # 0)
<1>1. CASE f \in Files
  <2>1. PagesOf(f) = (Size[f] + PageChunks - 1) \div PageChunks
    BY <1>1 DEF PagesOf
  <2>2. QED
    BY <1>1, <2>1, Rounding
<1>2. CASE f = NoFile
  BY <1>2 DEF PagesOf
<1>3. QED
  BY <1>1, <1>2

LEMMA ChunkType ==
    ASSUME UpdateTypeOK, NEW crc \in Seq(Chunks), SendChunk(crc)
    PROVE  /\ BusOK' /\ s_update_crc' \in Seq(Chunks) /\ s_current_byte' \in Nat
           /\ s_upd_state' = "SEND_PAGE"
<1>1. ReadChunk(s_update_file, s_current_byte) \in Chunks
  BY ReadType DEF UpdateTypeOK
<1>2. Frame("data", ReadChunk(s_update_file, s_current_byte)) \in BusFrames
  BY <1>1, FrameTypes
<1>3. BusOK'
  BY <1>2, SendBus DEF SendChunk, UpdateTypeOK, BusOK, Grows
<1>4. QED
  BY <1>1, <1>3 DEF SendChunk, CrcWord, UpdateTypeOK

LEMMA TypeUpdate == UpdateTypeOK /\ LoopUpdate => UpdateTypeOK'
<1> SUFFICES ASSUME UpdateTypeOK, LoopUpdate PROVE UpdateTypeOK'
  OBVIOUS
<1> DEFINE frame == Head(s_rx_queue)
<1>1. RxOK /\ BusOK
  BY DEF UpdateTypeOK, RxOK, BusOK
<1>2. RxOK' /\ frame \in Replies
  BY <1>1, TakeRx DEF LoopUpdate
<1>3. UNCHANGED <<http, ui, boot>>
  BY DEF LoopUpdate, LoopFrame, browser, inverter
<1> HIDE DEF frame
<1>4. /\ BusOK' /\ s_upd_state' \in {"UPD_IDLE", "SEND_MAGIC", "SEND_SIZE", "SEND_PAGE", "CHECK_CRC", "REQUEST_JSON"}
      /\ s_update_file' \in Files \cup {NoFile} /\ s_current_page' \in Nat /\ s_current_byte' \in Nat
      /\ s_update_crc' \in Seq(Chunks)
  <2>1. CASE Identify(frame)
    <3>1. BusOK'
      BY <1>1, <2>1, FrameTypes, SendBus DEF Identify, Grows
    <3>2. QED
      BY <2>1, <3>1 DEF Identify, UpdateTypeOK
  <2>2. CASE TellSize(frame)
    <3>1. PagesOf(s_update_file) % 256 \in Nat
      BY SMTT(30), PagesType DEF UpdateTypeOK
    <3>2. BusOK'
      BY <1>1, <2>2, <3>1, FrameTypes, SendBus DEF TellSize, Grows
    <3>3. QED
      BY <2>2, <3>2 DEF TellSize, UpdateTypeOK
  <2>3. CASE SizeOfNothing(frame)
    BY <2>3 DEF SizeOfNothing, UpdateTypeOK, BusOK, client
  <2>4. CASE NextChunk(frame)
    BY <2>4, ChunkType DEF NextChunk, UpdateTypeOK
  <2>5. CASE TellCrc(frame)
    <3>1. BusOK'
      BY <1>1, <2>5, FrameTypes, SendBus DEF TellCrc, Grows, UpdateTypeOK
    <3>2. QED
      BY <2>5, <3>1 DEF TellCrc, UpdateTypeOK
  <2>6. CASE NextPage(frame)
    <3>1. <<>> \in Seq(Chunks) /\ SendChunk(<<>>)
      BY <2>6 DEF NextPage
    <3>2. /\ BusOK' /\ s_update_crc' \in Seq(Chunks) /\ s_current_byte' \in Nat
          /\ s_upd_state' = "SEND_PAGE"
      BY <3>1, ChunkType
    <3>3. QED
      BY <2>6, <3>2 DEF NextPage, UpdateTypeOK
  <2>7. CASE PageAgain(frame)
    <3>1. s_current_page * PageChunks \in Nat
      BY DEF UpdateTypeOK
    <3>2. QED
      BY <2>7, <3>1 DEF PageAgain, UpdateTypeOK, BusOK
  <2>8. CASE UpdateComplete(frame)
    BY <2>8 DEF UpdateComplete, UpdateTypeOK, BusOK
  <2>9. CASE Unexpected(frame)
    BY <2>9 DEF Unexpected, UpdateTypeOK, BusOK
  <2>10. QED
    BY <2>1, <2>2, <2>3, <2>4, <2>5, <2>6, <2>7, <2>8, <2>9 DEF LoopUpdate, HandleUpdate, frame
<1>5. QED
  BY <1>2, <1>3, <1>4 DEF UpdateTypeOK, RxOK, BusOK

\* The requests for the serial number that the loop may send.
LEMMA LoopAsks ==
    ASSUME BusOK, LoopEnd
    PROVE  Grows({"read"})
<1>1. <<>> \in Seq({Ask}) /\ <<Ask>> \in Seq({Ask})
  OBVIOUS
<1>2. \A a, b \in Seq({Ask}) : a \o b \in Seq({Ask})
  OBVIOUS
<1>3. \E r \in Seq({Ask}) : Sent(r)
  BY <1>1, <1>2 DEF LoopEnd
<1>4. QED
  BY <1>3, SendAsks

LEMMA TypeLoop == UpdateTypeOK /\ (LoopSdo \/ LoopEmpty \/ LoopEnd) => UpdateTypeOK'
<1> SUFFICES ASSUME UpdateTypeOK, LoopSdo \/ LoopEmpty \/ LoopEnd PROVE UpdateTypeOK'
  OBVIOUS
<1>1. RxOK /\ BusOK
  BY DEF UpdateTypeOK, RxOK, BusOK
<1>2. CASE LoopSdo
  <2>1. RxOK'
    BY <1>1, <1>2, TakeRx DEF LoopSdo
  <2>2. QED
    BY <1>2, <2>1 DEF LoopSdo, LoopFrame, UpdateTypeOK, RxOK, client, browser, inverter
<1>3. CASE LoopEmpty
  BY <1>3 DEF LoopEmpty, LoopFrame, UpdateTypeOK, client, browser, inverter
<1>4. CASE LoopEnd
  <2>1. BusOK'
    BY <1>1, <1>4, LoopAsks DEF Grows
  <2>2. s_rx_queue' \in Seq(Replies)
    BY <1>4 DEF LoopEnd, UpdateTypeOK
  <2>3. s_upd_state' \in {"UPD_IDLE", s_upd_state}
    BY <1>4 DEF LoopEnd
  <2>4. UNCHANGED <<s_update_file, s_current_page, s_current_byte, s_update_crc, http, ui, boot>>
    BY <1>4 DEF LoopEnd, LoopFrame, browser, inverter
  <2>5. QED
    BY <2>1, <2>2, <2>3, <2>4 DEF UpdateTypeOK, BusOK
<1>5. QED
  BY <1>2, <1>3, <1>4

LEMMA TypeHttp == UpdateTypeOK /\ Http => UpdateTypeOK'
<1> SUFFICES ASSUME UpdateTypeOK, Http PROVE UpdateTypeOK'
  OBVIOUS
<1>1. RxOK /\ BusOK
  BY DEF UpdateTypeOK, RxOK, BusOK
<1>2. CASE StartOpen
  BY <1>2 DEF StartOpen, UpdateTypeOK, inverter
<1>3. CASE StartReset
  <2>1. BusOK'
    BY <1>1, <1>3, FrameTypes, SendBus DEF StartReset, Grows
  <2>2. QED
    BY <1>3, <2>1 DEF StartReset, UpdateTypeOK, BusOK, client, inverter
<1>4. CASE StartMagic
  <2>1. PagesOf(s_update_file) \in Nat
    BY PagesType DEF UpdateTypeOK
  <2>2. QED
    BY <1>4, <2>1 DEF StartMagic, UpdateTypeOK, NoHttp, inverter
<1>5. CASE StepAsk
  BY <1>5 DEF StepAsk, UpdateTypeOK, client, inverter
<1>6. CASE StepReturn
  <2>1. ui' = [file |-> ui.file, pages |-> ui.pages, step |-> ui.step + 1]
    BY <1>6 DEF StepReturn, UpdateTypeOK
  <2>2. ui' \in [file : Files \cup {NoFile}, pages : Nat, step : Nat]
    BY <2>1 DEF UpdateTypeOK
  <2>3. QED
    BY <1>6, <2>2 DEF StepReturn, UpdateTypeOK, NoHttp, client, inverter
<1>7. CASE OtherAsk
  <2>1. BusOK'
    BY <1>1, <1>7, FrameTypes, SendBus DEF OtherAsk, Grows
  <2>2. QED
    BY <1>7, <2>1 DEF OtherAsk, UpdateTypeOK, BusOK, client, inverter
<1>8. CASE OtherEnd
  <2>1. s_rx_queue' \in Seq(Replies)
    BY <1>8 DEF OtherEnd, UpdateTypeOK
  <2>2. QED
    BY <1>8, <2>1 DEF OtherEnd, UpdateTypeOK, NoHttp, client, inverter
<1>9. QED
  BY <1>2, <1>3, <1>4, <1>5, <1>6, <1>7, <1>8 DEF Http

LEMMA TypeServe == UpdateTypeOK /\ (Serve \/ PowerCycle) => UpdateTypeOK'
<1> SUFFICES ASSUME UpdateTypeOK, Serve \/ PowerCycle PROVE UpdateTypeOK'
  OBVIOUS
<1> DEFINE frame == Head(bus)
           BootTypes == [at : {"app", "magic", "size", "page", "crc"}, pages : Nat, page : Nat, buf : Seq(Chunks)]
<1>1. RxOK /\ boot \in BootTypes
  BY DEF UpdateTypeOK, RxOK
<1>2. UNCHANGED <<client, browser>>
  BY DEF Serve, PowerCycle, InverterFrame
<1>3. BusOK' /\ (Serve => frame \in BusFrames)
  <2>1. CASE Serve
    BY <2>1, TakeBus DEF Serve, UpdateTypeOK, BusOK
  <2>2. CASE PowerCycle /\ ~Serve
    BY <2>2 DEF PowerCycle, BusOK
  <2>3. QED
    BY <2>1, <2>2
<1>n. <<>> \in Seq(Chunks)
  OBVIOUS
<1> HIDE DEF frame
<1>4. RxOK' /\ boot' \in BootTypes
  <2>1. \A f \in {"magic", "sdo", "S", "P", "C", "D"} : f \in Replies
    BY DEF Replies, Questions
  <2>2. CASE Serve /\ HeedReset(frame)
    <3>1. RxOK'
      BY <1>1, <2>1, <2>2, SayOne DEF HeedReset
    <3>2. QED
      BY <1>1, <2>2, <3>1 DEF HeedReset
  <2>3. CASE Serve /\ HeedRead(frame)
    <3>1. RxOK'
      BY <1>1, <2>1, <2>3, SayOne DEF HeedRead
    <3>2. QED
      BY <1>1, <2>3, <3>1 DEF HeedRead
  <2>4. CASE Serve /\ HeedId(frame)
    <3>1. RxOK'
      BY <1>1, <2>1, <2>4, SayOne DEF HeedId
    <3>2. QED
      BY <1>1, <2>4, <3>1 DEF HeedId
  <2>5. CASE Serve /\ HeedSize(frame)
    <3>1. RxOK'
      BY <1>1, <2>1, <2>5, SayOne DEF HeedSize
    <3>2. frame.v \in Nat
      BY <1>3, <2>5 DEF HeedSize, BusFrames
    <3>3. QED
      BY <1>1, <2>5, <3>1, <3>2 DEF HeedSize
  <2>6. CASE Serve /\ HeedData(frame)
    <3>1. PICK chunk \in {frame.v, <<"garbled", 0>>} : TakeChunk(chunk)
      BY <2>6 DEF HeedData
    <3>2. chunk \in Chunks
      <4>1. frame.v \in Chunks
        BY <1>3, <2>6 DEF HeedData, BusFrames
      <4>2. <<"garbled", 0>> \in Chunks
        BY DEF Chunks
      <4>3. QED
        BY <4>1, <4>2
    <3>3. RxOK'
      BY <1>1, <2>1, <3>1, SayOne DEF TakeChunk
    <3>4. Append(boot.buf, chunk) \in Seq(Chunks)
      BY <1>1, <3>2
    <3>5. boot' \in BootTypes
      BY <1>1, <3>1, <3>4 DEF TakeChunk
    <3>6. QED
      BY <3>3, <3>5
  <2>7. CASE Serve /\ HeedCrc(frame)
    <3>1. CASE AcceptPage
      <4>1. RxOK'
        BY <1>1, <2>1, <3>1, SayOne DEF AcceptPage
      <4>2. boot' = [at |-> "page", pages |-> boot.pages, page |-> boot.page + 1, buf |-> <<>>]
            \/ boot' = [at |-> "app", pages |-> boot.pages, page |-> boot.page, buf |-> <<>>]
        BY <1>1, <3>1 DEF AcceptPage
      <4>3. boot.pages \in Nat /\ boot.page \in Nat /\ boot.page + 1 \in Nat
        BY <1>1
      <4>4. /\ [at |-> "page", pages |-> boot.pages, page |-> boot.page + 1, buf |-> <<>>] \in BootTypes
            /\ [at |-> "app", pages |-> boot.pages, page |-> boot.page, buf |-> <<>>] \in BootTypes
        BY <1>n, <4>3
      <4>5. QED
        BY <4>1, <4>2, <4>4
    <3>2. CASE RejectPage
      <4>1. RxOK'
        BY <1>1, <3>2, SayError DEF RejectPage
      <4>2. boot' = [at |-> "page", pages |-> boot.pages, page |-> boot.page, buf |-> <<>>]
        BY <1>1, <3>2 DEF RejectPage
      <4>3. boot' \in BootTypes
        BY <1>1, <1>n, <4>2
      <4>4. QED
        BY <4>1, <4>3
    <3>3. QED
      BY <2>7, <3>1, <3>2 DEF HeedCrc
  <2>8. CASE Serve /\ Ignored(frame)
    BY <1>1, <2>8 DEF Ignored, RxOK
  <2>9. CASE PowerCycle
    <3>1. RxOK'
      BY <1>1, <2>1, <2>9, SayOne DEF PowerCycle
    <3>2. QED
      BY <1>1, <2>9, <3>1 DEF PowerCycle
  <2>10. QED
    BY <2>2, <2>3, <2>4, <2>5, <2>6, <2>7, <2>8, <2>9 DEF Serve, frame
<1>5. QED
  BY <1>2, <1>3, <1>4 DEF UpdateTypeOK, RxOK, BusOK, client, browser

LEMMA TypeStep == UpdateTypeOK /\ [UpdateNext]_vars => UpdateTypeOK'
<1>1. ASSUME UpdateTypeOK, UNCHANGED vars PROVE UpdateTypeOK'
  BY <1>1 DEF UpdateTypeOK, vars, client, browser, inverter
<1>2. QED
  BY <1>1, TypeUpdate, TypeLoop, TypeHttp, TypeServe DEF UpdateNext, Loop

-----------------------------------------------------------------------------
(* A frame of the bootloader that the client takes.                        *)

LEMMA FollowedQueued ==
    /\ \A A, B, F, G : A \subseteq F /\ B \subseteq G /\ Followed(A, B) => Queued(F) /\ Queued(G)
    /\ \A A, B, F, G : A \subseteq F /\ B \subseteq G /\ Followed(A, B)' => Queued(F)' /\ Queued(G)'
    /\ \A F, G : F \subseteq G /\ Queued(F) => Queued(G)
    /\ \A F, G : F \subseteq G /\ Queued(F)' => Queued(G)'
BY DEF Followed, Queued

LEMMA SizesPlace ==
    /\ Transfer => Sizes = {}
    /\ Transfer' => Sizes' = {}
BY DEF Transfer, Sizes

Taking(frame) ==
    /\ UpdateTypeOK /\ SoundInv
    /\ s_rx_queue # <<>> /\ frame = Head(s_rx_queue) /\ s_rx_queue' = Tail(s_rx_queue)
    /\ UNCHANGED <<http, ui, boot, flash, installed>>

LEMMA TakingRx ==
    ASSUME NEW frame, Taking(frame)
    PROVE  /\ RxOK /\ BusOK /\ frame \in Replies
           /\ \A F : Queued(F) <=> frame \in F \/ Queued(F)'
           /\ \A A, B : Followed(A, B) <=> Followed(A, B)' \/ (frame \in A /\ Queued(B)')
           /\ (Pending' <=> Pending) /\ http' = http /\ ui' = ui
           /\ \A f, k : Written(f, k)' <=> Written(f, k)
           /\ (Transfer' <=> Transfer) /\ boot' = boot /\ installed' = installed
<1>1. RxOK /\ BusOK
  BY DEF Taking, UpdateTypeOK, RxOK, BusOK
<1>2. UNCHANGED <<http, ui, boot, flash, installed>>
  BY DEF Taking
<1>3. /\ \A f, k : Written(f, k)' <=> Written(f, k)
      /\ (Pending' <=> Pending) /\ (Transfer' <=> Transfer)
  BY <1>2 DEF Written, Pending, Transfer
<1>4. /\ frame \in Replies
      /\ \A F : Queued(F) <=> frame \in F \/ Queued(F)'
      /\ \A A, B : Followed(A, B) <=> Followed(A, B)' \/ (frame \in A /\ Queued(B)')
  BY <1>1, TakeRx DEF Taking
<1>5. QED
  BY <1>1, <1>2, <1>3, <1>4

LEMMA IdentifyKeeps ==
    ASSUME NEW frame, Taking(frame), Identify(frame)
    PROVE  SoundInv'
<1>1. IdentInv /\ EarlyInv /\ KeptInv
  BY DEF Taking, SoundInv
<1>2. /\ s_upd_state = "SEND_MAGIC" /\ frame = "magic" /\ s_upd_state' = "SEND_SIZE"
      /\ UNCHANGED <<s_update_file, s_current_page>>
  BY DEF Identify
<1>3. /\ \A F : Queued(F)' => Queued(F)
      /\ \A A, B : Followed(A, B)' => Followed(A, B)
      /\ Queued({"magic"}) /\ (Queued(Questions)' => Followed({"magic"}, Questions))
      /\ (Pending' <=> Pending) /\ boot' = boot
  BY <1>2, TakingRx
<1>4. ~Committed /\ boot.at # "app" /\ ~Queued(Questions)' /\ ~Followed({"magic"}, Questions)
  BY <1>1, <1>2, <1>3 DEF IdentInv, Hears
<1>5. ~Transfer' /\ Sizes' = {}
  <2>1. Grows({"id"})
    BY FrameTypes, SendBus, TakingRx DEF Identify, Frame
  <2>2. Sizes' = Sizes
    BY <2>1, GrowBus, TakingRx
  <2>3. QED
    BY <1>4, <2>2, TakingRx DEF Committed
<1>6. ~Committed'
  BY <1>5 DEF Committed
<1>7. IdentInv'
  BY <1>1, <1>2, <1>3, <1>4, <1>6 DEF IdentInv, Hears
<1>8. EarlyInv'
  <2>1. Pending => ~Followed({"S"}, {"magic"})'
    BY <1>1, <1>2, <1>3, FollowedQueued DEF EarlyInv
  <2>2. QED
    BY <1>2, <1>3, <1>4, <2>1 DEF EarlyInv
<1>9. KeptInv'
  BY <1>1, <1>2, TakingRx DEF KeptInv
<1>10. QED
  BY <1>2, <1>5, <1>6, <1>7, <1>8, <1>9, TakingRx
  DEF Taking, SoundInv, SizeInv, TransferInv, AskedInv, SendInv, CheckInv

LEMMA TellSizeKeeps ==
    ASSUME PagesFit, NEW frame, Taking(frame), TellSize(frame)
    PROVE  SoundInv'
<1> DEFINE n == PagesOf(s_update_file)
           new == Len(bus) + 1
<1>1. IdentInv /\ EarlyInv /\ KeptInv
  BY DEF Taking, SoundInv
<1>2. /\ s_upd_state = "SEND_SIZE" /\ frame = "S" /\ s_upd_state' = "SEND_PAGE" /\ s_update_file # NoFile
      /\ s_update_crc' = <<>> /\ s_current_byte' = 0 /\ s_current_page' = 0
      /\ s_update_file' = s_update_file
  BY DEF TellSize
<1>3. /\ \A F : Queued(F)' => Queued(F)
      /\ \A A, B : Followed(A, B)' => Followed(A, B)
      /\ (Queued({"magic"})' => Followed({"S"}, {"magic"}))
      /\ (Pending' <=> Pending) /\ boot' = boot /\ BusOK
  BY <1>2, TakingRx
<1>4. ~Committed /\ boot.at # "app" /\ ~Queued(Questions)'
  BY <1>1, <1>2, <1>3 DEF IdentInv, EarlyInv
<1>5. s_update_file \in Files /\ n \in Nat /\ n % 256 = n
  <2>1. s_update_file \in Files
    BY <1>2 DEF Taking, UpdateTypeOK
  <2>2. n \in Nat /\ n < 256
    BY <2>1, PagesType DEF PagesFit
  <2>3. QED
    BY <2>1, <2>2
<1>6. /\ Grows({"size"})
      /\ \/ bus' = bus
         \/ /\ new \in DOMAIN bus' /\ bus'[new] = Frame("size", n)
            /\ \A i \in DOMAIN bus' : i \in DOMAIN bus \/ i = new
  <2>1. Frame("size", n) \in BusFrames /\ Frame("size", n).type = "size" /\ Sent(<<Frame("size", n)>>)
    BY <1>5, FrameTypes DEF TellSize, Frame
  <2>2. QED
    BY <1>3, <2>1, SendBus
<1> HIDE DEF n
<1>7. ~Transfer' /\ ~Transfer
  BY <1>4, TakingRx DEF Committed
<1>8. ASSUME NEW k \in Sizes'
      PROVE  k = new /\ bus'[k] = Frame("size", n) /\ \A j \in DOMAIN bus' : ~(j > k)
  <2>1. k \notin DOMAIN bus /\ k \in DOMAIN bus'
    BY <1>3, <1>4, <1>6, GrowBus DEF Committed, Sizes
  <2>2. k = new /\ bus'[k] = Frame("size", n) /\ \A i \in DOMAIN bus' : i \in DOMAIN bus \/ i = k
    BY <1>6, <2>1
  <2>3. \A i \in DOMAIN bus : ~(i > new)
    BY <1>3, BusDomain
  <2>4. QED
    BY <1>3, <2>2, <2>3, BusDomain
<1>9. SizeInv'
  BY <1>2, <1>5, <1>8 DEF SizeInv, Frame, n
<1>10. Committed' /\ Pending => ~Queued({"magic"})'
  <2> SUFFICES ASSUME Committed', Pending, Queued({"magic"})' PROVE FALSE
    OBVIOUS
  <2>1. boot.at = "magic" /\ ~OnBus({"id"})
    BY <1>1, <1>2, <1>3 DEF EarlyInv
  <2>2. ~OnBus({"id"})'
    BY <1>3, <1>6, <2>1, GrowBus
  <2>3. PICK k \in Sizes' : TRUE
    BY <1>7 DEF Committed
  <2>4. k \in DOMAIN bus' /\ \E i \in 1..(k - 1) : bus'[i].type = "id"
    BY <1>3, <2>1 DEF Sizes
  <2>5. DOMAIN bus' = 1..Len(bus') /\ Len(bus') \in Nat
    BY <1>6 DEF Grows, BusOK
  <2>6. \A i \in 1..(k - 1) : i \in DOMAIN bus'
    BY <2>4, <2>5
  <2>7. QED
    BY <2>2, <2>4, <2>6 DEF OnBus
<1>11. IdentInv'
  BY <1>1, <1>2, <1>3, <1>4, <1>10 DEF IdentInv, Hears
<1>12. EarlyInv'
  BY <1>2, <1>3, <1>4 DEF EarlyInv
<1>13. /\ \A A, B : A \subseteq Questions /\ B \subseteq Questions => ~Followed(A, B)'
       /\ ~Queued({"E", "D"})'
  BY <1>4, FollowedQueued DEF Questions
<1>14. AskedInv'
  BY <1>2, <1>13 DEF AskedInv, Questions
<1>15. PageSent'
  BY <1>2 DEF PageSent
<1>16. SendInv'
  BY <1>2, <1>4, <1>7, <1>15 DEF SendInv
<1>17. KeptInv'
  BY <1>1, <1>2, TakingRx DEF KeptInv
<1>18. QED
  BY <1>2, <1>7, <1>9, <1>11, <1>12, <1>14, <1>16, <1>17, TakingRx
  DEF Taking, SoundInv, TransferInv, CheckInv

\* A frame that says nothing to the client, if it is not a report.
LEMMA NothingKeeps ==
    ASSUME NEW frame, Taking(frame), Sound', SizeOfNothing(frame) \/ Unexpected(frame),
           frame \notin Expected => Unread(<<frame>>) \subseteq amiss'
    PROVE  SoundInv'
<1>1. frame # "E"
  <2>1. CASE frame \notin Expected
    <3>1. ASSUME frame = "E" PROVE FALSE
      <4>1. <<frame>> \in Seq(Replies) /\ 1 \in DOMAIN <<frame>> /\ <<frame>>[1] = "E"
        BY <3>1 DEF Replies, Questions
      <4>2. "error" \in Unread(<<frame>>)
        BY <4>1, UnreadError
      <4>3. QED
        BY <2>1, <4>2 DEF Sound
    <3>2. QED
      BY <3>1
  <2>2. CASE frame \in Expected
    BY <2>2 DEF SizeOfNothing, Unexpected
  <2>3. QED
    BY <2>1, <2>2
<1>2. Dropped
  BY <1>1, TakingRx DEF Dropped
<1>3. bus' = bus /\ QuietFrame
  BY TakingRx DEF SizeOfNothing, Unexpected, QuietFrame, client, Taking
<1>4. Grows({"read", "reset"})
  BY <1>3, TakingRx DEF Grows, BusOK
<1>5. QED
  BY <1>2, <1>3, <1>4, GrowKeeps, QuietStep, TakingRx DEF Taking

\* A part of an image, and the next chunk.
LEMMA ExtendPart ==
    ASSUME NEW f \in Files \cup {NoFile}, NEW base \in Nat, NEW part \in Seq(Chunks),
           part = [c \in 1..Len(part) |-> ReadChunk(f, base + c - 1)]
    PROVE  LET more == Append(part, ReadChunk(f, base + Len(part)))
           IN  Len(more) = Len(part) + 1 /\ more = [c \in 1..Len(more) |-> ReadChunk(f, base + c - 1)]
<1> DEFINE n == Len(part)
           last == ReadChunk(f, base + n)
           more == Append(part, last)
<1>1. n \in Nat /\ n + 1 \in Nat /\ DOMAIN part = 1..n
  OBVIOUS
<1>2. last \in Chunks
  BY <1>1, ReadType
<1> HIDE DEF n, last
<1>3. /\ more \in Seq(Chunks) /\ Len(more) = n + 1 /\ more[n + 1] = last
      /\ \A c \in 1..n : more[c] = part[c]
  BY <1>1, <1>2 DEF n
<1>4. last = ReadChunk(f, base + (n + 1) - 1)
  <2>1. base + (n + 1) - 1 = base + n
    BY <1>1
  <2>2. QED
    BY <2>1 DEF last
<1>5. \A c \in 1..n : part[c] = ReadChunk(f, base + c - 1)
  BY DEF n
<1>6. \A c \in 1..(n + 1) : c \in 1..n \/ c = n + 1
  BY <1>1
<1>7. \A c \in 1..(n + 1) : more[c] = ReadChunk(f, base + c - 1)
  BY <1>3, <1>4, <1>5, <1>6
<1>8. more = [c \in 1..(n + 1) |-> more[c]]
  <2>1. more \in [1..(n + 1) -> Chunks]
    BY <1>3, LenProperties
  <2>2. QED
    BY <2>1
<1>9. more = [c \in 1..Len(more) |-> ReadChunk(f, base + c - 1)]
  BY <1>3, <1>7, <1>8
<1>10. QED
  BY <1>3, <1>9 DEF n, last

\* One frame of a transfer goes out when there was none.
LEMMA SendPart ==
    ASSUME BusOK, boot' = boot, ~OnBus({"data", "crc"}),
           NEW f \in BusFrames, f.type \in {"data", "crc"}, Sent(<<f>>)
    PROVE  /\ Sizes' = Sizes /\ (OnBus({"id", "size"})' <=> OnBus({"id", "size"}))
           /\ OneFrame' /\ \A i \in DOMAIN bus' : bus'[i].type \in {"data", "crc"} => bus'[i] = f
           /\ \A U : f.type \notin U /\ U \subseteq {"data", "crc"} => ~OnBus(U)'
<1>1. /\ Grows({f.type})
      /\ bus' = bus \/ (/\ bus'[Len(bus) + 1] = f
                        /\ \A i \in DOMAIN bus' : i \in DOMAIN bus \/ i = Len(bus) + 1)
  BY SendBus
<1>2. \A i \in DOMAIN bus : bus'[i] = bus[i] /\ bus[i].type \notin {"data", "crc"}
  BY <1>1 DEF Grows, OnBus
<1>3. \A i \in DOMAIN bus' : bus'[i].type \in {"data", "crc"} => bus'[i] = f /\ i = Len(bus) + 1
  BY <1>1, <1>2
<1>4. OneFrame'
  BY <1>3 DEF OneFrame
<1>5. \A U : f.type \notin U /\ U \subseteq {"data", "crc"} => ~OnBus(U)'
  BY <1>3 DEF OnBus
<1>6. Sizes' = Sizes /\ (OnBus({"id", "size"})' <=> OnBus({"id", "size"}))
  BY <1>1, GrowBus
<1>7. QED
  BY <1>3, <1>4, <1>5, <1>6

LEMMA NextChunkKeeps ==
    ASSUME NEW frame, Taking(frame), NextChunk(frame)
    PROVE  SoundInv'
<1> DEFINE chunk == ReadChunk(s_update_file, s_current_byte)
           f == Frame("data", chunk)
<1>1. IdentInv /\ EarlyInv /\ SizeInv /\ TransferInv /\ AskedInv /\ SendInv /\ KeptInv
  BY DEF Taking, SoundInv
<1>2. /\ s_upd_state = "SEND_PAGE" /\ frame = "P" /\ s_upd_state' = "SEND_PAGE" /\ Sent(<<f>>)
      /\ s_update_crc' = Append(s_update_crc, chunk) /\ s_current_byte' = s_current_byte + 1
      /\ s_update_file' = s_update_file /\ s_current_page' = s_current_page
  BY DEF NextChunk, SendChunk, CrcWord
<1>3. /\ \A F : Queued(F)' => Queued(F)
      /\ \A A, B : Followed(A, B)' => Followed(A, B)
      /\ Queued({"P"}) /\ Queued(Questions) /\ ~Queued(Questions)'
      /\ (Pending' <=> Pending) /\ boot' = boot /\ boot.at # "app"
  BY <1>1, <1>2, TakingRx DEF AskedInv, EarlyInv, Questions
<1>4. \A F : F \subseteq Questions => ~Queued(F)' /\ \A A : ~Followed(A, F)'
  BY <1>3, FollowedQueued
<1>5. Committed => Transfer
  BY <1>1, <1>2, <1>3 DEF SendInv
<1>6. Sizes = {}
  BY <1>5, SizesPlace DEF Committed
<1>7. chunk \in Chunks /\ f \in BusFrames /\ f.type = "data"
  BY ReadType, FrameTypes DEF Taking, UpdateTypeOK, Frame
<1>8. /\ Grows({"data"}) /\ Sizes' = {} /\ (Committed' <=> Committed)
  <2>1. Grows({"data"})
    BY <1>2, <1>7, SendBus, TakingRx
  <2>2. Sizes' = Sizes
    BY <2>1, GrowBus, TakingRx
  <2>3. QED
    BY <1>6, <2>1, <2>2, TakingRx DEF Committed
<1>9. ASSUME Transfer
      PROVE  /\ s_current_page = boot.page /\ boot.at = "page" /\ Len(s_update_crc) = Len(boot.buf)
             /\ OneFrame' /\ ~OnBus({"crc"})' /\ ~OnBus({"id", "size"})'
             /\ \A i \in DOMAIN bus' : bus'[i].type # "crc"
             /\ PageSent
  <2>1. /\ ~OnBus({"data", "crc"}) /\ s_current_page = boot.page /\ boot.at = "page"
        /\ Len(s_update_crc) = Len(boot.buf) /\ PageSent
    BY <1>1, <1>2, <1>3, <1>9 DEF SendInv, Committed
  <2>2. OneFrame' /\ ~OnBus({"crc"})' /\ (OnBus({"id", "size"})' <=> OnBus({"id", "size"}))
    BY <1>2, <1>7, <2>1, SendPart, TakingRx
  <2>3. QED
    BY <1>1, <1>9, <2>1, <2>2 DEF TransferInv, TransferOK, OnBus
<1>10. TransferInv'
  BY <1>1, <1>2, <1>9, TakingRx DEF TransferInv, TransferOK, RightCrc
<1>11. ASSUME Transfer PROVE PageSent' /\ Len(s_update_crc') = Len(boot.buf) + 1
  <2> DEFINE base == s_current_page * PageChunks
  <2>1. base \in Nat /\ s_update_file \in Files \cup {NoFile} /\ s_update_crc \in Seq(Chunks) /\ s_current_page \in Nat
    BY DEF Taking, UpdateTypeOK
  <2>2. /\ s_update_crc = [c \in 1..Len(s_update_crc) |-> ReadChunk(s_update_file, base + c - 1)]
        /\ s_current_byte = base + Len(s_update_crc)
    BY <1>9, <1>11 DEF PageSent
  <2>3. base' = base
    BY <1>2
  <2> HIDE DEF base
  <2>4. /\ Len(s_update_crc') = Len(s_update_crc) + 1
        /\ s_update_crc' = [c \in 1..Len(s_update_crc') |-> ReadChunk(s_update_file, base + c - 1)]
    BY <1>2, <2>1, <2>2, ExtendPart
  <2>5. s_current_byte' = base + Len(s_update_crc')
    BY <1>2, <2>1, <2>2, <2>4
  <2>6. Len(s_update_crc') = Len(boot.buf) + 1
    BY <1>9, <1>11, <2>4
  <2>7. PageSent'
    BY <1>2, <2>3, <2>4, <2>5 DEF PageSent, base
  <2>8. QED
    BY <2>6, <2>7
<1>12. IdentInv'
  BY <1>1, <1>2, <1>3, <1>4, <1>8 DEF IdentInv, Hears
<1>13. EarlyInv'
  BY <1>2, <1>3 DEF EarlyInv
<1>14. AskedInv'
  BY <1>2, <1>4 DEF AskedInv, Questions
<1>15. SendInv'
  <2>1. \A F \in {{"P"}, {"C"}, Questions} : ~Queued(F)'
    BY <1>4 DEF Questions
  <2>2. QED
    BY <1>2, <1>3, <1>5, <1>8, <1>9, <1>11, <2>1, TakingRx DEF SendInv
<1>16. KeptInv'
  BY <1>1, <1>2, TakingRx DEF KeptInv
<1>17. QED
  BY <1>2, <1>8, <1>10, <1>12, <1>13, <1>14, <1>15, <1>16, TakingRx
  DEF Taking, SoundInv, SizeInv, CheckInv

LEMMA TellCrcKeeps ==
    ASSUME NEW frame, Taking(frame), TellCrc(frame)
    PROVE  SoundInv'
<1> DEFINE f == Frame("crc", s_update_crc)
<1>1. IdentInv /\ EarlyInv /\ SizeInv /\ TransferInv /\ AskedInv /\ SendInv /\ KeptInv
  BY DEF Taking, SoundInv
<1>2. /\ s_upd_state = "SEND_PAGE" /\ frame = "C" /\ s_upd_state' = "CHECK_CRC" /\ Sent(<<f>>)
      /\ UNCHANGED <<s_update_file, s_current_page, s_current_byte, s_update_crc>>
  BY DEF TellCrc
<1>3. /\ \A F : Queued(F)' => Queued(F)
      /\ \A A, B : Followed(A, B)' => Followed(A, B)
      /\ Queued({"C"}) /\ Queued(Questions) /\ ~Queued(Questions)'
      /\ (Pending' <=> Pending) /\ boot' = boot /\ boot.at # "app"
  BY <1>1, <1>2, TakingRx DEF AskedInv, EarlyInv, Questions
<1>4. \A F : F \subseteq Questions => ~Queued(F)' /\ \A A : ~Followed(A, F)'
  BY <1>3, FollowedQueued
<1>5. Committed => Transfer
  BY <1>1, <1>2, <1>3 DEF SendInv
<1>6. Sizes = {}
  BY <1>5, SizesPlace DEF Committed
<1>7. f \in BusFrames /\ f.type = "crc" /\ f.v = s_update_crc
  BY FrameTypes DEF Taking, UpdateTypeOK, Frame
<1>8. /\ Sizes' = {} /\ (Committed' <=> Committed)
  <2>1. Grows({"crc"})
    BY <1>2, <1>7, SendBus, TakingRx
  <2>2. Sizes' = Sizes
    BY <2>1, GrowBus, TakingRx
  <2>3. QED
    BY <1>6, <2>2, TakingRx DEF Committed
<1>9. ASSUME Transfer
      PROVE  /\ s_current_page = boot.page /\ boot.at = "crc" /\ Len(s_update_crc) = PageChunks
             /\ OneFrame' /\ RightCrc' /\ ~OnBus({"data"})' /\ ~OnBus({"id", "size"})'
             /\ s_current_byte = s_current_page * PageChunks + PageChunks
  <2>1. /\ ~OnBus({"data", "crc"}) /\ s_current_page = boot.page /\ boot.at = "crc"
        /\ Len(s_update_crc) = PageChunks /\ PageSent
    BY <1>1, <1>2, <1>3, <1>9 DEF SendInv, Committed
  <2>2. /\ OneFrame' /\ ~OnBus({"data"})' /\ (OnBus({"id", "size"})' <=> OnBus({"id", "size"}))
        /\ \A i \in DOMAIN bus' : bus'[i].type \in {"data", "crc"} => bus'[i] = f
    BY <1>2, <1>7, <2>1, SendPart, TakingRx
  <2>3. s_update_crc = PageOf(s_update_file, boot.page)
    BY <2>1 DEF PageSent, PageOf
  <2>4. RightCrc'
    BY <1>2, <1>3, <1>7, <2>2, <2>3 DEF RightCrc
  <2>5. QED
    BY <1>1, <1>9, <2>1, <2>2, <2>4 DEF TransferInv, TransferOK, PageSent
<1>10. TransferInv'
  BY <1>1, <1>2, <1>9, TakingRx DEF TransferInv, TransferOK
<1>11. IdentInv'
  BY <1>1, <1>2, <1>3, <1>4, <1>8 DEF IdentInv, Hears
<1>12. EarlyInv'
  BY <1>2, <1>3 DEF EarlyInv
<1>13. AskedInv'
  BY <1>2, <1>4 DEF AskedInv, Questions
<1>14. \A F \in {{"P"}, {"E"}, {"D"}, Questions} : ~Queued(F)'
  BY <1>4 DEF Questions
<1>15. CheckInv'
  <2>1. s_current_page * PageChunks + PageChunks = (s_current_page + 1) * PageChunks
    BY DEF Taking, UpdateTypeOK
  <2>2. QED
    BY <1>2, <1>3, <1>5, <1>8, <1>9, <1>14, <2>1, TakingRx DEF CheckInv
<1>16. KeptInv'
  BY <1>1, <1>2, <1>14, TakingRx DEF KeptInv
<1>17. QED
  BY <1>2, <1>8, <1>10, <1>11, <1>12, <1>13, <1>15, <1>16, TakingRx
  DEF Taking, SoundInv, SizeInv, SendInv

LEMMA NextPageKeeps ==
    ASSUME NEW frame, Taking(frame), NextPage(frame)
    PROVE  SoundInv'
<1> DEFINE chunk == ReadChunk(s_update_file, s_current_byte)
           f == Frame("data", chunk)
<1>1. IdentInv /\ EarlyInv /\ SizeInv /\ TransferInv /\ AskedInv /\ CheckInv /\ KeptInv
  BY DEF Taking, SoundInv
<1>2. /\ s_upd_state = "CHECK_CRC" /\ frame = "P" /\ s_upd_state' = "SEND_PAGE" /\ Sent(<<f>>)
      /\ s_update_crc' = Append(<<>>, chunk) /\ s_current_byte' = s_current_byte + 1
      /\ s_update_file' = s_update_file /\ s_current_page' = s_current_page + 1
  BY DEF NextPage, SendChunk, CrcWord
<1>3. /\ \A F : Queued(F)' => Queued(F)
      /\ \A A, B : Followed(A, B)' => Followed(A, B)
      /\ Queued({"P"}) /\ Queued(Questions) /\ Queued({"P", "E"}) /\ ~Queued(Questions)'
      /\ (Pending' <=> Pending) /\ boot' = boot
  BY <1>1, <1>2, TakingRx DEF AskedInv, Questions
<1>4. \A F : F \subseteq Questions => ~Queued(F)' /\ \A A : ~Followed(A, F)'
  BY <1>3, FollowedQueued
<1>5. ~Queued({"E"}) /\ boot.at # "app"
  <2>1. ~Queued({"E"})
    BY <1>2, <1>4, TakingRx DEF Questions
  <2>2. QED
    BY <1>1, <1>2, <1>3, <2>1 DEF EarlyInv
<1>6. (Committed => Transfer) /\ Sizes = {}
  <2>1. Committed => Transfer
    BY <1>1, <1>2 DEF CheckInv
  <2>2. QED
    BY <2>1, SizesPlace DEF Committed
<1>7. chunk \in Chunks /\ f \in BusFrames /\ f.type = "data"
  BY ReadType, FrameTypes DEF Taking, UpdateTypeOK, Frame
<1>8. /\ Sizes' = {} /\ (Committed' <=> Committed)
  <2>1. Grows({"data"})
    BY <1>2, <1>7, SendBus, TakingRx
  <2>2. Sizes' = Sizes
    BY <2>1, GrowBus, TakingRx
  <2>3. QED
    BY <1>6, <2>2, TakingRx DEF Committed
<1>9. ASSUME Transfer
      PROVE  /\ s_current_page + 1 = boot.page /\ boot.at = "page" /\ boot.buf = <<>>
             /\ s_current_byte = (s_current_page + 1) * PageChunks
             /\ OneFrame' /\ ~OnBus({"crc"})' /\ ~OnBus({"id", "size"})'
             /\ \A i \in DOMAIN bus' : bus'[i].type # "crc"
  <2>1. /\ boot.at = "page" /\ boot.buf = <<>> /\ ~OnBus({"data"}) /\ ~OnBus({"crc"})
        /\ s_current_page + 1 = boot.page /\ s_current_byte = (s_current_page + 1) * PageChunks
    BY <1>1, <1>2, <1>3, <1>5, <1>9 DEF CheckInv, Committed
  <2>2. ~OnBus({"data", "crc"})
    BY <2>1 DEF OnBus
  <2>3. OneFrame' /\ ~OnBus({"crc"})' /\ (OnBus({"id", "size"})' <=> OnBus({"id", "size"}))
    BY <1>2, <1>7, <2>2, SendPart, TakingRx
  <2>4. QED
    BY <1>1, <1>9, <2>1, <2>3 DEF TransferInv, TransferOK, OnBus
<1>10. TransferInv'
  BY <1>1, <1>2, <1>9, TakingRx DEF TransferInv, TransferOK, RightCrc
<1>11. ASSUME Transfer PROVE PageSent' /\ Len(s_update_crc') = 1
  <2> DEFINE base == s_current_page' * PageChunks
  <2>1. base \in Nat /\ s_update_file \in Files \cup {NoFile} /\ s_current_byte = base + 0
    <3>1. s_current_page' \in Nat /\ s_current_page' * PageChunks \in Nat
      BY <1>2 DEF Taking, UpdateTypeOK
    <3>2. s_current_byte = base
      BY <1>2, <1>9, <1>11
    <3>3. QED
      BY <3>1, <3>2 DEF Taking, UpdateTypeOK
  <2> HIDE DEF base
  <2>2. <<>> \in Seq(Chunks) /\ Len(<<>>) = 0 /\ <<>> = [c \in 1..0 |-> ReadChunk(s_update_file, base + c - 1)]
    OBVIOUS
  <2>3. /\ Len(s_update_crc') = 1
        /\ s_update_crc' = [c \in 1..Len(s_update_crc') |-> ReadChunk(s_update_file, base + c - 1)]
    BY <1>2, <2>1, <2>2, ExtendPart
  <2>4. s_current_byte' = base + Len(s_update_crc')
    BY <1>2, <2>1, <2>3
  <2>5. PageSent'
    BY <1>2, <2>3, <2>4 DEF PageSent, base
  <2>6. QED
    BY <2>3, <2>5
<1>12. IdentInv'
  BY <1>1, <1>2, <1>3, <1>4, <1>8 DEF IdentInv, Hears
<1>13. EarlyInv'
  BY <1>2, <1>3, <1>5 DEF EarlyInv
<1>14. AskedInv'
  BY <1>2, <1>4 DEF AskedInv, Questions
<1>15. SendInv'
  <2>1. \A F \in {{"P"}, {"C"}, Questions} : ~Queued(F)'
    BY <1>4 DEF Questions
  <2>2. Transfer => Len(s_update_crc') = Len(boot.buf) + 1
    BY <1>9, <1>11
  <2>3. QED
    BY <1>2, <1>3, <1>6, <1>8, <1>9, <1>11, <2>1, <2>2, TakingRx DEF SendInv
<1>16. KeptInv'
  <2>1. ASSUME ~Pending, NEW k \in 0..(s_current_page' - 1) PROVE Written(ui.file, k)
    <3>1. k \in 0..(s_current_page - 1) \/ k = s_current_page
      BY <1>2 DEF Taking, UpdateTypeOK
    <3>2. QED
      BY <1>1, <1>2, <1>3, <1>5, <2>1, <3>1 DEF KeptInv
  <2>2. QED
    BY <1>1, <1>2, <2>1, TakingRx DEF KeptInv
<1>17. QED
  BY <1>2, <1>8, <1>10, <1>12, <1>13, <1>14, <1>15, <1>16, TakingRx
  DEF Taking, SoundInv, SizeInv, CheckInv

LEMMA PageAgainKeeps ==
    ASSUME NEW frame, Taking(frame), PageAgain(frame)
    PROVE  SoundInv'
<1>1. IdentInv /\ EarlyInv /\ SizeInv /\ TransferInv /\ AskedInv /\ CheckInv /\ KeptInv
  BY DEF Taking, SoundInv
<1>2. /\ s_upd_state = "CHECK_CRC" /\ frame = "E" /\ s_upd_state' = "SEND_PAGE" /\ bus' = bus
      /\ s_update_crc' = <<>> /\ s_current_byte' = s_current_page * PageChunks
      /\ UNCHANGED <<s_update_file, s_current_page>>
  BY DEF PageAgain
<1>3. /\ \A F : Queued(F)' => Queued(F)
      /\ \A A, B : Followed(A, B)' => Followed(A, B)
      /\ Queued({"E"}) /\ Queued({"P", "E"}) /\ Queued(Questions) /\ ~Queued(Questions \ {"P"})'
      /\ (Pending' <=> Pending) /\ boot' = boot /\ boot.at # "app"
  BY <1>1, <1>2, TakingRx DEF AskedInv, EarlyInv, Questions
<1>4. ~Queued({"C"})' /\ ~Queued({"E", "D"})'
  BY <1>3, FollowedQueued DEF Questions
<1>5. (Committed => Transfer) /\ Sizes = {}
  <2>1. Committed => Transfer
    BY <1>1, <1>2 DEF CheckInv
  <2>2. QED
    BY <2>1, SizesPlace DEF Committed
<1>6. Sizes' = Sizes /\ (Committed' <=> Committed) /\ \A U : OnBus(U)' <=> OnBus(U)
  BY <1>2, <1>3, TakingRx DEF Sizes, Committed, OnBus
<1>7. TransferInv'
  BY <1>1, <1>2, <1>6, TakingRx DEF TransferInv, TransferOK, OneFrame, RightCrc
<1>8. IdentInv'
  BY <1>1, <1>2, <1>3, <1>6 DEF IdentInv, Hears
<1>9. EarlyInv'
  BY <1>2, <1>3 DEF EarlyInv
<1>10. AskedInv'
  BY <1>1, <1>2, <1>3, <1>4 DEF AskedInv
<1>11. SendInv'
  <2>1. PageSent' /\ Len(s_update_crc') = 0
    <3>1. s_current_page * PageChunks \in Nat
      BY DEF Taking, UpdateTypeOK
    <3>2. QED
      BY <1>2, <3>1 DEF PageSent
  <2>2. ASSUME Transfer
        PROVE  /\ boot.at = "page" /\ Len(boot.buf) = 0 /\ s_current_page = boot.page
               /\ ~OnBus({"data"}) /\ ~OnBus({"crc"}) /\ ~OnBus({"data", "crc"})
    <3>1. /\ boot.at = "page" /\ boot.buf = <<>> /\ s_current_page = boot.page
          /\ ~OnBus({"data"}) /\ ~OnBus({"crc"})
      BY <1>1, <1>2, <1>3, <2>2 DEF CheckInv, Committed
    <3>2. QED
      BY <3>1 DEF OnBus
  <2>3. QED
    BY <1>2, <1>3, <1>4, <1>5, <1>6, <2>1, <2>2, TakingRx DEF SendInv
<1>12. KeptInv'
  BY <1>1, <1>2, TakingRx DEF KeptInv
<1>13. QED
  BY <1>2, <1>5, <1>6, <1>7, <1>8, <1>9, <1>10, <1>11, <1>12, TakingRx
  DEF Taking, SoundInv, SizeInv, CheckInv

LEMMA CompleteKeeps ==
    ASSUME NEW frame, Taking(frame), UpdateComplete(frame)
    PROVE  SoundInv'
<1>1. IdentInv /\ EarlyInv /\ SizeInv /\ TransferInv /\ AskedInv /\ CheckInv /\ KeptInv
  BY DEF Taking, SoundInv
<1>2. /\ s_upd_state = "CHECK_CRC" /\ frame = "D" /\ s_upd_state' = "REQUEST_JSON" /\ bus' = bus
      /\ s_update_file' = NoFile /\ s_current_page' = s_current_page
  BY DEF UpdateComplete
<1>3. /\ \A F : Queued(F)' => Queued(F)
      /\ \A A, B : Followed(A, B)' => Followed(A, B)
      /\ Queued({"D"}) /\ (Pending' <=> Pending) /\ boot' = boot
  BY <1>2, TakingRx
<1>4. ~Committed
  BY <1>1, <1>2, <1>3 DEF CheckInv
<1>5. Sizes' = {} /\ ~Committed' /\ ~Transfer' /\ (EarlyBus' <=> EarlyBus)
  BY <1>2, <1>3, <1>4, TakingRx DEF Sizes, Committed, EarlyBus
<1>6. IdentInv'
  BY <1>1, <1>2, <1>3, <1>5 DEF IdentInv, Hears
<1>7. EarlyInv'
  BY <1>1, <1>2, <1>3, <1>5 DEF EarlyInv
<1>8. KeptInv'
  BY <1>1, <1>2, TakingRx DEF KeptInv
<1>9. QED
  BY <1>2, <1>5, <1>6, <1>7, <1>8, TakingRx
  DEF Taking, SoundInv, SizeInv, TransferInv, AskedInv, SendInv, CheckInv

LEMMA UpdateKeeps ==
    ASSUME PagesFit, UpdateTypeOK, SoundInv, Sound', LoopUpdate
    PROVE  SoundInv'
<1> DEFINE frame == Head(s_rx_queue)
<1>1. Taking(frame)
  BY DEF LoopUpdate, LoopFrame, browser, inverter, Taking
<1>2. frame \notin Expected => Unread(<<frame>>) \subseteq amiss'
  BY DEF LoopUpdate, HandleUpdate
<1> HIDE DEF frame
<1>3. \/ Identify(frame) \/ TellSize(frame) \/ SizeOfNothing(frame) \/ NextChunk(frame)
      \/ TellCrc(frame) \/ NextPage(frame) \/ PageAgain(frame) \/ UpdateComplete(frame)
      \/ Unexpected(frame)
  BY DEF LoopUpdate, HandleUpdate, frame
<1>4. QED
  BY <1>1, <1>2, <1>3, IdentifyKeeps, TellSizeKeeps, NothingKeeps, NextChunkKeeps, TellCrcKeeps,
     NextPageKeeps, PageAgainKeeps, CompleteKeeps

-----------------------------------------------------------------------------
(* The steps that begin nothing.                                           *)

LEMMA MoreGrows ==
    /\ \A T, U : T \subseteq U /\ Grows(T) => Grows(U)
    /\ BusOK /\ bus' = bus => \A T : Grows(T)
BY DEF Grows, BusOK

\* A frame is taken that is not the report of a wrong checksum,
LEMMA TakeDrops ==
    ASSUME RxOK, s_rx_queue # <<>>, s_rx_queue' = Tail(s_rx_queue), Head(s_rx_queue) # "E"
    PROVE  Dropped
BY TakeRx DEF Dropped

\* or the queue is emptied, and none was there.
LEMMA EmptyDrops ==
    ASSUME RxOK, s_rx_queue' = <<>>, Sound', amiss' = amiss \cup Unread(s_rx_queue)
    PROVE  Dropped
<1>1. ~Queued({"E"})
  <2> SUFFICES ASSUME NEW i \in DOMAIN s_rx_queue, s_rx_queue[i] = "E" PROVE FALSE
    BY DEF Queued
  <2>1. "error" \in Unread(s_rx_queue)
    BY UnreadError DEF RxOK
  <2>2. QED
    BY <2>1 DEF Sound
<1>2. QED
  BY <1>1, EmptyRx DEF Dropped

LEMMA SameDrops ==
    ASSUME RxOK, s_rx_queue' = s_rx_queue
    PROVE  Dropped
BY SameRx DEF Dropped

LEMMA LoopKeeps ==
    ASSUME UpdateTypeOK, SoundInv, Sound', LoopSdo \/ LoopEmpty \/ LoopEnd
    PROVE  SoundInv'
<1>1. RxOK /\ BusOK
  BY DEF UpdateTypeOK, RxOK, BusOK
<1>2. QuietFrame
  BY DEF LoopSdo, LoopEmpty, LoopEnd, LoopFrame, client, browser, inverter, QuietFrame, Pending, UpdIdle
<1>3. Dropped
  <2>1. CASE LoopSdo
    BY <1>1, <2>1, TakeDrops DEF LoopSdo
  <2>2. CASE LoopEmpty
    BY <1>1, <2>2, SameDrops DEF LoopEmpty
  <2>3. CASE LoopEnd
    <3>1. \/ s_rx_queue' = s_rx_queue
          \/ s_rx_queue' = <<>> /\ amiss' = amiss \cup Unread(s_rx_queue)
      BY <2>3 DEF LoopEnd
    <3>2. QED
      BY <1>1, <3>1, SameDrops, EmptyDrops
  <2>4. QED
    BY <2>1, <2>2, <2>3
<1>4. Grows({"read", "reset"})
  <2>1. CASE LoopSdo \/ LoopEmpty
    BY <1>1, <2>1, MoreGrows DEF LoopSdo, LoopEmpty
  <2>2. CASE LoopEnd
    <3>1. Grows({"read"}) /\ {"read"} \subseteq {"read", "reset"}
      BY <1>1, <2>2, LoopAsks
    <3>2. QED
      BY <3>1, MoreGrows
  <2>3. QED
    BY <2>1, <2>2
<1>5. QED
  BY <1>1, <1>2, <1>3, <1>4, GrowKeeps, QuietStep

LEMMA OtherTakes ==
    ASSUME RxOK, Sound', OtherEnd
    PROVE  Dropped
<1>1. CASE s_rx_queue = <<>>
  <2>1. s_rx_queue' = SubSeq(s_rx_queue, 1, Len(s_rx_queue))
    BY <1>1 DEF OtherEnd
  <2>2. s_rx_queue' = s_rx_queue
    BY <1>1, <2>1
  <2>3. QED
    BY <2>2, SameDrops
<1>2. CASE s_rx_queue # <<>>
  <2> DEFINE head == Head(s_rx_queue)
  <2>1. head \in Replies /\ Len(<<head>>) = 1
    BY <1>2 DEF RxOK
  <2>2. s_rx_queue' = SubSeq(s_rx_queue, Len(<<head>>) + 1, Len(s_rx_queue)) /\ amiss' = amiss \cup Unread(<<head>>)
    BY <1>2 DEF OtherEnd
  <2> HIDE DEF head
  <2>3. s_rx_queue' = SubSeq(s_rx_queue, 2, Len(s_rx_queue))
    BY <2>1, <2>2
  <2>4. s_rx_queue' = Tail(s_rx_queue)
    <3>1. SubSeq(s_rx_queue, 2, Len(s_rx_queue)) = Tail(s_rx_queue)
      BY <1>2 DEF RxOK
    <3>2. QED
      BY <2>3, <3>1
  <2>5. head # "E"
    <3>1. ASSUME head = "E" PROVE FALSE
      <4>1. <<head>> \in Seq(Replies) /\ 1 \in DOMAIN <<head>> /\ <<head>>[1] = "E"
        BY <2>1, <3>1
      <4>2. "error" \in Unread(<<head>>)
        BY <4>1, UnreadError
      <4>3. QED
        BY <2>2, <4>2 DEF Sound
    <3>2. QED
      BY <3>1
  <2>6. QED
    BY <1>2, <2>4, <2>5, TakeDrops DEF head
<1>3. QED
  BY <1>1, <1>2

LEMMA HttpKeeps ==
    ASSUME UpdateTypeOK, SoundInv, Sound', StartReset \/ StepAsk \/ StepReturn \/ OtherAsk \/ OtherEnd
    PROVE  SoundInv'
<1>1. RxOK /\ BusOK
  BY DEF UpdateTypeOK, RxOK, BusOK
<1>2. QuietFrame
  <2>1. ui'.file = ui.file
    BY DEF StartReset, StepAsk, StepReturn, OtherAsk, OtherEnd, UpdateTypeOK
  <2>2. (Pending' <=> Pending) /\ (Pending => http'.file = http.file)
    BY SMTT(30) DEF StartReset, StepAsk, StepReturn, OtherAsk, OtherEnd, UpdateTypeOK, Pending, NoHttp
  <2>3. QED
    BY <2>1, <2>2 DEF StartReset, StepAsk, StepReturn, OtherAsk, OtherEnd, client, inverter, QuietFrame
<1>3. Dropped
  <2>1. CASE OtherAsk
    BY <1>1, <2>1, EmptyDrops DEF OtherAsk
  <2>2. CASE OtherEnd
    BY <1>1, <2>2, OtherTakes
  <2>3. CASE StartReset \/ StepAsk \/ StepReturn
    BY <1>1, <2>3, SameDrops DEF StartReset, StepAsk, StepReturn
  <2>4. QED
    BY <2>1, <2>2, <2>3
<1>4. Grows({"read", "reset"})
  <2>1. CASE OtherAsk
    <3>1. Grows({Ask.type}) /\ {Ask.type} \subseteq {"read", "reset"}
      BY <1>1, <2>1, FrameTypes, SendBus DEF OtherAsk, Ask, Frame
    <3>2. QED
      BY <3>1, MoreGrows
  <2>2. CASE StartReset
    <3>1. Grows({Frame("reset", 0).type}) /\ {Frame("reset", 0).type} \subseteq {"read", "reset"}
      BY <1>1, <2>2, FrameTypes, SendBus DEF StartReset, Frame
    <3>2. QED
      BY <3>1, MoreGrows
  <2>3. CASE StepAsk \/ StepReturn \/ OtherEnd
    BY <1>1, <2>3, MoreGrows DEF StepAsk, StepReturn, OtherEnd
  <2>4. QED
    BY <2>1, <2>2, <2>3
<1>5. QED
  BY <1>1, <1>2, <1>3, <1>4, GrowKeeps, QuietStep

-----------------------------------------------------------------------------
(* An update is begun.                                                     *)

LEMMA OpenKeeps ==
    ASSUME UpdateTypeOK, SoundInv, Sound', StartOpen
    PROVE  SoundInv'
<1>1. IdentInv /\ EarlyInv /\ KeptInv
  BY DEF SoundInv
<1>2. /\ UNCHANGED <<s_upd_state, s_current_page, s_current_byte, s_update_crc, s_rx_queue, bus, boot, flash,
                     installed, ui>>
      /\ http'.at = "reset" /\ http'.file = s_update_file' /\ http = NoHttp
      /\ amiss' = amiss
            \cup (IF boot.at # "app" \/ Unread(s_rx_queue) # {} THEN {"overlap"} ELSE {})
            \cup (IF s_upd_state \in {"UPD_IDLE", "REQUEST_JSON"} THEN {} ELSE {"again"})
  BY DEF StartOpen, inverter
<1>3. boot.at = "app" /\ Unread(s_rx_queue) = {}
  BY <1>2 DEF Sound
<1>4. \A F : "sdo" \notin F => ~Queued(F)'
  <2> SUFFICES ASSUME NEW F, "sdo" \notin F, NEW i \in DOMAIN s_rx_queue, s_rx_queue[i] \in F PROVE FALSE
    BY <1>2 DEF Queued
  <2>1. i \in {j \in DOMAIN s_rx_queue : s_rx_queue[j] # "sdo"}
    OBVIOUS
  <2>2. QED
    BY <1>3, <2>1 DEF Unread
<1>5. ~Transfer' /\ Sizes' = {} /\ ~Committed'
  BY <1>2, <1>3 DEF Transfer, Sizes, Committed
<1>6. Pending'
  BY <1>2 DEF Pending
<1>7. /\ \A F \in {{"magic"}, {"S"}, {"C"}, {"E", "D"}, {"P", "E"}, Questions} : ~Queued(F)'
      /\ \A A : \A B \in {Questions, Questions \ {"P"}} : ~Followed(A, B)'
  BY <1>4, FollowedQueued DEF Questions
<1>8. IdentInv'
  BY <1>5, <1>7 DEF IdentInv
<1>9. EarlyInv'
  BY <1>1, <1>2, <1>3, <1>7 DEF EarlyInv, EarlyBus
<1>10. AskedInv'
  BY <1>7 DEF AskedInv
<1>11. KeptInv'
  BY <1>2, <1>6 DEF KeptInv
<1>12. QED
  BY <1>2, <1>5, <1>8, <1>9, <1>10, <1>11 DEF SoundInv, SizeInv, TransferInv, SendInv, CheckInv

LEMMA MagicKeeps ==
    ASSUME UpdateTypeOK, SoundInv, StartMagic
    PROVE  SoundInv'
<1>1. IdentInv /\ EarlyInv /\ SizeInv /\ TransferInv /\ KeptInv
  BY DEF SoundInv
<1>2. /\ UNCHANGED <<s_update_file, s_current_byte, s_update_crc, s_rx_queue, bus, boot, flash, installed>>
      /\ s_upd_state' = "SEND_MAGIC" /\ s_current_page' = 0
      /\ http.at = "magic" /\ http' = NoHttp /\ ui'.file = http.file
  BY DEF StartMagic, inverter
<1>3. RxOK
  BY DEF UpdateTypeOK, RxOK
<1>4. /\ \A F : Queued(F)' <=> Queued(F)
      /\ \A A, B : Followed(A, B)' <=> Followed(A, B)
  BY <1>2, <1>3, SameRx
<1>5. /\ Sizes' = Sizes /\ (Transfer' <=> Transfer) /\ (Committed' <=> Committed)
      /\ \A U : OnBus(U)' <=> OnBus(U)
  BY <1>2 DEF Sizes, Transfer, Committed, OnBus
<1>6. Pending /\ ~Pending' /\ Hears
  BY <1>2 DEF Pending, Hears, NoHttp
<1>7. IdentInv'
  BY <1>1, <1>2, <1>4, <1>5, <1>6 DEF IdentInv
<1>8. EarlyInv'
  BY <1>1, <1>2, <1>4, <1>6 DEF EarlyInv, EarlyBus
<1>9. SizeInv'
  BY <1>1, <1>2, <1>5 DEF SizeInv
<1>10. TransferInv'
  <2>1. \A f, k : Written(f, k)' <=> Written(f, k)
    BY <1>2 DEF Written
  <2>2. QED
    BY <1>1, <1>2, <1>5, <2>1 DEF TransferInv, TransferOK, OneFrame, RightCrc
<1>11. KeptInv'
  BY <1>1, <1>2, <1>6 DEF KeptInv
<1>12. QED
  BY <1>2, <1>7, <1>8, <1>9, <1>10, <1>11 DEF SoundInv, AskedInv, SendInv, CheckInv

-----------------------------------------------------------------------------
(* The inverter.                                                           *)

\* The bootloader speaks first, with no identification on its way.
LEMMA FirstKeeps ==
    ASSUME UpdateTypeOK, SoundInv, Sound', BusOK', ~OnBus({"id"})', boot'.at = "magic", Says(<<"magic">>),
           UNCHANGED <<client, http, ui, flash, installed>>
    PROVE  SoundInv'
<1>1. IdentInv /\ EarlyInv /\ AskedInv /\ KeptInv
  BY DEF SoundInv
<1>2. RxOK /\ "magic" \in Replies /\ <<"magic">> \in Seq(Replies) /\ "magic" \notin Questions
  BY DEF UpdateTypeOK, RxOK, Replies, Questions
<1>3. /\ \A F : Queued(F)' => Queued(F) \/ "magic" \in F
      /\ \A A, B : Followed(A, B)' => Followed(A, B) \/ (Queued(A) /\ "magic" \in B)
      /\ Queued({"E"}) => Queued({"E"})'
  BY <1>2, SayOne, SaysKeeps
<1>4. ~Transfer' /\ Sizes' = {} /\ ~Committed'
  <2>1. DOMAIN bus' = 1..Len(bus') /\ Len(bus') \in Nat
    BY DEF BusOK
  <2>2. \A k \in DOMAIN bus' : \A i \in 1..(k - 1) : i \in DOMAIN bus'
    BY <2>1
  <2>3. QED
    BY <2>2 DEF Sizes, OnBus, Transfer, Committed
<1>5. /\ s_upd_state' = s_upd_state /\ s_current_page' = s_current_page /\ s_update_file' = s_update_file
      /\ http' = http /\ ui' = ui /\ (Pending' <=> Pending) /\ (Hears' <=> Hears)
  BY DEF client, Pending, Hears
<1>6. IdentInv'
  BY <1>1, <1>2, <1>3, <1>4, <1>5 DEF IdentInv
<1>7. EarlyInv'
  BY <1>1, <1>3, <1>5 DEF EarlyInv
<1>8. AskedInv'
  <2>1. \A F \in {Questions, Questions \ {"P"}, {"E", "D"}, {"C"}} : "magic" \notin F
    BY DEF Questions
  <2>2. QED
    BY <1>1, <1>3, <1>5, <2>1 DEF AskedInv
<1>9. KeptInv'
  BY <1>1, <1>3, <1>5 DEF KeptInv, Written
<1>10. QED
  BY <1>4, <1>6, <1>7, <1>8, <1>9 DEF SoundInv, SizeInv, TransferInv, SendInv, CheckInv

LEMMA CycleKeeps ==
    ASSUME UpdateTypeOK, SoundInv, Sound', PowerCycle
    PROVE  SoundInv'
<1>1. BusOK' /\ ~OnBus({"id"})'
  BY DEF PowerCycle, BusOK, OnBus
<1>2. QED
  BY <1>1, FirstKeeps DEF PowerCycle, InverterFrame, browser

Serving(frame) ==
    /\ UpdateTypeOK /\ SoundInv /\ Sound'
    /\ bus # <<>> /\ frame = Head(bus) /\ bus' = Tail(bus)
    /\ UNCHANGED <<client, http, ui>>

LEMMA ServingBus ==
    ASSUME NEW frame, Serving(frame)
    PROVE  /\ RxOK /\ BusOK /\ BusOK' /\ frame \in BusFrames /\ 1 \in DOMAIN bus /\ bus[1] = frame
           /\ \A U : OnBus(U) <=> frame.type \in U \/ OnBus(U)'
           /\ s_upd_state' = s_upd_state /\ s_update_file' = s_update_file
           /\ s_current_page' = s_current_page /\ s_current_byte' = s_current_byte
           /\ s_update_crc' = s_update_crc /\ http' = http /\ ui' = ui
           /\ (Pending' <=> Pending) /\ (Hears' <=> Hears)
           /\ IdentInv /\ EarlyInv /\ SizeInv /\ TransferInv /\ AskedInv /\ SendInv /\ CheckInv /\ KeptInv
           /\ installed = <<>> \/ \E f \in Files : installed = Image(f)
<1>1. RxOK /\ BusOK
  BY DEF Serving, UpdateTypeOK, RxOK, BusOK
<1>2. /\ BusOK' /\ frame \in BusFrames /\ 1 \in DOMAIN bus /\ bus[1] = frame
      /\ \A U : OnBus(U) <=> frame.type \in U \/ OnBus(U)'
  BY <1>1, TakeBus DEF Serving
<1>3. QED
  BY <1>1, <1>2 DEF Serving, SoundInv, client, Pending, Hears

LEMMA ResetKeeps ==
    ASSUME NEW frame, Serving(frame), HeedReset(frame)
    PROVE  SoundInv'
<1>1. ~OnBus({"id"})'
  BY ServingBus, ShiftFrames DEF Serving, HeedReset, EarlyInv
<1>2. boot'.at = "magic"
  BY DEF HeedReset, Serving, UpdateTypeOK
<1>3. QED
  BY <1>1, <1>2, FirstKeeps, ServingBus DEF Serving, HeedReset

\* A request is answered, or a frame has no effect.
LEMMA ReadKeeps ==
    ASSUME NEW frame, Serving(frame), HeedRead(frame) \/ Ignored(frame)
    PROVE  SoundInv'
<1>1. QuietFrame
  BY ServingBus DEF HeedRead, Ignored, QuietFrame
<1>2. Dropped
  <2>1. CASE HeedRead(frame)
    <3>1. "sdo" \in Replies /\ <<"sdo">> \in Seq(Replies)
      BY DEF Replies
    <3>2. /\ \A F : Queued(F)' => Queued(F) \/ "sdo" \in F
          /\ \A A, B : Followed(A, B)' => Followed(A, B) \/ (Queued(A) /\ "sdo" \in B)
          /\ Queued({"E"}) => Queued({"E"})'
      BY <2>1, <3>1, SayOne, SaysKeeps, ServingBus DEF HeedRead, Serving
    <3>3. QED
      BY <3>2 DEF Dropped
  <2>2. CASE Ignored(frame)
    BY <2>2, SameDrops, ServingBus DEF Ignored
  <2>3. QED
    BY <2>1, <2>2
<1>3. BusKeeps
  BY <1>1, IgnoredKeeps, ServingBus DEF Serving
<1>4. QED
  BY <1>1, <1>2, <1>3, QuietStep DEF Serving

\* What the bootloader says, if it says one thing.
LEMMA ServingSays ==
    ASSUME NEW frame, Serving(frame), NEW q \in {"S", "P", "C", "D"}, Says(<<q>>)
    PROVE  /\ \A F : Queued(F)' => Queued(F) \/ q \in F
           /\ \A A, B : Followed(A, B)' => Followed(A, B) \/ (Queued(A) /\ q \in B)
           /\ Queued({"E"}) => Queued({"E"})'
<1>1. q \in Replies /\ <<q>> \in Seq(Replies)
  BY DEF Replies, Questions
<1>2. QED
  BY <1>1, SayOne, SaysKeeps, ServingBus DEF Serving

LEMMA IdKeeps ==
    ASSUME NEW frame, Serving(frame), HeedId(frame)
    PROVE  SoundInv'
<1>1. /\ boot.at = "magic" /\ boot'.at = "size" /\ frame.type = "id"
      /\ flash' = flash /\ installed' = installed /\ Says(<<"S">>)
  BY DEF HeedId, Serving, UpdateTypeOK
<1>2. /\ \A F : Queued(F)' => Queued(F) \/ "S" \in F
      /\ \A A, B : Followed(A, B)' => Followed(A, B) \/ (Queued(A) /\ "S" \in B)
      /\ Queued({"E"}) => Queued({"E"})'
  BY <1>1, ServingSays
<1>3. SizeInv' /\ (Sizes' # {} => Sizes # {})
  BY <1>1, ServingBus, ShiftSizes DEF Serving
<1>4. ~Transfer /\ ~Transfer' /\ (Committed' => Committed)
  BY <1>1, <1>3 DEF Transfer, Committed
<1>5. OnBus({"id"})
  BY <1>1, ServingBus
<1>6. IdentInv'
  BY <1>1, <1>2, <1>4, ServingBus DEF IdentInv, Questions
<1>7. EarlyInv'
  <2>1. ~(s_upd_state = "SEND_MAGIC" /\ Pending)
    BY <1>1, <1>5, ServingBus DEF EarlyInv
  <2>2. ~(s_upd_state = "SEND_SIZE" /\ Pending /\ Followed({"S"}, {"magic"}))
    BY <1>1, <1>5, ServingBus DEF EarlyInv
  <2>3. Followed({"S"}, {"magic"})' => Followed({"S"}, {"magic"})
    BY <1>2
  <2>4. QED
    BY <1>1, <2>1, <2>2, <2>3, ServingBus DEF EarlyInv
<1>8. AskedInv'
  BY <1>2, ServingBus DEF AskedInv, Questions
<1>9. SendInv'
  BY <1>2, <1>4, ServingBus DEF SendInv, PageSent, Questions
<1>10. CheckInv'
  BY <1>4, ServingBus DEF CheckInv
<1>11. KeptInv'
  BY <1>1, <1>2, ServingBus DEF KeptInv, Written
<1>12. QED
  BY <1>1, <1>3, <1>4, <1>6, <1>7, <1>8, <1>9, <1>10, <1>11, ServingBus DEF SoundInv, TransferInv

LEMMA SizeKeeps ==
    ASSUME NEW frame, Serving(frame), HeedSize(frame)
    PROVE  SoundInv'
<1>1. /\ boot.at = "size" /\ boot' = [at |-> "page", pages |-> frame.v, page |-> 0, buf |-> <<>>]
      /\ frame.type = "size" /\ flash' = flash /\ installed' = installed /\ Says(<<"P">>)
  BY DEF HeedSize
<1>2. /\ \A F : Queued(F)' => Queued(F) \/ "P" \in F
      /\ \A A, B : Followed(A, B)' => Followed(A, B) \/ (Queued(A) /\ "P" \in B)
      /\ Queued({"E"}) => Queued({"E"})'
  BY <1>1, ServingSays
<1>3. 1 \in Sizes /\ Committed /\ ~Transfer /\ Transfer' /\ Committed' /\ Sizes' = {}
  BY <1>1, ServingBus DEF Sizes, Committed, Transfer
<1>4. /\ s_update_file \in Files /\ frame.v = PagesOf(s_update_file)
      /\ \A j \in DOMAIN bus : j > 1 => bus[j].type \in {"read", "reset"}
  BY <1>3, ServingBus DEF SizeInv
<1>5. \A k \in DOMAIN bus' : bus'[k].type \in {"read", "reset"}
  <2> SUFFICES ASSUME NEW k \in DOMAIN bus' PROVE bus'[k].type \in {"read", "reset"}
    OBVIOUS
  <2>1. k + 1 \in DOMAIN bus /\ bus'[k] = bus[k + 1] /\ k \in Nat \ {0}
    BY ServingBus, TakeBus DEF Serving
  <2>2. k + 1 > 1
    BY <2>1
  <2>3. QED
    BY <1>4, <2>1, <2>2
<1>6. \A U : U \cap {"read", "reset"} = {} => ~OnBus(U)'
  BY <1>5 DEF OnBus
<1>7. /\ ~OnBus({"id", "size"})' /\ ~OnBus({"id"})' /\ ~OnBus({"crc"})' /\ ~OnBus({"data"})'
      /\ ~OnBus({"data", "crc"})' /\ OneFrame' /\ RightCrc'
  BY <1>5, <1>6 DEF OneFrame, RightCrc
<1>8. s_upd_state \in {"SEND_MAGIC", "SEND_PAGE"}
  BY <1>3, ServingBus DEF IdentInv, CheckInv
<1>9. s_upd_state = "SEND_PAGE" =>
         PageSent /\ s_current_page = 0 /\ s_update_crc = <<>> /\ ~Queued(Questions)
  BY <1>3, ServingBus DEF SendInv
<1>10. Hears => ~Queued({"magic"})
  BY <1>3, ServingBus DEF IdentInv
<1>11. IdentInv'
  BY <1>2, <1>8, <1>10, ServingBus DEF IdentInv
<1>12. EarlyInv'
  BY <1>1, <1>2, <1>7, <1>8, ServingBus DEF EarlyInv
<1>13. SizeInv'
  BY <1>3 DEF SizeInv
<1>14. TransferInv'
  <2>1. frame.v \in Nat /\ 0 < frame.v
    BY <1>4, PagesType
  <2>2. Len(boot'.buf) = 0 /\ 0 < PageChunks /\ 0..(boot'.page - 1) = {}
    BY <1>1
  <2>3. QED
    BY <1>1, <1>4, <1>7, <2>1, <2>2, ServingBus DEF TransferInv, TransferOK
<1>15. ASSUME s_upd_state = "SEND_PAGE"
       PROVE  /\ \A F : F \subseteq Questions /\ Queued(F)' => "P" \in F
              /\ \A A, B : A \subseteq Questions => ~Followed(A, B)'
  BY <1>2, <1>9, <1>15, FollowedQueued
<1>16. AskedInv'
  BY <1>8, <1>15, ServingBus DEF AskedInv, Questions
<1>17. SendInv'
  <2>1. s_upd_state = "SEND_PAGE" => PageSent' /\ Len(s_update_crc') = 0
    <3>1. PageSent => PageSent'
      BY ServingBus DEF PageSent
    <3>2. s_update_crc = <<>> => Len(s_update_crc') = 0
      BY ServingBus
    <3>3. QED
      BY <1>9, <3>1, <3>2
  <2>2. boot'.at = "page" /\ boot'.page = 0 /\ Len(boot'.buf) = 0
    BY <1>1
  <2>3. s_upd_state = "SEND_PAGE" => ~Queued({"C"})'
    BY <1>15 DEF Questions
  <2>4. QED
    BY <1>3, <1>7, <1>9, <2>1, <2>2, <2>3, ServingBus DEF SendInv
<1>18. KeptInv'
  BY <1>1, <1>2, <1>8, ServingBus DEF KeptInv, Written
<1>19. QED
  BY <1>1, <1>8, <1>11, <1>12, <1>13, <1>14, <1>16, <1>17, <1>18, ServingBus DEF SoundInv, CheckInv

\* The frame of a transfer was the only one, and no other begins.
LEMMA PartTaken ==
    ASSUME NEW frame, Serving(frame), Transfer, frame.type \in {"data", "crc"}
    PROVE  /\ ~OnBus({"id", "size"})' /\ ~OnBus({"id"})' /\ ~OnBus({"size"})' /\ ~OnBus({"crc"})'
           /\ ~OnBus({"data"})' /\ ~OnBus({"data", "crc"})' /\ OneFrame' /\ RightCrc' /\ Sizes' = {}
           /\ Committed /\ (Hears => ~Queued({"magic"})) /\ TransferOK
<1>1. TransferOK
  BY ServingBus DEF TransferInv
<1>2. ~OnBus({"data", "crc"})'
  BY <1>1, ServingBus, ShiftFrames DEF TransferOK, Serving
<1>3. ~OnBus({"id", "size"})'
  BY <1>1, ServingBus DEF TransferOK
<1>4. /\ \A i \in DOMAIN bus' : bus'[i].type \notin {"data", "crc", "id", "size"}
      /\ ~OnBus({"id"})' /\ ~OnBus({"size"})' /\ ~OnBus({"crc"})' /\ ~OnBus({"data"})'
  BY <1>2, <1>3 DEF OnBus
<1>5. OneFrame' /\ RightCrc' /\ Sizes' = {}
  BY <1>4 DEF OneFrame, RightCrc, Sizes
<1>6. Committed /\ (Hears => ~Queued({"magic"}))
  BY ServingBus DEF Committed, IdentInv
<1>7. QED
  BY <1>1, <1>2, <1>3, <1>4, <1>5, <1>6

LEMMA DataKeeps ==
    ASSUME NEW frame, Serving(frame), HeedData(frame)
    PROVE  SoundInv'
<1>1. PICK chunk : TakeChunk(chunk)
  BY DEF HeedData
<1> DEFINE n == Len(boot.buf)
           full == Len(Append(boot.buf, chunk)) = PageChunks
           q == IF full THEN "C" ELSE "P"
<1>2. boot.at = "page" /\ frame.type = "data" /\ Transfer
  BY DEF HeedData, Transfer
<1>3. /\ n \in Nat /\ n < PageChunks /\ Len(Append(boot.buf, chunk)) = n + 1
  <2>1. n < PageChunks
    BY <1>2, PartTaken DEF TransferOK
  <2>2. n \in Nat /\ Len(Append(boot.buf, chunk)) = n + 1
    BY DEF Serving, UpdateTypeOK
  <2>3. QED
    BY <2>1, <2>2
<1>4. /\ boot'.pages = boot.pages /\ boot'.page = boot.page /\ boot'.buf = Append(boot.buf, chunk)
      /\ boot'.at = (IF full THEN "crc" ELSE "page")
      /\ flash' = flash /\ installed' = installed /\ q \in {"P", "C"} /\ Says(<<q>>)
  BY <1>1 DEF TakeChunk, Serving, UpdateTypeOK
<1>5. /\ Len(boot'.buf) = n + 1 /\ (full <=> n + 1 = PageChunks)
      /\ IF boot'.at = "page" THEN n + 1 < PageChunks ELSE n + 1 = PageChunks
  BY <1>3, <1>4
<1>6. (q = "P" => boot'.at = "page") /\ (q = "C" => boot'.at = "crc") /\ boot'.at \in {"page", "crc"}
  BY <1>4
<1> HIDE DEF n, full, q
<1>7. /\ \A F : Queued(F)' => Queued(F) \/ q \in F
      /\ \A A, B : Followed(A, B)' => Followed(A, B) \/ (Queued(A) /\ q \in B)
      /\ Queued({"E"}) => Queued({"E"})'
  BY <1>4, ServingSays
<1>8. Transfer' /\ Committed' /\ Committed /\ boot'.at # "app"
  BY <1>2, <1>6 DEF Transfer, Committed
<1>9. s_upd_state \in {"SEND_MAGIC", "SEND_PAGE"}
  BY <1>2, <1>8, ServingBus DEF IdentInv, CheckInv
<1>10. s_upd_state = "SEND_PAGE" =>
          /\ PageSent /\ s_current_page = boot.page /\ Len(s_update_crc) = n + 1 /\ ~Queued(Questions)
  <2>1. OnBus({"data"}) /\ OnBus({"data", "crc"})
    BY <1>2, ServingBus
  <2>2. QED
    BY <1>2, <1>8, <2>1, ServingBus DEF SendInv, n
<1>11. IdentInv'
  BY <1>2, <1>4, <1>7, <1>9, PartTaken, ServingBus DEF IdentInv
<1>12. EarlyInv'
  BY <1>2, <1>4, <1>7, <1>8, <1>9, PartTaken, ServingBus DEF EarlyInv
<1>13. SizeInv'
  BY <1>2, PartTaken DEF SizeInv
<1>14. TransferInv'
  BY <1>2, <1>4, <1>5, PartTaken, ServingBus DEF TransferInv, TransferOK, Written
<1>15. ASSUME s_upd_state = "SEND_PAGE"
       PROVE  /\ \A F : F \subseteq Questions /\ Queued(F)' => q \in F
              /\ \A A, B : A \subseteq Questions => ~Followed(A, B)'
  BY <1>7, <1>10, <1>15, FollowedQueued
<1>16. AskedInv'
  BY <1>4, <1>9, <1>15, ServingBus DEF AskedInv, Questions
<1>17. SendInv'
  <2>1. s_upd_state = "SEND_PAGE" => PageSent' /\ Len(s_update_crc') = Len(boot'.buf)
    BY <1>5, <1>10, ServingBus DEF PageSent
  <2>2. s_upd_state = "SEND_PAGE" /\ Queued({"P"})' => boot'.at = "page"
    BY <1>6, <1>15 DEF Questions
  <2>3. s_upd_state = "SEND_PAGE" /\ Queued({"C"})' => boot'.at = "crc" /\ Len(boot'.buf) = PageChunks
    BY <1>5, <1>6, <1>15 DEF Questions
  <2>4. QED
    BY <1>2, <1>4, <1>8, <1>10, <2>1, <2>2, <2>3, PartTaken, ServingBus DEF SendInv
<1>18. KeptInv'
  BY <1>4, <1>7, <1>9, ServingBus DEF KeptInv, Written
<1>19. QED
  BY <1>4, <1>9, <1>11, <1>12, <1>13, <1>14, <1>16, <1>17, <1>18, ServingBus DEF SoundInv, CheckInv

LEMMA AcceptKeeps ==
    ASSUME NEW frame, Serving(frame), HeedCrc(frame), AcceptPage, frame.v = boot.buf
    PROVE  SoundInv'
<1> DEFINE more == boot.page + 1 < boot.pages
           q == IF more THEN "P" ELSE "D"
           old == boot.page
<1>1. boot.at = "crc" /\ frame.type = "crc" /\ Transfer /\ Committed
  BY DEF HeedCrc, Transfer, Committed
<1>2. /\ s_update_file \in Files /\ boot.pages = PagesOf(s_update_file) /\ boot.pages \in Nat
      /\ old \in Nat /\ old < boot.pages /\ \A k \in 0..(old - 1) : Written(s_update_file, k)
      /\ boot.buf = PageOf(s_update_file, old)
  <2>1. TransferOK
    BY <1>1, ServingBus DEF TransferInv
  <2>2. boot.pages \in Nat /\ old \in Nat
    BY DEF Serving, UpdateTypeOK
  <2>3. frame.v = PageOf(s_update_file, old)
    BY <1>1, <2>1, ServingBus DEF TransferOK, RightCrc
  <2>4. QED
    BY <2>1, <2>2, <2>3 DEF TransferOK
<1>3. /\ flash' = [k \in (DOMAIN flash) \cup {old} |-> IF k = old THEN boot.buf ELSE flash[k]]
      /\ Says(<<q>>) /\ q \in {"P", "D"} /\ boot'.pages = boot.pages
      /\ more => /\ boot'.at = "page" /\ boot'.page = old + 1 /\ boot'.buf = <<>> /\ q = "P"
                 /\ installed' = installed
      /\ ~more => /\ boot'.at = "app" /\ q = "D" /\ installed' = [k \in 1 .. boot.pages |-> flash'[k - 1]]
  BY DEF AcceptPage, Serving, UpdateTypeOK
<1>4. \A k : (Written(s_update_file, k) \/ k = old) => Written(s_update_file, k)'
  BY <1>2, <1>3, ServingBus DEF Written
<1>5. /\ ~more => old = boot.pages - 1
      /\ (boot'.at = "page" <=> more) /\ (boot'.at = "app" <=> ~more)
  BY <1>2, <1>3
<1> HIDE DEF more, q
<1>6. /\ \A F : Queued(F)' => Queued(F) \/ q \in F
      /\ \A A, B : Followed(A, B)' => Followed(A, B) \/ (Queued(A) /\ q \in B)
      /\ Queued({"E"}) => Queued({"E"})'
  BY <1>3, ServingSays
<1>7. s_upd_state \in {"SEND_MAGIC", "CHECK_CRC"}
  BY <1>1, ServingBus DEF IdentInv, SendInv
<1>8. s_upd_state = "CHECK_CRC" =>
          s_current_page = old /\ s_current_byte = (s_current_page + 1) * PageChunks /\ ~Queued(Questions)
  BY <1>1, ServingBus DEF CheckInv
<1>9. (Transfer' <=> more) /\ (Committed' => more)
  BY <1>1, <1>3, <1>5, PartTaken DEF Transfer, Committed
<1>10. IdentInv'
  BY <1>1, <1>3, <1>6, <1>7, PartTaken, ServingBus DEF IdentInv
<1>11. ASSUME s_upd_state = "CHECK_CRC"
       PROVE  /\ \A F : F \subseteq Questions /\ Queued(F)' => q \in F
              /\ \A A, B : A \subseteq Questions => ~Followed(A, B)'
  BY <1>6, <1>8, <1>11, FollowedQueued
<1>12. EarlyInv'
  <2>1. EarlyBus'
    BY <1>1, PartTaken DEF EarlyBus, OnBus
  <2>2. boot'.at = "app" /\ s_upd_state = "CHECK_CRC" => ~Queued({"P", "E"})'
    BY <1>3, <1>5, <1>11 DEF Questions
  <2>3. Queued({"S"})' => Queued({"S"})
    BY <1>3, <1>6
  <2>4. QED
    BY <1>1, <1>7, <2>1, <2>2, <2>3, PartTaken, ServingBus DEF EarlyInv
<1>13. SizeInv'
  BY <1>1, PartTaken DEF SizeInv
<1>14. TransferInv'
  <2>1. ASSUME more PROVE \A k \in 0..(boot'.page - 1) : Written(s_update_file, k)'
    <3>1. \A k \in 0..((old + 1) - 1) : k \in 0..(old - 1) \/ k = old
      BY <1>2
    <3>2. QED
      BY <1>2, <1>3, <1>4, <2>1, <3>1
  <2>2. more => boot'.page < boot'.pages /\ Len(boot'.buf) < PageChunks
    BY <1>3 DEF more
  <2>3. QED
    BY <1>1, <1>2, <1>3, <1>5, <1>9, <2>1, <2>2, PartTaken, ServingBus DEF TransferInv, TransferOK
<1>15. AskedInv'
  BY <1>3, <1>7, <1>11, ServingBus DEF AskedInv, Questions
<1>16. CheckInv'
  <2>1. more /\ s_upd_state = "CHECK_CRC" => /\ ~Queued({"D"})' /\ ~Queued({"E"})'
                                             /\ boot'.page = s_current_page + 1
    BY <1>3, <1>8, <1>11 DEF Questions
  <2>2. QED
    BY <1>1, <1>3, <1>8, <1>9, <2>1, PartTaken, ServingBus DEF CheckInv
<1>17. KeptInv'
  <2>1. s_update_file \in {IF Pending THEN http.file ELSE ui.file, NoFile}
    BY ServingBus DEF KeptInv
  <2>2. ~Pending => s_update_file = ui.file
    BY <1>2, <2>1
  <2>3. ~Pending => \A k \in 0..(s_current_page - 1) : Written(ui.file, k)'
    BY <1>4, <2>2, ServingBus DEF KeptInv
  <2>4. ~Pending /\ s_upd_state = "CHECK_CRC" => Written(ui.file, s_current_page)'
    BY <1>4, <1>8, <2>2, ServingBus
  <2>5. (\A f, k : Written(f, k)' <=> (k \in DOMAIN flash' /\ flash'[k] = PageOf(f, k)))
    BY DEF Written
  <2>6. QED
    BY <2>1, <2>3, <2>4, <2>5, ServingBus DEF KeptInv, Written
<1>18. installed' = <<>> \/ \E f \in Files : installed' = Image(f)
  <2>1. CASE more
    BY <1>3, <2>1, ServingBus
  <2>2. CASE ~more
    <3>1. ASSUME NEW k \in 1..boot.pages PROVE flash'[k - 1] = PageOf(s_update_file, k - 1)
      <4>1. k - 1 \in 0..(old - 1) \/ k - 1 = old
        BY <1>2, <1>5, <2>2
      <4>2. Written(s_update_file, k - 1)'
        BY <1>2, <1>4, <4>1
      <4>3. QED
        BY <4>2, ServingBus DEF Written
    <3>2. installed' = [k \in 1..boot.pages |-> PageOf(s_update_file, k - 1)]
      BY <1>3, <2>2, <3>1
    <3>3. installed' = Image(s_update_file)
      BY <1>2, <3>2 DEF Image
    <3>4. QED
      BY <1>2, <3>3
  <2>3. QED
    BY <2>1, <2>2
<1>19. SendInv'
  BY <1>7, ServingBus DEF SendInv
<1>20. QED
  BY <1>10, <1>12, <1>13, <1>14, <1>15, <1>16, <1>17, <1>18, <1>19 DEF SoundInv

LEMMA RejectKeeps ==
    ASSUME NEW frame, Serving(frame), HeedCrc(frame), RejectPage
    PROVE  SoundInv'
<1>1. boot.at = "crc" /\ frame.type = "crc" /\ Transfer
  BY DEF HeedCrc, Transfer
<1>2. /\ boot'.at = "page" /\ boot'.pages = boot.pages /\ boot'.page = boot.page /\ boot'.buf = <<>>
      /\ flash' = flash /\ installed' = installed /\ Says(<<"E", "P">>)
  BY DEF RejectPage, Serving, UpdateTypeOK
<1>3. /\ \A F : Queued(F)' => Queued(F) \/ "E" \in F \/ "P" \in F
      /\ \A A, B : Followed(A, B)' =>
            Followed(A, B) \/ (Queued(A) /\ ("E" \in B \/ "P" \in B)) \/ ("E" \in A /\ "P" \in B)
      /\ Queued({"P"})' /\ ~Queued({"P"}) => Queued({"E"})'
  BY <1>2, SayError, ServingBus
<1>4. Transfer' /\ Committed' /\ Committed /\ boot'.at # "app"
  BY <1>1, <1>2 DEF Transfer, Committed
<1>5. s_upd_state \in {"SEND_MAGIC", "CHECK_CRC"}
  BY <1>1, <1>4, ServingBus DEF IdentInv, SendInv
<1>6. s_upd_state = "CHECK_CRC" =>
          /\ s_current_page = boot.page /\ s_current_byte = (s_current_page + 1) * PageChunks
          /\ ~Queued(Questions) /\ ~Queued({"P"}) /\ ~Queued({"D"}) /\ ~Queued({"C"})
  <2>1. s_upd_state = "CHECK_CRC" =>
          /\ s_current_page = boot.page /\ s_current_byte = (s_current_page + 1) * PageChunks
          /\ ~Queued(Questions)
    BY <1>1, <1>4, ServingBus DEF CheckInv
  <2>2. ~Queued(Questions) => ~Queued({"P"}) /\ ~Queued({"D"}) /\ ~Queued({"C"})
    BY FollowedQueued DEF Questions
  <2>3. QED
    BY <2>1, <2>2
<1>7. IdentInv'
  BY <1>1, <1>2, <1>3, <1>5, PartTaken, ServingBus DEF IdentInv
<1>8. EarlyInv'
  BY <1>1, <1>2, <1>3, <1>4, <1>5, PartTaken, ServingBus DEF EarlyInv
<1>9. SizeInv'
  BY <1>1, PartTaken DEF SizeInv
<1>10. TransferInv'
  <2>1. Len(boot'.buf) = 0 /\ 0 < PageChunks
    BY <1>2
  <2>2. QED
    BY <1>1, <1>2, <2>1, PartTaken, ServingBus DEF TransferInv, TransferOK, Written
<1>11. AskedInv'
  <2>1. s_upd_state = "CHECK_CRC" =>
           /\ ~Followed(Questions, Questions \ {"P"})' /\ ~Followed(Questions \ {"E"}, Questions)'
           /\ ~Queued({"C"})'
    <3> SUFFICES ASSUME s_upd_state = "CHECK_CRC"
                 PROVE  /\ ~Followed(Questions, Questions \ {"P"})' /\ ~Followed(Questions \ {"E"}, Questions)'
                        /\ ~Queued({"C"})'
      OBVIOUS
    <3>1. \A A, B : A \subseteq Questions => ~Queued(A) /\ ~Followed(A, B)
      BY <1>6, FollowedQueued
    <3>2. QED
      BY <1>3, <1>6, <3>1
  <2>2. QED
    BY <1>5, <2>1, ServingBus DEF AskedInv
<1>12. CheckInv'
  BY <1>1, <1>2, <1>3, <1>4, <1>6, PartTaken, ServingBus DEF CheckInv
<1>13. KeptInv'
  BY <1>2, <1>3, <1>6, ServingBus DEF KeptInv, Written
<1>14. SendInv'
  BY <1>5, ServingBus DEF SendInv
<1>15. QED
  BY <1>2, <1>7, <1>8, <1>9, <1>10, <1>11, <1>12, <1>13, <1>14, ServingBus DEF SoundInv

LEMMA ServeKeeps ==
    ASSUME UpdateTypeOK, SoundInv, Sound', Serve
    PROVE  SoundInv'
<1> DEFINE frame == Head(bus)
<1>1. Serving(frame)
  BY DEF Serve, InverterFrame, browser, Serving
<1>2. \/ HeedReset(frame) \/ HeedRead(frame) \/ HeedId(frame) \/ HeedSize(frame)
      \/ HeedData(frame) \/ HeedCrc(frame) \/ Ignored(frame)
  BY DEF Serve
<1>3. HeedCrc(frame) => (AcceptPage /\ frame.v = boot.buf) \/ RejectPage
  BY DEF HeedCrc
<1> HIDE DEF frame
<1>4. QED
  BY <1>1, <1>2, <1>3, ResetKeeps, ReadKeeps, IdKeeps, SizeKeeps, DataKeeps, AcceptKeeps, RejectKeeps

-----------------------------------------------------------------------------
(* The invariant.                                                          *)

LEMMA InitInv == UpdateInit => UpdateInv
<1> SUFFICES ASSUME UpdateInit PROVE UpdateInv
  OBVIOUS
<1>1. UpdateTypeOK
  BY DEF UpdateInit, UpdateTypeOK, NoHttp
<1>2. /\ \A F : ~Queued(F)
      /\ \A A, B : ~Followed(A, B)
      /\ \A U : ~OnBus(U)
      /\ Sizes = {} /\ ~Transfer /\ ~Committed /\ ~Pending
  BY DEF UpdateInit, Queued, Followed, OnBus, Sizes, Transfer, Committed, Pending, NoHttp
<1>3. s_upd_state = "UPD_IDLE" /\ s_current_page = 0 /\ s_update_file = NoFile /\ installed = <<>> /\ bus = <<>>
  BY DEF UpdateInit
<1>4. IdentInv /\ EarlyInv /\ SizeInv /\ TransferInv /\ AskedInv /\ SendInv /\ CheckInv /\ KeptInv
  BY <1>2, <1>3 DEF IdentInv, EarlyInv, EarlyBus, SizeInv, TransferInv, AskedInv, SendInv, CheckInv, KeptInv
<1>5. QED
  BY <1>1, <1>3, <1>4 DEF UpdateInv, SoundInv

LEMMA SoundStays == UpdateNext => amiss \subseteq amiss'
<1>1. Serve => amiss \subseteq amiss'
  BY DEF Serve, HeedReset, HeedRead, HeedId, HeedSize, HeedData, TakeChunk, HeedCrc, AcceptPage, RejectPage,
         Ignored, Says
<1>2. PowerCycle => amiss \subseteq amiss'
  BY DEF PowerCycle, Says
<1>3. Loop => amiss \subseteq amiss'
  BY DEF Loop, LoopUpdate, HandleUpdate, LoopSdo, LoopEmpty, LoopEnd
<1>4. Http => amiss \subseteq amiss'
  BY DEF Http, StartOpen, StartReset, StartMagic, StepAsk, StepReturn, OtherAsk, OtherEnd
<1>5. QED
  BY <1>1, <1>2, <1>3, <1>4 DEF UpdateNext

LEMMA SameKeeps == UpdateInv /\ UNCHANGED vars => UpdateInv'
<1> SUFFICES ASSUME UpdateInv, UNCHANGED vars PROVE UpdateInv'
  OBVIOUS
<1>1. /\ s_upd_state' = s_upd_state /\ s_update_file' = s_update_file /\ s_current_page' = s_current_page
      /\ s_current_byte' = s_current_byte /\ s_update_crc' = s_update_crc /\ http' = http /\ ui' = ui
      /\ s_rx_queue' = s_rx_queue /\ bus' = bus /\ boot' = boot /\ flash' = flash /\ installed' = installed
      /\ amiss' = amiss
  BY DEF vars, client, browser, inverter
<1>2. UpdateTypeOK'
  BY TypeStep DEF UpdateInv
<1>3. Sound' => Sound
  BY <1>1 DEF Sound
<1>4. ASSUME SoundInv PROVE SoundInv'
  <2>1. RxOK /\ BusOK
    BY DEF UpdateInv, UpdateTypeOK, RxOK, BusOK
  <2>2. QuietFrame
    BY <1>1 DEF QuietFrame, Pending
  <2>3. Dropped
    BY <1>1, <2>1, SameDrops
  <2>4. Grows({"read", "reset"})
    BY <1>1, <2>1, MoreGrows
  <2>5. QED
    BY <1>4, <2>1, <2>2, <2>3, <2>4, GrowKeeps, QuietStep
<1>5. QED
  BY <1>2, <1>3, <1>4 DEF UpdateInv

LEMMA NextInv == PagesFit /\ UpdateInv /\ [UpdateNext]_vars => UpdateInv'
<1> SUFFICES ASSUME PagesFit, UpdateInv, UpdateNext PROVE UpdateInv'
  BY SameKeeps
<1>1. UpdateTypeOK /\ UpdateTypeOK'
  BY TypeStep DEF UpdateInv
<1>2. ASSUME Sound' PROVE SoundInv'
  <2>1. SoundInv
    BY <1>2, SoundStays DEF UpdateInv, Sound
  <2>2. QED
    BY <1>1, <1>2, <2>1, UpdateKeeps, LoopKeeps, HttpKeeps, OpenKeeps, MagicKeeps, CycleKeeps, ServeKeeps
    DEF UpdateNext, Loop, Http
<1>3. QED
  BY <1>1, <1>2 DEF UpdateInv

\* The inductive invariant.
THEOREM UpdateInvariant == PagesFit /\ UpdateSpec => []UpdateInv
<1>1. ASSUME PagesFit PROVE UpdateSpec => []UpdateInv
  <2>1. UpdateInv /\ [UpdateNext]_vars => UpdateInv'
    BY <1>1, NextInv
  <2>2. QED
    BY <2>1, InitInv, PTL DEF UpdateSpec
<1>2. QED
  BY <1>1

\* What the bootloader starts is one whole image, however large the images, their
\* pages and the queues are, as long as the number of pages fits its byte
\* (oi_can.c:480-530).
THEOREM InstalledWhole == PagesFit /\ UpdateSpec => []InstalledIsOneFile
<1>1. UpdateInv => InstalledIsOneFile
  BY DEF UpdateInv, SoundInv, Sound, InstalledIsOneFile
<1>2. QED
  BY <1>1, UpdateInvariant, PTL

\* When the browser is told that a step is done, the pages before it were accepted and
\* written (web_interface.c:370-373), of every image that fits.
THEOREM StepAccepted == PagesFit /\ UpdateSpec => StepMeansAccepted
<1> DEFINE done == amiss \cap {"error", "overlap"} = {} =>
                      \A k \in 0 .. ui.step - 1 : k \in DOMAIN flash /\ flash[k] = PageOf(ui.file, k)
<1>1. ASSUME UpdateInv, StepReturn PROVE done
  <2> SUFFICES ASSUME Sound, NEW k \in 0..(ui.step - 1) PROVE Written(ui.file, k)
    BY DEF Sound, Written
  <2>1. KeptInv /\ ~Pending /\ s_current_page >= ui.step
    BY <1>1 DEF UpdateInv, SoundInv, StepReturn, Pending
  <2>2. k \in 0..(s_current_page - 1)
    BY <1>1, <2>1 DEF UpdateInv, UpdateTypeOK
  <2>3. QED
    BY <2>1, <2>2 DEF KeptInv
<1>2. UpdateInv /\ [UpdateNext]_vars => [StepReturn => done]_vars
  BY <1>1
<1>3. QED
  BY <1>2, UpdateInvariant, PTL DEF UpdateSpec, StepMeansAccepted
==============================================================================

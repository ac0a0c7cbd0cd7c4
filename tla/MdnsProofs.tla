----------------------------- MODULE MdnsProofs -----------------------------
(* Theorems of MdnsService and their proofs: every action keeps the two    *)
(* inductive invariants of MdnsInv.                                        *)
EXTENDS MdnsHandlerProofs

-----------------------------------------------------------------------------
(* The task executes an action.                                            *)

\* The same queue, machines and name.
SameCore(d, e) ==
    e \in Device /\ e.txq = d.txq /\ e.pcb = d.pcb /\ e.ready = d.ready /\ SameName(d, e)

LEMMA CoreOK ==
    ASSUME NEW d, NEW acts, NEW sure, HandledOK(d, acts, sure, {}), NEW e, SameCore(d, e)
    PROVE HandledOK(e, acts, sure, {})
<1>1. BaseOK(e, acts, sure) /\ NamelessIdle(e)
  BY DEF HandledOK, BaseOK, NamelessIdle, SameCore, SameName
<1>2. MachinesBut(e, {})
  <2> SUFFICES ASSUME NEW j \in e.ready PROVE MachineOK(e, j)
    BY DEF MachinesBut
  <2>1. MachineOK(d, j) /\ SameOn(d.txq, e.txq, j)
    BY SameOnItself DEF HandledOK, MachinesBut, SameCore
  <2>2. QED
    BY <2>1, MachineKept DEF SameCore, SameName
<1>3. QED
  BY <1>1, <1>2 DEF HandledOK

\* The action that was held is done.
Done(d, e) ==
    /\ e.aq = d.aq /\ e.held = <<>> /\ e.timer = d.timer /\ e.app = d.app /\ e.up = d.up
    /\ e.out \in Seq(Messages)

LEMMA ActionKinds ==
    ASSUME NEW a \in Actions
    PROVE  /\ a[1] \in {"tx", "rx", "event", "hostname", "none"}
           /\ a[1] = "tx" => a = <<"tx", a[2]>> /\ a[2] \in Nat
           /\ a[1] = "rx" => a[2] \in Messages
           /\ a[1] = "event" => a[2] \in Ifaces /\ a[3] \in BOOLEAN
  BY DEF Actions, None

LEMMA ExecutedOK ==
    ASSUME EnoughAddrs, NEW d, NEW sure, HandledOK(d, Acts(d), sure, {}), d.held # <<>>,
           NEW e, e = Executed(d)
    PROVE HandledOK(e, Acts(e), sure, {}) /\ Done(d, e)
<1> DEFINE a == d.held
           rest == d.aq
           c == [d EXCEPT !.held = <<>>]
<1>1. d \in Device /\ MoreActs(a, rest)
  BY DEF HandledOK, BaseOK, Device, MoreActs
<1>2. /\ SameCore(d, c) /\ c.held = <<>> /\ c.aq = rest /\ c.timer = d.timer /\ c.app = d.app
      /\ c.up = d.up
  BY <1>1 DEF SameCore, SameName, Device
<1>3. HandledOK(c, <<a>> \o rest, sure, {})
  BY <1>2, CoreOK DEF Acts
<1> HIDE DEF c
<1>4. ASSUME a[1] # "tx" PROVE HandledOK(c, rest, sure, {})
  <2>1. c.txq # <<>> => ~c.txq[1].queued \/ a # <<"tx", c.txq[1].at>>
    BY <1>4
  <2>2. QED
    BY <1>1, <1>3, <2>1, ActionDone
<1>5. /\ a[1] \in {"tx", "rx", "event", "hostname", "none"}
      /\ a[1] = "tx" => a = <<"tx", a[2]>>
      /\ a[1] = "rx" => a[2] \in Messages
      /\ a[1] = "event" => a[2] \in Ifaces /\ a[3] \in BOOLEAN
  BY <1>1, ActionKinds DEF MoreActs
<1>6. ASSUME HandledOK(e, rest, sure, {}), Beside(c, e) PROVE HandledOK(e, Acts(e), sure, {}) /\ Done(d, e)
  <2>1. e.held = <<>> /\ e.aq = rest /\ Done(d, e)
    BY <1>2, <1>6 DEF Beside, Done, HandledOK, BaseOK, Device
  <2>2. QED
    BY <1>6, <2>1 DEF Acts
<1>7. CASE a[1] = "tx"
  <2>1. e = SendPacket(c, a[2])
    BY <1>7 DEF Executed, c
  <2>2. HandledOK(e, rest, sure, {}) /\ Beside(c, e)
    BY <1>1, <1>3, <1>5, <1>7, <2>1, SendPacketOK
  <2>3. QED
    BY <1>6, <2>2
<1>8. CASE a[1] = "rx"
  <2>1. e = ParsePacket(c, a[2])
    BY <1>8 DEF Executed, ExecuteReceive, c
  <2>2. HandledOK(e, rest, sure, {}) /\ Beside(c, e)
    BY <1>4, <1>5, <1>8, <2>1, ParsePacketOK
  <2>3. QED
    BY <1>6, <2>2
<1>9. CASE a[1] = "event"
  <2>1. e = PcbEnable(c, a[2]) \/ e = PcbDisable(c, a[2])
    BY <1>9 DEF Executed, c
  <2>2. HandledOK(e, rest, sure, {}) /\ Beside(c, e)
    BY <1>4, <1>5, <1>9, <2>1, PcbEnableOK, PcbDisableOK
  <2>3. QED
    BY <1>6, <2>2
<1>10. CASE a[1] = "hostname"
  <2> DEFINE h == HostnameSet(c, 1)
  <2>1. e = [h EXCEPT !.named = TRUE]
    BY <1>10 DEF Executed, ExecuteHostname, c
  <2>2. HandledOK(h, rest, sure, {}) /\ Beside(c, h)
    <3>1. h = HostnameSet(c, 1) /\ 1 \in Nat \ {0} /\ HandledOK(c, rest, sure, {})
      BY <1>4, <1>10
    <3> HIDE DEF h
    <3>2. QED
      BY <3>1, HostnameSetOK
  <2> HIDE DEF h
  <2>3. SameCore(h, e) /\ Beside(h, e)
    BY <2>1, <2>2 DEF SameCore, SameName, Beside, HandledOK, BaseOK, Device
  <2>4. HandledOK(e, rest, sure, {}) /\ Beside(c, e)
    BY <2>2, <2>3, CoreOK DEF Beside
  <2>5. QED
    BY <1>6, <2>4
<1>11. CASE a[1] = "none"
  <2>1. e = c
    BY <1>11 DEF Executed, c
  <2>2. HandledOK(e, rest, sure, {}) /\ Beside(c, e)
    BY <1>4, <1>11, <2>1 DEF Beside
  <2>3. QED
    BY <1>6, <2>2
<1>12. QED
  BY <1>5, <1>7, <1>8, <1>9, <1>10, <1>11

-----------------------------------------------------------------------------
(* The action queue and the timer.                                         *)

\* Only what is posted is another one; the network or the application may be.
SameTimer(d, e) == e.timer = d.timer /\ (e.app = "off" => d.app = "off")

LEMMA DeviceParts ==
    ASSUME NEW d, NEW sure, DeviceOK(d, sure)
    PROVE  /\ d \in Device /\ d.txq \in Seq(Packets) /\ d.aq \in Seq(Actions) /\ Acts(d) \in Seq(Actions)
           /\ HandledOK(d, Acts(d), sure, {}) /\ TimerOK(d, sure) /\ Len(d.aq) <= QueueLen
<1>1. d \in Device
  BY DEF DeviceOK, HandledOK, BaseOK
<1>2. d.txq \in Seq(Packets) /\ d.aq \in Seq(Actions) /\ d.held \in Actions \cup {<<>>}
  BY <1>1 DEF Device
<1>3. Acts(d) \in Seq(Actions)
  BY <1>2 DEF Acts
<1>4. QED
  BY <1>1, <1>2, <1>3 DEF DeviceOK

\* Nothing but the application, the network or the actions to be executed is
\* another one, and no action is lost.
LEMMA PostedOK ==
    ASSUME NEW d, NEW sure, DeviceOK(d, sure), NEW e, SameCore(d, e), SameTimer(d, e),
           NEW more \in Seq(Actions), Acts(e) = Acts(d) \o more, Len(e.aq) <= QueueLen
    PROVE DeviceOK(e, sure)
<1>1. HandledOK(e, Acts(d), sure, {})
  BY CoreOK DEF DeviceOK
<1>2. sure => MarkOK(e.txq, Acts(e))
  <2>1. sure => MarkOK(e.txq, Acts(d))
    BY <1>1 DEF HandledOK, BaseOK
  <2>2. QED
    BY <2>1, DeviceParts, ActsMore
<1>3. HandledOK(e, Acts(e), sure, {})
  BY <1>1, <1>2 DEF HandledOK, BaseOK
<1>4. TimerOK(e, sure)
  BY DEF DeviceOK, TimerOK, SameCore, SameTimer
<1>5. QED
  BY <1>3, <1>4 DEF DeviceOK

LEMMA ActsAppend ==
    ASSUME NEW d, d.held \in Actions \cup {<<>>}, d.aq \in Seq(Actions), NEW more \in Seq(Actions),
           NEW e, e.held = d.held, e.aq = d.aq \o more
    PROVE Acts(e) = Acts(d) \o more
<1>1. CASE d.held = <<>>
  BY <1>1 DEF Acts
<1>2. CASE d.held # <<>>
  <2> DEFINE first == <<d.held>>
             then == d.aq
  <2>1. first \in Seq(Actions) /\ then \in Seq(Actions)
    BY <1>2
  <2> HIDE DEF first, then
  <2>2. (first \o then) \o more = first \o (then \o more)
    BY <2>1, ConcatAssociative
  <2>3. QED
    BY <1>2, <2>2 DEF Acts, first, then
<1>3. QED
  BY <1>1, <1>2

\* The first entries of a list, as many as there is room for.
LEMMA StartOf ==
    ASSUME NEW V, NEW s \in Seq(V), NEW room \in Nat
    PROVE LET start == SubSeq(s, 1, IF Len(s) < room THEN Len(s) ELSE room)
          IN  start \in Seq(V) /\ Len(start) <= room
  OBVIOUS

LEMMA QueuedAllOK ==
    ASSUME MdnsAssumption, NEW d, NEW sure, DeviceOK(d, sure), NEW posts \in Seq(Actions),
           NEW e, e = QueuedAll(d, posts)
    PROVE DeviceOK(e, sure) /\ SameCore(d, e) /\ SameTimer(d, e) /\ e.app = d.app
<1> DEFINE room == QueueLen - Len(d.aq)
           l == IF Len(posts) < room THEN Len(posts) ELSE room
           more == SubSeq(posts, 1, l)
           aq == d.aq \o more
<1>1. /\ d \in Device /\ d.aq \in Seq(Actions) /\ d.held \in Actions \cup {<<>>}
      /\ Len(d.aq) <= QueueLen /\ QueueLen \in Nat
  BY DeviceParts DEF Device, MdnsAssumption
<1>2. room \in Nat /\ Len(d.aq) + room = QueueLen
  BY <1>1
<1>3. e = [d EXCEPT !.aq = aq]
  BY DEF QueuedAll
<1>4. more \in Seq(Actions) /\ Len(more) <= room
  <2> HIDE DEF room
  <2>1. QED
    BY <1>2, StartOf
<1> HIDE DEF more
<1>5. aq \in Seq(Actions) /\ Len(aq) <= QueueLen
  BY <1>1, <1>2, <1>4
<1> HIDE DEF aq
<1>6. e.held = d.held /\ e.aq = aq /\ SameCore(d, e) /\ SameTimer(d, e) /\ e.app = d.app
  BY <1>1, <1>3, <1>5 DEF Device, SameCore, SameName, SameTimer
<1>7. Acts(e) = Acts(d) \o more
  BY <1>1, <1>4, <1>6, ActsAppend DEF aq
<1>8. QED
  BY <1>4, <1>5, <1>6, <1>7, PostedOK

LEMMA QueuedOne ==
    ASSUME MdnsAssumption, NEW d, NEW sure, DeviceOK(d, sure), NEW a \in Actions,
           NEW e, e = Queued(d, a)
    PROVE DeviceOK(e, sure) /\ SameCore(d, e) /\ SameTimer(d, e) /\ e.app = d.app
<1>1. /\ d \in Device /\ d.aq \in Seq(Actions) /\ d.held \in Actions \cup {<<>>}
      /\ Len(d.aq) <= QueueLen /\ QueueLen \in Nat
  BY DeviceParts DEF Device, MdnsAssumption
<1>2. CASE ~HasRoom(d)
  <2>1. e = d
    BY <1>2 DEF Queued
  <2>2. QED
    BY <1>1, <2>1 DEF SameCore, SameName, SameTimer
<1>3. CASE HasRoom(d)
  <2> DEFINE aq == d.aq \o <<a>>
  <2>1. e = [d EXCEPT !.aq = aq]
    <3>1. Append(d.aq, a) = aq
      BY <1>1
    <3>2. QED
      BY <1>3, <3>1 DEF Queued
  <2>2. aq \in Seq(Actions) /\ Len(aq) <= QueueLen /\ <<a>> \in Seq(Actions)
    BY <1>1, <1>3 DEF HasRoom
  <2> HIDE DEF aq
  <2>3. e.held = d.held /\ e.aq = aq /\ SameCore(d, e) /\ SameTimer(d, e) /\ e.app = d.app
    BY <1>1, <2>1, <2>2 DEF Device, SameCore, SameName, SameTimer
  <2>4. Acts(e) = Acts(d) \o <<a>>
    BY <1>1, <2>2, <2>3, ActsAppend DEF aq
  <2>5. QED
    BY <2>2, <2>3, <2>4, PostedOK
<1>4. QED
  BY <1>2, <1>3

\* The packets ask and answer the same on the same interfaces.
SameAsk(q, r) ==
    DOMAIN r = DOMAIN q /\ \A k \in DOMAIN q : r[k].i = q[k].i /\ r[k].qs = q[k].qs /\ r[k].resp = q[k].resp

LEMMA AskKept ==
    ASSUME NEW d, NEW i, MachineOK(d, i), NEW e, e.pcb = d.pcb, e.host = d.host, SameAsk(d.txq, e.txq)
    PROVE MachineOK(e, i)
<1>1. PacketsOf(e, i) = PacketsOf(d, i)
  BY DEF PacketsOf, SameAsk
<1>2. \A k \in PacketsOf(d, i) : IsProbe(d, i, d.txq[k]) => IsProbe(e, i, e.txq[k])
  BY DEF PacketsOf, SameAsk, IsProbe, Instance
<1>3. QED
  BY <1>1, <1>2 DEF MachineOK

\* The timer only changes what it notes in the packets.
LEMMA TimedOK ==
    ASSUME NEW d, NEW acts, NEW more, NEW sure, NEW then, then => sure, HandledOK(d, acts, sure, {}),
           NEW e, e \in Device, e.pcb = d.pcb, e.ready = d.ready, SameName(d, e), SameAsk(d.txq, e.txq),
           QueueOK(e.txq), then => MarkOK(e.txq, more)
    PROVE HandledOK(e, more, then, {})
<1>1. BaseOK(e, more, then) /\ NamelessIdle(e)
  BY DEF HandledOK, BaseOK, NamelessIdle, SameName
<1>2. MachinesBut(e, {})
  BY AskKept DEF HandledOK, MachinesBut, SameName
<1>3. QED
  BY <1>1, <1>2 DEF HandledOK

LEMMA TickOK ==
    ASSUME NEW d, NEW sure, DeviceOK(d, sure), d.app # "off", NEW e, e = Tick(d)
    PROVE DeviceOK(e, sure)
<1> DEFINE q == d.txq
           r == [k \in DOMAIN q |-> [q[k] EXCEPT !.left = IF @ = 0 THEN 0 ELSE @ - 1]]
           t == IF Waiting(d) = {} THEN 0 ELSE Min(Waiting(d))
<1>1. /\ d \in Device /\ q \in Seq(Packets) /\ DOMAIN q = 1 .. Len(q) /\ Len(q) \in Nat
      /\ HandledOK(d, Acts(d), sure, {}) /\ Len(d.aq) <= QueueLen
  BY DeviceParts
<1>2. \A k \in DOMAIN q : q[k] \in Packets
  BY <1>1
<1>3. \A k \in DOMAIN q :
         /\ r[k] \in Packets /\ r[k].i = q[k].i /\ r[k].qs = q[k].qs /\ r[k].resp = q[k].resp
         /\ r[k].at = q[k].at /\ r[k].queued = q[k].queued
         /\ r[k].left = IF q[k].left = 0 THEN 0 ELSE q[k].left - 1
  <2> SUFFICES ASSUME NEW k \in DOMAIN q
               PROVE  /\ r[k] \in Packets /\ r[k].i = q[k].i /\ r[k].qs = q[k].qs /\ r[k].resp = q[k].resp
                      /\ r[k].at = q[k].at /\ r[k].queued = q[k].queued
                      /\ r[k].left = IF q[k].left = 0 THEN 0 ELSE q[k].left - 1
    OBVIOUS
  <2> DEFINE p == q[k]
             left == IF p.left = 0 THEN 0 ELSE p.left - 1
  <2>1. r[k] = [p EXCEPT !.left = left] /\ p \in Packets
    BY <1>2
  <2>2. left \in 0 .. Second
    <3>1. p.left \in 0 .. Second
      BY <2>1 DEF Packets
    <3> HIDE DEF p
    <3>2. QED
      BY <3>1 DEF Second
  <2> HIDE DEF left, r
  <2>3. /\ r[k] \in Packets /\ r[k].i = p.i /\ r[k].qs = p.qs /\ r[k].resp = p.resp
        /\ r[k].at = p.at /\ r[k].queued = p.queued /\ r[k].left = left
    <3> HIDE DEF p
    <3>1. QED
      BY <2>1, <2>2 DEF Packets
  <2>4. QED
    BY <2>3 DEF left
<1>4. r \in Seq(Packets) /\ DOMAIN r = DOMAIN q
  <2>1. DOMAIN r = 1 .. Len(q)
    BY <1>1
  <2>2. \A k \in 1 .. Len(q) : r[k] \in Packets
    BY <1>1, <1>3
  <2>3. r = [k \in 1 .. Len(q) |-> r[k]]
    BY <1>1
  <2> HIDE DEF r, q
  <2>4. r \in [1 .. Len(q) -> Packets]
    BY <2>2, <2>3
  <2>5. QED
    BY <1>1, <2>1, <2>4
<1>5. e = [d EXCEPT !.txq = r, !.timer = t]
  BY DEF Tick
<1>6. Waiting(d) \subseteq 1 .. Len(q) /\ (Waiting(d) # {} => t \in Waiting(d) /\ \A y \in Waiting(d) : t <= y)
  <2>1. Waiting(d) \subseteq 1 .. Len(q)
    BY <1>1 DEF Waiting
  <2>2. QED
    BY <2>1, Smallest
<1> HIDE DEF r
<1>7. t \in 0 .. Len(q) + 1 /\ t \in Nat
  BY <1>1, <1>6
<1> HIDE DEF t
<1>8. /\ e \in Device /\ e.txq = r /\ e.timer = t /\ e.pcb = d.pcb /\ e.ready = d.ready
      /\ SameName(d, e) /\ e.aq = d.aq /\ e.held = d.held /\ e.app = d.app
  BY <1>1, <1>4, <1>5, <1>7 DEF Device, SameName
<1>9. QueueOK(r)
  <2>1. QueueOK(q)
    BY <1>1 DEF HandledOK, BaseOK
  <2>2. ASSUME NEW k \in DOMAIN q PROVE q[k].left \in Nat
    <3>1. q[k].left \in 0 .. Second
      BY <1>2 DEF Packets
    <3>2. QED
      BY <3>1 DEF Second
  <2> HIDE DEF q
  <2>3. QED
    BY <1>3, <1>4, <2>1, <2>2 DEF QueueOK
<1>10. Marked(r) = Marked(q)
  BY <1>3, <1>4 DEF Marked
<1>11. sure => MarkOK(r, Acts(d))
  <2> SUFFICES ASSUME sure PROVE MarkOK(r, Acts(d))
    OBVIOUS
  <2>1. MarkOK(q, Acts(d))
    BY <1>1 DEF HandledOK, BaseOK
  <2>2. \A k \in Marked(q) : k \in DOMAIN q /\ r[k].at = q[k].at /\ (q[k].left = 0 => r[k].left = 0)
    BY <1>3 DEF Marked
  <2> HIDE DEF q
  <2>3. QED
    BY <1>10, <2>1, <2>2 DEF MarkOK
<1>12. HandledOK(e, Acts(e), sure, {})
  <2>1. SameAsk(q, r)
    BY <1>3, <1>4 DEF SameAsk
  <2>2. Acts(e) = Acts(d)
    BY <1>8 DEF Acts
  <2>3. QED
    BY <1>1, <1>8, <1>9, <1>11, <2>1, <2>2, TimedOK
<1>13. ASSUME sure, t # 0, NEW k \in DOMAIN r PROVE k \in Marked(r) <=> k < t
  <2>1. k \in 1 .. Len(q) /\ Waiting(d) # {} /\ t \in Waiting(d) /\ \A y \in Waiting(d) : t <= y
    BY <1>1, <1>4, <1>6, <1>13 DEF t
  <2>2. k \notin Marked(q) <=> k \in Waiting(d)
    BY <1>1, <2>1 DEF Marked, Waiting
  <2>3. ASSUME k \in Marked(q), t <= k PROVE FALSE
    <3>1. MarkOK(q, Acts(d)) /\ t \in 1 .. k
      BY <1>1, <1>6, <1>13, <2>1, <2>3 DEF HandledOK, BaseOK
    <3>2. t \in Marked(q)
      BY <2>3, <3>1 DEF MarkOK
    <3>3. QED
      BY <2>1, <3>2 DEF Marked, Waiting
  <2>4. QED
    BY <1>6, <1>7, <1>10, <2>1, <2>2, <2>3
<1>14. TimerOK(e, sure)
  <2>1. Len(r) = Len(q)
    BY <1>1, <1>4
  <2>2. QED
    BY <1>7, <1>8, <1>13, <2>1 DEF TimerOK
<1>15. QED
  BY <1>1, <1>8, <1>12, <1>14 DEF DeviceOK

\* The queue is as it was but for the marks.
Remarked(q, r) ==
    r \in Seq(Packets) /\ Len(r) = Len(q) /\ SameAsk(q, r) /\ (QueueOK(q) => QueueOK(r))

LEMMA MarkedQueue ==
    ASSUME NEW q \in Seq(Packets), NEW k \in DOMAIN q, NEW b \in BOOLEAN,
           NEW r, r = WithMark(q, k, b)
    PROVE Remarked(q, r)
<1> USE DEF WithMark
<1> DEFINE p == q[k]
           x == [p EXCEPT !.queued = b]
<1>1. DOMAIN q = 1 .. Len(q) /\ Len(q) \in Nat /\ p \in Packets /\ \A j \in DOMAIN q : q[j] \in Packets
  OBVIOUS
<1>2. DOMAIN r = DOMAIN q /\ r[k] = x /\ \A j \in DOMAIN q : j # k => r[j] = q[j]
  OBVIOUS
<1>3. x \in Packets /\ x.i = p.i /\ x.qs = p.qs /\ x.resp = p.resp /\ x.at = p.at /\ x.left = p.left
  <2> HIDE DEF p
  <2>1. QED
    BY <1>1 DEF Packets
<1>4. r = [j \in 1 .. Len(q) |-> r[j]]
  BY <1>1
<1> HIDE DEF x
<1>5. \A j \in DOMAIN q :
         r[j].i = q[j].i /\ r[j].qs = q[j].qs /\ r[j].resp = q[j].resp /\ r[j].at = q[j].at /\ r[j].left = q[j].left
  BY <1>2, <1>3
<1>6. r \in Seq(Packets) /\ Len(r) = Len(q)
  <2>1. \A j \in 1 .. Len(q) : r[j] \in Packets
    BY <1>1, <1>2, <1>3
  <2>2. r \in [1 .. Len(q) -> Packets]
    BY <1>4, <2>1
  <2>3. QED
    BY <1>1, <1>2, <2>2
<1>7. SameAsk(q, r)
  BY <1>2, <1>5 DEF SameAsk
<1>8. QueueOK(q) => QueueOK(r)
  BY <1>2, <1>5 DEF QueueOK
<1>9. QED
  BY <1>6, <1>7, <1>8 DEF Remarked

LEMMA AppendOne ==
    ASSUME NEW V, NEW s \in Seq(V), NEW a \in V
    PROVE <<a>> \in Seq(V) /\ Append(s, a) = s \o <<a>>
  OBVIOUS

\* The packet at the timer's place is due, and a is its action.
Due(d, a, k) ==
    k = d.timer /\ k # 0 /\ k <= Len(d.txq) /\ d.txq[k].left = 0 /\ a = <<"tx", d.txq[k].at>>

\* The device after the action a was posted for the packet at place k.
Pushed(d, a, k) == [Queued(d, a) EXCEPT !.txq[k].queued = HasRoom(d), !.timer = k + 1]

\* The timer pushes the packet of its place; without room for the action the push
\* is noted as lost and nothing is said of marks any more.
LEMMA PushOK ==
    ASSUME MdnsAssumption, NEW d, NEW sure, DeviceOK(d, sure), NEW k, NEW a, Due(d, a, k),
           NEW still, still => sure /\ HasRoom(d), NEW e, e = Pushed(d, a, k)
    PROVE DeviceOK(e, still)
<1> DEFINE q == d.txq
           b == HasRoom(d)
           r == WithMark(q, k, b)
           c == Queued(d, a)
           t == k + 1
<1>1. /\ d \in Device /\ q \in Seq(Packets) /\ Len(q) \in Nat
      /\ HandledOK(d, Acts(d), sure, {}) /\ Acts(d) \in Seq(Actions) /\ TimerOK(d, sure)
      /\ d.aq \in Seq(Actions) /\ d.held \in Actions \cup {<<>>}
  BY DeviceParts DEF Device
<1>2. k \in DOMAIN q /\ k \in Nat /\ d.app # "off" /\ t \in Nat /\ t <= Len(q) + 1
  <2>1. k \in 0 .. Len(q) + 1 /\ d.app # "off" /\ k # 0 /\ k <= Len(q)
    BY <1>1 DEF TimerOK, Due
  <2>2. DOMAIN q = 1 .. Len(q)
    BY <1>1
  <2>3. QED
    BY <1>1, <2>1, <2>2
<1>3. a \in Actions
  <2> DEFINE at == q[k].at
  <2>1. at \in Nat
    <3>1. q[k] \in Packets
      BY <1>1, <1>2
    <3>2. QED
      BY <3>1 DEF Packets
  <2>2. a = <<"tx", at>>
    BY DEF Due
  <2> HIDE DEF at
  <2>3. QED
    BY <2>1, <2>2 DEF Actions
<1>4. b \in BOOLEAN
  BY DEF HasRoom
<1>5. b => c.aq = Append(d.aq, a) /\ c.held = d.held
  BY <1>1 DEF Queued, Device
<1> HIDE DEF b
<1>6. r \in Seq(Packets) /\ Len(r) = Len(q) /\ SameAsk(q, r) /\ QueueOK(r)
  <2>1. QueueOK(q) /\ r = WithMark(q, k, b)
    BY <1>1 DEF HandledOK, BaseOK
  <2> HIDE DEF q, r
  <2>2. Remarked(q, r)
    BY <1>1, <1>2, <1>4, <2>1, MarkedQueue
  <2>3. QED
    BY <2>1, <2>2 DEF Remarked
<1>7. /\ c \in Device /\ c.txq = q /\ c.pcb = d.pcb /\ c.ready = d.ready /\ SameName(d, c)
      /\ DeviceOK(c, sure) /\ c.app = d.app
  BY <1>3, QueuedOne DEF SameCore
<1>8. e = [c EXCEPT !.txq = r, !.timer = t]
  <2>1. e = [c EXCEPT !.txq[k].queued = b, !.timer = t]
    BY DEF b, Pushed
  <2> HIDE DEF c, t
  <2>2. e = [c EXCEPT !.txq = [c.txq EXCEPT ![k].queued = b], !.timer = t]
    BY <2>1
  <2>3. QED
    BY <1>7, <2>2 DEF WithMark
<1> HIDE DEF c
<1>9. b => Acts(c) = Append(Acts(d), a)
  <2> SUFFICES ASSUME b PROVE Acts(c) = Append(Acts(d), a)
    OBVIOUS
  <2> DEFINE aq == d.aq
             acts == Acts(d)
  <2>1. aq \in Seq(Actions) /\ acts \in Seq(Actions)
    BY <1>1
  <2> HIDE DEF aq, acts
  <2>2. <<a>> \in Seq(Actions) /\ Append(aq, a) = aq \o <<a>> /\ Append(acts, a) = acts \o <<a>>
    BY <1>3, <2>1, AppendOne
  <2>3. c.aq = d.aq \o <<a>> /\ c.held = d.held
    BY <1>5, <2>2 DEF aq
  <2>4. Acts(c) = Acts(d) \o <<a>>
    BY <1>1, <2>2, <2>3, ActsAppend
  <2>5. QED
    BY <2>2, <2>4 DEF acts
<1> HIDE DEF r, t
<1>10. /\ e \in Device /\ e.txq = r /\ e.timer = t /\ e.pcb = c.pcb /\ e.ready = c.ready
       /\ SameName(c, e) /\ e.aq = c.aq /\ e.held = c.held /\ e.app = c.app
  <2>1. c \in Device /\ r \in Seq(Packets) /\ t \in Nat
    BY <1>2, <1>6, <1>7
  <2>2. e \in Device
    BY <1>8, <2>1 DEF Device
  <2>3. /\ e.txq = r /\ e.timer = t /\ e.pcb = c.pcb /\ e.ready = c.ready
        /\ e.host = c.host /\ e.svc = c.svc /\ e.aq = c.aq /\ e.held = c.held /\ e.app = c.app
    BY <1>8, <2>1 DEF Device
  <2>4. QED
    BY <2>2, <2>3 DEF SameName
<1>11. ASSUME still
       PROVE  MarkOK(r, Acts(c)) /\ MarkedTo(r, t)
  <2>1. MarkOK(q, Acts(d)) /\ MarkedTo(q, k)
    BY <1>1, <1>2, <1>11 DEF HandledOK, BaseOK, TimerOK, Due, MarkedTo
  <2>2. r = WithMark(q, k, TRUE)
    BY <1>4, <1>11 DEF r, b
  <2>3. Acts(c) = Append(Acts(d), a)
    BY <1>9, <1>11 DEF b
  <2>4. q[k].left = 0 /\ a = <<"tx", q[k].at>>
    BY DEF Due
  <2> DEFINE acts == Acts(d)
  <2> HIDE DEF q, acts
  <2>5. MarkOK(r, Append(acts, a)) /\ MarkedTo(r, k + 1)
    BY <1>1, <1>2, <1>3, <2>1, <2>2, <2>4, PushedOK DEF acts
  <2>6. QED
    BY <2>3, <2>5 DEF t, acts
<1>12. Acts(e) = Acts(c) /\ SameAsk(c.txq, e.txq)
  BY <1>6, <1>7, <1>10 DEF Acts
<1>13. HandledOK(e, Acts(e), still, {})
  <2>1. HandledOK(c, Acts(c), sure, {})
    BY <1>7 DEF DeviceOK
  <2>2. still => sure
    OBVIOUS
  <2>3. QueueOK(e.txq) /\ (still => MarkOK(e.txq, Acts(e)))
    BY <1>6, <1>10, <1>11, <1>12
  <2>4. QED
    BY <1>10, <1>12, <2>1, <2>2, <2>3, TimedOK
<1>14. TimerOK(e, still)
  <2>1. e.timer \in 0 .. Len(e.txq) + 1 /\ e.app # "off"
    BY <1>1, <1>2, <1>6, <1>7, <1>10
  <2>2. still => \A j \in DOMAIN e.txq : j \in Marked(e.txq) <=> j < e.timer
    BY <1>10, <1>11 DEF MarkedTo
  <2>3. QED
    BY <2>1, <2>2 DEF TimerOK
<1>15. QED
  BY <1>7, <1>10, <1>13, <1>14 DEF DeviceOK

\* The timer is done: nothing but its place is another one.
LEMMA StoppedOK ==
    ASSUME NEW d, NEW sure, NEW acts, HandledOK(d, acts, sure, {}), NEW e, SameCore(d, e),
           acts = Acts(e), e.timer = 0, Len(e.aq) <= QueueLen
    PROVE DeviceOK(e, sure)
<1>1. HandledOK(e, Acts(e), sure, {})
  BY CoreOK
<1>2. Len(e.txq) \in Nat
  BY DEF SameCore, Device
<1>3. TimerOK(e, sure)
  BY <1>2 DEF TimerOK
<1>4. QED
  BY <1>1, <1>3 DEF DeviceOK

\* What is certain of a device is also true of it when it is not.
LEMMA LessSure ==
    ASSUME NEW d, NEW sure, DeviceOK(d, sure), NEW still, still => sure
    PROVE DeviceOK(d, still)
  BY DEF DeviceOK, HandledOK, BaseOK, TimerOK

LEMMA NetifInitOK ==
    ASSUME EnoughAddrs, NEW d, NEW acts, NEW sure, HandledOK(d, acts, sure, {}), NEW e, e = NetifInit(d)
    PROVE HandledOK(e, acts, sure, {}) /\ Beside(d, e)
<1> DEFINE c == IF "sta" \in d.up THEN PcbEnable(d, "sta") ELSE d
<1>1. "sta" \in Ifaces /\ "ap" \in Ifaces
  BY DEF Ifaces
<1>2. HandledOK(c, acts, sure, {}) /\ Beside(d, c)
  <2>1. c = d \/ c = PcbEnable(d, "sta")
    OBVIOUS
  <2> HIDE DEF c
  <2>2. QED
    BY <1>1, <2>1, PcbEnableOK DEF Beside
<1>3. e = PcbEnable(c, "ap")
  BY DEF NetifInit
<1> HIDE DEF c
<1>4. HandledOK(e, acts, sure, {}) /\ Beside(c, e)
  BY <1>1, <1>2, <1>3, PcbEnableOK
<1>5. QED
  BY <1>2, <1>4 DEF Beside

-----------------------------------------------------------------------------
(* One lemma per action.                                                   *)

\* What is assumed of the constants.
Assumed == MdnsAssumption /\ EnoughAddrs /\ IpsAreNumbers /\ ScenariosOK /\ ForeignReadable

\* A step changes the device x to e, and more may have been lost to a full queue.
StepOf(x, e) ==
    /\ dev' = [dev EXCEPT ![x] = e]
    /\ full' = [y \in Devices |-> full'[y]] /\ \A y \in Devices : full[y] \subseteq full'[y]
    /\ DeviceOK(e, "push" \notin full'[x])

LEMMA StepKeeps ==
    ASSUME MdnsInv, NEW x \in Devices, NEW e, StepOf(x, e)
    PROVE MdnsInv'
<1>1. dev = [y \in Devices |-> dev[y]]
  BY DEF MdnsInv
<1>2. dev' = [y \in Devices |-> IF y = x THEN e ELSE dev[y]]
  BY <1>1 DEF StepOf
<1>3. dev' = [y \in Devices |-> dev'[y]]
  BY <1>2
<1>4. ASSUME NEW y \in Devices PROVE DeviceOK(dev'[y], "push" \notin full'[y])
  <2>1. CASE y = x
    BY <1>2, <2>1 DEF StepOf
  <2>2. CASE y # x
    <3>1. dev'[y] = dev[y] /\ DeviceOK(dev[y], "push" \notin full[y])
      BY <1>2, <2>2 DEF MdnsInv, Sure
    <3>2. "push" \notin full'[y] => "push" \notin full[y]
      BY DEF StepOf
    <3>3. QED
      BY <3>1, <3>2, LessSure
  <2>3. QED
    BY <2>1, <2>2
<1>5. QED
  BY <1>3, <1>4 DEF MdnsInv, Sure, StepOf

\* Nothing was lost.
LEMMA QuietStep ==
    ASSUME MdnsInv, NEW x \in Devices, NEW e, dev' = [dev EXCEPT ![x] = e], full' = full, DeviceOK(e, Sure(x))
    PROVE MdnsInv'
<1>1. full' = [y \in Devices |-> full'[y]] /\ \A y \in Devices : full[y] \subseteq full'[y]
  BY DEF MdnsInv
<1>2. StepOf(x, e)
  BY <1>1 DEF StepOf, Sure
<1>3. QED
  BY <1>2, StepKeeps

\* Something else than a push may have been lost.
LEMMA PostedStep ==
    ASSUME MdnsInv, NEW x \in Devices, NEW e, dev' = [dev EXCEPT ![x] = e],
           NEW d, NEW what, what # "push", Posted(x, d, what), DeviceOK(e, Sure(x))
    PROVE MdnsInv'
<1>1. full = [y \in Devices |-> full[y]]
  BY DEF MdnsInv
<1>2. full' = full \/ full' = [full EXCEPT ![x] = full[x] \cup {what}]
  BY DEF Posted
<1>3. full' = [y \in Devices |-> full'[y]] /\ \A y \in Devices : full[y] \subseteq full'[y]
  BY <1>1, <1>2
<1>4. "push" \notin full'[x] <=> "push" \notin full[x]
  BY <1>1, <1>2
<1>5. StepOf(x, e)
  <2>1. CASE "push" \in full[x]
    BY <1>3, <1>4, <2>1, LessSure DEF StepOf, Sure
  <2>2. CASE "push" \notin full[x]
    BY <1>3, <1>4, <2>2, LessSure DEF StepOf, Sure
  <2>3. QED
    BY <2>1, <2>2
<1>6. QED
  BY <1>5, StepKeeps

\* The device that a step is about.
LEMMA OneDevice ==
    ASSUME MdnsInv, NEW x \in Devices
    PROVE  /\ dev[x] \in Device /\ DeviceOK(dev[x], Sure(x)) /\ HandledOK(dev[x], Acts(dev[x]), Sure(x), {})
           /\ TimerOK(dev[x], Sure(x)) /\ Len(dev[x].aq) <= QueueLen
  BY DeviceParts DEF MdnsInv

LEMMA AppInitOK ==
    ASSUME Assumed, MdnsInv, NEW x \in Devices, AppInit(x)
    PROVE MdnsInv'
<1> DEFINE d == dev[x]
           c == NetifInit(d)
           e == [c EXCEPT !.app = "name"]
<1>1. d \in Device /\ DeviceOK(d, Sure(x)) /\ HandledOK(d, Acts(d), Sure(x), {}) /\ d.timer = 0 /\ Len(d.aq) <= QueueLen
  BY OneDevice DEF AppInit, TimerOK
<1>2. dev' = [dev EXCEPT ![x] = e] /\ full' = full
  BY DEF AppInit
<1>3. HandledOK(c, Acts(d), Sure(x), {}) /\ Beside(d, c)
  <2>1. c = NetifInit(d)
    OBVIOUS
  <2> HIDE DEF c, d
  <2>2. QED
    BY <1>1, <2>1, NetifInitOK DEF Assumed
<1> HIDE DEF c, d
<1>4. SameCore(c, e) /\ e.timer = 0 /\ e.aq = d.aq /\ e.held = d.held
  BY <1>1, <1>3 DEF SameCore, SameName, HandledOK, BaseOK, Device, Beside
<1> HIDE DEF e
<1>5. Acts(d) = Acts(e) /\ Len(e.aq) <= QueueLen
  BY <1>1, <1>4 DEF Acts
<1>6. DeviceOK(e, Sure(x))
  BY <1>3, <1>4, <1>5, StoppedOK
<1>7. QED
  BY <1>2, <1>6, QuietStep

LEMMA AppSetHostnameOK ==
    ASSUME Assumed, MdnsInv, NEW x \in Devices, AppSetHostname(x)
    PROVE MdnsInv'
<1> DEFINE d == dev[x]
           c == Queued(d, <<"hostname">>)
           app == IF HasRoom(d) THEN "wait" ELSE "add"
           e == [c EXCEPT !.app = app]
<1>1. DeviceOK(d, Sure(x)) /\ <<"hostname">> \in Actions
  BY OneDevice DEF Actions
<1>2. dev' = [dev EXCEPT ![x] = e] /\ Posted(x, d, "name")
  BY DEF AppSetHostname
<1>3. app \in {"wait", "add"}
  OBVIOUS
<1>4. DeviceOK(c, Sure(x))
  <2>1. c = Queued(d, <<"hostname">>)
    OBVIOUS
  <2> HIDE DEF c, d
  <2>2. QED
    BY <1>1, <2>1, QueuedOne DEF Assumed
<1> HIDE DEF c, app, d
<1>5. DeviceOK(e, Sure(x))
  <2>1. c \in Device /\ Len(c.aq) <= QueueLen /\ Acts(c) \in Seq(Actions)
    BY <1>4, DeviceParts
  <2>2. SameCore(c, e) /\ SameTimer(c, e) /\ e.aq = c.aq /\ e.held = c.held
    BY <1>3, <2>1 DEF SameCore, SameName, SameTimer, Device
  <2>3. Acts(e) = Acts(c) \o <<>> /\ <<>> \in Seq(Actions)
    BY <2>1, <2>2 DEF Acts
  <2>4. QED
    BY <1>4, <2>1, <2>2, <2>3, PostedOK
<1>6. QED
  BY <1>2, <1>5, PostedStep

LEMMA AppNamedOK ==
    ASSUME Assumed, MdnsInv, NEW x \in Devices, AppNamed(x)
    PROVE MdnsInv'
<1> DEFINE d == dev[x]
           e == [d EXCEPT !.app = "add", !.named = FALSE]
<1>1. DeviceOK(d, Sure(x)) /\ d \in Device /\ Len(d.aq) <= QueueLen /\ Acts(d) \in Seq(Actions)
  BY OneDevice, DeviceParts
<1>2. dev' = [dev EXCEPT ![x] = e] /\ full' = full
  BY DEF AppNamed
<1> HIDE DEF d
<1>3. SameCore(d, e) /\ SameTimer(d, e) /\ e.aq = d.aq /\ e.held = d.held
  BY <1>1 DEF SameCore, SameName, SameTimer, Device
<1> HIDE DEF e
<1>4. Acts(e) = Acts(d) \o <<>> /\ <<>> \in Seq(Actions)
  BY <1>1, <1>3 DEF Acts
<1>5. DeviceOK(e, Sure(x))
  BY <1>1, <1>3, <1>4, PostedOK
<1>6. QED
  BY <1>2, <1>5, QuietStep

LEMMA AppAddServiceOK ==
    ASSUME Assumed, MdnsInv, NEW x \in Devices, AppAddService(x)
    PROVE MdnsInv'
<1> DEFINE d == dev[x]
           c == IF d.host = 0 THEN d ELSE ServiceAdd(d)
           e == [c EXCEPT !.app = "done"]
<1>1. /\ DeviceOK(d, Sure(x)) /\ d \in Device /\ Len(d.aq) <= QueueLen /\ Acts(d) \in Seq(Actions)
      /\ HandledOK(d, Acts(d), Sure(x), {})
  BY OneDevice, DeviceParts
<1>2. dev' = [dev EXCEPT ![x] = e] /\ full' = full /\ (d.host # 0 => d.timer = 0)
  BY DEF AppAddService
<1> HIDE DEF d
<1>3. HandledOK(c, Acts(d), Sure(x), {}) /\ Beside(d, c)
  <2>1. c = d \/ (d.host # 0 /\ c = ServiceAdd(d))
    OBVIOUS
  <2> HIDE DEF c
  <2>2. QED
    BY <1>1, <2>1, ServiceAddOK DEF Assumed, Beside
<1>4. SameCore(c, e) /\ e.timer = d.timer /\ e.aq = d.aq /\ e.held = d.held /\ e.app = "done"
  <2> HIDE DEF c
  <2>1. QED
    BY <1>1, <1>3 DEF SameCore, SameName, HandledOK, BaseOK, Device, Beside
<1>5. Acts(d) = Acts(e) /\ Len(e.aq) <= QueueLen
  BY <1>1, <1>4 DEF Acts
<1>6. CASE d.host = 0
  <2>1. SameCore(d, e) /\ SameTimer(d, e) /\ Acts(e) = Acts(d) \o <<>> /\ <<>> \in Seq(Actions)
    BY <1>1, <1>4, <1>5, <1>6 DEF SameTimer
  <2> HIDE DEF e
  <2>2. DeviceOK(e, Sure(x))
    BY <1>1, <1>5, <2>1, PostedOK
  <2>3. QED
    BY <1>2, <2>2, QuietStep
<1>7. CASE d.host # 0
  <2>1. e.timer = 0
    BY <1>2, <1>4, <1>7
  <2> HIDE DEF c, e
  <2>2. DeviceOK(e, Sure(x))
    BY <1>3, <1>4, <1>5, <2>1, StoppedOK
  <2>3. QED
    BY <1>2, <2>2, QuietStep
<1>8. QED
  BY <1>6, <1>7

LEMMA TimerTickOK ==
    ASSUME Assumed, MdnsInv, NEW x \in Devices, TimerTick(x)
    PROVE MdnsInv'
<1> DEFINE d == dev[x]
           e == Tick(d)
<1>1. DeviceOK(d, Sure(x)) /\ d.app # "off"
  BY OneDevice DEF TimerTick
<1>2. dev' = [dev EXCEPT ![x] = e] /\ full' = full
  BY DEF TimerTick
<1>3. DeviceOK(e, Sure(x))
  <2>1. e = Tick(d)
    OBVIOUS
  <2> HIDE DEF e, d
  <2>2. QED
    BY <1>1, <2>1, TickOK
<1> HIDE DEF e, d
<1>4. QED
  BY <1>2, <1>3, QuietStep

LEMMA TimerPushOK ==
    ASSUME Assumed, MdnsInv, NEW x \in Devices, TimerPush(x)
    PROVE MdnsInv'
<1> DEFINE d == dev[x]
           k == d.timer
           a == <<"tx", d.txq[k].at>>
           e == Pushed(d, a, k)
           still == "push" \notin full'[x]
<1>1. DeviceOK(d, Sure(x)) /\ Due(d, a, k)
  BY OneDevice DEF TimerPush, Due
<1>2. dev' = [dev EXCEPT ![x] = e] /\ Posted(x, d, "push")
  BY DEF TimerPush, Pushed
<1>3. full = [y \in Devices |-> full[y]]
  BY DEF MdnsInv
<1> HIDE DEF d, k, a, e
<1>4. full' = IF HasRoom(d) THEN full ELSE [full EXCEPT ![x] = full[x] \cup {"push"}]
  BY <1>2 DEF Posted
<1>5. full' = [y \in Devices |-> full'[y]] /\ \A y \in Devices : full[y] \subseteq full'[y]
  BY <1>3, <1>4
<1>6. still => Sure(x) /\ HasRoom(d)
  BY <1>3, <1>4 DEF Sure
<1> HIDE DEF still
<1>7. DeviceOK(e, still)
  <2>1. e = Pushed(d, a, k)
    BY DEF e
  <2>2. QED
    BY <1>1, <1>6, <2>1, PushOK DEF Assumed
<1>8. StepOf(x, e)
  BY <1>2, <1>5, <1>7 DEF StepOf, still
<1>9. QED
  BY <1>8, StepKeeps

LEMMA TimerDoneOK ==
    ASSUME Assumed, MdnsInv, NEW x \in Devices, TimerDone(x)
    PROVE MdnsInv'
<1> DEFINE d == dev[x]
           e == [d EXCEPT !.timer = 0]
<1>1. d \in Device /\ HandledOK(d, Acts(d), Sure(x), {}) /\ Len(d.aq) <= QueueLen
  BY OneDevice
<1>2. dev' = [dev EXCEPT ![x] = e] /\ full' = full
  BY DEF TimerDone
<1> HIDE DEF d
<1>3. SameCore(d, e) /\ e.timer = 0 /\ e.aq = d.aq /\ e.held = d.held
  BY <1>1 DEF SameCore, SameName, Device
<1> HIDE DEF e
<1>4. Acts(d) = Acts(e)
  BY <1>3 DEF Acts
<1>5. DeviceOK(e, Sure(x))
  BY <1>1, <1>3, <1>4, StoppedOK
<1>6. QED
  BY <1>2, <1>5, QuietStep

LEMMA ActionSome ==
    ASSUME NEW a \in Actions
    PROVE a # <<>>
<1>1. CASE a \in {None, <<"hostname">>}
  BY <1>1 DEF None
<1>2. CASE a \in {"tx"} \X Nat
  <2>1. PICK n \in Nat : a = <<"tx", n>>
    BY <1>2
  <2>2. QED
    BY <2>1
<1>3. CASE a \in {"rx"} \X Messages
  <2>1. PICK m \in Messages : a = <<"rx", m>>
    BY <1>3
  <2>2. QED
    BY <2>1
<1>4. CASE a \in {"event"} \X Ifaces \X BOOLEAN
  <2>1. PICK i \in Ifaces, b \in BOOLEAN : a = <<"event", i, b>>
    BY <1>4
  <2>2. QED
    BY <2>1
<1>5. QED
  BY <1>1, <1>2, <1>3, <1>4 DEF Actions

LEMMA TakeOK ==
    ASSUME Assumed, MdnsInv, NEW x \in Devices, Take(x)
    PROVE MdnsInv'
<1> DEFINE d == dev[x]
           a == Head(d.aq)
           rest == Tail(d.aq)
           e == [d EXCEPT !.held = a, !.aq = rest, !.out = <<>>]
<1>1. DeviceOK(d, Sure(x)) /\ d \in Device /\ Len(d.aq) <= QueueLen /\ Acts(d) \in Seq(Actions)
  BY OneDevice, DeviceParts
<1>2. dev' = [dev EXCEPT ![x] = e] /\ full' = full /\ d.held = <<>> /\ d.aq # <<>>
  BY DEF Take
<1> HIDE DEF d
<1>3. d.aq \in Seq(Actions) /\ Acts(d) = d.aq
  BY <1>1, <1>2 DEF Device, Acts
<1>4. a \in Actions /\ rest \in Seq(Actions) /\ <<a>> \o rest = d.aq /\ Len(rest) = Len(d.aq) - 1
  <2> DEFINE aq == d.aq
  <2>1. aq \in Seq(Actions) /\ aq # <<>>
    BY <1>2, <1>3
  <2> HIDE DEF aq
  <2>2. Head(aq) \in Actions /\ Tail(aq) \in Seq(Actions) /\ <<Head(aq)>> \o Tail(aq) = aq /\ Len(Tail(aq)) = Len(aq) - 1
    BY <2>1
  <2>3. QED
    BY <2>2 DEF aq
<1>5. a # <<>>
  BY <1>4, ActionSome
<1>6. Len(rest) <= QueueLen
  <2>1. Len(d.aq) \in Nat /\ QueueLen \in Nat
    BY <1>3 DEF Assumed, MdnsAssumption
  <2>2. QED
    BY <1>1, <1>4, <2>1
<1> HIDE DEF a, rest
<1>7. SameCore(d, e) /\ SameTimer(d, e) /\ e.aq = rest /\ e.held = a
  <2>1. <<>> \in Seq(Messages)
    OBVIOUS
  <2>2. e \in Device /\ e.aq = rest /\ e.held = a
    BY <1>1, <1>4, <2>1 DEF Device
  <2>3. QED
    BY <1>1, <2>2 DEF SameCore, SameName, SameTimer, Device
<1> HIDE DEF e
<1>8. Acts(e) = Acts(d) \o <<>> /\ <<>> \in Seq(Actions)
  <2>1. Acts(e) = Acts(d)
    BY <1>3, <1>4, <1>5, <1>7 DEF Acts
  <2>2. Acts(d) \o <<>> = Acts(d)
    BY <1>1
  <2>3. QED
    BY <2>1, <2>2
<1>9. DeviceOK(e, Sure(x))
  BY <1>1, <1>6, <1>7, <1>8, PostedOK
<1>10. QED
  BY <1>2, <1>9, QuietStep

\* What reaches a device of the messages on the network is posted to it.
LEMMA HeardType ==
    ASSUME NEW d, NEW ms \in Seq(Messages)
    PROVE [k \in DOMAIN Heard(d, ms) |-> <<"rx", Heard(d, ms)[k]>>] \in Seq(Actions)
<1> DEFINE h == Heard(d, ms)
<1>1. h \in Seq(Messages)
  <2>1. OnInterfaces(ms, {"sta"}) \in Seq(Messages)
    BY OnInterfacesSpec
  <2>2. QED
    BY <2>1 DEF Heard
<1> HIDE DEF h
<1>2. \A k \in DOMAIN h : <<"rx", h[k]>> \in Actions
  BY <1>1 DEF Actions
<1>3. [k \in DOMAIN h |-> <<"rx", h[k]>>] \in [1 .. Len(h) -> Actions] /\ Len(h) \in Nat
  BY <1>1, <1>2
<1>4. [k \in DOMAIN h |-> <<"rx", h[k]>>] \in Seq(Actions)
  BY <1>3
<1>5. QED
  BY <1>4 DEF h

LEMMA ExecuteOK ==
    ASSUME Assumed, MdnsInv, NEW x \in Devices, Execute(x)
    PROVE MdnsInv'
<1> DEFINE d == dev[x]
           e == Executed(d)
           now == [dev EXCEPT ![x] = e]
<1>1. /\ DeviceOK(d, Sure(x)) /\ d \in Device /\ Len(d.aq) <= QueueLen
      /\ HandledOK(d, Acts(d), Sure(x), {}) /\ d.held # <<>> /\ d.timer = 0
  BY OneDevice DEF Execute
<1>2. HandledOK(e, Acts(e), Sure(x), {}) /\ Done(d, e)
  <2>1. e = Executed(d)
    OBVIOUS
  <2> HIDE DEF e, d
  <2>2. QED
    BY <1>1, <2>1, ExecutedOK DEF Assumed
<1>3. \/ /\ dev' = Deliver(now, x, e.out)
         /\ full' = [y \in Devices |-> full'[y]] /\ \A y \in Devices : full'[y] = full[y] \/ full'[y] = full[y] \cup {"rx"}
      \/ dev' = now /\ full' = full
  <2>1. full = [y \in Devices |-> full[y]]
    BY DEF MdnsInv
  <2> HIDE DEF now, e
  <2>2. QED
    BY <2>1 DEF Execute, now, e
<1> HIDE DEF e, d
<1>4. DeviceOK(e, Sure(x))
  <2>1. SameCore(e, e) /\ e.timer = 0 /\ Len(e.aq) <= QueueLen
    BY <1>1, <1>2 DEF SameCore, SameName, Done, HandledOK, BaseOK
  <2>2. QED
    BY <1>2, <2>1, StoppedOK
<1>5. /\ now = [y \in Devices |-> IF y = x THEN e ELSE dev[y]]
      /\ \A y \in Devices : DeviceOK(now[y], Sure(y))
  <2>1. dev = [y \in Devices |-> dev[y]] /\ \A y \in Devices : DeviceOK(dev[y], Sure(y))
    BY DEF MdnsInv
  <2>2. QED
    BY <1>4, <2>1
<1>6. CASE dev' = now /\ full' = full
  <2>1. dev' = [dev EXCEPT ![x] = e]
    BY <1>6
  <2>2. QED
    BY <1>4, <1>6, <2>1, QuietStep
<1> HIDE DEF now
<1>7. CASE /\ dev' = Deliver(now, x, e.out)
           /\ full' = [y \in Devices |-> full'[y]] /\ \A y \in Devices : full'[y] = full[y] \/ full'[y] = full[y] \cup {"rx"}
  <2>1. dev' = [y \in Devices |-> dev'[y]]
    BY <1>7 DEF Deliver
  <2>2. ASSUME NEW y \in Devices PROVE DeviceOK(dev'[y], Sure(y)')
    <3>1. DeviceOK(now[y], Sure(y))
      BY <1>5
    <3>2. DeviceOK(dev'[y], Sure(y))
      <4>1. CASE y = x
        BY <1>7, <3>1, <4>1 DEF Deliver
      <4>2. CASE y # x
        <5> DEFINE posts == [k \in DOMAIN Heard(now[y], e.out) |-> <<"rx", Heard(now[y], e.out)[k]>>]
        <5>1. dev'[y] = QueuedAll(now[y], posts)
          BY <1>7, <4>2 DEF Deliver
        <5>2. posts \in Seq(Actions)
          BY <1>2, HeardType DEF Done
        <5> HIDE DEF posts
        <5>3. QED
          BY <3>1, <5>1, <5>2, QueuedAllOK DEF Assumed
      <4>3. QED
        BY <4>1, <4>2
    <3>3. Sure(y)' => Sure(y)
      BY <1>7 DEF Sure
    <3>4. QED
      BY <3>2, <3>3, LessSure
  <2>3. QED
    BY <1>7, <2>1, <2>2 DEF MdnsInv
<1>8. QED
  BY <1>3, <1>6, <1>7

LEMMA EventOK ==
    ASSUME Assumed, MdnsInv, NEW x \in Devices, NEW up, up \subseteq Ifaces, NEW posts \in Seq(Actions),
           Event(x, up, posts)
    PROVE MdnsInv'
<1> DEFINE d == dev[x]
           c == [d EXCEPT !.up = up]
           e == QueuedAll(c, posts)
<1>1. DeviceOK(d, Sure(x)) /\ d \in Device /\ Len(d.aq) <= QueueLen /\ Acts(d) \in Seq(Actions)
  BY OneDevice, DeviceParts
<1>2. \/ dev' = [dev EXCEPT ![x] = c] /\ full' = full
      \/ dev' = [dev EXCEPT ![x] = e] /\ Posted(x, c, "event")
  BY DEF Event
<1> HIDE DEF d
<1>3. SameCore(d, c) /\ SameTimer(d, c) /\ c.aq = d.aq /\ c.held = d.held
  BY <1>1 DEF SameCore, SameName, SameTimer, Device
<1> HIDE DEF c
<1>4. Acts(c) = Acts(d) \o <<>> /\ <<>> \in Seq(Actions)
  BY <1>1, <1>3 DEF Acts
<1>5. DeviceOK(c, Sure(x))
  BY <1>1, <1>3, <1>4, PostedOK
<1>6. DeviceOK(e, Sure(x))
  <2>1. e = QueuedAll(c, posts)
    OBVIOUS
  <2> HIDE DEF e
  <2>2. QED
    BY <1>5, <2>1, QueuedAllOK DEF Assumed
<1> HIDE DEF e
<1>7. CASE dev' = [dev EXCEPT ![x] = c] /\ full' = full
  BY <1>5, <1>7, QuietStep
<1>8. CASE dev' = [dev EXCEPT ![x] = e] /\ Posted(x, c, "event")
  BY <1>6, <1>8, PostedStep
<1>9. QED
  BY <1>2, <1>7, <1>8

LEMMA EventsOK ==
    ASSUME Assumed, MdnsInv, NEW x \in Devices, StaUp(x) \/ StaDown(x) \/ ApStart(x)
    PROVE MdnsInv'
<1> DEFINE up == dev[x].up
           on(i) == <<"event", i, TRUE>>
           off == <<"event", "sta", FALSE>>
<1>1. up \subseteq Ifaces /\ "sta" \in Ifaces /\ "ap" \in Ifaces
  BY OneDevice DEF Device, Ifaces
<1>2. on("sta") \in Actions /\ on("ap") \in Actions /\ off \in Actions /\ None \in Actions
  BY <1>1 DEF Actions
<1>3. CASE StaUp(x)
  <2> DEFINE posts == <<on("sta"), None, None>>
  <2>1. Event(x, up \cup {"sta"}, posts)
    BY <1>3 DEF StaUp
  <2> HIDE DEF on
  <2>2. posts \in Seq(Actions) /\ up \cup {"sta"} \subseteq Ifaces
    BY <1>1, <1>2
  <2> HIDE DEF posts, up
  <2>3. QED
    BY <2>1, <2>2, EventOK
<1>4. CASE StaDown(x)
  <2> DEFINE posts == <<off, None>>
  <2>1. Event(x, up \ {"sta"}, posts)
    BY <1>4 DEF StaDown
  <2> HIDE DEF off
  <2>2. posts \in Seq(Actions) /\ up \ {"sta"} \subseteq Ifaces
    BY <1>1, <1>2
  <2> HIDE DEF posts, up
  <2>3. QED
    BY <2>1, <2>2, EventOK
<1>5. CASE ApStart(x)
  <2> DEFINE posts == <<on("ap")>>
  <2>1. Event(x, up \cup {"ap"}, posts)
    BY <1>5 DEF ApStart
  <2> HIDE DEF on
  <2>2. posts \in Seq(Actions) /\ up \cup {"ap"} \subseteq Ifaces
    BY <1>1, <1>2
  <2> HIDE DEF posts, up
  <2>3. QED
    BY <2>1, <2>2, EventOK
<1>6. QED
  BY <1>3, <1>4, <1>5

LEMMA HearForeignOK ==
    ASSUME Assumed, MdnsInv, NEW x \in Devices, HearForeign(x)
    PROVE MdnsInv'
<1> DEFINE d == dev[x]
<1>1. DeviceOK(d, Sure(x)) /\ d \in Device
  BY OneDevice
<1>2. PICK i \in Ifaces, m \in Foreign(d) :
         /\ dev' = [dev EXCEPT ![x] = Queued(d, <<"rx", [m EXCEPT !.i = i]>>)]
         /\ Posted(x, d, "rx")
  BY DEF HearForeign
<1> HIDE DEF d
<1> DEFINE h == [m EXCEPT !.i = i]
           a == <<"rx", h>>
           e == Queued(d, a)
<1>3. a \in Actions
  <2>1. m \in Messages
    BY <1>1, <1>2 DEF Assumed, ForeignReadable
  <2>2. h \in Messages
    BY <2>1 DEF Messages
  <2> HIDE DEF h
  <2>3. QED
    BY <2>2 DEF Actions
<1>4. dev' = [dev EXCEPT ![x] = e]
  BY <1>2
<1>5. DeviceOK(e, Sure(x))
  <2>1. e = Queued(d, a)
    OBVIOUS
  <2> HIDE DEF e, a
  <2>2. QED
    BY <1>1, <1>3, <2>1, QueuedOne DEF Assumed
<1> HIDE DEF e
<1>6. QED
  BY <1>2, <1>4, <1>5, PostedStep

LEMMA MdnsInit ==
    ASSUME Assumed, Init
    PROVE MdnsInv
<1>1. dev = [x \in Devices |-> dev[x]] /\ full = [x \in Devices |-> full[x]]
  BY DEF Init
<1>2. ASSUME NEW x \in Devices PROVE DeviceOK(dev[x], Sure(x))
  <2> DEFINE up == IF x \in env.on THEN env.up ELSE {}
             d == dev[x]
  <2>1. d = NewDevice(x, up) /\ up \subseteq Ifaces
    BY DEF Init, Assumed, ScenariosOK
  <2> HIDE DEF up, d
  <2>2. /\ d.ip = Ip[x] /\ d.host = 0 /\ d.svc = 0 /\ d.up = up /\ d.ready = {} /\ d.pcb = [i \in Ifaces |-> IdlePcb]
        /\ d.txq = <<>> /\ d.aq = <<>> /\ d.held = <<>> /\ d.timer = 0
    BY <2>1 DEF NewDevice
  <2>3. IdlePcb \in Pcbs /\ ~Probing(IdlePcb) /\ ~IdlePcb.running
    BY DEF IdlePcb, Pcbs, OFF, Probing, PROBE_1, PROBE_3
  <2>4. NotProbed \in Counts /\ Ip[x] \in Nat
    BY DEF NotProbed, Counts, Assumed, IpsAreNumbers
  <2>5. d \in Device
    BY <2>1, <2>3, <2>4 DEF NewDevice, Device
  <2>6. Marked(d.txq) = {} /\ Acts(d) = <<>> /\ QueueOK(d.txq)
    BY <2>2 DEF Marked, Acts, QueueOK
  <2>7. MarkOK(d.txq, Acts(d))
    <3>1. [k \in {} |-> k] \in [{} -> DOMAIN Acts(d)]
      OBVIOUS
    <3>2. QED
      BY <2>6, <3>1 DEF MarkOK
  <2>8. HandledOK(d, Acts(d), Sure(x), {})
    BY <2>2, <2>3, <2>5, <2>6, <2>7 DEF HandledOK, BaseOK, NamelessIdle, MachinesBut
  <2>9. SameCore(d, d) /\ Len(d.aq) <= QueueLen
    BY <2>2, <2>5 DEF SameCore, SameName, Assumed, MdnsAssumption
  <2>10. DeviceOK(d, Sure(x))
    BY <2>2, <2>8, <2>9, StoppedOK
  <2>11. QED
    BY <2>10 DEF d
<1>3. QED
  BY <1>1, <1>2 DEF MdnsInv

LEMMA MdnsStep ==
    ASSUME Assumed, MdnsInv, [Next]_vars
    PROVE MdnsInv'
<1>1. CASE UNCHANGED vars
  <2>1. dev' = dev /\ full' = full
    BY <1>1 DEF vars
  <2>2. QED
    BY <2>1 DEF MdnsInv, Sure
<1>2. ASSUME NEW x \in Devices, App(x) PROVE MdnsInv'
  BY <1>2, AppInitOK, AppSetHostnameOK, AppNamedOK, AppAddServiceOK DEF App
<1>3. ASSUME NEW x \in Devices, Timer(x) PROVE MdnsInv'
  BY <1>3, TimerTickOK, TimerPushOK, TimerDoneOK DEF Timer
<1>4. ASSUME NEW x \in Devices, Task(x) PROVE MdnsInv'
  BY <1>4, TakeOK, ExecuteOK DEF Task
<1>5. ASSUME NEW x \in Devices, Environment(x) PROVE MdnsInv'
  BY <1>5, EventsOK, HearForeignOK DEF Environment
<1>6. QED
  BY <1>1, <1>2, <1>3, <1>4, <1>5 DEF Next

-----------------------------------------------------------------------------
(* What was asked before it is claimed.                                    *)

\* The packets say the same on the same interface.
SameTalk(x, y) == x.i = y.i /\ x.resp = y.resp /\ x.qs = y.qs /\ x.an = y.an /\ x.ns = y.ns

\* Of interface i there is nothing in r that was not in q.
NothingNew(q, r, i) == \A x \in ToSet(r) : x.i = i => \E y \in ToSet(q) : SameTalk(x, y)

\* What an interface has asked for counts as long as its name, its machine and
\* its packets are the same.
LEMMA EarnedKept ==
    ASSUME NEW d, NEW e, NEW i, SameName(d, e), e.probed[i] = d.probed[i], e.pcb[i] = d.pcb[i],
           NothingNew(d.txq, e.txq, i)
    PROVE (HostEarned(d, i) => HostEarned(e, i)) /\ (SvcEarned(d, i) => SvcEarned(e, i))
<1>1. Asked(e, i) = Asked(d, i)
  BY DEF Asked, SameName
<1>2. SvcEarned(d, i) => SvcEarned(e, i)
  BY <1>1 DEF SvcEarned, SameName
<1>3. ASSUME NEW x \in ToSet(e.txq), x.i = i, \A p \in ToSet(d.txq) : p.i = i => AsksHost(d, p)
      PROVE AsksHost(e, x)
  BY <1>3 DEF AsksHost, NothingNew, SameTalk, SameName
<1>4. HostEarned(d, i) => HostEarned(e, i)
  BY <1>1, <1>3 DEF HostEarned, SameName
<1>5. QED
  BY <1>2, <1>4

\* A device has what it claims and probes, when it had it before.
LEMMA OwnKept ==
    ASSUME NEW d, NEW e, OwnOK(d), d.host # 0 => e.host # 0, d.svc # 0 => e.svc # 0,
           \A x \in ToSet(e.txq) : HasOwn(e, x) \/ \E y \in ToSet(d.txq) : SameTalk(x, y),
           \A i \in Ifaces : e.pcb[i].svcs # {} => d.pcb[i].svcs # {} \/ e.svc # 0
    PROVE OwnOK(e)
<1>1. ASSUME NEW x \in ToSet(e.txq) PROVE HasOwn(e, x)
  BY DEF OwnOK, HasOwn, SameTalk
<1>2. ASSUME NEW i \in Ifaces, e.pcb[i].svcs # {} PROVE e.svc # 0
  BY <1>2 DEF OwnOK
<1>3. QED
  BY <1>1, <1>2 DEF OwnOK

LEMMA InsertedSet ==
    ASSUME NEW q \in Seq(Packets), NEW r, NEW place, NEW x, Inserted(r, q, place, x)
    PROVE \A y \in ToSet(r) : y = x \/ y \in ToSet(q)
<1> DEFINE n == Len(q)
<1>1. n \in Nat /\ DOMAIN q = 1 .. n
  OBVIOUS
<1>2. /\ place \in 1 .. n + 1 /\ DOMAIN r = 1 .. n + 1 /\ r[place] = x
      /\ \A k \in 1 .. n : k < place => r[k] = q[k]
      /\ \A k \in 1 .. n : k >= place => r[k + 1] = q[k]
  BY DEF Inserted
<1> HIDE DEF n
<1>3. ASSUME NEW k \in 1 .. n + 1 PROVE r[k] = x \/ r[k] \in ToSet(q)
  <2>1. CASE k < place
    <3>1. k \in 1 .. n
      BY <1>1, <1>2, <2>1
    <3>2. QED
      BY <1>1, <1>2, <2>1, <3>1 DEF ToSet
  <2>2. CASE k = place
    BY <1>2, <2>2
  <2>3. CASE k > place
    <3>1. k - 1 \in 1 .. n /\ k - 1 >= place /\ (k - 1) + 1 = k
      BY <1>1, <1>2, <2>3
    <3>2. QED
      BY <1>1, <1>2, <3>1 DEF ToSet
  <2>4. QED
    BY <1>1, <1>2, <2>1, <2>2, <2>3
<1>4. QED
  BY <1>2, <1>3 DEF ToSet

\* What is in the queue after a packet was put into it.
LEMMA SentSet ==
    ASSUME NEW d \in Device, QueueOK(d.txq), NEW p \in Packets, NEW delay \in 0 .. Second,
           NEW e, e = SendAfter(d, p, delay)
    PROVE  /\ OtherTxq(d, e, e.txq)
           /\ \A x \in ToSet(e.txq) : x = [p EXCEPT !.left = delay] \/ x \in ToSet(d.txq)
<1>1. d.txq \in Seq(Packets)
  BY DEF Device
<1>2. PICK r \in Seq(Packets), place \in 1 .. Len(d.txq) + 1 :
              /\ SendAfter(d, p, delay) = [d EXCEPT !.txq = r]
              /\ Inserted(r, d.txq, place, [p EXCEPT !.left = delay])
  BY <1>1, SendAfterSpec
<1>3. OtherTxq(d, e, r)
  BY <1>2, SetTxq
<1>4. e.txq = r
  BY <1>3 DEF OtherTxq
<1>5. QED
  BY <1>1, <1>2, <1>3, <1>4, InsertedSet

\* What is in the queue after an interface was cleared.
LEMMA ClearedSet ==
    ASSUME NEW d \in Device, NEW i \in Ifaces, NEW e, e = ClearTxQueueIf(d, i)
    PROVE  /\ OtherTxq(d, e, e.txq)
           /\ \A x \in ToSet(e.txq) : x \in ToSet(d.txq) /\ x.i # i
<1> DEFINE f == OnInterfaces(d.txq, Ifaces \ {i})
<1>1. d.txq \in Seq(Packets)
  BY DEF Device
<1>2. /\ f \in Seq(Packets)
      /\ \E h : /\ Embeds(h, f, d.txq)
                /\ \A k \in DOMAIN f : f[k].i \in Ifaces \ {i}
  BY <1>1, OnInterfacesSpec
<1> HIDE DEF f
<1>3. e = [d EXCEPT !.txq = f]
  BY DEF ClearTxQueueIf, f
<1>4. OtherTxq(d, e, f)
  BY <1>2, <1>3, SetTxq
<1>5. e.txq = f
  BY <1>4 DEF OtherTxq
<1>6. \A x \in ToSet(f) : x \in ToSet(d.txq) /\ x.i # i
  BY <1>2 DEF Embeds, ToSet
<1>7. QED
  BY <1>4, <1>5, <1>6

Asks(d, i, svcs, ip, p) ==
    /\ ip => AsksHost(d, p)
    /\ p.i = i /\ ~p.resp /\ p.an = <<>> /\ ("SRV" \in ToSet(p.ns) => svcs # {})

\* A probe asks for the host name when it is to be claimed, and offers a service
\* only if there is one to claim.
LEMMA ProbeAsks ==
    ASSUME NEW d \in Device, NEW i \in Ifaces, NEW svcs \in SUBSET {"http"}, NEW ip \in BOOLEAN
    PROVE  Asks(d, i, svcs, ip, ProbePacket(d, i, svcs, ip))
<1> DEFINE qi == [t |-> "ANY", n |-> Instance(d)]
           qh == [t |-> "ANY", n |-> <<"host", d.host>>]
           inst == IF svcs = {} THEN <<>> ELSE <<qi>>
           srv == IF svcs = {} THEN <<>> ELSE <<"SRV">>
           qs == IF ip THEN HostQuestions(d, inst) ELSE inst
           ns == IF ip THEN HostAnswers(srv) ELSE srv
           at == Alloc(d, {})
           p == ProbePacket(d, i, svcs, ip)
<1>1. d.host \in Nat
  BY DEF Device
<1>2. qi \in Questions /\ qh \in Questions
  BY <1>1 DEF Questions, Names, Instance
<1>3. p = [Packet(at, i) EXCEPT !.qs = qs, !.ns = ns]
  BY DEF ProbePacket
<1>4. inst \in Seq(Questions)
  <2> HIDE DEF qi
  <2>1. <<>> \in Seq(Questions) /\ <<qi>> \in Seq(Questions)
    BY <1>2
  <2>2. QED
    BY <2>1
<1>5. ip => qh \in ToSet(qs)
  <2> SUFFICES ASSUME ip PROVE qh \in ToSet(qs)
    OBVIOUS
  <2>1. qs = IF qh \in ToSet(inst) THEN inst ELSE Append(inst, qh)
    BY DEF HostQuestions, AddQuestion
  <2> HIDE DEF qs, inst, qh
  <2>2. ToSet(Append(inst, qh)) = ToSet(inst) \cup {qh}
    BY <1>2, <1>4, ToSetAppend
  <2>3. QED
    BY <2>1, <2>2
<1>6. "SRV" \in ToSet(ns) => svcs # {}
  <2> SUFFICES ASSUME svcs = {} PROVE "SRV" \notin ToSet(ns)
    OBVIOUS
  <2>1. ns = <<>> \/ ns = <<"A">>
    BY DEF HostAnswers, AddAnswer, ToSet
  <2>2. "SRV" \notin ToSet(<<>>) /\ "SRV" \notin ToSet(<<"A">>)
    BY DEF ToSet
  <2> HIDE DEF ns
  <2>3. QED
    BY <2>1, <2>2
<1> HIDE DEF qs, ns, at, p
<1>7. p.qs = qs /\ p.ns = ns /\ p.i = i /\ ~p.resp /\ p.an = <<>>
  BY <1>3 DEF Packet
<1>8. QED
  BY <1>5, <1>6, <1>7 DEF AsksHost, qh, Asks, p

-----------------------------------------------------------------------------
(* What the handlers leave earned.                                         *)

NoClaims(d) == \A m \in ToSet(d.out) : \A r \in ToSet(m.an) : ~IsClaim(m, r)

\* The host name is earned on the interfaces hs and the service on ss.
Asking(d, hs, ss) ==
    /\ OwnOK(d)
    /\ \A j \in hs : HostEarned(d, j)
    /\ \A j \in ss : SvcEarned(d, j)

\* Also nothing was claimed during the step.
Fair(d, hs, ss) ==
    /\ OwnOK(d) /\ NoClaims(d)
    /\ \A j \in hs : HostEarned(d, j)
    /\ \A j \in ss : SvcEarned(d, j)


LEMMA InitProbeAsks ==
    ASSUME EnoughAddrs, NEW d, BaseOK(d, <<>>, FALSE),
           d.host # 0, NEW i \in Ifaces, NoneOf(d.txq, i),
           NEW svcs \in SUBSET {"http"}, NEW ip \in BOOLEAN, svcs # {} => d.svc # 0,
           NEW hs \in SUBSET Ifaces, NEW ss \in SUBSET Ifaces, Asking(d, hs, ss),
           NEW e, e = InitProbeNewService(d, i, svcs, ip)
    PROVE  /\ Asking(e, hs, ss) /\ SameNet(d, e) /\ SameName(d, e)
           /\ ip => HostEarned(e, i)
           /\ svcs # {} \/ (Probing(d.pcb[i]) /\ d.pcb[i].svcs # {}) \/ d.svc = 0 => SvcEarned(e, i)
<1> DEFINE pcb == d.pcb[i]
           all == svcs \cup (IF Probing(pcb) THEN pcb.svcs ELSE {})
           withIp == ip \/ pcb.ip
           new == [state |-> PROBE_1, svcs |-> all, ip |-> withIp, running |-> TRUE]
           c == [d EXCEPT !.pcb[i] = new]
           p == ProbePacket(c, i, all, withIp)
           s == [p EXCEPT !.left = Quarter]
<1>1. d \in Device /\ pcb \in Pcbs /\ QueueOK(d.txq) /\ OwnOK(d)
  BY DEF BaseOK, Device, Asking
<1>2. all \in SUBSET {"http"} /\ withIp \in BOOLEAN /\ (all # {} => d.svc # 0)
  BY <1>1 DEF Pcbs, OwnOK
<1>3. /\ ip => withIp
      /\ ~withIp => ~pcb.ip
      /\ svcs # {} \/ (Probing(pcb) /\ pcb.svcs # {}) => all # {}
      /\ all = {} => ~(Probing(pcb) /\ pcb.svcs # {})
  OBVIOUS
<1>4. e = SendAfter(c, ProbePacket(d, i, all, withIp), Quarter)
  BY DEF InitProbeNewService
<1>5. ProbePacket(d, i, all, withIp) = p
  BY DEF ProbePacket, Alloc, Instance, HostQuestions
<1> HIDE DEF all, withIp
<1>6. new \in Pcbs /\ new.state = PROBE_1 /\ new.svcs = all /\ new.ip = withIp
  BY <1>2 DEF Pcbs, PROBE_1, RUNNING
<1> HIDE DEF new
<1>7. OtherPcb(d, c, i, new)
  BY <1>1, <1>6, SetPcb
<1> HIDE DEF c
<1>8. c \in Device /\ c.txq = d.txq
  BY <1>7 DEF OtherPcb
<1>9. p \in Packets /\ Asks(c, i, all, withIp, p)
  <2>1. p = ProbePacket(c, i, all, withIp)
    OBVIOUS
  <2> HIDE DEF p
  <2>2. p \in Packets
    BY <1>2, <1>8, <2>1, ProbePacketOK DEF Probe
  <2>3. Asks(c, i, all, withIp, p)
    BY <1>2, <1>8, <2>1, ProbeAsks
  <2>4. QED
    BY <2>2, <2>3
<1> HIDE DEF p, s
<1>10. /\ withIp => AsksHost(c, p)
       /\ p.i = i /\ ~p.resp /\ p.an = <<>> /\ ("SRV" \in ToSet(p.ns) => all # {})
  BY <1>9 DEF Asks
<1>11. Quarter \in 0 .. Second
  BY DEF Quarter, Second
<1>12. /\ OtherTxq(c, e, e.txq)
       /\ \A x \in ToSet(e.txq) : x = s \/ x \in ToSet(d.txq)
  BY <1>1, <1>4, <1>5, <1>8, <1>9, <1>11, SentSet DEF s
<1>13. s.qs = p.qs /\ s.an = p.an /\ s.ns = p.ns /\ s.i = i /\ s.resp = p.resp
  BY <1>10, <1>9 DEF Packets, s
<1>14. SameName(d, e) /\ SameNet(d, e) /\ e.pcb[i] = new /\ \A j \in Ifaces : j # i => e.pcb[j] = d.pcb[j]
  BY <1>7, <1>12 DEF OtherPcb, OtherTxq, SameName, SameNet
<1>15. OwnOK(e)
  <2>1. ASSUME NEW x \in ToSet(e.txq) PROVE HasOwn(e, x) \/ \E y \in ToSet(d.txq) : SameTalk(x, y)
    <3>1. CASE x = s
      <4>1. ToSet(<<>>) = {}
        BY DEF ToSet
      <4>2. HasOwn(e, s)
        BY <1>2, <1>10, <1>13, <1>14, <4>1 DEF HasOwn, SameName
      <4>3. QED
        BY <3>1, <4>2
    <3>2. CASE x \in ToSet(d.txq)
      BY <3>2 DEF SameTalk
    <3>3. QED
      BY <1>12, <3>1, <3>2
  <2>2. \A j \in Ifaces : e.pcb[j].svcs # {} => d.pcb[j].svcs # {} \/ e.svc # 0
    BY <1>2, <1>6, <1>14 DEF SameName
  <2>3. (d.host # 0 => e.host # 0) /\ (d.svc # 0 => e.svc # 0)
    BY <1>14 DEF SameName
  <2>4. QED
    BY <1>1, <2>1, <2>2, <2>3, OwnKept
<1>16. NoneOf(d.txq, i) => \A x \in ToSet(d.txq) : x.i # i
  BY DEF NoneOf, Of, ToSet
<1>17. Probing(e.pcb[i]) /\ e.pcb[i].state - PROBE_1 = 0
  BY <1>6, <1>14 DEF Probing, PROBE_1, PROBE_3
<1>18. Asked(e, i) = Asked(d, i) /\ Asked(d, i).host \in Nat /\ Asked(d, i).svc \in Nat
  <2>1. d.probed[i] \in Counts /\ d.host \in Nat
    BY <1>1 DEF Device
  <2>2. QED
    BY <1>14, <2>1 DEF Asked, SameName, SameNet, Counts
<1>19. withIp \/ HostEarned(d, i) => HostEarned(e, i)
  <2>1. ASSUME withIp PROVE HostEarned(e, i)
    <3>4. e.pcb[i].ip
      BY <1>6, <1>14, <2>1
    <3>5. Asked(e, i).host >= e.pcb[i].state - PROBE_1
      BY <1>17, <1>18
    <3>1. Counted(Asked(e, i).host, e.pcb[i], e.pcb[i].ip)
      BY <1>17, <3>4, <3>5, Zenon DEF Counted
    <3>2. ASSUME NEW x \in ToSet(e.txq), x.i = i PROVE AsksHost(e, x)
      BY <1>10, <1>12, <1>13, <1>14, <1>16, <2>1, <3>2, <1>7 DEF AsksHost, SameName, OtherPcb
    <3>3. QED
      BY <3>1, <3>2 DEF HostEarned
  <2>2. ASSUME ~withIp, HostEarned(d, i) PROVE HostEarned(e, i)
    <3>1. Asked(d, i).host = 3
      BY <1>3, <2>2 DEF HostEarned, Counted
    <3>2. QED
      BY <1>6, <1>14, <1>18, <2>2, <3>1 DEF HostEarned, Counted
  <2>3. QED
    BY <2>1, <2>2
<1>20. all # {} \/ d.svc = 0 \/ SvcEarned(d, i) => SvcEarned(e, i)
  <2>1. ASSUME all # {} PROVE SvcEarned(e, i)
    BY <1>6, <1>14, <1>17, <1>18, <2>1 DEF SvcEarned, Counted
  <2>2. ASSUME d.svc = 0 PROVE SvcEarned(e, i)
    BY <1>14, <2>2 DEF SvcEarned, SameName
  <2>3. ASSUME all = {}, d.svc # 0, SvcEarned(d, i) PROVE SvcEarned(e, i)
    <3>1. Asked(d, i).svc = 3
      BY <1>3, <2>3 DEF SvcEarned, Counted
    <3>2. QED
      BY <1>18, <3>1 DEF SvcEarned, Counted
  <2>4. QED
    BY <2>1, <2>2, <2>3
<1>21. ASSUME NEW j \in Ifaces, j # i
       PROVE (HostEarned(d, j) => HostEarned(e, j)) /\ (SvcEarned(d, j) => SvcEarned(e, j))
  <2>1. NothingNew(d.txq, e.txq, j)
    BY <1>12, <1>13, <1>21 DEF NothingNew, SameTalk
  <2>2. e.probed[j] = d.probed[j] /\ e.pcb[j] = d.pcb[j]
    BY <1>14, <1>21 DEF SameNet
  <2>3. QED
    BY <1>14, <2>1, <2>2, EarnedKept
<1>23. QED
  BY <1>3, <1>14, <1>15, <1>19, <1>20, <1>21 DEF Asking

\* Packets may go, and nothing else.
LEMMA AskingKept ==
    ASSUME NEW d, NEW e, NEW hs \in SUBSET Ifaces, NEW ss \in SUBSET Ifaces, Asking(d, hs, ss),
           SameName(d, e), e.probed = d.probed, e.pcb = d.pcb,
           ToSet(e.txq) \subseteq ToSet(d.txq)
    PROVE Asking(e, hs, ss)
<1>1. \A x \in ToSet(e.txq) : \E y \in ToSet(d.txq) : SameTalk(x, y)
  BY DEF SameTalk
<1>2. OwnOK(e)
  BY <1>1, OwnKept DEF SameName, Asking, OwnOK
<1>3. \A j \in Ifaces : NothingNew(d.txq, e.txq, j)
  BY <1>1 DEF NothingNew
<1>4. \A j \in Ifaces : /\ HostEarned(d, j) => HostEarned(e, j)
                        /\ SvcEarned(d, j) => SvcEarned(e, j)
  BY <1>3, EarnedKept
<1>6. QED
  BY <1>2, <1>4 DEF Asking

LEMMA InitPcbProbeAsks ==
    ASSUME EnoughAddrs, NEW d, NEW is, HandledOK(d, <<>>, FALSE, is),
           NEW i \in Ifaces, NEW svcs \in SUBSET {"http"}, NEW ip \in BOOLEAN, svcs # {} => d.svc # 0,
           NEW hs \in SUBSET Ifaces, NEW ss \in SUBSET Ifaces, Asking(d, hs, ss),
           NEW e, e = InitPcbProbe(d, i, svcs, ip)
    PROVE  /\ Asking(e, hs, ss) /\ SameNet(d, e) /\ SameName(d, e)
           /\ ip => HostEarned(e, i)
           /\ svcs # {} \/ d.svc = 0 => SvcEarned(e, i)
<1> DEFINE c == ClearTxQueueIf(d, i)
           pcb == d.pcb[i]
<1>1. /\ HandledOK(c, <<>>, FALSE, is \cup {i}) /\ NoneOf(c.txq, i)
  BY ClearIfOK
<1>2. /\ d \in Device /\ pcb \in Pcbs /\ d.svc \in {0, d.host}
      /\ BaseOK(c, <<>>, FALSE) /\ c \in Device
  BY <1>1 DEF HandledOK, BaseOK, Device
<1>3. OtherTxq(d, c, c.txq) /\ ToSet(c.txq) \subseteq ToSet(d.txq)
  BY <1>2, ClearedSet
<1> HIDE DEF c
<1>4. SameName(d, c) /\ SameNet(d, c) /\ c.pcb = d.pcb
  BY <1>3 DEF OtherTxq
<1>5. Asking(c, hs, ss)
  BY <1>3, <1>4, AskingKept DEF SameNet
<1>6. CASE d.host = 0
  <2> DEFINE new == [pcb EXCEPT !.state = RUNNING]
  <2>1. e = [c EXCEPT !.pcb[i] = new]
    BY <1>4, <1>6 DEF InitPcbProbe, c
  <2>2. new \in Pcbs /\ new.svcs = pcb.svcs
    BY <1>2 DEF Pcbs, RUNNING, PROBE_1
  <2> HIDE DEF new
  <2>3. OtherPcb(c, e, i, new)
    BY <1>2, <2>1, <2>2, SetPcb
  <2>4. SameName(d, e) /\ SameNet(d, e) /\ e.txq = c.txq
    BY <1>4, <2>3 DEF OtherPcb, SameName, SameNet
  <2>5. e.host = 0 /\ e.svc = 0
    BY <1>2, <1>6, <2>4 DEF SameName
  <2>6. \A j \in Ifaces : HostEarned(e, j) /\ SvcEarned(e, j)
    BY <2>5 DEF HostEarned, SvcEarned
  <2>7. OwnOK(e)
    <3>1. \A x \in ToSet(e.txq) : \E y \in ToSet(c.txq) : SameTalk(x, y)
      BY <2>4 DEF SameTalk
    <3>2. \A j \in Ifaces : e.pcb[j].svcs # {} => c.pcb[j].svcs # {}
      BY <1>4, <2>2, <2>3 DEF OtherPcb
    <3>3. OwnOK(c) /\ (c.host # 0 => e.host # 0) /\ (c.svc # 0 => e.svc # 0)
      BY <1>5, <2>3 DEF Asking, OtherPcb, SameName
    <3>4. QED
      BY <3>1, <3>2, <3>3, OwnKept
  <2>9. QED
    BY <2>4, <2>6, <2>7 DEF Asking
<1>7. ASSUME d.host # 0, NEW s \in SUBSET {"http"}, s \subseteq svcs,
             e = InitProbeNewService(c, i, s, ip)
      PROVE  /\ Asking(e, hs, ss) /\ SameNet(d, e) /\ SameName(d, e)
             /\ ip => HostEarned(e, i)
             /\ s # {} \/ (Probing(pcb) /\ pcb.svcs # {}) \/ d.svc = 0 => SvcEarned(e, i)
  <2>1. c.host # 0 /\ (s # {} => c.svc # 0) /\ c.pcb[i] = pcb
    BY <1>4, <1>7 DEF SameName
  <2>2. /\ Asking(e, hs, ss) /\ SameNet(c, e) /\ SameName(c, e)
        /\ ip => HostEarned(e, i)
        /\ s # {} \/ (Probing(c.pcb[i]) /\ c.pcb[i].svcs # {}) \/ c.svc = 0 => SvcEarned(e, i)
    BY <1>1, <1>2, <1>5, <1>7, <2>1, InitProbeAsks
  <2>3. SameNet(d, e) /\ SameName(d, e) /\ c.svc = d.svc
    BY <1>4, <2>2 DEF SameNet, SameName
  <2>4. QED
    BY <2>1, <2>2, <2>3
<1>8. CASE d.host # 0 /\ Probing(pcb)
  <2>1. e = InitProbeNewService(c, i, svcs \ pcb.svcs, ip)
    BY <1>8 DEF InitPcbProbe, c
  <2>2. svcs # {} => svcs \ pcb.svcs # {} \/ pcb.svcs # {}
    OBVIOUS
  <2>3. svcs \ pcb.svcs \in SUBSET {"http"} /\ svcs \ pcb.svcs \subseteq svcs
    OBVIOUS
  <2>4. QED
    BY <1>7, <1>8, <2>1, <2>2, <2>3
<1>9. CASE d.host # 0 /\ ~Probing(pcb)
  <2>1. e = InitProbeNewService(c, i, svcs, ip)
    BY <1>9 DEF InitPcbProbe, c
  <2>2. QED
    BY <1>7, <1>9, <2>1
<1>10. QED
  BY <1>6, <1>8, <1>9

Probed(d, e, i, ip, hs, ss) ==
    /\ Asking(e, hs, ss) /\ SameNet(d, e) /\ SameName(d, e)
    /\ i \in d.ready => (ip => HostEarned(e, i)) /\ SvcEarned(e, i)

\* The service that is to be claimed, if there is one, is probed again.
LEMMA ProbePcbAsks ==
    ASSUME EnoughAddrs, NEW d, NEW is, HandledOK(d, <<>>, FALSE, is),
           NEW i \in Ifaces, NEW svcs \in SUBSET {"http"}, NEW ip \in BOOLEAN, NEW clearOld \in BOOLEAN,
           clearOld => d.host # 0, svcs = {} <=> d.svc = 0,
           NEW hs \in SUBSET Ifaces, NEW ss \in SUBSET Ifaces, Asking(d, hs, ss),
           NEW e, e = ProbePcb(d, i, svcs, ip, clearOld)
    PROVE  Probed(d, e, i, ip, hs, ss)
<1>1. d \in Device /\ d.pcb[i] \in Pcbs
  BY DEF HandledOK, BaseOK, Device
<1>2. CASE i \notin d.ready
  BY <1>2 DEF ProbePcb, IfReady, SameNet, SameName, Probed
<1>3. CASE i \in d.ready /\ ~clearOld
  <2>1. e = InitPcbProbe(d, i, svcs, ip)
    BY <1>3 DEF ProbePcb, IfReady
  <2>2. svcs # {} \/ d.svc = 0
    OBVIOUS
  <2>3. QED
    BY <2>1, <2>2, InitPcbProbeAsks DEF Probed
<1>4. CASE i \in d.ready /\ clearOld
  <2> DEFINE new == [d.pcb[i] EXCEPT !.svcs = {}, !.running = FALSE]
             c == [d EXCEPT !.pcb[i] = new]
  <2>1. c = [d EXCEPT !.pcb[i].svcs = {}, !.pcb[i].running = FALSE]
    BY <1>1 DEF Device
  <2>2. e = InitPcbProbe(c, i, svcs, ip)
    BY <1>4, <2>1 DEF ProbePcb, IfReady
  <2>3. new \in Pcbs /\ new.svcs = {} /\ new.state = d.pcb[i].state /\ new.ip = d.pcb[i].ip
    BY <1>1 DEF Pcbs
  <2> HIDE DEF new
  <2>4. OtherPcb(d, c, i, new)
    BY <1>1, <2>3, SetPcb
  <2> HIDE DEF c
  <2>5. BaseOK(c, <<>>, FALSE) /\ SameName(d, c) /\ SameNet(d, c) /\ c.txq = d.txq
    BY <2>4 DEF HandledOK, BaseOK, OtherPcb, SameName
  <2>6. NamelessIdle(c)
    BY <1>4, <2>5 DEF NamelessIdle, SameName
  <2>7. MachinesBut(c, Ifaces)
    BY <2>5 DEF MachinesBut, BaseOK, Device
  <2>8. HandledOK(c, <<>>, FALSE, Ifaces)
    BY <2>5, <2>6, <2>7 DEF HandledOK
  <2>9. \A j \in Ifaces : NothingNew(d.txq, c.txq, j)
    BY <2>5 DEF NothingNew, SameTalk
  <2>10. \A j \in Ifaces : j # i =>
            (HostEarned(d, j) => HostEarned(c, j)) /\ (SvcEarned(d, j) => SvcEarned(c, j))
    BY <2>4, <2>5, <2>9, EarnedKept DEF OtherPcb, SameNet
  <2>11. HostEarned(d, i) => HostEarned(c, i)
    <3>1. Asked(c, i) = Asked(d, i) /\ \A p : AsksHost(c, p) <=> AsksHost(d, p)
      BY <2>5 DEF Asked, SameName, SameNet, AsksHost
    <3>2. c.pcb[i] = new
      BY <2>4 DEF OtherPcb
    <3>3. Probing(new) <=> Probing(d.pcb[i])
      BY <2>3 DEF Probing
    <3>4. \A n : Counted(n, new, new.ip) <=> Counted(n, d.pcb[i], d.pcb[i].ip)
      BY <2>3, <3>3 DEF Counted
    <3>5. QED
      BY <2>3, <2>5, <3>1, <3>2, <3>3, <3>4 DEF HostEarned, SameName
  <2>12. Asking(c, hs, ss \ {i})
    <3>1. \A x \in ToSet(c.txq) : \E y \in ToSet(d.txq) : SameTalk(x, y)
      BY <2>5 DEF SameTalk
    <3>2. \A j \in Ifaces : c.pcb[j].svcs # {} => d.pcb[j].svcs # {}
      BY <2>3, <2>4 DEF OtherPcb
    <3>3. OwnOK(d) /\ (d.host # 0 => c.host # 0) /\ (d.svc # 0 => c.svc # 0)
      BY <2>5 DEF Asking, SameName
    <3>4. OwnOK(c)
      BY <3>1, <3>2, <3>3, OwnKept
    <3>6. QED
      BY <2>10, <2>11, <3>4 DEF Asking
  <2>13. (svcs # {} <=> c.svc # 0) /\ (svcs # {} \/ c.svc = 0) /\ (ss \ {i}) \in SUBSET Ifaces
    BY <2>5 DEF SameName
  <2>14. /\ Asking(e, hs, ss \ {i}) /\ SameNet(c, e) /\ SameName(c, e)
         /\ ip => HostEarned(e, i)
         /\ SvcEarned(e, i)
    BY <2>2, <2>8, <2>12, <2>13, InitPcbProbeAsks
  <2>15. Asking(e, hs, ss)
    BY <2>14 DEF Asking
  <2>16. QED
    BY <2>5, <2>14, <2>15 DEF SameNet, SameName, Probed
<1>5. QED
  BY <1>2, <1>3, <1>4

LEMMA ProbeAllAsks ==
    ASSUME EnoughAddrs, NEW d, NEW is, HandledOK(d, <<>>, FALSE, is),
           NEW svcs \in SUBSET {"http"}, NEW ip \in BOOLEAN, NEW clearOld \in BOOLEAN,
           clearOld => d.host # 0, svcs = {} <=> d.svc = 0,
           NEW hs \in SUBSET Ifaces, Asking(d, hs, {}),
           NEW e, e = ProbeAllPcbs(d, svcs, ip, clearOld)
    PROVE  Asking(e, IF ip THEN d.ready ELSE hs, d.ready) /\ SameNet(d, e) /\ SameName(d, e)
<1> DEFINE c == ProbePcb(d, "sta", svcs, ip, clearOld)
           r == d.ready
           one == IF ip THEN r \cap {"sta"} ELSE hs
<1>1. "sta" \in Ifaces /\ "ap" \in Ifaces /\ r \in SUBSET Ifaces /\ {} \in SUBSET Ifaces
  BY DEF Ifaces, HandledOK, BaseOK, Device
<1>2. HandledOK(c, <<>>, FALSE, is \ {"sta"})
  BY <1>1, ProbePcbOK
<1>3. Probed(d, c, "sta", ip, hs, {})
  BY <1>1, ProbePcbAsks
<1>4. e = ProbePcb(c, "ap", svcs, ip, clearOld)
  BY DEF ProbeAllPcbs
<1> HIDE DEF c
<1>5. c.ready = r /\ (clearOld => c.host # 0) /\ (svcs = {} <=> c.svc = 0)
  BY <1>3 DEF SameName, SameNet, Probed
<1>6. Asking(c, one, r \cap {"sta"})
  BY <1>3 DEF Asking, Probed
<1>7. one \in SUBSET Ifaces /\ (r \cap {"sta"}) \in SUBSET Ifaces
  BY <1>1
<1> HIDE DEF one
<1>8. Probed(c, e, "ap", ip, one, r \cap {"sta"})
  BY <1>1, <1>2, <1>4, <1>5, <1>6, <1>7, ProbePcbAsks
<1>9. \A j \in r : j = "sta" \/ j = "ap"
  BY <1>1 DEF Ifaces
<1>10. Asking(e, IF ip THEN r ELSE hs, r)
  BY <1>5, <1>8, <1>9 DEF Asking, one, Probed
<1>11. QED
  BY <1>3, <1>8, <1>10 DEF SameNet, SameName, Probed

\* Nothing was claimed on the way.
LEMMA AskingFair ==
    ASSUME NEW d, NoClaims(d), NEW e, e.out = d.out, NEW hs, NEW ss, Asking(e, hs, ss)
    PROVE Fair(e, hs, ss)
  BY DEF NoClaims, Asking, Fair

\* Packets may go, and nothing else.
LEMMA FairKept ==
    ASSUME NEW d, NEW e, NEW hs \in SUBSET Ifaces, NEW ss \in SUBSET Ifaces, Fair(d, hs, ss),
           SameName(d, e), e.probed = d.probed, e.out = d.out, e.pcb = d.pcb,
           ToSet(e.txq) \subseteq ToSet(d.txq)
    PROVE Fair(e, hs, ss)
<1>1. Asking(d, hs, ss) /\ NoClaims(d)
  BY DEF Fair, Asking
<1>2. QED
  BY <1>1, AskingKept, AskingFair

LEMMA InitPcbProbeFair ==
    ASSUME EnoughAddrs, NEW d, NEW is, HandledOK(d, <<>>, FALSE, is),
           NEW i \in Ifaces, NEW svcs \in SUBSET {"http"}, NEW ip \in BOOLEAN, svcs # {} => d.svc # 0,
           NEW hs \in SUBSET Ifaces, NEW ss \in SUBSET Ifaces, Fair(d, hs, ss),
           NEW e, e = InitPcbProbe(d, i, svcs, ip)
    PROVE  /\ Fair(e, hs, ss) /\ SameNet(d, e) /\ SameName(d, e)
           /\ ip => HostEarned(e, i)
           /\ svcs # {} \/ d.svc = 0 => SvcEarned(e, i)
<1>1. Asking(d, hs, ss) /\ NoClaims(d)
  BY DEF Fair, Asking
<1>2. /\ Asking(e, hs, ss) /\ SameNet(d, e) /\ SameName(d, e)
      /\ ip => HostEarned(e, i)
      /\ svcs # {} \/ d.svc = 0 => SvcEarned(e, i)
  BY <1>1, InitPcbProbeAsks
<1>3. Fair(e, hs, ss)
  BY <1>1, <1>2, AskingFair DEF SameNet
<1>4. QED
  BY <1>2, <1>3

LEMMA RestartAllFair ==
    ASSUME EnoughAddrs, NEW d, BaseOK(d, <<>>, FALSE), d.host # 0, OwnOK(d), NoClaims(d),
           NEW e, e = RestartAllPcbs(d)
    PROVE  Fair(e, d.ready, d.ready) /\ SameNet(d, e) /\ SameName(d, e)
<1> DEFINE c == ClearTxQueue(d)
<1>1. c = [d EXCEPT !.txq = <<>>] /\ d \in Device /\ <<>> \in Seq(Packets)
  BY DEF ClearTxQueue, BaseOK
<1>2. OtherTxq(d, c, <<>>)
  BY <1>1, SetTxq
<1>3. e = ProbeAllPcbs(c, Services(d), TRUE, TRUE)
  BY DEF RestartAllPcbs
<1> HIDE DEF c
<1>4. BaseOK(c, <<>>, FALSE)
  BY <1>2 DEF BaseOK, OtherTxq, SameName, QueueOK
<1>5. c.host # 0 /\ NamelessIdle(c)
  BY <1>2 DEF OtherTxq, SameName, NamelessIdle
<1>6. MachinesBut(c, Ifaces)
  BY <1>2 DEF MachinesBut, OtherTxq, Device
<1>7. HandledOK(c, <<>>, FALSE, Ifaces)
  BY <1>4, <1>5, <1>6 DEF HandledOK
<1>8. Services(d) \in SUBSET {"http"} /\ (Services(d) = {} <=> d.svc = 0)
  BY DEF Services
<1>9. ToSet(c.txq) = {} /\ SameName(d, c) /\ SameNet(d, c) /\ c.pcb = d.pcb /\ c.svc = d.svc
  BY <1>2 DEF OtherTxq, ToSet, SameName
<1>10. Asking(d, {}, {}) /\ {} \in SUBSET Ifaces
  BY DEF Asking
<1>11. Asking(c, {}, {})
  BY <1>9, <1>10, AskingKept DEF SameNet
<1>12. Asking(e, c.ready, c.ready) /\ SameNet(c, e) /\ SameName(c, e)
  BY <1>3, <1>5, <1>7, <1>8, <1>9, <1>10, <1>11, ProbeAllAsks
<1>13. Fair(e, c.ready, c.ready)
  BY <1>9, <1>12, AskingFair DEF SameNet
<1>14. QED
  BY <1>9, <1>12, <1>13 DEF SameNet, SameName

-----------------------------------------------------------------------------
(* What is sent counts, and goodbyes claim nothing.                        *)

\* The counts for the name of the device, once more for what p asks.
LEMMA CountsUp ==
    ASSUME NEW d \in Device, NEW p \in Packets, NEW e, SameName(d, e),
           e.probed[p.i] = CountProbe(d, p)
    PROVE  LET a == Asked(d, p.i)
               b == Asked(e, p.i)
           IN  /\ e.probed[p.i] = b
               /\ a.host \in 0 .. 3 /\ b.host \in a.host .. 3
               /\ a.svc \in 0 .. 3 /\ b.svc \in a.svc .. 3
               /\ ~p.resp /\ AsksHost(d, p) => b.host = 3 \/ b.host = a.host + 1
               /\ ~p.resp /\ [t |-> "ANY", n |-> Instance(d)] \in ToSet(p.qs) =>
                    b.svc = 3 \/ b.svc = a.svc + 1
<1> DEFINE asked(n) == \E k \in DOMAIN p.qs : p.qs[k] = [t |-> "ANY", n |-> n]
           old == d.probed[p.i]
           base == IF old.n = d.host THEN old ELSE [n |-> d.host, host |-> 0, svc |-> 0]
           more(c, n) == IF asked(n) /\ ~p.resp /\ c < 3 THEN c + 1 ELSE c
<1>1. d.host \in Nat /\ old \in Counts
  BY DEF Device, Packets
<1>2. Asked(d, p.i) = base
  BY DEF Asked
<1>3. \A n : asked(n) <=> [t |-> "ANY", n |-> n] \in ToSet(p.qs)
  BY DEF ToSet
<1> HIDE DEF old, asked
<1>4. base \in Counts /\ base.n = d.host
  BY <1>1 DEF Counts
<1> HIDE DEF base
<1>5. ASSUME NEW c \in 0 .. 3, NEW n
      PROVE more(c, n) \in c .. 3 /\ (asked(n) /\ ~p.resp => more(c, n) = 3 \/ more(c, n) = c + 1)
  BY <1>5
<1>6. CountProbe(d, p) = [base EXCEPT !.host = more(base.host, <<"host", d.host>>),
                                      !.svc = more(base.svc, Instance(d))]
  BY DEF CountProbe, base, old, asked
<1> HIDE DEF more
<1>7. base.host \in 0 .. 3 /\ base.svc \in 0 .. 3
  BY <1>4 DEF Counts
<1>8. /\ CountProbe(d, p).n = d.host
      /\ CountProbe(d, p).host = more(base.host, <<"host", d.host>>)
      /\ CountProbe(d, p).svc = more(base.svc, Instance(d))
  BY <1>4, <1>6 DEF Counts
<1>9. Asked(e, p.i) = e.probed[p.i]
  BY <1>8 DEF Asked, SameName
<1>10. QED
  BY <1>2, <1>3, <1>5, <1>7, <1>8, <1>9 DEF AsksHost

\* What Dispatch does.
LEMMA Dispatched ==
    ASSUME NEW d \in Device, NEW p \in Packets, NEW e, e = Dispatch(d, p)
    PROVE  /\ OtherNet(d, e)
           /\ \A m \in ToSet(e.out) : m \in ToSet(d.out) \/ (CanSend(d, p.i) /\ m = Message(d, p))
           /\ \A j \in Ifaces : j # p.i => e.probed[j] = d.probed[j]
           /\ CanSend(d, p.i) => e.probed[p.i] = CountProbe(d, p)
           /\ ~CanSend(d, p.i) => e = d
<1>1. OtherNet(d, e)
  BY DispatchOK
<1>2. CASE ~CanSend(d, p.i)
  BY <1>1, <1>2 DEF Dispatch
<1>3. CASE CanSend(d, p.i)
  <2> DEFINE m == Message(d, p)
             c == CountProbe(d, p)
             i == p.i
  <2>1. d.out \in Seq(Messages) /\ d.probed \in [Ifaces -> Counts] /\ i \in Ifaces
    BY DEF Device, Packets
  <2>2. e = [d EXCEPT !.out = Append(d.out, m), !.probed = [d.probed EXCEPT ![i] = c]]
    BY <1>3, <2>1 DEF Dispatch
  <2> HIDE DEF m, c
  <2>3. e.out = Append(d.out, m) /\ e.probed = [d.probed EXCEPT ![i] = c]
    BY <2>2 DEF Device
  <2>4. e.probed[i] = c /\ \A j \in Ifaces : j # i => e.probed[j] = d.probed[j]
    BY <2>1, <2>3
  <2>5. \A x \in ToSet(e.out) : x \in ToSet(d.out) \/ x = m
    <3> DEFINE q == d.out
    <3>1. /\ DOMAIN q = 1 .. Len(q) /\ Len(q) \in Nat /\ DOMAIN Append(q, m) = 1 .. Len(q) + 1
          /\ \A k \in 1 .. Len(q) : Append(q, m)[k] = q[k]
          /\ Append(q, m)[Len(q) + 1] = m
      BY <2>1
    <3>2. \A k \in 1 .. Len(q) + 1 : k \in 1 .. Len(q) \/ k = Len(q) + 1
      BY <3>1
    <3>3. QED
      BY <2>3, <3>1, <3>2 DEF ToSet
  <2>6. QED
    BY <1>1, <1>3, <2>4, <2>5 DEF m, c
<1>4. QED
  BY <1>2, <1>3

\* What counted before counts after it.
LEMMA EarnedStays ==
    ASSUME NEW d \in Device, NEW p \in Packets, NEW e, e = Dispatch(d, p), NEW j \in Ifaces
    PROVE (HostEarned(d, j) => HostEarned(e, j)) /\ (SvcEarned(d, j) => SvcEarned(e, j))
<1>1. /\ OtherNet(d, e)
      /\ j # p.i => e.probed[j] = d.probed[j]
      /\ CanSend(d, p.i) => e.probed[p.i] = CountProbe(d, p)
      /\ ~CanSend(d, p.i) => e = d
  BY Dispatched
<1>2. SameName(d, e) /\ e.txq = d.txq /\ e.pcb = d.pcb
  BY <1>1 DEF OtherNet
<1>3. NothingNew(d.txq, e.txq, j)
  BY <1>2 DEF NothingNew, SameTalk
<1>4. CASE j # p.i \/ ~CanSend(d, p.i)
  BY <1>1, <1>2, <1>3, <1>4, EarnedKept
<1>5. CASE j = p.i /\ CanSend(d, p.i)
  <2>1. /\ Asked(d, j).host \in 0 .. 3 /\ Asked(e, j).host \in Asked(d, j).host .. 3
        /\ Asked(d, j).svc \in 0 .. 3 /\ Asked(e, j).svc \in Asked(d, j).svc .. 3
    BY <1>1, <1>2, <1>5, CountsUp
  <2>2. PROBE_1 = 3 /\ (Probing(d.pcb[j]) => d.pcb[j].state \in Nat)
    BY DEF PROBE_1, Probing, PROBE_3
  <2>3. \A among : Counted(Asked(d, j).host, d.pcb[j], among) => Counted(Asked(e, j).host, d.pcb[j], among)
    BY <2>1, <2>2 DEF Counted
  <2>4. \A among : Counted(Asked(d, j).svc, d.pcb[j], among) => Counted(Asked(e, j).svc, d.pcb[j], among)
    BY <2>1, <2>2 DEF Counted
  <2>5. \A x : AsksHost(e, x) <=> AsksHost(d, x)
    BY <1>2 DEF AsksHost, SameName
  <2>6. HostEarned(d, j) => HostEarned(e, j)
    BY <1>2, <2>3, <2>5 DEF HostEarned, SameName
  <2>7. SvcEarned(d, j) => SvcEarned(e, j)
    BY <1>2, <2>4 DEF SvcEarned, SameName
  <2>8. QED
    BY <2>6, <2>7
<1>6. QED
  BY <1>4, <1>5

LEMMA OwnStays ==
    ASSUME NEW d, NEW e, OwnOK(d), OtherNet(d, e)
    PROVE OwnOK(e)
  BY DEF OwnOK, HasOwn, OtherNet, SameName

\* The records of a packet.
LEMMA SaidOf ==
    ASSUME NEW d, NEW p \in Packets, NEW r \in ToSet(Message(d, p).an)
    PROVE \E t \in ToSet(p.an) \cap Kinds : r = Resolve(d, p, t)
<1>1. p.an \in Seq(Kinds)
  BY DEF Packets
<1>2. Message(d, p).an = ResolveAll(d, p, p.an)
  BY DEF Message
<1>3. PICK k \in DOMAIN p.an : r = Resolve(d, p, p.an[k])
  BY <1>1, <1>2 DEF ResolveAll, ToSet
<1>4. p.an[k] \in Kinds /\ p.an[k] \in ToSet(p.an)
  BY <1>1, <1>3 DEF ToSet
<1>5. QED
  BY <1>3, <1>4

\* A packet that claims nothing.
LEMMA SendQuietly ==
    ASSUME NEW d \in Device, NEW p \in Packets, ~p.resp \/ p.bye,
           NEW hs \in SUBSET Ifaces, NEW ss \in SUBSET Ifaces, Fair(d, hs, ss),
           NEW e, e = Dispatch(d, p)
    PROVE Fair(e, hs, ss)
<1>1. OwnOK(e)
  BY DispatchOK, OwnStays DEF Fair
<1>2. \A j \in Ifaces : (HostEarned(d, j) => HostEarned(e, j)) /\ (SvcEarned(d, j) => SvcEarned(e, j))
  BY EarnedStays
<1>3. ASSUME NEW r \in ToSet(Message(d, p).an) PROVE ~IsClaim(Message(d, p), r)
  <2>1. PICK t \in ToSet(p.an) \cap Kinds : r = Resolve(d, p, t)
    BY <1>3, SaidOf
  <2>2. CASE ~p.resp
    BY <2>2 DEF IsClaim, Message
  <2>3. CASE p.bye
    <3>1. t = "SDPTR" => r.t = "SDPTR"
      BY <2>1 DEF Resolve
    <3>2. t # "SDPTR" => ~r.long
      BY <2>1, <2>3 DEF Resolve, Kinds
    <3>3. QED
      BY <3>1, <3>2 DEF IsClaim
  <2>4. QED
    BY <2>2, <2>3
<1>4. NoClaims(e)
  <2>1. \A m \in ToSet(e.out) : m \in ToSet(d.out) \/ m = Message(d, p)
    BY Dispatched
  <2>2. QED
    BY <1>3, <2>1 DEF NoClaims, Fair
<1>5. QED
  BY <1>1, <1>2, <1>4 DEF Fair

\* What a device has earned and claimed on the interfaces is.
Spoken(d, is) == OwnOK(d) /\ \A j \in is : EarnedOK(d, j) /\ ClaimsOK(d, j)

LEMMA FairSpoken ==
    ASSUME NEW d, NEW is, Fair(d, is, is)
    PROVE Spoken(d, is)
  BY DEF Fair, Spoken, NoClaims, ClaimsOK, EarnedOK

\* A packet that claims what the device has, on an interface that does not probe.
LEMMA SendFairly ==
    ASSUME NEW d \in Device, NEW p \in Packets, HasOwn(d, p),
           NEW is \in SUBSET Ifaces, Fair(d, is, is),
           p.i \in is /\ p.resp => ~Probing(d.pcb[p.i]),
           NEW e, e = Dispatch(d, p)
    PROVE Spoken(e, is)
<1>1. OwnOK(e)
  BY DispatchOK, OwnStays DEF Fair
<1>2. \A j \in is : EarnedOK(e, j)
  BY EarnedStays DEF Fair, EarnedOK
<1>3. ASSUME NEW j \in is PROVE ClaimsOK(e, j)
  <2> SUFFICES ASSUME NEW m \in ToSet(e.out), NEW r \in ToSet(m.an), m.i = j, IsClaim(m, r)
               PROVE  /\ e.probed[j].n = r.n[2]
                      /\ (IF r.t = "A" THEN e.probed[j].host ELSE e.probed[j].svc) = 3
    BY DEF ClaimsOK
  <2>1. m \in ToSet(d.out) \/ (CanSend(d, p.i) /\ m = Message(d, p))
    BY Dispatched
  <2>2. m \notin ToSet(d.out)
    BY DEF Fair, NoClaims
  <2>3. CanSend(d, p.i) /\ m = Message(d, p) /\ j = p.i /\ p.resp
    BY <2>1, <2>2 DEF Message, IsClaim
  <2>4. OtherNet(d, e) /\ e.probed[j] = CountProbe(d, p)
    BY <2>3, Dispatched
  <2>5. SameName(d, e)
    BY <2>4 DEF OtherNet
  <2>6. /\ e.probed[j] = Asked(e, j)
        /\ Asked(e, j).host \in Asked(d, j).host .. 3
        /\ Asked(e, j).svc \in Asked(d, j).svc .. 3
    <3>1. e.probed[p.i] = CountProbe(d, p)
      BY <2>3, <2>4
    <3>2. /\ e.probed[p.i] = Asked(e, p.i)
          /\ Asked(e, p.i).host \in Asked(d, p.i).host .. 3
          /\ Asked(e, p.i).svc \in Asked(d, p.i).svc .. 3
      BY <2>5, <3>1, CountsUp
    <3>3. QED
      BY <2>3, <3>2
  <2>7. d.host # 0 /\ ~Probing(d.pcb[j])
    BY <1>3, <2>3 DEF HasOwn
  <2>8. Asked(d, j).host = 3
    BY <1>3, <2>7 DEF Fair, HostEarned, Counted
  <2>9. e.probed[j].host = 3
    BY <2>6, <2>8
  <2>10. e.probed[j].n = d.host
    BY <2>5, <2>6 DEF Asked, SameName
  <2>11. PICK t \in ToSet(p.an) \cap Kinds : r = Resolve(d, p, t)
    BY <2>3, SaidOf
  <2>12. r.t = t
    BY <2>11 DEF Resolve, Kinds
  <2>13. CASE t = "A"
    <3>1. r.n[2] = d.host
      BY <2>11, <2>13 DEF Resolve
    <3>2. QED
      BY <2>9, <2>10, <2>12, <2>13, <3>1
  <2>14. CASE t = "SRV"
    <3>1. r.n[2] = d.host
      BY <2>11, <2>14 DEF Resolve, Instance
    <3>2. d.svc # 0
      BY <2>11, <2>14 DEF HasOwn
    <3>3. Asked(d, j).svc = 3
      BY <1>3, <2>7, <3>2 DEF Fair, SvcEarned, Counted
    <3>4. e.probed[j].svc = 3
      BY <2>6, <3>3
    <3>5. QED
      BY <2>10, <2>12, <2>14, <3>1, <3>4
  <2>15. QED
    BY <2>12, <2>13, <2>14 DEF IsClaim
<1>4. QED
  BY <1>1, <1>2, <1>3 DEF Spoken

LEMMA SendByeFair ==
    ASSUME NEW d \in Device, NEW i \in Ifaces, NEW svcs, NEW ip \in BOOLEAN,
           NEW hs \in SUBSET Ifaces, NEW ss \in SUBSET Ifaces, Fair(d, hs, ss),
           NEW e, e = SendBye(d, i, svcs, ip)
    PROVE Fair(e, hs, ss)
<1> DEFINE ptr == IF svcs = {} THEN <<>> ELSE <<"PTR">>
           an == IF ip THEN HostAnswers(ptr) ELSE ptr
           k == Packet(0, i)
           p == [k EXCEPT !.resp = TRUE, !.bye = TRUE, !.an = an]
<1>1. ptr \in Seq(Kinds) /\ <<>> \in Seq(Kinds) /\ <<>> \in Seq(Questions)
  <2>1. "PTR" \in Kinds
    BY DEF Kinds
  <2>2. <<>> \in Seq(Kinds) /\ <<"PTR">> \in Seq(Kinds)
    BY <2>1
  <2>3. QED
    BY <2>2
<1> HIDE DEF ptr
<1>2. an \in Seq(Kinds)
  <2>1. AddAnswer(ptr, "A") \in Seq(Kinds)
    BY <1>1 DEF AddAnswer, Kinds
  <2>2. QED
    BY <1>1, <2>1 DEF HostAnswers
<1>3. e = Dispatch(d, p)
  BY DEF SendBye, ptr
<1>4. k = [at |-> 0, i |-> i, left |-> 0, queued |-> FALSE, resp |-> FALSE, bye |-> FALSE,
           qs |-> <<>>, an |-> <<>>, ns |-> <<>>, ar |-> <<>>]
  BY DEF Packet
<1>5. p = [k EXCEPT !.resp = TRUE, !.bye = TRUE, !.an = an]
  OBVIOUS
<1> HIDE DEF an, p, k
<1>6. p = [at |-> 0, i |-> i, left |-> 0, queued |-> FALSE, resp |-> TRUE, bye |-> TRUE,
           qs |-> <<>>, an |-> an, ns |-> <<>>, ar |-> <<>>]
  BY <1>4, <1>5
<1>7. p \in Packets /\ p.bye
  BY <1>1, <1>2, <1>6 DEF Packets, Second
<1>8. QED
  BY <1>3, <1>7, SendQuietly

LEMMA SendByeAllFair ==
    ASSUME NEW d \in Device, NEW ip \in BOOLEAN, Fair(d, {}, {}),
           NEW e, e = SendByeAllPcbs(d, ip)
    PROVE Fair(e, {}, {})
<1> DEFINE one(c, i) == IF IfReady(c, i) /\ c.pcb[i].state = RUNNING
                        THEN SendBye(c, i, Services(c), ip) ELSE c
<1>1. ASSUME NEW c \in Device, NEW i \in Ifaces, Fair(c, {}, {})
      PROVE one(c, i) \in Device /\ Fair(one(c, i), {}, {})
  <2>1. SendBye(c, i, Services(c), ip) \in Device
    BY SendByeOK DEF OtherNet
  <2>2. Fair(SendBye(c, i, Services(c), ip), {}, {})
    BY <1>1, SendByeFair
  <2>3. QED
    BY <1>1, <2>1, <2>2
<1>2. "sta" \in Ifaces /\ "ap" \in Ifaces
  BY DEF Ifaces
<1>3. e = IF d.host = 0 \/ d.svc = 0 THEN d ELSE one(one(d, "sta"), "ap")
  BY DEF SendByeAllPcbs
<1> HIDE DEF one
<1>4. one(d, "sta") \in Device /\ Fair(one(d, "sta"), {}, {})
  BY <1>1, <1>2
<1>5. Fair(one(one(d, "sta"), "ap"), {}, {})
  BY <1>1, <1>2, <1>4
<1>6. QED
  BY <1>3, <1>5

LEMMA RenameFair ==
    ASSUME NEW d \in Device, OwnOK(d), NoClaims(d), NEW h \in Nat \ {0}, NEW e, e = Rename(d, h)
    PROVE OwnOK(e) /\ NoClaims(e) /\ e.ready = d.ready
<1> DEFINE v == IF d.svc = d.host /\ d.svc # 0 THEN h ELSE d.svc
<1>1. d.svc # 0 => v # 0
  OBVIOUS
<1>2. e = [[d EXCEPT !.svc = v] EXCEPT !.host = h]
  BY DEF Rename, RemapSelfService
<1> HIDE DEF v
<1>3. /\ e.svc = v /\ e.host = h /\ e.txq = d.txq /\ e.pcb = d.pcb /\ e.out = d.out /\ e.ready = d.ready
  BY <1>2 DEF Device
<1>4. \A x \in ToSet(e.txq) : \E y \in ToSet(d.txq) : SameTalk(x, y)
  BY <1>3 DEF SameTalk
<1>5. OwnOK(e)
  BY <1>1, <1>3, <1>4, OwnKept
<1>6. QED
  BY <1>3, <1>5 DEF NoClaims

LEMMA TakeNextNameFair ==
    ASSUME EnoughAddrs, NEW d, NEW is, HandledOK(d, <<>>, FALSE, is), OwnOK(d), NoClaims(d),
           NEW e, e = TakeNextName(d)
    PROVE Fair(e, d.ready, d.ready) /\ e.ready = d.ready /\ e.host # 0
<1> DEFINE h == Mangle(d.host)
           c == Rename(d, h)
<1>1. BaseOK(d, <<>>, FALSE) /\ d \in Device /\ d.host \in Nat
  BY DEF HandledOK, BaseOK, Device
<1>2. h \in Nat \ {0}
  BY <1>1 DEF Mangle
<1>3. e = RestartAllPcbs(c)
  BY DEF TakeNextName
<1> HIDE DEF h
<1>4. BaseOK(c, <<>>, FALSE) /\ c.host = h
  BY <1>1, <1>2, RenameOK
<1>5. OwnOK(c) /\ NoClaims(c) /\ c.ready = d.ready
  BY <1>1, <1>2, RenameFair
<1> HIDE DEF c
<1>6. Fair(e, c.ready, c.ready) /\ SameNet(c, e) /\ SameName(c, e)
  BY <1>2, <1>3, <1>4, <1>5, RestartAllFair
<1>7. QED
  BY <1>2, <1>4, <1>5, <1>6 DEF SameNet, SameName

LEMMA HostnameSetFair ==
    ASSUME EnoughAddrs, NEW d, NEW is, HandledOK(d, <<>>, FALSE, is), Fair(d, {}, {}),
           NEW h \in Nat \ {0}, NEW e, e = HostnameSet(d, h)
    PROVE Fair(e, d.ready, d.ready) /\ e.ready = d.ready
<1> DEFINE b == SendByeAllPcbs(d, TRUE)
           c == Rename(b, h)
<1>1. d \in Device
  BY DEF HandledOK, BaseOK
<1>2. OtherNet(d, b) /\ Fair(b, {}, {})
  BY <1>1, SendByeAllOK, SendByeAllFair
<1>3. e = RestartAllPcbs(c)
  BY DEF HostnameSet
<1> HIDE DEF b
<1>4. BaseOK(b, <<>>, FALSE) /\ b \in Device /\ b.ready = d.ready
  BY <1>2, OtherNetOK DEF OtherNet, HandledOK
<1>5. BaseOK(c, <<>>, FALSE) /\ c.host = h
  BY <1>4, RenameOK
<1>6. OwnOK(c) /\ NoClaims(c) /\ c.ready = b.ready
  BY <1>2, <1>4, RenameFair DEF Fair
<1> HIDE DEF c
<1>7. Fair(e, c.ready, c.ready) /\ SameNet(c, e)
  BY <1>3, <1>5, <1>6, RestartAllFair
<1>8. QED
  BY <1>4, <1>6, <1>7 DEF SameNet

LEMMA ServiceAddAsks ==
    ASSUME EnoughAddrs, NEW d, NEW is, HandledOK(d, <<>>, FALSE, is), d.host # 0,
           NEW hs \in SUBSET Ifaces, Asking(d, hs, {}),
           NEW e, e = ServiceAdd(d)
    PROVE Asking(e, hs, d.ready) /\ SameNet(d, e)
<1> DEFINE c == CreateService(d)
<1>1. d \in Device /\ d.host \in Nat
  BY DEF HandledOK, BaseOK, Device
<1>2. c = [d EXCEPT !.svc = d.host]
  BY DEF CreateService
<1>3. e = ProbeAllPcbs(c, {"http"}, FALSE, FALSE)
  BY DEF ServiceAdd
<1> HIDE DEF c
<1>4. /\ c \in Device /\ c.txq = d.txq /\ c.pcb = d.pcb /\ c.ready = d.ready
      /\ c.host = d.host /\ c.svc = d.host /\ c.probed = d.probed /\ c.out = d.out /\ c.named = d.named
  BY <1>1, <1>2 DEF Device
<1>5. BaseOK(c, <<>>, FALSE) /\ NamelessIdle(c)
  BY <1>4 DEF HandledOK, BaseOK, NamelessIdle
<1>6. MachinesBut(c, Ifaces)
  BY <1>4 DEF MachinesBut, Device
<1>7. HandledOK(c, <<>>, FALSE, Ifaces)
  BY <1>5, <1>6 DEF HandledOK
<1>8. OwnOK(c)
  <2>1. \A x \in ToSet(c.txq) : \E y \in ToSet(d.txq) : SameTalk(x, y)
    BY <1>4 DEF SameTalk
  <2>2. QED
    BY <1>4, <2>1, OwnKept DEF Asking
<1>9. ASSUME NEW j \in hs PROVE HostEarned(c, j)
  <2>1. Asked(c, j) = Asked(d, j) /\ \A p : AsksHost(c, p) <=> AsksHost(d, p)
    BY <1>4 DEF Asked, AsksHost
  <2>2. QED
    BY <1>4, <1>9, <2>1 DEF Asking, HostEarned
<1>10. Asking(c, hs, {})
  BY <1>4, <1>8, <1>9 DEF Asking
<1>11. {"http"} \in SUBSET {"http"} /\ ({"http"} = {} <=> c.svc = 0)
  BY <1>4
<1>12. Asking(e, IF FALSE THEN c.ready ELSE hs, c.ready) /\ SameNet(c, e) /\ SameName(c, e)
  BY <1>3, <1>7, <1>10, <1>11, ProbeAllAsks
<1>13. QED
  BY <1>4, <1>12 DEF SameNet

\* An interface that joins starts to probe.
LEMMA PcbEnableFair ==
    ASSUME EnoughAddrs, NEW d, HandledOK(d, <<>>, FALSE, {}), NEW i \in Ifaces,
           NEW is \in SUBSET Ifaces, Fair(d, is, is), NEW e, e = PcbEnable(d, i)
    PROVE  /\ Fair(e, is \cup (e.ready \ d.ready), is \cup (e.ready \ d.ready))
           /\ e.ready \ d.ready \subseteq {i} \cap d.up /\ e.ready \subseteq d.ready \cup {i}
<1> DEFINE c == IfInit(d, i)
           ready == d.ready \cup {i}
<1>1. d \in Device
  BY DEF HandledOK, BaseOK
<1>2. e = IF IfReady(c, i) THEN RestartPcb(c, i) ELSE d
  BY DEF PcbEnable
<1>3. CASE ~IfReady(c, i)
  <2>1. is \cup (d.ready \ d.ready) = is
    OBVIOUS
  <2>2. e = d
    BY <1>2, <1>3
  <2>3. QED
    BY <2>1, <2>2
<1>4. CASE IfReady(c, i)
  <2>1. c = d \/ (i \in d.up /\ c = [d EXCEPT !.ready = ready])
    BY DEF IfInit, CanJoin
  <2>2. ready \in SUBSET Ifaces
    BY <1>1 DEF Device
  <2>3. /\ c \in Device /\ c.txq = d.txq /\ c.pcb = d.pcb /\ SameName(d, c)
        /\ c.probed = d.probed /\ c.out = d.out
        /\ c.ready = d.ready \/ (i \in d.up /\ c.ready = ready)
    <3> HIDE DEF c
    <3>1. CASE c = d
      BY <1>1, <3>1 DEF SameName
    <3>2. CASE i \in d.up /\ c = [d EXCEPT !.ready = ready]
      <4> HIDE DEF ready
      <4>1. QED
        BY <1>1, <2>2, <3>2 DEF Device, SameName
    <3>3. QED
      BY <2>1, <3>1, <3>2
  <2> HIDE DEF c
  <2>4. BaseOK(c, <<>>, FALSE) /\ NamelessIdle(c) /\ MachinesBut(c, Ifaces)
    BY <2>3 DEF HandledOK, BaseOK, NamelessIdle, SameName, MachinesBut, Device
  <2>5. HandledOK(c, <<>>, FALSE, Ifaces)
    BY <2>4 DEF HandledOK
  <2>6. /\ Services(c) \in SUBSET {"http"} /\ e = InitPcbProbe(c, i, Services(c), TRUE)
        /\ Services(c) # {} => c.svc # 0
        /\ Services(c) # {} \/ c.svc = 0
    BY <1>2, <1>4 DEF Services, RestartPcb
  <2>7. Fair(c, is, is)
    BY <2>3, FairKept
  <2>8. /\ Fair(e, is, is) /\ SameNet(c, e)
        /\ TRUE => HostEarned(e, i)
        /\ Services(c) # {} \/ c.svc = 0 => SvcEarned(e, i)
    BY <2>5, <2>6, <2>7, InitPcbProbeFair
  <2>9. e.ready = c.ready /\ HostEarned(e, i) /\ SvcEarned(e, i)
    BY <2>6, <2>8 DEF SameNet
  <2>10. e.ready \ d.ready \subseteq {i} \cap d.up /\ e.ready \subseteq d.ready \cup {i}
    BY <2>3, <2>9
  <2>11. Fair(e, is \cup (e.ready \ d.ready), is \cup (e.ready \ d.ready))
    BY <2>8, <2>9, <2>10 DEF Fair
  <2>12. QED
    BY <2>10, <2>11
<1>5. QED
  BY <1>3, <1>4

LEMMA PcbDisableFair ==
    ASSUME NEW d, HandledOK(d, <<>>, FALSE, {}), NEW i \in Ifaces,
           NEW is \in SUBSET Ifaces, Fair(d, is, is), NEW e, e = PcbDisable(d, i)
    PROVE  Fair(e, is \ {i}, is \ {i}) /\ e.ready = d.ready \ {i}
<1>1. d \in Device /\ d.pcb[i] \in Pcbs /\ d.pcb \in [Ifaces -> Pcbs] /\ d.probed \in [Ifaces -> Counts]
  BY DEF HandledOK, BaseOK, Device
<1>2. SUFFICES /\ SameName(d, e) /\ e.out = d.out /\ ToSet(e.txq) \subseteq ToSet(d.txq)
               /\ e.ready = d.ready \ {i}
               /\ \A j \in Ifaces : j # i => e.pcb[j] = d.pcb[j] /\ e.probed[j] = d.probed[j]
               /\ e.pcb[i].svcs # {} => d.pcb[i].svcs # {}
  <2>1. \A x \in ToSet(e.txq) : \E y \in ToSet(d.txq) : SameTalk(x, y)
    BY <1>2 DEF SameTalk
  <2>2. OwnOK(e)
    <3>1. OwnOK(d) /\ (d.host # 0 => e.host # 0) /\ (d.svc # 0 => e.svc # 0)
      BY <1>2 DEF SameName, Fair
    <3>2. \A j \in Ifaces : e.pcb[j].svcs # {} => d.pcb[j].svcs # {} \/ e.svc # 0
      BY <1>2
    <3>3. QED
      BY <2>1, <3>1, <3>2, OwnKept
  <2>3. \A j \in Ifaces : NothingNew(d.txq, e.txq, j)
    BY <2>1 DEF NothingNew
  <2>4. \A j \in is \ {i} : HostEarned(e, j) /\ SvcEarned(e, j)
    BY <1>2, <2>3, EarnedKept DEF Fair
  <2>5. QED
    BY <1>2, <2>2, <2>4 DEF Fair, NoClaims
<1>3. CASE i \in d.ready
  <2> DEFINE c == ClearTxQueueIf(d, i)
             none == [n |-> 0, host |-> 0, svc |-> 0]
  <2>1. OtherTxq(d, c, c.txq) /\ ToSet(c.txq) \subseteq ToSet(d.txq)
    BY <1>1, ClearedSet
  <2>2. e = DeinitPcb(c, i)
    BY <1>3 DEF PcbDisable, IfReady
  <2> HIDE DEF c
  <2>3. c \in Device /\ SameName(d, c) /\ SameNet(d, c) /\ c.pcb = d.pcb
    BY <2>1 DEF OtherTxq
  <2>4. c.pcb \in [Ifaces -> Pcbs] /\ c.probed \in [Ifaces -> Counts]
    BY <2>3 DEF Device
  <2> DEFINE r == c.ready \ {i}
             b == [c EXCEPT !.ready = r]
             x == [c.pcb EXCEPT ![i] = IdlePcb]
             y == [c.probed EXCEPT ![i] = none]
  <2>5. e = [b EXCEPT !.pcb = [b.pcb EXCEPT ![i] = IdlePcb],
                      !.probed = [b.probed EXCEPT ![i] = none]]
    BY <2>2 DEF DeinitPcb, IfDeinit
  <2>6. /\ x[i] = IdlePcb /\ \A j \in Ifaces : j # i => x[j] = c.pcb[j] /\ y[j] = c.probed[j]
    BY <2>4
  <2> HIDE DEF r
  <2>7. b.pcb = c.pcb /\ b.probed = c.probed
    BY <2>3 DEF Device
  <2>8. e = [b EXCEPT !.pcb = x, !.probed = y]
    BY <2>5, <2>7
  <2> HIDE DEF x, y
  <2>9. /\ e.pcb = x /\ e.probed = y /\ e.ready = r /\ e.txq = c.txq /\ e.out = c.out
        /\ SameName(c, e)
    BY <2>3, <2>8 DEF Device, SameName
  <2>10. IdlePcb.svcs = {}
    BY DEF IdlePcb
  <2>11. QED
    BY <2>1, <2>3, <2>6, <2>9, <2>10 DEF SameName, SameNet, r
<1>4. CASE i \notin d.ready
  <2> DEFINE new == [d.pcb[i] EXCEPT !.state = OFF]
  <2>1. new \in Pcbs /\ new.svcs = d.pcb[i].svcs
    BY <1>1 DEF Pcbs, OFF
  <2>2. e = [d EXCEPT !.pcb[i] = new]
    <3>1. e = [d EXCEPT !.pcb[i].state = OFF]
      BY <1>4 DEF PcbDisable, IfReady
    <3>2. QED
      BY <3>1
  <2> HIDE DEF new
  <2>3. OtherPcb(d, e, i, new)
    BY <1>1, <2>1, <2>2, SetPcb
  <2>4. QED
    BY <1>4, <2>1, <2>3 DEF OtherPcb, SameNet
<1>5. QED
  BY <1>3, <1>4

-----------------------------------------------------------------------------
(* A packet is sent, and the machine moves on.                             *)

\* A name that is being probed was asked for once more than the machine says.
Ahead(n, pcb, among) == among => n = 3 \/ n > pcb.state - PROBE_1

\* The packet p of interface i was just sent.
JustSent(d, i, p) ==
    Probing(d.pcb[i]) =>
        /\ NoneOf(d.txq, i)
        /\ d.pcb[i].ip => AsksHost(d, p) /\ Ahead(Asked(d, i).host, d.pcb[i], d.pcb[i].ip)
        /\ Ahead(Asked(d, i).svc, d.pcb[i], d.pcb[i].svcs # {})

\* One packet more, or the same one again, for an interface whose machine is then
\* new: what a device has is still its own.
LEMMA OwnMoved ==
    ASSUME NEW d, OwnOK(d), NEW e, SameName(d, e), NEW s, HasOwn(d, s),
           \A x \in ToSet(e.txq) : x = s \/ x \in ToSet(d.txq),
           \A j \in Ifaces : e.pcb[j].svcs # {} => d.pcb[j].svcs # {}
    PROVE OwnOK(e)
<1>1. \A x \in ToSet(e.txq) : HasOwn(e, x) \/ \E y \in ToSet(d.txq) : SameTalk(x, y)
  BY DEF HasOwn, SameName, SameTalk
<1>2. QED
  BY <1>1, OwnKept DEF SameName

LEMMA OthersMoved ==
    ASSUME NEW d, NEW is \in SUBSET Ifaces, Spoken(d, is), NEW e, SameName(d, e), SameNet(d, e),
           NEW i, NEW s, s.i = i,
           \A x \in ToSet(e.txq) : x = s \/ x \in ToSet(d.txq),
           \A j \in Ifaces : j # i => e.pcb[j] = d.pcb[j],
           OwnOK(e), i \in is => EarnedOK(e, i)
    PROVE Spoken(e, is)
<1>1. ASSUME NEW j \in is, j # i PROVE EarnedOK(e, j)
  <2>1. NothingNew(d.txq, e.txq, j)
    BY <1>1 DEF NothingNew, SameTalk
  <2>2. e.probed[j] = d.probed[j] /\ e.pcb[j] = d.pcb[j] /\ EarnedOK(d, j)
    BY <1>1 DEF SameNet, Spoken
  <2>3. QED
    BY <2>1, <2>2, EarnedKept DEF EarnedOK
<1>2. \A j \in is : ClaimsOK(e, j)
  BY DEF Spoken, ClaimsOK, SameNet
<1>3. QED
  BY <1>1, <1>2 DEF Spoken

\* The next state of a machine that was earned is, when its packet was sent.
LEMMA NextEarned ==
    ASSUME NEW d \in Device, NEW i \in Ifaces, EarnedOK(d, i), NEW p, JustSent(d, i, p),
           NEW e, SameName(d, e), SameNet(d, e),
           d.pcb[i].state \in {3, 4, 6, 7, 8},
           e.pcb[i].state = d.pcb[i].state + 1, e.pcb[i].svcs = d.pcb[i].svcs,
           e.pcb[i].ip = d.pcb[i].ip,
           NEW s, s.qs = p.qs, \A x \in ToSet(e.txq) : x = s \/ x \in ToSet(d.txq)
    PROVE EarnedOK(e, i)
<1> DEFINE a == d.pcb[i]
           b == e.pcb[i]
<1> USE DEF PROBE_1, PROBE_3, Probing
<1>1. /\ Asked(e, i) = Asked(d, i)
      /\ Asked(d, i).host \in 0 .. 3 /\ Asked(d, i).svc \in 0 .. 3
  <2>1. d.probed[i] \in Counts
    BY DEF Device
  <2>2. QED
    BY <2>1 DEF Asked, SameName, SameNet, Counts
<1>2. b.state = a.state + 1 /\ a.state \in {3, 4, 6, 7, 8} /\ b.svcs = a.svcs /\ b.ip = a.ip
  OBVIOUS
<1> DEFINE n == Asked(d, i).host
           m == Asked(d, i).svc
<1>3. JustSent(d, i, p) /\ EarnedOK(d, i) /\ n \in 0 .. 3 /\ m \in 0 .. 3
      /\ Asked(e, i).host = n /\ Asked(e, i).svc = m
  BY <1>1
<1> HIDE DEF n, m
<1>4. ASSUME d.host # 0 PROVE Counted(n, b, b.ip)
  <2>1. Counted(n, a, a.ip)
    BY <1>4 DEF EarnedOK, HostEarned, n
  <2>2. CASE n = 3
    BY <2>2 DEF Counted
  <2>3. CASE n # 3
    <3>1. a.state \in 3 .. 5 /\ a.ip
      BY <2>1, <2>3 DEF Counted
    <3>2. Ahead(n, a, a.ip)
      BY <1>3, <3>1 DEF JustSent, n
    <3>3. n > a.state - 3
      BY <2>3, <3>1, <3>2 DEF Ahead
    <3>4. b.state \in 3 .. 5 /\ n >= b.state - 3
      BY <1>2, <1>3, <3>1, <3>3
    <3>5. QED
      BY <1>2, <3>1, <3>4 DEF Counted
  <2>4. QED
    BY <2>2, <2>3
<1>5. ASSUME d.svc # 0 PROVE Counted(m, b, b.svcs # {})
  <2>1. Counted(m, a, a.svcs # {})
    BY <1>5 DEF EarnedOK, SvcEarned, m
  <2>2. CASE m = 3
    BY <2>2 DEF Counted
  <2>3. CASE m # 3
    <3>1. a.state \in 3 .. 5 /\ a.svcs # {}
      BY <2>1, <2>3 DEF Counted
    <3>2. Ahead(m, a, a.svcs # {})
      BY <1>3, <3>1 DEF JustSent, m
    <3>3. m > a.state - 3
      BY <2>3, <3>1, <3>2 DEF Ahead
    <3>4. b.state \in 3 .. 5 /\ m >= b.state - 3
      BY <1>2, <1>3, <3>1, <3>3
    <3>5. QED
      BY <1>2, <3>1, <3>4 DEF Counted
  <2>4. QED
    BY <2>2, <2>3
<1>6. ASSUME Probing(b), b.ip, NEW x \in ToSet(e.txq), x.i = i PROVE AsksHost(e, x)
  <2>1. Probing(a) /\ a.ip
    BY <1>2, <1>6
  <2>2. AsksHost(d, p) /\ x = s
    BY <1>6, <2>1 DEF JustSent, NoneOf, Of, ToSet
  <2>3. QED
    BY <2>2 DEF AsksHost, SameName
<1>7. e.host = d.host /\ e.svc = d.svc
  BY DEF SameName
<1>8. HostEarned(e, i)
  BY <1>3, <1>4, <1>6, <1>7 DEF HostEarned
<1>9. SvcEarned(e, i)
  BY <1>3, <1>5, <1>7 DEF SvcEarned
<1>10. QED
  BY <1>8, <1>9 DEF EarnedOK

\* The announcement offers what the probe did.
LEMMA AnnounceOwn ==
    ASSUME NEW d, d.host # 0, NEW p, HasOwn(d, p), NEW a, a = AnnounceFromProbe(d, p)
    PROVE HasOwn(d, a)
<1> DEFINE ofService == IF "SRV" \in ToSet(p.ns) THEN <<"SDPTR", "PTR", "SRV", "TXT", "A">> ELSE <<>>
           ofHost == IF "A" \in ToSet(p.ns) THEN <<"A">> ELSE <<>>
           an == AddAnswers(<<>>, ofService \o ofHost)
           k == Packet(Alloc(d, {p.at}), p.i)
<1>1. ASSUME d.svc = 0 PROVE "SRV" \notin ToSet(an)
  <2>1. ofService = <<>>
    BY <1>1 DEF HasOwn
  <2>2. ofHost = <<>> \/ ofHost = <<"A">>
    OBVIOUS
  <2> HIDE DEF ofService, ofHost
  <2>3. <<>> \in Seq({"A"}) /\ ofService \o ofHost \in Seq({"A"})
    <3>1. <<>> \in Seq({"A"}) /\ <<"A">> \in Seq({"A"})
      OBVIOUS
    <3>2. ofHost \in Seq({"A"}) /\ ofService \in Seq({"A"})
      BY <2>1, <2>2, <3>1
    <3>3. QED
      BY <3>1, <3>2
  <2>4. an \in Seq({"A"})
    BY <2>3, AddAnswersType
  <2> HIDE DEF an
  <2>5. QED
    BY <2>4 DEF ToSet
<1>2. a = [k EXCEPT !.resp = TRUE, !.an = an]
  BY DEF AnnounceFromProbe
<1> HIDE DEF an
<1>3. a.an = an /\ a.ns = <<>>
  BY <1>2 DEF Packet
<1>4. QED
  BY <1>1, <1>3 DEF HasOwn, ToSet

LEMMA ScheduleFair ==
    ASSUME EnoughAddrs, NEW d, BaseOK(d, <<>>, FALSE), NamelessIdle(d), NEW p \in Packets, HasOwn(d, p),
           d.pcb[p.i].state # OFF, NEW is \in SUBSET Ifaces, Spoken(d, is),
           p.i \in is => JustSent(d, p.i, p),
           NEW e, e = ScheduleTxPacket(d, p)
    PROVE Spoken(e, is) /\ SameNet(d, e)
<1> DEFINE i == p.i
           pcb == d.pcb[i]
           state == pcb.state
           up == [pcb EXCEPT !.state = state + 1]
           new == [IdlePcb EXCEPT !.state = ANNOUNCE_1]
<1>1. d \in Device /\ i \in Ifaces /\ pcb \in Pcbs /\ QueueOK(d.txq) /\ OwnOK(d)
  BY DEF BaseOK, Device, Packets, Spoken
<1>2. state \in 3 .. 9
  BY <1>1 DEF Pcbs, OFF, PROBE_1, RUNNING
<1>3. state # 9 => up \in Pcbs
  BY <1>1, <1>2 DEF Pcbs, OFF, PROBE_1, RUNNING
<1>4. up.state = state + 1 /\ up.ip = pcb.ip /\ up.svcs = pcb.svcs
  BY <1>1 DEF Pcbs
<1>5. new \in Pcbs /\ new.state = 6 /\ new.svcs = {}
  <2>1. IdlePcb \in Pcbs /\ IdlePcb.svcs = {}
    BY DEF IdlePcb, Pcbs, OFF
  <2>2. QED
    BY <2>1 DEF Pcbs, OFF, PROBE_1, RUNNING, ANNOUNCE_1
<1>6. Quarter \in 0 .. Second /\ Second \in 0 .. Second
  BY DEF Quarter, Second
<1> HIDE DEF up, new
<1>7. ASSUME state \in {3, 4, 6, 7, 8}, NEW k, k \in Device, k.pcb = d.pcb, SameName(d, k), SameNet(d, k),
             NEW s, s.i = i, s.qs = p.qs, HasOwn(d, s),
             \A x \in ToSet(k.txq) : x = s \/ x \in ToSet(d.txq),
             e = NextState(k, i)
      PROVE Spoken(e, is) /\ SameNet(d, e)
  <2>1. e = [k EXCEPT !.pcb[i] = up]
    BY <1>7 DEF up, NextState
  <2>2. up \in Pcbs
    BY <1>3, <1>7
  <2>3. OtherPcb(k, e, i, up)
    BY <1>1, <1>7, <2>1, <2>2, SetPcb
  <2>4. /\ SameName(d, e) /\ SameNet(d, e) /\ e.txq = k.txq /\ e.pcb[i] = up
        /\ \A j \in Ifaces : j # i => e.pcb[j] = d.pcb[j]
    BY <1>7, <2>3 DEF OtherPcb, SameName, SameNet
  <2>5. OwnOK(e)
    BY <1>1, <1>4, <1>7, <2>4, OwnMoved
  <2>6. ASSUME i \in is PROVE EarnedOK(e, i)
    <3>1. EarnedOK(d, i) /\ JustSent(d, i, p)
      BY <2>6 DEF Spoken
    <3>2. QED
      BY <1>1, <1>4, <1>7, <2>4, <3>1, NextEarned
  <2>7. QED
    BY <1>7, <2>4, <2>5, <2>6, OthersMoved
<1> DEFINE again(delay) == [p EXCEPT !.left = delay]
<1>8. ASSUME state \in {3, 4, 6, 7}, NEW delay \in 0 .. Second,
             NEW k, k = SendAfter(d, p, delay), e = NextState(k, i)
      PROVE Spoken(e, is) /\ SameNet(d, e)
  <2>1. /\ OtherTxq(d, k, k.txq)
        /\ \A x \in ToSet(k.txq) : x = again(delay) \/ x \in ToSet(d.txq)
    BY <1>1, <1>8, SentSet
  <2>2. /\ again(delay).i = i /\ again(delay).qs = p.qs /\ again(delay).resp = p.resp
        /\ again(delay).an = p.an /\ again(delay).ns = p.ns
    BY DEF Packets
  <2> HIDE DEF again
  <2>3. HasOwn(d, again(delay))
    BY <2>2 DEF HasOwn
  <2>4. QED
    BY <1>7, <1>8, <2>1, <2>2, <2>3 DEF OtherTxq
<1>9. CASE state \in {3, 4}
  <2>1. e = NextState(SendAfter(d, p, Quarter), i)
    BY <1>9 DEF ScheduleTxPacket, PROBE_1, PROBE_2, PROBE_3, ANNOUNCE_1, ANNOUNCE_2, ANNOUNCE_3
  <2>2. QED
    BY <1>6, <1>8, <1>9, <2>1
<1>10. CASE state \in {6, 7}
  <2>1. e = NextState(SendAfter(d, p, Second), i)
    BY <1>10 DEF ScheduleTxPacket, PROBE_1, PROBE_2, PROBE_3, ANNOUNCE_1, ANNOUNCE_2, ANNOUNCE_3
  <2>2. QED
    BY <1>6, <1>8, <1>10, <2>1
<1>11. CASE state = 8
  <2>1. e = NextState(d, i)
    BY <1>11 DEF ScheduleTxPacket, PROBE_1, PROBE_2, PROBE_3, ANNOUNCE_1, ANNOUNCE_2, ANNOUNCE_3
  <2>2. SameName(d, d) /\ SameNet(d, d)
    BY DEF SameName, SameNet
  <2>3. QED
    BY <1>1, <1>7, <1>11, <2>1, <2>2
<1>12. CASE state = 9
  <2>1. e = d
    BY <1>12 DEF ScheduleTxPacket, PROBE_1, PROBE_2, PROBE_3, ANNOUNCE_1, ANNOUNCE_2, ANNOUNCE_3
  <2>2. QED
    BY <2>1 DEF SameNet
<1>13. CASE state = 5
  <2> DEFINE k == ProbingDone(d, i)
             a == AnnounceFromProbe(d, p)
             s == [a EXCEPT !.left = Quarter]
  <2>1. e = SendAfter(k, a, Quarter)
    BY <1>13 DEF ScheduleTxPacket, PROBE_1, PROBE_2, PROBE_3, ANNOUNCE_1, ANNOUNCE_2, ANNOUNCE_3
  <2>2. k = [d EXCEPT !.pcb[i] = new]
    BY DEF ProbingDone, new
  <2> HIDE DEF k
  <2>3. OtherPcb(d, k, i, new)
    BY <1>1, <1>5, <2>2, SetPcb
  <2>4. d.host # 0
    BY <1>1, <1>13 DEF NamelessIdle, Probing, PROBE_1, PROBE_3
  <2>5. a \in Packets /\ a.i = i
    BY <1>1, AnnounceOK
  <2>6. HasOwn(d, a)
    BY <2>4, AnnounceOwn
  <2> HIDE DEF a
  <2>7. s.i = i /\ HasOwn(d, s)
    BY <2>5, <2>6 DEF Packets, HasOwn
  <2>8. k \in Device /\ k.txq = d.txq
    BY <2>3 DEF OtherPcb
  <2>9. /\ OtherTxq(k, e, e.txq)
        /\ \A x \in ToSet(e.txq) : x = s \/ x \in ToSet(d.txq)
    BY <1>1, <1>6, <2>1, <2>5, <2>8, SentSet
  <2> HIDE DEF s
  <2>10. /\ SameName(d, e) /\ SameNet(d, e) /\ e.pcb[i] = new
         /\ \A j \in Ifaces : j # i => e.pcb[j] = d.pcb[j]
    BY <2>3, <2>9 DEF OtherPcb, OtherTxq, SameName, SameNet
  <2>11. OwnOK(e)
    BY <1>1, <1>5, <2>7, <2>9, <2>10, OwnMoved
  <2>12. ASSUME i \in is PROVE EarnedOK(e, i)
    <3>1. EarnedOK(d, i) /\ JustSent(d, i, p)
      BY <2>12 DEF Spoken
    <3>2. Asked(e, i) = Asked(d, i) /\ Asked(d, i).host \in 0 .. 3 /\ Asked(d, i).svc \in 0 .. 3
      <4>1. d.probed[i] \in Counts
        BY <1>1 DEF Device
      <4>2. QED
        BY <2>10, <4>1 DEF Asked, SameName, SameNet, Counts
    <3>3. Probing(pcb) /\ PROBE_1 = 3 /\ ~Probing(new)
      BY <1>5, <1>13 DEF Probing, PROBE_1, PROBE_3
    <3>4. d.host # 0 => Asked(d, i).host = 3
      BY <1>13, <3>1, <3>2, <3>3 DEF EarnedOK, HostEarned, Counted, JustSent, Ahead
    <3>5. d.svc # 0 => Asked(d, i).svc = 3
      BY <1>13, <3>1, <3>2, <3>3 DEF EarnedOK, SvcEarned, Counted, JustSent, Ahead
    <3>6. HostEarned(e, i)
      BY <2>10, <3>2, <3>3, <3>4 DEF HostEarned, Counted, SameName
    <3>7. SvcEarned(e, i)
      BY <2>10, <3>2, <3>5 DEF SvcEarned, Counted, SameName
    <3>8. QED
      BY <3>6, <3>7 DEF EarnedOK
  <2>13. QED
    BY <2>7, <2>9, <2>10, <2>11, <2>12, OthersMoved
<1>14. QED
  BY <1>2, <1>9, <1>10, <1>11, <1>12, <1>13

LEMMA HandlePacketFair ==
    ASSUME EnoughAddrs, NEW d, NEW p \in Packets, HandledOK(d, <<>>, FALSE, {p.i}), HasOwn(d, p),
           NEW is \in SUBSET Ifaces, Fair(d, is, is), is \subseteq d.ready \cap d.up,
           p.i \in is /\ Probing(d.pcb[p.i]) =>
                /\ NoneOf(d.txq, p.i) /\ IsProbe(d, p.i, p)
                /\ d.pcb[p.i].ip => AsksHost(d, p),
           NEW e, e = HandlePacket(d, p)
    PROVE Spoken(e, is) /\ e.ready = d.ready
<1>1. CASE PcbIsOff(d, p.i)
  <2>1. e = d
    BY <1>1 DEF HandlePacket
  <2>2. QED
    BY <2>1, FairSpoken
<1>2. CASE ~PcbIsOff(d, p.i)
  <2> DEFINE c == Dispatch(d, p)
             i == p.i
  <2>1. e = ScheduleTxPacket(c, p)
    BY <1>2 DEF HandlePacket
  <2>2. /\ OtherNet(d, c)
        /\ CanSend(d, p.i) => c.probed[p.i] = CountProbe(d, p)
    BY Dispatched DEF HandledOK, BaseOK
  <2>3. d \in Device /\ i \in Ifaces
    BY DEF HandledOK, BaseOK, Packets
  <2>4. i \in is /\ p.resp => ~Probing(d.pcb[i])
    BY DEF IsProbe
  <2>5. Spoken(c, is)
    BY <2>3, <2>4, SendFairly
  <2> HIDE DEF c
  <2>6. HandledOK(c, <<>>, FALSE, {p.i})
    BY <2>2, OtherNetOK
  <2>7. /\ c.txq = d.txq /\ c.pcb = d.pcb /\ c.ready = d.ready /\ SameName(d, c)
    BY <2>2 DEF OtherNet
  <2>8. HasOwn(c, p)
    BY <2>7 DEF HasOwn, SameName
  <2>9. ASSUME i \in is, Probing(c.pcb[i]) PROVE JustSent(c, i, p)
    <3> DEFINE a == Asked(d, i)
               b == Asked(c, i)
               pcb == d.pcb[i]
    <3>1. CanSend(d, i)
      BY <2>9 DEF CanSend, IfReady
    <3>2. /\ a.host \in 0 .. 3 /\ b.host \in a.host .. 3
          /\ a.svc \in 0 .. 3 /\ b.svc \in a.svc .. 3
          /\ ~p.resp /\ AsksHost(d, p) => b.host = 3 \/ b.host = a.host + 1
          /\ ~p.resp /\ [t |-> "ANY", n |-> Instance(d)] \in ToSet(p.qs) =>
                b.svc = 3 \/ b.svc = a.svc + 1
      BY <2>2, <2>3, <2>7, <3>1, CountsUp
    <3>3. /\ NoneOf(d.txq, i) /\ IsProbe(d, i, p)
          /\ pcb.ip => AsksHost(d, p)
      BY <2>7, <2>9
    <3>4. d.host # 0 /\ (pcb.svcs # {} => d.svc # 0)
      BY <2>3, <2>7, <2>9 DEF HandledOK, NamelessIdle, Fair, OwnOK
    <3>5. Counted(a.host, pcb, pcb.ip) /\ (pcb.svcs # {} => Counted(a.svc, pcb, pcb.svcs # {}))
      BY <2>9, <3>4 DEF Fair, HostEarned, SvcEarned
    <3> HIDE DEF a, b
    <3>6. pcb.state \in 3 .. 5
      BY <2>7, <2>9 DEF Probing, PROBE_1, PROBE_3
    <3>7. Ahead(b.host, pcb, pcb.ip)
      BY <3>2, <3>3, <3>5, <3>6 DEF Ahead, Counted, IsProbe, PROBE_1
    <3>8. Ahead(b.svc, pcb, pcb.svcs # {})
      BY <3>2, <3>3, <3>5, <3>6 DEF Ahead, Counted, IsProbe, PROBE_1
    <3>9. pcb.ip => AsksHost(c, p)
      BY <2>7, <3>3 DEF AsksHost, SameName
    <3>10. QED
      BY <2>7, <3>3, <3>7, <3>8, <3>9 DEF JustSent, b
  <2>10. i \in is => JustSent(c, i, p)
    BY <2>9 DEF JustSent
  <2>11. BaseOK(c, <<>>, FALSE) /\ NamelessIdle(c) /\ c.pcb[p.i].state # OFF
    BY <1>2, <2>6, <2>7 DEF HandledOK, PcbIsOff
  <2>12. Spoken(e, is) /\ SameNet(c, e)
    BY <2>1, <2>5, <2>8, <2>10, <2>11, ScheduleFair
  <2>13. QED
    BY <2>7, <2>12 DEF SameNet
<1>3. QED
  BY <1>1, <1>2

LEMMA SendPacketFair ==
    ASSUME EnoughAddrs, NEW d, HandledOK(d, <<>>, FALSE, {}),
           NEW is \in SUBSET Ifaces, Fair(d, is, is), is \subseteq d.ready \cap d.up,
           NEW at, NEW e, e = SendPacket(d, at)
    PROVE Spoken(e, is) /\ e.ready = d.ready
<1>1. d.txq \in Seq(Packets) /\ d \in Device /\ QueueOK(d.txq)
  BY DEF HandledOK, BaseOK, Device
<1>2. CASE ~(d.txq # <<>> /\ Head(d.txq).at = at /\ Head(d.txq).queued)
  <2>1. e = d
    BY <1>2 DEF SendPacket
  <2>2. QED
    BY <2>1, FairSpoken
<1>3. CASE d.txq # <<>> /\ Head(d.txq).at = at /\ Head(d.txq).queued
  <2> DEFINE h == Head(d.txq)
             c == [d EXCEPT !.txq = Tail(d.txq)]
             p == [h EXCEPT !.queued = FALSE]
             i == h.i
             a == <<"tx", 0>>
  <2>1. e = HandlePacket(c, p)
    BY <1>3 DEF SendPacket
  <2>2. MoreActs(a, <<>>) /\ HandledOK(d, <<a>> \o <<>>, FALSE, {}) /\ h = d.txq[1] /\ h \in ToSet(d.txq)
    BY <1>1, <1>3 DEF MoreActs, Actions, HandledOK, BaseOK, ToSet
  <2> HIDE DEF a
  <2>3. /\ HandledOK(c, <<>>, FALSE, {i}) /\ h \in Packets
        /\ OtherTxq(d, c, Tail(d.txq))
    BY <1>3, <2>2, HeadTaken
  <2>4. /\ p \in Packets /\ p.i = i /\ p.qs = h.qs /\ p.resp = h.resp
        /\ p.an = h.an /\ p.ns = h.ns
    BY <2>3 DEF Packets
  <2> HIDE DEF c, p
  <2>5. /\ SameName(d, c) /\ SameNet(d, c) /\ c.pcb = d.pcb /\ c.txq = Tail(d.txq)
        /\ c.ready = d.ready /\ c.up = d.up
    BY <2>3 DEF OtherTxq, SameNet, Beside
  <2>6. ToSet(c.txq) \subseteq ToSet(d.txq)
    <3>1. /\ DOMAIN Tail(d.txq) = 1 .. Len(d.txq) - 1 /\ DOMAIN d.txq = 1 .. Len(d.txq)
          /\ Len(d.txq) \in Nat /\ \A k \in 1 .. Len(d.txq) - 1 : Tail(d.txq)[k] = d.txq[k + 1]
      BY <1>1, <1>3
    <3>2. \A k \in 1 .. Len(d.txq) - 1 : k + 1 \in 1 .. Len(d.txq)
      BY <3>1
    <3>3. QED
      BY <2>5, <3>1, <3>2 DEF ToSet
  <2>7. Fair(c, is, is)
    BY <2>5, <2>6, FairKept DEF SameNet
  <2>8. HasOwn(c, p)
    BY <2>2, <2>4, <2>5 DEF Fair, OwnOK, HasOwn, SameName
  <2>9. ASSUME p.i \in is, Probing(c.pcb[p.i])
        PROVE  /\ NoneOf(c.txq, p.i) /\ IsProbe(c, p.i, p)
               /\ c.pcb[p.i].ip => AsksHost(c, p)
    <3>1. i \in is /\ Probing(d.pcb[i]) /\ i \in d.ready /\ MachineOK(d, i)
      BY <2>4, <2>5, <2>9 DEF HandledOK, MachinesBut
    <3>2. 1 \in Of(d.txq, i)
      BY <1>1, <1>3, <2>2 DEF Of
    <3>3. PICK k \in PacketsOf(d, i) : PacketsOf(d, i) = {k} /\ IsProbe(d, i, d.txq[k])
      BY <3>1 DEF MachineOK
    <3>4. k = 1 /\ OnlyOf(d.txq, i, 1)
      BY <3>2, <3>3 DEF PacketsOf, Of, OnlyOf
    <3>5. NoneOf(c.txq, i)
      BY <1>1, <1>3, <2>5, <3>4, TailOK
    <3>6. IsProbe(d, i, h)
      BY <2>2, <3>3, <3>4
    <3>7. IsProbe(c, i, p)
      <4> HIDE DEF h
      <4>1. QED
        BY <2>4, <2>5, <3>6 DEF IsProbe, Instance, SameName
    <3>8. d.host # 0
      BY <2>3, <3>1 DEF HandledOK, NamelessIdle
    <3>9. d.pcb[i].ip => AsksHost(d, h)
      BY <2>2, <3>1, <3>8 DEF Fair, HostEarned
    <3>10. c.pcb[i].ip => AsksHost(c, p)
      <4> HIDE DEF h
      <4>1. QED
        BY <2>4, <2>5, <3>9 DEF AsksHost, SameName
    <3>11. QED
      BY <2>4, <3>5, <3>7, <3>10
  <2>10. is \subseteq c.ready \cap c.up /\ HandledOK(c, <<>>, FALSE, {p.i})
    BY <2>3, <2>4, <2>5
  <2>11. Spoken(e, is) /\ e.ready = c.ready
    BY <2>1, <2>4, <2>7, <2>8, <2>9, <2>10, HandlePacketFair
  <2>12. QED
    BY <2>5, <2>11
<1>4. QED
  BY <1>2, <1>3

-----------------------------------------------------------------------------
(* The parser claims nothing that was not probed.                          *)

\* What travels through the parser is earned, and nothing is asked of a device
\* without a name.
Just(f, d, is) ==
    Fair(f.d, is, is) /\ f.d.ready = d.ready /\ (f.d.host = 0 => f.qs = <<>>)

FrameFair(f, d, is) == FrameOK(f, d, <<>>, FALSE) /\ Just(f, d, is)

\* A conflict was lost.
LEMMA JustLost ==
    ASSUME NEW f \in Frames, NEW d, NEW is, Just(f, d, is),
           NEW e, Fair(e, is, is), e.ready = f.d.ready, e.host = 0 => f.d.host = 0,
           NEW g, g = [f EXCEPT !.quiet = TRUE, !.d = e]
    PROVE Just(g, d, is)
<1>1. g.d = e /\ g.qs = f.qs
  BY DEF Frames
<1>2. QED
  BY <1>1 DEF Just

LEMMA JustAsked ==
    ASSUME NEW f \in Frames, NEW d, NEW is, Just(f, d, is), NEW t
    PROVE Just(RemoveQuestion(f, t), d, is)
<1> DEFINE hits == {k \in DOMAIN f.qs : QuestionMatches(f.d, f.qs[k], t)}
           qs == RemoveAt(f.qs, Min(hits))
           g == RemoveQuestion(f, t)
<1>1. f.qs \in Seq(Questions) /\ OtherQuestions(f, g)
  BY RemoveQuestionType DEF Frames
<1>2. ASSUME f.qs = <<>> PROVE g = f
  <2>1. hits = {}
    BY <1>2
  <2>2. QED
    BY <2>1 DEF RemoveQuestion
<1> HIDE DEF g
<1>3. f.d.host = 0 => g = f
  BY <1>2 DEF Just
<1>4. Just(g, d, is)
  BY <1>1, <1>3 DEF Just, OtherQuestions
<1>5. QED
  BY <1>4 DEF g

LEMMA CollectQuestionFair ==
    ASSUME NEW f, NEW d, NEW is, FrameFair(f, d, is), NEW q \in Questions
    PROVE FrameFair(CollectQuestion(f, q), d, is)
<1> DEFINE g == CollectQuestion(f, q)
<1>1. f \in Frames /\ f.d \in Device /\ f.d.svc \in {0, f.d.host}
  BY FrameParts DEF FrameFair, FrameOK, HandledOK, BaseOK
<1>2. OtherQuestions(f, g)
  BY <1>1, CollectQuestionType
<1>3. FrameOK(g, d, <<>>, FALSE)
  BY <1>2, FrameKept DEF FrameFair
<1>4. ASSUME f.d.host = 0 PROVE g = f
  <2>1. ~HasServiceItem(f.d) /\ ~HostnameIsOurs(f.d, q.n[2])
    BY <1>1, <1>4 DEF HasServiceItem, HostnameIsOurs
  <2>2. ~IsOurs(f.d, q.n)
    BY <2>1 DEF IsOurs, HasServiceInstance
  <2>3. QED
    BY <2>1, <2>2 DEF CollectQuestion
<1>5. Just(g, d, is)
  <2> HIDE DEF g
  <2>1. QED
    BY <1>2, <1>4 DEF Just, OtherQuestions, FrameFair
<1>6. QED
  BY <1>3, <1>5 DEF FrameFair

LEMMA RecordPtrFair ==
    ASSUME NEW f \in Frames, NEW d, NEW is, Just(f, d, is), NEW r
    PROVE Just(RecordPtr(f, r), d, is)
<1> DEFINE directory == r.t = "SDPTR"
           g == CASE directory -> RemoveQuestion(f, "SDPTR")
                  [] ~directory /\ KnownAnswer(f) -> RemoveQuestion(f, "PTR")
                  [] ~directory /\ ~KnownAnswer(f) -> f
           b == g.known \/ (directory /\ r.long)
           h == [g EXCEPT !.known = b]
<1>1. RecordPtr(f, r) = f \/ RecordPtr(f, r) = h
  BY DEF RecordPtr
<1>2. g = f \/ g = RemoveQuestion(f, "SDPTR") \/ g = RemoveQuestion(f, "PTR")
  OBVIOUS
<1>3. Just(g, d, is) /\ g \in Frames
  <2> HIDE DEF g
  <2>1. QED
    BY <1>2, JustAsked, RemoveQuestionType DEF OtherQuestions
<1> HIDE DEF g, b
<1>4. h.d = g.d /\ h.qs = g.qs
  BY <1>3 DEF Frames
<1>5. Just(h, d, is)
  <2> HIDE DEF h
  <2>1. QED
    BY <1>3, <1>4 DEF Just
<1>6. QED
  BY <1>1, <1>5

\* Probing again what the device has.
LEMMA AgainFair ==
    ASSUME EnoughAddrs, NEW d, HandledOK(d, <<>>, FALSE, {}), NEW i \in Ifaces,
           NEW svcs, svcs \subseteq Services(d), NEW ip, ip \in BOOLEAN,
           NEW is \in SUBSET Ifaces, Fair(d, is, is), NEW e, e = InitPcbProbe(d, i, svcs, ip)
    PROVE Fair(e, is, is) /\ SameNet(d, e) /\ SameName(d, e)
<1>0. svcs \in SUBSET {"http"} /\ ip \in BOOLEAN /\ (svcs # {} => d.svc # 0)
  BY DEF Services
<1>1. QED
  BY <1>0, InitPcbProbeFair

LEMMA NextNameFair ==
    ASSUME EnoughAddrs, NEW d, HandledOK(d, <<>>, FALSE, {}),
           NEW is \in SUBSET d.ready, Fair(d, is, is), NEW e, e = TakeNextName(d)
    PROVE Fair(e, is, is) /\ e.ready = d.ready /\ e.host # 0
<1>1. Fair(e, d.ready, d.ready) /\ e.ready = d.ready /\ e.host # 0
  BY TakeNextNameFair DEF Fair
<1>2. QED
  BY <1>1 DEF Fair

LEMMA RecordAFair ==
    ASSUME EnoughAddrs, NEW f, NEW d \in Device, NEW is \in SUBSET d.ready, FrameFair(f, d, is), NEW r \in Records
    PROVE Just(RecordA(f, r), d, is)
<1> DEFINE c == InitPcbProbe(f.d, f.m.i, {}, TRUE)
           n == TakeNextName(f.d)
           e == IF ~f.d.pcb[f.m.i].running THEN c ELSE IF f.probe \/ f.m.resp THEN n ELSE f.d
           h == RecordA(f, r)
<1>1. \/ h = f \/ h = RemoveQuestion(f, "A") \/ h = [f EXCEPT !.quiet = TRUE, !.d = e]
  BY DEF RecordA
<1>2. /\ HandledOK(f.d, <<>>, FALSE, {}) /\ f.m.i \in Ifaces /\ f \in Frames
      /\ Just(f, d, is)
  BY FrameParts DEF FrameFair, FrameOK
<1>3. Fair(f.d, is, is) /\ is \in SUBSET f.d.ready /\ is \in SUBSET Ifaces
  BY <1>2 DEF Just, Device
<1>4. Fair(c, is, is) /\ SameNet(f.d, c) /\ SameName(f.d, c)
  <2>1. {} \subseteq Services(f.d) /\ TRUE \in BOOLEAN /\ c = InitPcbProbe(f.d, f.m.i, {}, TRUE)
    OBVIOUS
  <2> HIDE DEF c
  <2>2. QED
    BY <1>2, <1>3, <2>1, AgainFair
<1>5. Fair(n, is, is) /\ n.ready = f.d.ready /\ n.host # 0
  BY <1>2, <1>3, NextNameFair
<1>6. Fair(e, is, is) /\ e.ready = f.d.ready /\ (e.host = 0 => f.d.host = 0)
  <2>1. e = c \/ e = n \/ e = f.d
    OBVIOUS
  <2> HIDE DEF e, c, n
  <2>2. QED
    BY <1>3, <1>4, <1>5, <2>1 DEF SameNet, SameName
<1> HIDE DEF e, h, c, n
<1>7. CASE h = [f EXCEPT !.quiet = TRUE, !.d = e]
  BY <1>2, <1>6, <1>7, JustLost DEF h
<1>8. QED
  BY <1>1, <1>2, <1>7, JustAsked DEF h

LEMMA RecordTxtFair ==
    ASSUME EnoughAddrs, NEW f, NEW d \in Device, NEW is \in SUBSET d.ready, FrameFair(f, d, is), NEW r \in Records
    PROVE Just(RecordTxt(f, r), d, is)
<1> DEFINE e == InitPcbProbe(f.d, f.m.i, {"http"}, TRUE)
           h == RecordTxt(f, r)
<1>1. \/ h = f \/ h = RemoveQuestion(f, "TXT")
      \/ h = [f EXCEPT !.quiet = TRUE, !.d = e] /\ IsOurs(f.d, r.n) /\ OfService(r.n)
  BY DEF RecordTxt
<1>2. /\ HandledOK(f.d, <<>>, FALSE, {}) /\ f.m.i \in Ifaces /\ f \in Frames
      /\ Just(f, d, is)
  BY FrameParts DEF FrameFair, FrameOK
<1>3. Fair(f.d, is, is) /\ is \in SUBSET Ifaces
  BY <1>2 DEF Just, Device
<1>4. ASSUME IsOurs(f.d, r.n), OfService(r.n)
      PROVE  Fair(e, is, is) /\ SameNet(f.d, e) /\ SameName(f.d, e)
  <2>1. {"http"} \subseteq Services(f.d) /\ TRUE \in BOOLEAN /\ e = InitPcbProbe(f.d, f.m.i, {"http"}, TRUE)
    BY <1>4 DEF Services, IsOurs, OfService, HasServiceInstance, HasServiceItem
  <2> HIDE DEF e
  <2>2. QED
    BY <1>2, <1>3, <2>1, AgainFair
<1> HIDE DEF e, h
<1>5. CASE h = [f EXCEPT !.quiet = TRUE, !.d = e] /\ IsOurs(f.d, r.n) /\ OfService(r.n)
  BY <1>2, <1>4, <1>5, JustLost DEF h, SameNet, SameName
<1>6. QED
  BY <1>1, <1>2, <1>5, JustAsked DEF h

LEMMA RecordSrvFair ==
    ASSUME EnoughAddrs, NEW f, NEW d \in Device, NEW is \in SUBSET d.ready, FrameFair(f, d, is), NEW r \in Records
    PROVE Just(RecordSrv(f, r), d, is)
<1> DEFINE b == SendBye(f.d, f.m.i, {"http"}, FALSE)
           c == InitPcbProbe(b, f.m.i, {"http"}, FALSE)
           n == TakeNextName(f.d)
           e == IF f.d.pcb[f.m.i].running THEN n ELSE c
           h == RecordSrv(f, r)
<1>1. \/ h = f \/ h = RemoveQuestion(f, "SRV")
      \/ h = [f EXCEPT !.quiet = TRUE, !.d = e] /\ IsOurs(f.d, r.n) /\ OfService(r.n)
  BY DEF RecordSrv
<1>2. /\ HandledOK(f.d, <<>>, FALSE, {}) /\ f.m.i \in Ifaces /\ f \in Frames /\ f.d \in Device
      /\ Just(f, d, is)
  BY FrameParts DEF FrameFair, FrameOK
<1>3. Fair(f.d, is, is) /\ is \in SUBSET f.d.ready /\ is \in SUBSET Ifaces
  BY <1>2 DEF Just, Device
<1>4. OtherNet(f.d, b) /\ Fair(b, is, is)
  BY <1>2, <1>3, SendByeOK, SendByeFair
<1> HIDE DEF b
<1>5. HandledOK(b, <<>>, FALSE, {}) /\ SameName(f.d, b) /\ b.ready = f.d.ready
  BY <1>2, <1>4, OtherNetOK DEF OtherNet
<1>6. ASSUME IsOurs(f.d, r.n), OfService(r.n)
      PROVE  Fair(c, is, is) /\ SameNet(b, c) /\ SameName(b, c)
  <2>1. {"http"} \subseteq Services(b) /\ FALSE \in BOOLEAN /\ c = InitPcbProbe(b, f.m.i, {"http"}, FALSE)
    BY <1>5, <1>6 DEF Services, IsOurs, OfService, HasServiceInstance, HasServiceItem, SameName
  <2> HIDE DEF c
  <2>2. QED
    BY <1>2, <1>3, <1>4, <1>5, <2>1, AgainFair
<1>7. Fair(n, is, is) /\ n.ready = f.d.ready /\ n.host # 0
  BY <1>2, <1>3, NextNameFair
<1>8. ASSUME IsOurs(f.d, r.n), OfService(r.n)
      PROVE  Fair(e, is, is) /\ e.ready = f.d.ready /\ (e.host = 0 => f.d.host = 0)
  <2>1. e = c \/ e = n
    OBVIOUS
  <2> HIDE DEF e, c, n
  <2>2. QED
    BY <1>5, <1>6, <1>7, <1>8, <2>1 DEF SameNet, SameName
<1> HIDE DEF e, h, c, n
<1>9. CASE h = [f EXCEPT !.quiet = TRUE, !.d = e] /\ IsOurs(f.d, r.n) /\ OfService(r.n)
  BY <1>2, <1>8, <1>9, JustLost DEF h
<1>10. QED
  BY <1>1, <1>2, <1>9, JustAsked DEF h

LEMMA RecordFair ==
    ASSUME EnoughAddrs, NEW f, NEW d \in Device, NEW is \in SUBSET d.ready, FrameFair(f, d, is), NEW r \in Records
    PROVE FrameFair(Record(f, r), d, is)
<1>1. r.t \in Kinds
  BY DEF Records
<1>2. \/ Record(f, r) = RecordPtr(f, r) \/ Record(f, r) = RecordSrv(f, r)
      \/ Record(f, r) = RecordTxt(f, r) \/ Record(f, r) = RecordA(f, r)
  BY <1>1 DEF Record, Kinds
<1>3. Just(RecordPtr(f, r), d, is)
  BY RecordPtrFair DEF FrameFair, FrameOK
<1>4. Just(Record(f, r), d, is)
  BY <1>2, <1>3, RecordSrvFair, RecordTxtFair, RecordAFair
<1>5. FrameOK(Record(f, r), d, <<>>, FALSE)
  BY RecordOK DEF FrameFair
<1>6. QED
  BY <1>4, <1>5 DEF FrameFair

LEMMA ReadFair ==
    ASSUME EnoughAddrs, NEW f, NEW d \in Device, NEW is \in SUBSET d.ready, FrameFair(f, d, is),
           NEW qs \in Seq(Questions), NEW rs \in Seq(Records)
    PROVE FrameFair(ReadRecords(CollectQuestions(f, qs), rs), d, is)
<1> DEFINE V == {g \in Frames : FrameFair(g, d, is)}
<1>1. f \in V /\ \A g \in V : FrameFair(g, d, is)
  BY DEF FrameFair, FrameOK
<1>2. \A g \in V, q \in Questions : CollectQuestion(g, q) \in V
  <2>1. ASSUME NEW g \in V, NEW q \in Questions PROVE CollectQuestion(g, q) \in V
    <3>1. FrameFair(CollectQuestion(g, q), d, is)
      BY CollectQuestionFair
    <3>2. QED
      BY <3>1 DEF FrameFair, FrameOK
  <2> HIDE DEF V
  <2>2. QED
    BY <2>1
<1>3. \A g \in V, r \in Records : Record(g, r) \in V
  <2>1. ASSUME NEW g \in V, NEW r \in Records PROVE Record(g, r) \in V
    <3>1. FrameFair(Record(g, r), d, is)
      BY RecordFair
    <3>2. QED
      BY <3>1 DEF FrameFair, FrameOK
  <2> HIDE DEF V
  <2>2. QED
    BY <2>1
<1> HIDE DEF V
<1> DEFINE c == CollectQuestions(f, qs)
<1>4. c \in V
  BY <1>1, <1>2, CollectQuestionsIn
<1> HIDE DEF c
<1>5. ReadRecords(c, rs) \in V
  BY <1>3, <1>4, ReadRecordsIn
<1>6. QED
  BY <1>1, <1>5 DEF c

\* A record of the service is among the answers only if there is one.
LEMMA AnswerOwn ==
    ASSUME NEW f \in Frames
    PROVE "SRV" \in ToSet(Answer(f).an) => f.d.svc # 0
<1> DEFINE z == [qs |-> <<>>, an |-> <<>>, ar |-> <<>>, count |-> 0]
           V == {a \in Answers : "SRV" \in ToSet(a.an) => f.d.svc # 0}
<1>1. z \in V
  BY DEF Answers, ToSet
<1>2. ASSUME NEW a \in V, NEW q \in Questions PROVE AnswerQuestion(f, a, q) \in V
  <2> DEFINE back == IF f.m.legacy /\ q.t \in {"ANY", "A"} THEN [a EXCEPT !.qs = Append(@, q)] ELSE a
             answered == [back EXCEPT !.count = @ + 1]
             b == AnswerQuestion(f, a, q)
  <2>1. b \in Answers
    BY AnswerQuestionType
  <2>2. \/ f.d.svc # 0 \/ b = back \/ b = AnswerHostname(answered, q)
    BY DEF AnswerQuestion, AsksService, HasServiceItem
  <2>3. back.an = a.an /\ answered.an = a.an
    BY DEF Answers
  <2>4. ToSet(AnswerHostname(answered, q).an) \subseteq ToSet(a.an) \cup {"A"}
    <3> HIDE DEF answered
    <3>1. a.an \in Seq(Kinds) /\ answered.an \in Seq(Kinds)
      BY <2>3 DEF Answers
    <3>2. ToSet(Append(a.an, "A")) = ToSet(a.an) \cup {"A"}
      BY <3>1, ToSetAppend DEF Kinds
    <3>3. ToSet(HostAnswers(a.an)) \subseteq ToSet(a.an) \cup {"A"}
      BY <3>2 DEF HostAnswers, AddAnswer
    <3>4. AnswerHostname(answered, q).an \in {a.an, HostAnswers(a.an)}
      BY <2>3 DEF AnswerHostname
    <3>5. QED
      BY <3>3, <3>4
  <2> HIDE DEF b, back, answered
  <2>5. "SRV" \in ToSet(b.an) => f.d.svc # 0
    BY <2>2, <2>3, <2>4
  <2>6. QED
    BY <2>1, <2>5 DEF b
<1>3. f.qs \in Seq(Questions) /\ \A a \in V, q \in Questions : AnswerQuestion(f, a, q) \in V
  <2> HIDE DEF V
  <2>1. f.qs \in Seq(Questions)
    BY DEF Frames
  <2>2. QED
    BY <1>2, <2>1
<1> DEFINE a == Answer(f)
<1>4. a \in V
  <2> HIDE DEF V
  <2>1. QED
    BY <1>1, <1>3, AnswerIn
<1> HIDE DEF a
<1>5. QED
  BY <1>4 DEF a

\* The packet that CreateAnswer sends.
Reply(f) ==
    LET a == Answer(f)
    IN  [Packet(Alloc(f.d, {}), f.m.i) EXCEPT !.resp = TRUE, !.qs = a.qs, !.an = a.an, !.ar = a.ar]

LEMMA ReplyOwn ==
    ASSUME EnoughAddrs, NEW f \in Frames, f.d.host # 0
    PROVE Reply(f) \in Packets /\ Reply(f).i = f.m.i /\ HasOwn(f.d, Reply(f))
<1> DEFINE a == Answer(f)
           qs == a.qs
           an == a.an
           ar == a.ar
           i == f.m.i
           at == Alloc(f.d, {})
           p == Reply(f)
<1>1. f.d \in Device /\ i \in Ifaces
  BY DEF Frames, Messages
<1>2. at \in Nat
  <2>1. f.d.txq \in Seq(Packets)
    BY <1>1 DEF Device
  <2>2. QED
    BY <1>1, <2>1, FS_EmptySet, FreeAddress
<1>3. qs \in Seq(Questions) /\ an \in Seq(Kinds) /\ ar \in Seq(Kinds)
  <2>1. a \in Answers
    BY AnswerType
  <2>2. QED
    BY <2>1 DEF Answers
<1>4. "SRV" \in ToSet(an) => f.d.svc # 0
  BY AnswerOwn
<1> DEFINE k == Packet(at, i)
<1>5. k = [at |-> at, i |-> i, left |-> 0, queued |-> FALSE, resp |-> FALSE, bye |-> FALSE,
           qs |-> <<>>, an |-> <<>>, ns |-> <<>>, ar |-> <<>>]
  BY DEF Packet
<1>6. p = [k EXCEPT !.resp = TRUE, !.qs = qs, !.an = an, !.ar = ar]
  BY DEF Reply
<1> HIDE DEF k, a, qs, an, ar, i, at, p
<1>7. p = [at |-> at, i |-> i, left |-> 0, queued |-> FALSE, resp |-> TRUE, bye |-> FALSE,
           qs |-> qs, an |-> an, ns |-> <<>>, ar |-> ar]
  BY <1>5, <1>6
<1>8. p \in Packets /\ p.i = i /\ p.an = an /\ p.ns = <<>>
  BY <1>1, <1>2, <1>3, <1>7 DEF Packets, Second
<1>9. "SRV" \notin ToSet(<<>>)
  BY DEF ToSet
<1>10. HasOwn(f.d, p)
  BY <1>4, <1>8, <1>9 DEF HasOwn
<1>11. QED
  BY <1>8, <1>10 DEF p, i

LEMMA CreateAnswerFair ==
    ASSUME EnoughAddrs, NEW f, NEW d \in Device, NEW is \in SUBSET d.ready, FrameFair(f, d, is),
           IsAfterProbing(f), NEW e, e = CreateAnswer(f)
    PROVE Spoken(e, is) /\ e.ready = d.ready
<1> DEFINE i == f.m.i
           p == Reply(f)
<1>1. /\ f \in Frames /\ f.d \in Device /\ i \in Ifaces /\ HandledOK(f.d, <<>>, FALSE, {})
      /\ Fair(f.d, is, is) /\ f.d.ready = d.ready /\ is \in SUBSET Ifaces
  BY FrameParts DEF FrameFair, FrameOK, Just, Device
<1>2. \/ e = f.d
      \/ f.qs # <<>> /\ (e = SendAfter(f.d, p, Shared) \/ e = Dispatch(f.d, p))
  BY DEF CreateAnswer, Reply
<1>3. ~Probing(f.d.pcb[i])
  <2>1. f.d.pcb[i].state \in {OFF} \cup PROBE_1 .. RUNNING
    BY <1>1 DEF Device, Pcbs
  <2>2. QED
    BY <2>1 DEF IsAfterProbing, Probing, PROBE_1, PROBE_3, OFF, RUNNING
<1>4. CASE e = f.d
  BY <1>1, <1>4, FairSpoken
<1>5. ASSUME f.qs # <<>> PROVE p \in Packets /\ p.i = i /\ HasOwn(f.d, p)
  BY <1>1, <1>5, ReplyOwn DEF FrameFair, Just
<1> HIDE DEF p, i
<1>6. CASE f.qs # <<>> /\ e = Dispatch(f.d, p)
  <2>1. Spoken(e, is)
    BY <1>1, <1>3, <1>5, <1>6, SendFairly
  <2>2. OtherNet(f.d, e)
    BY <1>1, <1>5, <1>6, DispatchOK
  <2>3. QED
    BY <1>1, <2>1, <2>2 DEF OtherNet
<1>7. CASE f.qs # <<>> /\ e = SendAfter(f.d, p, Shared)
  <2> DEFINE s == [p EXCEPT !.left = Shared]
  <2>1. QueueOK(f.d.txq) /\ Shared \in 0 .. Second
    BY <1>1 DEF HandledOK, BaseOK, Shared, Second
  <2>2. OtherTxq(f.d, e, e.txq) /\ \A x \in ToSet(e.txq) : x = s \/ x \in ToSet(f.d.txq)
    BY <1>1, <1>5, <1>7, <2>1, SentSet
  <2>3. s.i = i /\ s.resp = p.resp /\ s.an = p.an /\ s.ns = p.ns
    BY <1>5, <1>7 DEF Packets
  <2> HIDE DEF s
  <2>4. HasOwn(f.d, s)
    BY <1>5, <1>7, <2>3 DEF HasOwn
  <2>5. e.pcb = f.d.pcb /\ SameName(f.d, e) /\ SameNet(f.d, e)
    BY <2>2 DEF OtherTxq
  <2>6. OwnOK(e)
    BY <1>1, <2>2, <2>4, <2>5, OwnMoved DEF Fair
  <2>7. ASSUME i \in is PROVE EarnedOK(e, i)
    <3>1. HostEarned(f.d, i) /\ SvcEarned(f.d, i)
      BY <1>1, <2>7 DEF Fair
    <3>2. Asked(e, i) = Asked(f.d, i)
      BY <2>5 DEF Asked, SameName, SameNet
    <3>3. QED
      BY <1>3, <2>5, <3>1, <3>2 DEF EarnedOK, HostEarned, SvcEarned, SameName
  <2>8. Spoken(f.d, is)
    BY <1>1, FairSpoken
  <2>9. Spoken(e, is)
    BY <1>1, <2>2, <2>3, <2>5, <2>6, <2>7, <2>8, OthersMoved
  <2>10. QED
    BY <1>1, <2>5, <2>9 DEF SameNet
<1>8. QED
  BY <1>2, <1>4, <1>6, <1>7

LEMMA ParsePacketFair ==
    ASSUME EnoughAddrs, NEW d, HandledOK(d, <<>>, FALSE, {}), NEW is \in SUBSET d.ready, Fair(d, is, is),
           NEW m \in Messages, NEW e, e = ParsePacket(d, m)
    PROVE Spoken(e, is) /\ e.ready = d.ready
<1> DEFINE new == NewFrame(d, m)
           rs == m.an \o m.ns \o m.ar
           read == ReadRecords(CollectQuestions(new, m.qs), rs)
<1>1. FrameFair(new, d, is) /\ d \in Device
  BY DEF FrameFair, FrameOK, Just, NewFrame, Frames, HandledOK, BaseOK, Beside
<1>2. m.qs \in Seq(Questions) /\ rs \in Seq(Records)
  <2>1. m.qs \in Seq(Questions) /\ m.an \in Seq(Records) /\ m.ns \in Seq(Records) /\ m.ar \in Seq(Records)
    BY DEF Messages
  <2>2. QED
    BY <2>1
<1> HIDE DEF new, rs
<1>3. FrameFair(read, d, is)
  BY <1>1, <1>2, ReadFair
<1>4. e = d \/ (IsAfterProbing(read) /\ e = CreateAnswer(read)) \/ e = read.d
  BY DEF ParsePacket, new, rs, read
<1> HIDE DEF read
<1>5. CASE e = d
  BY <1>5, FairSpoken
<1>6. CASE IsAfterProbing(read) /\ e = CreateAnswer(read)
  BY <1>1, <1>3, <1>6, CreateAnswerFair
<1>7. CASE e = read.d
  BY <1>3, <1>7, FairSpoken DEF FrameFair, Just
<1>8. QED
  BY <1>4, <1>5, <1>6, <1>7

-----------------------------------------------------------------------------
(* Every step of the system leaves what is claimed probed.                 *)

\* The interfaces that are served.
Served(d, sure) == IF sure THEN Trusted(d, Acts(d)) ELSE {}

LEMMA ServedFair ==
    ASSUME NEW d \in Device, NEW sure, ServedOK(d, sure), d.out = <<>>
    PROVE  /\ Served(d, sure) \in SUBSET Ifaces /\ Served(d, sure) \subseteq d.ready \cap d.up
           /\ Fair(d, Served(d, sure), Served(d, sure))
<1>1. Served(d, sure) \subseteq d.ready /\ d.ready \subseteq Ifaces
  BY DEF Served, Trusted, Device
<1>2. \A i \in Served(d, sure) : i \in d.up /\ EarnedOK(d, i)
  BY DEF Served, ServedOK
<1>3. OwnOK(d) /\ NoClaims(d)
  BY DEF ServedOK, NoClaims, ToSet
<1>4. QED
  BY <1>1, <1>2, <1>3 DEF Fair, EarnedOK

LEMMA SpokenServed ==
    ASSUME NEW e, NEW sure, NEW js, Spoken(e, js), sure => Trusted(e, Acts(e)) \subseteq js \cap e.up,
           e.app # "off", e.held = <<>>
    PROVE ServedOK(e, sure)
  BY DEF Spoken, ServedOK

LEMMA ToSetFirst ==
    ASSUME NEW V, NEW a \in V, NEW q \in Seq(V)
    PROVE ToSet(<<a>> \o q) = {a} \cup ToSet(q)
<1> DEFINE r == <<a>> \o q
           n == Len(q)
<1>1. /\ n \in Nat /\ DOMAIN q = 1 .. n /\ DOMAIN r = 1 .. n + 1
      /\ r[1] = a /\ \A k \in 2 .. n + 1 : r[k] = q[k - 1]
  OBVIOUS
<1> HIDE DEF r, n
<1>2. \A k \in 1 .. n + 1 : k = 1 \/ (k \in 2 .. n + 1 /\ k - 1 \in 1 .. n)
  BY <1>1
<1>3. 1 \in 1 .. n + 1 /\ \A k \in 1 .. n : k + 1 \in 2 .. n + 1 /\ k + 1 \in 1 .. n + 1 /\ k + 1 - 1 = k
  BY <1>1
<1>4. ToSet(r) \subseteq {a} \cup ToSet(q)
  <2>1. ASSUME NEW k \in 1 .. n + 1 PROVE r[k] = a \/ r[k] \in ToSet(q)
    <3>1. CASE k = 1
      BY <1>1, <3>1
    <3>2. CASE k \in 2 .. n + 1 /\ k - 1 \in 1 .. n
      BY <1>1, <3>2 DEF ToSet
    <3>3. QED
      BY <1>2, <3>1, <3>2
  <2>2. QED
    BY <1>1, <2>1 DEF ToSet
<1>5. ASSUME NEW k \in 1 .. n PROVE q[k] \in ToSet(r)
  <2>1. r[k + 1] = q[k]
    BY <1>1, <1>3
  <2>2. QED
    BY <1>1, <1>3, <2>1 DEF ToSet
<1>6. ToSet(q) \subseteq ToSet(r) /\ a \in ToSet(r)
  BY <1>1, <1>3, <1>5 DEF ToSet
<1>7. QED
  BY <1>4, <1>6 DEF r

\* The action that is taken next is the one more that counts.
LEMMA TrustedNext ==
    ASSUME NEW d \in Device, d.held # <<>>, NEW i
    PROVE i \in Trusted(d, Acts(d)) <=>
            i \in Trusted(d, d.aq) /\ d.held # <<"event", i, FALSE>>
<1>1. d.held \in Actions /\ d.aq \in Seq(Actions)
  BY DEF Device
<1>2. ToSet(Acts(d)) = {d.held} \cup ToSet(d.aq)
  BY <1>1, ToSetFirst DEF Acts
<1>3. QED
  BY <1>2 DEF Trusted

\* A packet was sent, and the same interfaces are ready.
SameReady(d, e) == e.ready = d.ready
SentOn(d, e, is) == Spoken(e, is) /\ SameReady(d, e)

LEMMA SendFrom ==
    ASSUME EnoughAddrs, NEW d, HandledOK(d, <<>>, FALSE, {}),
           NEW is \in SUBSET Ifaces, Fair(d, is, is), is \subseteq d.ready \cap d.up,
           NEW at, NEW e, e = SendPacket(d, at)
    PROVE SentOn(d, e, is)
  BY SendPacketFair DEF SentOn, SameReady

LEMMA EventParts ==
    ASSUME NEW a, NEW i, a = <<"event", i, FALSE>>
    PROVE a[1] = "event" /\ a[2] = i /\ ~a[3]
  OBVIOUS

LEMMA ExecutedFair ==
    ASSUME EnoughAddrs, NEW d, NEW some, HandledOK(d, Acts(d), some, {}), d.held # <<>>,
           NEW sure, ServedOK(d, sure), NEW e, e = Executed(d)
    PROVE ServedOK(e, sure)
<1> DEFINE a == d.held
           c == [d EXCEPT !.held = <<>>]
           is == Served(d, sure)
<1>1. d \in Device /\ d.out = <<>> /\ d.app # "off" /\ a \in Actions
  BY DEF HandledOK, BaseOK, ServedOK, Device
<1>2. is \in SUBSET Ifaces /\ is \subseteq d.ready \cap d.up /\ Fair(d, is, is)
  BY <1>1, ServedFair
<1>3. Done(d, e)
  BY ExecutedOK
<1>4. /\ SameCore(d, c) /\ c.probed = d.probed /\ c.out = d.out /\ c.up = d.up /\ c.aq = d.aq
      /\ c \in Device
  BY <1>1 DEF SameCore, SameName, Device
<1>5. HandledOK(c, <<>>, FALSE, {}) /\ Fair(c, is, is)
  <2> HIDE DEF c, is
  <2>1. HandledOK(d, <<>>, FALSE, {})
    BY DEF HandledOK, BaseOK
  <2>2. HandledOK(c, <<>>, FALSE, {})
    BY <1>4, <2>1, CoreOK
  <2>3. Fair(c, is, is)
    BY <1>2, <1>4, FairKept DEF SameCore
  <2>4. QED
    BY <2>2, <2>3
<1>6. is \subseteq c.ready \cap c.up /\ is \in SUBSET c.ready /\ c.ready = d.ready
  BY <1>2, <1>4 DEF SameCore
<1>7. /\ a[1] \in {"tx", "rx", "event", "hostname", "none"}
      /\ a[1] = "rx" => a[2] \in Messages
      /\ a[1] = "event" => a[2] \in Ifaces /\ a[3] \in BOOLEAN
  BY <1>1, ActionKinds
<1>8. ASSUME sure, NEW i, i \in Trusted(e, Acts(e))
      PROVE i \in e.ready /\ (i \in d.ready => i \in is \/ a = <<"event", i, FALSE>>)
  <2>1. i \in e.ready /\ <<"event", i, FALSE>> \notin ToSet(d.aq)
    BY <1>3, <1>8 DEF Trusted, Acts, Done
  <2>2. ASSUME i \in d.ready, a # <<"event", i, FALSE>> PROVE i \in is
    <3>1. i \in Trusted(d, d.aq)
      BY <2>1, <2>2 DEF Trusted
    <3>2. QED
      BY <1>1, <1>8, <2>2, <3>1, TrustedNext DEF Served
  <2>3. QED
    BY <2>1, <2>2
<1> HIDE DEF c, is
<1>9. ASSUME Spoken(e, is), e.ready = d.ready, a[1] # "event" PROVE ServedOK(e, sure)
  <2>1. ASSUME sure, NEW i, i \in Trusted(e, Acts(e)) PROVE i \in is \cap e.up
    <3>1. a # <<"event", i, FALSE>>
      BY <1>9, EventParts
    <3>2. i \in is
      BY <1>8, <1>9, <2>1, <3>1
    <3>3. QED
      BY <1>2, <1>3, <3>2 DEF Done
  <2>2. QED
    BY <1>1, <1>3, <1>9, <2>1, SpokenServed DEF Done
<1>10. CASE a[1] = "tx"
  <2>1. e = SendPacket(c, a[2])
    BY <1>10 DEF Executed, c
  <2>2. SentOn(c, e, is)
    BY <1>2, <1>5, <1>6, <2>1, SendFrom
  <2>3. QED
    BY <1>6, <1>9, <1>10, <2>2 DEF SentOn, SameReady
<1>11. CASE a[1] = "rx"
  <2>1. e = ParsePacket(c, a[2])
    BY <1>11 DEF Executed, ExecuteReceive, c
  <2>2. Spoken(e, is) /\ e.ready = d.ready
    BY <1>5, <1>6, <1>7, <1>11, <2>1, ParsePacketFair
  <2>3. QED
    BY <1>9, <1>11, <2>2
<1>12. CASE a[1] = "hostname"
  <2> DEFINE h == HostnameSet(c, 1)
  <2>1. e = [h EXCEPT !.named = TRUE]
    BY <1>12 DEF Executed, ExecuteHostname, c
  <2>2. HandledOK(h, <<>>, FALSE, {}) /\ Fair(h, c.ready, c.ready) /\ h.ready = c.ready
    <3>1. h = HostnameSet(c, 1) /\ 1 \in Nat \ {0} /\ Fair(c, {}, {})
      BY <1>5 DEF Fair
    <3> HIDE DEF h
    <3>2. QED
      BY <1>5, <3>1, HostnameSetOK, HostnameSetFair
  <2> HIDE DEF h
  <2>3. /\ SameName(h, e) /\ e.probed = h.probed /\ e.out = h.out /\ e.pcb = h.pcb
        /\ ToSet(e.txq) \subseteq ToSet(h.txq) /\ e.ready = h.ready /\ c.ready \in SUBSET Ifaces
    BY <1>4, <2>1, <2>2 DEF SameName, HandledOK, BaseOK, Device
  <2>4. Fair(e, c.ready, c.ready)
    BY <2>2, <2>3, FairKept
  <2>5. Fair(e, is, is)
    BY <1>6, <2>4 DEF Fair
  <2>6. QED
    BY <1>6, <1>9, <1>12, <2>2, <2>3, <2>5, FairSpoken
<1>13. CASE a[1] = "none"
  <2>1. e = c
    BY <1>13 DEF Executed, c
  <2>2. QED
    BY <1>5, <1>6, <1>9, <1>13, <2>1, FairSpoken
<1>14. CASE a[1] = "event" /\ a[3]
  <2> DEFINE js == is \cup (e.ready \ c.ready)
  <2>1. e = PcbEnable(c, a[2])
    BY <1>14 DEF Executed, c
  <2>2. Fair(e, js, js) /\ e.ready \ c.ready \subseteq c.up
    BY <1>2, <1>5, <1>7, <1>14, <2>1, PcbEnableFair
  <2>3. ASSUME sure, NEW i, i \in Trusted(e, Acts(e)) PROVE i \in js \cap e.up
    <3>1. a # <<"event", i, FALSE>>
      BY <1>14, EventParts
    <3>2. i \in e.ready /\ (i \in d.ready => i \in is)
      BY <1>8, <2>3, <3>1
    <3>3. QED
      BY <1>2, <1>3, <1>4, <1>6, <2>2, <3>2 DEF Done
  <2> HIDE DEF js
  <2>4. QED
    BY <1>1, <1>3, <2>2, <2>3, FairSpoken, SpokenServed DEF Done
<1>15. CASE a[1] = "event" /\ ~a[3]
  <2> DEFINE js == is \ {a[2]}
  <2>1. e = PcbDisable(c, a[2])
    BY <1>15 DEF Executed, c
  <2>2. Fair(e, js, js) /\ e.ready = c.ready \ {a[2]}
    BY <1>2, <1>5, <1>7, <1>15, <2>1, PcbDisableFair
  <2>3. ASSUME sure, NEW i, i \in Trusted(e, Acts(e)) PROVE i \in js \cap e.up
    <3>1. i \in e.ready /\ (i \in d.ready => i \in is \/ a = <<"event", i, FALSE>>)
      BY <1>8, <2>3
    <3>2. i # a[2] /\ i \in d.ready
      BY <1>6, <2>2, <3>1
    <3>3. a # <<"event", i, FALSE>>
      BY <3>2, EventParts
    <3>4. QED
      BY <1>2, <1>3, <3>1, <3>2, <3>3 DEF Done
  <2> HIDE DEF js
  <2>4. QED
    BY <1>1, <1>3, <2>2, <2>3, FairSpoken, SpokenServed DEF Done
<1>16. QED
  BY <1>7, <1>10, <1>11, <1>12, <1>13, <1>14, <1>15

\* Only what is to be executed or the application is another one, or what was
\* said is over, or more is known to be lost.
Passes(d, e) ==
    /\ SameName(d, e) /\ e.ready = d.ready /\ e.pcb = d.pcb /\ e.probed = d.probed
    /\ e.out = d.out \/ e.out = <<>>
    /\ \A x \in ToSet(e.txq) : \E y \in ToSet(d.txq) : SameTalk(x, y)
    /\ e.held # <<>> => e.out = <<>>
    /\ e.app = "off" => d.app = "off" /\ e.held = <<>>

LEMMA ServedKept ==
    ASSUME NEW d, NEW sure, ServedOK(d, sure), NEW e, Passes(d, e),
           NEW still, still => sure /\ \A i \in Trusted(e, Acts(e)) : i \in Trusted(d, Acts(d)) /\ i \in e.up
    PROVE ServedOK(e, still)
<1>1. OwnOK(d) /\ SameName(d, e)
  BY DEF ServedOK, Passes
<1>2. OwnOK(e)
  BY <1>1, OwnKept DEF Passes, SameName, OwnOK
<1>3. ASSUME NEW i, EarnedOK(d, i) PROVE EarnedOK(e, i)
  <2>1. NothingNew(d.txq, e.txq, i)
    BY DEF NothingNew, Passes
  <2>2. QED
    BY <1>1, <1>3, <2>1, EarnedKept DEF Passes, EarnedOK
<1>4. ASSUME NEW i, ClaimsOK(d, i) PROVE ClaimsOK(e, i)
  <2>1. CASE e.out = d.out
    BY <1>4, <2>1 DEF ClaimsOK, Passes
  <2>2. CASE e.out = <<>>
    BY <2>2 DEF ClaimsOK, ToSet
  <2>3. QED
    BY <2>1, <2>2 DEF Passes
<1>5. still => \A i \in Trusted(e, Acts(e)) : i \in e.up /\ EarnedOK(e, i) /\ ClaimsOK(e, i)
  BY <1>3, <1>4 DEF ServedOK
<1>6. e.app = "off" => e.ready = {} /\ e.out = <<>> /\ e.held = <<>>
  BY DEF Passes, ServedOK
<1>7. QED
  BY <1>2, <1>5, <1>6 DEF ServedOK, Passes

\* Only more is to be executed.
Posting(d, e) ==
    \E aq \in Seq(Actions) : e = [d EXCEPT !.aq = aq] /\ ToSet(d.aq) \subseteq ToSet(aq)

LEMMA ToSetConcat ==
    ASSUME NEW V, NEW p \in Seq(V), NEW q \in Seq(V)
    PROVE ToSet(p) \subseteq ToSet(p \o q) /\ ToSet(q) \subseteq ToSet(p \o q)
<1> DEFINE r == p \o q
           m == Len(p)
           n == Len(q)
<1>1. /\ m \in Nat /\ n \in Nat /\ DOMAIN p = 1 .. m /\ DOMAIN q = 1 .. n /\ DOMAIN r = 1 .. m + n
      /\ \A k \in 1 .. m : r[k] = p[k]
      /\ \A k \in 1 .. n : r[m + k] = q[k]
  OBVIOUS
<1> HIDE DEF r, m, n
<1>2. (\A k \in 1 .. m : k \in 1 .. m + n) /\ \A k \in 1 .. n : m + k \in 1 .. m + n
  BY <1>1
<1>3. ToSet(p) \subseteq ToSet(r)
  BY <1>1, <1>2 DEF ToSet
<1>4. ASSUME NEW k \in 1 .. n PROVE q[k] \in ToSet(r)
  <2>1. r[m + k] = q[k] /\ m + k \in DOMAIN r
    BY <1>1, <1>2
  <2>2. QED
    BY <2>1 DEF ToSet
<1>5. QED
  BY <1>1, <1>3, <1>4 DEF ToSet, r

LEMMA QueuedPosts ==
    ASSUME NEW d \in Device, NEW a \in Actions, NEW e, e = Queued(d, a)
    PROVE Posting(d, e)
<1>1. d.aq \in Seq(Actions) /\ d = [d EXCEPT !.aq = d.aq]
  BY DEF Device
<1>2. Append(d.aq, a) \in Seq(Actions) /\ ToSet(Append(d.aq, a)) = ToSet(d.aq) \cup {a}
  BY <1>1, ToSetAppend
<1>3. e = d \/ e = [d EXCEPT !.aq = Append(d.aq, a)]
  BY DEF Queued
<1>4. QED
  BY <1>1, <1>2, <1>3 DEF Posting

\* With room for one, the first of what is posted is.
LEMMA QueuedAllPosts ==
    ASSUME MdnsAssumption, NEW d \in Device, Len(d.aq) <= QueueLen, NEW posts \in Seq(Actions),
           NEW e, e = QueuedAll(d, posts)
    PROVE  /\ Posting(d, e)
           /\ HasRoom(d) /\ posts # <<>> => posts[1] \in ToSet(e.aq)
<1> DEFINE room == QueueLen - Len(d.aq)
           l == IF Len(posts) < room THEN Len(posts) ELSE room
           more == SubSeq(posts, 1, l)
           aq == d.aq \o more
<1>1. d.aq \in Seq(Actions) /\ Len(d.aq) \in Nat /\ QueueLen \in Nat /\ Len(posts) \in Nat
  BY DEF Device, MdnsAssumption
<1>2. room \in Nat /\ (HasRoom(d) => room # 0)
  BY <1>1 DEF HasRoom
<1>3. e = [d EXCEPT !.aq = aq]
  BY DEF QueuedAll
<1> HIDE DEF room
<1>4. more \in Seq(Actions)
  BY <1>1, <1>2, StartOf
<1>5. HasRoom(d) /\ posts # <<>> => 1 \in DOMAIN more /\ more[1] = posts[1]
  <2>1. posts # <<>> => Len(posts) # 0
    BY <1>1
  <2>2. HasRoom(d) /\ posts # <<>> => l \in 1 .. Len(posts)
    BY <1>1, <1>2, <2>1
  <2> HIDE DEF l
  <2>3. QED
    BY <2>2
<1> HIDE DEF more
<1>6. aq \in Seq(Actions) /\ ToSet(d.aq) \subseteq ToSet(aq) /\ ToSet(more) \subseteq ToSet(aq)
  BY <1>1, <1>4, ToSetConcat
<1> HIDE DEF aq
<1>7. Posting(d, e) /\ e.aq = aq
  BY <1>3, <1>6 DEF Posting, Device
<1>8. HasRoom(d) /\ posts # <<>> => posts[1] \in ToSet(more)
  BY <1>5 DEF ToSet
<1>9. QED
  BY <1>6, <1>7, <1>8

LEMMA PostingTrust ==
    ASSUME NEW d \in Device, NEW e \in Device, ToSet(d.aq) \subseteq ToSet(e.aq), e.held = d.held,
           e.ready \subseteq d.ready
    PROVE Trusted(e, Acts(e)) \subseteq Trusted(d, Acts(d))
<1>1. CASE d.held = <<>>
  BY <1>1 DEF Acts, Trusted
<1>2. CASE d.held # <<>>
  <2>1. Trusted(e, e.aq) \subseteq Trusted(d, d.aq)
    BY DEF Trusted
  <2>2. QED
    BY <1>2, <2>1, TrustedNext
<1>3. QED
  BY <1>1, <1>2

\* What is posted changes nothing of what is said.
LEMMA PostingServed ==
    ASSUME NEW d \in Device, NEW sure, ServedOK(d, sure), NEW e, Posting(d, e)
    PROVE e \in Device /\ ServedOK(e, sure)
<1>1. PICK aq \in Seq(Actions) : e = [d EXCEPT !.aq = aq] /\ ToSet(d.aq) \subseteq ToSet(aq)
  BY DEF Posting
<1>2. e \in Device /\ e.aq = aq /\ e.held = d.held /\ e.ready = d.ready /\ e.up = d.up
  BY <1>1 DEF Device
<1>3. /\ SameName(d, e) /\ e.pcb = d.pcb /\ e.probed = d.probed /\ e.out = d.out /\ e.txq = d.txq
      /\ e.app = d.app
  BY <1>1 DEF Device, SameName
<1>4. Passes(d, e)
  BY <1>2, <1>3 DEF Passes, SameTalk, ServedOK
<1>5. Trusted(e, Acts(e)) \subseteq Trusted(d, Acts(d))
  BY <1>1, <1>2, PostingTrust
<1>6. sure => sure /\ \A i \in Trusted(e, Acts(e)) : i \in Trusted(d, Acts(d)) /\ i \in e.up
  BY <1>2, <1>5 DEF ServedOK
<1>7. QED
  BY <1>2, <1>4, <1>6, ServedKept

LEMMA LessServed ==
    ASSUME NEW d, NEW sure, ServedOK(d, sure), NEW still, still => sure
    PROVE ServedOK(d, still)
  BY DEF ServedOK

-----------------------------------------------------------------------------
(* One lemma per action: what was asked before it is claimed is kept.      *)

\* No interface event of x was dropped.
Told(x) == "event" \notin full[x]

LEMMA OneServed ==
    ASSUME MdnsInv, ProbedInv, NEW x \in Devices
    PROVE  /\ dev[x] \in Device /\ ServedOK(dev[x], Told(x)) /\ HandledOK(dev[x], Acts(dev[x]), Sure(x), {})
           /\ HandledOK(dev[x], <<>>, FALSE, {}) /\ Len(dev[x].aq) <= QueueLen
<1>1. dev[x] \in Device /\ HandledOK(dev[x], Acts(dev[x]), Sure(x), {}) /\ Len(dev[x].aq) <= QueueLen
  BY OneDevice
<1>2. HandledOK(dev[x], <<>>, FALSE, {})
  BY <1>1 DEF HandledOK, BaseOK
<1>3. QED
  BY <1>1, <1>2 DEF ProbedInv, Told

LEMMA ServedStep ==
    ASSUME MdnsInv, ProbedInv, NEW x \in Devices, NEW e, dev' = [dev EXCEPT ![x] = e],
           \A y \in Devices : Told(y)' => Told(y), ServedOK(e, Told(x)')
    PROVE ProbedInv'
<1>1. dev = [y \in Devices |-> dev[y]]
  BY DEF MdnsInv
<1>2. dev' = [y \in Devices |-> IF y = x THEN e ELSE dev[y]]
  BY <1>1
<1>3. ASSUME NEW y \in Devices PROVE ServedOK(dev'[y], Told(y)')
  <2>1. CASE y = x
    BY <1>2, <2>1
  <2>2. CASE y # x
    <3>1. dev'[y] = dev[y] /\ ServedOK(dev[y], Told(y))
      BY <1>2, <2>2 DEF ProbedInv, Told
    <3>2. QED
      BY <3>1, LessServed
  <2>3. QED
    BY <2>1, <2>2
<1>4. QED
  BY <1>3 DEF ProbedInv, Told

LEMMA QuietServed ==
    ASSUME MdnsInv, ProbedInv, NEW x \in Devices, NEW e, dev' = [dev EXCEPT ![x] = e], full' = full,
           ServedOK(e, Told(x))
    PROVE ProbedInv'
<1>1. \A y \in Devices : Told(y)' <=> Told(y)
  BY DEF Told
<1>2. ServedOK(e, Told(x)')
  BY <1>1, LessServed
<1>3. QED
  BY <1>1, <1>2, ServedStep

\* What was lost, if anything, was no interface event.
LEMMA PostedServed ==
    ASSUME MdnsInv, ProbedInv, NEW x \in Devices, NEW e, dev' = [dev EXCEPT ![x] = e],
           NEW d, NEW what, what # "event", Posted(x, d, what), ServedOK(e, Told(x))
    PROVE ProbedInv'
<1>1. full = [y \in Devices |-> full[y]]
  BY DEF MdnsInv
<1>2. full' = full \/ full' = [full EXCEPT ![x] = full[x] \cup {what}]
  BY DEF Posted
<1>3. \A y \in Devices : Told(y)' <=> Told(y)
  BY <1>1, <1>2 DEF Told
<1>4. ServedOK(e, Told(x)')
  BY <1>3, LessServed
<1>5. QED
  BY <1>3, <1>4, ServedStep

\* With the same actions and interfaces the same ones are trusted.
LEMMA SameTrust ==
    ASSUME NEW d, NEW e, Acts(e) = Acts(d), e.ready = d.ready, e.up = d.up, NEW sure, ServedOK(d, sure)
    PROVE sure => sure /\ \A i \in Trusted(e, Acts(e)) : i \in Trusted(d, Acts(d)) /\ i \in e.up
  BY DEF Trusted, ServedOK

LEMMA AppNamedServed ==
    ASSUME Assumed, MdnsInv, ProbedInv, NEW x \in Devices, AppNamed(x)
    PROVE ProbedInv'
<1> DEFINE d == dev[x]
           e == [d EXCEPT !.app = "add", !.named = FALSE]
<1>1. d \in Device /\ ServedOK(d, Told(x))
  BY OneServed
<1>2. dev' = [dev EXCEPT ![x] = e] /\ full' = full
  BY DEF AppNamed
<1> HIDE DEF d
<1>3. /\ e.aq = d.aq /\ e.held = d.held /\ e.ready = d.ready /\ e.up = d.up /\ e.app = "add"
      /\ SameName(d, e) /\ e.pcb = d.pcb /\ e.probed = d.probed /\ e.out = d.out /\ e.txq = d.txq
  BY <1>1 DEF Device, SameName
<1> HIDE DEF e
<1>4. Passes(d, e) /\ Acts(e) = Acts(d)
  BY <1>1, <1>3 DEF Passes, SameTalk, ServedOK, Acts
<1>5. ServedOK(e, Told(x))
  BY <1>1, <1>3, <1>4, SameTrust, ServedKept
<1>6. QED
  BY <1>2, <1>5, QuietServed

LEMMA TimerDoneServed ==
    ASSUME Assumed, MdnsInv, ProbedInv, NEW x \in Devices, TimerDone(x)
    PROVE ProbedInv'
<1> DEFINE d == dev[x]
           e == [d EXCEPT !.timer = 0]
<1>1. d \in Device /\ ServedOK(d, Told(x))
  BY OneServed
<1>2. dev' = [dev EXCEPT ![x] = e] /\ full' = full
  BY DEF TimerDone
<1> HIDE DEF d
<1>3. /\ e.aq = d.aq /\ e.held = d.held /\ e.ready = d.ready /\ e.up = d.up /\ e.app = d.app
      /\ SameName(d, e) /\ e.pcb = d.pcb /\ e.probed = d.probed /\ e.out = d.out /\ e.txq = d.txq
  BY <1>1 DEF Device, SameName
<1> HIDE DEF e
<1>4. Passes(d, e) /\ Acts(e) = Acts(d)
  BY <1>1, <1>3 DEF Passes, SameTalk, ServedOK, Acts
<1>5. ServedOK(e, Told(x))
  BY <1>1, <1>3, <1>4, SameTrust, ServedKept
<1>6. QED
  BY <1>2, <1>5, QuietServed

LEMMA AppSetHostnameServed ==
    ASSUME Assumed, MdnsInv, ProbedInv, NEW x \in Devices, AppSetHostname(x)
    PROVE ProbedInv'
<1> DEFINE d == dev[x]
           c == Queued(d, <<"hostname">>)
           app == IF HasRoom(d) THEN "wait" ELSE "add"
           e == [c EXCEPT !.app = app]
<1>1. d \in Device /\ ServedOK(d, Told(x)) /\ <<"hostname">> \in Actions
  BY OneServed DEF Actions
<1>2. dev' = [dev EXCEPT ![x] = e] /\ Posted(x, d, "name")
  BY DEF AppSetHostname
<1>3. app \in {"wait", "add"}
  OBVIOUS
<1>4. c \in Device /\ ServedOK(c, Told(x))
  <2>1. c = Queued(d, <<"hostname">>)
    OBVIOUS
  <2> HIDE DEF c, d
  <2>2. QED
    BY <1>1, <2>1, QueuedPosts, PostingServed
<1> HIDE DEF c, app, d
<1>5. /\ e.aq = c.aq /\ e.held = c.held /\ e.ready = c.ready /\ e.up = c.up /\ e.app = app
      /\ SameName(c, e) /\ e.pcb = c.pcb /\ e.probed = c.probed /\ e.out = c.out /\ e.txq = c.txq
  BY <1>4 DEF Device, SameName
<1> HIDE DEF e
<1>6. Passes(c, e) /\ Acts(e) = Acts(c)
  BY <1>3, <1>4, <1>5 DEF Passes, SameTalk, ServedOK, Acts
<1>7. ServedOK(e, Told(x))
  BY <1>4, <1>5, <1>6, SameTrust, ServedKept
<1>8. QED
  BY <1>2, <1>7, PostedServed

LEMMA HearForeignServed ==
    ASSUME Assumed, MdnsInv, ProbedInv, NEW x \in Devices, HearForeign(x)
    PROVE ProbedInv'
<1> DEFINE d == dev[x]
<1>1. d \in Device /\ ServedOK(d, Told(x))
  BY OneServed
<1>2. PICK i \in Ifaces, m \in Foreign(d) :
         /\ dev' = [dev EXCEPT ![x] = Queued(d, <<"rx", [m EXCEPT !.i = i]>>)]
         /\ Posted(x, d, "rx")
  BY DEF HearForeign
<1> HIDE DEF d
<1> DEFINE h == [m EXCEPT !.i = i]
           a == <<"rx", h>>
           e == Queued(d, a)
<1>3. a \in Actions
  <2>1. m \in Messages
    BY <1>1, <1>2 DEF Assumed, ForeignReadable
  <2>2. h \in Messages
    BY <2>1 DEF Messages
  <2> HIDE DEF h
  <2>3. QED
    BY <2>2 DEF Actions
<1>4. dev' = [dev EXCEPT ![x] = e]
  BY <1>2
<1>5. ServedOK(e, Told(x))
  <2>1. e = Queued(d, a)
    OBVIOUS
  <2> HIDE DEF e, a
  <2>2. QED
    BY <1>1, <1>3, <2>1, QueuedPosts, PostingServed
<1> HIDE DEF e
<1>6. QED
  BY <1>2, <1>4, <1>5, PostedServed

LEMMA TakeServed ==
    ASSUME Assumed, MdnsInv, ProbedInv, NEW x \in Devices, Take(x)
    PROVE ProbedInv'
<1> DEFINE d == dev[x]
           a == Head(d.aq)
           rest == Tail(d.aq)
           e == [d EXCEPT !.held = a, !.aq = rest, !.out = <<>>]
<1>1. d \in Device /\ ServedOK(d, Told(x))
  BY OneServed
<1>2. dev' = [dev EXCEPT ![x] = e] /\ full' = full /\ d.held = <<>> /\ d.aq # <<>> /\ d.app # "off"
  BY DEF Take
<1> HIDE DEF d
<1>3. d.aq \in Seq(Actions) /\ Acts(d) = d.aq
  BY <1>1, <1>2 DEF Device, Acts
<1>4. a \in Actions /\ rest \in Seq(Actions) /\ <<a>> \o rest = d.aq
  <2> DEFINE aq == d.aq
  <2>1. aq \in Seq(Actions) /\ aq # <<>>
    BY <1>2, <1>3
  <2> HIDE DEF aq
  <2>2. Head(aq) \in Actions /\ Tail(aq) \in Seq(Actions) /\ <<Head(aq)>> \o Tail(aq) = aq
    BY <2>1
  <2>3. QED
    BY <2>2 DEF aq
<1>5. a # <<>>
  BY <1>4, ActionSome
<1> HIDE DEF a, rest
<1>6. /\ e.aq = rest /\ e.held = a /\ e.ready = d.ready /\ e.up = d.up /\ e.app = d.app /\ e.out = <<>>
      /\ SameName(d, e) /\ e.pcb = d.pcb /\ e.probed = d.probed /\ e.txq = d.txq
  BY <1>1 DEF Device, SameName
<1> HIDE DEF e
<1>7. Acts(e) = Acts(d)
  BY <1>3, <1>4, <1>5, <1>6 DEF Acts
<1>8. Passes(d, e)
  BY <1>2, <1>6 DEF Passes, SameTalk
<1>9. ServedOK(e, Told(x))
  BY <1>1, <1>6, <1>7, <1>8, SameTrust, ServedKept
<1>10. QED
  BY <1>2, <1>9, QuietServed

LEMMA TimerTickServed ==
    ASSUME Assumed, MdnsInv, ProbedInv, NEW x \in Devices, TimerTick(x)
    PROVE ProbedInv'
<1> DEFINE d == dev[x]
           e == Tick(d)
           q == d.txq
           r == [k \in DOMAIN q |-> [q[k] EXCEPT !.left = IF @ = 0 THEN 0 ELSE @ - 1]]
           t == IF Waiting(d) = {} THEN 0 ELSE Min(Waiting(d))
<1>1. d \in Device /\ ServedOK(d, Told(x))
  BY OneServed
<1>2. dev' = [dev EXCEPT ![x] = e] /\ full' = full /\ d.app # "off"
  BY DEF TimerTick
<1>3. e = [d EXCEPT !.txq = r, !.timer = t]
  BY DEF Tick
<1> HIDE DEF d, e
<1>4. ASSUME NEW p \in ToSet(r) PROVE \E y \in ToSet(q) : SameTalk(p, y)
  <2>1. PICK k \in DOMAIN q : p = [q[k] EXCEPT !.left = IF @ = 0 THEN 0 ELSE @ - 1]
    BY <1>4 DEF ToSet
  <2>2. q \in Seq(Packets)
    BY <1>1 DEF Device
  <2>3. q[k] \in Packets /\ q[k] \in ToSet(q)
    BY <2>2 DEF ToSet
  <2>4. SameTalk(p, q[k])
    BY <2>1, <2>3 DEF SameTalk, Packets
  <2>5. QED
    BY <2>3, <2>4
<1> HIDE DEF r, t
<1>5. /\ e.aq = d.aq /\ e.held = d.held /\ e.ready = d.ready /\ e.up = d.up /\ e.app = d.app
      /\ SameName(d, e) /\ e.pcb = d.pcb /\ e.probed = d.probed /\ e.out = d.out /\ e.txq = r
  BY <1>1, <1>3 DEF Device, SameName
<1>6. Passes(d, e) /\ Acts(e) = Acts(d)
  BY <1>1, <1>4, <1>5 DEF Passes, ServedOK, Acts
<1>7. ServedOK(e, Told(x))
  BY <1>1, <1>5, <1>6, SameTrust, ServedKept
<1>8. QED
  BY <1>2, <1>7, QuietServed

LEMMA TimerPushServed ==
    ASSUME Assumed, MdnsInv, ProbedInv, NEW x \in Devices, TimerPush(x)
    PROVE ProbedInv'
<1> DEFINE d == dev[x]
           k == d.timer
           a == <<"tx", d.txq[k].at>>
           c == Queued(d, a)
           e == Pushed(d, a, k)
           q == d.txq
           r == [q EXCEPT ![k].queued = HasRoom(d)]
<1>1. d \in Device /\ ServedOK(d, Told(x)) /\ k \in DOMAIN q
  <2>1. d \in Device /\ ServedOK(d, Told(x)) /\ k # 0 /\ k <= Len(q)
    BY OneServed DEF TimerPush
  <2>2. k \in Nat /\ q \in Seq(Packets)
    BY <2>1 DEF Device
  <2>3. QED
    BY <2>1, <2>2
<1>2. dev' = [dev EXCEPT ![x] = e] /\ Posted(x, d, "push")
  BY DEF TimerPush, Pushed
<1> HIDE DEF d
<1>3. q \in Seq(Packets) /\ q[k] \in Packets /\ a \in Actions
  <2>1. q \in Seq(Packets)
    BY <1>1 DEF Device
  <2>2. q[k] \in Packets
    BY <1>1, <2>1
  <2>3. a \in Actions
    BY <2>2 DEF Packets, Actions
  <2>4. QED
    BY <2>1, <2>2, <2>3
<1>4. c \in Device /\ ServedOK(c, Told(x)) /\ c.txq = q
  <2>1. c = Queued(d, a)
    OBVIOUS
  <2> HIDE DEF c, a
  <2>2. c \in Device /\ ServedOK(c, Told(x))
    BY <1>1, <1>3, <2>1, QueuedPosts, PostingServed
  <2>3. c.txq = q
    BY <1>1, <2>1 DEF Queued, Device
  <2>4. QED
    BY <2>2, <2>3
<1> HIDE DEF q, a, k
<1>5. e = [c EXCEPT !.txq = r, !.timer = k + 1]
  BY <1>4 DEF Pushed, c, Device, k
<1> HIDE DEF c, e
<1>6. ASSUME NEW p \in ToSet(r) PROVE \E y \in ToSet(q) : SameTalk(p, y)
  <2>1. PICK j \in DOMAIN q : p = r[j]
    BY <1>6 DEF ToSet
  <2>2. q[j] \in Packets /\ q[j] \in ToSet(q)
    BY <1>3 DEF ToSet
  <2>3. p = q[j] \/ p = [q[j] EXCEPT !.queued = HasRoom(d)]
    BY <1>1, <2>1
  <2>4. SameTalk(p, q[j])
    BY <2>2, <2>3 DEF SameTalk, Packets
  <2>5. QED
    BY <2>2, <2>4
<1> HIDE DEF r
<1>7. /\ e.aq = c.aq /\ e.held = c.held /\ e.ready = c.ready /\ e.up = c.up /\ e.app = c.app
      /\ SameName(c, e) /\ e.pcb = c.pcb /\ e.probed = c.probed /\ e.out = c.out /\ e.txq = r
  BY <1>4, <1>5 DEF Device, SameName
<1>8. Passes(c, e) /\ Acts(e) = Acts(c)
  BY <1>4, <1>6, <1>7 DEF Passes, ServedOK, Acts
<1>9. ServedOK(e, Told(x))
  BY <1>4, <1>7, <1>8, SameTrust, ServedKept
<1>10. QED
  BY <1>2, <1>9, PostedServed

\* At the start nothing was said and no interface is ready: those that get ready
\* then are up and earn what they claim.
LEMMA NetifInitFair ==
    ASSUME EnoughAddrs, NEW d, HandledOK(d, <<>>, FALSE, {}), Fair(d, {}, {}), d.ready = {},
           NEW e, e = NetifInit(d)
    PROVE Fair(e, e.ready, e.ready) /\ e.ready \subseteq e.up
<1> DEFINE c == IF "sta" \in d.up THEN PcbEnable(d, "sta") ELSE d
<1>1. "sta" \in Ifaces /\ "ap" \in Ifaces /\ {} \in SUBSET Ifaces
  BY DEF Ifaces
<1>2. HandledOK(c, <<>>, FALSE, {}) /\ Beside(d, c) /\ Fair(c, c.ready, c.ready) /\ c.ready \subseteq d.up
  <2>1. CASE "sta" \in d.up
    <3>1. c = PcbEnable(d, "sta")
      BY <2>1
    <3> HIDE DEF c
    <3>2. HandledOK(c, <<>>, FALSE, {}) /\ Beside(d, c)
      BY <1>1, <3>1, PcbEnableOK
    <3>3. /\ Fair(c, {} \cup (c.ready \ d.ready), {} \cup (c.ready \ d.ready))
          /\ c.ready \ d.ready \subseteq {"sta"} \cap d.up
      BY <1>1, <3>1, PcbEnableFair
    <3>4. {} \cup (c.ready \ d.ready) = c.ready /\ c.ready \ d.ready = c.ready
      OBVIOUS
    <3>5. QED
      BY <3>2, <3>3, <3>4
  <2>2. CASE "sta" \notin d.up
    <3>1. c = d
      BY <2>2
    <3>2. QED
      BY <3>1 DEF Beside
  <2>3. QED
    BY <2>1, <2>2
<1>3. e = PcbEnable(c, "ap")
  BY DEF NetifInit
<1> HIDE DEF c
<1>4. HandledOK(e, <<>>, FALSE, {}) /\ Beside(c, e)
  BY <1>1, <1>2, <1>3, PcbEnableOK
<1>5. c.ready \in SUBSET Ifaces
  BY <1>2 DEF HandledOK, BaseOK, Device
<1>6. /\ Fair(e, c.ready \cup (e.ready \ c.ready), c.ready \cup (e.ready \ c.ready))
      /\ e.ready \ c.ready \subseteq {"ap"} \cap c.up
  BY <1>1, <1>2, <1>3, <1>5, PcbEnableFair
<1>7. Fair(e, e.ready, e.ready)
  BY <1>6 DEF Fair
<1>8. d.up = c.up /\ c.up = e.up
  BY <1>2, <1>4 DEF Beside
<1>9. QED
  BY <1>2, <1>6, <1>7, <1>8

LEMMA AppInitServed ==
    ASSUME Assumed, MdnsInv, ProbedInv, NEW x \in Devices, AppInit(x)
    PROVE ProbedInv'
<1> DEFINE d == dev[x]
           c == NetifInit(d)
           e == [c EXCEPT !.app = "name"]
<1>1. d \in Device /\ ServedOK(d, Told(x)) /\ HandledOK(d, <<>>, FALSE, {}) /\ d.app = "off"
  BY OneServed DEF AppInit
<1>2. dev' = [dev EXCEPT ![x] = e] /\ full' = full
  BY DEF AppInit
<1> HIDE DEF d
<1>3. d.ready = {} /\ Fair(d, {}, {}) /\ d.held = <<>>
  BY <1>1 DEF ServedOK, Fair, NoClaims, ToSet
<1>4. HandledOK(c, <<>>, FALSE, {}) /\ Beside(d, c) /\ Fair(c, c.ready, c.ready) /\ c.ready \subseteq c.up
  <2>1. c = NetifInit(d)
    OBVIOUS
  <2> HIDE DEF c
  <2>2. QED
    BY <1>1, <1>3, <2>1, NetifInitOK, NetifInitFair DEF Assumed
<1>5. c \in Device
  BY <1>4 DEF HandledOK, BaseOK
<1> HIDE DEF c
<1>6. /\ e.held = c.held /\ e.ready = c.ready /\ e.up = c.up /\ e.app = "name" /\ SameName(c, e)
      /\ e.pcb = c.pcb /\ e.probed = c.probed /\ e.out = c.out /\ e.txq = c.txq /\ c.held = d.held
  BY <1>4, <1>5 DEF Device, SameName, Beside
<1> HIDE DEF e
<1>7. c.ready \in SUBSET Ifaces
  BY <1>5 DEF Device
<1>8. Fair(e, c.ready, c.ready)
  BY <1>4, <1>6, <1>7, FairKept
<1>9. Spoken(e, c.ready)
  BY <1>8, FairSpoken
<1>10. Trusted(e, Acts(e)) \subseteq c.ready \cap e.up
  BY <1>4, <1>6 DEF Trusted
<1>11. ServedOK(e, Told(x))
  BY <1>3, <1>6, <1>9, <1>10, SpokenServed
<1>12. QED
  BY <1>2, <1>11, QuietServed

\* The service is added while the device is served.
LEMMA ServiceAddServed ==
    ASSUME EnoughAddrs, NEW d \in Device, HandledOK(d, <<>>, FALSE, {}), d.host # 0, d.app # "off",
           NEW sure, ServedOK(d, sure), NEW e, e = ServiceAdd(d)
    PROVE ServedOK(e, sure)
<1> DEFINE hs == Served(d, sure)
<1>1. hs \in SUBSET Ifaces /\ hs \subseteq d.ready
  BY DEF Served, Trusted, Device
<1>2. Asking(d, hs, {})
  BY DEF Asking, ServedOK, Served, EarnedOK
<1> HIDE DEF hs
<1>3. Asking(e, hs, d.ready) /\ SameNet(d, e)
  BY <1>1, <1>2, ServiceAddAsks
<1>4. Beside(d, e)
  BY ServiceAddOK
<1>5. Trusted(e, Acts(e)) = Trusted(d, Acts(d)) /\ e.app = d.app /\ e.held = d.held /\ e.up = d.up
  BY <1>3, <1>4 DEF Trusted, Acts, SameNet, Beside
<1>6. ASSUME sure, NEW i \in Trusted(e, Acts(e)) PROVE i \in e.up /\ EarnedOK(e, i) /\ ClaimsOK(e, i)
  <2>1. i \in hs /\ i \in d.up /\ ClaimsOK(d, i)
    BY <1>5, <1>6 DEF hs, Served, ServedOK
  <2>2. HostEarned(e, i) /\ SvcEarned(e, i)
    BY <1>1, <1>3, <2>1 DEF Asking
  <2>3. ClaimsOK(e, i)
    BY <1>3, <2>1 DEF ClaimsOK, SameNet
  <2>4. QED
    BY <1>5, <2>1, <2>2, <2>3 DEF EarnedOK
<1>7. OwnOK(e) /\ (e.held # <<>> => e.out = <<>>)
  BY <1>3, <1>4 DEF Asking, ServedOK, SameNet, Beside
<1>8. QED
  BY <1>5, <1>6, <1>7 DEF ServedOK

LEMMA AppAddServiceServed ==
    ASSUME Assumed, MdnsInv, ProbedInv, NEW x \in Devices, AppAddService(x)
    PROVE ProbedInv'
<1> DEFINE d == dev[x]
           c == IF d.host = 0 THEN d ELSE ServiceAdd(d)
           e == [c EXCEPT !.app = "done"]
<1>1. d \in Device /\ ServedOK(d, Told(x)) /\ HandledOK(d, <<>>, FALSE, {}) /\ d.app # "off"
  BY OneServed DEF AppAddService
<1>2. dev' = [dev EXCEPT ![x] = e] /\ full' = full
  BY DEF AppAddService
<1> HIDE DEF d
<1>3. c \in Device /\ ServedOK(c, Told(x))
  <2>1. c = d \/ (d.host # 0 /\ c = ServiceAdd(d))
    OBVIOUS
  <2> HIDE DEF c
  <2>2. CASE c = d
    BY <1>1, <2>2
  <2>3. CASE d.host # 0 /\ c = ServiceAdd(d)
    <3>1. HandledOK(c, <<>>, FALSE, {})
      BY <1>1, <2>3, ServiceAddOK DEF Assumed
    <3>2. ServedOK(c, Told(x))
      BY <1>1, <2>3, ServiceAddServed DEF Assumed
    <3>3. QED
      BY <3>1, <3>2 DEF HandledOK, BaseOK
  <2>4. QED
    BY <2>1, <2>2, <2>3
<1> HIDE DEF c
<1>4. /\ e.aq = c.aq /\ e.held = c.held /\ e.ready = c.ready /\ e.up = c.up /\ e.app = "done"
      /\ SameName(c, e) /\ e.pcb = c.pcb /\ e.probed = c.probed /\ e.out = c.out /\ e.txq = c.txq
  BY <1>3 DEF Device, SameName
<1> HIDE DEF e
<1>5. Passes(c, e) /\ Acts(e) = Acts(c)
  BY <1>3, <1>4 DEF Passes, SameTalk, ServedOK, Acts
<1>6. ServedOK(e, Told(x))
  BY <1>3, <1>4, <1>5, SameTrust, ServedKept
<1>7. QED
  BY <1>2, <1>6, QuietServed

\* The stack changes: an interface that is no longer up is not trusted any more,
\* its end is posted or was dropped.
LEMMA PostedTrust ==
    ASSUME NEW d \in Device, NEW c \in Device, NEW e \in Device, c.aq = d.aq, c.held = d.held,
           c.ready = d.ready, Posting(c, e)
    PROVE Trusted(e, Acts(e)) \subseteq Trusted(d, Acts(d)) /\ ToSet(e.aq) \subseteq ToSet(Acts(e))
<1>1. e.aq \in Seq(Actions) /\ ToSet(c.aq) \subseteq ToSet(e.aq) /\ e.held = c.held /\ e.ready = c.ready
  BY DEF Posting, Device
<1>2. Trusted(e, Acts(e)) \subseteq Trusted(d, Acts(d))
  BY <1>1, PostingTrust
<1>3. ToSet(e.aq) \subseteq ToSet(Acts(e))
  <2>1. CASE e.held = <<>>
    BY <2>1 DEF Acts
  <2>2. CASE e.held # <<>>
    <3>1. e.held \in Actions
      BY <2>2 DEF Device
    <3>2. QED
      BY <1>1, <2>2, <3>1, ToSetFirst DEF Acts
  <2>3. QED
    BY <2>1, <2>2
<1>4. QED
  BY <1>2, <1>3

LEMMA EventServed ==
    ASSUME Assumed, MdnsInv, ProbedInv, NEW x \in Devices, NEW up, up \subseteq Ifaces,
           NEW posts \in Seq(Actions), posts # <<>>,
           \A i \in dev[x].up \ up : posts[1] = <<"event", i, FALSE>>, Event(x, up, posts)
    PROVE ProbedInv'
<1> DEFINE d == dev[x]
           c == [d EXCEPT !.up = up]
           e == QueuedAll(c, posts)
<1>1. d \in Device /\ ServedOK(d, Told(x)) /\ Len(d.aq) <= QueueLen
  BY OneServed
<1>2. \/ d.app = "off" /\ dev' = [dev EXCEPT ![x] = c] /\ full' = full
      \/ dev' = [dev EXCEPT ![x] = e] /\ Posted(x, c, "event")
  BY DEF Event
<1>3. \A i \in d.up \ up : posts[1] = <<"event", i, FALSE>>
  OBVIOUS
<1>4. full = [y \in Devices |-> full[y]]
  BY DEF MdnsInv
<1> HIDE DEF d
<1>5. /\ c.aq = d.aq /\ c.held = d.held /\ c.ready = d.ready /\ c.up = up /\ c.app = d.app
      /\ SameName(d, c) /\ c.pcb = d.pcb /\ c.probed = d.probed /\ c.out = d.out /\ c.txq = d.txq
      /\ c \in Device
  BY <1>1 DEF Device, SameName
<1> HIDE DEF c
<1>6. CASE d.app = "off" /\ dev' = [dev EXCEPT ![x] = c] /\ full' = full
  <2>1. Passes(d, c)
    BY <1>1, <1>5 DEF Passes, SameTalk, ServedOK
  <2>2. Trusted(c, Acts(c)) = {}
    BY <1>1, <1>5, <1>6 DEF Trusted, ServedOK
  <2>3. ServedOK(c, Told(x))
    BY <1>1, <2>1, <2>2, ServedKept
  <2>4. QED
    BY <1>6, <2>3, QuietServed
<1>7. CASE dev' = [dev EXCEPT ![x] = e] /\ Posted(x, c, "event")
  <2>1. Posting(c, e) /\ (HasRoom(c) => posts[1] \in ToSet(e.aq))
    <3>1. e = QueuedAll(c, posts) /\ MdnsAssumption
      BY DEF Assumed
    <3> HIDE DEF e
    <3>2. QED
      BY <1>1, <1>5, <3>1, QueuedAllPosts
  <2> HIDE DEF e
  <2>2. /\ e \in Device /\ e.held = c.held /\ e.ready = c.ready /\ e.up = c.up /\ e.app = c.app
        /\ SameName(c, e) /\ e.pcb = c.pcb /\ e.probed = c.probed /\ e.out = c.out /\ e.txq = c.txq
    BY <1>5, <2>1 DEF Posting, Device, SameName
  <2>3. Passes(d, e)
    BY <1>1, <1>5, <2>2 DEF Passes, SameTalk, ServedOK, SameName
  <2>4. Trusted(e, Acts(e)) \subseteq Trusted(d, Acts(d)) /\ ToSet(e.aq) \subseteq ToSet(Acts(e))
    BY <1>1, <1>5, <2>1, <2>2, PostedTrust
  <2>5. \A y \in Devices : Told(y)' => Told(y) /\ (y = x => HasRoom(c))
    BY <1>4, <1>7 DEF Posted, Told
  <2>6. ASSUME Told(x)', NEW i \in Trusted(e, Acts(e)) PROVE i \in Trusted(d, Acts(d)) /\ i \in e.up
    <3>1. i \in Trusted(d, Acts(d)) /\ HasRoom(c) /\ Told(x)
      BY <2>4, <2>5, <2>6
    <3>2. i \in d.up
      BY <1>1, <3>1 DEF ServedOK
    <3>3. <<"event", i, FALSE>> # posts[1]
      BY <2>1, <2>4, <2>6, <3>1 DEF Trusted
    <3>4. i \in up
      BY <1>3, <3>2, <3>3
    <3>5. QED
      BY <1>5, <2>2, <3>1, <3>4
  <2>7. Told(x)' => Told(x) /\ \A i \in Trusted(e, Acts(e)) : i \in Trusted(d, Acts(d)) /\ i \in e.up
    BY <2>5, <2>6
  <2>8. ServedOK(e, Told(x)')
    BY <1>1, <2>3, <2>7, ServedKept
  <2>9. QED
    BY <1>7, <2>5, <2>8, ServedStep
<1>8. QED
  BY <1>2, <1>6, <1>7

LEMMA EventsServed ==
    ASSUME Assumed, MdnsInv, ProbedInv, NEW x \in Devices, StaUp(x) \/ StaDown(x) \/ ApStart(x)
    PROVE ProbedInv'
<1> DEFINE up == dev[x].up
           on(i) == <<"event", i, TRUE>>
           off == <<"event", "sta", FALSE>>
<1>1. up \subseteq Ifaces /\ "sta" \in Ifaces /\ "ap" \in Ifaces
  BY OneDevice DEF Device, Ifaces
<1>2. on("sta") \in Actions /\ on("ap") \in Actions /\ off \in Actions /\ None \in Actions
  BY <1>1 DEF Actions
<1>3. CASE StaUp(x)
  <2> DEFINE posts == <<on("sta"), None, None>>
             now == up \cup {"sta"}
  <2>1. Event(x, now, posts) /\ dev[x].up \ now = {}
    BY <1>3 DEF StaUp
  <2> HIDE DEF on
  <2>2. posts \in Seq(Actions) /\ posts # <<>> /\ now \subseteq Ifaces
    BY <1>1, <1>2
  <2> HIDE DEF posts, now, up
  <2>3. QED
    BY <2>1, <2>2, EventServed
<1>4. CASE StaDown(x)
  <2> DEFINE posts == <<off, None>>
             now == up \ {"sta"}
  <2>1. Event(x, now, posts) /\ \A i \in dev[x].up \ now : posts[1] = <<"event", i, FALSE>>
    BY <1>4 DEF StaDown
  <2> HIDE DEF off
  <2>2. posts \in Seq(Actions) /\ posts # <<>> /\ now \subseteq Ifaces
    BY <1>1, <1>2
  <2> HIDE DEF posts, now, up
  <2>3. QED
    BY <2>1, <2>2, EventServed
<1>5. CASE ApStart(x)
  <2> DEFINE posts == <<on("ap")>>
             now == up \cup {"ap"}
  <2>1. Event(x, now, posts) /\ dev[x].up \ now = {}
    BY <1>5 DEF ApStart
  <2> HIDE DEF on
  <2>2. posts \in Seq(Actions) /\ posts # <<>> /\ now \subseteq Ifaces
    BY <1>1, <1>2
  <2> HIDE DEF posts, now, up
  <2>3. QED
    BY <2>1, <2>2, EventServed
<1>6. QED
  BY <1>3, <1>4, <1>5

LEMMA ExecuteServed ==
    ASSUME Assumed, MdnsInv, ProbedInv, NEW x \in Devices, Execute(x)
    PROVE ProbedInv'
<1> DEFINE d == dev[x]
           e == Executed(d)
           now == [dev EXCEPT ![x] = e]
<1>1. d \in Device /\ ServedOK(d, Told(x)) /\ HandledOK(d, Acts(d), Sure(x), {}) /\ d.held # <<>>
  BY OneServed DEF Execute
<1>2. ServedOK(e, Told(x)) /\ e.out \in Seq(Messages)
  <2>1. e = Executed(d)
    OBVIOUS
  <2> HIDE DEF e, d
  <2>2. QED
    BY <1>1, <2>1, ExecutedOK, ExecutedFair DEF Assumed, Done
<1>3. \/ /\ dev' = Deliver(now, x, e.out)
         /\ \A y \in Devices : full'[y] = full[y] \/ full'[y] = full[y] \cup {"rx"}
      \/ dev' = now /\ full' = full
  <2> HIDE DEF now, e
  <2>1. QED
    BY DEF Execute, now, e
<1> HIDE DEF e, d
<1>4. dev = [y \in Devices |-> dev[y]]
  BY DEF MdnsInv
<1>5. CASE dev' = now /\ full' = full
  <2>1. dev' = [dev EXCEPT ![x] = e]
    BY <1>5
  <2>2. QED
    BY <1>2, <1>5, <2>1, QuietServed
<1>6. CASE /\ dev' = Deliver(now, x, e.out)
           /\ \A y \in Devices : full'[y] = full[y] \/ full'[y] = full[y] \cup {"rx"}
  <2>1. ASSUME NEW y \in Devices PROVE ServedOK(dev'[y], Told(y)')
    <3>1. ServedOK(dev'[y], Told(y))
      <4>1. CASE y = x
        <5>1. dev'[y] = e
          BY <1>4, <1>6, <4>1 DEF Deliver
        <5>2. QED
          BY <1>2, <4>1, <5>1
      <4>2. CASE y # x
        <5> DEFINE posts == [k \in DOMAIN Heard(dev[y], e.out) |-> <<"rx", Heard(dev[y], e.out)[k]>>]
        <5>1. now[y] = dev[y]
          BY <1>4, <4>2
        <5> HIDE DEF now
        <5>2. dev'[y] = QueuedAll(dev[y], posts)
          BY <1>6, <4>2, <5>1 DEF Deliver
        <5>3. posts \in Seq(Actions)
          BY <1>2, HeardType
        <5> HIDE DEF posts
        <5>4. dev[y] \in Device /\ ServedOK(dev[y], Told(y)) /\ Len(dev[y].aq) <= QueueLen /\ MdnsAssumption
          BY OneServed DEF Assumed
        <5>5. Posting(dev[y], dev'[y])
          BY <5>2, <5>3, <5>4, QueuedAllPosts
        <5>6. QED
          BY <5>4, <5>5, PostingServed
      <4>3. QED
        BY <4>1, <4>2
    <3>2. Told(y)' => Told(y)
      BY <1>6 DEF Told
    <3>3. QED
      BY <3>1, <3>2, LessServed
  <2>2. QED
    BY <2>1 DEF ProbedInv, Told
<1>7. QED
  BY <1>3, <1>5, <1>6

LEMMA ProbedInit ==
    ASSUME Assumed, Init
    PROVE ProbedInv
<1> SUFFICES ASSUME NEW x \in Devices PROVE ServedOK(dev[x], "event" \notin full[x])
  BY DEF ProbedInv
<1> DEFINE up == IF x \in env.on THEN env.up ELSE {}
           d == dev[x]
<1>1. d = NewDevice(x, up)
  BY DEF Init
<1> HIDE DEF up, d
<1>2. /\ d.host = 0 /\ d.svc = 0 /\ d.ready = {} /\ d.pcb = [i \in Ifaces |-> IdlePcb]
      /\ d.txq = <<>> /\ d.out = <<>> /\ d.held = <<>>
  BY <1>1 DEF NewDevice
<1>3. \A i \in Ifaces : d.pcb[i].svcs = {}
  BY <1>2 DEF IdlePcb
<1>4. OwnOK(d)
  BY <1>2, <1>3 DEF OwnOK, ToSet
<1>5. Trusted(d, Acts(d)) = {}
  BY <1>2 DEF Trusted
<1>6. ServedOK(d, "event" \notin full[x])
  BY <1>2, <1>4, <1>5 DEF ServedOK
<1>7. QED
  BY <1>6 DEF d

LEMMA ProbedStep ==
    ASSUME Assumed, MdnsInv, ProbedInv, [Next]_vars
    PROVE ProbedInv'
<1>1. CASE UNCHANGED vars
  <2>1. dev' = dev /\ full' = full
    BY <1>1 DEF vars
  <2>2. QED
    BY <2>1 DEF ProbedInv
<1>2. ASSUME NEW x \in Devices, App(x) PROVE ProbedInv'
  BY <1>2, AppInitServed, AppSetHostnameServed, AppNamedServed, AppAddServiceServed DEF App
<1>3. ASSUME NEW x \in Devices, Timer(x) PROVE ProbedInv'
  BY <1>3, TimerTickServed, TimerPushServed, TimerDoneServed DEF Timer
<1>4. ASSUME NEW x \in Devices, Task(x) PROVE ProbedInv'
  BY <1>4, TakeServed, ExecuteServed DEF Task
<1>5. ASSUME NEW x \in Devices, Environment(x) PROVE ProbedInv'
  BY <1>5, EventsServed, HearForeignServed DEF Environment
<1>6. QED
  BY <1>1, <1>2, <1>3, <1>4, <1>5 DEF Next

-----------------------------------------------------------------------------
(* The theorems.                                                           *)

\* The inductive invariant of the mDNS service, for any number of devices, any
\* length of the action queue, and whatever other hosts say.
THEOREM MdnsInvariant ==
    ASSUME EnoughAddrs, IpsAreNumbers, ScenariosOK, ForeignReadable
    PROVE Spec => []MdnsInv
<1>1. Assumed
  BY MdnsAssumption DEF Assumed
<1>2. Init => MdnsInv
  BY <1>1, MdnsInit
<1>3. MdnsInv /\ [Next]_vars => MdnsInv'
  BY <1>1, MdnsStep
<1>4. QED
  BY <1>2, <1>3, PTL DEF Spec

\* The state of every device stays well formed, and its transmit queue in the
\* order of time with no address twice (mdns_send.c, mdns_priv_send_after).
THEOREM MdnsTypeCorrect ==
    ASSUME EnoughAddrs, IpsAreNumbers, ScenariosOK, ForeignReadable
    PROVE Spec => []MdnsTypeOK
<1>1. MdnsInv => MdnsTypeOK
  <2> SUFFICES ASSUME MdnsInv, NEW x \in Devices
               PROVE LET d == dev[x]
                     IN  /\ Len(d.aq) <= QueueLen
                         /\ d.host \in Nat /\ d.svc \in {0, d.host}
                         /\ d.ready \cup d.up \subseteq Ifaces
                         /\ \A i \in Ifaces : d.pcb[i].state \in {OFF} \cup PROBE_1 .. RUNNING
                         /\ \A i \in d.ready : d.pcb[i].running => Probing(d.pcb[i])
                         /\ d.timer \in 0 .. Len(d.txq) + 1
                         /\ \A j, k \in DOMAIN d.txq : j < k =>
                                d.txq[j].left <= d.txq[k].left /\ d.txq[j].at # d.txq[k].at
    BY DEF MdnsTypeOK
  <2> DEFINE d == dev[x]
  <2>1. /\ d \in Device /\ HandledOK(d, Acts(d), Sure(x), {}) /\ TimerOK(d, Sure(x)) /\ Len(d.aq) <= QueueLen
    BY OneDevice
  <2> HIDE DEF d
  <2>2. d.host \in Nat /\ d.svc \in {0, d.host} /\ d.ready \cup d.up \subseteq Ifaces
    BY <2>1 DEF HandledOK, BaseOK, Device
  <2>3. \A i \in Ifaces : d.pcb[i].state \in {OFF} \cup PROBE_1 .. RUNNING
    BY <2>1 DEF Device, Pcbs
  <2>4. \A i \in d.ready : d.pcb[i].running => Probing(d.pcb[i])
    BY <2>1 DEF HandledOK, MachinesBut, MachineOK
  <2>5. d.timer \in 0 .. Len(d.txq) + 1
    BY <2>1 DEF TimerOK
  <2>6. \A j, k \in DOMAIN d.txq : j < k => d.txq[j].left <= d.txq[k].left /\ d.txq[j].at # d.txq[k].at
    BY <2>1 DEF HandledOK, BaseOK, QueueOK
  <2>7. QED
    BY <2>1, <2>2, <2>3, <2>4, <2>5, <2>6 DEF d
<1>2. QED
  BY <1>1, MdnsInvariant, PTL

\* A packet that is marked has its action on its way, as long as every push found
\* room (mdns_send.c, mdns_priv_send_packets and send_packet).
THEOREM MarkedPushed ==
    ASSUME EnoughAddrs, IpsAreNumbers, ScenariosOK, ForeignReadable
    PROVE Spec => []MarkedIsPushed
<1>1. MdnsInv => MarkedIsPushed
  <2> SUFFICES ASSUME MdnsInv, NEW x \in Devices, "push" \notin full[x],
                      NEW k \in DOMAIN dev[x].txq, dev[x].txq[k].queued
               PROVE <<"tx", dev[x].txq[k].at>> \in ToSet(dev[x].aq) \cup {dev[x].held}
    BY DEF MarkedIsPushed
  <2> DEFINE d == dev[x]
  <2>1. d \in Device /\ HandledOK(d, Acts(d), Sure(x), {})
    BY OneDevice
  <2>2. k \in Marked(d.txq)
    BY DEF Marked
  <2>3. MarkOK(d.txq, Acts(d))
    BY <2>1 DEF HandledOK, BaseOK, Sure
  <2>4. PICK j \in DOMAIN Acts(d) : Acts(d)[j] = <<"tx", d.txq[k].at>>
    BY <2>2, <2>3 DEF MarkOK
  <2>5. Acts(d)[j] \in ToSet(d.aq) \cup {d.held}
    <3>1. CASE d.held = <<>>
      BY <2>4, <3>1 DEF Acts, ToSet
    <3>2. CASE d.held # <<>>
      <4> DEFINE aq == d.aq
                 a == d.held
      <4>1. aq \in Seq(Actions) /\ Acts(d) = <<a>> \o aq
        BY <2>1, <3>2 DEF Device, Acts
      <4> HIDE DEF aq, a
      <4>2. j = 1 \/ (j - 1 \in DOMAIN aq /\ (<<a>> \o aq)[j] = aq[j - 1])
        BY <2>4, <4>1
      <4>3. (<<a>> \o aq)[1] = a
        BY <4>1
      <4>4. QED
        BY <4>1, <4>2, <4>3 DEF ToSet, aq, a
    <3>3. QED
      BY <3>1, <3>2
  <2>6. QED
    BY <2>4, <2>5
<1>2. QED
  BY <1>1, MdnsInvariant, PTL

\* The probe and announce machine of an interface always has the packet that moves
\* it on, and while it probes that packet asks for the present names (mdns_pcb.c).
THEOREM MachinePacket ==
    ASSUME EnoughAddrs, IpsAreNumbers, ScenariosOK, ForeignReadable
    PROVE Spec => []MachineHasPacket
<1>1. MdnsInv => MachineHasPacket
  <2> SUFFICES ASSUME MdnsInv, NEW x \in Devices, NEW i \in dev[x].ready
               PROVE LET d == dev[x]
                         mine == PacketsOf(d, i)
                     IN  /\ Probing(d.pcb[i]) =>
                             \E k \in mine :
                                 LET asked == ToSet(d.txq[k].qs)
                                 IN  /\ mine = {k} /\ ~d.txq[k].resp
                                     /\ \A q \in asked : q.n \in {<<"host", d.host>>, Instance(d)}
                                     /\ d.pcb[i].svcs # {} => [t |-> "ANY", n |-> Instance(d)] \in asked
                         /\ d.pcb[i].state \in ANNOUNCE_1 .. ANNOUNCE_3 => mine # {}
    BY DEF MachineHasPacket
  <2>1. MachineOK(dev[x], i)
    BY OneDevice DEF HandledOK, MachinesBut
  <2>2. QED
    BY <2>1 DEF MachineOK, IsProbe
<1>2. QED
  BY <1>1, MdnsInvariant, PTL

\* The inductive invariant of what was asked: on every trusted interface the
\* machine has sent as many probes for the present names as its state says.
THEOREM ProbedInvariant ==
    ASSUME EnoughAddrs, IpsAreNumbers, ScenariosOK, ForeignReadable
    PROVE Spec => []ProbedInv
<1>1. Assumed
  BY MdnsAssumption DEF Assumed
<1>2. Init => MdnsInv /\ ProbedInv
  BY <1>1, MdnsInit, ProbedInit
<1>3. (MdnsInv /\ ProbedInv) /\ [Next]_vars => (MdnsInv /\ ProbedInv)'
  BY <1>1, MdnsStep, ProbedStep
<1>4. QED
  BY <1>2, <1>3, PTL DEF Spec

\* Nothing is claimed on a trusted interface before it was asked for there three
\* times under the same name (mdns_pcb.c, mdns_priv_pcb_schedule_tx_packet), for
\* any number of devices and whatever other hosts say: a conflict or a restart
\* of the machine begins the count anew.
THEOREM ProbedFirst ==
    ASSUME EnoughAddrs, IpsAreNumbers, ScenariosOK, ForeignReadable
    PROVE Spec => []ProbedBeforeClaimed
<1>1. ProbedInv => ProbedBeforeClaimed
  <2> SUFFICES ASSUME ProbedInv, NEW x \in Devices, "event" \notin full[x],
                      NEW m \in ToSet(dev[x].out), NEW r \in ToSet(m.an),
                      m.resp /\ r.long /\ r.t \in {"A", "SRV"}, m.i \in Trusted(dev[x], dev[x].aq)
               PROVE /\ dev[x].probed[m.i].n = r.n[2]
                     /\ (IF r.t = "A" THEN dev[x].probed[m.i].host ELSE dev[x].probed[m.i].svc) = 3
    BY DEF ProbedBeforeClaimed
  <2> DEFINE d == dev[x]
  <2>1. ServedOK(d, "event" \notin full[x]) /\ IsClaim(m, r)
    BY DEF ProbedInv, IsClaim
  <2> HIDE DEF d
  <2>2. d.out # <<>>
    BY DEF d, ToSet
  <2>3. Acts(d) = d.aq
    BY <2>1, <2>2 DEF ServedOK, Acts
  <2>4. m.i \in Trusted(d, Acts(d))
    BY <2>3 DEF d
  <2>5. ClaimsOK(d, m.i)
    BY <2>1, <2>4 DEF ServedOK
  <2>6. /\ d.probed[m.i].n = r.n[2]
        /\ (IF r.t = "A" THEN d.probed[m.i].host ELSE d.probed[m.i].svc) = 3
    BY <2>1, <2>5 DEF ClaimsOK, d
  <2>7. QED
    BY <2>6 DEF d
<1>2. QED
  BY <1>1, ProbedInvariant, PTL
=============================================================================

-------------------------- MODULE MdnsHandlerProofs --------------------------
(* Lemmas on the operators of the mDNS modules: lists that are built entry *)
(* by entry, the free address, and the transmit queue; and every handler   *)
(* keeps the inductive invariant of MdnsInv.                               *)
EXTENDS MdnsInv, SequenceTheorems, FiniteSetTheorems, WellFoundedInduction, TLAPS

-----------------------------------------------------------------------------
(* Induction, and functions defined by recursion on the naturals.          *)

LEMMA Induct ==
    ASSUME NEW T, 0 \in T, \A n \in Nat : n \in T => n + 1 \in T
    PROVE \A n \in Nat : n \in T
<1> SUFFICES ASSUME NEW m \in Nat, m \notin T PROVE FALSE
  OBVIOUS
<1> DEFINE U == Nat \ T
<1>1. U \subseteq Nat /\ U # {}
  OBVIOUS
<1>2. \E x \in U : \A y \in U : ~ (<<y, x>> \in OpToRel(<, Nat))
  <2> HIDE DEF U
  <2>1. QED
    BY <1>1, NatLessThanWellFounded, WFMin
<1>3. PICK x \in U : \A y \in U : ~ (y < x)
  BY <1>1, <1>2 DEF OpToRel
<1>4. x \in Nat /\ x # 0 /\ x - 1 \in Nat /\ x - 1 < x /\ (x - 1) + 1 = x
  OBVIOUS
<1>5. x - 1 \in T
  BY <1>3, <1>4
<1>6. QED
  BY <1>4, <1>5

LEMMA UpTo ==
    ASSUME NEW n \in Nat, NEW T, 0 \in T,
           \A k \in 1 .. n : k - 1 \in T => k \in T
    PROVE \A k \in 0 .. n : k \in T
<1> DEFINE U == {k \in Nat : k <= n => k \in T}
<1>1. 0 \in U
  OBVIOUS
<1>2. \A k \in Nat : k \in U => k + 1 \in U
  <2> SUFFICES ASSUME NEW k \in Nat, k \in U, k + 1 <= n PROVE k + 1 \in T
    OBVIOUS
  <2>1. k \in T /\ k + 1 \in 1 .. n /\ (k + 1) - 1 = k
    OBVIOUS
  <2>2. QED
    BY <2>1
<1>3. \A k \in Nat : k \in U
  <2> HIDE DEF U
  <2>1. QED
    BY <1>1, <1>2, Induct
<1>4. QED
  BY <1>3

\* A recursion of n steps in V, from z, and what solves it.
Steps(V, n) == [1 .. n -> [V -> V]]
Solves(g, V, z, n, step) ==
    g \in [0 .. n -> V] /\ \A k \in 0 .. n : g[k] = IF k = 0 THEN z ELSE step[k][g[k - 1]]

LEMMA Recursion ==
    ASSUME NEW V, NEW z \in V, NEW n \in Nat, NEW step \in Steps(V, n)
    PROVE \E g : Solves(g, V, z, n, step)
<1> USE DEF Steps, Solves
<1> DEFINE Sol(g, m) == Solves(g, V, z, m, step)
           T == {m \in Nat : \E g : Sol(g, m)}
<1>1. 0 \in T
  <2>1. Sol([k \in 0 .. 0 |-> z], 0)
    OBVIOUS
  <2>2. QED
    BY <2>1
<1>2. \A k \in 1 .. n : k - 1 \in T => k \in T
  <2> SUFFICES ASSUME NEW k \in 1 .. n, NEW g, Sol(g, k - 1) PROVE \E h : Sol(h, k)
    <3> HIDE DEF Sol
    <3>1. QED
      OBVIOUS
  <2> DEFINE h == [j \in 0 .. k |-> IF j = k THEN step[k][g[k - 1]] ELSE g[j]]
  <2>1. k - 1 \in 0 .. k - 1 /\ k - 1 # k /\ k - 1 \in 0 .. k
    OBVIOUS
  <2>2. step[k][g[k - 1]] \in V
    BY <2>1
  <2>3. \A j \in 0 .. k : j = k \/ j \in 0 .. k - 1
    OBVIOUS
  <2>4. h \in [0 .. k -> V]
    BY <2>2, <2>3
  <2>5. h[k] = IF k = 0 THEN z ELSE step[k][h[k - 1]]
    BY <2>1
  <2>6. ASSUME NEW j \in 0 .. k - 1
        PROVE h[j] = IF j = 0 THEN z ELSE step[j][h[j - 1]]
    <3>1. j # k /\ j \in 0 .. k /\ h[j] = g[j]
      OBVIOUS
    <3>2. CASE j = 0
      BY <3>1, <3>2
    <3>3. CASE j # 0
      <4>1. j - 1 \in 0 .. k - 1 /\ j - 1 # k /\ j - 1 \in 0 .. k
        BY <3>3
      <4>2. h[j - 1] = g[j - 1]
        BY <4>1
      <4>3. g[j] = step[j][g[j - 1]]
        BY <3>3
      <4>4. QED
        BY <3>1, <3>3, <4>2, <4>3
    <3>4. QED
      BY <3>2, <3>3
  <2>7. Sol(h, k)
    <3> HIDE DEF h
    <3>1. QED
      BY <2>3, <2>4, <2>5, <2>6
  <2>8. QED
    <3> HIDE DEF Sol
    <3>1. QED
      BY <2>7
<1>3. n \in T
  <2> HIDE DEF T
  <2>1. \A k \in 0 .. n : k \in T
    BY <1>1, <1>2, UpTo
  <2>2. QED
    BY <2>1
<1>4. QED
  BY <1>3

\* What holds at the start of a recursion and is kept by its steps holds throughout.
LEMMA Throughout ==
    ASSUME NEW V, NEW n \in Nat, NEW g, g[0] \in V,
           \A k \in 1 .. n : g[k - 1] \in V => g[k] \in V
    PROVE \A k \in 0 .. n : g[k] \in V
<1> DEFINE T == {k \in 0 .. n : g[k] \in V}
<1>1. 0 \in T
  OBVIOUS
<1>2. \A k \in 1 .. n : k - 1 \in T => k \in T
  OBVIOUS
<1>3. \A k \in 0 .. n : k \in T
  <2> HIDE DEF T
  <2>1. QED
    BY <1>1, <1>2, UpTo
<1>4. QED
  BY <1>3

\* Of a set of naturals that is not empty there is a smallest one.
LEMMA Smallest ==
    ASSUME NEW S \in SUBSET Nat, S # {}
    PROVE Min(S) \in S /\ \A y \in S : Min(S) <= y
<1>1. \E x \in S : \A y \in S : ~ (<<y, x>> \in OpToRel(<, Nat))
  BY NatLessThanWellFounded, WFMin
<1>2. PICK x \in S : \A y \in S : ~ (y < x)
  BY <1>1 DEF OpToRel
<1>3. \A y \in S : x <= y
  BY <1>2
<1>4. QED
  BY <1>3 DEF Min

-----------------------------------------------------------------------------
(* Lists that are built entry by entry.                                    *)

LEMMA AddAnswersType ==
    ASSUME NEW V, NEW answers \in Seq(V), NEW ts \in Seq(V)
    PROVE AddAnswers(answers, ts) \in Seq(V)
<1> DEFINE n == Len(ts)
           step == [k \in 1 .. n |-> [q \in Seq(V) |-> AddAnswer(q, ts[k])]]
           Sol(g) == g = [k \in 0 .. n |-> IF k = 0 THEN answers ELSE AddAnswer(g[k - 1], ts[k])]
           c == CHOOSE g : Sol(g)
<1>1. n \in Nat /\ \A k \in 1 .. n : ts[k] \in V
  OBVIOUS
<1>2. \A q \in Seq(V), v \in V : AddAnswer(q, v) \in Seq(V)
  BY DEF AddAnswer
<1>3. step \in [1 .. n -> [Seq(V) -> Seq(V)]]
  <2> HIDE DEF n
  <2>1. QED
    BY <1>1, <1>2
<1>4. PICK g \in [0 .. n -> Seq(V)] :
          \A k \in 0 .. n : g[k] = IF k = 0 THEN answers ELSE step[k][g[k - 1]]
  <2> DEFINE W == Seq(V)
  <2>1. n \in Nat /\ answers \in W /\ step \in Steps(W, n)
    BY <1>1, <1>3 DEF Steps
  <2> HIDE DEF step, n, W
  <2>2. \E g : Solves(g, W, answers, n, step)
    BY <2>1, Recursion
  <2>3. QED
    BY <2>2 DEF W, Solves
<1>5. Sol(g)
  <2> HIDE DEF n
  <2>1. ASSUME NEW k \in 0 .. n
        PROVE g[k] = IF k = 0 THEN answers ELSE AddAnswer(g[k - 1], ts[k])
    <3>1. k # 0 => k \in 1 .. n /\ k - 1 \in 0 .. n
      BY <1>1
    <3>2. QED
      BY <1>4, <3>1
  <2>2. QED
    BY <2>1
<1>6. Sol(c)
  <2> HIDE DEF Sol
  <2>1. QED
    BY <1>5
<1>7. \A k \in 0 .. n : c[k] \in Seq(V)
  <2> HIDE DEF c, n
  <2>1. c[0] \in Seq(V)
    BY <1>1, <1>6
  <2>2. ASSUME NEW k \in 1 .. n, c[k - 1] \in Seq(V) PROVE c[k] \in Seq(V)
    <3>1. k \in 0 .. n /\ k # 0
      OBVIOUS
    <3>2. c[k] = AddAnswer(c[k - 1], ts[k])
      BY <1>6, <3>1
    <3>3. QED
      BY <1>1, <1>2, <2>2, <3>2
  <2>3. QED
    BY <1>1, <2>1, <2>2, Throughout
<1>8. AddAnswers(answers, ts) = c[n]
  BY DEF AddAnswers
<1>9. QED
  BY <1>1, <1>7, <1>8

\* h tells where the entries of list f are in list s, in the same order.
Embeds(h, f, s) ==
    /\ h \in [DOMAIN f -> DOMAIN s]
    /\ \A k \in DOMAIN f : f[k] = s[h[k]]
    /\ \A j, k \in DOMAIN f : j < k => h[j] < h[k]

LEMMA OnInterfacesSpec ==
    ASSUME NEW V, NEW s \in Seq(V), NEW is
    PROVE /\ OnInterfaces(s, is) \in Seq(V)
          /\ \E h : /\ Embeds(h, OnInterfaces(s, is), s)
                    /\ \A k \in DOMAIN OnInterfaces(s, is) : OnInterfaces(s, is)[k].i \in is
                    /\ \A m \in DOMAIN s :
                           s[m].i \in is => \E k \in DOMAIN OnInterfaces(s, is) : h[k] = m
<1> DEFINE n == Len(s)
           Kept(q, k) == IF s[k].i \in is THEN Append(q, s[k]) ELSE q
           step == [k \in 1 .. n |-> [q \in Seq(V) |-> Kept(q, k)]]
           Sol(g) == g = [k \in 0 .. n |->
                            IF k = 0 THEN <<>>
                            ELSE IF s[k].i \in is THEN Append(g[k - 1], s[k]) ELSE g[k - 1]]
           c == CHOOSE g : Sol(g)
<1>1. n \in Nat /\ DOMAIN s = 1 .. n /\ \A k \in 1 .. n : s[k] \in V
  OBVIOUS
<1>2. \A q \in Seq(V), k \in 1 .. n : Kept(q, k) \in Seq(V)
  BY <1>1
<1>3. step \in [1 .. n -> [Seq(V) -> Seq(V)]]
  <2> HIDE DEF n, Kept
  <2>1. QED
    BY <1>1, <1>2
<1>4. <<>> \in Seq(V)
  OBVIOUS
<1>5. PICK g \in [0 .. n -> Seq(V)] :
          \A k \in 0 .. n : g[k] = IF k = 0 THEN <<>> ELSE step[k][g[k - 1]]
  <2> DEFINE W == Seq(V)
  <2>1. n \in Nat /\ <<>> \in W /\ step \in Steps(W, n)
    BY <1>1, <1>3, <1>4 DEF Steps
  <2> HIDE DEF step, n, W
  <2>2. \E g : Solves(g, W, <<>>, n, step)
    BY <2>1, Recursion
  <2>3. QED
    BY <2>2 DEF W, Solves
<1>6. Sol(g)
  <2> HIDE DEF n
  <2>1. ASSUME NEW k \in 0 .. n
        PROVE g[k] = IF k = 0 THEN <<>> ELSE Kept(g[k - 1], k)
    <3> HIDE DEF Kept
    <3>1. k # 0 => k \in 1 .. n /\ k - 1 \in 0 .. n
      BY <1>1
    <3>2. QED
      BY <1>5, <3>1
  <2>2. QED
    BY <2>1
<1>7. Sol(c)
  <2> HIDE DEF Sol
  <2>1. QED
    BY <1>6
<1> DEFINE Good(q, k) ==
        /\ q \in Seq(V)
        /\ \E h : /\ h \in [1 .. Len(q) -> 1 .. k]
                  /\ \A j \in 1 .. Len(q) : q[j] = s[h[j]] /\ q[j].i \in is
                  /\ \A i, j \in 1 .. Len(q) : i < j => h[i] < h[j]
                  /\ \A m \in 1 .. k : s[m].i \in is => \E j \in 1 .. Len(q) : h[j] = m
           T == {k \in 0 .. n : Good(c[k], k)}
<1>8. 0 \in T
  <2>1. Good(<<>>, 0)
    <3>1. <<>> \in [1 .. Len(<<>>) -> 1 .. 0] /\ 1 .. Len(<<>>) = {} /\ 1 .. 0 = {}
      OBVIOUS
    <3>2. QED
      BY <1>4, <3>1
  <2>2. c[0] = <<>>
    <3> HIDE DEF c, n
    <3>1. QED
      BY <1>1, <1>7
  <2>3. QED
    <3> HIDE DEF Good, c, n
    <3>1. QED
      BY <1>1, <2>1, <2>2
<1>9. ASSUME NEW k \in 1 .. n, k - 1 \in T PROVE k \in T
  <2> DEFINE q == c[k - 1]
  <2>1. Good(q, k - 1)
    <3> HIDE DEF Good, q
    <3>1. QED
      BY <1>9 DEF q
  <2>2. k \in 0 .. n /\ k # 0 /\ k \in Nat /\ k - 1 \in Nat /\ k - 1 < k
    BY <1>1
  <2>3. c[k] = Kept(q, k)
    <3> HIDE DEF c, n
    <3>1. QED
      BY <1>7, <2>2
  <2> HIDE DEF q, c
  <2>4. PICK h : /\ h \in [1 .. Len(q) -> 1 .. k - 1]
                 /\ \A j \in 1 .. Len(q) : q[j] = s[h[j]] /\ q[j].i \in is
                 /\ \A i, j \in 1 .. Len(q) : i < j => h[i] < h[j]
                 /\ \A m \in 1 .. k - 1 : s[m].i \in is => \E j \in 1 .. Len(q) : h[j] = m
    BY <2>1
  <2>5. q \in Seq(V) /\ Len(q) \in Nat
    BY <2>1
  <2>6. \A m \in 1 .. k : m = k \/ m \in 1 .. k - 1
    BY <2>2
  <2>7. CASE s[k].i \notin is
    <3>1. c[k] = q
      BY <2>3, <2>7
    <3>2. h \in [1 .. Len(q) -> 1 .. k]
      BY <2>2, <2>4
    <3>3. \A m \in 1 .. k : s[m].i \in is => \E j \in 1 .. Len(q) : h[j] = m
      BY <2>4, <2>6, <2>7
    <3>4. Good(q, k)
      BY <2>4, <2>5, <3>2, <3>3
    <3>5. QED
      <4> HIDE DEF Good
      <4>1. QED
        BY <2>2, <3>1, <3>4
  <2>8. CASE s[k].i \in is
    <3> DEFINE r == Append(q, s[k])
               l == Len(q) + 1
               e == [j \in 1 .. l |-> IF j = l THEN k ELSE h[j]]
    <3>1. /\ r \in Seq(V) /\ Len(r) = l /\ r[l] = s[k] /\ l \in 1 .. l
          /\ \A j \in 1 .. Len(q) : r[j] = q[j]
      BY <1>1, <2>5
    <3>2. /\ \A j \in 1 .. l : j = l \/ (j \in 1 .. Len(q) /\ j # l)
          /\ \A j \in 1 .. Len(q) : j \in 1 .. l /\ j # l /\ j < l
      <4> DEFINE w == Len(q)
      <4>1. w \in Nat /\ l = w + 1
        BY <2>5
      <4> HIDE DEF w, l
      <4>2. /\ \A j \in 1 .. l : j = l \/ (j \in 1 .. w /\ j # l)
            /\ \A j \in 1 .. w : j \in 1 .. l /\ j # l /\ j < l
        BY <4>1
      <4>3. QED
        BY <4>2 DEF w
    <3>3. e[l] = k /\ \A j \in 1 .. Len(q) : e[j] = h[j]
      BY <3>1, <3>2
    <3>4. e \in [1 .. l -> 1 .. k]
      BY <2>2, <2>4, <3>2
    <3> HIDE DEF e, r
    <3>5. \A j \in 1 .. l : r[j] = s[e[j]] /\ r[j].i \in is
      <4> HIDE DEF l
      <4>1. QED
        BY <2>4, <2>8, <3>1, <3>2, <3>3
    <3>6. \A i, j \in 1 .. l : i < j => e[i] < e[j]
      <4> SUFFICES ASSUME NEW i \in 1 .. l, NEW j \in 1 .. l, i < j PROVE e[i] < e[j]
        OBVIOUS
      <4>1. i \in 1 .. Len(q)
        BY <2>5
      <4>2. CASE j \in 1 .. Len(q)
        BY <2>4, <3>3, <4>1, <4>2
      <4>3. CASE j = l
        <5>1. h[i] \in 1 .. k - 1
          BY <2>4, <4>1
        <5>2. QED
          BY <2>2, <3>3, <4>1, <4>3, <5>1
      <4>4. QED
        BY <3>2, <4>2, <4>3
    <3>7. \A m \in 1 .. k : s[m].i \in is => \E j \in 1 .. l : e[j] = m
      <4> HIDE DEF l
      <4> SUFFICES ASSUME NEW m \in 1 .. k, s[m].i \in is PROVE \E j \in 1 .. l : e[j] = m
        OBVIOUS
      <4>1. CASE m = k
        BY <3>1, <3>3, <4>1
      <4>2. CASE m \in 1 .. k - 1
        <5>1. PICK j \in 1 .. Len(q) : h[j] = m
          BY <2>4, <4>2
        <5>2. QED
          BY <3>2, <3>3, <5>1
      <4>3. QED
        BY <2>6, <4>1, <4>2
    <3>8. Good(r, k)
      <4> HIDE DEF l
      <4>1. \E x : /\ x \in [1 .. l -> 1 .. k]
                   /\ \A j \in 1 .. l : r[j] = s[x[j]] /\ r[j].i \in is
                   /\ \A i, j \in 1 .. l : i < j => x[i] < x[j]
                   /\ \A m \in 1 .. k : s[m].i \in is => \E j \in 1 .. l : x[j] = m
        BY <3>4, <3>5, <3>6, <3>7
      <4>2. \E x : /\ x \in [1 .. Len(r) -> 1 .. k]
                   /\ \A j \in 1 .. Len(r) : r[j] = s[x[j]] /\ r[j].i \in is
                   /\ \A i, j \in 1 .. Len(r) : i < j => x[i] < x[j]
                   /\ \A m \in 1 .. k : s[m].i \in is => \E j \in 1 .. Len(r) : x[j] = m
        <5>1. Len(r) = l
          BY <3>1
        <5>2. QED
          BY <4>1, <5>1, Zenon
      <4>3. r \in Seq(V)
        BY <3>1
      <4>4. QED
        BY <4>2, <4>3
    <3>9. c[k] = r
      BY <2>3, <2>8 DEF r
    <3>10. QED
      <4> HIDE DEF Good
      <4>1. QED
        BY <2>2, <3>8, <3>9
  <2>9. QED
    BY <2>7, <2>8
<1>10. Good(c[n], n)
  <2> HIDE DEF Good, c, n
  <2>1. \A k \in 0 .. n : k \in T
    <3> HIDE DEF T
    <3>1. QED
      BY <1>1, <1>8, <1>9, UpTo
  <2>2. QED
    BY <1>1, <2>1
<1>11. OnInterfaces(s, is) = c[n]
  BY DEF OnInterfaces
<1>12. QED
  <2> DEFINE f == OnInterfaces(s, is)
  <2>1. f \in Seq(V) /\ Good(f, n)
    <3> HIDE DEF c, n
    <3>1. QED
      BY <1>10, <1>11
  <2> HIDE DEF f, n
  <2>2. DOMAIN f = 1 .. Len(f) /\ DOMAIN s = 1 .. n
    BY <1>1, <2>1
  <2> DEFINE dom == 1 .. Len(f)
  <2>3. PICK h : /\ h \in [dom -> 1 .. n]
                 /\ \A j \in dom : f[j] = s[h[j]] /\ f[j].i \in is
                 /\ \A i, j \in dom : i < j => h[i] < h[j]
                 /\ \A m \in 1 .. n : s[m].i \in is => \E j \in dom : h[j] = m
    BY <2>1
  <2> HIDE DEF dom
  <2>4. DOMAIN f = dom
    BY <2>2 DEF dom
  <2>5. Embeds(h, f, s)
    BY <2>2, <2>3, <2>4 DEF Embeds
  <2>6. \A j \in DOMAIN f : f[j].i \in is
    BY <2>3, <2>4
  <2>7. \A m \in DOMAIN s : s[m].i \in is => \E j \in DOMAIN f : h[j] = m
    BY <2>2, <2>3, <2>4
  <2>8. f \in Seq(V)
    BY <2>1
  <2>9. QED
    BY <2>5, <2>6, <2>7, <2>8, Zenon DEF f

-----------------------------------------------------------------------------
(* The transmit queue when a packet is inserted.                           *)

\* r is q with x inserted at place.
Inserted(r, q, place, x) ==
    /\ place \in 1 .. Len(q) + 1
    /\ DOMAIN r = 1 .. Len(q) + 1 /\ r[place] = x
    /\ \A k \in 1 .. Len(q) : k < place => r[k] = q[k]
    /\ \A k \in 1 .. Len(q) : k >= place => r[k + 1] = q[k]

LEMMA InsertAtSpec ==
    ASSUME NEW V, NEW q \in Seq(V), NEW x \in V, NEW place \in 1 .. Len(q) + 1
    PROVE InsertAt(q, place, x) \in Seq(V) /\ Inserted(InsertAt(q, place, x), q, place, x)
<1> DEFINE n == Len(q)
           a == SubSeq(q, 1, place - 1)
           b == SubSeq(q, place, n)
           r == InsertAt(q, place, x)
<1>1. n \in Nat /\ DOMAIN q = 1 .. n /\ place \in Nat /\ place >= 1 /\ place <= n + 1
  OBVIOUS
<1>2. /\ a \in Seq(V) /\ Len(a) = place - 1
      /\ \A k \in 1 .. place - 1 : a[k] = q[k]
  <2>1. a \in Seq(V) /\ Len(a) = place - 1
    BY <1>1
  <2>2. \A k \in 1 .. place - 1 : a[k] = q[k]
    BY <1>1
  <2>3. QED
    BY <2>1, <2>2
<1>3. /\ b \in Seq(V) /\ Len(b) = n + 1 - place
      /\ \A k \in 1 .. n + 1 - place : b[k] = q[place + k - 1]
  BY <1>1
<1>4. r = a \o <<x>> \o b
  BY DEF InsertAt
<1> HIDE DEF a, b, n, r
<1>5. /\ r \in Seq(V) /\ Len(r) = n + 1 /\ r[place] = x
      /\ \A k \in 1 .. place - 1 : r[k] = a[k]
      /\ \A k \in 1 .. n + 1 - place : r[place + k] = b[k]
  <2> DEFINE c == a \o <<x>>
  <2>1. <<x>> \in Seq(V) /\ Len(<<x>>) = 1 /\ <<x>>[1] = x
    OBVIOUS
  <2>2. c \in Seq(V) /\ Len(c) = place /\ c[place] = x
    BY <1>1, <1>2, <2>1
  <2>3. \A k \in 1 .. place - 1 : c[k] = a[k]
    BY <1>1, <1>2, <2>1
  <2> HIDE DEF c
  <2>4. r = c \o b
    BY <1>4 DEF c
  <2>5. /\ r \in Seq(V) /\ Len(r) = n + 1
        /\ \A k \in 1 .. place : r[k] = c[k]
        /\ \A k \in 1 .. n + 1 - place : r[place + k] = b[k]
    <3> DEFINE m == n + 1 - place
    <3>1. m \in Nat /\ Len(b) = m /\ Len(c) = place /\ place + m = n + 1
      BY <1>1, <1>3, <2>2
    <3> HIDE DEF m
    <3>2. /\ r \in Seq(V) /\ Len(r) = place + m
          /\ \A k \in 1 .. place : r[k] = c[k]
      BY <1>1, <1>3, <2>2, <2>4, <3>1
    <3>3. ASSUME NEW k \in 1 .. m PROVE r[place + k] = b[k]
      <4>1. place + k \in 1 .. Len(c) + Len(b) /\ place + k > Len(c) /\ place + k - Len(c) = k
        BY <1>1, <3>1
      <4>2. (c \o b)[place + k] = b[place + k - Len(c)]
        BY <1>3, <2>2, <4>1
      <4>3. QED
        BY <2>4, <4>1, <4>2
    <3>4. QED
      BY <3>1, <3>2, <3>3 DEF m
  <2>6. place \in 1 .. place /\ \A k \in 1 .. place - 1 : k \in 1 .. place
    BY <1>1
  <2>7. QED
    BY <2>2, <2>3, <2>5, <2>6
<1>6. ASSUME NEW k \in 1 .. n, k < place PROVE r[k] = q[k]
  <2>1. k \in 1 .. place - 1
    BY <1>1, <1>6
  <2>2. QED
    BY <1>2, <1>5, <2>1
<1>7. ASSUME NEW k \in 1 .. n, k >= place PROVE r[k + 1] = q[k]
  <2>1. /\ k + 1 - place \in 1 .. n + 1 - place
        /\ place + (k + 1 - place) = k + 1 /\ place + (k + 1 - place) - 1 = k
    BY <1>1, <1>7
  <2>2. QED
    BY <1>3, <1>5, <2>1
<1>8. DOMAIN r = 1 .. n + 1
  BY <1>5
<1>9. QED
  BY <1>1, <1>5, <1>6, <1>7, <1>8 DEF Inserted, n, r

\* The place that mdns_priv_send_after finds.
LEMMA SendAfterSpec ==
    ASSUME NEW d, d.txq \in Seq(Packets), QueueOK(d.txq), NEW p \in Packets, NEW delay \in 0 .. Second
    PROVE  \E r \in Seq(Packets), place \in 1 .. Len(d.txq) + 1 :
              /\ SendAfter(d, p, delay) = [d EXCEPT !.txq = r]
              /\ Inserted(r, d.txq, place, [p EXCEPT !.left = delay])
              /\ \A k \in DOMAIN d.txq : k < place => d.txq[k].left <= delay
              /\ \A k \in DOMAIN d.txq : k >= place => d.txq[k].left > delay
<1> DEFINE q == d.txq
           n == Len(q)
           later == {k \in DOMAIN q : q[k].left > delay}
           place == IF later = {} THEN n + 1 ELSE Min(later)
           x == [p EXCEPT !.left = delay]
           r == InsertAt(q, place, x)
<1>1. n \in Nat /\ DOMAIN q = 1 .. n /\ \A k \in 1 .. n : q[k] \in Packets /\ q[k].left \in Nat
  <2>1. n \in Nat /\ DOMAIN q = 1 .. n /\ \A k \in 1 .. n : q[k] \in Packets
    OBVIOUS
  <2>2. \A y \in Packets : y.left \in Nat
    BY DEF Packets, Second
  <2>3. QED
    BY <2>1, <2>2
<1>2. x \in Packets
  BY DEF Packets, Second
<1>3. /\ place \in 1 .. n + 1
      /\ \A k \in 1 .. n : k < place => q[k].left <= delay
      /\ \A k \in 1 .. n : k >= place => q[k].left > delay
  <2> HIDE DEF q, n
  <2>1. delay \in Nat
    BY DEF Second
  <2>2. CASE later = {}
    <3>1. place = n + 1
      BY <2>2
    <3>2. \A k \in 1 .. n : ~ (q[k].left > delay)
      BY <1>1, <2>2
    <3> HIDE DEF place
    <3>3. QED
      BY <1>1, <2>1, <3>1, <3>2
  <2>3. CASE later # {}
    <3>1. later \in SUBSET Nat /\ place = Min(later)
      BY <1>1, <2>3
    <3>2. place \in later /\ \A y \in later : place <= y
      <4> HIDE DEF later, place
      <4>1. QED
        BY <2>3, <3>1, Smallest
    <3> HIDE DEF place
    <3>3. place \in 1 .. n /\ q[place].left > delay
      BY <1>1, <3>2
    <3>4. \A k \in 1 .. n : k < place => q[k].left <= delay
      BY <1>1, <2>1, <3>2, <3>3
    <3>5. \A k \in 1 .. n : k > place => q[place].left <= q[k].left
      BY <1>1, <3>3 DEF QueueOK, q
    <3>6. \A k \in 1 .. n : k >= place => q[k].left > delay
      BY <1>1, <2>1, <3>3, <3>5
    <3>7. QED
      BY <1>1, <3>3, <3>4, <3>6
  <2>4. QED
    BY <2>2, <2>3
<1>4. r \in Seq(Packets) /\ Inserted(r, q, place, x)
  <2> HIDE DEF place, x
  <2>1. QED
    BY <1>2, <1>3, InsertAtSpec
<1>5. SendAfter(d, p, delay) = [d EXCEPT !.txq = r]
  BY DEF SendAfter
<1>6. QED
  <2> HIDE DEF place, x, r
  <2>1. QED
    BY <1>1, <1>3, <1>4, <1>5 DEF x

-----------------------------------------------------------------------------
(* What the operations on the queue keep.                                  *)

\* The packets of an interface in a queue, and that two queues have the same.
Of(q, i) == {k \in DOMAIN q : q[k].i = i}
SameOn(q, r, i) ==
    \E h \in [Of(q, i) -> Of(r, i)] :
        /\ \A k \in Of(q, i) : r[h[k]] = q[k]
        /\ \A m \in Of(r, i) : \E k \in Of(q, i) : h[k] = m

\* A queue has no packet of an interface, or only the one at place k.
NoneOf(q, i) == Of(q, i) = {}
OnlyOf(q, i, k) == Of(q, i) = {k}

LEMMA InsertedOK ==
    ASSUME NEW q \in Seq(Packets), NEW r \in Seq(Packets), NEW x \in Packets, NEW place,
           QueueOK(q), Inserted(r, q, place, x),
           \A k \in DOMAIN q : k < place => q[k].left <= x.left,
           \A k \in DOMAIN q : k >= place => q[k].left > x.left,
           \A k \in DOMAIN q : q[k].at # x.at
    PROVE QueueOK(r)
<1> DEFINE n == Len(q)
<1>1. n \in Nat /\ DOMAIN q = 1 .. n /\ DOMAIN r = 1 .. n + 1 /\ place \in 1 .. n + 1
  BY DEF Inserted
<1>2. \A k \in 1 .. n : q[k].left \in Nat
  <2>1. \A k \in 1 .. n : q[k] \in Packets
    OBVIOUS
  <2>2. \A y \in Packets : y.left \in Nat
    BY DEF Packets, Second
  <2>3. QED
    BY <2>1, <2>2
<1>3. x.left \in Nat
  BY DEF Packets, Second
<1>4. /\ r[place] = x
      /\ \A k \in 1 .. n : k < place => r[k] = q[k]
      /\ \A k \in 1 .. n : k >= place => r[k + 1] = q[k]
  BY DEF Inserted
<1>5. \A j, k \in 1 .. n : j < k => q[j].left <= q[k].left /\ q[j].at # q[k].at
  BY <1>1 DEF QueueOK
<1> HIDE DEF n
\* Where an entry of r comes from.
<1> DEFINE From(k) == IF k < place THEN k ELSE k - 1
<1>6. \A k \in 1 .. n + 1 : k # place => From(k) \in 1 .. n /\ r[k] = q[From(k)]
  <2> SUFFICES ASSUME NEW k \in 1 .. n + 1, k # place
               PROVE  From(k) \in 1 .. n /\ r[k] = q[From(k)]
    OBVIOUS
  <2>1. CASE k < place
    BY <1>1, <1>4, <2>1
  <2>2. CASE k > place
    <3>1. k - 1 \in 1 .. n /\ k - 1 >= place /\ (k - 1) + 1 = k /\ ~ (k < place)
      BY <1>1, <2>2
    <3>2. QED
      BY <1>4, <3>1
  <2>3. QED
    BY <1>1, <2>1, <2>2
<1>7. ASSUME NEW j \in 1 .. n + 1, NEW k \in 1 .. n + 1, j < k
      PROVE r[j].left <= r[k].left /\ r[j].at # r[k].at
  <2>1. CASE j = place
    <3>1. k # place /\ From(k) >= place
      BY <1>1, <1>7, <2>1
    <3>2. From(k) \in 1 .. n /\ r[k] = q[From(k)]
      BY <1>6, <3>1
    <3> HIDE DEF From
    <3>3. q[From(k)].left > x.left /\ q[From(k)].at # x.at
      BY <1>1, <3>1, <3>2
    <3>4. QED
      BY <1>2, <1>3, <1>4, <2>1, <3>2, <3>3
  <2>2. CASE k = place
    <3>1. j # place /\ From(j) < place
      BY <1>1, <1>7, <2>2
    <3>2. From(j) \in 1 .. n /\ r[j] = q[From(j)]
      BY <1>6, <3>1
    <3> HIDE DEF From
    <3>3. q[From(j)].left <= x.left /\ q[From(j)].at # x.at
      BY <1>1, <3>1, <3>2
    <3>4. QED
      BY <1>2, <1>3, <1>4, <2>2, <3>2, <3>3
  <2>3. CASE j # place /\ k # place
    <3>1. From(j) < From(k)
      BY <1>1, <1>7, <2>3
    <3>2. From(j) \in 1 .. n /\ r[j] = q[From(j)] /\ From(k) \in 1 .. n /\ r[k] = q[From(k)]
      BY <1>6, <2>3
    <3> HIDE DEF From
    <3>3. QED
      BY <1>5, <3>1, <3>2
  <2>4. QED
    BY <2>1, <2>2, <2>3
<1>8. QED
  BY <1>1, <1>7 DEF QueueOK

LEMMA InsertedMarks ==
    ASSUME NEW q \in Seq(Packets), NEW r \in Seq(Packets), NEW x \in Packets, NEW place, NEW acts,
           Inserted(r, q, place, x), ~x.queued,
           \A k \in DOMAIN q : k >= place => q[k].left > x.left,
           MarkOK(q, acts)
    PROVE MarkOK(r, acts) /\ Marked(r) = Marked(q)
<1> DEFINE n == Len(q)
<1>1. n \in Nat /\ DOMAIN q = 1 .. n /\ DOMAIN r = 1 .. n + 1 /\ place \in 1 .. n + 1
  BY DEF Inserted
<1>2. /\ r[place] = x
      /\ \A k \in 1 .. n : k < place => r[k] = q[k]
      /\ \A k \in 1 .. n : k >= place => r[k + 1] = q[k]
  BY DEF Inserted
<1>3. x.left \in Nat
  BY DEF Packets, Second
<1> HIDE DEF n
<1>4. \A k \in 1 .. n : k >= place => k \notin Marked(q)
  <2> SUFFICES ASSUME NEW k \in 1 .. n, k >= place, k \in Marked(q) PROVE FALSE
    OBVIOUS
  <2>1. q[k].left = 0 /\ q[k].left > x.left
    BY <1>1 DEF MarkOK
  <2>2. QED
    BY <1>3, <2>1
<1>5. \A k \in 1 .. n + 1 : k \in Marked(r) => k < place
  <2> SUFFICES ASSUME NEW k \in 1 .. n + 1, r[k].queued, ~ (k < place) PROVE FALSE
    BY <1>1 DEF Marked
  <2>1. k # place
    BY <1>2
  <2>2. k - 1 \in 1 .. n /\ k - 1 >= place /\ (k - 1) + 1 = k
    BY <1>1, <2>1
  <2>3. q[k - 1].queued
    BY <1>2, <2>2
  <2>4. QED
    BY <1>1, <1>4, <2>2, <2>3 DEF Marked
<1>6. \A k \in 1 .. n + 1 : k < place => k \in 1 .. n
  BY <1>1
<1>7. \A k \in 1 .. n : k \in 1 .. n + 1 /\ (k < place \/ k >= place)
  BY <1>1
<1>8. Marked(r) = Marked(q)
  <2>1. \A k \in Marked(r) : k \in Marked(q)
    BY <1>1, <1>2, <1>5, <1>6 DEF Marked
  <2>2. \A k \in Marked(q) : k \in 1 .. n /\ k < place
    BY <1>1, <1>4, <1>7 DEF Marked
  <2>3. \A k \in Marked(q) : k \in Marked(r)
    BY <1>1, <1>2, <1>7, <2>2 DEF Marked
  <2>4. QED
    BY <2>1, <2>3
<1>9. \A k \in Marked(q) : r[k] = q[k]
  BY <1>1, <1>2, <1>4, <1>7 DEF Marked
<1>10. QED
  BY <1>8, <1>9 DEF MarkOK

LEMMA InsertedSame ==
    ASSUME NEW q \in Seq(Packets), NEW r, NEW x, NEW place, Inserted(r, q, place, x)
    PROVE /\ \A i : i # x.i => SameOn(q, r, i)
          /\ place \in Of(r, x.i) /\ r[place] = x
          /\ NoneOf(q, x.i) => OnlyOf(r, x.i, place)
<1> DEFINE n == Len(q)
<1>1. n \in Nat /\ DOMAIN q = 1 .. n /\ DOMAIN r = 1 .. n + 1 /\ place \in 1 .. n + 1
  BY DEF Inserted
<1>2. /\ r[place] = x
      /\ \A k \in 1 .. n : k < place => r[k] = q[k]
      /\ \A k \in 1 .. n : k >= place => r[k + 1] = q[k]
  BY DEF Inserted
<1> HIDE DEF n
<1> DEFINE To(k) == IF k < place THEN k ELSE k + 1
<1>3. \A k \in 1 .. n : To(k) \in 1 .. n + 1 /\ r[To(k)] = q[k]
  BY <1>1, <1>2
<1>4. \A m \in 1 .. n + 1 : m # place => \E k \in 1 .. n : To(k) = m
  <2> SUFFICES ASSUME NEW m \in 1 .. n + 1, m # place PROVE \E k \in 1 .. n : To(k) = m
    OBVIOUS
  <2>1. CASE m < place
    BY <1>1, <2>1
  <2>2. CASE m > place
    <3>1. m - 1 \in 1 .. n /\ To(m - 1) = m
      BY <1>1, <2>2
    <3>2. QED
      BY <3>1
  <2>3. QED
    BY <1>1, <2>1, <2>2
<1> HIDE DEF To
<1>5. ASSUME NEW i, i # x.i PROVE SameOn(q, r, i)
  <2> DEFINE h == [k \in Of(q, i) |-> To(k)]
  <2>1. \A k \in Of(q, i) : k \in 1 .. n /\ To(k) \in Of(r, i) /\ r[To(k)] = q[k]
    BY <1>1, <1>3 DEF Of
  <2>2. h \in [Of(q, i) -> Of(r, i)] /\ \A k \in Of(q, i) : r[h[k]] = q[k]
    BY <2>1
  <2>3. ASSUME NEW m \in Of(r, i) PROVE \E k \in Of(q, i) : h[k] = m
    <3>1. m \in 1 .. n + 1 /\ m # place
      BY <1>1, <1>2, <1>5 DEF Of
    <3>2. PICK k \in 1 .. n : To(k) = m
      BY <1>4, <3>1
    <3>3. k \in Of(q, i)
      BY <1>1, <1>3, <3>2 DEF Of
    <3>4. QED
      BY <3>2, <3>3
  <2> HIDE DEF h
  <2>4. QED
    BY <2>2, <2>3 DEF SameOn
<1>6. place \in Of(r, x.i) /\ r[place] = x
  BY <1>1, <1>2 DEF Of
<1>7. ASSUME NoneOf(q, x.i) PROVE OnlyOf(r, x.i, place)
  <2> SUFFICES ASSUME NEW m \in Of(r, x.i), m # place PROVE FALSE
    BY <1>6 DEF OnlyOf
  <2>1. PICK k \in 1 .. n : To(k) = m
    BY <1>1, <1>4 DEF Of
  <2>2. k \in Of(q, x.i)
    BY <1>1, <1>3, <2>1 DEF Of
  <2>3. QED
    BY <1>7, <2>2 DEF NoneOf
<1>8. QED
  BY <1>5, <1>6, <1>7

\* No packet of the queue has the address.
FreeIn(q, at) == \A k \in DOMAIN q : q[k].at # at

\* e is d with p in the queue, to be sent after the delay.
Enqueued(d, e, p, delay) ==
    \E r \in Seq(Packets) :
        /\ e = [d EXCEPT !.txq = r]
        /\ QueueOK(r)
        /\ ~p.queued => \A acts : MarkOK(d.txq, acts) => MarkOK(r, acts)
        /\ \A i : i # p.i => SameOn(d.txq, r, i)
        /\ \E k \in Of(r, p.i) : /\ r[k] = [p EXCEPT !.left = delay]
                                 /\ NoneOf(d.txq, p.i) => OnlyOf(r, p.i, k)

LEMMA SendAfterOK ==
    ASSUME NEW d, d.txq \in Seq(Packets), QueueOK(d.txq), NEW p \in Packets, NEW delay \in 0 .. Second,
           FreeIn(d.txq, p.at)
    PROVE  Enqueued(d, SendAfter(d, p, delay), p, delay)
<1> DEFINE q == d.txq
           x == [p EXCEPT !.left = delay]
<1>1. PICK r \in Seq(Packets), place \in 1 .. Len(q) + 1 :
              /\ SendAfter(d, p, delay) = [d EXCEPT !.txq = r]
              /\ Inserted(r, q, place, x)
              /\ \A k \in DOMAIN q : k < place => q[k].left <= delay
              /\ \A k \in DOMAIN q : k >= place => q[k].left > delay
  BY SendAfterSpec
<1>2. /\ x \in Packets /\ x.left = delay /\ x.at = p.at /\ x.i = p.i
      /\ x.queued = p.queued
  BY DEF Packets, Second
<1>3. q \in Seq(Packets) /\ QueueOK(q) /\ \A k \in DOMAIN q : q[k].at # x.at
  BY <1>2 DEF FreeIn
<1>4. x = [p EXCEPT !.left = delay]
  OBVIOUS
<1> HIDE DEF x, q
<1>5. QueueOK(r)
  BY <1>1, <1>2, <1>3, InsertedOK
<1>6. ~p.queued => \A acts : MarkOK(q, acts) => MarkOK(r, acts)
  <2> SUFFICES ASSUME ~x.queued, NEW acts, MarkOK(q, acts) PROVE MarkOK(r, acts)
    BY <1>2, Zenon
  <2>1. \A k \in DOMAIN q : k >= place => q[k].left > x.left
    BY <1>1, <1>2
  <2>2. QED
    BY <1>1, <1>2, <1>3, <2>1, InsertedMarks
<1>7. /\ \A i : i # p.i => SameOn(q, r, i)
      /\ place \in Of(r, p.i) /\ r[place] = x
      /\ NoneOf(q, p.i) => OnlyOf(r, p.i, place)
  <2>1. /\ \A i : i # x.i => SameOn(q, r, i)
        /\ place \in Of(r, x.i) /\ r[place] = x
        /\ NoneOf(q, x.i) => OnlyOf(r, x.i, place)
    <3>1. q \in Seq(Packets) /\ Inserted(r, q, place, x)
      BY <1>1, <1>3
    <3>2. \A i : i # x.i => SameOn(q, r, i)
      BY <3>1, InsertedSame
    <3>3. place \in Of(r, x.i) /\ r[place] = x
      BY <3>1, InsertedSame
    <3>4. NoneOf(q, x.i) => OnlyOf(r, x.i, place)
      BY <3>1, InsertedSame
    <3>5. QED
      BY <3>2, <3>3, <3>4
  <2>2. QED
    BY <1>2, <2>1, Zenon
<1>8. QED
  BY <1>1, <1>4, <1>5, <1>6, <1>7, Zenon DEF q, Enqueued

\* f is q without the packets of interface i.
Cleared(q, f, i) ==
    /\ f \in Seq(Packets) /\ QueueOK(f)
    /\ \A acts : MarkOK(q, acts) => MarkOK(f, acts)
    /\ NoneOf(f, i)
    /\ \A j \in Ifaces \ {i} : SameOn(q, f, j)

LEMMA ClearedOK ==
    ASSUME NEW q \in Seq(Packets), QueueOK(q), NEW i, NEW f, f = OnInterfaces(q, Ifaces \ {i})
    PROVE Cleared(q, f, i)
<1> DEFINE is == Ifaces \ {i}
           n == Len(f)
           l == Len(q)
<1>1. PICK h : /\ Embeds(h, OnInterfaces(q, is), q)
               /\ \A k \in DOMAIN OnInterfaces(q, is) : OnInterfaces(q, is)[k].i \in is
               /\ \A m \in DOMAIN q :
                      q[m].i \in is => \E k \in DOMAIN OnInterfaces(q, is) : h[k] = m
  <2> HIDE DEF is
  <2>1. /\ OnInterfaces(q, is) \in Seq(Packets)
        /\ \E h : /\ Embeds(h, OnInterfaces(q, is), q)
                  /\ \A k \in DOMAIN OnInterfaces(q, is) : OnInterfaces(q, is)[k].i \in is
                  /\ \A m \in DOMAIN q :
                         q[m].i \in is => \E k \in DOMAIN OnInterfaces(q, is) : h[k] = m
    BY OnInterfacesSpec
  <2>2. QED
    BY <2>1
<1>2. f \in Seq(Packets)
  BY OnInterfacesSpec
<1>3. DOMAIN f = 1 .. n /\ DOMAIN q = 1 .. l /\ n \in Nat /\ l \in Nat
  BY <1>2
<1>4. /\ \A k \in 1 .. n : h[k] \in 1 .. l /\ f[k] = q[h[k]] /\ f[k].i \in is
      /\ \A j, k \in 1 .. n : j < k => h[j] < h[k]
      /\ \A m \in 1 .. l : q[m].i \in is => \E k \in 1 .. n : h[k] = m
  <2>1. h \in [1 .. n -> 1 .. l]
    BY <1>1, <1>3, Zenon DEF Embeds
  <2>2. \A k \in 1 .. n : f[k] = q[h[k]] /\ f[k].i \in is
    BY <1>1, <1>3, Zenon DEF Embeds
  <2>3. \A j, k \in 1 .. n : j < k => h[j] < h[k]
    BY <1>1, <1>3, Zenon DEF Embeds
  <2>4. \A m \in 1 .. l : q[m].i \in is => \E k \in 1 .. n : h[k] = m
    BY <1>1, <1>3, Zenon
  <2>5. QED
    BY <2>1, <2>2, <2>3, <2>4
<1> HIDE DEF n, l
<1>5. QueueOK(f)
  <2>1. \A j, k \in 1 .. l : j < k => q[j].left <= q[k].left /\ q[j].at # q[k].at
    BY <1>3 DEF QueueOK
  <2>2. ASSUME NEW j \in 1 .. n, NEW k \in 1 .. n, j < k
        PROVE f[j].left <= f[k].left /\ f[j].at # f[k].at
    <3>1. h[j] \in 1 .. l /\ h[k] \in 1 .. l /\ h[j] < h[k] /\ f[j] = q[h[j]] /\ f[k] = q[h[k]]
      BY <1>4, <2>2
    <3>2. QED
      BY <2>1, <3>1
  <2>3. \A j, k \in DOMAIN f : j < k => f[j].left <= f[k].left /\ f[j].at # f[k].at
    <3>1. DOMAIN f = 1 .. n
      BY <1>3
    <3>2. QED
      BY <2>2, <3>1, Zenon
  <2>4. QED
    BY <2>3, Zenon DEF QueueOK
<1>6. ASSUME NEW acts, MarkOK(q, acts) PROVE MarkOK(f, acts)
  <2>1. PICK g \in [Marked(q) -> DOMAIN acts] :
          /\ \A k \in Marked(q) : acts[g[k]] = <<"tx", q[k].at>>
          /\ \A j, k \in Marked(q) : j < k => g[j] < g[k]
    BY <1>6 DEF MarkOK
  <2>2. \A k \in Marked(q) : q[k].left = 0 /\ \A j \in 1 .. k : j \in Marked(q)
    BY <1>6 DEF MarkOK
  <2>3. /\ \A k \in 1 .. n : k \in Marked(f) <=> h[k] \in Marked(q)
        /\ \A k \in Marked(f) : k \in 1 .. n
    BY <1>3, <1>4 DEF Marked
  <2>4. ASSUME NEW k \in Marked(f) PROVE f[k].left = 0
    <3>1. k \in 1 .. n /\ h[k] \in Marked(q)
      BY <2>3
    <3>2. f[k] = q[h[k]]
      BY <1>4, <3>1
    <3>3. QED
      BY <2>2, <3>1, <3>2
  <2>5. ASSUME NEW k \in Marked(f), NEW j \in 1 .. k PROVE j \in Marked(f)
    <3>0. k \in 1 .. n
      BY <2>3
    <3>1. k \in 1 .. n /\ j \in 1 .. n
      BY <1>3, <3>0
    <3>2. j = k \/ j < k
      BY <3>1
    <3>3. h[j] \in 1 .. l /\ h[k] \in 1 .. l /\ (h[j] = h[k] \/ h[j] < h[k])
      BY <1>4, <3>1, <3>2
    <3>4. h[j] \in 1 .. h[k]
      BY <1>3, <3>3
    <3>5. h[k] \in Marked(q)
      BY <2>3, <3>1
    <3>6. h[j] \in Marked(q)
      BY <2>2, <3>4, <3>5
    <3>7. QED
      BY <2>3, <3>1, <3>6
  <2> DEFINE e == [k \in Marked(f) |-> g[h[k]]]
  <2>6. ASSUME NEW k \in Marked(f) PROVE h[k] \in Marked(q) /\ f[k] = q[h[k]]
    <3>1. k \in 1 .. n
      BY <2>3
    <3>2. QED
      BY <1>4, <2>3, <3>1
  <2>7. e \in [Marked(f) -> DOMAIN acts]
    BY <2>6
  <2>8. \A k \in Marked(f) : e[k] = g[h[k]] /\ acts[e[k]] = <<"tx", f[k].at>>
    BY <2>1, <2>6
  <2> HIDE DEF e
  <2>9. ASSUME NEW j \in Marked(f), NEW k \in Marked(f), j < k PROVE e[j] < e[k]
    <3>1. j \in 1 .. n /\ k \in 1 .. n
      BY <2>3
    <3>2. h[j] < h[k] /\ h[j] \in Marked(q) /\ h[k] \in Marked(q)
      BY <1>4, <2>6, <2>9, <3>1
    <3>3. QED
      BY <2>1, <2>8, <3>2
  <2>10. QED
    BY <2>4, <2>5, <2>7, <2>8, <2>9 DEF MarkOK
<1>7. NoneOf(f, i)
  BY <1>3, <1>4 DEF Of, NoneOf
<1>8. ASSUME NEW j \in is PROVE SameOn(q, f, j)
  \* The other way round: from the packets of q to those of f.
  <2> DEFINE b == [m \in Of(q, j) |-> CHOOSE k \in 1 .. n : h[k] = m]
  <2>1. \A m \in Of(q, j) : \E k \in 1 .. n : h[k] = m
    BY <1>3, <1>4 DEF Of
  <2>2. \A m \in Of(q, j) : b[m] \in 1 .. n /\ h[b[m]] = m
    BY <2>1
  <2>3. \A m \in Of(q, j) : b[m] \in Of(f, j) /\ f[b[m]] = q[m]
    <3> HIDE DEF b
    <3>1. QED
      BY <1>3, <1>4, <2>2 DEF Of
  <2>4. b \in [Of(q, j) -> Of(f, j)]
    <3> DEFINE c(m) == CHOOSE k \in 1 .. n : h[k] = m
    <3>1. \A m \in Of(q, j) : c(m) \in Of(f, j)
      BY <2>3
    <3> HIDE DEF c
    <3>2. [m \in Of(q, j) |-> c(m)] \in [Of(q, j) -> Of(f, j)]
      BY <3>1
    <3>3. QED
      BY <3>2 DEF c
  <2> HIDE DEF b
  <2>5. ASSUME NEW k \in Of(f, j) PROVE \E m \in Of(q, j) : b[m] = k
    <3>1. k \in 1 .. n /\ h[k] \in Of(q, j)
      BY <1>3, <1>4 DEF Of
    <3>2. b[h[k]] \in 1 .. n /\ h[b[h[k]]] = h[k]
      BY <2>2, <3>1
    <3> DEFINE y == b[h[k]]
    <3> HIDE DEF y
    <3>3. y \in 1 .. n /\ h[y] = h[k] /\ h[k] \in 1 .. l
      BY <1>4, <3>1, <3>2 DEF y
    <3>4. ~ (y < k) /\ ~ (k < y)
      BY <1>3, <1>4, <3>1, <3>3
    <3>5. y = k
      BY <1>3, <3>1, <3>3, <3>4
    <3>6. QED
      BY <3>1, <3>5 DEF y
  <2>6. QED
    BY <2>3, <2>4, <2>5 DEF SameOn
<1>9. QED
  BY <1>2, <1>5, <1>6, <1>7, <1>8 DEF Cleared

\* Taking the first packet out.
LEMMA TailOK ==
    ASSUME NEW q \in Seq(Packets), q # <<>>, QueueOK(q)
    PROVE  /\ Head(q) = q[1] /\ Head(q) \in Packets /\ 1 \in DOMAIN q
           /\ Tail(q) \in Seq(Packets) /\ QueueOK(Tail(q))
           /\ FreeIn(Tail(q), Head(q).at)
           /\ \A i : i # Head(q).i => SameOn(q, Tail(q), i)
           /\ \A i : OnlyOf(q, i, 1) => NoneOf(Tail(q), i)
<1> DEFINE n == Len(q)
           f == Tail(q)
<1>1. /\ n \in Nat \ {0} /\ DOMAIN q = 1 .. n /\ f \in Seq(Packets) /\ Len(f) = n - 1
      /\ DOMAIN f = 1 .. n - 1 /\ \A k \in 1 .. n - 1 : f[k] = q[k + 1]
  OBVIOUS
<1>2. Head(q) = q[1] /\ Head(q) \in Packets
  OBVIOUS
<1> HIDE DEF n, f
<1>3. \A k \in 1 .. n - 1 : k + 1 \in 1 .. n /\ 1 < k + 1
  BY <1>1
<1>4. 1 \in 1 .. n
  BY <1>1
<1>5. \A j, k \in 1 .. n : j < k => q[j].left <= q[k].left /\ q[j].at # q[k].at
  BY <1>1 DEF QueueOK
<1>6. QueueOK(f)
  <2>1. ASSUME NEW j \in 1 .. n - 1, NEW k \in 1 .. n - 1, j < k
        PROVE f[j].left <= f[k].left /\ f[j].at # f[k].at
    <3>1. j + 1 \in 1 .. n /\ k + 1 \in 1 .. n /\ j + 1 < k + 1
      BY <1>1, <2>1
    <3>2. q[j + 1].left <= q[k + 1].left /\ q[j + 1].at # q[k + 1].at
      BY <1>5, <3>1
    <3>3. f[j] = q[j + 1] /\ f[k] = q[k + 1]
      BY <1>1
    <3>4. QED
      BY <3>2, <3>3
  <2>2. QED
    BY <1>1, <2>1 DEF QueueOK
<1>7. FreeIn(f, Head(q).at)
  <2> SUFFICES ASSUME NEW k \in 1 .. n - 1 PROVE f[k].at # q[1].at
    BY <1>1, <1>2 DEF FreeIn
  <2>1. k + 1 \in 1 .. n /\ 1 < k + 1
    BY <1>3
  <2>2. q[1].at # q[k + 1].at
    BY <1>4, <1>5, <2>1
  <2>3. f[k] = q[k + 1]
    BY <1>1
  <2>4. QED
    BY <2>2, <2>3
<1>8. ASSUME NEW i, i # Head(q).i PROVE SameOn(q, f, i)
  <2> DEFINE h == [k \in Of(q, i) |-> k - 1]
  <2>1. ASSUME NEW k \in Of(q, i) PROVE k - 1 \in Of(f, i) /\ f[k - 1] = q[k]
    <3>1. k \in 1 .. n /\ q[k].i = i
      BY <1>1 DEF Of
    <3>2. k # 1
      BY <1>2, <1>8, <3>1
    <3>3. k - 1 \in 1 .. n - 1 /\ (k - 1) + 1 = k
      BY <1>1, <3>1, <3>2
    <3>4. f[k - 1] = q[k]
      BY <1>1, <3>3
    <3>5. QED
      BY <1>1, <3>1, <3>3, <3>4 DEF Of
  <2>2. h \in [Of(q, i) -> Of(f, i)] /\ \A k \in Of(q, i) : f[h[k]] = q[k]
    BY <2>1
  <2>3. ASSUME NEW m \in Of(f, i) PROVE \E k \in Of(q, i) : h[k] = m
    <3>1. m \in 1 .. n - 1 /\ f[m].i = i
      BY <1>1 DEF Of
    <3>2. m + 1 \in 1 .. n /\ (m + 1) - 1 = m /\ f[m] = q[m + 1]
      BY <1>1, <3>1
    <3>3. m + 1 \in Of(q, i)
      BY <1>1, <3>1, <3>2 DEF Of
    <3>4. h[m + 1] = m
      BY <3>2, <3>3
    <3>5. QED
      BY <3>3, <3>4
  <2> HIDE DEF h
  <2>4. QED
    BY <2>2, <2>3 DEF SameOn
<1>9. ASSUME NEW i, OnlyOf(q, i, 1) PROVE NoneOf(f, i)
  <2> SUFFICES ASSUME NEW m \in 1 .. n - 1, f[m].i = i PROVE FALSE
    BY <1>1 DEF Of, NoneOf
  <2>1. m + 1 \in 1 .. n /\ m + 1 # 1 /\ f[m] = q[m + 1]
    BY <1>1
  <2>2. m + 1 \in Of(q, i)
    BY <1>1, <2>1 DEF Of
  <2>3. QED
    BY <1>9, <2>1, <2>2 DEF OnlyOf
<1>10. QED
  BY <1>1, <1>2, <1>4, <1>6, <1>7, <1>8, <1>9 DEF f

\* The first action is done without sending the packet that it was for.
LEMMA ActDone ==
    ASSUME NEW q \in Seq(Packets), NEW A, NEW a \in A, NEW rest \in Seq(A), MarkOK(q, <<a>> \o rest),
           q # <<>> => ~q[1].queued \/ a # <<"tx", q[1].at>>
    PROVE MarkOK(q, rest)
<1> DEFINE acts == <<a>> \o rest
           n == Len(rest)
<1>1. /\ n \in Nat /\ DOMAIN acts = 1 .. n + 1 /\ acts[1] = a /\ DOMAIN rest = 1 .. n
      /\ \A k \in 1 .. n : acts[k + 1] = rest[k]
  OBVIOUS
<1>2. PICK g \in [Marked(q) -> DOMAIN acts] :
          /\ \A k \in Marked(q) : acts[g[k]] = <<"tx", q[k].at>>
          /\ \A j, k \in Marked(q) : j < k => g[j] < g[k]
  BY DEF MarkOK
<1>3. \A k \in Marked(q) : k \in Nat /\ k >= 1 /\ 1 \in Marked(q)
  <2> SUFFICES ASSUME NEW k \in Marked(q) PROVE k \in Nat /\ k >= 1 /\ 1 \in Marked(q)
    OBVIOUS
  <2>1. k \in Nat /\ k >= 1
    BY DEF Marked
  <2>2. 1 \in 1 .. k
    BY <2>1
  <2>3. QED
    BY <2>1, <2>2 DEF MarkOK
<1> HIDE DEF acts, n
<1>4. \A k \in Marked(q) : g[k] \in 1 .. n + 1 /\ g[k] # 1
  <2> SUFFICES ASSUME NEW k \in Marked(q) PROVE g[k] \in 1 .. n + 1 /\ g[k] # 1
    OBVIOUS
  <2>1. 1 \in Marked(q) /\ g[1] \in 1 .. n + 1 /\ g[k] \in 1 .. n + 1
    BY <1>1, <1>2, <1>3
  <2>2. q # <<>> /\ q[1].queued
    BY <2>1 DEF Marked
  <2>3. g[1] # 1
    BY <1>1, <1>2, <2>1, <2>2
  <2>4. CASE k = 1
    BY <2>1, <2>3, <2>4
  <2>5. CASE k # 1
    <3>1. 1 < k
      BY <1>3, <2>5
    <3>2. g[1] < g[k]
      BY <1>2, <2>1, <3>1
    <3>3. QED
      BY <1>1, <2>1, <3>2
  <2>6. QED
    BY <2>4, <2>5
<1> DEFINE e == [k \in Marked(q) |-> g[k] - 1]
<1>5. \A k \in Marked(q) : g[k] - 1 \in 1 .. n /\ rest[g[k] - 1] = <<"tx", q[k].at>>
  <2> SUFFICES ASSUME NEW k \in Marked(q)
               PROVE  g[k] - 1 \in 1 .. n /\ rest[g[k] - 1] = <<"tx", q[k].at>>
    OBVIOUS
  <2>1. g[k] - 1 \in 1 .. n /\ (g[k] - 1) + 1 = g[k]
    BY <1>1, <1>4
  <2>2. QED
    BY <1>1, <1>2, <2>1
<1>6. e \in [Marked(q) -> DOMAIN rest] /\ \A k \in Marked(q) : rest[e[k]] = <<"tx", q[k].at>>
  BY <1>1, <1>5
<1>7. ASSUME NEW j \in Marked(q), NEW k \in Marked(q), j < k PROVE e[j] < e[k]
  <2>1. g[j] < g[k] /\ g[j] \in 1 .. n + 1 /\ g[k] \in 1 .. n + 1
    BY <1>2, <1>4, <1>7
  <2>2. QED
    BY <1>1, <2>1
<1> HIDE DEF e
<1>8. QED
  BY <1>6, <1>7 DEF MarkOK

\* The first packet goes with the first action.
LEMMA ActSent ==
    ASSUME NEW q \in Seq(Packets), NEW A, NEW a \in A, NEW rest \in Seq(A), MarkOK(q, <<a>> \o rest),
           q # <<>>, q[1].queued
    PROVE MarkOK(Tail(q), rest)
<1> DEFINE acts == <<a>> \o rest
           n == Len(rest)
           f == Tail(q)
           l == Len(q)
<1>1. /\ n \in Nat /\ DOMAIN acts = 1 .. n + 1 /\ DOMAIN rest = 1 .. n
      /\ \A k \in 1 .. n : acts[k + 1] = rest[k]
  OBVIOUS
<1>2. /\ l \in Nat \ {0} /\ DOMAIN q = 1 .. l /\ DOMAIN f = 1 .. l - 1
      /\ \A k \in 1 .. l - 1 : f[k] = q[k + 1]
  OBVIOUS
<1>3. PICK g \in [Marked(q) -> DOMAIN acts] :
          /\ \A k \in Marked(q) : acts[g[k]] = <<"tx", q[k].at>>
          /\ \A j, k \in Marked(q) : j < k => g[j] < g[k]
  BY DEF MarkOK
<1>4. \A k \in Marked(q) : q[k].left = 0 /\ \A j \in 1 .. k : j \in Marked(q)
  BY DEF MarkOK
<1> HIDE DEF acts, n, f, l
<1>5. 1 \in Marked(q) /\ g[1] \in 1 .. n + 1
  BY <1>1, <1>2, <1>3 DEF Marked
<1>6. ASSUME NEW k \in Marked(f)
      PROVE  /\ k \in 1 .. l - 1 /\ k + 1 \in Marked(q) /\ f[k] = q[k + 1]
             /\ g[k + 1] - 1 \in 1 .. n /\ rest[g[k + 1] - 1] = <<"tx", f[k].at>>
  <2>1. k \in 1 .. l - 1 /\ f[k].queued
    BY <1>2 DEF Marked
  <2>2. k + 1 \in 1 .. l /\ 1 < k + 1 /\ f[k] = q[k + 1]
    BY <1>2, <2>1
  <2>3. k + 1 \in Marked(q)
    BY <1>2, <2>1, <2>2 DEF Marked
  <2>4. g[1] < g[k + 1] /\ g[k + 1] \in 1 .. n + 1
    BY <1>1, <1>3, <1>5, <2>2, <2>3
  <2>5. g[k + 1] - 1 \in 1 .. n /\ (g[k + 1] - 1) + 1 = g[k + 1]
    BY <1>1, <1>5, <2>4
  <2>6. acts[g[k + 1]] = <<"tx", f[k].at>>
    BY <1>3, <2>2, <2>3
  <2>7. QED
    BY <1>1, <2>1, <2>2, <2>3, <2>5, <2>6
<1>7. ASSUME NEW k \in Marked(f) PROVE f[k].left = 0 /\ \A j \in 1 .. k : j \in Marked(f)
  <2>1. f[k].left = 0
    BY <1>4, <1>6
  <2>2. ASSUME NEW j \in 1 .. k PROVE j \in Marked(f)
    <3>1. j \in 1 .. l - 1 /\ j + 1 \in 1 .. k + 1 /\ f[j] = q[j + 1]
      BY <1>2, <1>6
    <3>2. j + 1 \in Marked(q)
      BY <1>4, <1>6, <3>1
    <3>3. QED
      BY <1>2, <3>1, <3>2 DEF Marked
  <2>3. QED
    BY <2>1, <2>2
<1> DEFINE e == [k \in Marked(f) |-> g[k + 1] - 1]
<1>8. e \in [Marked(f) -> DOMAIN rest] /\ \A k \in Marked(f) : rest[e[k]] = <<"tx", f[k].at>>
  BY <1>1, <1>6
<1>9. ASSUME NEW j \in Marked(f), NEW k \in Marked(f), j < k PROVE e[j] < e[k]
  <2>1. j + 1 \in Marked(q) /\ k + 1 \in Marked(q) /\ j + 1 < k + 1
    BY <1>2, <1>6, <1>9
  <2>2. g[j + 1] < g[k + 1] /\ g[j + 1] - 1 \in 1 .. n /\ g[k + 1] - 1 \in 1 .. n
    BY <1>3, <1>6, <2>1
  <2>3. g[j + 1] \in 1 .. n + 1 /\ g[k + 1] \in 1 .. n + 1
    BY <1>1, <1>3, <2>1
  <2>4. QED
    BY <1>1, <2>2, <2>3
<1> HIDE DEF e
<1>10. MarkOK(f, rest)
  BY <1>7, <1>8, <1>9 DEF MarkOK
<1>11. QED
  BY <1>10 DEF f

LEMMA ActsMore ==
    ASSUME NEW q, NEW A, NEW acts \in Seq(A), NEW more \in Seq(A), MarkOK(q, acts)
    PROVE MarkOK(q, acts \o more)
<1> DEFINE all == acts \o more
<1>1. PICK g \in [Marked(q) -> DOMAIN acts] :
          /\ \A k \in Marked(q) : acts[g[k]] = <<"tx", q[k].at>>
          /\ \A j, k \in Marked(q) : j < k => g[j] < g[k]
  BY DEF MarkOK
<1>2. \A k \in DOMAIN acts : k \in DOMAIN all /\ all[k] = acts[k]
  OBVIOUS
<1> HIDE DEF all
<1>3. g \in [Marked(q) -> DOMAIN all] /\ \A k \in Marked(q) : all[g[k]] = <<"tx", q[k].at>>
  BY <1>1, <1>2
<1>4. MarkOK(q, all)
  BY <1>1, <1>3 DEF MarkOK
<1>5. QED
  BY <1>4 DEF all

\* A packet of the queue gets or loses its mark; the packets before k are marked.
WithMark(q, k, b) == [q EXCEPT ![k].queued = b]
MarkedTo(q, k) == \A j \in DOMAIN q : j \in Marked(q) <=> j < k

\* The timer marks the packet at k, behind the marked ones, and posts its action.
LEMMA PushedOK ==
    ASSUME NEW q \in Seq(Packets), NEW A, NEW acts \in Seq(A), NEW a \in A, MarkOK(q, acts),
           NEW k \in DOMAIN q, q[k].left = 0, a = <<"tx", q[k].at>>, MarkedTo(q, k),
           NEW r, r = WithMark(q, k, TRUE)
    PROVE MarkOK(r, Append(acts, a)) /\ MarkedTo(r, k + 1)
<1> DEFINE all == Append(acts, a)
           n == Len(acts)
           l == Len(q)
<1>1. /\ n \in Nat /\ DOMAIN acts = 1 .. n /\ DOMAIN all = 1 .. n + 1 /\ all[n + 1] = a
      /\ \A j \in 1 .. n : all[j] = acts[j]
  OBVIOUS
<1>2. /\ l \in Nat /\ DOMAIN q = 1 .. l /\ DOMAIN r = 1 .. l
      /\ \A j \in 1 .. l : j # k => r[j] = q[j]
      /\ r[k] = [q[k] EXCEPT !.queued = TRUE]
  BY DEF WithMark
<1>3. q[k] \in Packets
  OBVIOUS
<1>4. r[k].queued /\ r[k].left = 0 /\ r[k].at = q[k].at
  BY <1>2, <1>3 DEF Packets
<1>5. PICK g \in [Marked(q) -> DOMAIN acts] :
          /\ \A j \in Marked(q) : acts[g[j]] = <<"tx", q[j].at>>
          /\ \A i, j \in Marked(q) : i < j => g[i] < g[j]
  BY DEF MarkOK
<1>6. \A j \in Marked(q) : q[j].left = 0
  BY DEF MarkOK
<1> HIDE DEF all, n, l
<1>7. \A j \in 1 .. l : j \in Marked(q) <=> j < k
  BY <1>2 DEF MarkedTo
<1>8. \A j \in 1 .. l : j \in Marked(r) <=> j \in Marked(q) \/ j = k
  BY <1>2, <1>4 DEF Marked
<1>9. \A j \in 1 .. l : j \in Marked(r) <=> j < k + 1
  <2>1. \A j \in 1 .. l : j < k + 1 <=> j < k \/ j = k
    BY <1>2
  <2>2. QED
    BY <1>7, <1>8, <2>1
<1>10. \A j \in Marked(r) : j \in 1 .. l /\ (j = k \/ (j # k /\ j < k /\ j \in Marked(q)))
  BY <1>2, <1>7, <1>8 DEF Marked
<1> DEFINE e == [j \in Marked(r) |-> IF j = k THEN n + 1 ELSE g[j]]
<1>11. e \in [Marked(r) -> DOMAIN all]
  <2>1. \A j \in Marked(q) : g[j] \in 1 .. n
    BY <1>1, <1>5
  <2>2. n + 1 \in 1 .. n + 1 /\ \A m \in 1 .. n : m \in 1 .. n + 1
    BY <1>1
  <2>3. \A j \in Marked(r) : (IF j = k THEN n + 1 ELSE g[j]) \in 1 .. n + 1
    BY <1>10, <2>1, <2>2
  <2>4. QED
    BY <1>1, <2>3
<1>12. \A j \in Marked(r) : e[j] = IF j = k THEN n + 1 ELSE g[j]
  OBVIOUS
<1> HIDE DEF e
<1>13. ASSUME NEW j \in Marked(r) PROVE all[e[j]] = <<"tx", r[j].at>> /\ r[j].left = 0
  <2>1. CASE j = k
    BY <1>1, <1>4, <1>12, <2>1
  <2>2. CASE j # k
    <3>1. j \in 1 .. l /\ j \in Marked(q) /\ r[j] = q[j] /\ e[j] = g[j]
      BY <1>2, <1>10, <1>12, <2>2
    <3>2. g[j] \in 1 .. n
      BY <1>1, <1>5, <3>1
    <3>3. QED
      BY <1>1, <1>5, <1>6, <3>1, <3>2
  <2>3. QED
    BY <2>1, <2>2
<1>14. ASSUME NEW i \in Marked(r), NEW j \in Marked(r), i < j PROVE e[i] < e[j]
  <2>1. i # k /\ i \in Marked(q) /\ e[i] = g[i] /\ g[i] \in 1 .. n
    <3>1. i \in 1 .. l /\ j \in 1 .. l /\ j < k + 1
      BY <1>9, <1>10
    <3>2. i # k
      BY <1>2, <1>14, <3>1
    <3>3. i \in Marked(q)
      BY <1>10, <3>2
    <3>4. QED
      BY <1>1, <1>5, <1>12, <3>2, <3>3
  <2>2. CASE j = k
    <3>1. e[j] = n + 1
      BY <1>12, <2>2
    <3>2. QED
      BY <1>1, <2>1, <3>1
  <2>3. CASE j # k
    <3>1. j \in Marked(q) /\ e[j] = g[j]
      BY <1>10, <1>12, <2>3
    <3>2. QED
      BY <1>5, <1>14, <2>1, <3>1
  <2>4. QED
    BY <2>2, <2>3
<1>15. ASSUME NEW i \in Marked(r), NEW j \in 1 .. i PROVE j \in Marked(r)
  <2>1. i \in 1 .. l /\ i < k + 1
    BY <1>9, <1>10
  <2>2. j \in 1 .. l /\ j < k + 1
    BY <1>2, <2>1
  <2>3. QED
    BY <1>9, <2>2
<1>16. MarkOK(r, all)
  BY <1>11, <1>13, <1>14, <1>15 DEF MarkOK
<1>17. QED
  BY <1>2, <1>9, <1>16 DEF all, MarkedTo

\* What the handlers leave alone.
Beside(d, e) ==
    /\ e.aq = d.aq /\ e.held = d.held /\ e.timer = d.timer /\ e.app = d.app
    /\ e.up = d.up /\ e.ip = d.ip

-----------------------------------------------------------------------------
(* Parts of a device.                                                      *)

\* What belongs to the name, and what the network sees.
SameName(d, e) == e.host = d.host /\ e.svc = d.svc
SameNet(d, e) == e.ready = d.ready /\ e.probed = d.probed /\ e.out = d.out /\ e.named = d.named

\* Only the queue, or only the machine of an interface, is another one.
OtherTxq(d, e, q) ==
    e \in Device /\ e.txq = q /\ e.pcb = d.pcb /\ Beside(d, e) /\ SameName(d, e) /\ SameNet(d, e)

OtherPcb(d, e, i, pcb) ==
    /\ e \in Device /\ e.txq = d.txq /\ Beside(d, e) /\ SameName(d, e) /\ SameNet(d, e)
    /\ e.pcb[i] = pcb /\ \A j \in Ifaces : j # i => e.pcb[j] = d.pcb[j]

LEMMA SetTxq ==
    ASSUME NEW d \in Device, NEW q \in Seq(Packets), NEW e, e = [d EXCEPT !.txq = q]
    PROVE OtherTxq(d, e, q)
  BY DEF Device, Beside, SameName, SameNet, OtherTxq

LEMMA SetPcb ==
    ASSUME NEW d \in Device, NEW i \in Ifaces, NEW pcb \in Pcbs, NEW e, e = [d EXCEPT !.pcb[i] = pcb]
    PROVE OtherPcb(d, e, i, pcb)
<1>1. d.pcb \in [Ifaces -> Pcbs]
  BY DEF Device
<1>2. e = [d EXCEPT !.pcb = [d.pcb EXCEPT ![i] = pcb]]
  OBVIOUS
<1> DEFINE x == [d.pcb EXCEPT ![i] = pcb]
<1>3. x \in [Ifaces -> Pcbs] /\ x[i] = pcb /\ \A j \in Ifaces : j # i => x[j] = d.pcb[j]
  BY <1>1
<1> HIDE DEF x
<1>4. e = [d EXCEPT !.pcb = x]
  BY <1>2 DEF x
<1>5. e \in Device /\ e.txq = d.txq /\ Beside(d, e) /\ e.pcb = x /\ SameName(d, e) /\ SameNet(d, e)
  BY <1>3, <1>4 DEF Device, Beside, SameName, SameNet
<1>6. QED
  BY <1>3, <1>5 DEF OtherPcb

\* The machine of an interface depends on its packets, its state and the name.
LEMMA MachineKept ==
    ASSUME NEW d, NEW e, NEW i, MachineOK(d, i),
           e.host = d.host, e.pcb[i] = d.pcb[i], SameOn(d.txq, e.txq, i)
    PROVE MachineOK(e, i)
<1> DEFINE q == d.txq
           r == e.txq
<1>1. PICK h \in [Of(q, i) -> Of(r, i)] :
        /\ \A k \in Of(q, i) : r[h[k]] = q[k]
        /\ \A m \in Of(r, i) : \E k \in Of(q, i) : h[k] = m
  BY DEF SameOn
<1>2. PacketsOf(d, i) = Of(q, i) /\ PacketsOf(e, i) = Of(r, i)
  BY DEF PacketsOf, Of
<1>3. \A p : IsProbe(e, i, p) <=> IsProbe(d, i, p)
  BY DEF IsProbe, Instance
<1>4. e.pcb[i].running => Probing(e.pcb[i])
  BY DEF MachineOK
<1>5. ASSUME Probing(e.pcb[i])
      PROVE \E k \in PacketsOf(e, i) : PacketsOf(e, i) = {k} /\ IsProbe(e, i, e.txq[k])
  <2>1. PICK k \in Of(q, i) : Of(q, i) = {k} /\ IsProbe(d, i, q[k])
    BY <1>2, <1>5 DEF MachineOK
  <2>2. h[k] \in Of(r, i) /\ r[h[k]] = q[k]
    BY <1>1, <2>1
  <2>3. \A m \in Of(r, i) : m = h[k]
    BY <1>1, <2>1
  <2>4. Of(r, i) = {h[k]}
    BY <2>2, <2>3
  <2>5. IsProbe(e, i, r[h[k]])
    BY <1>3, <2>1, <2>2
  <2>6. QED
    BY <1>2, <2>2, <2>4, <2>5
<1>6. e.pcb[i].state \in ANNOUNCE_1 .. ANNOUNCE_3 => PacketsOf(e, i) # {}
  <2> SUFFICES ASSUME e.pcb[i].state \in ANNOUNCE_1 .. ANNOUNCE_3 PROVE Of(r, i) # {}
    BY <1>2
  <2>1. PICK k \in Of(q, i) : TRUE
    BY <1>2 DEF MachineOK
  <2>2. h[k] \in Of(r, i)
    BY <1>1, <2>1
  <2>3. QED
    BY <2>2
<1>7. QED
  BY <1>4, <1>5, <1>6 DEF MachineOK

LEMMA SameOnItself ==
    ASSUME NEW q, NEW i
    PROVE SameOn(q, q, i)
<1>1. [k \in Of(q, i) |-> k] \in [Of(q, i) -> Of(q, i)]
  OBVIOUS
<1>2. QED
  BY <1>1 DEF SameOn

\* An address is free.
LEMMA FreeAddress ==
    ASSUME EnoughAddrs, NEW d, d.txq \in Seq(Packets), NEW busy, IsFiniteSet(busy)
    PROVE  /\ Alloc(d, busy) \in Nat /\ Alloc(d, busy) \notin busy
           /\ FreeIn(d.txq, Alloc(d, busy))
<1> DEFINE ats == {d.txq[k].at : k \in DOMAIN d.txq}
           free == (Addrs \ ats) \ busy
<1>1. IsFiniteSet(ats)
  <2>1. DOMAIN d.txq = 1 .. Len(d.txq) /\ Len(d.txq) \in Nat
    OBVIOUS
  <2>2. IsFiniteSet(DOMAIN d.txq)
    BY <2>1, FS_Interval
  <2> DEFINE f == [k \in DOMAIN d.txq |-> d.txq[k].at]
  <2>3. f \in Surjection(DOMAIN d.txq, ats)
    BY DEF Surjection
  <2>4. QED
    <3> HIDE DEF f, ats
    <3>1. QED
      BY <2>2, <2>3, FS_Surjection
<1>2. IsFiniteSet(ats \cup busy)
  BY <1>1, FS_Union
<1>3. free \in SUBSET Nat /\ free # {}
  <2>1. Addrs \ (ats \cup busy) # {}
    <3> HIDE DEF ats
    <3>1. QED
      BY <1>2 DEF EnoughAddrs
  <2>2. free = Addrs \ (ats \cup busy)
    <3> HIDE DEF ats
    <3>1. QED
      OBVIOUS
  <2>3. QED
    <3> HIDE DEF ats, free
    <3>1. free # {}
      BY <2>1, <2>2
    <3>2. free \subseteq Nat
      BY <2>2 DEF EnoughAddrs
    <3>3. QED
      BY <3>1, <3>2
<1>4. Min(free) \in free
  <2> HIDE DEF free
  <2>1. QED
    BY <1>3, Smallest
<1>5. Alloc(d, busy) = Min(free)
  BY DEF Alloc
<1>6. QED
  BY <1>3, <1>4, <1>5 DEF FreeIn

LEMMA ToSetAppend ==
    ASSUME NEW V, NEW q \in Seq(V), NEW x \in V
    PROVE ToSet(Append(q, x)) = ToSet(q) \cup {x}
<1>1. /\ DOMAIN q = 1 .. Len(q) /\ Len(q) \in Nat /\ DOMAIN Append(q, x) = 1 .. Len(q) + 1
      /\ \A k \in 1 .. Len(q) : Append(q, x)[k] = q[k]
      /\ Append(q, x)[Len(q) + 1] = x
  OBVIOUS
<1> DEFINE n == Len(q)
           r == Append(q, x)
<1> HIDE DEF n, r
<1>2. /\ n \in Nat /\ DOMAIN q = 1 .. n /\ DOMAIN r = 1 .. n + 1
      /\ \A k \in 1 .. n : r[k] = q[k]
      /\ r[n + 1] = x
  BY <1>1 DEF n, r
<1>3. \A k \in 1 .. n + 1 : k \in 1 .. n \/ k = n + 1
  BY <1>2
<1>4. (\A k \in 1 .. n : k \in 1 .. n + 1) /\ n + 1 \in 1 .. n + 1
  BY <1>2
<1>5. ToSet(r) = ToSet(q) \cup {x}
  BY <1>2, <1>3, <1>4 DEF ToSet
<1>6. QED
  BY <1>5 DEF r

\* p asks for the names that interface i of d is to claim.
Probe(d, i, svcs, p) ==
    /\ p \in Packets /\ p.i = i /\ ~p.queued /\ ~p.resp
    /\ FreeIn(d.txq, p.at)
    /\ \A q \in ToSet(p.qs) : q.n \in {<<"host", d.host>>, Instance(d)}
    /\ svcs # {} => [t |-> "ANY", n |-> Instance(d)] \in ToSet(p.qs)

LEMMA ProbePacketOK ==
    ASSUME EnoughAddrs, NEW d \in Device, NEW i \in Ifaces, NEW svcs \in SUBSET {"http"}, NEW ip \in BOOLEAN
    PROVE Probe(d, i, svcs, ProbePacket(d, i, svcs, ip))
<1> DEFINE qi == [t |-> "ANY", n |-> Instance(d)]
           qh == [t |-> "ANY", n |-> <<"host", d.host>>]
           inst == IF svcs = {} THEN <<>> ELSE <<qi>>
           srv == IF svcs = {} THEN <<>> ELSE <<"SRV">>
           qs == IF ip THEN HostQuestions(d, inst) ELSE inst
           ns == IF ip THEN HostAnswers(srv) ELSE srv
           at == Alloc(d, {})
           p == ProbePacket(d, i, svcs, ip)
<1>1. d.host \in Nat /\ d.txq \in Seq(Packets)
  BY DEF Device
<1>2. qi \in Questions /\ qh \in Questions
  BY <1>1 DEF Questions, Names, Instance
<1>3. at \in Nat /\ FreeIn(d.txq, at)
  BY <1>1, FS_EmptySet, FreeAddress
<1> HIDE DEF at
<1>4. inst \in Seq(Questions) /\ ToSet(inst) = IF svcs = {} THEN {} ELSE {qi}
  <2> HIDE DEF qi
  <2>1. <<>> \in Seq(Questions) /\ <<qi>> \in Seq(Questions)
    BY <1>2
  <2>2. ToSet(<<>>) = {} /\ ToSet(<<qi>>) = {qi}
    BY DEF ToSet
  <2>3. QED
    BY <2>1, <2>2
<1>5. /\ qs \in Seq(Questions) /\ ToSet(qs) \subseteq {qi, qh}
      /\ ToSet(inst) \subseteq ToSet(qs)
  <2>1. CASE ~ip
    BY <1>4, <2>1
  <2>2. CASE ip
    <3>1. qs = IF qh \in ToSet(inst) THEN inst ELSE Append(inst, qh)
      BY <2>2 DEF HostQuestions, AddQuestion
    <3>2. CASE qh \in ToSet(inst)
      BY <1>4, <3>1, <3>2
    <3>3. CASE qh \notin ToSet(inst)
      <4>1. qs = Append(inst, qh)
        BY <3>1, <3>3
      <4> HIDE DEF qs, inst, qh, qi
      <4>2. qs \in Seq(Questions)
        BY <1>2, <1>4, <4>1
      <4>3. ToSet(qs) = ToSet(inst) \cup {qh}
        BY <1>2, <1>4, <4>1, ToSetAppend
      <4>4. QED
        BY <1>4, <4>2, <4>3
    <3>4. QED
      BY <3>2, <3>3
  <2>3. QED
    BY <2>1, <2>2
<1>6. ns \in Seq(Kinds)
  <2>1. srv \in Seq(Kinds)
    <3>1. "SRV" \in Kinds
      BY DEF Kinds
    <3>2. <<>> \in Seq(Kinds) /\ <<"SRV">> \in Seq(Kinds)
      BY <3>1
    <3>3. QED
      BY <3>2
  <2> HIDE DEF srv
  <2>2. AddAnswer(srv, "A") \in Seq(Kinds)
    BY <2>1 DEF AddAnswer, Kinds
  <2>3. QED
    BY <2>1, <2>2 DEF HostAnswers
<1>7. p = [Packet(at, i) EXCEPT !.qs = qs, !.ns = ns]
  BY DEF ProbePacket, at
<1> HIDE DEF p, qs, ns
<1>8. p = [at |-> at, i |-> i, left |-> 0, queued |-> FALSE, resp |-> FALSE, bye |-> FALSE,
           qs |-> qs, an |-> <<>>, ns |-> ns, ar |-> <<>>]
  BY <1>7 DEF Packet
<1>9. <<>> \in Seq(Kinds) /\ 0 \in 0 .. Second
  BY DEF Second
<1>10. /\ p \in Packets /\ p.i = i /\ ~p.queued /\ ~p.resp /\ p.at = at /\ p.qs = qs
  BY <1>3, <1>5, <1>6, <1>8, <1>9 DEF Packets
<1>11. \A q \in ToSet(qs) : q.n \in {<<"host", d.host>>, Instance(d)}
  BY <1>5
<1>12. svcs # {} => qi \in ToSet(qs)
  BY <1>4, <1>5
<1>13. QED
  BY <1>3, <1>10, <1>11, <1>12 DEF p, Probe

-----------------------------------------------------------------------------
(* Starting the probe machine.                                             *)

LEMMA ClearIfOK ==
    ASSUME NEW d, NEW acts, NEW sure, NEW is, HandledOK(d, acts, sure, is), NEW i \in Ifaces,
           NEW e, e = ClearTxQueueIf(d, i)
    PROVE  /\ HandledOK(e, acts, sure, is \cup {i}) /\ NoneOf(e.txq, i)
           /\ Beside(d, e) /\ SameName(d, e) /\ e.pcb = d.pcb /\ e.ready = d.ready
           /\ e = [d EXCEPT !.txq = e.txq]
<1> DEFINE f == OnInterfaces(d.txq, Ifaces \ {i})
<1>1. d \in Device /\ d.txq \in Seq(Packets) /\ QueueOK(d.txq)
  BY DEF HandledOK, BaseOK, Device
<1>2. Cleared(d.txq, f, i)
  BY <1>1, ClearedOK
<1> HIDE DEF f
<1>3. e = [d EXCEPT !.txq = f]
  BY DEF ClearTxQueueIf, f
<1>4. /\ e \in Device /\ e.txq = f /\ Beside(d, e) /\ SameName(d, e)
      /\ e.ready = d.ready /\ e.pcb = d.pcb
  BY <1>1, <1>2, <1>3, SetTxq DEF SameName, SameNet, OtherTxq, Cleared
<1>5. BaseOK(e, acts, sure)
  BY <1>2, <1>4 DEF HandledOK, BaseOK, SameName, Cleared
<1>6. NamelessIdle(e)
  BY <1>4 DEF HandledOK, NamelessIdle, SameName
<1>7. MachinesBut(e, is \cup {i})
  <2> SUFFICES ASSUME NEW j \in e.ready \ (is \cup {i}) PROVE MachineOK(e, j)
    BY DEF MachinesBut
  <2>1. j \in Ifaces \ {i} /\ j \in d.ready \ is
    BY <1>4 DEF Device
  <2>2. MachineOK(d, j)
    BY <2>1 DEF HandledOK, MachinesBut
  <2>3. QED
    BY <1>2, <1>4, <2>1, <2>2, MachineKept DEF SameName, Cleared
<1>8. QED
  BY <1>2, <1>3, <1>4, <1>5, <1>6, <1>7 DEF HandledOK, Cleared

Appended(d, e, p, delay) ==
    /\ Beside(d, e) /\ SameName(d, e) /\ e.pcb = d.pcb /\ e.ready = d.ready
    /\ \A j : j # p.i => SameOn(d.txq, e.txq, j)
    /\ \E k \in Of(e.txq, p.i) : /\ e.txq[k] = [p EXCEPT !.left = delay]
                                 /\ NoneOf(d.txq, p.i) => OnlyOf(e.txq, p.i, k)

\* Putting a packet that is not marked and whose address is free into the queue.
LEMMA QueuedOK ==
    ASSUME NEW d, NEW acts, NEW sure, BaseOK(d, acts, sure), NEW p \in Packets, ~p.queued,
           NEW delay \in 0 .. Second, FreeIn(d.txq, p.at),
           NEW e, e = SendAfter(d, p, delay)
    PROVE BaseOK(e, acts, sure) /\ Appended(d, e, p, delay)
<1>1. d \in Device /\ d.txq \in Seq(Packets) /\ QueueOK(d.txq)
  BY DEF BaseOK, Device
<1>2. Enqueued(d, e, p, delay)
  BY <1>1, SendAfterOK
<1>3. PICK r \in Seq(Packets) :
              /\ e = [d EXCEPT !.txq = r]
              /\ QueueOK(r)
              /\ \A a : MarkOK(d.txq, a) => MarkOK(r, a)
              /\ \A i : i # p.i => SameOn(d.txq, r, i)
              /\ \E k \in Of(r, p.i) : /\ r[k] = [p EXCEPT !.left = delay]
                                       /\ NoneOf(d.txq, p.i) => OnlyOf(r, p.i, k)
  BY <1>2 DEF Enqueued
<1>4. /\ e \in Device /\ e.txq = r /\ Beside(d, e) /\ SameName(d, e)
      /\ e.ready = d.ready /\ e.pcb = d.pcb
  BY <1>1, <1>3, SetTxq DEF SameName, SameNet, OtherTxq
<1>5. BaseOK(e, acts, sure)
  BY <1>3, <1>4 DEF BaseOK, SameName
<1>6. Appended(d, e, p, delay)
  BY <1>3, <1>4, Zenon DEF Appended
<1>7. QED
  BY <1>5, <1>6

LEMMA InitProbeOK ==
    ASSUME EnoughAddrs, NEW d, NEW acts, NEW sure, NEW is, HandledOK(d, acts, sure, is),
           d.host # 0, NEW i \in Ifaces, NoneOf(d.txq, i),
           NEW svcs \in SUBSET {"http"}, NEW ip \in BOOLEAN,
           NEW e, e = InitProbeNewService(d, i, svcs, ip)
    PROVE  /\ HandledOK(e, acts, sure, is \ {i}) /\ Beside(d, e) /\ SameName(d, e) /\ e.ready = d.ready
<1> DEFINE pcb == d.pcb[i]
           all == svcs \cup (IF Probing(pcb) THEN pcb.svcs ELSE {})
           withIp == ip \/ pcb.ip
           new == [state |-> PROBE_1, svcs |-> all, ip |-> withIp, running |-> TRUE]
           c == [d EXCEPT !.pcb[i] = new]
           p == ProbePacket(d, i, all, withIp)
<1>1. d \in Device /\ pcb \in Pcbs
  BY DEF HandledOK, BaseOK, Device
<1>2. all \in SUBSET {"http"} /\ withIp \in BOOLEAN
  BY <1>1 DEF Pcbs
<1> HIDE DEF all, withIp
<1>3. new \in Pcbs /\ new.state = PROBE_1 /\ new.svcs = all
  BY <1>2 DEF Pcbs, PROBE_1, RUNNING
<1> HIDE DEF new
<1>4. /\ c \in Device /\ c.txq = d.txq /\ Beside(d, c) /\ SameName(d, c) /\ c.ready = d.ready
      /\ c.pcb[i] = new /\ \A j \in Ifaces : j # i => c.pcb[j] = d.pcb[j]
  BY <1>1, <1>3, SetPcb DEF SameName, SameNet, OtherPcb
<1>5. /\ p \in Packets /\ p.i = i /\ ~p.queued /\ ~p.resp
      /\ FreeIn(d.txq, p.at)
      /\ \A q \in ToSet(p.qs) : q.n \in {<<"host", d.host>>, Instance(d)}
      /\ all # {} => [t |-> "ANY", n |-> Instance(d)] \in ToSet(p.qs)
  <2>1. Probe(d, i, all, p)
    BY <1>1, <1>2, ProbePacketOK
  <2> HIDE DEF p
  <2>2. QED
    BY <2>1 DEF Probe
<1>6. e = SendAfter(c, p, Quarter)
  BY DEF InitProbeNewService, new, all, withIp
<1> HIDE DEF c, p
<1>7. BaseOK(c, acts, sure)
  BY <1>4 DEF HandledOK, BaseOK, SameName
<1>8. Quarter \in 0 .. Second
  BY DEF Quarter, Second
<1>9. BaseOK(e, acts, sure) /\ Appended(c, e, p, Quarter)
  BY <1>4, <1>5, <1>6, <1>7, <1>8, QueuedOK
<1>10. Beside(d, e) /\ SameName(d, e) /\ e.ready = d.ready
  BY <1>4, <1>9 DEF Beside, SameName, Appended
<1>11. NamelessIdle(e)
  BY <1>10 DEF NamelessIdle, SameName
<1>12. MachineOK(e, i)
  <2>1. PICK k \in Of(e.txq, i) : e.txq[k] = [p EXCEPT !.left = Quarter] /\ OnlyOf(e.txq, i, k)
    BY <1>4, <1>5, <1>9 DEF Appended
  <2>2. e.txq[k].qs = p.qs /\ e.txq[k].resp = p.resp
    BY <1>5, <2>1 DEF Packets
  <2>3. e.pcb[i] = new
    BY <1>4, <1>9 DEF Appended
  <2>4. Instance(e) = Instance(d) /\ e.host = d.host
    BY <1>10 DEF Instance, SameName
  <2>5. IsProbe(e, i, e.txq[k])
    BY <1>3, <1>5, <2>2, <2>3, <2>4 DEF IsProbe
  <2>6. PacketsOf(e, i) = {k}
    BY <2>1 DEF PacketsOf, OnlyOf, Of
  <2>7. Probing(e.pcb[i]) /\ e.pcb[i].state \notin ANNOUNCE_1 .. ANNOUNCE_3
    BY <1>3, <2>3 DEF Probing, PROBE_1, PROBE_3, ANNOUNCE_1, ANNOUNCE_3
  <2>8. QED
    BY <2>5, <2>6, <2>7 DEF MachineOK
<1>13. MachinesBut(e, is \ {i})
  <2> SUFFICES ASSUME NEW j \in e.ready \ (is \ {i}), j # i PROVE MachineOK(e, j)
    BY <1>12 DEF MachinesBut
  <2>1. j \in Ifaces /\ j \in d.ready \ is
    BY <1>1, <1>10 DEF Device
  <2>2. MachineOK(d, j)
    BY <2>1 DEF HandledOK, MachinesBut
  <2>3. SameOn(d.txq, e.txq, j) /\ e.pcb[j] = d.pcb[j]
    BY <1>4, <1>5, <1>9, <2>1 DEF Appended
  <2>4. QED
    BY <1>10, <2>2, <2>3, MachineKept DEF SameName
<1>14. QED
  BY <1>9, <1>10, <1>11, <1>13 DEF HandledOK

LEMMA InitPcbProbeOK ==
    ASSUME EnoughAddrs, NEW d, NEW acts, NEW sure, NEW is, HandledOK(d, acts, sure, is),
           NEW i \in Ifaces, NEW svcs \in SUBSET {"http"}, NEW ip \in BOOLEAN,
           NEW e, e = InitPcbProbe(d, i, svcs, ip)
    PROVE  HandledOK(e, acts, sure, is \ {i}) /\ Beside(d, e) /\ SameName(d, e) /\ e.ready = d.ready
<1> DEFINE c == ClearTxQueueIf(d, i)
           pcb == d.pcb[i]
<1>1. /\ HandledOK(c, acts, sure, is \cup {i}) /\ NoneOf(c.txq, i)
      /\ Beside(d, c) /\ SameName(d, c) /\ c.pcb = d.pcb /\ c.ready = d.ready
  BY ClearIfOK
<1>2. d \in Device /\ pcb \in Pcbs
  BY DEF HandledOK, BaseOK, Device
<1> HIDE DEF c
<1>3. CASE d.host = 0
  <2>1. e = [c EXCEPT !.pcb[i].state = RUNNING]
    BY <1>3 DEF InitPcbProbe, c
  <2> DEFINE new == [pcb EXCEPT !.state = RUNNING]
  <2>2. new \in Pcbs /\ new.state = RUNNING /\ new.running = pcb.running
    BY <1>2 DEF Pcbs, RUNNING, PROBE_1
  <2>3. e = [c EXCEPT !.pcb[i] = new]
    BY <1>1, <2>1
  <2> HIDE DEF new
  <2>4. c \in Device
    BY <1>1 DEF HandledOK, BaseOK
  <2>5. /\ e \in Device /\ e.txq = c.txq /\ Beside(c, e) /\ SameName(c, e) /\ e.ready = c.ready
        /\ e.pcb[i] = new /\ \A j \in Ifaces : j # i => e.pcb[j] = c.pcb[j]
    <3>1. OtherPcb(c, e, i, new)
      BY <2>2, <2>3, <2>4, SetPcb
    <3>2. QED
      BY <3>1 DEF SameNet, OtherPcb
  <2>6. BaseOK(e, acts, sure)
    BY <1>1, <2>5 DEF HandledOK, BaseOK, SameName
  <2>7. Beside(d, e) /\ SameName(d, e) /\ e.ready = d.ready
    BY <1>1, <2>5 DEF Beside, SameName
  <2>8. ~new.running /\ ~Probing(new) /\ new.state \notin ANNOUNCE_1 .. ANNOUNCE_3
    BY <1>3, <2>2 DEF HandledOK, NamelessIdle, Probing, RUNNING, PROBE_1, PROBE_3, ANNOUNCE_1, ANNOUNCE_3
  <2>9. NamelessIdle(e)
    BY <1>1, <1>3, <2>5, <2>7, <2>8 DEF HandledOK, NamelessIdle, SameName
  <2>10. MachineOK(e, i)
    BY <2>5, <2>8 DEF MachineOK
  <2>11. MachinesBut(e, is \ {i})
    <3> SUFFICES ASSUME NEW j \in e.ready \ (is \ {i}), j # i PROVE MachineOK(e, j)
      BY <2>10 DEF MachinesBut
    <3>1. j \in Ifaces /\ j \in c.ready \ (is \cup {i})
      BY <2>4, <2>5 DEF Device
    <3>2. MachineOK(c, j)
      BY <1>1, <3>1 DEF HandledOK, MachinesBut
    <3>3. SameOn(c.txq, e.txq, j) /\ e.pcb[j] = c.pcb[j]
      BY <2>5, <3>1, SameOnItself
    <3>4. QED
      BY <2>5, <3>2, <3>3, MachineKept DEF SameName
  <2>12. QED
    BY <2>6, <2>7, <2>9, <2>11 DEF HandledOK
<1>4. CASE d.host # 0
  <2>1. ASSUME NEW s \in SUBSET {"http"}, e = InitProbeNewService(c, i, s, ip)
        PROVE  HandledOK(e, acts, sure, is \ {i}) /\ Beside(d, e) /\ SameName(d, e) /\ e.ready = d.ready
    <3>1. c.host # 0
      BY <1>1, <1>4 DEF SameName
    <3>2. /\ HandledOK(e, acts, sure, (is \cup {i}) \ {i})
          /\ Beside(c, e) /\ SameName(c, e) /\ e.ready = c.ready
      BY <1>1, <2>1, <3>1, InitProbeOK
    <3>3. (is \cup {i}) \ {i} = is \ {i}
      OBVIOUS
    <3>4. HandledOK(e, acts, sure, is \ {i})
      BY <3>2, <3>3
    <3>5. QED
      BY <1>1, <3>2, <3>4 DEF Beside, SameName
  <2>2. CASE Probing(pcb)
    <3>1. e = InitProbeNewService(c, i, svcs \ pcb.svcs, ip)
      BY <1>4, <2>2 DEF InitPcbProbe, c
    <3>2. QED
      BY <2>1, <3>1
  <2>3. CASE ~Probing(pcb)
    <3>1. e = InitProbeNewService(c, i, svcs, ip)
      BY <1>4, <2>3 DEF InitPcbProbe, c
    <3>2. QED
      BY <2>1, <3>1
  <2>4. QED
    BY <2>2, <2>3
<1>5. QED
  BY <1>3, <1>4

LEMMA ProbePcbOK ==
    ASSUME EnoughAddrs, NEW d, NEW acts, NEW sure, NEW is, HandledOK(d, acts, sure, is),
           NEW i \in Ifaces, NEW svcs \in SUBSET {"http"}, NEW ip \in BOOLEAN, NEW clearOld \in BOOLEAN,
           clearOld => d.host # 0,
           NEW e, e = ProbePcb(d, i, svcs, ip, clearOld)
    PROVE  HandledOK(e, acts, sure, is \ {i}) /\ Beside(d, e) /\ SameName(d, e) /\ e.ready = d.ready
<1>1. d \in Device /\ d.pcb[i] \in Pcbs
  BY DEF HandledOK, BaseOK, Device
<1>2. CASE i \notin d.ready
  <2>1. e = d
    BY <1>2 DEF ProbePcb, IfReady
  <2>2. MachinesBut(d, is \ {i})
    BY <1>2 DEF HandledOK, MachinesBut
  <2>3. QED
    BY <2>1, <2>2 DEF HandledOK, Beside, SameName
<1>3. CASE i \in d.ready /\ ~clearOld
  <2>1. e = InitPcbProbe(d, i, svcs, ip)
    BY <1>3 DEF ProbePcb, IfReady
  <2>2. QED
    BY <2>1, InitPcbProbeOK
<1>4. CASE i \in d.ready /\ clearOld
  <2> DEFINE new == [d.pcb[i] EXCEPT !.svcs = {}, !.running = FALSE]
             c == [d EXCEPT !.pcb[i] = new]
  <2>1. c = [d EXCEPT !.pcb[i].svcs = {}, !.pcb[i].running = FALSE]
    BY <1>1 DEF Device
  <2>2. e = InitPcbProbe(c, i, svcs, ip)
    BY <1>4, <2>1 DEF ProbePcb, IfReady
  <2>3. new \in Pcbs
    BY <1>1 DEF Pcbs
  <2> HIDE DEF new
  <2>4. OtherPcb(d, c, i, new)
    BY <1>1, <2>3, SetPcb
  <2> HIDE DEF c
  <2>5. BaseOK(c, acts, sure) /\ Beside(d, c) /\ SameName(d, c) /\ c.ready = d.ready
    BY <2>4 DEF HandledOK, BaseOK, OtherPcb, SameName, SameNet
  <2>6. NamelessIdle(c)
    BY <1>4, <2>5 DEF NamelessIdle, SameName
  <2>7. MachinesBut(c, is \cup {i})
    <3> SUFFICES ASSUME NEW j \in c.ready \ (is \cup {i}) PROVE MachineOK(c, j)
      BY DEF MachinesBut
    <3>1. j \in Ifaces /\ j \in d.ready \ is /\ j # i
      BY <1>1, <2>5 DEF Device
    <3>2. MachineOK(d, j)
      BY <3>1 DEF HandledOK, MachinesBut
    <3>3. SameOn(d.txq, c.txq, j) /\ c.pcb[j] = d.pcb[j]
      BY <2>4, <3>1, SameOnItself DEF OtherPcb
    <3>4. QED
      BY <2>5, <3>2, <3>3, MachineKept DEF SameName
  <2>8. HandledOK(c, acts, sure, is \cup {i})
    BY <2>5, <2>6, <2>7 DEF HandledOK
  <2>9. HandledOK(e, acts, sure, (is \cup {i}) \ {i}) /\ Beside(c, e) /\ SameName(c, e) /\ e.ready = c.ready
    BY <2>2, <2>8, InitPcbProbeOK
  <2>10. (is \cup {i}) \ {i} = is \ {i}
    OBVIOUS
  <2>11. HandledOK(e, acts, sure, is \ {i})
    BY <2>9, <2>10
  <2>12. QED
    BY <2>5, <2>9, <2>11 DEF Beside, SameName
<1>5. QED
  BY <1>2, <1>3, <1>4

LEMMA ProbeAllOK ==
    ASSUME EnoughAddrs, NEW d, NEW acts, NEW sure, NEW is, HandledOK(d, acts, sure, is),
           NEW svcs \in SUBSET {"http"}, NEW ip \in BOOLEAN, NEW clearOld \in BOOLEAN,
           clearOld => d.host # 0,
           NEW e, e = ProbeAllPcbs(d, svcs, ip, clearOld)
    PROVE  HandledOK(e, acts, sure, {}) /\ Beside(d, e) /\ SameName(d, e)
<1> DEFINE c == ProbePcb(d, "sta", svcs, ip, clearOld)
<1>1. "sta" \in Ifaces /\ "ap" \in Ifaces
  BY DEF Ifaces
<1>2. HandledOK(c, acts, sure, is \ {"sta"}) /\ Beside(d, c) /\ SameName(d, c)
  BY <1>1, ProbePcbOK
<1>3. e = ProbePcb(c, "ap", svcs, ip, clearOld)
  BY DEF ProbeAllPcbs
<1> HIDE DEF c
<1>4. clearOld => c.host # 0
  BY <1>2 DEF SameName
<1>5. HandledOK(e, acts, sure, (is \ {"sta"}) \ {"ap"}) /\ Beside(c, e) /\ SameName(c, e)
  BY <1>1, <1>2, <1>3, <1>4, ProbePcbOK
<1>6. MachinesBut(e, {})
  <2>1. e.ready \subseteq {"sta", "ap"}
    BY <1>5 DEF HandledOK, BaseOK, Device, Ifaces
  <2>2. QED
    BY <1>5, <2>1 DEF HandledOK, MachinesBut
<1>7. QED
  BY <1>2, <1>5, <1>6 DEF HandledOK, Beside, SameName

LEMMA RestartAllOK ==
    ASSUME EnoughAddrs, NEW d, NEW acts, NEW sure, BaseOK(d, acts, sure), d.host # 0,
           NEW e, e = RestartAllPcbs(d)
    PROVE  HandledOK(e, acts, sure, {}) /\ Beside(d, e) /\ SameName(d, e)
<1> DEFINE c == ClearTxQueue(d)
<1>1. c = [d EXCEPT !.txq = <<>>] /\ d \in Device /\ <<>> \in Seq(Packets)
  BY DEF ClearTxQueue, BaseOK
<1>2. OtherTxq(d, c, <<>>)
  BY <1>1, SetTxq
<1>3. e = ProbeAllPcbs(c, Services(d), TRUE, TRUE)
  BY DEF RestartAllPcbs
<1> HIDE DEF c
<1>4. Marked(<<>>) = {}
  BY DEF Marked
<1>5. MarkOK(<<>>, acts)
  <2>1. [k \in {} |-> k] \in [{} -> DOMAIN acts]
    OBVIOUS
  <2>2. QED
    BY <1>4, <2>1 DEF MarkOK
<1>6. QueueOK(<<>>)
  BY DEF QueueOK
<1>7. BaseOK(c, acts, sure)
  BY <1>2, <1>5, <1>6 DEF BaseOK, OtherTxq, SameName
<1>8. c.host # 0 /\ NamelessIdle(c)
  BY <1>2 DEF OtherTxq, SameName, NamelessIdle
<1>9. MachinesBut(c, Ifaces)
  BY <1>2 DEF MachinesBut, OtherTxq, Device
<1>10. HandledOK(c, acts, sure, Ifaces)
  BY <1>7, <1>8, <1>9 DEF HandledOK
<1>11. Services(d) \in SUBSET {"http"}
  BY DEF Services
<1>12. HandledOK(e, acts, sure, {}) /\ Beside(c, e) /\ SameName(c, e)
  BY <1>3, <1>8, <1>10, <1>11, ProbeAllOK
<1>13. QED
  BY <1>2, <1>12 DEF OtherTxq, Beside, SameName

-----------------------------------------------------------------------------
(* Sending, and a new name.                                                *)

\* Only what went out, and what is noted of it, is another one.
OtherNet(d, e) ==
    /\ e \in Device /\ e.txq = d.txq /\ e.pcb = d.pcb /\ e.ready = d.ready
    /\ Beside(d, e) /\ SameName(d, e)

LEMMA OtherNetOK ==
    ASSUME NEW d, NEW acts, NEW sure, NEW is, HandledOK(d, acts, sure, is), NEW e, OtherNet(d, e)
    PROVE HandledOK(e, acts, sure, is)
<1>1. BaseOK(e, acts, sure) /\ NamelessIdle(e)
  BY DEF HandledOK, BaseOK, NamelessIdle, OtherNet, SameName
<1>2. MachinesBut(e, is)
  <2> SUFFICES ASSUME NEW j \in e.ready \ is PROVE MachineOK(e, j)
    BY DEF MachinesBut
  <2>1. MachineOK(d, j) /\ SameOn(d.txq, e.txq, j)
    BY SameOnItself DEF HandledOK, MachinesBut, OtherNet
  <2>2. QED
    BY <2>1, MachineKept DEF OtherNet, SameName
<1>3. QED
  BY <1>1, <1>2 DEF HandledOK

LEMMA ResolveAllType ==
    ASSUME NEW d \in Device, NEW p \in Packets, NEW ts \in Seq(Kinds)
    PROVE ResolveAll(d, p, ts) \in Seq(Records)
<1>1. d.ip \in Nat /\ d.host \in Nat /\ p.bye \in BOOLEAN
  BY DEF Device, Packets
<1>2. ASSUME NEW t \in Kinds PROVE Resolve(d, p, t) \in Records
  <2>1. CASE t = "PTR"
    BY <1>1, <2>1 DEF Resolve, Records, Names, Kinds
  <2>2. CASE t = "SRV"
    BY <1>1, <2>2 DEF Resolve, Records, Names, Kinds, Instance
  <2>3. CASE t = "TXT"
    BY <1>1, <2>3 DEF Resolve, Records, Names, Kinds, Instance
  <2>4. CASE t = "SDPTR"
    BY <1>1, <2>4 DEF Resolve, Records, Names, Kinds
  <2>5. CASE t = "A"
    BY <1>1, <2>5 DEF Resolve, Records, Names, Kinds
  <2>6. QED
    BY <2>1, <2>2, <2>3, <2>4, <2>5 DEF Kinds
<1>3. DOMAIN ts = 1 .. Len(ts) /\ Len(ts) \in Nat /\ \A k \in DOMAIN ts : ts[k] \in Kinds
  OBVIOUS
<1>4. [k \in 1 .. Len(ts) |-> Resolve(d, p, ts[k])] \in Seq(Records)
  BY <1>2, <1>3
<1>5. QED
  BY <1>3, <1>4 DEF ResolveAll

LEMMA CountProbeType ==
    ASSUME NEW d \in Device, NEW p \in Packets
    PROVE CountProbe(d, p) \in Counts
<1> DEFINE asked(n) == \E k \in DOMAIN p.qs : p.qs[k] = [t |-> "ANY", n |-> n]
           old == d.probed[p.i]
           base == IF old.n = d.host THEN old ELSE [n |-> d.host, host |-> 0, svc |-> 0]
           more(c, n) == IF asked(n) /\ ~p.resp /\ c < 3 THEN c + 1 ELSE c
<1>1. d.host \in Nat /\ old \in Counts
  BY DEF Device, Packets
<1> HIDE DEF old, asked
<1>2. base \in Counts
  BY <1>1 DEF Counts
<1> HIDE DEF base
<1>3. ASSUME NEW c \in 0 .. 3, NEW n PROVE more(c, n) \in 0 .. 3
  BY <1>3
<1>4. CountProbe(d, p) = [base EXCEPT !.host = more(base.host, <<"host", d.host>>),
                                      !.svc = more(base.svc, Instance(d))]
  BY DEF CountProbe, base, old, asked
<1> HIDE DEF more
<1>5. base.n \in Nat /\ base.host \in 0 .. 3 /\ base.svc \in 0 .. 3
  BY <1>2 DEF Counts
<1>6. /\ more(base.host, <<"host", d.host>>) \in 0 .. 3
      /\ more(base.svc, Instance(d)) \in 0 .. 3
  BY <1>3, <1>5
<1>7. QED
  BY <1>2, <1>4, <1>6 DEF Counts

LEMMA DispatchOK ==
    ASSUME NEW d \in Device, NEW p \in Packets
    PROVE OtherNet(d, Dispatch(d, p))
<1> DEFINE m == Message(d, p)
           c == CountProbe(d, p)
           i == p.i
<1>1. CASE ~CanSend(d, p.i)
  BY <1>1 DEF Dispatch, OtherNet, Beside, SameName
<1>2. CASE CanSend(d, p.i)
  <2>1. /\ d.ip \in Nat /\ d.out \in Seq(Messages) /\ d.probed \in [Ifaces -> Counts]
    BY DEF Device
  <2>2. /\ p.i \in Ifaces /\ p.resp \in BOOLEAN /\ p.qs \in Seq(Questions)
        /\ p.an \in Seq(Kinds) /\ p.ns \in Seq(Kinds) /\ p.ar \in Seq(Kinds)
    BY DEF Packets
  <2>3. m \in Messages
    <3> DEFINE a1 == ResolveAll(d, p, p.an)
               a2 == ResolveAll(d, p, p.ns)
               a3 == ResolveAll(d, p, p.ar)
    <3>1. a1 \in Seq(Records) /\ a2 \in Seq(Records) /\ a3 \in Seq(Records)
      BY <2>2, ResolveAllType
    <3>2. m = [src |-> d.ip, i |-> p.i, resp |-> p.resp, legacy |-> FALSE, qs |-> p.qs,
               an |-> a1, ns |-> a2, ar |-> a3]
      BY DEF Message
    <3> HIDE DEF a1, a2, a3, m
    <3>3. QED
      BY <2>1, <2>2, <3>1, <3>2 DEF Messages
  <2>4. c \in Counts
    BY CountProbeType
  <2>5. Dispatch(d, p) = [d EXCEPT !.out = Append(d.out, m), !.probed = [d.probed EXCEPT ![i] = c]]
    BY <1>2, <2>1 DEF Dispatch
  <2> HIDE DEF m, c
  <2> DEFINE o == Append(d.out, m)
             b == [d.probed EXCEPT ![i] = c]
  <2>6. o \in Seq(Messages) /\ b \in [Ifaces -> Counts]
    BY <2>1, <2>2, <2>3, <2>4
  <2> HIDE DEF o, b
  <2>7. Dispatch(d, p) = [d EXCEPT !.out = o, !.probed = b]
    BY <2>5 DEF o, b
  <2>8. QED
    BY <2>6, <2>7 DEF OtherNet, Device, Beside, SameName
<1>3. QED
  BY <1>1, <1>2

LEMMA SendByeOK ==
    ASSUME NEW d \in Device, NEW i \in Ifaces, NEW svcs, NEW ip \in BOOLEAN
    PROVE OtherNet(d, SendBye(d, i, svcs, ip))
<1> DEFINE ptr == IF svcs = {} THEN <<>> ELSE <<"PTR">>
           an == IF ip THEN HostAnswers(ptr) ELSE ptr
           p == [Packet(0, i) EXCEPT !.resp = TRUE, !.bye = TRUE, !.an = an]
<1>1. ptr \in Seq(Kinds) /\ <<>> \in Seq(Kinds) /\ <<>> \in Seq(Questions)
  <2>1. "PTR" \in Kinds
    BY DEF Kinds
  <2>2. <<>> \in Seq(Kinds) /\ <<"PTR">> \in Seq(Kinds)
    BY <2>1
  <2>3. QED
    BY <2>2
<1> HIDE DEF ptr
<1>2. an \in Seq(Kinds)
  <2>1. AddAnswer(ptr, "A") \in Seq(Kinds)
    BY <1>1 DEF AddAnswer, Kinds
  <2>2. QED
    BY <1>1, <2>1 DEF HostAnswers
<1>3. SendBye(d, i, svcs, ip) = Dispatch(d, p)
  BY DEF SendBye, ptr
<1> DEFINE k == Packet(0, i)
<1>4. p = [k EXCEPT !.resp = TRUE, !.bye = TRUE, !.an = an]
  OBVIOUS
<1>5. k = [at |-> 0, i |-> i, left |-> 0, queued |-> FALSE, resp |-> FALSE, bye |-> FALSE,
           qs |-> <<>>, an |-> <<>>, ns |-> <<>>, ar |-> <<>>]
  BY DEF Packet
<1> HIDE DEF an, p, k
<1>6. p = [at |-> 0, i |-> i, left |-> 0, queued |-> FALSE, resp |-> TRUE, bye |-> TRUE,
           qs |-> <<>>, an |-> an, ns |-> <<>>, ar |-> <<>>]
  BY <1>4, <1>5
<1>7. p \in Packets
  BY <1>1, <1>2, <1>6 DEF Packets, Second
<1>8. QED
  BY <1>3, <1>7, DispatchOK

LEMMA SendByeAllOK ==
    ASSUME NEW d \in Device, NEW ip \in BOOLEAN
    PROVE OtherNet(d, SendByeAllPcbs(d, ip))
<1> DEFINE one(e, i) == IF IfReady(e, i) /\ e.pcb[i].state = RUNNING
                        THEN SendBye(e, i, Services(e), ip) ELSE e
<1>1. ASSUME NEW e \in Device, NEW i \in Ifaces PROVE OtherNet(e, one(e, i))
  <2>1. OtherNet(e, e)
    BY DEF OtherNet, Beside, SameName
  <2>2. OtherNet(e, SendBye(e, i, Services(e), ip))
    BY SendByeOK
  <2>3. QED
    BY <2>1, <2>2
<1>2. "sta" \in Ifaces /\ "ap" \in Ifaces
  BY DEF Ifaces
<1>3. SendByeAllPcbs(d, ip) = IF d.host = 0 \/ d.svc = 0 THEN d ELSE one(one(d, "sta"), "ap")
  BY DEF SendByeAllPcbs
<1> HIDE DEF one
<1>4. OtherNet(d, one(d, "sta"))
  BY <1>1, <1>2
<1>5. one(d, "sta") \in Device
  BY <1>4 DEF OtherNet
<1>6. OtherNet(one(d, "sta"), one(one(d, "sta"), "ap"))
  BY <1>1, <1>2, <1>5
<1>7. OtherNet(d, one(one(d, "sta"), "ap"))
  BY <1>4, <1>6 DEF OtherNet, Beside, SameName
<1>8. OtherNet(d, d)
  BY DEF OtherNet, Beside, SameName
<1>9. QED
  BY <1>3, <1>7, <1>8

LEMMA RenameOK ==
    ASSUME NEW d, NEW acts, NEW sure, BaseOK(d, acts, sure), NEW h \in Nat \ {0},
           NEW e, e = Rename(d, h)
    PROVE BaseOK(e, acts, sure) /\ e.host = h /\ Beside(d, e)
<1> DEFINE v == IF d.svc = d.host /\ d.svc # 0 THEN h ELSE d.svc
<1>1. d \in Device /\ d.svc \in {0, d.host}
  BY DEF BaseOK
<1>2. v \in {0, h}
  BY <1>1
<1>3. e = [[d EXCEPT !.svc = v] EXCEPT !.host = h]
  BY DEF Rename, RemapSelfService
<1> HIDE DEF v
<1>4. /\ e \in Device /\ e.svc = v /\ e.host = h /\ e.txq = d.txq /\ Beside(d, e)
  <2> DEFINE c == [d EXCEPT !.svc = v]
  <2>1. v \in Nat
    BY <1>2
  <2>2. /\ c \in Device /\ c.svc = v /\ c.txq = d.txq /\ Beside(d, c)
    BY <1>1, <2>1 DEF Device, Beside
  <2>3. e = [c EXCEPT !.host = h]
    BY <1>3
  <2> HIDE DEF c
  <2>4. /\ e \in Device /\ e.svc = c.svc /\ e.host = h /\ e.txq = c.txq /\ Beside(c, e)
    BY <2>2, <2>3 DEF Device, Beside
  <2>5. QED
    BY <2>2, <2>4 DEF Beside
<1>5. QED
  BY <1>2, <1>4 DEF BaseOK

LEMMA TakeNextNameOK ==
    ASSUME EnoughAddrs, NEW d, NEW acts, NEW sure, NEW is, HandledOK(d, acts, sure, is),
           NEW e, e = TakeNextName(d)
    PROVE HandledOK(e, acts, sure, {}) /\ Beside(d, e)
<1> DEFINE h == Mangle(d.host)
           c == Rename(d, h)
<1>1. BaseOK(d, acts, sure) /\ d.host \in Nat
  BY DEF HandledOK, BaseOK, Device
<1>2. h \in Nat \ {0}
  BY <1>1 DEF Mangle
<1>3. e = RestartAllPcbs(c)
  BY DEF TakeNextName
<1> HIDE DEF h
<1>4. BaseOK(c, acts, sure) /\ c.host = h /\ Beside(d, c)
  BY <1>1, <1>2, RenameOK
<1> HIDE DEF c
<1>5. HandledOK(e, acts, sure, {}) /\ Beside(c, e)
  BY <1>2, <1>3, <1>4, RestartAllOK
<1>6. QED
  BY <1>4, <1>5 DEF Beside

LEMMA HostnameSetOK ==
    ASSUME EnoughAddrs, NEW d, NEW acts, NEW sure, NEW is, HandledOK(d, acts, sure, is),
           NEW h \in Nat \ {0}, NEW e, e = HostnameSet(d, h)
    PROVE HandledOK(e, acts, sure, {}) /\ Beside(d, e)
<1> DEFINE b == SendByeAllPcbs(d, TRUE)
           c == Rename(b, h)
<1>1. d \in Device
  BY DEF HandledOK, BaseOK
<1>2. OtherNet(d, b)
  BY <1>1, SendByeAllOK
<1>3. e = RestartAllPcbs(c)
  BY DEF HostnameSet
<1> HIDE DEF b
<1>4. HandledOK(b, acts, sure, is) /\ Beside(d, b)
  BY <1>2, OtherNetOK DEF OtherNet
<1>5. BaseOK(b, acts, sure)
  BY <1>4 DEF HandledOK
<1>6. BaseOK(c, acts, sure) /\ c.host = h /\ Beside(b, c)
  BY <1>5, RenameOK
<1> HIDE DEF c
<1>7. HandledOK(e, acts, sure, {}) /\ Beside(c, e)
  BY <1>3, <1>6, RestartAllOK
<1>8. QED
  BY <1>4, <1>6, <1>7 DEF Beside

LEMMA ServiceAddOK ==
    ASSUME EnoughAddrs, NEW d, NEW acts, NEW sure, NEW is, HandledOK(d, acts, sure, is),
           d.host # 0, NEW e, e = ServiceAdd(d)
    PROVE HandledOK(e, acts, sure, {}) /\ Beside(d, e)
<1> DEFINE c == CreateService(d)
<1>1. d \in Device /\ d.host \in Nat
  BY DEF HandledOK, BaseOK, Device
<1>2. c = [d EXCEPT !.svc = d.host]
  BY DEF CreateService
<1>3. e = ProbeAllPcbs(c, {"http"}, FALSE, FALSE)
  BY DEF ServiceAdd
<1> HIDE DEF c
<1>4. /\ c \in Device /\ c.txq = d.txq /\ c.pcb = d.pcb /\ c.ready = d.ready /\ Beside(d, c)
      /\ c.host = d.host /\ c.svc = d.host
  BY <1>1, <1>2 DEF Device, Beside
<1>5. BaseOK(c, acts, sure) /\ NamelessIdle(c)
  BY <1>4 DEF HandledOK, BaseOK, NamelessIdle
<1>6. MachinesBut(c, is)
  <2> SUFFICES ASSUME NEW j \in c.ready \ is PROVE MachineOK(c, j)
    BY DEF MachinesBut
  <2>1. MachineOK(d, j) /\ SameOn(d.txq, c.txq, j)
    BY <1>4, SameOnItself DEF HandledOK, MachinesBut
  <2>2. QED
    BY <1>4, <2>1, MachineKept
<1>7. HandledOK(c, acts, sure, is)
  BY <1>5, <1>6 DEF HandledOK
<1>8. HandledOK(e, acts, sure, {}) /\ Beside(c, e)
  BY <1>3, <1>7, ProbeAllOK
<1>9. QED
  BY <1>4, <1>8 DEF Beside

-----------------------------------------------------------------------------
(* The interfaces and the packets that are due.                            *)

LEMMA PcbEnableOK ==
    ASSUME EnoughAddrs, NEW d, NEW acts, NEW sure, HandledOK(d, acts, sure, {}),
           NEW i \in Ifaces, NEW e, e = PcbEnable(d, i)
    PROVE HandledOK(e, acts, sure, {}) /\ Beside(d, e)
<1> DEFINE c == IfInit(d, i)
<1>1. d \in Device
  BY DEF HandledOK, BaseOK
<1>2. e = IF IfReady(c, i) THEN RestartPcb(c, i) ELSE d
  BY DEF PcbEnable
<1>3. CASE ~IfReady(c, i)
  BY <1>2, <1>3 DEF Beside
<1>4. CASE IfReady(c, i)
  <2> DEFINE ready == d.ready \cup {i}
  <2>1. c = d \/ c = [d EXCEPT !.ready = ready]
    BY DEF IfInit
  <2>2. ready \in SUBSET Ifaces
    BY <1>1 DEF Device
  <2>3. /\ c \in Device /\ c.txq = d.txq /\ c.pcb = d.pcb /\ Beside(d, c) /\ SameName(d, c)
        /\ c.ready \subseteq ready
    <3> HIDE DEF c
    <3>1. CASE c = d
      BY <1>1, <3>1 DEF Beside, SameName
    <3>2. CASE c = [d EXCEPT !.ready = ready]
      <4> HIDE DEF ready
      <4>1. QED
        BY <1>1, <2>2, <3>2 DEF Device, Beside, SameName
    <3>3. QED
      BY <2>1, <3>1, <3>2
  <2> HIDE DEF c
  <2>4. BaseOK(c, acts, sure) /\ NamelessIdle(c)
    BY <2>3 DEF HandledOK, BaseOK, NamelessIdle, SameName
  <2>5. MachinesBut(c, {i})
    <3> SUFFICES ASSUME NEW j \in c.ready \ {i} PROVE MachineOK(c, j)
      BY DEF MachinesBut
    <3>1. MachineOK(d, j) /\ SameOn(d.txq, c.txq, j)
      BY <2>3, SameOnItself DEF HandledOK, MachinesBut
    <3>2. QED
      BY <2>3, <3>1, MachineKept DEF SameName
  <2>6. HandledOK(c, acts, sure, {i})
    BY <2>4, <2>5 DEF HandledOK
  <2>7. Services(c) \in SUBSET {"http"} /\ e = InitPcbProbe(c, i, Services(c), TRUE)
    BY <1>2, <1>4 DEF Services, RestartPcb
  <2>8. HandledOK(e, acts, sure, {i} \ {i}) /\ Beside(c, e)
    BY <2>6, <2>7, InitPcbProbeOK
  <2>9. {i} \ {i} = {}
    OBVIOUS
  <2>10. QED
    BY <2>3, <2>8, <2>9 DEF Beside
<1>5. QED
  BY <1>3, <1>4

LEMMA PcbDisableOK ==
    ASSUME NEW d, NEW acts, NEW sure, HandledOK(d, acts, sure, {}),
           NEW i \in Ifaces, NEW e, e = PcbDisable(d, i)
    PROVE HandledOK(e, acts, sure, {}) /\ Beside(d, e)
<1>1. d \in Device /\ d.pcb[i] \in Pcbs /\ d.pcb \in [Ifaces -> Pcbs]
  BY DEF HandledOK, BaseOK, Device
<1>2. CASE i \in d.ready
  <2> DEFINE c == ClearTxQueueIf(d, i)
             none == [n |-> 0, host |-> 0, svc |-> 0]
  <2>1. /\ HandledOK(c, acts, sure, {} \cup {i}) /\ Beside(d, c) /\ SameName(d, c)
    BY ClearIfOK
  <2>2. e = DeinitPcb(c, i)
    BY <1>2 DEF PcbDisable, IfReady
  <2> HIDE DEF c
  <2>3. c \in Device
    BY <2>1 DEF HandledOK, BaseOK
  <2>4. c.ready \in SUBSET Ifaces /\ c.pcb \in [Ifaces -> Pcbs] /\ c.probed \in [Ifaces -> Counts]
    BY <2>3 DEF Device
  <2>5. IdlePcb \in Pcbs /\ ~IdlePcb.running /\ ~Probing(IdlePcb)
    BY DEF IdlePcb, Pcbs, Probing, OFF, PROBE_1, PROBE_3
  <2>6. none \in Counts
    BY DEF Counts
  <2> DEFINE r == c.ready \ {i}
             x == [c.pcb EXCEPT ![i] = IdlePcb]
             y == [c.probed EXCEPT ![i] = none]
             b == [c EXCEPT !.ready = r]
  <2>7. e = [b EXCEPT !.pcb = [b.pcb EXCEPT ![i] = IdlePcb],
                      !.probed = [b.probed EXCEPT ![i] = none]]
    BY <2>2 DEF DeinitPcb, IfDeinit
  <2>8. /\ r \in SUBSET Ifaces /\ y \in [Ifaces -> Counts]
        /\ x \in [Ifaces -> Pcbs] /\ x[i] = IdlePcb /\ \A j \in Ifaces : j # i => x[j] = c.pcb[j]
    BY <2>4, <2>5, <2>6
  <2> HIDE DEF r
  <2>9. /\ b \in Device /\ b.pcb = c.pcb /\ b.probed = c.probed /\ b.ready = r /\ b.txq = c.txq
        /\ Beside(c, b) /\ SameName(c, b)
    BY <2>3, <2>8 DEF Device, Beside, SameName
  <2>10. e = [b EXCEPT !.pcb = x, !.probed = y]
    BY <2>7, <2>9
  <2> HIDE DEF b, x, y
  <2>11. /\ e \in Device /\ e.pcb = x /\ e.ready = b.ready /\ e.txq = b.txq
         /\ Beside(b, e) /\ SameName(b, e)
    <3>1. e \in Device
      BY <2>8, <2>9, <2>10 DEF Device
    <3>2. /\ e.pcb = x /\ e.ready = b.ready /\ e.txq = b.txq /\ e.host = b.host /\ e.svc = b.svc
          /\ e.aq = b.aq /\ e.held = b.held /\ e.timer = b.timer /\ e.app = b.app
          /\ e.up = b.up /\ e.ip = b.ip
      BY <2>9, <2>10 DEF Device
    <3>3. QED
      BY <3>1, <3>2 DEF Beside, SameName
  <2>12. e.txq = c.txq /\ e.ready = r /\ Beside(d, e) /\ Beside(c, e) /\ SameName(c, e)
    BY <2>1, <2>9, <2>11 DEF Beside, SameName
  <2>13. BaseOK(e, acts, sure)
    BY <2>1, <2>11, <2>12 DEF HandledOK, BaseOK, SameName
  <2>14. NamelessIdle(e)
    BY <2>1, <2>5, <2>8, <2>11, <2>12 DEF HandledOK, NamelessIdle, SameName
  <2>15. MachinesBut(e, {})
    <3> SUFFICES ASSUME NEW j \in e.ready PROVE MachineOK(e, j)
      BY DEF MachinesBut
    <3>1. j \in c.ready /\ j # i /\ j \in Ifaces
      BY <2>4, <2>12 DEF r
    <3>2. MachineOK(c, j) /\ SameOn(c.txq, e.txq, j) /\ e.pcb[j] = c.pcb[j]
      BY <2>1, <2>8, <2>11, <2>12, <3>1, SameOnItself DEF HandledOK, MachinesBut
    <3>3. QED
      BY <2>12, <3>2, MachineKept DEF SameName
  <2>16. QED
    BY <2>12, <2>13, <2>14, <2>15 DEF HandledOK
<1>3. CASE i \notin d.ready
  <2> DEFINE new == [d.pcb[i] EXCEPT !.state = OFF]
  <2>1. new \in Pcbs /\ new.running = d.pcb[i].running /\ ~Probing(new)
    BY <1>1 DEF Pcbs, OFF, Probing, PROBE_1, PROBE_3
  <2>2. e = [d EXCEPT !.pcb[i] = new]
    <3>1. e = [d EXCEPT !.pcb[i].state = OFF]
      BY <1>3 DEF PcbDisable, IfReady
    <3>2. QED
      BY <3>1
  <2> HIDE DEF new
  <2>3. OtherPcb(d, e, i, new)
    BY <1>1, <2>1, <2>2, SetPcb
  <2>4. BaseOK(e, acts, sure) /\ Beside(d, e) /\ SameName(d, e) /\ e.ready = d.ready /\ e.txq = d.txq
    BY <2>3 DEF HandledOK, BaseOK, OtherPcb, SameName, SameNet
  <2>5. NamelessIdle(e)
    BY <2>1, <2>3, <2>4 DEF HandledOK, NamelessIdle, SameName, OtherPcb
  <2>6. MachinesBut(e, {})
    <3> SUFFICES ASSUME NEW j \in e.ready PROVE MachineOK(e, j)
      BY DEF MachinesBut
    <3>1. j # i /\ j \in Ifaces
      BY <1>1, <1>3, <2>4 DEF Device
    <3>2. MachineOK(d, j) /\ SameOn(d.txq, e.txq, j) /\ e.pcb[j] = d.pcb[j]
      BY <2>3, <2>4, <3>1, SameOnItself DEF HandledOK, MachinesBut, OtherPcb
    <3>3. QED
      BY <2>4, <3>2, MachineKept DEF SameName
  <2>7. QED
    BY <2>4, <2>5, <2>6 DEF HandledOK
<1>4. QED
  BY <1>2, <1>3

LEMMA OtherPcbOK ==
    ASSUME NEW d, NEW acts, NEW sure, NEW is, HandledOK(d, acts, sure, is),
           NEW i \in Ifaces, NEW new, NEW e, OtherPcb(d, e, i, new),
           d.host = 0 => ~Probing(new) /\ ~new.running
    PROVE HandledOK(e, acts, sure, is \cup {i})
<1>1. BaseOK(e, acts, sure) /\ NamelessIdle(e)
  BY DEF HandledOK, BaseOK, NamelessIdle, OtherPcb, SameName
<1>2. MachinesBut(e, is \cup {i})
  <2> SUFFICES ASSUME NEW j \in e.ready \ (is \cup {i}) PROVE MachineOK(e, j)
    BY DEF MachinesBut
  <2>1. j \in Ifaces /\ j \in d.ready \ is /\ j # i
    BY DEF OtherPcb, SameNet, Device
  <2>2. MachineOK(d, j) /\ SameOn(d.txq, e.txq, j) /\ e.pcb[j] = d.pcb[j]
    BY <2>1, SameOnItself DEF HandledOK, MachinesBut, OtherPcb
  <2>3. QED
    BY <2>2, MachineKept DEF OtherPcb, SameName
<1>3. QED
  BY <1>1, <1>2 DEF HandledOK

LEMMA AppendedOK ==
    ASSUME NEW d, NEW acts, NEW sure, NEW is, HandledOK(d, acts, sure, is), NEW p, NEW delay,
           NEW e, BaseOK(e, acts, sure), Appended(d, e, p, delay)
    PROVE HandledOK(e, acts, sure, is \cup {p.i})
<1>1. NamelessIdle(e)
  BY DEF HandledOK, NamelessIdle, Appended, SameName
<1>2. MachinesBut(e, is \cup {p.i})
  <2> SUFFICES ASSUME NEW j \in e.ready \ (is \cup {p.i}) PROVE MachineOK(e, j)
    BY DEF MachinesBut
  <2>1. j \in d.ready \ is /\ j # p.i
    BY DEF Appended
  <2>2. MachineOK(d, j) /\ SameOn(d.txq, e.txq, j) /\ e.pcb[j] = d.pcb[j]
    BY <2>1 DEF HandledOK, MachinesBut, Appended
  <2>3. QED
    BY <2>2, MachineKept DEF Appended, SameName
<1>3. QED
  BY <1>1, <1>2 DEF HandledOK

LEMMA MachineBack ==
    ASSUME NEW d, NEW acts, NEW sure, NEW i, HandledOK(d, acts, sure, {i}),
           i \in d.ready => MachineOK(d, i)
    PROVE HandledOK(d, acts, sure, {})
  BY DEF HandledOK, MachinesBut

LEMMA AnnounceOK ==
    ASSUME EnoughAddrs, NEW d \in Device, NEW p \in Packets, NEW a, a = AnnounceFromProbe(d, p)
    PROVE a \in Packets /\ a.i = p.i /\ ~a.queued /\ FreeIn(d.txq, a.at)
<1> DEFINE ofService == IF "SRV" \in ToSet(p.ns) THEN <<"SDPTR", "PTR", "SRV", "TXT", "A">> ELSE <<>>
           ofHost == IF "A" \in ToSet(p.ns) THEN <<"A">> ELSE <<>>
           ts == ofService \o ofHost
           an == AddAnswers(<<>>, ts)
           at == Alloc(d, {p.at})
           k == Packet(at, p.i)
<1>1. d.txq \in Seq(Packets) /\ IsFiniteSet({p.at})
  BY FS_Singleton DEF Device
<1>2. at \in Nat /\ FreeIn(d.txq, at)
  BY <1>1, FreeAddress
<1> HIDE DEF at
<1>3. ts \in Seq(Kinds) /\ <<>> \in Seq(Kinds) /\ <<>> \in Seq(Questions)
  <2>1. "SDPTR" \in Kinds /\ "PTR" \in Kinds /\ "SRV" \in Kinds /\ "TXT" \in Kinds /\ "A" \in Kinds
    BY DEF Kinds
  <2>2. <<"SDPTR", "PTR", "SRV", "TXT", "A">> \in Seq(Kinds) /\ <<"A">> \in Seq(Kinds) /\ <<>> \in Seq(Kinds)
    BY <2>1
  <2>3. ofService \in Seq(Kinds) /\ ofHost \in Seq(Kinds)
    BY <2>2
  <2> HIDE DEF ofService, ofHost
  <2>4. QED
    BY <2>2, <2>3
<1> HIDE DEF ts
<1>4. an \in Seq(Kinds)
  BY <1>3, AddAnswersType
<1>5. a = [k EXCEPT !.resp = TRUE, !.an = an]
  BY DEF AnnounceFromProbe, an, ts, at
<1>6. k = [at |-> at, i |-> p.i, left |-> 0, queued |-> FALSE, resp |-> FALSE, bye |-> FALSE,
           qs |-> <<>>, an |-> <<>>, ns |-> <<>>, ar |-> <<>>]
  BY DEF Packet
<1> HIDE DEF an, k
<1>7. a = [at |-> at, i |-> p.i, left |-> 0, queued |-> FALSE, resp |-> TRUE, bye |-> FALSE,
           qs |-> <<>>, an |-> an, ns |-> <<>>, ar |-> <<>>]
  BY <1>5, <1>6
<1>8. p.i \in Ifaces /\ 0 \in 0 .. Second
  BY DEF Packets, Second
<1>9. a \in Packets
  BY <1>2, <1>3, <1>4, <1>7, <1>8 DEF Packets
<1>10. QED
  BY <1>2, <1>7, <1>9

\* The packet p was taken from the queue and sent: the machine of its interface
\* moves on.  `alone` says that no other packet of the interface waits.
LEMMA ScheduleOK ==
    ASSUME EnoughAddrs, NEW d, NEW acts, NEW sure, NEW p \in Packets, ~p.queued,
           HandledOK(d, acts, sure, {p.i}), FreeIn(d.txq, p.at),
           d.pcb[p.i].state # OFF,
           p.i \in d.ready =>
              /\ d.pcb[p.i].running => Probing(d.pcb[p.i])
              /\ Probing(d.pcb[p.i]) => NoneOf(d.txq, p.i) /\ IsProbe(d, p.i, p),
           NEW e, e = ScheduleTxPacket(d, p)
    PROVE HandledOK(e, acts, sure, {}) /\ Beside(d, e)
<1> DEFINE i == p.i
           pcb == d.pcb[i]
           state == pcb.state
           up == [pcb EXCEPT !.state = state + 1]
           new == [IdlePcb EXCEPT !.state = ANNOUNCE_1]
<1>1. d \in Device /\ BaseOK(d, acts, sure) /\ i \in Ifaces /\ pcb \in Pcbs
  BY DEF HandledOK, BaseOK, Device, Packets
<1>2. state \in 3 .. 9
  BY <1>1 DEF Pcbs, OFF, PROBE_1, RUNNING
<1>3. state # 9 => up \in Pcbs
  BY <1>1, <1>2 DEF Pcbs, OFF, PROBE_1, RUNNING
<1>4. up.state = state + 1 /\ up.running = pcb.running /\ up.svcs = pcb.svcs
  BY <1>1 DEF Pcbs
<1>5. d.host = 0 => ~pcb.running /\ state \notin 3 .. 5
  BY <1>1 DEF HandledOK, NamelessIdle, Probing, PROBE_1, PROBE_3
<1>6. new \in Pcbs /\ new.state = 6 /\ ~new.running
  <2>1. IdlePcb \in Pcbs /\ ~IdlePcb.running
    BY DEF IdlePcb, Pcbs, OFF
  <2>2. new.state = 6 /\ new.running = IdlePcb.running
    BY <2>1 DEF Pcbs, ANNOUNCE_1
  <2>3. new \in Pcbs
    BY <2>1 DEF Pcbs, OFF, PROBE_1, RUNNING, ANNOUNCE_1
  <2>4. QED
    BY <2>1, <2>2, <2>3
<1>7. Quarter \in 0 .. Second /\ Second \in 0 .. Second
  BY DEF Quarter, Second
<1> HIDE DEF up, new
\* The same packet once more, and the next state.
<1>8. ASSUME state \in {3, 4, 6, 7}, NEW delay \in 0 .. Second,
             NEW c, c = SendAfter(d, p, delay), e = NextState(c, i)
      PROVE  HandledOK(e, acts, sure, {}) /\ Beside(d, e)
  <2>1. BaseOK(c, acts, sure) /\ Appended(d, c, p, delay)
    BY <1>1, <1>8, QueuedOK
  <2>2. HandledOK(c, acts, sure, {i} \cup {i})
    BY <2>1, AppendedOK
  <2>3. c.pcb = d.pcb /\ c.ready = d.ready /\ Beside(d, c) /\ SameName(d, c) /\ c \in Device
    BY <2>1 DEF Appended, BaseOK
  <2>4. e = [c EXCEPT !.pcb[i] = up]
    BY <1>8, <2>3 DEF up, NextState
  <2>5. OtherPcb(c, e, i, up)
    BY <1>1, <1>3, <1>8, <2>3, <2>4, SetPcb
  <2>6. c.host = 0 => ~Probing(up) /\ ~up.running
    <3>1. c.host = d.host
      BY <2>3 DEF SameName
    <3>2. state \notin 3 .. 5 => ~Probing(up)
      BY <1>2, <1>4 DEF Probing, PROBE_1, PROBE_3
    <3>3. QED
      BY <1>4, <1>5, <3>1, <3>2
  <2>7. HandledOK(e, acts, sure, ({i} \cup {i}) \cup {i})
    BY <1>1, <2>2, <2>5, <2>6, OtherPcbOK
  <2>8. ({i} \cup {i}) \cup {i} = {i}
    OBVIOUS
  <2>9. HandledOK(e, acts, sure, {i})
    BY <2>7, <2>8
  <2>10. e.txq = c.txq /\ e.ready = d.ready /\ e.pcb[i] = up /\ e.host = d.host /\ Beside(d, e)
    BY <2>3, <2>5 DEF OtherPcb, SameName, SameNet, Beside
  <2>11. ASSUME i \in e.ready PROVE MachineOK(e, i)
    <3>1. PICK k \in Of(e.txq, i) : /\ e.txq[k] = [p EXCEPT !.left = delay]
                                    /\ NoneOf(d.txq, i) => OnlyOf(e.txq, i, k)
      BY <2>1, <2>10 DEF Appended
    <3>2. e.pcb[i].running => Probing(pcb)
      BY <1>4, <2>10, <2>11
    <3>3. Probing(pcb) <=> state \in {3, 4}
      BY <1>8 DEF Probing, PROBE_1, PROBE_3
    <3>4. Probing(e.pcb[i]) <=> state \in {3, 4}
      <4>1. e.pcb[i].state = state + 1
        BY <1>4, <2>10
      <4>2. QED
        BY <1>8, <4>1 DEF Probing, PROBE_1, PROBE_3
    <3>5. ASSUME state \in {3, 4}
          PROVE \E j \in PacketsOf(e, i) : PacketsOf(e, i) = {j} /\ IsProbe(e, i, e.txq[j])
      <4>1. NoneOf(d.txq, i) /\ IsProbe(d, i, p)
        BY <2>10, <2>11, <3>3, <3>5
      <4>2. PacketsOf(e, i) = {k}
        BY <3>1, <4>1 DEF PacketsOf, OnlyOf, Of
      <4>3. e.txq[k].qs = p.qs /\ e.txq[k].resp = p.resp
        BY <3>1 DEF Packets
      <4>4. IsProbe(e, i, e.txq[k])
        BY <1>4, <2>10, <4>1, <4>3 DEF IsProbe, Instance
      <4>5. QED
        BY <4>2, <4>4
    <3>6. PacketsOf(e, i) # {}
      BY <3>1 DEF PacketsOf, Of
    <3>7. QED
      BY <3>2, <3>3, <3>4, <3>5, <3>6 DEF MachineOK
  <2>12. QED
    BY <2>9, <2>10, <2>11, MachineBack
<1>9. CASE state \in {3, 4}
  <2>1. e = NextState(SendAfter(d, p, Quarter), i)
    BY <1>9 DEF ScheduleTxPacket, PROBE_1, PROBE_2, PROBE_3, ANNOUNCE_1, ANNOUNCE_2, ANNOUNCE_3
  <2>2. QED
    BY <1>7, <1>8, <1>9, <2>1
<1>10. CASE state \in {6, 7}
  <2>1. e = NextState(SendAfter(d, p, Second), i)
    BY <1>10 DEF ScheduleTxPacket, PROBE_1, PROBE_2, PROBE_3, ANNOUNCE_1, ANNOUNCE_2, ANNOUNCE_3
  <2>2. QED
    BY <1>7, <1>8, <1>10, <2>1
<1>11. CASE state = 5
  <2> DEFINE a == AnnounceFromProbe(d, p)
             c == ProbingDone(d, i)
  <2>1. e = SendAfter(c, a, Quarter)
    BY <1>11 DEF ScheduleTxPacket, PROBE_1, PROBE_2, PROBE_3, ANNOUNCE_1, ANNOUNCE_2, ANNOUNCE_3
  <2>2. a \in Packets /\ a.i = i /\ ~a.queued /\ FreeIn(d.txq, a.at)
    BY <1>1, AnnounceOK
  <2>3. OtherPcb(d, c, i, new)
    <3>1. c = [d EXCEPT !.pcb[i] = new]
      BY DEF ProbingDone, new
    <3>2. QED
      BY <1>1, <1>6, <3>1, SetPcb
  <2> HIDE DEF a, c
  <2>4. ~Probing(new)
    BY <1>6 DEF Probing, PROBE_1, PROBE_3
  <2>5. HandledOK(c, acts, sure, {i} \cup {i})
    BY <1>1, <1>6, <2>3, <2>4, OtherPcbOK
  <2>6. c.txq = d.txq /\ c.pcb[i] = new /\ Beside(d, c)
    BY <2>3 DEF OtherPcb
  <2>7. BaseOK(c, acts, sure) /\ FreeIn(c.txq, a.at)
    BY <2>2, <2>5, <2>6 DEF HandledOK
  <2>8. BaseOK(e, acts, sure) /\ Appended(c, e, a, Quarter)
    BY <1>7, <2>1, <2>2, <2>7, QueuedOK
  <2>9. HandledOK(e, acts, sure, ({i} \cup {i}) \cup {a.i})
    BY <2>5, <2>8, AppendedOK
  <2>10. ({i} \cup {i}) \cup {a.i} = {i}
    BY <2>2
  <2>11. HandledOK(e, acts, sure, {i})
    BY <2>9, <2>10
  <2>12. MachineOK(e, i)
    <3>1. e.pcb[i] = new /\ Of(e.txq, i) # {}
      BY <2>2, <2>6, <2>8 DEF Appended
    <3>2. PacketsOf(e, i) # {}
      BY <3>1 DEF PacketsOf, Of
    <3>3. QED
      BY <1>6, <2>4, <3>1, <3>2 DEF MachineOK
  <2>13. Beside(d, e)
    BY <2>6, <2>8 DEF Appended, Beside
  <2>14. QED
    BY <2>11, <2>12, <2>13, MachineBack
<1>12. CASE state = 8
  <2>1. e = [d EXCEPT !.pcb[i] = up]
    BY <1>12 DEF ScheduleTxPacket, PROBE_1, PROBE_2, PROBE_3, ANNOUNCE_1, ANNOUNCE_2, ANNOUNCE_3, up, NextState
  <2>2. OtherPcb(d, e, i, up)
    BY <1>1, <1>3, <1>12, <2>1, SetPcb
  <2>3. ~Probing(up) /\ up.state \notin ANNOUNCE_1 .. ANNOUNCE_3 /\ ~Probing(pcb)
    BY <1>4, <1>12 DEF Probing, PROBE_1, PROBE_3, ANNOUNCE_1, ANNOUNCE_3
  <2>4. HandledOK(e, acts, sure, {i} \cup {i})
    BY <1>1, <1>4, <1>5, <2>2, <2>3, OtherPcbOK
  <2>5. {i} \cup {i} = {i}
    OBVIOUS
  <2>6. HandledOK(e, acts, sure, {i})
    BY <2>4, <2>5
  <2>7. i \in e.ready => MachineOK(e, i)
    BY <1>4, <2>2, <2>3 DEF MachineOK, OtherPcb, SameNet
  <2>8. Beside(d, e)
    BY <2>2 DEF OtherPcb
  <2>9. QED
    BY <2>6, <2>7, <2>8, MachineBack
<1>13. CASE state = 9
  <2>1. e = d
    BY <1>13 DEF ScheduleTxPacket, PROBE_1, PROBE_2, PROBE_3, ANNOUNCE_1, ANNOUNCE_2, ANNOUNCE_3
  <2>2. ~Probing(pcb) /\ state \notin ANNOUNCE_1 .. ANNOUNCE_3
    BY <1>13 DEF Probing, PROBE_1, PROBE_3, ANNOUNCE_1, ANNOUNCE_3
  <2>3. i \in d.ready => MachineOK(d, i)
    BY <2>2 DEF MachineOK
  <2>4. HandledOK(d, acts, sure, {})
    BY <2>3, MachineBack
  <2>5. QED
    BY <2>1, <2>4 DEF Beside
<1>14. state \in {3, 4} \/ state \in {6, 7} \/ state = 5 \/ state = 8 \/ state = 9
  BY <1>2
<1>15. QED
  BY <1>9, <1>10, <1>11, <1>12, <1>13, <1>14

-----------------------------------------------------------------------------
(* The actions of the task.                                                *)

\* What a handler needs of the actions: the list of those that are left.
MoreActs(a, rest) == a \in Actions /\ rest \in Seq(Actions)

\* An action that sends no packet is done, or its packet is not the head.
LEMMA ActionDone ==
    ASSUME NEW d, NEW a, NEW rest, MoreActs(a, rest), NEW sure, HandledOK(d, <<a>> \o rest, sure, {}),
           d.txq # <<>> => ~d.txq[1].queued \/ a # <<"tx", d.txq[1].at>>
    PROVE  HandledOK(d, rest, sure, {})
<1>1. d.txq \in Seq(Packets) /\ a \in Actions /\ rest \in Seq(Actions)
  BY DEF HandledOK, BaseOK, Device, MoreActs
<1>2. sure => MarkOK(d.txq, <<a>> \o rest)
  BY DEF HandledOK, BaseOK
<1>3. sure => MarkOK(d.txq, rest)
  BY <1>1, <1>2, ActDone
<1>4. QED
  BY <1>3 DEF HandledOK, BaseOK

\* The head of the queue is taken out for its action.
LEMMA HeadTaken ==
    ASSUME NEW d, NEW a, NEW rest, MoreActs(a, rest), NEW sure, HandledOK(d, <<a>> \o rest, sure, {}),
           d.txq # <<>>, d.txq[1].queued,
           NEW c, c = [d EXCEPT !.txq = Tail(d.txq)]
    PROVE  /\ HandledOK(c, rest, sure, {Head(d.txq).i})
           /\ Head(d.txq) \in Packets /\ FreeIn(c.txq, Head(d.txq).at)
           /\ OtherTxq(d, c, Tail(d.txq))
<1> DEFINE q == d.txq
           i == Head(q).i
<1>1. q \in Seq(Packets) /\ QueueOK(q) /\ d \in Device
  BY DEF HandledOK, BaseOK, Device
<1>2. /\ Head(q) \in Packets /\ Tail(q) \in Seq(Packets) /\ QueueOK(Tail(q))
      /\ FreeIn(Tail(q), Head(q).at)
      /\ \A j : j # i => SameOn(q, Tail(q), j)
  BY <1>1, TailOK
<1>3. OtherTxq(d, c, Tail(q))
  BY <1>1, <1>2, SetTxq
<1>4. sure => MarkOK(Tail(q), rest)
  <2>1. a \in Actions /\ rest \in Seq(Actions)
    BY DEF MoreActs
  <2>2. sure => MarkOK(q, <<a>> \o rest)
    BY DEF HandledOK, BaseOK
  <2>3. QED
    BY <1>1, <2>1, <2>2, ActSent
<1>5. BaseOK(c, rest, sure) /\ NamelessIdle(c)
  BY <1>2, <1>3, <1>4 DEF HandledOK, BaseOK, NamelessIdle, OtherTxq, SameName
<1>6. MachinesBut(c, {i})
  <2> SUFFICES ASSUME NEW j \in c.ready \ {i} PROVE MachineOK(c, j)
    BY DEF MachinesBut
  <2>1. MachineOK(d, j) /\ SameOn(q, c.txq, j)
    BY <1>2, <1>3 DEF HandledOK, MachinesBut, OtherTxq, SameNet
  <2>2. QED
    BY <1>3, <2>1, MachineKept DEF OtherTxq, SameName
<1>7. QED
  BY <1>2, <1>3, <1>5, <1>6 DEF HandledOK, OtherTxq

LEMMA HandlePacketOK ==
    ASSUME EnoughAddrs, NEW d, NEW acts, NEW sure, NEW p \in Packets, ~p.queued,
           HandledOK(d, acts, sure, {p.i}), FreeIn(d.txq, p.at),
           p.i \in d.ready =>
              /\ d.pcb[p.i].running => Probing(d.pcb[p.i])
              /\ Probing(d.pcb[p.i]) => NoneOf(d.txq, p.i) /\ IsProbe(d, p.i, p),
           NEW e, e = HandlePacket(d, p)
    PROVE HandledOK(e, acts, sure, {}) /\ Beside(d, e)
<1>1. CASE PcbIsOff(d, p.i)
  <2>1. e = d
    BY <1>1 DEF HandlePacket
  <2>2. ~Probing(d.pcb[p.i]) /\ d.pcb[p.i].state \notin ANNOUNCE_1 .. ANNOUNCE_3
    BY <1>1 DEF PcbIsOff, OFF, Probing, PROBE_1, PROBE_3, ANNOUNCE_1, ANNOUNCE_3
  <2>3. p.i \in d.ready => MachineOK(d, p.i)
    BY <2>2 DEF MachineOK
  <2>4. QED
    BY <2>1, <2>3, MachineBack DEF Beside
<1>2. CASE ~PcbIsOff(d, p.i)
  <2> DEFINE c == Dispatch(d, p)
  <2>1. e = ScheduleTxPacket(c, p)
    BY <1>2 DEF HandlePacket
  <2>2. OtherNet(d, c)
    BY DispatchOK DEF HandledOK, BaseOK
  <2> HIDE DEF c
  <2>3. HandledOK(c, acts, sure, {p.i})
    BY <2>2, OtherNetOK
  <2>4. /\ c.txq = d.txq /\ c.pcb = d.pcb /\ c.ready = d.ready
        /\ IsProbe(d, p.i, p) => IsProbe(c, p.i, p)
    BY <2>2 DEF OtherNet, SameName, IsProbe, Instance
  <2>5. HandledOK(e, acts, sure, {}) /\ Beside(c, e)
    BY <1>2, <2>1, <2>3, <2>4, ScheduleOK DEF PcbIsOff
  <2>6. QED
    BY <2>2, <2>5 DEF OtherNet, Beside
<1>3. QED
  BY <1>1, <1>2

LEMMA SendPacketOK ==
    ASSUME EnoughAddrs, NEW d, NEW at, NEW a, a = <<"tx", at>>, NEW rest, MoreActs(a, rest),
           NEW sure, HandledOK(d, <<a>> \o rest, sure, {}),
           NEW e, e = SendPacket(d, at)
    PROVE  HandledOK(e, rest, sure, {}) /\ Beside(d, e)
<1>1. d.txq \in Seq(Packets) /\ d \in Device /\ QueueOK(d.txq)
  BY DEF HandledOK, BaseOK, Device
<1>2. d.txq # <<>> => Head(d.txq) = d.txq[1]
  BY <1>1
<1>3. CASE ~(d.txq # <<>> /\ Head(d.txq).at = at /\ Head(d.txq).queued)
  <2>1. e = d
    BY <1>3 DEF SendPacket
  <2>2. d.txq # <<>> => ~d.txq[1].queued \/ a # <<"tx", d.txq[1].at>>
    BY <1>2, <1>3
  <2>3. QED
    BY <2>1, <2>2, ActionDone DEF Beside
<1>4. CASE d.txq # <<>> /\ Head(d.txq).at = at /\ Head(d.txq).queued
  <2> DEFINE h == Head(d.txq)
             c == [d EXCEPT !.txq = Tail(d.txq)]
             p == [h EXCEPT !.queued = FALSE]
             i == h.i
  <2>1. e = HandlePacket(c, p)
    BY <1>4 DEF SendPacket
  <2>2. /\ HandledOK(c, rest, sure, {i}) /\ h \in Packets /\ FreeIn(c.txq, h.at)
        /\ OtherTxq(d, c, Tail(d.txq))
    BY <1>2, <1>4, HeadTaken
  <2>3. p \in Packets /\ ~p.queued /\ p.i = i /\ p.at = h.at /\ p.qs = h.qs /\ p.resp = h.resp
    BY <2>2 DEF Packets
  <2>4. ASSUME i \in c.ready
        PROVE  /\ c.pcb[i].running => Probing(c.pcb[i])
               /\ Probing(c.pcb[i]) => NoneOf(c.txq, i) /\ IsProbe(c, i, p)
    <3>1. MachineOK(d, i) /\ c.pcb = d.pcb /\ c.host = d.host
      BY <2>2, <2>4 DEF HandledOK, MachinesBut, OtherTxq, SameNet, SameName
    <3>2. 1 \in Of(d.txq, i)
      BY <1>1, <1>2, <1>4 DEF Of
    <3>3. ASSUME Probing(d.pcb[i]) PROVE NoneOf(c.txq, i) /\ IsProbe(c, i, p)
      <4>1. PICK k \in PacketsOf(d, i) : PacketsOf(d, i) = {k} /\ IsProbe(d, i, d.txq[k])
        BY <3>1, <3>3 DEF MachineOK
      <4>2. k = 1 /\ OnlyOf(d.txq, i, 1)
        BY <3>2, <4>1 DEF PacketsOf, Of, OnlyOf
      <4>3. NoneOf(Tail(d.txq), i)
        BY <1>1, <1>4, <4>2, TailOK
      <4>4. IsProbe(d, i, h)
        BY <1>2, <1>4, <4>1, <4>2
      <4>5. IsProbe(c, i, p)
        <5> HIDE DEF c, p, h
        <5>1. QED
          BY <2>3, <3>1, <4>4 DEF IsProbe, Instance
      <4>6. QED
        BY <2>2, <4>3, <4>5 DEF OtherTxq
    <3>4. QED
      BY <3>1, <3>3 DEF MachineOK
  <2> HIDE DEF c, p, h
  <2>5. HandledOK(e, rest, sure, {}) /\ Beside(c, e)
    BY <2>1, <2>2, <2>3, <2>4, HandlePacketOK
  <2>6. QED
    BY <2>2, <2>5 DEF OtherTxq, Beside
<1>5. QED
  BY <1>3, <1>4

-----------------------------------------------------------------------------
(* The packet parser.                                                      *)

\* What travels through the parser: the device is as the handlers keep it.
FrameOK(f, d, acts, sure) ==
    f \in Frames /\ HandledOK(f.d, acts, sure, {}) /\ Beside(d, f.d)

\* Only the questions, and what is known of the message, are other ones.
OtherQuestions(f, g) == g \in Frames /\ g.d = f.d

LEMMA FrameKept ==
    ASSUME NEW f, NEW d, NEW acts, NEW sure, FrameOK(f, d, acts, sure), NEW g, OtherQuestions(f, g)
    PROVE FrameOK(g, d, acts, sure)
  BY DEF FrameOK, OtherQuestions

\* A conflict was lost.
LEMMA FrameLost ==
    ASSUME NEW f, NEW d, NEW acts, NEW sure, FrameOK(f, d, acts, sure),
           NEW e, HandledOK(e, acts, sure, {}), Beside(f.d, e),
           NEW g, g = [f EXCEPT !.quiet = TRUE, !.d = e]
    PROVE FrameOK(g, d, acts, sure)
<1>1. e \in Device /\ f \in Frames
  BY DEF HandledOK, BaseOK, FrameOK
<1>2. g \in Frames /\ g.d = e
  BY <1>1 DEF Frames
<1>3. QED
  BY <1>2 DEF FrameOK, Beside

LEMMA FrameParts ==
    ASSUME NEW f, NEW d, NEW acts, NEW sure, FrameOK(f, d, acts, sure)
    PROVE  /\ f.d \in Device /\ f.m \in Messages /\ f.m.i \in Ifaces /\ f.qs \in Seq(Questions)
           /\ f.probe \in BOOLEAN /\ f.known \in BOOLEAN /\ f.directory \in BOOLEAN
           /\ HandledOK(f.d, acts, sure, {}) /\ Beside(f.d, f.d)
  BY DEF FrameOK, Frames, Messages, Beside

LEMMA RemoveAtType ==
    ASSUME NEW V, NEW s \in Seq(V), NEW k \in DOMAIN s
    PROVE RemoveAt(s, k) \in Seq(V)
<1>1. k \in 1 .. Len(s) /\ Len(s) \in Nat /\ \A j \in 1 .. Len(s) : s[j] \in V
  OBVIOUS
<1>2. SubSeq(s, 1, k - 1) \in Seq(V)
  BY <1>1
<1>3. SubSeq(s, k + 1, Len(s)) \in Seq(V)
  BY <1>1
<1>4. QED
  BY <1>2, <1>3 DEF RemoveAt

LEMMA RemoveQuestionType ==
    ASSUME NEW f \in Frames, NEW t
    PROVE OtherQuestions(f, RemoveQuestion(f, t))
<1> DEFINE hits == {k \in DOMAIN f.qs : QuestionMatches(f.d, f.qs[k], t)}
           qs == RemoveAt(f.qs, Min(hits))
           g == RemoveQuestion(f, t)
<1>1. f.qs \in Seq(Questions)
  BY DEF Frames
<1>2. CASE hits = {}
  <2>1. g = f
    BY <1>2 DEF RemoveQuestion
  <2>2. QED
    BY <2>1 DEF OtherQuestions
<1>3. CASE hits # {}
  <2>1. g = [f EXCEPT !.qs = qs]
    BY <1>3 DEF RemoveQuestion
  <2>2. hits \in SUBSET Nat /\ hits \subseteq DOMAIN f.qs
    BY <1>1
  <2>3. Min(hits) \in hits
    <3> HIDE DEF hits
    <3>1. QED
      BY <1>3, <2>2, Smallest
  <2>4. qs \in Seq(Questions)
    <3> HIDE DEF hits
    <3>1. QED
      BY <1>1, <2>2, <2>3, RemoveAtType
  <2> HIDE DEF qs
  <2>5. QED
    BY <2>1, <2>4 DEF Frames, OtherQuestions
<1>4. QED
  BY <1>2, <1>3

LEMMA CollectQuestionType ==
    ASSUME NEW f \in Frames, NEW q \in Questions
    PROVE OtherQuestions(f, CollectQuestion(f, q))
<1> DEFINE g == CollectQuestion(f, q)
           sd == [t |-> "SDPTR", n |-> <<"type", 0>>]
<1>1. sd \in Questions
  BY DEF Questions, Kinds, Names
<1>2. f.qs \in Seq(Questions) /\ f.probe \in BOOLEAN
  BY DEF Frames
<1>3. <<sd>> \o f.qs \in Seq(Questions) /\ <<q>> \o f.qs \in Seq(Questions)
  <2> HIDE DEF sd
  <2>1. QED
    BY <1>1, <1>2
<1> DEFINE s1 == <<sd>> \o f.qs
           s2 == <<q>> \o f.qs
           b == f.probe \/ (q.t = "ANY" /\ q.n[1] # "type")
<1>4. \/ g = f
      \/ g = [f EXCEPT !.qs = s1]
      \/ g = [f EXCEPT !.qs = s2, !.probe = b]
  BY DEF CollectQuestion
<1>5. s1 \in Seq(Questions) /\ s2 \in Seq(Questions) /\ b \in BOOLEAN
  BY <1>2, <1>3
<1> HIDE DEF s1, s2, b, g
<1>6. g \in Frames /\ g.d = f.d
  BY <1>4, <1>5 DEF Frames
<1>7. QED
  BY <1>6 DEF OtherQuestions, g

LEMMA RecordPtrOK ==
    ASSUME NEW f, NEW d, NEW acts, NEW sure, FrameOK(f, d, acts, sure), NEW r \in Records
    PROVE FrameOK(RecordPtr(f, r), d, acts, sure)
<1> DEFINE directory == r.t = "SDPTR"
           g == CASE directory -> RemoveQuestion(f, "SDPTR")
                  [] ~directory /\ KnownAnswer(f) -> RemoveQuestion(f, "PTR")
                  [] ~directory /\ ~KnownAnswer(f) -> f
           b == g.known \/ (directory /\ r.long)
           h == [g EXCEPT !.known = b]
<1>1. RecordPtr(f, r) = f \/ RecordPtr(f, r) = h
  BY DEF RecordPtr
<1>2. f \in Frames /\ r.long \in BOOLEAN
  BY DEF FrameOK, Records
<1>3. g = f \/ \E t : g = RemoveQuestion(f, t)
  <2>1. g = f \/ g = RemoveQuestion(f, "SDPTR") \/ g = RemoveQuestion(f, "PTR")
    OBVIOUS
  <2> HIDE DEF g
  <2>2. QED
    BY <2>1
<1>4. OtherQuestions(f, g)
  <2> HIDE DEF g
  <2>1. QED
    BY <1>2, <1>3, RemoveQuestionType DEF OtherQuestions
<1>5. b \in BOOLEAN
  OBVIOUS
<1> HIDE DEF g, b
<1>6. OtherQuestions(f, h)
  BY <1>4, <1>5 DEF OtherQuestions, Frames
<1> HIDE DEF h
<1>7. QED
  BY <1>1, <1>6, FrameKept

\* Probing again from the first step.
LEMMA ProbeAgain ==
    ASSUME EnoughAddrs, NEW d, NEW acts, NEW sure, HandledOK(d, acts, sure, {}), NEW i \in Ifaces,
           NEW svcs, svcs \subseteq {"http"}, NEW ip, ip \in BOOLEAN, NEW e, e = InitPcbProbe(d, i, svcs, ip)
    PROVE HandledOK(e, acts, sure, {}) /\ Beside(d, e)
<1>1. {} \ {i} = {} /\ svcs \in SUBSET {"http"}
  OBVIOUS
<1>2. HandledOK(e, acts, sure, {} \ {i}) /\ Beside(d, e)
  BY <1>1, InitPcbProbeOK
<1>3. QED
  BY <1>1, <1>2

LEMMA RecordAOK ==
    ASSUME EnoughAddrs, NEW f, NEW d, NEW acts, NEW sure, FrameOK(f, d, acts, sure), NEW r \in Records
    PROVE FrameOK(RecordA(f, r), d, acts, sure)
<1> DEFINE c == InitPcbProbe(f.d, f.m.i, {}, TRUE)
           n == TakeNextName(f.d)
           e == IF ~f.d.pcb[f.m.i].running THEN c ELSE IF f.probe \/ f.m.resp THEN n ELSE f.d
           h == RecordA(f, r)
<1>1. \/ h = f \/ h = RemoveQuestion(f, "A") \/ h = [f EXCEPT !.quiet = TRUE, !.d = e]
  BY DEF RecordA
<1>2. HandledOK(f.d, acts, sure, {}) /\ Beside(f.d, f.d) /\ f.m.i \in Ifaces
  BY FrameParts
<1>3. HandledOK(c, acts, sure, {}) /\ Beside(f.d, c)
  <2>1. {} \subseteq {"http"} /\ TRUE \in BOOLEAN /\ c = InitPcbProbe(f.d, f.m.i, {}, TRUE)
    OBVIOUS
  <2> HIDE DEF c
  <2>2. QED
    BY <1>2, <2>1, ProbeAgain
<1>4. HandledOK(n, acts, sure, {}) /\ Beside(f.d, n)
  BY <1>2, TakeNextNameOK
<1>5. HandledOK(e, acts, sure, {}) /\ Beside(f.d, e)
  <2>1. e = c \/ e = n \/ e = f.d
    OBVIOUS
  <2> HIDE DEF e, c, n
  <2>2. QED
    BY <1>2, <1>3, <1>4, <2>1
<1> HIDE DEF e, h, c, n
<1>6. CASE h = f
  BY <1>6 DEF h
<1>7. CASE h = RemoveQuestion(f, "A")
  BY <1>7, RemoveQuestionType, FrameKept DEF h, FrameOK
<1>8. CASE h = [f EXCEPT !.quiet = TRUE, !.d = e]
  <2>1. FrameOK(h, d, acts, sure)
    BY <1>5, <1>8, FrameLost
  <2>2. QED
    BY <2>1 DEF h
<1>9. QED
  BY <1>1, <1>6, <1>7, <1>8

LEMMA RecordTxtOK ==
    ASSUME EnoughAddrs, NEW f, NEW d, NEW acts, NEW sure, FrameOK(f, d, acts, sure), NEW r \in Records
    PROVE FrameOK(RecordTxt(f, r), d, acts, sure)
<1> DEFINE e == InitPcbProbe(f.d, f.m.i, {"http"}, TRUE)
           h == RecordTxt(f, r)
<1>1. \/ h = f \/ h = RemoveQuestion(f, "TXT") \/ h = [f EXCEPT !.quiet = TRUE, !.d = e]
  BY DEF RecordTxt
<1>2. HandledOK(f.d, acts, sure, {}) /\ f.m.i \in Ifaces
  BY FrameParts
<1>3. HandledOK(e, acts, sure, {}) /\ Beside(f.d, e)
  <2>1. {"http"} \subseteq {"http"} /\ TRUE \in BOOLEAN /\ e = InitPcbProbe(f.d, f.m.i, {"http"}, TRUE)
    OBVIOUS
  <2> HIDE DEF e
  <2>2. QED
    BY <1>2, <2>1, ProbeAgain
<1> HIDE DEF e, h
<1>4. CASE h = f
  BY <1>4 DEF h
<1>5. CASE h = RemoveQuestion(f, "TXT")
  BY <1>5, RemoveQuestionType, FrameKept DEF h, FrameOK
<1>6. CASE h = [f EXCEPT !.quiet = TRUE, !.d = e]
  <2>1. FrameOK(h, d, acts, sure)
    BY <1>3, <1>6, FrameLost
  <2>2. QED
    BY <2>1 DEF h
<1>7. QED
  BY <1>1, <1>4, <1>5, <1>6

LEMMA RecordSrvOK ==
    ASSUME EnoughAddrs, NEW f, NEW d, NEW acts, NEW sure, FrameOK(f, d, acts, sure), NEW r \in Records
    PROVE FrameOK(RecordSrv(f, r), d, acts, sure)
<1> DEFINE b == SendBye(f.d, f.m.i, {"http"}, FALSE)
           c == InitPcbProbe(b, f.m.i, {"http"}, FALSE)
           n == TakeNextName(f.d)
           e == IF f.d.pcb[f.m.i].running THEN n ELSE c
           h == RecordSrv(f, r)
<1>1. \/ h = f \/ h = RemoveQuestion(f, "SRV") \/ h = [f EXCEPT !.quiet = TRUE, !.d = e]
  BY DEF RecordSrv
<1>2. HandledOK(f.d, acts, sure, {}) /\ f.m.i \in Ifaces /\ f.d \in Device
  BY FrameParts
<1>3. OtherNet(f.d, b)
  BY <1>2, SendByeOK
<1> HIDE DEF b
<1>4. HandledOK(b, acts, sure, {})
  BY <1>2, <1>3, OtherNetOK
<1>5. HandledOK(c, acts, sure, {}) /\ Beside(f.d, c)
  <2>1. {"http"} \subseteq {"http"} /\ FALSE \in BOOLEAN /\ c = InitPcbProbe(b, f.m.i, {"http"}, FALSE)
    OBVIOUS
  <2> HIDE DEF c
  <2>2. HandledOK(c, acts, sure, {}) /\ Beside(b, c)
    BY <1>2, <1>4, <2>1, ProbeAgain
  <2>3. QED
    BY <1>3, <2>2 DEF OtherNet, Beside
<1>6. HandledOK(n, acts, sure, {}) /\ Beside(f.d, n)
  BY <1>2, TakeNextNameOK
<1>7. HandledOK(e, acts, sure, {}) /\ Beside(f.d, e)
  <2>1. e = c \/ e = n
    OBVIOUS
  <2> HIDE DEF e, c, n
  <2>2. QED
    BY <1>5, <1>6, <2>1
<1> HIDE DEF e, h, c, n
<1>8. CASE h = f
  BY <1>8 DEF h
<1>9. CASE h = RemoveQuestion(f, "SRV")
  BY <1>9, RemoveQuestionType, FrameKept DEF h, FrameOK
<1>10. CASE h = [f EXCEPT !.quiet = TRUE, !.d = e]
  <2>1. FrameOK(h, d, acts, sure)
    BY <1>7, <1>10, FrameLost
  <2>2. QED
    BY <2>1 DEF h
<1>11. QED
  BY <1>1, <1>8, <1>9, <1>10

LEMMA RecordOK ==
    ASSUME EnoughAddrs, NEW f, NEW d, NEW acts, NEW sure, FrameOK(f, d, acts, sure), NEW r \in Records
    PROVE FrameOK(Record(f, r), d, acts, sure)
<1>1. r.t \in Kinds
  BY DEF Records
<1>2. \/ Record(f, r) = RecordPtr(f, r) \/ Record(f, r) = RecordSrv(f, r)
      \/ Record(f, r) = RecordTxt(f, r) \/ Record(f, r) = RecordA(f, r)
  BY <1>1 DEF Record, Kinds
<1>3. QED
  BY <1>2, RecordPtrOK, RecordSrvOK, RecordTxtOK, RecordAOK

-----------------------------------------------------------------------------
(* The loops of the parser, and the answer.                                *)

\* What the loop over the questions keeps, and what the one over the records does.
LEMMA CollectQuestionsIn ==
    ASSUME NEW V, NEW f \in V, NEW qs \in Seq(Questions),
           \A g \in V, q \in Questions : CollectQuestion(g, q) \in V
    PROVE CollectQuestions(f, qs) \in V
<1> DEFINE n == Len(qs)
           step == [k \in 1 .. n |-> [g \in V |-> CollectQuestion(g, qs[k])]]
           Sol(h) == h = [k \in 0 .. n |-> IF k = 0 THEN f ELSE CollectQuestion(h[k - 1], qs[k])]
           c == CHOOSE h : Sol(h)
<1>1. n \in Nat /\ \A k \in 1 .. n : qs[k] \in Questions
  OBVIOUS
<1>2. f \in V
  OBVIOUS
<1>3. \A g \in V, q \in Questions : CollectQuestion(g, q) \in V
  OBVIOUS
<1>4. step \in Steps(V, n)
  <2> HIDE DEF n
  <2>1. QED
    BY <1>1, <1>3 DEF Steps
<1>5. PICK g : Solves(g, V, f, n, step)
  <2> HIDE DEF step, n
  <2>1. QED
    BY <1>1, <1>2, <1>4, Recursion
<1>6. Sol(g)
  <2> HIDE DEF n
  <2>1. g \in [0 .. n -> V] /\ \A k \in 0 .. n : g[k] = IF k = 0 THEN f ELSE step[k][g[k - 1]]
    BY <1>5 DEF Solves
  <2>2. ASSUME NEW k \in 0 .. n
        PROVE g[k] = IF k = 0 THEN f ELSE CollectQuestion(g[k - 1], qs[k])
    <3>1. k # 0 => k \in 1 .. n /\ k - 1 \in 0 .. n
      BY <1>1
    <3>2. QED
      BY <2>1, <3>1
  <2>3. QED
    BY <2>1, <2>2
<1>7. Sol(c)
  <2> HIDE DEF Sol
  <2>1. QED
    BY <1>6
<1>8. \A k \in 0 .. n : c[k] \in V
  <2> HIDE DEF c, n
  <2>1. c[0] \in V
    BY <1>1, <1>2, <1>7
  <2>2. ASSUME NEW k \in 1 .. n, c[k - 1] \in V PROVE c[k] \in V
    <3>1. k \in 0 .. n /\ k # 0
      OBVIOUS
    <3>2. c[k] = CollectQuestion(c[k - 1], qs[k])
      BY <1>7, <3>1
    <3>3. QED
      BY <1>1, <1>3, <2>2, <3>2
  <2>3. QED
    BY <1>1, <2>1, <2>2, Throughout
<1>9. CollectQuestions(f, qs) = c[n]
  BY Zenon DEF CollectQuestions, c, n, Sol
<1>10. QED
  <2> HIDE DEF c, n
  <2>1. QED
    BY <1>1, <1>8, <1>9

LEMMA ReadRecordsIn ==
    ASSUME NEW V, NEW f \in V, NEW rs \in Seq(Records),
           \A g \in V, r \in Records : Record(g, r) \in V
    PROVE ReadRecords(f, rs) \in V
<1> DEFINE n == Len(rs)
           step == [k \in 1 .. n |-> [g \in V |-> Record(g, rs[k])]]
           Sol(h) == h = [k \in 0 .. n |-> IF k = 0 THEN f ELSE Record(h[k - 1], rs[k])]
           c == CHOOSE h : Sol(h)
<1>1. n \in Nat /\ \A k \in 1 .. n : rs[k] \in Records
  OBVIOUS
<1>2. f \in V
  OBVIOUS
<1>3. \A g \in V, r \in Records : Record(g, r) \in V
  OBVIOUS
<1>4. step \in Steps(V, n)
  <2> HIDE DEF n
  <2>1. QED
    BY <1>1, <1>3 DEF Steps
<1>5. PICK g : Solves(g, V, f, n, step)
  <2> HIDE DEF step, n
  <2>1. QED
    BY <1>1, <1>2, <1>4, Recursion
<1>6. Sol(g)
  <2> HIDE DEF n
  <2>1. g \in [0 .. n -> V] /\ \A k \in 0 .. n : g[k] = IF k = 0 THEN f ELSE step[k][g[k - 1]]
    BY <1>5 DEF Solves
  <2>2. ASSUME NEW k \in 0 .. n
        PROVE g[k] = IF k = 0 THEN f ELSE Record(g[k - 1], rs[k])
    <3>1. k # 0 => k \in 1 .. n /\ k - 1 \in 0 .. n
      BY <1>1
    <3>2. QED
      BY <2>1, <3>1
  <2>3. QED
    BY <2>1, <2>2
<1>7. Sol(c)
  <2> HIDE DEF Sol
  <2>1. QED
    BY <1>6
<1>8. \A k \in 0 .. n : c[k] \in V
  <2> HIDE DEF c, n
  <2>1. c[0] \in V
    BY <1>1, <1>2, <1>7
  <2>2. ASSUME NEW k \in 1 .. n, c[k - 1] \in V PROVE c[k] \in V
    <3>1. k \in 0 .. n /\ k # 0
      OBVIOUS
    <3>2. c[k] = Record(c[k - 1], rs[k])
      BY <1>7, <3>1
    <3>3. QED
      BY <1>1, <1>3, <2>2, <3>2
  <2>3. QED
    BY <1>1, <2>1, <2>2, Throughout
<1>9. ReadRecords(f, rs) = c[n]
  BY Zenon DEF ReadRecords, c, n, Sol
<1>10. QED
  <2> HIDE DEF c, n
  <2>1. QED
    BY <1>1, <1>8, <1>9

LEMMA CollectQuestionsOK ==
    ASSUME NEW f, NEW d, NEW acts, NEW sure, FrameOK(f, d, acts, sure), NEW qs \in Seq(Questions)
    PROVE FrameOK(CollectQuestions(f, qs), d, acts, sure)
<1> DEFINE V == {g \in Frames : FrameOK(g, d, acts, sure)}
<1>1. f \in V /\ \A g \in V : FrameOK(g, d, acts, sure)
  BY DEF FrameOK
<1>2. ASSUME NEW g \in V, NEW q \in Questions PROVE CollectQuestion(g, q) \in V
  <2>1. OtherQuestions(g, CollectQuestion(g, q))
    BY CollectQuestionType
  <2>2. FrameOK(CollectQuestion(g, q), d, acts, sure)
    BY <2>1, FrameKept
  <2>3. QED
    BY <2>2 DEF FrameOK
<1> HIDE DEF V
<1>3. CollectQuestions(f, qs) \in V
  BY <1>1, <1>2, CollectQuestionsIn
<1>4. QED
  BY <1>1, <1>3

LEMMA ReadRecordsOK ==
    ASSUME EnoughAddrs, NEW f, NEW d, NEW acts, NEW sure, FrameOK(f, d, acts, sure), NEW rs \in Seq(Records)
    PROVE FrameOK(ReadRecords(f, rs), d, acts, sure)
<1> DEFINE V == {g \in Frames : FrameOK(g, d, acts, sure)}
<1>1. f \in V /\ \A g \in V : FrameOK(g, d, acts, sure)
  BY DEF FrameOK
<1>2. ASSUME NEW g \in V, NEW r \in Records PROVE Record(g, r) \in V
  <2>1. FrameOK(Record(g, r), d, acts, sure)
    BY RecordOK
  <2>2. QED
    BY <2>1 DEF FrameOK
<1> HIDE DEF V
<1>3. ReadRecords(f, rs) \in V
  BY <1>1, <1>2, ReadRecordsIn
<1>4. QED
  BY <1>1, <1>3

\* What the answer is gathered in.
Answers == [qs : Seq(Questions), an : Seq(Kinds), ar : Seq(Kinds), count : Nat]

LEMMA AnswerServiceType ==
    ASSUME NEW a \in Answers, NEW q \in Questions, NEW sharing
    PROVE AnswerService(a, q, sharing) \in Answers
<1> DEFINE both(an, ar) == [a EXCEPT !.an = AddAnswers(@, an), !.ar = AddAnswers(@, ar)]
           b == AnswerService(a, q, sharing)
<1>1. ASSUME NEW an \in Seq(Kinds), NEW ar \in Seq(Kinds) PROVE both(an, ar) \in Answers
  <2> DEFINE x == AddAnswers(a.an, an)
             y == AddAnswers(a.ar, ar)
  <2>1. a.an \in Seq(Kinds) /\ a.ar \in Seq(Kinds)
    BY DEF Answers
  <2>2. x \in Seq(Kinds) /\ y \in Seq(Kinds)
    BY <2>1, AddAnswersType
  <2> HIDE DEF x, y
  <2>3. [a EXCEPT !.an = x, !.ar = y] \in Answers
    BY <2>2 DEF Answers
  <2>4. QED
    BY <2>3 DEF x, y
<1>2. /\ "SDPTR" \in Kinds /\ "PTR" \in Kinds /\ "SRV" \in Kinds /\ "TXT" \in Kinds /\ "A" \in Kinds
      /\ q.t \in Kinds \cup {"ANY"}
  BY DEF Kinds, Questions
<1>3. \/ b = both(<<"SRV", "TXT">>, <<"A">>) \/ b = both(<<"PTR">>, <<"SRV", "TXT", "A">>)
      \/ b = both(<<"PTR", "A">>, <<"SRV", "TXT">>) \/ b = both(<<"SRV">>, <<"A">>)
      \/ b = both(<<"TXT">>, <<>>) \/ b = both(<<"SDPTR">>, <<>>) \/ b = a
  BY <1>2 DEF AnswerService, Kinds
<1>4. /\ <<"SRV", "TXT">> \in Seq(Kinds) /\ <<"A">> \in Seq(Kinds) /\ <<"PTR">> \in Seq(Kinds)
      /\ <<"SRV", "TXT", "A">> \in Seq(Kinds) /\ <<"PTR", "A">> \in Seq(Kinds) /\ <<>> \in Seq(Kinds)
      /\ <<"SRV">> \in Seq(Kinds) /\ <<"TXT">> \in Seq(Kinds) /\ <<"SDPTR">> \in Seq(Kinds)
  BY <1>2
<1> HIDE DEF both
<1>5. b \in Answers
  <2> HIDE DEF b
  <2>1. QED
    BY <1>1, <1>3, <1>4, Zenon
<1>6. QED
  BY <1>5

LEMMA AnswerQuestionType ==
    ASSUME NEW f, NEW a \in Answers, NEW q \in Questions
    PROVE AnswerQuestion(f, a, q) \in Answers
<1> DEFINE back == IF f.m.legacy /\ q.t \in {"ANY", "A"} THEN [a EXCEPT !.qs = Append(@, q)] ELSE a
           answered == [back EXCEPT !.count = @ + 1]
           b == AnswerQuestion(f, a, q)
<1>1. back \in Answers
  <2> DEFINE qs == Append(a.qs, q)
  <2>1. qs \in Seq(Questions)
    BY DEF Answers
  <2> HIDE DEF qs
  <2>2. [a EXCEPT !.qs = qs] \in Answers
    BY <2>1 DEF Answers
  <2>3. QED
    BY <2>2 DEF qs
<1>2. answered \in Answers
  <2> HIDE DEF back
  <2> DEFINE n == back.count + 1
  <2>1. n \in Nat
    BY <1>1 DEF Answers
  <2> HIDE DEF n
  <2>2. [back EXCEPT !.count = n] \in Answers
    BY <1>1, <2>1 DEF Answers
  <2>3. QED
    BY <2>2 DEF n
<1>3. b = AnswerService(answered, q, IsShared(f, q)) \/ b = AnswerHostname(answered, q) \/ b = back
  BY DEF AnswerQuestion
<1> HIDE DEF answered, back
<1>4. AnswerHostname(answered, q) \in Answers
  <2> DEFINE x == HostAnswers(answered.an)
  <2>1. x \in Seq(Kinds)
    BY <1>2 DEF HostAnswers, AddAnswer, Answers, Kinds
  <2> HIDE DEF x
  <2>2. [answered EXCEPT !.an = x] \in Answers
    BY <1>2, <2>1 DEF Answers
  <2>3. QED
    BY <1>2, <2>2 DEF AnswerHostname, x
<1>5. QED
  BY <1>1, <1>2, <1>3, <1>4, AnswerServiceType

LEMMA AnswerIn ==
    ASSUME NEW V, NEW f, f.qs \in Seq(Questions),
           [qs |-> <<>>, an |-> <<>>, ar |-> <<>>, count |-> 0] \in V,
           \A a \in V, q \in Questions : AnswerQuestion(f, a, q) \in V
    PROVE Answer(f) \in V
<1> DEFINE n == Len(f.qs)
           z == [qs |-> <<>>, an |-> <<>>, ar |-> <<>>, count |-> 0]
           step == [k \in 1 .. n |-> [a \in V |-> AnswerQuestion(f, a, f.qs[k])]]
           Sol(h) == h = [k \in 0 .. n |->
                            IF k = 0 THEN [qs |-> <<>>, an |-> <<>>, ar |-> <<>>, count |-> 0]
                            ELSE AnswerQuestion(f, h[k - 1], f.qs[k])]
           c == CHOOSE h : Sol(h)
<1>1. n \in Nat /\ \A k \in 1 .. n : f.qs[k] \in Questions
  OBVIOUS
<1>2. z \in V
  OBVIOUS
<1>3. \A a \in V, q \in Questions : AnswerQuestion(f, a, q) \in V
  OBVIOUS
<1>4. step \in Steps(V, n)
  <2> HIDE DEF n
  <2>1. QED
    BY <1>1, <1>3 DEF Steps
<1>5. PICK g : Solves(g, V, z, n, step)
  <2> HIDE DEF step, n, z
  <2>1. QED
    BY <1>1, <1>2, <1>4, Recursion
<1>6. Sol(g)
  <2> HIDE DEF n
  <2>1. g \in [0 .. n -> V] /\ \A k \in 0 .. n : g[k] = IF k = 0 THEN z ELSE step[k][g[k - 1]]
    BY <1>5 DEF Solves
  <2>2. ASSUME NEW k \in 0 .. n
        PROVE g[k] = IF k = 0 THEN z ELSE AnswerQuestion(f, g[k - 1], f.qs[k])
    <3>1. k # 0 => k \in 1 .. n /\ k - 1 \in 0 .. n
      BY <1>1
    <3> HIDE DEF z
    <3>2. QED
      BY <2>1, <3>1
  <2>3. QED
    BY <2>1, <2>2
<1>7. Sol(c)
  <2> HIDE DEF Sol
  <2>1. QED
    BY <1>6
<1>8. \A k \in 0 .. n : c[k] \in V
  <2> HIDE DEF c, n
  <2>1. c[0] \in V
    BY <1>1, <1>2, <1>7
  <2>2. ASSUME NEW k \in 1 .. n, c[k - 1] \in V PROVE c[k] \in V
    <3>1. k \in 0 .. n /\ k # 0
      OBVIOUS
    <3>2. c[k] = AnswerQuestion(f, c[k - 1], f.qs[k])
      BY <1>7, <3>1
    <3>3. QED
      BY <1>1, <1>3, <2>2, <3>2
  <2>3. QED
    BY <1>1, <2>1, <2>2, Throughout
<1>9. Answer(f) = c[n]
  BY Zenon DEF Answer, c, n, Sol
<1>10. QED
  <2> HIDE DEF c, n
  <2>1. QED
    BY <1>1, <1>8, <1>9

LEMMA AnswerType ==
    ASSUME NEW f \in Frames
    PROVE Answer(f) \in Answers
<1>1. f.qs \in Seq(Questions)
  BY DEF Frames
<1>2. [qs |-> <<>>, an |-> <<>>, ar |-> <<>>, count |-> 0] \in Answers
  BY DEF Answers
<1>3. QED
  BY <1>1, <1>2, AnswerIn, AnswerQuestionType

LEMMA CreateAnswerOK ==
    ASSUME EnoughAddrs, NEW f, NEW d, NEW acts, NEW sure, FrameOK(f, d, acts, sure), IsAfterProbing(f),
           NEW e, e = CreateAnswer(f)
    PROVE HandledOK(e, acts, sure, {}) /\ Beside(d, e)
<1> DEFINE a == Answer(f)
           i == f.m.i
           at == Alloc(f.d, {})
           k == Packet(at, i)
           p == [k EXCEPT !.resp = TRUE, !.qs = a.qs, !.an = a.an, !.ar = a.ar]
           b == SendAfter(f.d, p, Shared)
           c == Dispatch(f.d, p)
<1>1. e = f.d \/ e = b \/ e = c
  BY DEF CreateAnswer
<1>2. /\ f.d \in Device /\ i \in Ifaces /\ HandledOK(f.d, acts, sure, {}) /\ Beside(d, f.d)
      /\ f \in Frames /\ f.d.txq \in Seq(Packets)
  BY FrameParts DEF FrameOK, Device
<1>3. at \in Nat /\ FreeIn(f.d.txq, at)
  BY <1>2, FS_EmptySet, FreeAddress
<1>4. a \in Answers
  BY <1>2, AnswerType
<1>5. k = [at |-> at, i |-> i, left |-> 0, queued |-> FALSE, resp |-> FALSE, bye |-> FALSE,
            qs |-> <<>>, an |-> <<>>, ns |-> <<>>, ar |-> <<>>]
  BY DEF Packet
<1>6. /\ a.qs \in Seq(Questions) /\ a.an \in Seq(Kinds) /\ a.ar \in Seq(Kinds)
       /\ <<>> \in Seq(Kinds)
  <2> HIDE DEF a
  <2>1. QED
    BY <1>4 DEF Answers
<1> HIDE DEF a, at, i, k
<1>7. p = [at |-> at, i |-> i, left |-> 0, queued |-> FALSE, resp |-> TRUE, bye |-> FALSE,
           qs |-> a.qs, an |-> a.an, ns |-> <<>>, ar |-> a.ar]
  <2> DEFINE qs == a.qs
             an == a.an
             ar == a.ar
  <2>1. p = [k EXCEPT !.resp = TRUE, !.qs = qs, !.an = an, !.ar = ar]
    OBVIOUS
  <2> HIDE DEF qs, an, ar, p
  <2>2. p = [at |-> at, i |-> i, left |-> 0, queued |-> FALSE, resp |-> TRUE, bye |-> FALSE,
             qs |-> qs, an |-> an, ns |-> <<>>, ar |-> ar]
    BY <1>5, <2>1
  <2>3. QED
    BY <2>2 DEF qs, an, ar
<1>8. 0 \in 0 .. Second /\ Shared \in 0 .. Second
  BY DEF Second, Shared
<1>9. p \in Packets /\ p.i = i /\ p.at = at /\ ~p.queued
  <2> HIDE DEF p
  <2>1. QED
    BY <1>2, <1>3, <1>7, <1>8, <1>6 DEF Packets
<1> USE DEF i
<1> HIDE DEF p
<1>10. HandledOK(c, acts, sure, {}) /\ Beside(f.d, c)
  <2>1. OtherNet(f.d, c)
    BY <1>2, <1>9, DispatchOK
  <2> HIDE DEF c
  <2>2. QED
    BY <1>2, <2>1, OtherNetOK DEF OtherNet
<1>11. HandledOK(b, acts, sure, {}) /\ Beside(f.d, b)
  <2>1. b = SendAfter(f.d, p, Shared)
    OBVIOUS
  <2> HIDE DEF b
  <2>2. BaseOK(f.d, acts, sure) /\ FreeIn(f.d.txq, p.at)
    BY <1>2, <1>3, <1>9 DEF HandledOK
  <2>3. BaseOK(b, acts, sure) /\ Appended(f.d, b, p, Shared)
    BY <1>8, <1>9, <2>1, <2>2, QueuedOK
  <2>4. HandledOK(b, acts, sure, {} \cup {p.i})
    BY <1>2, <2>3, AppendedOK
  <2>5. {} \cup {p.i} = {i}
    BY <1>9
  <2>6. HandledOK(b, acts, sure, {i})
    BY <2>4, <2>5
  <2>7. ASSUME i \in b.ready PROVE MachineOK(b, i)
    <3>1. b.pcb = f.d.pcb /\ i \in f.d.ready /\ Of(b.txq, i) # {}
      BY <1>9, <2>3, <2>7 DEF Appended
    <3>2. MachineOK(f.d, i)
      BY <1>2, <3>1 DEF HandledOK, MachinesBut
    <3>3. ~Probing(f.d.pcb[i])
      <4>1. f.d.pcb[i].state \in {OFF} \cup PROBE_1 .. RUNNING
        BY <1>2 DEF Device, Pcbs
      <4>2. QED
        BY <4>1 DEF IsAfterProbing, Probing, PROBE_1, PROBE_3, OFF, RUNNING
    <3>4. PacketsOf(b, i) # {}
      BY <3>1 DEF PacketsOf, Of
    <3>5. QED
      BY <3>1, <3>2, <3>3, <3>4 DEF MachineOK
  <2>8. QED
    BY <2>3, <2>6, <2>7, MachineBack DEF Appended
<1> HIDE DEF b, c
<1>12. HandledOK(e, acts, sure, {}) /\ Beside(f.d, e)
  BY <1>1, <1>2, <1>10, <1>11 DEF Beside
<1>13. QED
  BY <1>2, <1>12 DEF Beside

LEMMA ParsePacketOK ==
    ASSUME EnoughAddrs, NEW d, NEW acts, NEW sure, HandledOK(d, acts, sure, {}), NEW m \in Messages,
           NEW e, e = ParsePacket(d, m)
    PROVE HandledOK(e, acts, sure, {}) /\ Beside(d, e)
<1> DEFINE new == NewFrame(d, m)
           asked == CollectQuestions(new, m.qs)
           rs == m.an \o m.ns \o m.ar
           read == ReadRecords(asked, rs)
<1>1. FrameOK(new, d, acts, sure)
  BY DEF FrameOK, NewFrame, Frames, HandledOK, BaseOK, Beside
<1>2. m.qs \in Seq(Questions) /\ rs \in Seq(Records)
  <2>1. m.qs \in Seq(Questions) /\ m.an \in Seq(Records) /\ m.ns \in Seq(Records) /\ m.ar \in Seq(Records)
    BY DEF Messages
  <2>2. QED
    BY <2>1
<1> HIDE DEF new, rs
<1>3. FrameOK(asked, d, acts, sure)
  BY <1>1, <1>2, CollectQuestionsOK
<1> HIDE DEF asked
<1>4. FrameOK(read, d, acts, sure)
  BY <1>2, <1>3, ReadRecordsOK
<1>5. e = d \/ (IsAfterProbing(read) /\ e = CreateAnswer(read)) \/ e = read.d
  BY DEF ParsePacket, new, asked, rs, read
<1> HIDE DEF read
<1>6. CASE e = d
  BY <1>6 DEF Beside
<1>7. CASE IsAfterProbing(read) /\ e = CreateAnswer(read)
  BY <1>4, <1>7, CreateAnswerOK
<1>8. CASE e = read.d
  BY <1>4, <1>8 DEF FrameOK
<1>9. QED
  BY <1>5, <1>6, <1>7, <1>8
=============================================================================

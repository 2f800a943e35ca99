------------------------------ MODULE Wire_proofs ------------------------------
(***************************************************************************)
(* The framing keeps packets whole and in order, for any number of threads *)
(* and packets, any sizes and limits, and any window.                      *)
(***************************************************************************)
EXTENDS Wire, SequenceTheorems, TLAPS

USE WireAssumption DEF WireAssumption

-----------------------------------------------------------------------------
(* Sequences.                                                              *)

Associates(x, y, z) == (x \o y) \o z = x \o (y \o z)

LEMMA Associative ==
  ASSUME NEW x \in Seq(Byte), NEW y \in Seq(Byte), NEW z \in Seq(Byte)
  PROVE  Associates(x, y, z)
BY ConcatAssociative, SMTT(30) DEF Associates

\* A run at the front of d goes to the end of r.
LEMMA MoveFront ==
  ASSUME NEW r \in Seq(Byte), NEW d \in Seq(Byte), NEW e \in Seq(Byte), NEW k \in 1..Len(d)
  PROVE  (r \o SubSeq(d, 1, k)) \o (SubSeq(d, k + 1, Len(d)) \o e) = r \o (d \o e)
<1> DEFINE a == SubSeq(d, 1, k)
           b == SubSeq(d, k + 1, Len(d))
<1>1. k \in Nat /\ Len(d) \in Nat /\ 1 <= k /\ k <= Len(d) OBVIOUS
<1>2. a \in Seq(Byte) /\ Len(a) = k /\ \A x \in 1..k : a[x] = d[x]
  BY <1>1, SubSeqProperties
<1>3. b \in Seq(Byte) /\ Len(b) = Len(d) - k /\ \A x \in 1..(Len(d) - k) : b[x] = d[k + x]
  BY <1>1, SubSeqProperties
<1> HIDE DEF a, b
<1> DEFINE c == a \o b
<1>4. /\ c \in Seq(Byte) /\ Len(c) = Len(d)
      /\ \A x \in 1..Len(c) : c[x] = IF x <= k THEN a[x] ELSE b[x - k]
  <2>1. /\ c \in Seq(Byte) /\ Len(c) = Len(a) + Len(b)
        /\ \A x \in 1..Len(a) + Len(b) :
             c[x] = IF x <= Len(a) THEN a[x] ELSE b[x - Len(a)]
    BY <1>2, <1>3, ConcatProperties
  <2> HIDE DEF c
  <2> QED BY <1>1, <1>2, <1>3, <2>1
<1>5. ASSUME NEW x \in 1..Len(c) PROVE c[x] = d[x]
  <2>1. CASE x <= k BY <1>1, <1>2, <1>4, <2>1
  <2>2. CASE ~(x <= k)
    <3>1. x - k \in 1..(Len(d) - k) /\ k + (x - k) = x BY <1>1, <1>4, <2>2
    <3> QED BY <1>3, <1>4, <2>2, <3>1
  <2> QED BY <2>1, <2>2
<1>6. a \o b = d
  <2> HIDE DEF c
  <2>1. c = d BY <1>4, <1>5, SeqEqual
  <2> QED BY <2>1 DEF c
<1> HIDE DEF c
<1>7. a \in Seq(Byte) /\ b \in Seq(Byte) BY <1>2, <1>3
<1>8. Associates(r, a, b \o e)
  <2> DEFINE f == b \o e
  <2>1. f \in Seq(Byte) BY <1>7, ConcatProperties
  <2> HIDE DEF f
  <2>2. Associates(r, a, f) BY <1>7, <2>1, Associative
  <2> QED BY <2>2 DEF f
<1>9. Associates(a, b, e) BY <1>7, Associative
<1> QED BY <1>6, <1>8, <1>9 DEF a, b, Associates

-----------------------------------------------------------------------------
(* Bytes.                                                                  *)

LEMMA PacketFacts ==
  ASSUME NEW p \in Packet
  PROVE  /\ p.size \in Nat /\ p.nr \in Nat \ {0} /\ Total(p) \in Nat \ {0}
         /\ Bytes(p) \in Seq(Byte) /\ Len(Bytes(p)) = Total(p)
         /\ \A k \in 1..Total(p) : Bytes(p)[k] = <<p, k>>
<1>1. p.size \in Nat /\ p.nr \in Nat \ {0}
  <2>1. p.size \in Sizes BY DEF Packet
  <2>2. p.size \in Nat BY <2>1
  <2>3. p.nr \in 1..MaxPackets BY DEF Packet
  <2>4. p.nr \in Nat \ {0} BY <2>3
  <2> QED BY <2>2, <2>4
<1>2. Total(p) \in Nat \ {0} BY <1>1 DEF Total
<1>3. \A k \in 1..Total(p) : <<p, k>> \in Byte BY <1>2 DEF Byte
<1>4. Bytes(p) \in [1..Total(p) -> Byte] BY <1>3 DEF Bytes
<1>5. Bytes(p) \in Seq(Byte) /\ Len(Bytes(p)) = Total(p)
  BY <1>2, <1>4, SeqDef, LenProperties
<1> QED BY <1>1, <1>2, <1>5 DEF Bytes

LEMMA ByteFacts ==
  ASSUME NEW s \in Seq(Byte), NEW i \in 1..Len(s)
  PROVE  /\ s[i][1] \in Packet /\ s[i][2] \in Nat \ {0} /\ s[i] = <<s[i][1], s[i][2]>>
         /\ Total(s[i][1]) \in Nat \ {0} /\ i \in Nat
         /\ Before(s, i) \in Int /\ After(s, i) \in Int
<1>1. s[i] \in Byte OBVIOUS
<1>2. s[i][1] \in Packet /\ s[i][2] \in Nat \ {0} /\ s[i] = <<s[i][1], s[i][2]>>
  BY <1>1 DEF Byte
<1>3. Total(s[i][1]) \in Nat \ {0} BY <1>2, PacketFacts
<1> QED BY <1>2, <1>3 DEF Before, After

\* A packet after whole packets.
Appended(s2, s, q) ==
  /\ Whole(s2) /\ s2 \in Seq(Byte) /\ Len(s2) = Len(s) + Total(q)
  /\ \A i \in 1..Len(s) : s2[i] = s[i] /\ After(s2, i) = After(s, i)
  /\ \A i \in 1..Total(q) : s2[Len(s) + i] = <<q, i>>
  /\ \A i \in 1..Len(s2) : i > Len(s) => After(s2, i) = Len(s2)

LEMMA WholeAppend ==
  ASSUME NEW s \in Seq(Byte), Whole(s), NEW q \in Packet
  PROVE  Appended(s \o Bytes(q), s, q)
<1> DEFINE s2 == s \o Bytes(q)
<1>1. /\ Bytes(q) \in Seq(Byte) /\ Len(Bytes(q)) = Total(q) /\ Total(q) \in Nat \ {0}
      /\ \A k \in 1..Total(q) : Bytes(q)[k] = <<q, k>>
  BY PacketFacts
<1>2. /\ s2 \in Seq(Byte) /\ Len(s2) = Len(s) + Total(q) /\ Len(s) \in Nat
      /\ \A i \in 1..Len(s2) : s2[i] = IF i <= Len(s) THEN s[i] ELSE Bytes(q)[i - Len(s)]
  <2> DEFINE b == Bytes(q)
  <2>1. b \in Seq(Byte) /\ Len(b) = Total(q) BY <1>1
  <2> HIDE DEF b
  <2>2. /\ s \o b \in Seq(Byte) /\ Len(s \o b) = Len(s) + Len(b)
        /\ \A i \in 1..Len(s) + Len(b) :
             (s \o b)[i] = IF i <= Len(s) THEN s[i] ELSE b[i - Len(s)]
    BY <2>1, ConcatProperties
  <2> QED BY <1>1, <2>1, <2>2 DEF b
<1> HIDE DEF s2
<1>3. ASSUME NEW i \in 1..Len(s)
      PROVE  s2[i] = s[i] /\ Before(s2, i) = Before(s, i) /\ After(s2, i) = After(s, i)
  BY <1>1, <1>2 DEF Before, After
<1>4. ASSUME NEW i \in 1..Total(q) PROVE s2[Len(s) + i] = <<q, i>>
  <2>1. Len(s) + i \in 1..Len(s2) /\ ~(Len(s) + i <= Len(s)) /\ Len(s) + i - Len(s) = i
    BY <1>1, <1>2
  <2>2. s2[Len(s) + i] = Bytes(q)[i] BY <1>2, <2>1
  <2>3. Bytes(q)[i] = <<q, i>> BY <1>1
  <2> QED BY <2>2, <2>3
<1>5. ASSUME NEW i \in 1..Len(s2), i > Len(s)
      PROVE  /\ s2[i] = <<q, i - Len(s)>>
             /\ Before(s2, i) = Len(s) /\ After(s2, i) = Len(s2)
  <2>1. i - Len(s) \in 1..Total(q) /\ Len(s) + (i - Len(s)) = i BY <1>1, <1>2, <1>5
  <2>2. s2[i] = <<q, i - Len(s)>> BY <1>4, <2>1
  <2>3. s2[i][1] = q /\ s2[i][2] = i - Len(s) BY <2>2
  <2> QED BY <1>1, <1>2, <2>2, <2>3 DEF Before, After
<1>6. ASSUME NEW i \in 1..Len(s2)
      PROVE  /\ Before(s2, i) \in Nat /\ i <= After(s2, i) /\ After(s2, i) <= Len(s2)
             /\ \A k \in 1..Total(s2[i][1]) : s2[Before(s2, i) + k] = <<s2[i][1], k>>
  <2>1. CASE i <= Len(s)
    <3>1. i \in 1..Len(s) BY <1>2, <2>1
    <3>2. /\ Before(s, i) \in Nat /\ i <= After(s, i) /\ After(s, i) <= Len(s)
          /\ \A k \in 1..Total(s[i][1]) : s[Before(s, i) + k] = <<s[i][1], k>>
      BY <3>1 DEF Whole
    <3>3. Total(s[i][1]) \in Nat BY <3>1, ByteFacts
    <3>4. ASSUME NEW k \in 1..Total(s[i][1]) PROVE Before(s, i) + k \in 1..Len(s)
      BY <1>2, <3>2, <3>3 DEF After
    <3>5. After(s, i) <= Len(s2) BY <1>1, <1>2, <3>1, <3>2, ByteFacts
    <3> QED BY <1>3, <3>1, <3>2, <3>4, <3>5
  <2>2. CASE i > Len(s)
    <3>1. s2[i] = <<q, i - Len(s)>> /\ Before(s2, i) = Len(s) /\ After(s2, i) = Len(s2)
      BY <1>5, <2>2
    <3>2. s2[i][1] = q /\ Before(s2, i) \in Nat /\ After(s2, i) <= Len(s2) BY <1>1, <1>2, <3>1
    <3>3. i <= After(s2, i) BY <1>2, <3>1
    <3> QED BY <1>4, <3>1, <3>2, <3>3
  <2>3. i <= Len(s) \/ i > Len(s)
    <3>1. Len(s2) \in Int /\ Len(s) \in Int BY <1>1, <1>2
    <3> QED BY <3>1
  <2> QED BY <2>1, <2>2, <2>3
<1>7. Whole(s2) BY <1>6 DEF Whole
<1>8. Appended(s2, s, q) BY <1>2, <1>3, <1>4, <1>5, <1>7 DEF Appended
<1> QED BY <1>8 DEF s2

\* A packet that is sent takes its turn.
LEMMA TurnTaken ==
  ASSUME NEW s \in Seq(Byte), NEW ps \in Seq(Packet), NEW first \in 1..(Len(ps) + 1),
         Whole(s), Numbered(ps), InTurn(s, first, ps),
         NEW q \in Packet, q.nr = Len(ps) + 1
  PROVE  InTurn(s \o Bytes(q), first, Append(ps, q)) /\ Numbered(Append(ps, q))
<1> DEFINE s2 == s \o Bytes(q)
           ps2 == Append(ps, q)
<1>1. /\ s2 \in Seq(Byte) /\ Len(s2) = Len(s) + Total(q) /\ Len(s) \in Nat
      /\ \A i \in 1..Len(s) : s2[i] = s[i] /\ After(s2, i) = After(s, i)
      /\ \A i \in 1..Total(q) : s2[Len(s) + i] = <<q, i>>
      /\ \A i \in 1..Len(s2) : i > Len(s) => After(s2, i) = Len(s2)
  <2>1. Appended(s2, s, q) BY WholeAppend
  <2> HIDE DEF s2
  <2> QED BY <2>1 DEF Appended
<1>2. Total(q) \in Nat \ {0} BY PacketFacts
<1>3. /\ Len(ps) \in Nat /\ ps2 \in Seq(Packet) /\ Len(ps2) = Len(ps) + 1
      /\ \A i \in 1..Len(ps) : ps2[i] = ps[i]
      /\ ps2[Len(ps) + 1] = q
  OBVIOUS
<1> HIDE DEF s2, ps2
<1>4. Numbered(ps2)
  <2> SUFFICES ASSUME NEW i \in 1..Len(ps2) PROVE ps2[i].nr = i BY DEF Numbered
  <2>1. CASE i = Len(ps) + 1 BY <1>3, <2>1
  <2>2. CASE i \in 1..Len(ps) BY <1>3, <2>2 DEF Numbered
  <2> QED BY <1>3, <2>1, <2>2
<1>5. s2 # <<>> /\ first <= Len(ps2) BY <1>1, <1>2, <1>3
<1>6. s2[1] = <<ps2[first], 1>>
  <2>1. CASE s = <<>>
    <3>1. first = Len(ps) + 1 BY <1>3, <2>1 DEF InTurn
    <3>2. Len(s) = 0 /\ 1 \in 1..Total(q) BY <1>2, <2>1
    <3>3. s2[0 + 1] = <<q, 1>> BY <1>1, <3>2
    <3> QED BY <1>3, <3>1, <3>3
  <2>2. CASE s # <<>>
    <3>1. first \in 1..Len(ps) /\ s[1] = <<ps[first], 1>> BY <1>3, <2>2 DEF InTurn
    <3>2. 1 \in 1..Len(s) BY <1>1, <2>2
    <3> QED BY <1>1, <1>3, <3>1, <3>2
  <2> QED BY <2>1, <2>2
<1>7. s2[Len(s2)][1] = ps2[Len(ps2)]
  <2>1. Total(q) \in 1..Total(q) BY <1>2
  <2>2. s2[Len(s2)] = <<q, Total(q)>> BY <1>1, <2>1
  <2> QED BY <1>3, <2>2
<1>8. ASSUME NEW i \in 1..Len(s2), After(s2, i) < Len(s2)
      PROVE  /\ s2[i][1].nr + 1 <= Len(ps2)
             /\ s2[After(s2, i) + 1] = <<ps2[s2[i][1].nr + 1], 1>>
  <2>1. i \in 1..Len(s) BY <1>1, <1>2, <1>8
  <2>2. s2[i] = s[i] /\ After(s2, i) = After(s, i) BY <1>1, <2>1
  <2>3. /\ Before(s, i) \in Nat /\ After(s, i) <= Len(s) /\ i <= After(s, i)
        /\ \A k \in 1..Total(s[i][1]) : s[Before(s, i) + k] = <<s[i][1], k>>
    BY <2>1 DEF Whole
  <2>4. /\ s[i][1] \in Packet /\ s[i][1].nr \in Nat \ {0} /\ After(s, i) \in Int
        /\ Total(s[i][1]) \in Nat \ {0}
    BY <2>1, ByteFacts, PacketFacts
  <2>5. CASE After(s, i) < Len(s)
    <3>1. /\ s[i][1].nr + 1 <= Len(ps)
          /\ s[After(s, i) + 1] = <<ps[s[i][1].nr + 1], 1>>
      BY <2>1, <2>5 DEF InTurn
    <3>2. i \in Int /\ 1 <= i /\ i <= After(s, i) /\ Len(s) \in Int BY <1>1, <2>1, <2>3
    <3>3. After(s, i) + 1 \in 1..Len(s) BY <2>4, <2>5, <3>2
    <3> DEFINE n == s[i][1].nr
    <3>4. n \in Nat \ {0} /\ n + 1 <= Len(ps) BY <2>4, <3>1
    <3> HIDE DEF n
    <3>5. n + 1 \in 1..Len(ps) BY <1>3, <3>4
    <3>6. s[i][1].nr + 1 \in 1..Len(ps) BY <3>5 DEF n
    <3> QED BY <1>1, <1>3, <2>2, <3>1, <3>3, <3>6, SMTT(30)
  <2>6. CASE After(s, i) = Len(s)
    <3>1. s[Before(s, i) + Total(s[i][1])] = <<s[i][1], Total(s[i][1])>> BY <2>3, <2>4
    <3>2. s[Len(s)][1] = s[i][1] BY <2>6, <3>1 DEF After
    <3>3. s # <<>> BY <2>1
    <3>4. s[i][1] = ps[Len(ps)] /\ first <= Len(ps)
      BY <1>3, <3>2, <3>3 DEF InTurn
    <3>5. s[i][1].nr = Len(ps) BY <1>3, <3>4 DEF Numbered
    <3>6. s2[Len(s) + 1] = <<q, 1>> BY <1>1, <1>2
    <3> QED BY <1>3, <2>2, <2>6, <3>5, <3>6
  <2> QED BY <1>1, <2>3, <2>4, <2>5, <2>6
<1>9. InTurn(s2, first, ps2) BY <1>3, <1>5, <1>6, <1>7, <1>8 DEF InTurn
<1> QED BY <1>4, <1>9 DEF s2, ps2

\* The packet in front is taken out whole, and the next one is in front.
LEMMA TurnDone ==
  ASSUME NEW s \in Seq(Byte), s # <<>>, NEW ps \in Seq(Packet),
         NEW first \in 1..(Len(ps) + 1), Whole(s), Numbered(ps), InTurn(s, first, ps)
  PROVE  LET T == Total(s[1][1])
             t == SubSeq(s, T + 1, Len(s))
         IN  /\ first <= Len(ps) /\ s[1][1] = ps[first] /\ T <= Len(s)
             /\ SubSeq(s, 1, T) = Bytes(ps[first])
             /\ Whole(t) /\ InTurn(t, first + 1, ps)
<1> DEFINE p == ps[first]
           T == Total(s[1][1])
           t == SubSeq(s, T + 1, Len(s))
<1>1. Len(s) \in Nat \ {0} /\ Len(ps) \in Nat /\ 1 \in 1..Len(s) OBVIOUS
<1>2. first \in 1..Len(ps) /\ s[1] = <<p, 1>> /\ s[Len(s)][1] = ps[Len(ps)]
  BY <1>1 DEF InTurn
<1>3. p \in Packet /\ p.nr = first BY <1>2 DEF Numbered
<1>4. T = Total(p) /\ T \in Nat \ {0} BY <1>2, <1>3, PacketFacts
<1> HIDE DEF T
<1>5. Before(s, 1) = 0 /\ After(s, 1) = T BY <1>2, <1>4 DEF Before, After
<1>6. T <= Len(s) /\ \A k \in 1..T : s[k] = <<p, k>>
  <2>1. After(s, 1) <= Len(s) BY <1>1 DEF Whole
  <2>2. \A k \in 1..Total(s[1][1]) : s[Before(s, 1) + k] = <<s[1][1], k>>
    BY <1>1 DEF Whole
  <2>3. s[1][1] = p BY <1>2
  <2> QED BY <1>4, <1>5, <2>1, <2>2, <2>3
<1>7. SubSeq(s, 1, T) = Bytes(p)
  <2> DEFINE a == SubSeq(s, 1, T)
             b == Bytes(p)
  <2>1. a \in Seq(Byte) /\ Len(a) = T /\ \A k \in 1..T : a[k] = s[k]
    BY <1>1, <1>4, <1>6, SubSeqProperties
  <2>2. b \in Seq(Byte) /\ Len(b) = T /\ \A k \in 1..T : b[k] = <<p, k>>
    BY <1>3, <1>4, PacketFacts
  <2> HIDE DEF a, b
  <2>3. a = b BY <1>6, <2>1, <2>2, SeqEqual
  <2> QED BY <2>3 DEF a, b
<1>8. /\ t \in Seq(Byte) /\ Len(t) = Len(s) - T
      /\ \A i \in 1..(Len(s) - T) : t[i] = s[T + i]
  BY <1>1, <1>4, <1>6, SubSeqProperties
<1> HIDE DEF t
<1>9. ASSUME NEW i \in 1..Len(t)
      PROVE  /\ T + i \in 1..Len(s) /\ t[i] = s[T + i]
             /\ Before(t, i) = Before(s, T + i) - T /\ After(t, i) = After(s, T + i) - T
             /\ Before(s, T + i) \in Nat /\ After(s, T + i) \in Int
             /\ T + i <= After(s, T + i) /\ After(s, T + i) <= Len(s)
             /\ T <= Before(s, T + i) /\ i \in Int
  <2>1. T + i \in 1..Len(s) /\ t[i] = s[T + i] BY <1>1, <1>4, <1>6, <1>8
  <2>2. /\ s[T + i][1] \in Packet /\ Total(s[T + i][1]) \in Nat \ {0}
        /\ After(s, T + i) \in Int /\ s[T + i][2] \in Nat
    BY <2>1, ByteFacts
  <2>3. /\ Before(s, T + i) \in Nat /\ T + i <= After(s, T + i)
        /\ After(s, T + i) <= Len(s)
        /\ \A k \in 1..Total(s[T + i][1]) : s[Before(s, T + i) + k] = <<s[T + i][1], k>>
    BY <2>1 DEF Whole
  <2>4. Before(t, i) = Before(s, T + i) - T /\ After(t, i) = After(s, T + i) - T
    <3>1. Len(t) \in Int /\ i \in Int BY <1>1, <1>4, <1>8
    <3>2. Before(t, i) = Before(s, T + i) - T
      <4>1. t[i][2] = s[T + i][2] BY <2>1
      <4> DEFINE n == s[T + i][2]
      <4>2. n \in Int /\ i \in Int /\ T \in Int BY <1>4, <2>2, <3>1
      <4>3. Before(t, i) = i - n /\ Before(s, T + i) = (T + i) - n BY <4>1 DEF Before
      <4> HIDE DEF n
      <4> QED BY <4>2, <4>3
    <3>3. t[i][1] = s[T + i][1] BY <2>1
    <3>4. Before(s, T + i) \in Int BY <2>1, ByteFacts
    <3> QED BY <1>4, <2>2, <3>2, <3>3, <3>4 DEF After
  <2>5. T <= Before(s, T + i)
    <3>1. SUFFICES ASSUME Before(s, T + i) < T PROVE FALSE BY <1>4, <2>3
    <3>2. s[Before(s, T + i) + 1] = <<s[T + i][1], 1>> BY <2>2, <2>3
    <3>3. Before(s, T + i) + 1 \in 1..T BY <1>4, <2>3, <3>1
    <3>4. s[Before(s, T + i) + 1] = <<p, Before(s, T + i) + 1>> BY <1>6, <3>3
    <3>5. s[T + i][1] = p /\ Before(s, T + i) = 0 BY <2>3, <3>2, <3>4
    <3>6. After(s, T + i) = T BY <1>4, <3>5 DEF After
    <3> QED BY <1>4, <2>1, <2>3, <3>6
  <2>6. i \in Int BY <1>1, <1>4, <1>8
  <2> QED BY <2>1, <2>2, <2>3, <2>4, <2>5, <2>6
<1>10. ASSUME NEW i \in 1..Len(t)
       PROVE  /\ Before(t, i) \in Nat /\ i <= After(t, i) /\ After(t, i) <= Len(t)
              /\ \A k \in 1..Total(t[i][1]) : t[Before(t, i) + k] = <<t[i][1], k>>
  <2>1. Before(t, i) \in Nat /\ i <= After(t, i) /\ After(t, i) <= Len(t)
    <3> DEFINE u == Before(t, i)
               v == After(t, i)
               x == Before(s, T + i)
               y == After(s, T + i)
    <3>1. /\ u = x - T /\ v = y - T /\ x \in Nat /\ y \in Int
          /\ T + i <= y /\ y <= Len(s) /\ T <= x /\ i \in Int
      BY <1>9
    <3>2. T \in Int /\ Len(s) \in Int /\ Len(t) = Len(s) - T BY <1>1, <1>4, <1>8
    <3> HIDE DEF u, v, x, y
    <3>3. u \in Nat /\ i <= v /\ v <= Len(t) BY <3>1, <3>2
    <3> QED BY <3>3 DEF u, v
  <2>2. ASSUME NEW k \in 1..Total(t[i][1]) PROVE t[Before(t, i) + k] = <<t[i][1], k>>
    <3>1. t[i][1] = s[T + i][1] /\ Total(s[T + i][1]) \in Nat \ {0} BY <1>9, ByteFacts
    <3>2. s[Before(s, T + i) + k] = <<s[T + i][1], k>> BY <1>9, <3>1 DEF Whole
    <3>3. /\ Before(t, i) + k \in 1..(Len(s) - T)
          /\ T + (Before(t, i) + k) = Before(s, T + i) + k
      <4>1. k \in Int /\ 1 <= k /\ k <= Total(s[T + i][1]) BY <3>1
      <4>2. /\ Before(t, i) = Before(s, T + i) - T /\ T <= Before(s, T + i)
            /\ Before(s, T + i) \in Nat /\ After(s, T + i) <= Len(s)
        BY <1>9
      <4>3. After(s, T + i) = Before(s, T + i) + Total(s[T + i][1]) BY DEF After
      <4> HIDE DEF Before, After
      <4> DEFINE b == Before(t, i)
                 c == Before(s, T + i)
                 n == Total(s[T + i][1])
      <4>4. /\ b = c - T /\ T <= c /\ c + n <= Len(s) /\ k <= n
            /\ c \in Int /\ n \in Int /\ T \in Int /\ Len(s) \in Int
        BY <1>1, <1>4, <3>1, <4>1, <4>2, <4>3
      <4> HIDE DEF b, c, n
      <4>6. b + k \in 1..(Len(s) - T)
        <5>1. b + k \in Int /\ 1 <= b + k /\ b + k <= Len(s) - T BY <4>1, <4>4
        <5> QED BY <4>4, <5>1
      <4>5. T + (Before(t, i) + k) = Before(s, T + i) + k BY <4>1, <4>4 DEF b, c
      <4> QED BY <4>5, <4>6 DEF b
    <3> QED BY <1>8, <3>1, <3>2, <3>3
  <2> QED BY <2>1, <2>2
<1>11. Whole(t) BY <1>10 DEF Whole
<1>12. t = <<>> <=> first + 1 > Len(ps)
  <2>1. CASE T = Len(s)
    <3>1. s[Len(s)] = <<p, T>> BY <1>4, <1>6, <2>1
    <3>2. p = ps[Len(ps)] BY <1>2, <3>1
    <3>3. first = Len(ps) BY <1>1, <1>2, <1>3, <3>2 DEF Numbered
    <3>4. t = <<>> BY <1>8, <2>1
    <3> QED BY <1>1, <3>3, <3>4
  <2>2. CASE T < Len(s)
    <3>1. first + 1 <= Len(ps) BY <1>1, <1>2, <1>3, <1>5, <2>2 DEF InTurn
    <3>2. t # <<>> BY <1>1, <1>4, <1>8, <2>2
    <3> QED BY <1>1, <3>1, <3>2
  <2> QED BY <1>1, <1>4, <1>6, <2>1, <2>2
<1>13. ASSUME t # <<>> PROVE t[1] = <<ps[first + 1], 1>> /\ t[Len(t)][1] = ps[Len(ps)]
  <2>1. T < Len(s) BY <1>1, <1>4, <1>6, <1>8, <1>13
  <2>2. s[T + 1] = <<ps[first + 1], 1>> BY <1>1, <1>2, <1>3, <1>5, <2>1 DEF InTurn
  <2>3. 1 \in 1..(Len(s) - T) /\ Len(t) \in 1..(Len(s) - T) /\ T + Len(t) = Len(s)
    BY <1>1, <1>4, <1>8, <2>1
  <2> QED BY <1>2, <1>8, <2>2, <2>3
<1>14. ASSUME NEW i \in 1..Len(t), After(t, i) < Len(t)
       PROVE  /\ t[i][1].nr + 1 <= Len(ps)
              /\ t[After(t, i) + 1] = <<ps[t[i][1].nr + 1], 1>>
  <2>1. After(s, T + i) < Len(s) BY <1>1, <1>4, <1>8, <1>9, <1>14
  <2>2. /\ t[i][1].nr + 1 <= Len(ps)
        /\ s[After(s, T + i) + 1] = <<ps[t[i][1].nr + 1], 1>>
    BY <1>9, <2>1 DEF InTurn
  <2>3. /\ After(t, i) + 1 \in 1..(Len(s) - T)
        /\ T + (After(t, i) + 1) = After(s, T + i) + 1
    <3>1. /\ After(t, i) = After(s, T + i) - T /\ After(s, T + i) \in Int
          /\ T + i <= After(s, T + i) /\ i \in Int /\ 1 <= i
      BY <1>9
    <3> DEFINE v == After(t, i)
               y == After(s, T + i)
    <3>2. v = y - T /\ y \in Int /\ T + i <= y /\ i \in Int /\ 1 <= i /\ y < Len(s)
      BY <2>1, <3>1
    <3>3. T \in Int /\ Len(s) \in Int BY <1>1, <1>4
    <3> HIDE DEF v, y
    <3>4. v + 1 \in 1..(Len(s) - T) /\ T + (v + 1) = y + 1 BY <3>2, <3>3
    <3> QED BY <3>4 DEF v, y
  <2> QED BY <1>8, <2>2, <2>3
<1>15. InTurn(t, first + 1, ps) BY <1>12, <1>13, <1>14 DEF InTurn
<1>16. s[1][1] = p BY <1>2
<1> QED BY <1>1, <1>2, <1>6, <1>7, <1>11, <1>15, <1>16 DEF t, T

\* A run at the front of r is one at the front of r and e, and the rest stays.
LEMMA CutFront ==
  ASSUME NEW S, NEW r \in Seq(S), NEW e \in Seq(S), NEW k \in 1..Len(r)
  PROVE  /\ SubSeq(r, 1, k) = SubSeq(r \o e, 1, k)
         /\ SubSeq(r, k + 1, Len(r)) \o e = SubSeq(r \o e, k + 1, Len(r \o e))
<1> DEFINE s == r \o e
<1>1. /\ k \in Nat \ {0} /\ Len(r) \in Nat /\ k <= Len(r) /\ Len(e) \in Nat
  BY LenProperties
<1>2. /\ s \in Seq(S) /\ Len(s) = Len(r) + Len(e)
      /\ \A x \in 1..Len(r) + Len(e) : s[x] = IF x <= Len(r) THEN r[x] ELSE e[x - Len(r)]
  BY ConcatProperties
<1> HIDE DEF s
<1>3. SubSeq(r, 1, k) = SubSeq(s, 1, k)
  <2> DEFINE a == SubSeq(r, 1, k)
             b == SubSeq(s, 1, k)
  <2>1. a \in Seq(S) /\ Len(a) = k /\ \A x \in 1..k : a[x] = r[x]
    BY <1>1, SubSeqProperties
  <2>2. b \in Seq(S) /\ Len(b) = k /\ \A x \in 1..k : b[x] = s[x]
    BY <1>1, <1>2, SubSeqProperties
  <2> HIDE DEF a, b
  <2>3. a = b BY <1>1, <1>2, <2>1, <2>2, SeqEqual
  <2> QED BY <2>3 DEF a, b
<1>4. SubSeq(r, k + 1, Len(r)) \o e = SubSeq(s, k + 1, Len(s))
  <2> DEFINE a == SubSeq(r, k + 1, Len(r))
             c == a \o e
             b == SubSeq(s, k + 1, Len(s))
             n == Len(r) - k
  <2>1. a \in Seq(S) /\ Len(a) = n /\ \A x \in 1..n : a[x] = r[k + x]
    BY <1>1, SubSeqProperties
  <2>2. /\ b \in Seq(S) /\ Len(b) = n + Len(e)
        /\ \A x \in 1..(n + Len(e)) : b[x] = s[k + x]
    <3>1. /\ SubSeq(s, k + 1, Len(s)) \in Seq(S)
          /\ Len(SubSeq(s, k + 1, Len(s))) = Len(s) - k
          /\ \A x \in 1..(Len(s) - k) : SubSeq(s, k + 1, Len(s))[x] = s[k + x]
      BY <1>1, <1>2, SubSeqProperties
    <3>2. Len(s) - k = n + Len(e) BY <1>1, <1>2
    <3> QED BY <3>1, <3>2
  <2>3. n \in Nat /\ n + k = Len(r) BY <1>1
  <2> HIDE DEF a, b, n
  <2>4. /\ c \in Seq(S) /\ Len(c) = n + Len(e)
        /\ \A x \in 1..(n + Len(e)) : c[x] = IF x <= n THEN a[x] ELSE e[x - n]
    <3>1. /\ a \o e \in Seq(S) /\ Len(a \o e) = Len(a) + Len(e)
          /\ \A x \in 1..Len(a) + Len(e) :
               (a \o e)[x] = IF x <= Len(a) THEN a[x] ELSE e[x - Len(a)]
      BY <2>1, ConcatProperties
    <3> QED BY <2>1, <3>1
  <2> HIDE DEF c
  <2>5. ASSUME NEW x \in 1..(n + Len(e)) PROVE c[x] = b[x]
    <3>1. b[x] = s[k + x] /\ k + x \in 1..(Len(r) + Len(e)) BY <1>1, <2>2, <2>3
    <3>2. CASE x <= n
      <4>1. x \in 1..n /\ k + x <= Len(r) BY <1>1, <2>3, <3>2
      <4> QED BY <1>2, <2>1, <2>4, <3>1, <3>2, <4>1
    <3>3. CASE ~(x <= n)
      <4>1. ~(k + x <= Len(r)) /\ (k + x) - Len(r) = x - n BY <1>1, <2>3, <3>3
      <4> QED BY <1>2, <2>4, <3>1, <3>3, <4>1
    <3> QED BY <3>2, <3>3
  <2>6. c = b BY <2>2, <2>4, <2>5, SeqEqual
  <2> QED BY <2>6 DEF a, b, c
<1> QED BY <1>3, <1>4 DEF s

LEMMA EmptyBehind ==
  ASSUME NEW S, NEW r \in Seq(S)
  PROVE  r \o <<>> = r
BY ConcatEmptySeq

-----------------------------------------------------------------------------
(* The inductive invariant.                                                *)

held == IF lock = NoThread THEN lost ELSE rest[lock]

LEMMA StreamParts ==
  ASSUME TypeOK
  PROVE  /\ held \in Seq(Byte) /\ net \o held \in Seq(Byte) /\ Stream \in Seq(Byte)
         /\ Stream = recvBuf \o (net \o held)
<1>1. held \in Seq(Byte) BY DEF TypeOK, held
<1>2. Stream = recvBuf \o (net \o held) BY DEF Stream, held
<1> QED BY <1>1, <1>2, ConcatProperties DEF TypeOK

LEMMA InitInv == Init => IInv
<1> SUFFICES ASSUME Init PROVE IInv OBVIOUS
<1>1. \A S : <<>> \in Seq(S) BY EmptySeq
<1>2. TypeOK BY <1>1 DEF Init, TypeOK
<1>3. LockInv BY DEF Init, LockInv
<1>4. Len(inbox) = 0 /\ Len(started) = 0 BY DEF Init
<1>5. OrderInv BY <1>4 DEF OrderInv, Numbered
<1>6. Stream = <<>> /\ Len(Stream) = 0
  <2>1. <<>> \o <<>> = <<>> BY <1>1, EmptyBehind
  <2> QED BY <2>1 DEF Stream, Init
<1>7. Whole(Stream) BY <1>6 DEF Whole
<1>8. InTurn(Stream, Len(inbox) + 1, started) BY <1>4, <1>6 DEF InTurn
<1>9. lost = <<>> BY DEF Init
<1> QED BY <1>2, <1>3, <1>5, <1>7, <1>8, <1>9 DEF IInv, StreamInv

\* A packet is sent: whole packets are followed by one that has the next number.
LEMMA SendStep ==
  ASSUME IInv, NEW t \in Thread, NEW size \in Sizes, Send(t, size)
  PROVE  IInv'
<1> DEFINE q == [from |-> t, nr |-> Len(started) + 1, size |-> size]
<1>1. /\ up /\ lock = NoThread /\ Len(started) < MaxPackets /\ lock' = t
      /\ rest' = [rest EXCEPT ![t] = Bytes(q)] /\ started' = Append(started, q)
      /\ net' = net /\ recvBuf' = recvBuf /\ inbox' = inbox /\ lost' = lost /\ up' = up
  BY DEF Send
<1>2. TypeOK /\ LockInv /\ OrderInv /\ StreamInv BY DEF IInv
<1>3. started \in Seq(Packet) /\ Len(started) \in Nat BY <1>2 DEF TypeOK
<1>4. q \in Packet /\ q.nr = Len(started) + 1
  <2>1. Len(started) + 1 \in 1..MaxPackets BY <1>1, <1>3
  <2> QED BY <2>1 DEF Packet
<1> HIDE DEF q
<1>5. Bytes(q) \in Seq(Byte) BY <1>4, PacketFacts
<1>6. started' \in Seq(Packet) /\ Len(started') = Len(started) + 1
      /\ \A i \in 1..Len(started) : started'[i] = started[i]
  BY <1>1, <1>3, <1>4
<1>7. TypeOK' BY <1>1, <1>2, <1>5, <1>6 DEF TypeOK
<1>8. LockInv' BY <1>1, <1>2 DEF LockInv, TypeOK
<1>9. Stream' = Stream \o Bytes(q)
  <2>1. Stream = recvBuf \o net
    <3>1. net \in Seq(Byte) BY <1>2 DEF TypeOK
    <3>2. net \o <<>> = net BY <3>1, EmptyBehind
    <3>3. lost = <<>> BY <1>1, <1>2 DEF StreamInv
    <3> QED BY <1>1, <3>2, <3>3 DEF Stream
  <2>2. Stream' = recvBuf \o (net \o Bytes(q))
    <3>1. lock' # NoThread /\ rest'[lock'] = Bytes(q) BY <1>1, <1>2 DEF TypeOK
    <3> QED BY <1>1, <3>1 DEF Stream
  <2>3. recvBuf \in Seq(Byte) /\ net \in Seq(Byte) BY <1>2 DEF TypeOK
  <2>4. recvBuf \o (net \o Bytes(q)) = (recvBuf \o net) \o Bytes(q)
    <3>1. Associates(recvBuf, net, Bytes(q)) BY <1>5, <2>3, Associative
    <3> QED BY <3>1 DEF Associates
  <2> QED BY <2>1, <2>2, <2>4
<1>10. Stream \in Seq(Byte) BY <1>2, StreamParts
<1>11. Whole(Stream) /\ InTurn(Stream, Len(inbox) + 1, started) /\ Numbered(started)
  BY <1>1, <1>2 DEF StreamInv, OrderInv
<1>12. Len(inbox) \in Nat /\ Len(inbox) <= Len(started) BY <1>2 DEF TypeOK, OrderInv
<1>13. Whole(Stream \o Bytes(q)) BY <1>4, <1>10, <1>11, WholeAppend DEF Appended
<1>14. InTurn(Stream \o Bytes(q), Len(inbox) + 1, started') /\ Numbered(started')
  <2>1. Len(inbox) + 1 \in 1..(Len(started) + 1) BY <1>3, <1>12
  <2>2. /\ InTurn(Stream \o Bytes(q), Len(inbox) + 1, Append(started, q))
        /\ Numbered(Append(started, q))
    BY <1>3, <1>4, <1>10, <1>11, <2>1, TurnTaken
  <2> QED BY <1>1, <2>2
<1>15. StreamInv' BY <1>1, <1>2, <1>9, <1>13, <1>14 DEF StreamInv, Whole, InTurn, Before, After
<1>16. OrderInv'
  <2>1. Len(inbox') <= Len(started') BY <1>1, <1>3, <1>6, <1>12
  <2>2. ASSUME NEW i \in 1..Len(inbox') PROVE inbox'[i] = Bytes(started'[i])
    <3>1. i \in 1..Len(inbox) /\ i \in 1..Len(started) BY <1>1, <1>3, <1>12, <2>2
    <3>2. inbox[i] = Bytes(started[i]) BY <1>2, <3>1 DEF OrderInv
    <3> QED BY <1>1, <1>6, <3>1, <3>2
  <2> QED BY <1>14, <2>1, <2>2 DEF OrderInv, Numbered, Bytes, Total
<1> QED BY <1>7, <1>8, <1>15, <1>16 DEF IInv

\* A part of a packet goes out: the stream is the same.
LEMMA SendSomeStep ==
  ASSUME IInv, NEW t \in Thread, SendSome(t)
  PROVE  IInv'
<1>1. /\ up /\ rest[t] # <<>> /\ UNCHANGED <<lock, recvBuf, inbox, started, lost, up>>
  BY DEF SendSome
<1>2. PICK k \in 1..Len(rest[t]) :
        /\ net' = net \o SubSeq(rest[t], 1, k)
        /\ rest' = [rest EXCEPT ![t] = SubSeq(@, k + 1, Len(@))]
  BY DEF SendSome
<1>3. TypeOK /\ LockInv /\ OrderInv /\ StreamInv BY DEF IInv
<1>4. rest[t] \in Seq(Byte) /\ net \in Seq(Byte) /\ recvBuf \in Seq(Byte) BY <1>3 DEF TypeOK
<1>5. k \in Nat /\ Len(rest[t]) \in Nat /\ 1 <= k /\ k <= Len(rest[t]) BY <1>2, <1>4
<1>6. SubSeq(rest[t], 1, k) \in Seq(Byte) /\ SubSeq(rest[t], k + 1, Len(rest[t])) \in Seq(Byte)
  BY <1>4, <1>5, SubSeqProperties
<1>7. net' \in Seq(Byte) BY <1>2, <1>4, <1>6, ConcatProperties
<1>8. TypeOK' BY <1>1, <1>2, <1>3, <1>6, <1>7 DEF TypeOK
<1>9. lock = t /\ t # NoThread BY <1>1, <1>3 DEF LockInv
<1>10. LockInv' BY <1>1, <1>2, <1>3, <1>9 DEF LockInv, TypeOK
<1>11. OrderInv' BY <1>1, <1>3 DEF OrderInv, Numbered, Bytes, Total
<1>12. Stream' = Stream
  <2>1. rest'[t] = SubSeq(rest[t], k + 1, Len(rest[t])) BY <1>2, <1>3 DEF TypeOK
  <2>2. Stream' = recvBuf \o ((net \o SubSeq(rest[t], 1, k)) \o SubSeq(rest[t], k + 1, Len(rest[t])))
    BY <1>1, <1>2, <1>9, <2>1 DEF Stream
  <2>3. (net \o SubSeq(rest[t], 1, k)) \o SubSeq(rest[t], k + 1, Len(rest[t])) = net \o rest[t]
    <3>1. \A e \in Seq(Byte) :
            (net \o SubSeq(rest[t], 1, k)) \o (SubSeq(rest[t], k + 1, Len(rest[t])) \o e)
              = net \o (rest[t] \o e)
      <4> DEFINE d == rest[t]
      <4>1. d \in Seq(Byte) /\ k \in 1..Len(d) BY <1>2, <1>4
      <4> HIDE DEF d
      <4>2. ASSUME NEW r \in Seq(Byte), NEW e \in Seq(Byte)
            PROVE  (r \o SubSeq(d, 1, k)) \o (SubSeq(d, k + 1, Len(d)) \o e) = r \o (d \o e)
        BY <4>1, MoveFront
      <4>3. net \in Seq(Byte) BY <1>4
      <4> QED BY <4>2, <4>3 DEF d
    <3>2. (net \o SubSeq(rest[t], 1, k)) \o (SubSeq(rest[t], k + 1, Len(rest[t])) \o <<>>)
            = net \o (rest[t] \o <<>>)
      <4>1. <<>> \in Seq(Byte) BY EmptySeq
      <4> QED BY <3>1, <4>1, Zenon
    <3>3. rest[t] \o <<>> = rest[t] BY <1>4, EmptyBehind
    <3>4. SubSeq(rest[t], k + 1, Len(rest[t])) \o <<>> = SubSeq(rest[t], k + 1, Len(rest[t]))
      BY <1>6, EmptyBehind
    <3> QED BY <3>2, <3>3, <3>4
  <2>4. Stream = recvBuf \o (net \o rest[t]) BY <1>9 DEF Stream
  <2> QED BY <2>2, <2>3, <2>4
<1>13. StreamInv' BY <1>1, <1>3, <1>12 DEF StreamInv, Whole, InTurn, Before, After, Total
<1> QED BY <1>8, <1>10, <1>11, <1>13 DEF IInv

\* SendAll returns: nothing is left to send, or the connection is down.
LEMMA SendReturnsStep ==
  ASSUME IInv, NEW t \in Thread, SendReturns(t)
  PROVE  IInv'
<1>1. /\ lock = t /\ (rest[t] = <<>> \/ ~up) /\ lock' = NoThread
      /\ rest' = [rest EXCEPT ![t] = <<>>] /\ lost' = rest[t]
      /\ UNCHANGED <<net, recvBuf, inbox, started, up>>
  BY DEF SendReturns
<1>2. TypeOK /\ LockInv /\ OrderInv /\ StreamInv BY DEF IInv
<1>3. TypeOK'
  <2>1. <<>> \in Seq(Byte) BY EmptySeq
  <2> QED BY <1>1, <1>2, <2>1 DEF TypeOK
<1>4. LockInv' BY <1>1, <1>2 DEF LockInv, TypeOK
<1>5. OrderInv' BY <1>1, <1>2 DEF OrderInv, Numbered, Bytes, Total
<1>6. StreamInv'
  <2>1. Stream' = Stream BY <1>1 DEF Stream
  <2>2. up' => lost' = <<>> BY <1>1
  <2> QED BY <1>1, <1>2, <2>1, <2>2 DEF StreamInv, Whole, InTurn, Before, After, Total
<1> QED BY <1>3, <1>4, <1>5, <1>6 DEF IInv

\* A part of what is on its way comes in: the stream is the same.
LEMMA RecvStep ==
  ASSUME IInv, Recv
  PROVE  IInv'
<1>1. UNCHANGED <<lock, rest, inbox, started, lost, up>> BY DEF Recv
<1>2. PICK k \in 1..Len(net) :
        recvBuf' = recvBuf \o SubSeq(net, 1, k) /\ net' = SubSeq(net, k + 1, Len(net))
  BY DEF Recv
<1>3. TypeOK /\ LockInv /\ OrderInv /\ StreamInv BY DEF IInv
<1>4. net \in Seq(Byte) /\ recvBuf \in Seq(Byte) /\ held \in Seq(Byte)
  BY <1>3, StreamParts DEF TypeOK
<1>5. k \in Nat /\ Len(net) \in Nat /\ 1 <= k /\ k <= Len(net) BY <1>2, <1>4
<1>6. SubSeq(net, 1, k) \in Seq(Byte) /\ net' \in Seq(Byte)
  BY <1>2, <1>4, <1>5, SubSeqProperties
<1>7. recvBuf' \in Seq(Byte) BY <1>2, <1>4, <1>6, ConcatProperties
<1>8. TypeOK' BY <1>1, <1>3, <1>6, <1>7 DEF TypeOK
<1>9. LockInv' BY <1>1, <1>3 DEF LockInv
<1>10. OrderInv' BY <1>1, <1>3 DEF OrderInv, Numbered, Bytes, Total
<1>11. Stream' = Stream
  <2>1. Stream' = (recvBuf \o SubSeq(net, 1, k)) \o (SubSeq(net, k + 1, Len(net)) \o held)
    BY <1>1, <1>2 DEF Stream, held
  <2>2. Stream = recvBuf \o (net \o held) BY <1>3, StreamParts
  <2> QED BY <1>4, <2>1, <2>2, MoveFront
<1>12. StreamInv' BY <1>1, <1>3, <1>11 DEF StreamInv, Whole, InTurn, Before, After, Total
<1> QED BY <1>8, <1>9, <1>10, <1>12 DEF IInv

\* What is extracted is the packet whose turn it is, in all its bytes.
LEMMA Extracted ==
  ASSUME IInv, Extract
  PROVE  /\ Len(inbox) < Len(started) /\ UNCHANGED <<started, lost, up>>
         /\ inbox' = Append(inbox, Bytes(started[Len(inbox) + 1]))
         /\ recvBuf' \in Seq(Byte) /\ UNCHANGED <<lock, rest, net>>
         /\ Whole(Stream') /\ InTurn(Stream', Len(inbox) + 2, started)
<1> DEFINE T == HeaderSize + BodySize
           first == Len(inbox) + 1
<1>1. /\ UNCHANGED <<lock, rest, net, started, lost, up>> /\ PacketIsIn
      /\ inbox' = Append(inbox, SubSeq(recvBuf, 1, T))
      /\ recvBuf' = SubSeq(recvBuf, T + 1, Len(recvBuf))
  BY DEF Extract
<1>2. TypeOK /\ OrderInv /\ StreamInv BY DEF IInv
<1>3. /\ recvBuf \in Seq(Byte) /\ held \in Seq(Byte) /\ net \in Seq(Byte)
      /\ net \o held \in Seq(Byte)
      /\ Stream \in Seq(Byte) /\ Stream = recvBuf \o (net \o held)
  BY <1>2, StreamParts DEF TypeOK
<1>4. Len(recvBuf) \in Nat \ {0} /\ T <= Len(recvBuf)
  <2>1. Len(recvBuf) >= HeaderSize /\ T <= Len(recvBuf)
    BY <1>1 DEF PacketIsIn, HeaderIsIn
  <2>2. Len(recvBuf) \in Nat BY <1>3
  <2> QED BY <2>1, <2>2
<1>5. Stream # <<>> /\ Stream[1] = recvBuf[1]
  <2>1. 1 \in 1..Len(recvBuf) BY <1>4
  <2>2. /\ Len(Stream) = Len(recvBuf) + Len(net \o held) /\ Len(net \o held) \in Nat
        /\ \A x \in 1..(Len(recvBuf) + Len(net \o held)) :
             Stream[x] = IF x <= Len(recvBuf) THEN recvBuf[x]
                         ELSE (net \o held)[x - Len(recvBuf)]
    BY <1>3, ConcatProperties
  <2>3. 1 \in 1..(Len(recvBuf) + Len(net \o held)) /\ 1 <= Len(recvBuf) BY <1>4, <2>2
  <2>4. Len(Stream) # 0 BY <1>4, <2>2
  <2> QED BY <2>2, <2>3, <2>4
<1>6. T = Total(Stream[1][1]) BY <1>5 DEF BodySize, Total
<1>7. T \in Nat \ {0}
  <2>1. 1 \in 1..Len(recvBuf) BY <1>4
  <2>2. recvBuf[1][1] \in Packet BY <1>3, <2>1, ByteFacts
  <2> QED BY <1>5, <1>6, <2>2, PacketFacts
<1> HIDE DEF T
<1>8. /\ Whole(Stream) /\ InTurn(Stream, first, started) /\ Numbered(started)
      /\ started \in Seq(Packet) /\ Len(inbox) \in Nat /\ Len(inbox) <= Len(started)
  BY <1>1, <1>2 DEF StreamInv, OrderInv, TypeOK
<1>9. Len(started) \in Nat /\ first \in 1..(Len(started) + 1) BY <1>8
<1> DEFINE s == Stream
<1>10. /\ first <= Len(started) /\ SubSeq(s, 1, T) = Bytes(started[first])
       /\ Whole(SubSeq(s, T + 1, Len(s)))
       /\ InTurn(SubSeq(s, T + 1, Len(s)), first + 1, started)
  <2>1. s \in Seq(Byte) /\ s # <<>> /\ Whole(s) /\ InTurn(s, first, started) /\ T = Total(s[1][1])
    BY <1>3, <1>5, <1>6, <1>8
  <2> HIDE DEF s, first
  <2> QED BY <1>8, <1>9, <2>1, TurnDone
<1>11. T \in 1..Len(recvBuf) BY <1>4, <1>7
<1>12. /\ SubSeq(recvBuf, 1, T) = SubSeq(s, 1, T)
       /\ SubSeq(recvBuf, T + 1, Len(recvBuf)) \o (net \o held) = SubSeq(s, T + 1, Len(s))
  BY <1>3, <1>11, CutFront
<1>13. Stream' = SubSeq(s, T + 1, Len(s)) BY <1>1, <1>12 DEF Stream, held
<1>14. recvBuf' \in Seq(Byte) BY <1>1, <1>3, <1>4, <1>7, SubSeqProperties
<1>15. first + 1 = Len(inbox) + 2 /\ Len(inbox) < Len(started) BY <1>8, <1>9, <1>10
<1> QED BY <1>1, <1>10, <1>12, <1>13, <1>14, <1>15

LEMMA ExtractStep ==
  ASSUME IInv, Extract
  PROVE  IInv'
<1> DEFINE n == Len(inbox)
<1>1. /\ n < Len(started) /\ UNCHANGED <<started, lost, up>>
      /\ inbox' = Append(inbox, Bytes(started[n + 1]))
      /\ recvBuf' \in Seq(Byte) /\ UNCHANGED <<lock, rest, net>>
      /\ Whole(Stream') /\ InTurn(Stream', n + 2, started)
  BY Extracted
<1>2. TypeOK /\ LockInv /\ OrderInv BY DEF IInv
<1>3. n \in Nat /\ Len(started) \in Nat /\ inbox \in Seq(Seq(Byte)) /\ started \in Seq(Packet)
  BY <1>2 DEF TypeOK
<1>4. Bytes(started[n + 1]) \in Seq(Byte)
  <2>1. n + 1 \in 1..Len(started) BY <1>1, <1>3
  <2>2. started[n + 1] \in Packet BY <1>3, <2>1
  <2> QED BY <2>2, PacketFacts
<1>5. /\ inbox' \in Seq(Seq(Byte)) /\ Len(inbox') = n + 1
      /\ \A i \in 1..n : inbox'[i] = inbox[i]
      /\ inbox'[n + 1] = Bytes(started[n + 1])
  BY <1>1, <1>3, <1>4
<1>6. TypeOK' BY <1>1, <1>2, <1>5 DEF TypeOK
<1>7. LockInv' BY <1>1, <1>2 DEF LockInv
<1>8. OrderInv'
  <2>1. Len(inbox') <= Len(started') BY <1>1, <1>3, <1>5
  <2>2. ASSUME NEW i \in 1..Len(inbox') PROVE inbox'[i] = Bytes(started[i])
    <3>1. CASE i = n + 1 BY <1>5, <3>1
    <3>2. CASE i \in 1..n
      <4>1. inbox[i] = Bytes(started[i]) BY <1>2, <3>2 DEF OrderInv
      <4> QED BY <1>5, <3>2, <4>1
    <3> QED BY <1>3, <1>5, <2>2, <3>1, <3>2
  <2>3. Numbered(started) BY <1>2 DEF OrderInv
  <2> QED BY <1>1, <2>1, <2>2, <2>3 DEF OrderInv, Numbered, Bytes, Total
<1>9. StreamInv'
  <2>1. Len(inbox') + 1 = n + 2 BY <1>3, <1>5
  <2>2. up' => lost' = <<>> BY <1>1 DEF IInv, StreamInv
  <2> QED BY <1>1, <2>1, <2>2 DEF StreamInv, Whole, InTurn, Before, After, Total
<1> QED BY <1>6, <1>7, <1>8, <1>9 DEF IInv

LEMMA StepInv == IInv /\ [Next]_vars => IInv'
<1> SUFFICES ASSUME IInv, [Next]_vars PROVE IInv' OBVIOUS
<1>1. ASSUME NEW t \in Thread, Sender(t) PROVE IInv'
  BY <1>1, SendStep, SendSomeStep, SendReturnsStep DEF Sender
<1>2. ASSUME Receiver \/ Break PROVE IInv'
  <2>1. CASE Recv BY <2>1, RecvStep
  <2>2. CASE Extract BY <2>2, ExtractStep
  <2>3. CASE Malformed \/ Break
    <3>1. UNCHANGED <<lock, rest, net, recvBuf, inbox, started, lost>> /\ up' = FALSE
      BY <2>3 DEF Malformed, Break
    <3>2. TypeOK' BY <3>1 DEF IInv, TypeOK
    <3>3. LockInv' BY <3>1 DEF IInv, LockInv
    <3>4. OrderInv' BY <3>1 DEF IInv, OrderInv, Numbered, Bytes, Total
    <3>5. Stream' = Stream BY <3>1 DEF Stream
    <3>6. StreamInv'
      BY <3>1, <3>5 DEF IInv, StreamInv, Whole, InTurn, Before, After, Total
    <3> QED BY <3>2, <3>3, <3>4, <3>6 DEF IInv
  <2> QED BY <1>2, <2>1, <2>2, <2>3 DEF Receiver
<1>3. CASE UNCHANGED vars
  <2>1. UNCHANGED <<lock, rest, net, recvBuf, inbox, started, lost, up>> BY <1>3 DEF vars
  <2>2. TypeOK' BY <2>1 DEF IInv, TypeOK
  <2>3. LockInv' BY <2>1 DEF IInv, LockInv
  <2>4. OrderInv' BY <2>1 DEF IInv, OrderInv, Numbered, Bytes, Total
  <2>5. Stream' = Stream BY <2>1 DEF Stream
  <2>6. StreamInv' BY <2>1, <2>5 DEF IInv, StreamInv, Whole, InTurn, Before, After, Total
  <2> QED BY <2>2, <2>3, <2>4, <2>6 DEF IInv
<1> QED BY <1>1, <1>2, <1>3 DEF Next

\* Whoever sends when, and however TCP splits the bytes: only the holder of the
\* lock sends, and what is on its way is whole packets in their turn (SendAll
\* under the session list's mutex, TryExtractPacket).
THEOREM Invariant == Spec => []IInv
<1>1. Init => IInv BY InitInv
<1>2. IInv /\ [Next]_vars => IInv' BY StepInv
<1> QED BY <1>1, <1>2, PTL DEF Spec

-----------------------------------------------------------------------------
(* The framing implements the channel of packets.                          *)

LEMMA ReadBytes ==
  ASSUME NEW p \in Packet
  PROVE  Read(Bytes(p)) = p
<1>1. Total(p) \in Nat \ {0} /\ \A k \in 1..Total(p) : Bytes(p)[k] = <<p, k>>
  BY PacketFacts
<1>2. Bytes(p)[1] = <<p, 1>> BY <1>1
<1>3. Bytes(p)[1][1] = p BY <1>2
<1> QED BY <1>3 DEF Read

got == [i \in DOMAIN inbox |-> Read(inbox[i])]

\* What came out is the first packets that went in.
LEMMA GotFacts ==
  ASSUME TypeOK, OrderInv
  PROVE  /\ got \in Seq(Packet) /\ Len(got) = Len(inbox)
         /\ \A i \in 1..Len(inbox) : got[i] = started[i]
<1>1. /\ inbox \in Seq(Seq(Byte)) /\ Len(inbox) \in Nat /\ DOMAIN inbox = 1..Len(inbox)
      /\ started \in Seq(Packet) /\ Len(started) \in Nat
  BY DEF TypeOK
<1>2. ASSUME NEW i \in 1..Len(inbox)
      PROVE  got[i] = started[i] /\ started[i] \in Packet
  <2>1. i \in 1..Len(started) BY <1>1 DEF OrderInv
  <2>2. started[i] \in Packet BY <1>1, <2>1
  <2>3. inbox[i] = Bytes(started[i]) BY DEF OrderInv
  <2>4. got[i] = Read(inbox[i]) BY <1>1 DEF got
  <2> QED BY <2>2, <2>3, <2>4, ReadBytes
<1>3. got = [i \in 1..Len(inbox) |-> Read(inbox[i])] BY <1>1 DEF got
<1>4. got \in [1..Len(inbox) -> Packet] BY <1>2, <1>3
<1>5. got \in Seq(Packet) /\ Len(got) = Len(inbox)
  <2> DEFINE n == Len(inbox)
             g == got
  <2>1. n \in Nat /\ g \in [1..n -> Packet] BY <1>1, <1>4
  <2> HIDE DEF n, g
  <2>2. g \in Seq(Packet) BY <2>1, SeqDef
  <2>3. Len(g) = n BY <2>1, <2>2, LenProperties
  <2> QED BY <2>2, <2>3 DEF n, g
<1> QED BY <1>2, <1>5

\* Send, Extract and the end of the connection are steps of the channel; the
\* bytes in between are not seen there.
LEMMA StepSimulation ==
  ASSUME IInv, IInv', [Next]_vars
  PROVE  [Channel!Next]_(Channel!vars)
<1>1. TypeOK /\ OrderInv /\ TypeOK' /\ OrderInv' BY DEF IInv
<1>2. CASE UNCHANGED <<started, inbox, up>>
  BY <1>2 DEF Channel!vars
<1>3. ASSUME NEW t \in Thread, NEW size \in Sizes, Send(t, size)
      PROVE  Channel!Send
  <2> DEFINE q == [from |-> t, nr |-> Len(started) + 1, size |-> size]
  <2>1. up /\ started' = Append(started, q) /\ UNCHANGED <<inbox, up>> BY <1>3 DEF Send
  <2>2. q \in Packet
    <3>1. Len(started) < MaxPackets /\ Len(started) \in Nat BY <1>1, <1>3 DEF Send, TypeOK
    <3>2. Len(started) + 1 \in 1..MaxPackets BY <3>1
    <3> QED BY <3>2 DEF Packet
  <2> HIDE DEF q
  <2> QED BY <2>1, <2>2 DEF Channel!Send
<1>4. ASSUME Extract PROVE Channel!Deliver
  <2> DEFINE n == Len(inbox)
  <2>1. /\ n < Len(started) /\ UNCHANGED <<started, up>>
        /\ inbox' = Append(inbox, Bytes(started[n + 1]))
    BY <1>4, Extracted
  <2>2. n \in Nat /\ Len(started) \in Nat /\ started \in Seq(Packet) /\ inbox \in Seq(Seq(Byte))
    BY <1>1 DEF TypeOK
  <2>3. n + 1 \in 1..Len(started) /\ started[n + 1] \in Packet BY <2>1, <2>2
  <2>4. Bytes(started[n + 1]) \in Seq(Byte) BY <2>3, PacketFacts
  <2>5. Len(inbox') = n + 1 BY <2>1, <2>2, <2>4
  <2>6. got \in Seq(Packet) /\ Len(got) = n /\ \A i \in 1..n : got[i] = started[i]
    BY <1>1, GotFacts
  <2>7. /\ inbox' \in Seq(Seq(Byte)) /\ DOMAIN inbox' = 1..(n + 1)
        /\ \A i \in 1..(n + 1) : inbox'[i] = Bytes(started[i])
    <3>1. inbox' \in Seq(Seq(Byte)) BY <1>1 DEF TypeOK
    <3>2. DOMAIN inbox' = 1..(n + 1) BY <2>5, <3>1
    <3>3. \A i \in 1..Len(inbox') : inbox'[i] = Bytes(started[i])
      BY <1>1, <2>1 DEF OrderInv, Bytes, Total
    <3> QED BY <2>5, <3>1, <3>2, <3>3
  <2> DEFINE g == [i \in DOMAIN inbox' |-> Read(inbox'[i])]
  <2>8. g \in Seq(Packet) /\ Len(g) = n + 1 /\ \A i \in 1..(n + 1) : g[i] = started[i]
    <3>1. ASSUME NEW i \in 1..(n + 1) PROVE g[i] = started[i] /\ started[i] \in Packet
      <4>1. i \in 1..Len(started) BY <2>1, <2>2
      <4>2. started[i] \in Packet BY <2>2, <4>1
      <4>3. g[i] = Read(Bytes(started[i])) BY <2>7
      <4> QED BY <4>2, <4>3, ReadBytes
    <3>2. g = [i \in 1..(n + 1) |-> Read(inbox'[i])] BY <2>7
    <3>3. g \in [1..(n + 1) -> Packet]
      <4>1. \A i \in 1..(n + 1) : Read(inbox'[i]) \in Packet BY <3>1, <3>2
      <4> QED BY <3>2, <4>1
    <3> HIDE DEF g
    <3>4. n + 1 \in Nat BY <2>2
    <3> QED BY <3>1, <3>3, <3>4, SeqDef, LenProperties
  <2>9. g = Append(got, started[n + 1])
    <3> HIDE DEF g, n
    <3>1. /\ Append(got, started[n + 1]) \in Seq(Packet)
          /\ Len(Append(got, started[n + 1])) = n + 1
          /\ \A i \in 1..n : Append(got, started[n + 1])[i] = started[i]
          /\ Append(got, started[n + 1])[n + 1] = started[n + 1]
      BY <2>2, <2>3, <2>6
    <3>2. ASSUME NEW i \in 1..(n + 1) PROVE g[i] = Append(got, started[n + 1])[i]
      <4>1. i = n + 1 \/ i \in 1..n BY <2>2
      <4> QED BY <2>8, <3>1, <4>1
    <3> QED BY <2>8, <3>1, <3>2, SeqEqual
  <2>10. Len(got) < Len(started) /\ g = Append(got, started[Len(got) + 1])
    BY <2>1, <2>6, <2>9
  <2> QED BY <2>1, <2>10 DEF Channel!Deliver, got
<1>5. ASSUME Malformed \/ Break PROVE Channel!Break
  BY <1>5 DEF Malformed, Break, Channel!Break
<1>6. ASSUME NEW t \in Thread, SendSome(t) \/ SendReturns(t)
      PROVE  UNCHANGED <<started, inbox, up>>
  BY <1>6 DEF SendSome, SendReturns
<1>7. ASSUME Recv PROVE UNCHANGED <<started, inbox, up>>
  BY <1>7 DEF Recv
<1>8. ASSUME UNCHANGED vars PROVE UNCHANGED <<started, inbox, up>>
  BY <1>8 DEF vars
<1> QED BY <1>2, <1>3, <1>4, <1>5, <1>6, <1>7, <1>8 DEF Next, Sender, Receiver, Channel!Next

LEMMA InitSimulation == Init => Channel!Init
<1> SUFFICES ASSUME Init PROVE Channel!Init OBVIOUS
<1>1. DOMAIN inbox = {} BY DEF Init
<1>2. [i \in DOMAIN inbox |-> Read(inbox[i])] = <<>> BY <1>1
<1> QED BY <1>2 DEF Init, Channel!Init

\* Packets given to a connection by any number of threads come out whole, once
\* and in the order in which the lock was taken (Framing.h; Server.cpp, SendTo).
THEOREM Refinement == Spec => ChannelKept
<1>1. Init => Channel!Init BY InitSimulation
<1>2. IInv /\ IInv' /\ [Next]_vars => [Channel!Next]_(Channel!vars) BY StepSimulation
<1> QED BY <1>1, <1>2, Invariant, PTL DEF Spec, ChannelKept, Channel!Safety
================================================================================

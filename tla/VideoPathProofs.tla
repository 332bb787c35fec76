--------------------------- MODULE VideoPathProofs ---------------------------
(***************************************************************************)
(* The way of a video frame to the player, for every file, every payload   *)
(* limit and every loss of packets.  First that each conversion is undone: *)
(* Annex-B splitting, parsing the extradata, base 64, fragmentation, RTP   *)
(* and interleaved framing; then that packets reach the player as numbered *)
(* and in order; then what the player makes of them.                       *)
(***************************************************************************)
EXTENDS VideoPath, SequenceLemmas

-----------------------------------------------------------------------------
(* Splitting an Annex-B stream.                                            *)

LEMMA NalFacts ==
  ASSUME NEW nal \in Nal
  PROVE  /\ nal \in Seq(Byte) /\ Len(nal) \in Nat \ {0} /\ nal # <<>>
         /\ nal[1] < 128 /\ NalType(nal) # 28 /\ nal[Len(nal)] # 0
         /\ \A i \in 1..Len(nal) : nal[i] \in 0..255
         /\ \A i \in 1..Len(nal)-2 : ~(nal[i] = 0 /\ nal[i + 1] = 0 /\ nal[i + 2] = 1)
<1>1. /\ nal \in Seq(Byte) /\ nal # <<>> /\ nal[1] < 128 /\ NalType(nal) # 28 /\ nal[Len(nal)] # 0
      /\ \A i \in 1 .. Len(nal) - 2 : ~(nal[i] = 0 /\ nal[i + 1] = 0 /\ nal[i + 2] = 1)
  BY Zenon DEF Nal
<1>2. \A i \in 1..Len(nal) : nal[i] \in 0..255
  BY <1>1, ElementOfSeq DEF Byte
<1>3. Len(nal) \in Nat \ {0}
  BY <1>1
<1> QED BY <1>1, <1>2, <1>3

\* d holds the NAL units one after the other, each after its start code; E[j] is
\* where unit j ends.
Laid(d, nals, codes, E) ==
  /\ d \in Seq(Byte) /\ E[0] = 0 /\ E[Len(nals)] = Len(d)
  /\ \A j \in 0..Len(nals) : E[j] \in Nat /\ E[j] <= Len(d)
  /\ \A j \in 1..Len(nals) :
       /\ codes[j] \in {3, 4} /\ E[j] = E[j - 1] + codes[j] + Len(nals[j])
       /\ \A k \in 1..codes[j]-1 : d[E[j - 1] + k] = 0
       /\ d[E[j - 1] + codes[j]] = 1
       /\ \A k \in 1..Len(nals[j]) : d[E[j - 1] + codes[j] + k] = nals[j][k]

Codes == Seq({3, 4})
StartCode(c) == IF c = 4 THEN <<0, 0, 0, 1>> ELSE <<0, 0, 1>>

LEMMA StartCodeFacts ==
  ASSUME NEW c \in {3, 4}
  PROVE  /\ StartCode(c) \in Seq(Byte) /\ Len(StartCode(c)) = c
         /\ \A k \in 1..c-1 : StartCode(c)[k] = 0
         /\ StartCode(c)[c] = 1
<1>1. CASE c = 4
  <2>1. /\ <<0, 0, 0, 1>> \in Seq(Byte) /\ Len(<<0, 0, 0, 1>>) = 4 /\ <<0, 0, 0, 1>>[4] = 1
        /\ \A k \in 1..3 : <<0, 0, 0, 1>>[k] = 0
    BY DEF Byte
  <2>2. 4 - 1 = 3
    OBVIOUS
  <2> QED BY <1>1, <2>1, <2>2, Zenon DEF StartCode
<1>2. CASE c = 3
  <2>1. /\ <<0, 0, 1>> \in Seq(Byte) /\ Len(<<0, 0, 1>>) = 3 /\ <<0, 0, 1>>[3] = 1
        /\ \A k \in 1..2 : <<0, 0, 1>>[k] = 0
    BY DEF Byte
  <2>2. 3 - 1 = 2 /\ 3 # 4
    OBVIOUS
  <2> QED BY <1>2, <2>1, <2>2, Zenon DEF StartCode
<1> QED BY <1>1, <1>2

LEMMA LaidOut ==
  ASSUME NEW nals \in Seq(Nal), NEW codes \in Codes, Len(codes) = Len(nals)
  PROVE  \E E : Laid(AnnexB(nals, codes), nals, codes, E)
<1> DEFINE n == Len(nals)
           s == [i \in 1..n |-> StartCode(codes[i]) \o nals[i]]
           W == Seq(Byte)
<1>1. n \in Nat /\ DOMAIN nals = 1..n
  OBVIOUS
<1>2. ASSUME NEW i \in 1..n
      PROVE  /\ codes[i] \in {3, 4} /\ nals[i] \in Seq(Byte) /\ Len(nals[i]) \in Nat
             /\ s[i] \in W /\ Len(s[i]) = codes[i] + Len(nals[i])
             /\ \A k \in 1..codes[i]+Len(nals[i]) :
                  s[i][k] = IF k <= codes[i] THEN StartCode(codes[i])[k] ELSE nals[i][k - codes[i]]
  <2>1. codes[i] \in {3, 4}
    <3>1. i \in 1..Len(codes)
      OBVIOUS
    <3> QED BY <3>1, ElementOfSeq DEF Codes
  <2>2. nals[i] \in Seq(Byte) /\ Len(nals[i]) \in Nat
    <3>1. nals[i] \in Nal
      BY ElementOfSeq
    <3> QED BY <3>1, NalFacts
  <2> DEFINE a == StartCode(codes[i])
             b == nals[i]
  <2>3. a \in Seq(Byte) /\ Len(a) = codes[i]
    BY <2>1, StartCodeFacts
  <2>4. s[i] = a \o b
    OBVIOUS
  <2> HIDE DEF a, b, s
  <2>5. /\ a \o b \in Seq(Byte) /\ Len(a \o b) = Len(a) + Len(b)
        /\ \A k \in 1..Len(a)+Len(b) : (a \o b)[k] = IF k <= Len(a) THEN a[k] ELSE b[k - Len(a)]
    <3>1. b \in Seq(Byte)
      BY <2>2 DEF b
    <3> QED BY <2>3, <3>1, ConcatProperties, SMTT(30)
  <2> QED BY <2>1, <2>2, <2>3, <2>4, <2>5, Zenon DEF a, b
<1>3. s \in Seq(Seq(Byte)) /\ Len(s) = n
  <2>1. \A i \in 1..n : StartCode(codes[i]) \o nals[i] \in W
    BY <1>2
  <2> HIDE DEF W
  <2>2. s \in Seq(W) /\ Len(s) = n
    BY <1>1, <2>1
  <2> QED BY <2>2 DEF W
<1>4. AnnexB(nals, codes) = FlattenSeq(s)
  BY <1>1, Zenon DEF AnnexB, StartCode
<1> HIDE DEF s, W
<1> DEFINE E == [j \in 0..n |-> EndAt(s, j)]
           d == FlattenSeq(s)
<1>5. d \in Seq(Byte) /\ E[0] = 0 /\ E[n] = Len(d)
  <2>1. 0 \in 0..n /\ n \in 0..n
    BY <1>1
  <2> QED BY <1>3, <2>1, JoinEnds
<1>6. ASSUME NEW j \in 0..n PROVE E[j] \in Nat /\ E[j] <= Len(d)
  <2>1. j \in 0..Len(s) /\ Len(s) \in j..Len(s)
    BY <1>1, <1>3
  <2>2. EndAt(s, j) \in Nat /\ EndAt(s, j) <= EndAt(s, Len(s)) /\ EndAt(s, Len(s)) = Len(d)
    BY <1>3, <2>1, JoinEnds, JoinMonotone
  <2> QED BY <2>2
<1>7. ASSUME NEW j \in 1..n
      PROVE  /\ codes[j] \in {3, 4} /\ E[j] = E[j - 1] + codes[j] + Len(nals[j])
             /\ \A k \in 1..codes[j]-1 : d[E[j - 1] + k] = 0
             /\ d[E[j - 1] + codes[j]] = 1
             /\ \A k \in 1..Len(nals[j]) : d[E[j - 1] + codes[j] + k] = nals[j][k]
  <2>1. j \in 1..Len(s) /\ j - 1 \in 0..n /\ j \in 0..n /\ j - 1 \in 0..Len(s)
    BY <1>1, <1>3
  <2> DEFINE c == codes[j]
             l == Len(nals[j])
             e == EndAt(s, j - 1)
  <2>2. /\ c \in {3, 4} /\ l \in Nat /\ e \in Nat /\ Len(s[j]) = c + l /\ EndAt(s, j) = e + (c + l)
        /\ E[j - 1] = e /\ E[j] = EndAt(s, j)
    BY <1>2, <1>3, <2>1, JoinEnds
  <2>3. \A k \in 1..c+l : d[e + k] = s[j][k]
    <3>1. \A k \in 1..Len(s[j]) : FlattenSeq(s)[EndAt(s, j - 1) + k] = s[j][k]
      BY <1>3, <2>1, JoinAt
    <3> QED BY <2>2, <3>1, Zenon
  <2>4. \A k \in 1..c+l : s[j][k] = IF k <= c THEN StartCode(c)[k] ELSE nals[j][k - c]
    BY <1>2
  <2>5. /\ \A k \in 1..c-1 : StartCode(c)[k] = 0
        /\ StartCode(c)[c] = 1
    BY <2>2, StartCodeFacts
  <2> DEFINE x == StartCode(c)
             y == nals[j]
             z == s[j]
  <2>6. \A k \in 1..c-1 : d[e + k] = 0
    <3> HIDE DEF c, l, e, d, x, y
    <3>1. \A k \in 1..c-1 : k \in 1..c+l /\ k <= c
      BY <2>2
    <3> QED BY <2>3, <2>4, <2>5, <3>1, Zenon
  <2>7. d[e + c] = 1
    <3> HIDE DEF c, l, e, d, x, y
    <3>1. c \in 1..c+l /\ c <= c
      BY <2>2
    <3> QED BY <2>3, <2>4, <2>5, <3>1, Zenon
  <2>8. \A k \in 1..l : d[e + c + k] = y[k]
    <3> HIDE DEF c, l, e, d, x, y, z
    <3>0. /\ \A k \in 1..c+l : d[e + k] = z[k]
          /\ \A k \in 1..c+l : z[k] = IF k <= c THEN x[k] ELSE y[k - c]
      BY <2>3, <2>4, Zenon DEF x, y, z
    <3> SUFFICES ASSUME NEW k \in 1..l PROVE d[e + c + k] = y[k]
      OBVIOUS
    <3>1. c + k \in 1..c+l /\ ~(c + k <= c) /\ (c + k) - c = k /\ e + (c + k) = e + c + k
      BY <2>2
    <3>2. z[c + k] = y[(c + k) - c]
      BY <3>0, <3>1, Zenon
    <3>3. d[e + (c + k)] = z[c + k]
      BY <3>0, <3>1, Zenon
    <3> QED BY <3>1, <3>2, <3>3, Zenon
  <2>9. E[j] = E[j - 1] + c + l
    <3> HIDE DEF c, l, e, E
    <3> QED BY <2>2
  <2> QED BY <2>2, <2>6, <2>7, <2>8, <2>9, Zenon
<1> HIDE DEF E
<1>8. Laid(d, nals, codes, E)
  BY <1>5, <1>6, <1>7, Zenon DEF Laid
<1> HIDE DEF d
<1> QED BY <1>4, <1>8, Zenon DEF d

\* A start code is seen where a unit's start code is ...
LEMMA CodeAt ==
  ASSUME NEW d, NEW nals \in Seq(Nal), NEW codes, NEW E, Laid(d, nals, codes, E), NEW j \in 1..Len(nals)
  PROVE  startCodeLength(d, E[j - 1]) = codes[j]
<1> DEFINE o == E[j - 1]
           c == codes[j]
           l == Len(nals[j])
<1>0. j - 1 \in 0..Len(nals) /\ j \in 0..Len(nals)
  OBVIOUS
<1>1. /\ o \in Nat /\ c \in {3, 4} /\ E[j] \in Nat /\ E[j] <= Len(d) /\ E[j] = o + c + l
      /\ d[o + c] = 1 /\ \A k \in 1..c-1 : d[o + k] = 0
  BY <1>0 DEF Laid
<1>2. l \in Nat /\ Len(d) \in Nat
  <2>1. nals[j] \in Nal /\ d \in Seq(Byte)
    BY ElementOfSeq DEF Laid
  <2> QED BY <2>1, NalFacts
<1> DEFINE m == Len(d)
           x == E[j]
<1>3. o + c <= m
  <2> HIDE DEF o, c, l, m, x
  <2> QED BY <1>1, <1>2 DEF x, m
<1> HIDE DEF o, c, l
<1>4. CASE c = 4
  <2>1. d[o + 1] = 0 /\ d[o + 2] = 0 /\ d[o + 3] = 0 /\ d[o + 4] = 1 /\ o + 4 <= Len(d)
    BY <1>1, <1>3, <1>4
  <2> QED BY <1>4, <2>1 DEF startCodeLength, o, c
<1>5. CASE c = 3
  <2>1. d[o + 1] = 0 /\ d[o + 2] = 0 /\ d[o + 3] = 1 /\ o + 3 <= Len(d)
    BY <1>1, <1>3, <1>5
  <2> QED BY <1>5, <2>1 DEF startCodeLength, o, c
<1> QED BY <1>1, <1>4, <1>5

\* A start code has three or four bytes, and they are in the buffer.
LEMMA CodeBytes ==
  ASSUME NEW d, Len(d) \in Nat, NEW o \in Nat
  PROVE  /\ startCodeLength(d, o) \in {0, 3, 4}
         /\ startCodeLength(d, o) > 0 => o + startCodeLength(d, o) <= Len(d)
         /\ startCodeLength(d, o) = 3 => o + 3 <= Len(d) /\ d[o + 1] = 0 /\ d[o + 2] = 0 /\ d[o + 3] = 1
         /\ startCodeLength(d, o) = 4 => o + 4 <= Len(d) /\ d[o + 1] = 0 /\ d[o + 2] = 0 /\ d[o + 3] = 0 /\ d[o + 4] = 1
BY DEF startCodeLength

\* ... and nowhere inside a unit, nor across its end.
LEMMA NoCodeInside ==
  ASSUME NEW d, NEW nals \in Seq(Nal), NEW codes, NEW E, Laid(d, nals, codes, E), NEW j \in 1..Len(nals),
         NEW o \in E[j - 1] + codes[j] .. E[j] - 1
  PROVE  startCodeLength(d, o) = 0
<1> DEFINE b == E[j - 1] + codes[j]
           nal == nals[j]
           l == Len(nal)
           p == E[j - 1]
           c == codes[j]
           x == E[j]
<1>0. j - 1 \in 0..Len(nals) /\ j \in 0..Len(nals)
  OBVIOUS
<1>1. /\ p \in Nat /\ c \in {3, 4} /\ x \in Nat /\ x <= Len(d) /\ x = p + c + l
      /\ \A k \in 1..l : d[p + c + k] = nal[k]
  BY <1>0 DEF Laid
<1>2. /\ l \in Nat \ {0} /\ nal[l] # 0 /\ \A i \in 1..l-2 : ~(nal[i] = 0 /\ nal[i + 1] = 0 /\ nal[i + 2] = 1)
  <2>1. nal \in Nal
    BY ElementOfSeq
  <2> QED BY <2>1, NalFacts
<1>3. Len(d) \in Nat
  BY LenProperties DEF Laid
<1>4. o \in p + c .. x - 1
  OBVIOUS
<1> HIDE DEF nal, l, p, c, x
<1> DEFINE q == o - (p + c)
<1>5. o \in Nat /\ q \in 0..l-1 /\ o = p + c + q
  BY <1>1, <1>2, <1>4
<1>6. \A k \in 1..4 : q + k \in 1..l => d[o + k] = nal[q + k]
  <2> SUFFICES ASSUME NEW k \in 1..4, q + k \in 1..l PROVE d[o + k] = nal[q + k]
    OBVIOUS
  <2>1. p + c + (q + k) = o + k
    BY <1>1, <1>5
  <2>2. d[p + c + (q + k)] = nal[q + k]
    BY <1>1
  <2> QED BY <2>1, <2>2, Zenon
<1> HIDE DEF q
<1>9. \A k \in 1..4 : q + k = l => d[o + k] # 0
  <2> SUFFICES ASSUME NEW k \in 1..4, q + k = l PROVE d[o + k] # 0
    OBVIOUS
  <2>1. q + k \in 1..l
    BY <1>2
  <2>2. d[o + k] = nal[q + k]
    BY <1>6, <2>1
  <2> QED BY <1>2, <2>2, Zenon
<1>7. ASSUME startCodeLength(d, o) = 3 PROVE FALSE
  <2>1. d[o + 1] = 0 /\ d[o + 2] = 0 /\ d[o + 3] = 1
    BY <1>3, <1>5, <1>7, CodeBytes
  <2>2. CASE q + 1 = l
    BY <1>9, <2>1, <2>2
  <2>3. CASE q + 2 = l
    BY <1>9, <2>1, <2>3
  <2>4. CASE q + 3 <= l
    <3>1. q + 1 \in 1..l-2 /\ (q + 1) + 1 = q + 2 /\ (q + 1) + 2 = q + 3 /\ q + 1 \in 1..l /\ q + 2 \in 1..l /\ q + 3 \in 1..l
      BY <1>2, <1>5, <2>4
    <3>2. nal[q + 1] = 0 /\ nal[q + 2] = 0 /\ nal[q + 3] = 1
      BY <1>6, <2>1, <3>1, SMTT(30)
    <3> QED BY <1>2, <3>1, <3>2, Zenon
  <2> QED BY <1>2, <1>5, <2>2, <2>3, <2>4
<1>8. ASSUME startCodeLength(d, o) = 4 PROVE FALSE
  <2>1. d[o + 1] = 0 /\ d[o + 2] = 0 /\ d[o + 3] = 0 /\ d[o + 4] = 1
    BY <1>3, <1>5, <1>8, CodeBytes
  <2>2. CASE q + 1 = l
    BY <1>9, <2>1, <2>2
  <2>3. CASE q + 2 = l
    BY <1>9, <2>1, <2>3
  <2>4. CASE q + 3 = l
    BY <1>9, <2>1, <2>4
  <2>5. CASE q + 4 <= l
    <3>1. q + 2 \in 1..l-2 /\ (q + 2) + 1 = q + 3 /\ (q + 2) + 2 = q + 4 /\ q + 2 \in 1..l /\ q + 3 \in 1..l /\ q + 4 \in 1..l
      BY <1>2, <1>5, <2>5
    <3>2. nal[q + 2] = 0 /\ nal[q + 3] = 0 /\ nal[q + 4] = 1
      BY <1>6, <2>1, <3>1, SMTT(30)
    <3> QED BY <1>2, <3>1, <3>2, Zenon
  <2> QED BY <1>2, <1>5, <2>2, <2>3, <2>4, <2>5
<1> QED BY <1>3, <1>5, <1>7, <1>8, CodeBytes

\* Where the loop stops next.
LEMMA NextCodeFacts ==
  ASSUME NEW d, Len(d) \in Nat, NEW i \in 0..Len(d)
  PROVE  /\ nextCode(d, i) \in i..Len(d)
         /\ nextCode(d, i) = Len(d) \/ startCodeLength(d, nextCode(d, i)) > 0
         /\ \A o \in i..Len(d) : o = Len(d) \/ startCodeLength(d, o) > 0 => nextCode(d, i) <= o
<1> DEFINE T == {o \in i .. Len(d) : o = Len(d) \/ startCodeLength(d, o) > 0}
<1>1. T \subseteq Nat /\ Len(d) \in T
  OBVIOUS
<1>2. \E m \in T : \A k \in T : m <= k
  BY <1>1, Smallest
<1>3. nextCode(d, i) \in T /\ \A k \in T : nextCode(d, i) <= k
  <2>1. nextCode(d, i) = Min(T)
    BY DEF nextCode
  <2> HIDE DEF T
  <2> QED BY <1>2, <2>1 DEF Min
<1> QED BY <1>3

\* From a unit the loop goes to its end.
LEMMA NextCodeIsEnd ==
  ASSUME NEW d, NEW nals \in Seq(Nal), NEW codes, NEW E, Laid(d, nals, codes, E), NEW j \in 1..Len(nals)
  PROVE  nextCode(d, E[j - 1] + codes[j]) = E[j]
<1> DEFINE b == E[j - 1] + codes[j]
           x == E[j]
           m == nextCode(d, b)
           l == Len(nals[j])
<1>0. j - 1 \in 0..Len(nals) /\ j \in 0..Len(nals) /\ Len(nals) \in Nat
  OBVIOUS
<1>1. Len(d) \in Nat
  BY LenProperties DEF Laid
<1>2. E[j - 1] \in Nat /\ codes[j] \in {3, 4} /\ x \in Nat /\ x <= Len(d) /\ x = E[j - 1] + codes[j] + l
  BY <1>0 DEF Laid
<1>3. l \in Nat
  <2>1. nals[j] \in Nal
    BY ElementOfSeq
  <2> QED BY <2>1, NalFacts
<1>4. b \in 0..Len(d) /\ x \in b..Len(d)
  <2> HIDE DEF l, x
  <2> QED BY <1>1, <1>2, <1>3, SMTT(30)
<1>5. /\ m \in b..Len(d)
      /\ m = Len(d) \/ startCodeLength(d, m) > 0
      /\ \A o \in b..Len(d) : o = Len(d) \/ startCodeLength(d, o) > 0 => m <= o
  BY <1>1, <1>4, NextCodeFacts
<1>6. x = Len(d) \/ startCodeLength(d, x) > 0
  <2>1. CASE j = Len(nals)
    BY <2>1 DEF Laid
  <2>2. CASE j # Len(nals)
    <3>1. j + 1 \in 1..Len(nals) /\ (j + 1) - 1 = j
      BY <1>0, <2>2
    <3>2. startCodeLength(d, E[(j + 1) - 1]) = codes[j + 1]
      <4> DEFINE i == j + 1
      <4>1. i \in 1..Len(nals)
        BY <3>1
      <4> HIDE DEF i
      <4>2. startCodeLength(d, E[i - 1]) = codes[i]
        BY <4>1, CodeAt
      <4> QED BY <4>2 DEF i
    <3>3. codes[j + 1] \in {3, 4}
      BY <3>1 DEF Laid
    <3> QED BY <3>1, <3>2, <3>3
  <2> QED BY <2>1, <2>2
<1>7. m <= x
  BY <1>4, <1>5, <1>6
<1>8. ~(m \in b..x-1)
  <2> SUFFICES ASSUME m \in b..x-1 PROVE FALSE
    OBVIOUS
  <2>1. startCodeLength(d, m) = 0
    BY NoCodeInside
  <2> HIDE DEF m, b, x
  <2> QED BY <1>1, <1>2, <1>5, <2>1
<1> HIDE DEF m, b, x
<1>9. m = x
  BY <1>1, <1>2, <1>4, <1>5, <1>7, <1>8
<1> QED BY <1>9 DEF m, b, x

\* g lies in d after the first at bytes.
Within(g, d, at) == at + Len(g) <= Len(d) /\ \A k \in 1..Len(g) : d[at + k] = g[k]

LEMMA TakeWithin ==
  ASSUME NEW S, NEW d \in Seq(S), NEW g \in Seq(S), NEW at \in Nat, Within(g, d, at)
  PROVE  Bytes(d, at, at + Len(g)) = g
<1> DEFINE l == Len(g)
           n == Len(d)
           u == SubSeq(d, at + 1, at + l)
<1>1. l \in Nat /\ n \in Nat /\ at + l <= n /\ \A k \in 1..l : d[at + k] = g[k]
  BY DEF Within
<1>2. at + 1 \in 1..n+1 /\ at + l \in (at+1)-1..n /\ (at + l) - (at + 1) + 1 = l
  <2> HIDE DEF l, n
  <2> QED BY <1>1
<1>3. /\ u \in Seq(S) /\ Len(u) = (at + l) - (at + 1) + 1
      /\ \A k \in 1..(at+l)-(at+1)+1 : u[k] = d[(at + 1) + k - 1]
  <2> DEFINE b == at + 1
             e == at + l
  <2>1. b \in 1..n+1 /\ e \in b-1..n
    BY <1>2
  <2> HIDE DEF b, e
  <2>2. /\ SubSeq(d, b, e) \in Seq(S) /\ Len(SubSeq(d, b, e)) = e - b + 1
        /\ \A k \in 1..e-b+1 : SubSeq(d, b, e)[k] = d[b + k - 1]
    BY <2>1, SliceFacts
  <2> QED BY <2>2 DEF b, e
<1> HIDE DEF u
<1>4. ASSUME NEW k \in 1..l PROVE u[k] = g[k]
  <2>1. (at + 1) + k - 1 = at + k
    BY <1>1
  <2> QED BY <1>1, <1>2, <1>3, <2>1, Zenon
<1>5. Len(u) = Len(g)
  BY <1>2, <1>3, Zenon
<1>6. u = g
  BY <1>3, <1>4, <1>5, SeqEqual
<1> QED BY <1>6 DEF u, Bytes

\* The bytes of a unit.
LEMMA UnitBytes ==
  ASSUME NEW d, NEW nals \in Seq(Nal), NEW codes, NEW E, Laid(d, nals, codes, E), NEW j \in 1..Len(nals)
  PROVE  /\ E[j - 1] + codes[j] \in 0..Len(d) /\ E[j - 1] + codes[j] < E[j]
         /\ Bytes(d, E[j - 1] + codes[j], E[j]) = nals[j]
<1> DEFINE b == E[j - 1] + codes[j]
           x == E[j]
           nal == nals[j]
           l == Len(nal)
<1>0. j - 1 \in 0..Len(nals) /\ j \in 0..Len(nals)
  OBVIOUS
<1>1. /\ b \in Nat /\ x \in Nat /\ x <= Len(d) /\ x = b + l /\ d \in Seq(Byte)
      /\ \A k \in 1..l : d[b + k] = nal[k]
  BY <1>0, SMTT(30) DEF Laid
<1>2. nal \in Seq(Byte) /\ l \in Nat \ {0}
  <2>1. nal \in Nal
    BY ElementOfSeq
  <2> QED BY <2>1, NalFacts
<1> HIDE DEF b, x, nal
<1>3. b \in 0..Len(d) /\ b < x
  BY <1>1, <1>2
<1>4. Within(nal, d, b)
  BY <1>1, Zenon DEF Within
<1>5. Bytes(d, b, x) = nal
  BY <1>1, <1>2, <1>4, TakeWithin
<1> QED BY <1>3, <1>5 DEF b, x, nal

\* splitView is defined by recursion from the end of the buffer.
SplitTurn(f, d, i) ==
  IF nextCode(d, i) = Len(d) THEN When(i < nextCode(d, i), Bytes(d, i, nextCode(d, i)))
  ELSE When(i < nextCode(d, i), Bytes(d, i, nextCode(d, i)))
       \o f[nextCode(d, i) + startCodeLength(d, nextCode(d, i))]
Splits(f, d) == f = [i \in 0 .. Len(d) |-> SplitTurn(f, d, i)]

LEMMA SplitExists ==
  ASSUME NEW d, Len(d) \in Nat
  PROVE  \E f : Splits(f, d)
<1> DEFINE n == Len(d)
           after(i) == nextCode(d, i) + startCodeLength(d, nextCode(d, i))
           unit(i) == When(i < nextCode(d, i), Bytes(d, i, nextCode(d, i)))
           h == [i \in 0..n |-> unit(i)]
           g == [i \in 0..n |-> IF nextCode(d, i) = n THEN 0 ELSE after(i)]
<1>0. n \in Nat /\ 0 \in 0..n
  OBVIOUS
<1>1. PICK f : Chains(f, h, g, 0, n)
  <2> HIDE DEF h, g, n
  <2> QED BY <1>0, ChainExists
<1>2. ASSUME NEW i \in 0..n PROVE Link(f, h, g, n, i) = SplitTurn(f, d, i)
  <2>1. h[i] = unit(i) /\ g[i] = IF nextCode(d, i) = n THEN 0 ELSE after(i)
    OBVIOUS
  <2>2. nextCode(d, i) \in i..n /\ (nextCode(d, i) = n \/ startCodeLength(d, nextCode(d, i)) > 0)
    BY NextCodeFacts
  <2>3. CASE nextCode(d, i) = n
    <3>1. g[i] \notin i+1..n
      BY <2>1, <2>3
    <3> QED BY <2>1, <2>3, <3>1, Zenon DEF Link, SplitTurn
  <2>4. CASE nextCode(d, i) # n
    <3>1. startCodeLength(d, nextCode(d, i)) > 0
      BY <2>2, <2>4
    <3>2. /\ startCodeLength(d, nextCode(d, i)) \in {0, 3, 4}
          /\ nextCode(d, i) + startCodeLength(d, nextCode(d, i)) <= Len(d)
      <4>1. nextCode(d, i) \in Nat
        BY <2>2
      <4> QED BY <3>1, <4>1, CodeBytes
    <3>3. after(i) \in i+1..n
      BY <2>2, <3>1, <3>2
    <3>4. g[i] = after(i)
      BY <2>1, <2>4
    <3> QED BY <2>1, <2>4, <3>3, <3>4, Zenon DEF Link, SplitTurn
  <2> QED BY <2>3, <2>4
<1>3. f = [i \in 0..n |-> Link(f, h, g, n, i)]
  BY <1>1 DEF Chains
<1> HIDE DEF h, g
<1>4. f = [i \in 0..n |-> SplitTurn(f, d, i)]
  BY <1>2, <1>3
<1> QED BY <1>4 DEF Splits

LEMMA SplitValue ==
  ASSUME NEW d, Len(d) \in Nat
  PROVE  \E f : /\ Splits(f, d)
                /\ splitView(d) = IF nextCode(d, 0) = Len(d) THEN <<>>
                                  ELSE f[nextCode(d, 0) + startCodeLength(d, nextCode(d, 0))]
<1> DEFINE From == CHOOSE f : f = [i \in 0 .. Len(d) |-> SplitTurn(f, d, i)]
<1>1. splitView(d) = IF nextCode(d, 0) = Len(d) THEN <<>>
                     ELSE From[nextCode(d, 0) + startCodeLength(d, nextCode(d, 0))]
  BY Zenon DEF splitView, SplitTurn
<1>2. From = CHOOSE f : Splits(f, d)
  BY Zenon DEF Splits
<1>3. Splits(From, d)
  BY <1>2, SplitExists, Zenon
<1> HIDE DEF From
<1> QED BY <1>1, <1>3

\* Splitting gives back the NAL units, whatever they hold and whatever the lengths
\* of the start codes.
LEMMA SplitUndoes ==
  ASSUME NEW nals \in Seq(Nal), NEW codes \in Codes, Len(codes) = Len(nals)
  PROVE  splitView(AnnexB(nals, codes)) = nals
<1> DEFINE d == AnnexB(nals, codes)
           n == Len(nals)
<1>0. n \in Nat
  OBVIOUS
<1>1. PICK E : Laid(d, nals, codes, E)
  BY LaidOut
<1> HIDE DEF d
<1>2. d \in Seq(Byte) /\ Len(d) \in Nat /\ E[0] = 0 /\ E[n] = Len(d)
  BY <1>1, LenProperties DEF Laid
<1>3. PICK f : /\ Splits(f, d)
               /\ splitView(d) = IF nextCode(d, 0) = Len(d) THEN <<>>
                                 ELSE f[nextCode(d, 0) + startCodeLength(d, nextCode(d, 0))]
  BY <1>2, SplitValue
<1>4. CASE n = 0
  <2>1. Len(d) = 0 /\ 0 \in 0..Len(d)
    BY <1>2, <1>4
  <2>2. nextCode(d, 0) \in 0..Len(d)
    BY <1>2, <2>1, NextCodeFacts
  <2>3. nextCode(d, 0) = Len(d)
    BY <2>1, <2>2
  <2>4. nals = <<>>
    BY <1>4
  <2> QED BY <1>3, <2>3, <2>4 DEF d
<1>5. CASE n # 0
  <2> DEFINE pos == [k \in 1..n |-> E[k - 1] + codes[k]]
  <2>1. 1 \in 1..n /\ 1 - 1 = 0 /\ n \in 1..n /\ nals # <<>>
    BY <1>0, <1>5
  <2>2. startCodeLength(d, 0) = codes[1] /\ codes[1] \in {3, 4}
    <3>1. startCodeLength(d, E[1 - 1]) = codes[1]
      BY <1>1, <2>1, CodeAt
    <3>2. codes[1] \in {3, 4}
      BY <1>1, <2>1 DEF Laid
    <3> QED BY <1>2, <2>1, <3>1, <3>2, Zenon
  <2>3. 0 + startCodeLength(d, 0) <= Len(d)
    BY <1>2, <2>2, CodeBytes
  <2>4. nextCode(d, 0) = 0 /\ Len(d) # 0
    <3>1. 0 \in 0..Len(d) /\ startCodeLength(d, 0) > 0 /\ Len(d) # 0
      BY <1>2, <2>2, <2>3
    <3>2. /\ nextCode(d, 0) \in 0..Len(d)
          /\ \A o \in 0..Len(d) : o = Len(d) \/ startCodeLength(d, o) > 0 => nextCode(d, 0) <= o
      BY <1>2, <3>1, NextCodeFacts
    <3>3. nextCode(d, 0) <= 0
      BY <3>1, <3>2
    <3> QED BY <3>1, <3>2, <3>3
  <2>5. splitView(d) = f[pos[1]]
    <3>1. pos[1] = E[1 - 1] + codes[1]
      BY <2>1
    <3>2. pos[1] = 0 + startCodeLength(d, 0)
      BY <1>2, <2>1, <2>2, <3>1, Zenon
    <3> HIDE DEF pos
    <3> QED BY <1>3, <2>4, <3>2, Zenon
  <2>6. ASSUME NEW k \in 1..n
        PROVE  f[pos[k]] = IF E[k] = Len(d) THEN <<nals[k]>>
                           ELSE <<nals[k]>> \o f[E[k] + startCodeLength(d, E[k])]
    <3> DEFINE b == E[k - 1] + codes[k]
    <3>1. b \in 0..Len(d) /\ b < E[k] /\ Bytes(d, b, E[k]) = nals[k] /\ nextCode(d, b) = E[k]
      BY <1>1, UnitBytes, NextCodeIsEnd
    <3>2. pos[k] = b
      OBVIOUS
    <3> HIDE DEF b, pos
    <3>3. f[b] = SplitTurn(f, d, b)
      BY <1>3, <3>1 DEF Splits
    <3> QED BY <3>1, <3>2, <3>3, Zenon DEF SplitTurn, When
  <2>7. f[pos[n]] = <<nals[n]>>
    BY <1>2, <2>1, <2>6, Zenon
  <2>8. ASSUME NEW k \in 1..n-1 PROVE f[pos[k]] = <<nals[k]>> \o f[pos[k + 1]]
    <3>1. k \in 1..n /\ k + 1 \in 1..n /\ (k + 1) - 1 = k
      BY <1>0
    <3> DEFINE i == k + 1
    <3>2. startCodeLength(d, E[i - 1]) = codes[i] /\ pos[i] = E[i - 1] + codes[i]
      <4>1. i \in 1..Len(nals)
        BY <3>1
      <4> HIDE DEF i
      <4> QED BY <1>1, <4>1, CodeAt
    <3>3. startCodeLength(d, E[k]) = codes[i] /\ pos[i] = E[k] + codes[i]
      BY <3>1, <3>2, Zenon
    <3>4. E[k] # Len(d)
      <4>1. E[k] \in Nat /\ codes[i] \in {3, 4}
        <5>1. k \in 0..n
          BY <3>1
        <5> QED BY <1>1, <3>1, <5>1 DEF Laid
      <4>2. E[k] + codes[i] <= Len(d)
        BY <1>2, <3>3, <4>1, CodeBytes
      <4> QED BY <1>2, <4>1, <4>2
    <3> HIDE DEF pos
    <3> QED BY <2>6, <3>1, <3>3, <3>4, Zenon
  <2> HIDE DEF pos
  <2>9. f[pos[1]] = nals
    BY <2>1, <2>7, <2>8, ChainRuns
  <2> QED BY <2>5, <2>9 DEF d
<1> QED BY <1>4, <1>5

-----------------------------------------------------------------------------
(* Parsing the extradata.                                                  *)

LEMMA SetsFacts ==
  ASSUME NEW t, NEW max, NEW nals \in SetsOf(t, max)
  PROVE  /\ nals \in Seq(Nal) /\ nals # <<>> /\ Len(nals) \in Nat \ {0} /\ Len(nals) <= max
         /\ \A i \in 1..Len(nals) : nals[i] \in Nal /\ NalType(nals[i]) = t /\ Len(nals[i]) \in Nat \ {0} /\ Len(nals[i]) < Word16
<1>1. /\ nals \in Seq(Nal) /\ nals # <<>> /\ Len(nals) <= max
      /\ \A i \in DOMAIN nals : NalType(nals[i]) = t /\ Len(nals[i]) < Word16
  BY Zenon DEF SetsOf
<1>2. Len(nals) \in Nat \ {0} /\ DOMAIN nals = 1..Len(nals)
  BY <1>1
<1>3. ASSUME NEW i \in 1..Len(nals) PROVE nals[i] \in Nal /\ NalType(nals[i]) = t /\ Len(nals[i]) \in Nat \ {0} /\ Len(nals[i]) < Word16
  <2>1. nals[i] \in Nal
    BY <1>1, ElementOfSeq
  <2>2. Len(nals[i]) \in Nat \ {0}
    BY <2>1, NalFacts
  <2>3. Len(nals[i]) < Word16 /\ NalType(nals[i]) = t
    BY <1>1, <1>2
  <2> QED BY <2>1, <2>2, <2>3
<1> QED BY <1>1, <1>2, <1>3

\* Two bytes hold a number below Word16.
LEMMA TwoBytes ==
  ASSUME NEW x \in Nat
  PROVE  /\ octet(x, 256) \in 0..255 /\ octet(x, 1) \in 0..255
         /\ 256 * octet(x, 256) + octet(x, 1) = x % Word16
         /\ x < Word16 => 256 * octet(x, 256) + octet(x, 1) = x
<1>1. octet(x, 1) = x % 256
  BY DEF octet
<1>2. octet(x, 256) = (x \div 256) % 256
  BY DEF octet
<1> QED BY <1>1, <1>2 DEF Word16

\* d holds the NAL units from at on, each after its length; E[j] is where unit j ends.
Listed(d, at, nals, E) ==
  /\ d \in Seq(Byte) /\ E[0] = at
  /\ \A j \in 0..Len(nals) : E[j] \in Nat /\ E[j] <= Len(d)
  /\ \A j \in 1..Len(nals) :
       /\ E[j] = E[j - 1] + 2 + Len(nals[j])
       /\ 256 * d[E[j - 1] + 1] + d[E[j - 1] + 2] = Len(nals[j])
       /\ \A k \in 1..Len(nals[j]) : d[E[j - 1] + 2 + k] = nals[j][k]

LEMMA ListedAt ==
  ASSUME NEW t, NEW max, NEW nals \in SetsOf(t, max), NEW d \in Seq(Byte), NEW at \in Nat,
         Within(LengthPrefixed(nals), d, at)
  PROVE  \E E : Listed(d, at, nals, E) /\ E[Len(nals)] = at + Len(LengthPrefixed(nals))
<1> DEFINE n == Len(nals)
           s == [i \in 1..n |-> Two(Len(nals[i])) \o nals[i]]
           W == Seq(Byte)
           g == LengthPrefixed(nals)
<1>1. n \in Nat /\ DOMAIN nals = 1..n
  BY SetsFacts, LenProperties
<1>2. ASSUME NEW i \in 1..n
      PROVE  /\ nals[i] \in Seq(Byte) /\ Len(nals[i]) \in Nat \ {0} /\ Len(nals[i]) < Word16
             /\ s[i] \in W /\ Len(s[i]) = 2 + Len(nals[i])
             /\ \A k \in 1..2+Len(nals[i]) :
                  s[i][k] = IF k <= 2 THEN Two(Len(nals[i]))[k] ELSE nals[i][k - 2]
  <2>2. nals[i] \in Seq(Byte) /\ Len(nals[i]) \in Nat \ {0} /\ Len(nals[i]) < Word16
    BY SetsFacts, NalFacts
  <2> DEFINE a == Two(Len(nals[i]))
             b == nals[i]
  <2>3. a \in Seq(Byte) /\ Len(a) = 2
    <3>1. octet(Len(b), 256) \in 0..255 /\ octet(Len(b), 1) \in 0..255
      BY <2>2, TwoBytes, SMTT(30)
    <3> QED BY <3>1 DEF Two, Byte
  <2>4. s[i] = a \o b
    OBVIOUS
  <2>6. b \in Seq(Byte)
    BY <2>2
  <2> HIDE DEF a, b, s
  <2>5. /\ a \o b \in Seq(Byte) /\ Len(a \o b) = Len(a) + Len(b)
        /\ \A k \in 1..Len(a)+Len(b) : (a \o b)[k] = IF k <= Len(a) THEN a[k] ELSE b[k - Len(a)]
    BY <2>3, <2>6, ConcatProperties
  <2> QED BY <2>2, <2>3, <2>4, <2>5, Zenon DEF a, b
<1>3. s \in Seq(Seq(Byte)) /\ Len(s) = n
  <2>1. \A i \in 1..n : Two(Len(nals[i])) \o nals[i] \in W
    BY <1>2
  <2> HIDE DEF W
  <2>2. s \in Seq(W) /\ Len(s) = n
    BY <1>1, <2>1
  <2> QED BY <2>2 DEF W
<1>4. g = FlattenSeq(s)
  BY <1>1, Zenon DEF LengthPrefixed
<1> HIDE DEF s, W, g
<1> DEFINE E == [j \in 0..n |-> at + EndAt(s, j)]
<1>5. E[0] = at /\ E[n] = at + Len(g) /\ Len(g) \in Nat
  <2>1. 0 \in 0..n /\ n \in 0..n
    BY <1>1
  <2>2. EndAt(s, 0) = 0 /\ EndAt(s, n) = Len(g) /\ g \in Seq(Byte)
    BY <1>3, <1>4, JoinEnds
  <2> QED BY <2>1, <2>2
<1>9. Len(d) \in Nat /\ at + Len(g) <= Len(d) /\ \A k \in 1..Len(g) : d[at + k] = g[k]
  BY DEF g, Within
<1>6. ASSUME NEW j \in 0..n PROVE E[j] \in Nat /\ E[j] <= Len(d) /\ EndAt(s, j) \in Nat /\ EndAt(s, j) <= Len(g)
  <2>1. j \in 0..Len(s) /\ Len(s) \in j..Len(s)
    BY <1>1, <1>3
  <2>2. EndAt(s, j) \in Nat /\ EndAt(s, j) <= EndAt(s, Len(s)) /\ EndAt(s, Len(s)) = Len(g)
    BY <1>3, <1>4, <2>1, JoinEnds, JoinMonotone
  <2> QED BY <1>5, <1>9, <2>2
<1>7. ASSUME NEW j \in 1..n
      PROVE  /\ E[j] = E[j - 1] + 2 + Len(nals[j])
             /\ 256 * d[E[j - 1] + 1] + d[E[j - 1] + 2] = Len(nals[j])
             /\ \A k \in 1..Len(nals[j]) : d[E[j - 1] + 2 + k] = nals[j][k]
  <2>1. j \in 1..Len(s) /\ j - 1 \in 0..n /\ j \in 0..n
    BY <1>1, <1>3
  <2> DEFINE l == Len(nals[j])
             e == EndAt(s, j - 1)
             y == nals[j]
             z == s[j]
  <2>2. /\ l \in Nat \ {0} /\ l < Word16 /\ e \in Nat /\ Len(z) = 2 + l /\ EndAt(s, j) = e + (2 + l)
        /\ E[j - 1] = at + e /\ E[j] = at + EndAt(s, j) /\ EndAt(s, j) <= Len(g)
    <3>1. l \in Nat \ {0} /\ l < Word16 /\ Len(z) = 2 + l
      BY <1>2
    <3>2. e \in Nat /\ EndAt(s, j) <= Len(g)
      BY <1>6, <2>1
    <3>3. EndAt(s, j) = e + Len(z)
      BY <1>3, <2>1, JoinEnds
    <3>4. E[j - 1] = at + e /\ E[j] = at + EndAt(s, j)
      BY <2>1
    <3> QED BY <3>1, <3>2, <3>3, <3>4, Zenon
  <2>3. \A k \in 1..2+l : g[e + k] = z[k]
    <3>1. \A k \in 1..Len(z) : FlattenSeq(s)[EndAt(s, j - 1) + k] = z[k]
      BY <1>3, <2>1, JoinAt
    <3> QED BY <1>4, <2>2, <3>1, Zenon
  <2>4. \A k \in 1..2+l : z[k] = IF k <= 2 THEN Two(l)[k] ELSE y[k - 2]
    BY <1>2
  <2>5. E[j] = E[j - 1] + 2 + l
    <3> HIDE DEF l, e, E
    <3> QED BY <2>2
  <2>9. E[j - 1] = at + e
    BY <2>2
  <2> HIDE DEF l, e, y, z, E
  <2>6. ASSUME NEW k \in 1..2+l PROVE d[at + e + k] = z[k]
    <3>1. e + k \in 1..Len(g) /\ at + (e + k) = at + e + k
      <4> DEFINE m == Len(g)
                 x == EndAt(s, j)
      <4>1. m \in Nat /\ e \in Nat /\ l \in Nat /\ x = e + (2 + l) /\ x <= m
        BY <1>5, <2>2
      <4> HIDE DEF m, x
      <4>2. e + k \in 1..m /\ at + (e + k) = at + e + k
        BY <4>1
      <4> QED BY <4>2 DEF m
    <3>2. d[at + (e + k)] = g[e + k]
      BY <1>9, <3>1
    <3> QED BY <2>3, <3>1, <3>2, Zenon
  <2>7. 256 * d[E[j - 1] + 1] + d[E[j - 1] + 2] = l
    <3>1. 1 \in 1..2+l /\ 2 \in 1..2+l /\ 1 <= 2 /\ 2 <= 2 /\ l \in Nat /\ l < Word16
      BY <2>2
    <3>2. d[E[j - 1] + 1] = Two(l)[1] /\ d[E[j - 1] + 2] = Two(l)[2]
      <4>1. z[1] = Two(l)[1] /\ z[2] = Two(l)[2]
        BY <2>4, <3>1, Zenon
      <4>2. d[at + e + 1] = z[1] /\ d[at + e + 2] = z[2]
        BY <2>6, <3>1, Zenon
      <4> QED BY <2>9, <4>1, <4>2, Zenon
    <3>3. Two(l)[1] = octet(l, 256) /\ Two(l)[2] = octet(l, 1)
      BY DEF Two
    <3>4. 256 * octet(l, 256) + octet(l, 1) = l
      BY <3>1, TwoBytes
    <3> QED BY <3>2, <3>3, <3>4, Zenon
  <2>8. ASSUME NEW k \in 1..l PROVE d[E[j - 1] + 2 + k] = y[k]
    <3>1. 2 + k \in 1..2+l /\ ~(2 + k <= 2) /\ (2 + k) - 2 = k /\ at + e + (2 + k) = (at + e) + 2 + k
      BY <2>2
    <3>2. z[2 + k] = y[(2 + k) - 2]
      BY <2>4, <3>1, Zenon
    <3> QED BY <2>6, <2>9, <3>1, <3>2, Zenon
  <2> QED BY <2>5, <2>7, <2>8, Zenon DEF l, y
<1> HIDE DEF E
<1>8. Listed(d, at, nals, E)
  BY <1>5, <1>6, <1>7, Zenon DEF Listed
<1> QED BY <1>5, <1>8, Zenon DEF g

\* parameterSets is defined by recursion over the list: one turn of it, after the
\* turns before have left p.
ReadOne(p, d, i) ==
  LET o == p.end + 2
      len == 256 * d[o - 1] + d[o]
  IN CASE p.broken           -> p
       [] o > Len(d)         -> [p EXCEPT !.broken = TRUE]
       [] o + len > Len(d)   -> [p EXCEPT !.end = o, !.broken = TRUE]
       [] OTHER              -> [first |-> IF i = 1 THEN Bytes(d, o, o + len) ELSE p.first,
                                 end |-> o + len, broken |-> FALSE]
ReadTurn(f, d, at, i) ==
  IF i = 0 THEN [first |-> <<>>, end |-> at, broken |-> FALSE] ELSE ReadOne(f[i - 1], d, i)
Reads(f, d, n, at) == f = [i \in 0 .. n |-> ReadTurn(f, d, at, i)]

\* What has been read after i turns.
ReadTo(nals, E, i) == [first |-> IF i = 0 THEN <<>> ELSE nals[1], end |-> E[i], broken |-> FALSE]

LEMMA ReadOneTakesUnit ==
  ASSUME NEW d, NEW at \in Nat, NEW nals \in Seq(Nal), NEW E, Listed(d, at, nals, E), NEW i \in 1..Len(nals)
  PROVE  ReadOne(ReadTo(nals, E, i - 1), d, i) = ReadTo(nals, E, i)
<1> DEFINE p == ReadTo(nals, E, i - 1)
           e == E[i - 1]
           x == E[i]
           nal == nals[i]
           l == Len(nal)
<1>0. i - 1 \in 0..Len(nals) /\ i \in 0..Len(nals)
  OBVIOUS
<1>1. /\ d \in Seq(Byte) /\ e \in Nat /\ x \in Nat /\ x <= Len(d) /\ x = e + 2 + l
      /\ 256 * d[e + 1] + d[e + 2] = l /\ \A k \in 1..l : d[e + 2 + k] = nal[k]
  BY <1>0 DEF Listed
<1>2. nal \in Seq(Byte) /\ l \in Nat \ {0} /\ Len(d) \in Nat
  <2>1. nal \in Nal
    BY ElementOfSeq
  <2> QED BY <1>1, <2>1, NalFacts
<1>3. p.end = e /\ p.broken = FALSE /\ p.first = IF i - 1 = 0 THEN <<>> ELSE nals[1]
  BY DEF ReadTo
<1> DEFINE o == p.end + 2
           len == 256 * d[o - 1] + d[o]
<1> HIDE DEF p, e, x, nal
<1>4. o = e + 2 /\ o - 1 = e + 1 /\ o + l = x /\ ~(o > Len(d)) /\ ~(o + l > Len(d)) /\ o \in Nat
  BY <1>1, <1>2, <1>3
<1>5. len = l
  <2> HIDE DEF o
  <2> QED BY <1>1, <1>4, Zenon
<1>6. Bytes(d, o, o + l) = nal
  <2> HIDE DEF o
  <2>1. \A k \in 1..l : d[o + k] = nal[k]
    BY <1>1, <1>4, Zenon
  <2>2. o + l <= Len(d)
    BY <1>1, <1>4
  <2>3. Within(nal, d, o)
    BY <2>1, <2>2, Zenon DEF Within
  <2> QED BY <1>1, <1>2, <1>4, <2>3, TakeWithin
<1>7. ReadOne(p, d, i) = [first |-> IF i = 1 THEN Bytes(d, o, o + len) ELSE p.first, end |-> o + len, broken |-> FALSE]
  <2>1. ~p.broken
    BY <1>3
  <2>2. ~(o > Len(d)) /\ ~(o + len > Len(d))
    BY <1>4, <1>5, Zenon
  <2> QED BY <2>1, <2>2, Zenon DEF ReadOne
<1> HIDE DEF o, len
<1>8. (IF i = 1 THEN Bytes(d, o, o + len) ELSE p.first) = IF i = 0 THEN <<>> ELSE nals[1]
  <2>1. i # 0 /\ (i = 1 <=> i - 1 = 0)
    OBVIOUS
  <2>2. CASE i = 1
    BY <1>5, <1>6, <2>1, <2>2, Zenon DEF nal
  <2>3. CASE i # 1
    BY <1>3, <2>1, <2>3, Zenon
  <2> QED BY <2>2, <2>3
<1>9. o + len = E[i]
  BY <1>4, <1>5 DEF x
<1>10. ReadOne(p, d, i) = ReadTo(nals, E, i)
  BY <1>7, <1>8, <1>9, Zenon DEF ReadTo
<1> QED BY <1>10 DEF p

\* A well-formed list is read to its end, and its first unit is kept.
LEMMA SetsAreRead ==
  ASSUME NEW d, NEW at \in Nat, NEW nals \in Seq(Nal), nals # <<>>, NEW E, Listed(d, at, nals, E)
  PROVE  parameterSets(d, Len(nals), at) = [first |-> nals[1], end |-> E[Len(nals)], broken |-> FALSE]
<1> DEFINE n == Len(nals)
           w == [i \in 0..n |-> ReadTo(nals, E, i)]
           Read == CHOOSE f : f = [i \in 0 .. n |-> ReadTurn(f, d, at, i)]
<1>0. n \in Nat /\ n # 0 /\ E[0] = at
  BY DEF Listed
<1>1. ReadTo(nals, E, 0) = [first |-> <<>>, end |-> at, broken |-> FALSE]
  BY <1>0, Zenon DEF ReadTo
<1>2. Reads(w, d, n, at)
  <2>1. ASSUME NEW i \in 0..n PROVE ReadTurn(w, d, at, i) = ReadTo(nals, E, i)
    <3>1. CASE i = 0
      BY <1>1, <3>1, Zenon DEF ReadTurn
    <3>2. CASE i # 0
      <4>1. i \in 1..n /\ i - 1 \in 0..n
        BY <1>0, <3>2
      <4>2. w[i - 1] = ReadTo(nals, E, i - 1)
        BY <4>1
      <4>3. ReadOne(ReadTo(nals, E, i - 1), d, i) = ReadTo(nals, E, i)
        BY <4>1, ReadOneTakesUnit
      <4> QED BY <3>2, <4>2, <4>3, Zenon DEF ReadTurn
    <3> QED BY <3>1, <3>2
  <2>2. w = [i \in 0..n |-> ReadTurn(w, d, at, i)]
    BY <2>1
  <2> QED BY <2>2 DEF Reads
<1>3. Reads(Read, d, n, at)
  <2> HIDE DEF w
  <2>1. Read = CHOOSE f : Reads(f, d, n, at)
    BY Zenon DEF Reads
  <2> QED BY <1>2, <2>1, Zenon
<1>4. parameterSets(d, n, at) = Read[n]
  BY Zenon DEF parameterSets, ReadTurn, ReadOne
<1> HIDE DEF w, Read
<1> DEFINE T == {i \in 0..n : Read[i] # ReadTo(nals, E, i)}
<1>5. ASSUME T # {} PROVE FALSE
  <2>1. T \subseteq Nat
    BY <1>0
  <2>2. PICK i \in T : \A k \in T : i <= k
    BY <1>5, <2>1, Smallest
  <2>3. i \in 0..n /\ Read[i] # ReadTo(nals, E, i)
    OBVIOUS
  <2>4. Read[i] = ReadTurn(Read, d, at, i)
    BY <1>3, <2>3 DEF Reads
  <2>5. CASE i = 0
    BY <1>1, <2>3, <2>4, <2>5, Zenon DEF ReadTurn
  <2>6. CASE i # 0
    <3>1. i \in 1..n /\ i - 1 \in 0..n /\ ~(i <= i - 1)
      BY <1>0, <2>3, <2>6
    <3>2. Read[i - 1] = ReadTo(nals, E, i - 1)
      BY <2>2, <3>1
    <3>3. ReadOne(ReadTo(nals, E, i - 1), d, i) = ReadTo(nals, E, i)
      BY <3>1, ReadOneTakesUnit
    <3> QED BY <2>3, <2>4, <2>6, <3>2, <3>3, Zenon DEF ReadTurn
  <2> QED BY <2>5, <2>6
<1>6. n \in 0..n
  BY <1>0
<1>7. Read[n] = ReadTo(nals, E, n)
  BY <1>5, <1>6
<1> QED BY <1>0, <1>4, <1>7, Zenon DEF ReadTo

LEMMA LengthPrefixedType ==
  ASSUME NEW t, NEW max, NEW nals \in SetsOf(t, max)
  PROVE  LengthPrefixed(nals) \in Seq(Byte)
<1> DEFINE n == Len(nals)
           s == [i \in 1..n |-> Two(Len(nals[i])) \o nals[i]]
           W == Seq(Byte)
<1>1. n \in Nat /\ DOMAIN nals = 1..n
  BY SetsFacts, LenProperties
<1>2. ASSUME NEW i \in 1..n PROVE Two(Len(nals[i])) \o nals[i] \in W
  <2> DEFINE b == nals[i]
  <2>1. b \in Seq(Byte) /\ Len(b) \in Nat
    BY SetsFacts, NalFacts
  <2>2. octet(Len(b), 256) \in 0..255 /\ octet(Len(b), 1) \in 0..255
    BY <2>1, TwoBytes
  <2>3. Two(Len(b)) \in Seq(Byte)
    BY <2>2 DEF Two, Byte
  <2> HIDE DEF b
  <2>4. Two(Len(b)) \o b \in Seq(Byte)
    BY <2>1, <2>3, ConcatProperties
  <2> QED BY <2>4 DEF b
<1>3. s \in Seq(Seq(Byte))
  <2> HIDE DEF W
  <2>2. s \in Seq(W)
    BY <1>1, <1>2
  <2> QED BY <2>2 DEF W
<1>4. LengthPrefixed(nals) = FlattenSeq(s)
  BY <1>1, Zenon DEF LengthPrefixed
<1> HIDE DEF s
<1>5. FlattenSeq(s) \in Seq(Byte)
  BY <1>3, JoinEnds
<1> QED BY <1>4, <1>5, Zenon

\* Both parts of a join lie in it.
LEMMA JoinHolds ==
  ASSUME NEW S, NEW a \in Seq(S), NEW b \in Seq(S)
  PROVE  a \o b \in Seq(S) /\ Len(a \o b) = Len(a) + Len(b) /\ Within(a, a \o b, 0) /\ Within(b, a \o b, Len(a))
<1> DEFINE d == a \o b
<1>1. /\ d \in Seq(S) /\ Len(d) = Len(a) + Len(b)
      /\ \A i \in 1 .. Len(a) + Len(b) : d[i] = IF i <= Len(a) THEN a[i] ELSE b[i - Len(a)]
  BY ConcatProperties
<1>2. Len(a) \in Nat /\ Len(b) \in Nat
  BY LenProperties
<1> DEFINE m == Len(a)
           n == Len(b)
<1>3. /\ 0 + m <= m + n /\ m + n <= m + n
      /\ \A k \in 1..m : k \in 1..m+n /\ k <= m /\ 0 + k = k
      /\ \A k \in 1..n : m + k \in 1..m+n /\ ~(m + k <= m) /\ (m + k) - m = k
  <2> HIDE DEF m, n
  <2>1. m \in Nat /\ n \in Nat
    BY <1>2 DEF m, n
  <2> QED BY <2>1
<1> HIDE DEF d
<1>4. \A k \in 1..m : d[0 + k] = a[k]
  BY <1>1, <1>3, Zenon
<1>5. ASSUME NEW k \in 1..n PROVE d[m + k] = b[k]
  <2>1. m + k \in 1..m+n /\ ~(m + k <= m) /\ (m + k) - m = k
    BY <1>3, Zenon
  <2>2. d[m + k] = b[(m + k) - m]
    BY <1>1, <2>1, Zenon
  <2> QED BY <2>1, <2>2, Zenon
<1>6. Within(a, d, 0) /\ Within(b, d, Len(a))
  BY <1>1, <1>3, <1>4, <1>5, Zenon DEF Within
<1> QED BY <1>1, <1>6 DEF d

LEMMA WithinWithin ==
  ASSUME NEW S, NEW g \in Seq(S), NEW x \in Seq(S), NEW d \in Seq(S), NEW i \in Nat, NEW j \in Nat,
         Within(g, x, i), Within(x, d, j)
  PROVE  Within(g, d, j + i)
<1> DEFINE l == Len(g)
           m == Len(x)
           n == Len(d)
<1>1. /\ l \in Nat /\ m \in Nat /\ n \in Nat /\ i + l <= m /\ j + m <= n
      /\ \A k \in 1..l : x[i + k] = g[k]
      /\ \A k \in 1..m : d[j + k] = x[k]
  BY LenProperties DEF Within
<1> HIDE DEF l, m, n
<1>2. j + i + l <= n
  BY <1>1
<1>3. ASSUME NEW k \in 1..l PROVE d[j + i + k] = g[k]
  <2>1. i + k \in 1..m /\ j + (i + k) = j + i + k
    BY <1>1
  <2>2. d[j + (i + k)] = x[i + k] /\ x[i + k] = g[k]
    BY <1>1, <2>1
  <2> QED BY <2>1, <2>2, Zenon
<1> QED BY <1>2, <1>3 DEF Within, l, n

LEMMA FirstFound ==
  ASSUME NEW nals \in Seq(Nal), NEW t, NEW m \in 1..Len(nals), NalType(nals[m]) = t,
         \A i \in 1..Len(nals) : i < m => NalType(nals[i]) # t
  PROVE  FirstOfType(nals, t) = nals[m]
<1> DEFINE A == {i \in DOMAIN nals : NalType(nals[i]) = t}
<1>1. DOMAIN nals = 1..Len(nals) /\ Len(nals) \in Nat
  BY LenProperties
<1>2. m \in A /\ A \subseteq Nat /\ \A i \in A : m <= i
  BY <1>1
<1>3. FirstOfType(nals, t) = nals[Min(A)]
  BY <1>2 DEF FirstOfType
<1> HIDE DEF A
<1>4. Min(A) \in A /\ \A i \in A : Min(A) <= i
  BY <1>2 DEF Min
<1>5. Min(A) = m
  <2>1. Min(A) <= m /\ m <= Min(A) /\ Min(A) \in Nat
    BY <1>2, <1>4
  <2> QED BY <2>1
<1> QED BY <1>3, <1>5, Zenon

\* A container's parameter sets in the form of an AVCDecoderConfigurationRecord.
LEMMA AvccBytes ==
  ASSUME NEW e \in Container, e.avcc
  PROVE  LET d == ExtradataBytes(e)
             g == LengthPrefixed(e.sps)
             h == LengthPrefixed(e.pps)
         IN /\ d \in Seq(Byte) /\ Len(d) = 6 + Len(g) + 1 + Len(h) /\ Len(g) \in Nat /\ Len(h) \in Nat
            /\ d[1] = 1 /\ d[6] = 224 + Len(e.sps) /\ d[6 + Len(g) + 1] = Len(e.pps)
            /\ Within(g, d, 6) /\ Within(h, d, 6 + Len(g) + 1)
<1> DEFINE n == Len(e.sps)
           c == Len(e.pps)
           a == <<1, 66, 0, 30, 255, 224 + n>>
           b == <<c>>
           g == LengthPrefixed(e.sps)
           h == LengthPrefixed(e.pps)
           x == a \o g
           y == b \o h
           d == x \o y
<1>1. e.sps \in SetsOf(7, 31) /\ e.pps \in SetsOf(8, 255)
  BY DEF Container
<1>2. n \in Nat \ {0} /\ n <= 31 /\ c \in Nat \ {0} /\ c <= 255
  BY <1>1, SetsFacts
<1>3. g \in Seq(Byte) /\ h \in Seq(Byte) /\ Len(g) \in Nat /\ Len(h) \in Nat
  BY <1>1, LengthPrefixedType, LenProperties
<1>4. a \in Seq(Byte) /\ Len(a) = 6 /\ a[1] = 1 /\ a[6] = 224 + n
  <2> HIDE DEF n
  <2>1. 224 + n \in 0..255
    BY <1>2
  <2>2. 1 \in 0..255 /\ 66 \in 0..255 /\ 0 \in 0..255 /\ 30 \in 0..255 /\ 255 \in 0..255
    OBVIOUS
  <2> DEFINE z == 224 + n
  <2> HIDE DEF z
  <2>3. z \in 0..255
    BY <2>1 DEF z
  <2>4. <<1, 66, 0, 30, 255, z>> \in Seq(0..255)
    BY <2>2, <2>3
  <2> QED BY <2>4 DEF Byte, z
<1>5. b \in Seq(Byte) /\ Len(b) = 1 /\ b[1] = c
  <2> HIDE DEF c
  <2>1. c \in 0..255
    BY <1>2
  <2> QED BY <2>1 DEF Byte
<1>6. ExtradataBytes(e) = d
  BY Zenon DEF ExtradataBytes
<1> HIDE DEF a, b, g, h, n, c
<1>7. x \in Seq(Byte) /\ Len(x) = 6 + Len(g) /\ Within(a, x, 0) /\ Within(g, x, 6)
  <2>1. x \in Seq(Byte) /\ Len(x) = Len(a) + Len(g) /\ Within(a, x, 0) /\ Within(g, x, Len(a))
    BY <1>3, <1>4, JoinHolds
  <2> QED BY <1>4, <2>1, Zenon
<1>8. y \in Seq(Byte) /\ Len(y) = 1 + Len(h) /\ Within(b, y, 0) /\ Within(h, y, 1)
  <2>1. y \in Seq(Byte) /\ Len(y) = Len(b) + Len(h) /\ Within(b, y, 0) /\ Within(h, y, Len(b))
    BY <1>3, <1>5, JoinHolds
  <2> QED BY <1>5, <2>1, Zenon
<1> HIDE DEF x, y
<1>9. d \in Seq(Byte) /\ Len(d) = Len(x) + Len(y) /\ Within(x, d, 0) /\ Within(y, d, Len(x))
  BY <1>7, <1>8, JoinHolds
<1> HIDE DEF d
<1>10. Within(a, d, 0 + 0) /\ Within(g, d, 0 + 6)
  BY <1>3, <1>4, <1>7, <1>9, WithinWithin
<1>11. Within(b, d, Len(x) + 0) /\ Within(h, d, Len(x) + 1)
  <2>1. Len(x) \in Nat
    BY <1>3, <1>7
  <2> QED BY <1>3, <1>5, <1>8, <1>9, <2>1, WithinWithin
<1>12. d[1] = 1 /\ d[6] = 224 + n
  <2>1. 1 \in 1..6 /\ 6 \in 1..6 /\ 0 + 0 + 1 = 1 /\ 0 + 0 + 6 = 6
    OBVIOUS
  <2>2. \A k \in 1..6 : d[0 + 0 + k] = a[k]
    BY <1>4, <1>10, Zenon DEF Within
  <2> QED BY <1>4, <2>1, <2>2, ZenonT(40)
<1>13. d[6 + Len(g) + 1] = c
  <2>1. 1 \in 1..1 /\ Len(x) + 0 + 1 = 6 + Len(g) + 1
    BY <1>3, <1>7
  <2>2. \A k \in 1..1 : d[Len(x) + 0 + k] = b[k]
    BY <1>5, <1>11, Zenon DEF Within
  <2> QED BY <1>5, <2>1, <2>2, Zenon
<1>14. Len(d) = 6 + Len(g) + 1 + Len(h) /\ 0 + 6 = 6 /\ Len(x) + 1 = 6 + Len(g) + 1
  BY <1>3, <1>7, <1>8, <1>9
<1>15. Within(g, d, 6) /\ Within(h, d, 6 + Len(g) + 1)
  BY <1>10, <1>11, <1>14, Zenon
<1> QED BY <1>3, <1>6, <1>9, <1>12, <1>13, <1>14, <1>15, Zenon DEF g, h, n, c

\* Parsing finds the first parameter sets of a container ...
LEMMA AvccIsParsed ==
  ASSUME NEW e \in Container, e.avcc
  PROVE  parseExtradata(ExtradataBytes(e)) = [sps |-> e.sps[1], pps |-> e.pps[1]]
<1> DEFINE d == ExtradataBytes(e)
           g == LengthPrefixed(e.sps)
           h == LengthPrefixed(e.pps)
           n == Len(e.sps)
           c == Len(e.pps)
           s == parameterSets(d, d[6] % 32, 6)
<1>1. /\ e.sps \in SetsOf(7, 31) /\ e.sps \in Seq(Nal) /\ e.sps # <<>> /\ n \in Nat \ {0} /\ n <= 31
      /\ e.pps \in SetsOf(8, 255) /\ e.pps \in Seq(Nal) /\ e.pps # <<>>
  BY SetsFacts DEF Container
<1>2. /\ d \in Seq(Byte) /\ Len(d) = 6 + Len(g) + 1 + Len(h) /\ Len(g) \in Nat /\ Len(h) \in Nat
      /\ d[1] = 1 /\ d[6] = 224 + n /\ d[6 + Len(g) + 1] = c
      /\ Within(g, d, 6) /\ Within(h, d, 6 + Len(g) + 1)
  BY AvccBytes
<1> HIDE DEF d, n, c
<1>3. d[6] % 32 = n
  <2>1. (224 + n) % 32 = n
    BY <1>1
  <2> QED BY <1>2, <2>1, Zenon
<1>4. PICK E : Listed(d, 6, e.sps, E) /\ E[Len(e.sps)] = 6 + Len(g)
  <2> DEFINE sps == e.sps
  <2>1. sps \in SetsOf(7, 31) /\ Within(LengthPrefixed(sps), d, 6) /\ d \in Seq(Byte) /\ 6 \in Nat
    BY <1>1, <1>2
  <2> HIDE DEF sps
  <2>2. \E E : Listed(d, 6, sps, E) /\ E[Len(sps)] = 6 + Len(LengthPrefixed(sps))
    BY <2>1, ListedAt
  <2> QED BY <2>2 DEF sps
<1>5. PICK F : Listed(d, 6 + Len(g) + 1, e.pps, F)
  <2> DEFINE at == 6 + Len(g) + 1
  <2>1. at \in Nat /\ Within(LengthPrefixed(e.pps), d, at)
    BY <1>2
  <2> HIDE DEF at
  <2>2. \E F : Listed(d, at, e.pps, F)
    BY <1>1, <1>2, <2>1, ListedAt
  <2> QED BY <2>2 DEF at
<1>6. parameterSets(d, n, 6) = [first |-> e.sps[1], end |-> E[Len(e.sps)], broken |-> FALSE]
  <2> DEFINE sps == e.sps
  <2>1. sps \in Seq(Nal) /\ sps # <<>> /\ Listed(d, 6, sps, E) /\ 6 \in Nat
    BY <1>1, <1>4
  <2> HIDE DEF sps
  <2>2. parameterSets(d, Len(sps), 6) = [first |-> sps[1], end |-> E[Len(sps)], broken |-> FALSE]
    BY <2>1, SetsAreRead
  <2> QED BY <2>2 DEF sps, n
<1>7. parameterSets(d, c, 6 + Len(g) + 1) = [first |-> e.pps[1], end |-> F[Len(e.pps)], broken |-> FALSE]
  <2> DEFINE at == 6 + Len(g) + 1
  <2>1. at \in Nat /\ Listed(d, at, e.pps, F)
    BY <1>2, <1>5
  <2> HIDE DEF at
  <2>2. parameterSets(d, Len(e.pps), at) = [first |-> e.pps[1], end |-> F[Len(e.pps)], broken |-> FALSE]
    BY <1>1, <2>1, SetsAreRead
  <2> QED BY <2>2 DEF at, c
<1>8. s.first = e.sps[1] /\ s.end = 6 + Len(g)
  BY <1>3, <1>4, <1>6
<1> HIDE DEF s
<1>9. d[s.end + 1] = c /\ parameterSets(d, d[s.end + 1], s.end + 1).first = e.pps[1]
  <2>1. d[s.end + 1] = c
    BY <1>2, <1>8, Zenon
  <2>2. parameterSets(d, d[s.end + 1], s.end + 1) = [first |-> e.pps[1], end |-> F[Len(e.pps)], broken |-> FALSE]
    BY <1>7, <1>8, <2>1, Zenon
  <2> QED BY <2>1, <2>2
<1>10. ~(Len(d) < 4) /\ ~(Len(d) < 7) /\ ~(s.end >= Len(d))
  <2> HIDE DEF g, h
  <2> QED BY <1>2, <1>8
<1>11. parseExtradata(d) = [sps |-> s.first, pps |-> parameterSets(d, d[s.end + 1], s.end + 1).first]
  BY <1>2, <1>10, Zenon DEF parseExtradata, s
<1>12. parseExtradata(d) = [sps |-> e.sps[1], pps |-> e.pps[1]]
  BY <1>8, <1>9, <1>11, Zenon
<1> QED BY <1>12 DEF d

\* ... in either form.
LEMMA AnnexBIsParsed ==
  ASSUME NEW e \in Container, ~e.avcc
  PROVE  parseExtradata(ExtradataBytes(e)) = [sps |-> e.sps[1], pps |-> e.pps[1]]
<1> DEFINE both == e.sps \o e.pps
           n == Len(e.sps)
           m == Len(e.pps)
           codes == [i \in DOMAIN both |-> 4]
           d == AnnexB(both, codes)
<1>1. /\ e.sps \in Seq(Nal) /\ n \in Nat \ {0} /\ \A i \in 1..n : NalType(e.sps[i]) = 7
      /\ e.pps \in Seq(Nal) /\ m \in Nat \ {0} /\ \A i \in 1..m : NalType(e.pps[i]) = 8
  BY SetsFacts DEF Container
<1>2. ExtradataBytes(e) = d
  BY Zenon DEF ExtradataBytes
<1>3. /\ both \in Seq(Nal) /\ Len(both) = n + m
      /\ \A i \in 1..n+m : both[i] = IF i <= n THEN e.sps[i] ELSE e.pps[i - n]
  BY <1>1, ConcatProperties
<1> HIDE DEF both, n, m
<1>4. codes \in Codes /\ Len(codes) = Len(both) /\ codes = [i \in 1..n+m |-> 4]
  <2>1. DOMAIN both = 1..n+m
    BY <1>3
  <2> QED BY <1>1, <1>3, <2>1 DEF Codes
<1> HIDE DEF codes
<1>5. splitView(d) = both
  BY <1>3, <1>4, SplitUndoes
<1>6. Len(d) >= 4 /\ d[1] # 1
  <2>1. PICK E : Laid(d, both, codes, E)
    BY <1>3, <1>4, LaidOut
  <2>2. 1 \in 1..Len(both) /\ codes[1] = 4 /\ 1 \in 0..Len(both) /\ 1 - 1 = 0 /\ both[1] \in Nal
    <3>1. 1 \in 1..Len(both) /\ 1 \in 0..Len(both) /\ codes[1] = 4
      BY <1>1, <1>3, <1>4
    <3> QED BY <1>3, <3>1, ElementOfSeq
  <2>3. /\ E[0] = 0 /\ d \in Seq(Byte) /\ E[1] <= Len(d) /\ E[1] = E[1 - 1] + codes[1] + Len(both[1])
        /\ \A k \in 1..codes[1]-1 : d[E[1 - 1] + k] = 0
    BY <2>1, <2>2 DEF Laid
  <2>4. E[1] = 0 + 4 + Len(both[1]) /\ \A k \in 1..4-1 : d[0 + k] = 0
    BY <2>2, <2>3, Zenon
  <2>5. Len(both[1]) \in Nat /\ Len(d) \in Nat
    BY <2>2, <2>3, NalFacts
  <2>6. d[0 + 1] = 0
    BY <2>4
  <2> QED BY <2>3, <2>4, <2>5, <2>6
<1>7. FirstOfType(both, 7) = e.sps[1]
  <2>1. 1 \in 1..Len(both) /\ 1 \in 1..n+m /\ 1 <= n /\ 1 \in 1..n
    BY <1>1, <1>3
  <2>2. both[1] = e.sps[1] /\ NalType(both[1]) = 7
    BY <1>1, <1>3, <2>1, Zenon
  <2>3. \A i \in 1..Len(both) : ~(i < 1)
    OBVIOUS
  <2>4. FirstOfType(both, 7) = both[1]
    BY <1>3, <2>1, <2>2, <2>3, FirstFound
  <2> QED BY <2>2, <2>4, Zenon
<1>8. FirstOfType(both, 8) = e.pps[1]
  <2> DEFINE k == n + 1
  <2>1. k \in 1..Len(both) /\ k \in 1..n+m /\ ~(k <= n) /\ k - n = 1 /\ 1 \in 1..m
    BY <1>1, <1>3
  <2>2. \A i \in 1..Len(both) : i < k => i \in 1..n /\ i \in 1..n+m /\ i <= n
    BY <1>1, <1>3
  <2> HIDE DEF k
  <2>3. both[k] = e.pps[1] /\ NalType(both[k]) = 8
    BY <1>1, <1>3, <2>1, Zenon
  <2>4. \A i \in 1..Len(both) : i < k => NalType(both[i]) # 8
    <3>1. \A i \in 1..Len(both) : i < k => NalType(both[i]) = 7
      BY <1>1, <1>3, <2>2, Zenon
    <3> QED BY <3>1
  <2>5. FirstOfType(both, 8) = both[k]
    BY <1>3, <2>1, <2>3, <2>4, FirstFound
  <2> QED BY <2>3, <2>5, Zenon
<1>9. split(d) = both
  BY <1>5 DEF split
<1> HIDE DEF d
<1>10. ~(Len(d) < 4)
  <2>1. Len(d) >= 4
    BY <1>6
  <2>2. Len(d) \in Nat
    <3>1. PICK E : Laid(AnnexB(both, codes), both, codes, E)
      BY <1>3, <1>4, LaidOut
    <3> QED BY <3>1, LenProperties DEF Laid, d
  <2> QED BY <2>1, <2>2
<1>11. parseExtradata(d) = [sps |-> FirstOfType(split(d), 7), pps |-> FirstOfType(split(d), 8)]
  BY <1>6, <1>10, Zenon DEF parseExtradata
<1>12. parseExtradata(d) = [sps |-> e.sps[1], pps |-> e.pps[1]]
  BY <1>7, <1>8, <1>9, <1>11, Zenon
<1> QED BY <1>2, <1>12, Zenon

LEMMA ParseUndoes ==
  ASSUME NEW e \in Container
  PROVE  parseExtradata(ExtradataBytes(e)) = [sps |-> e.sps[1], pps |-> e.pps[1]]
<1>1. e.avcc \in BOOLEAN
  BY DEF Container
<1> QED BY <1>1, AvccIsParsed, AnnexBIsParsed

-----------------------------------------------------------------------------
(* Base 64.                                                                *)

ByteAt(d, i) == IF i < Len(d) THEN d[i + 1] ELSE 0
WordAt(d, i) == Word16 * ByteAt(d, i) + 256 * ByteAt(d, i + 1) + ByteAt(d, i + 2)
Digit(x, u) == (x \div u) % 64
Value(s, k) == IF s[k] = Pad THEN 0 ELSE s[k]
Group(s, k) == Word18 * Value(s, k) + Word12 * Value(s, k + 1) + 64 * Value(s, k + 2) + Value(s, k + 3)

\* A letter for six bits is no pad.
LEMMA DigitRange ==
  ASSUME NEW x \in Nat, NEW u \in Nat \ {0}
  PROVE  Digit(x, u) \in Nat /\ Digit(x, u) # Pad
<1>1. x \div u \in Nat
  OBVIOUS
<1>2. \A y \in Nat : y % 64 \in Nat /\ y % 64 < 64
  OBVIOUS
<1> QED BY <1>1, <1>2 DEF Digit, Pad

Units == <<Word18, Word12, 64, 1>>
Letter(d, i, j) == IF j > 1 /\ i + j - 1 >= Len(d) THEN Pad ELSE Digit(WordAt(d, i), Units[j + 1])

LEMMA LetterAt ==
  ASSUME NEW d, Len(d) \in Nat, NEW g \in Nat, 3 * g < Len(d), NEW j \in 0..3
  PROVE  4 * g + j + 1 \in 1 .. 4 * ((Len(d) + 2) \div 3) /\ base64Encode(d)[4 * g + j + 1] = Letter(d, 3 * g, j)
<1> DEFINE n == 4 * ((Len(d) + 2) \div 3)
           k == 4 * g + j + 1
           F == [i \in 1..n |-> Letter(d, 3 * ((i - 1) \div 4), (i - 1) % 4)]
<1>1. base64Encode(d) = F
  BY Zenon DEF base64Encode, Letter, Digit, WordAt, ByteAt, Units
<1>2. k \in 1..n /\ 3 * ((k - 1) \div 4) = 3 * g /\ (k - 1) % 4 = j
  <2> DEFINE l == Len(d)
  <2> HIDE DEF l
  <2>1. l \in Nat /\ 3 * g < l
    BY DEF l
  <2>2. k \in 1..(4 * ((l + 2) \div 3)) /\ 3 * ((k - 1) \div 4) = 3 * g /\ (k - 1) % 4 = j
    BY <2>1
  <2> QED BY <2>2 DEF l
<1> HIDE DEF k, n
<1>3. F[k] = Letter(d, 3 * ((k - 1) \div 4), (k - 1) % 4)
  BY <1>2
<1>4. F[k] = Letter(d, 3 * g, j)
  BY <1>2, <1>3, Zenon
<1> QED BY <1>1, <1>2, <1>4, Zenon DEF k, n

LEMMA EncodedLength ==
  ASSUME NEW d, Len(d) \in Nat
  PROVE  Len(base64Encode(d)) = 4 * ((Len(d) + 2) \div 3)
<1> DEFINE n == 4 * ((Len(d) + 2) \div 3)
           F == [i \in 1..n |-> Letter(d, 3 * ((i - 1) \div 4), (i - 1) % 4)]
<1>1. base64Encode(d) = F
  BY Zenon DEF base64Encode, Letter, Digit, WordAt, ByteAt, Units
<1>2. n \in Nat
  OBVIOUS
<1> HIDE DEF n
<1>3. Len(F) = n
  BY <1>2
<1> QED BY <1>1, <1>3, Zenon DEF n

LEMMA ByteAtFacts ==
  ASSUME NEW d \in Seq(Byte), NEW i \in Nat
  PROVE  /\ ByteAt(d, i) \in Nat /\ ByteAt(d, i) < 256
         /\ i < Len(d) => ByteAt(d, i) = d[i + 1]
         /\ i >= Len(d) => ByteAt(d, i) = 0
<1>1. Len(d) \in Nat
  OBVIOUS
<1>2. CASE i < Len(d)
  <2>1. i + 1 \in 1..Len(d) /\ ~(i >= Len(d))
    BY <1>1, <1>2
  <2> DEFINE b == d[i + 1]
  <2>2. b \in 0..255
    BY <2>1, ElementOfSeq DEF Byte
  <2>3. ByteAt(d, i) = b
    BY <1>2 DEF ByteAt
  <2> HIDE DEF b
  <2>4. b \in Nat /\ b < 256
    BY <2>2
  <2> QED BY <1>2, <2>1, <2>3, <2>4 DEF b
<1>3. CASE ~(i < Len(d))
  BY <1>3 DEF ByteAt
<1> QED BY <1>2, <1>3

\* The four letters of a group stand for its three bytes, pads for zeros.
LEMMA GroupUndoes ==
  ASSUME NEW d \in Seq(Byte), NEW g \in Nat, 3 * g < Len(d)
  PROVE  Group(base64Encode(d), 4 * g + 1) = WordAt(d, 3 * g)
<1> DEFINE s == base64Encode(d)
           n == Len(d)
           i == 3 * g
           x == WordAt(d, i)
           a == ByteAt(d, i)
           b == ByteAt(d, i + 1)
           c == ByteAt(d, i + 2)
<1>0. n \in Nat /\ i \in Nat /\ i + 1 \in Nat /\ i + 2 \in Nat
  OBVIOUS
<1>1. /\ a \in Nat /\ a < 256 /\ b \in Nat /\ b < 256 /\ c \in Nat /\ c < 256
      /\ i + 1 >= n => b = 0
      /\ i + 2 >= n => c = 0
  BY <1>0, ByteAtFacts, ZenonT(40)
<1>2. x = Word16 * a + 256 * b + c
  BY Zenon DEF WordAt
<1> HIDE DEF a, b, c, x
<1>3. /\ x \in Nat
      /\ Word18 * Digit(x, Word18) + Word12 * Digit(x, Word12) + 64 * Digit(x, 64) + Digit(x, 1) = x
      /\ b = 0 /\ c = 0 => Digit(x, 64) = 0
      /\ c = 0 => Digit(x, 1) = 0
  BY <1>1, <1>2, SMTT(60) DEF Digit, Word12, Word16, Word18
<1>4. Digit(x, Word18) # Pad /\ Digit(x, Word12) # Pad /\ Digit(x, 64) # Pad /\ Digit(x, 1) # Pad
  <2>1. Word18 \in Nat \ {0} /\ Word12 \in Nat \ {0} /\ 64 \in Nat \ {0} /\ 1 \in Nat \ {0}
    BY SMT DEF Word12, Word18
  <2> QED BY <1>3, <2>1, DigitRange, Zenon
<1>5. /\ s[4 * g + 0 + 1] = Letter(d, i, 0) /\ s[4 * g + 1 + 1] = Letter(d, i, 1)
      /\ s[4 * g + 2 + 1] = Letter(d, i, 2) /\ s[4 * g + 3 + 1] = Letter(d, i, 3)
  <2>1. 0 \in 0..3 /\ 1 \in 0..3 /\ 2 \in 0..3 /\ 3 \in 0..3
    OBVIOUS
  <2> QED BY <1>0, <2>1, LetterAt
<1> DEFINE k == 4 * g + 1
<1>6. 4 * g + 0 + 1 = k /\ 4 * g + 1 + 1 = k + 1 /\ 4 * g + 2 + 1 = k + 2 /\ 4 * g + 3 + 1 = k + 3
  OBVIOUS
<1>7. Units[0 + 1] = Word18 /\ Units[1 + 1] = Word12 /\ Units[2 + 1] = 64 /\ Units[3 + 1] = 1
  BY SMT DEF Units
<1> HIDE DEF s, i
<1>8. Letter(d, i, 0) = Digit(x, Word18) /\ Letter(d, i, 1) = Digit(x, Word12)
  <2>1. ~(0 > 1) /\ ~(1 > 1)
    OBVIOUS
  <2> QED BY <1>7, <2>1, SMT DEF Letter, x
<1>9. /\ Letter(d, i, 2) = IF i + 1 >= n THEN Pad ELSE Digit(x, 64)
      /\ Letter(d, i, 3) = IF i + 2 >= n THEN Pad ELSE Digit(x, 1)
  <2>1. 2 > 1 /\ 3 > 1 /\ i + 2 - 1 = i + 1 /\ i + 3 - 1 = i + 2
    BY <1>0
  <2> QED BY <1>7, <2>1, Zenon DEF Letter, x
<1> HIDE DEF k
<1>10. Value(s, k) = Digit(x, Word18) /\ Value(s, k + 1) = Digit(x, Word12)
  BY <1>4, <1>5, <1>6, <1>8, SMT DEF Value
<1>11. Value(s, k + 2) = Digit(x, 64)
  <2>1. s[k + 2] = IF i + 1 >= n THEN Pad ELSE Digit(x, 64)
    BY <1>5, <1>6, <1>9, Zenon
  <2>2. i + 1 >= n => Digit(x, 64) = 0
    <3>1. i + 1 >= n => i + 2 >= n
      BY <1>0
    <3> QED BY <1>1, <1>3, <3>1, SMT
  <2> QED BY <1>4, <2>1, <2>2, SMT DEF Value
<1>12. Value(s, k + 3) = Digit(x, 1)
  <2>1. s[k + 3] = IF i + 2 >= n THEN Pad ELSE Digit(x, 1)
    BY <1>5, <1>6, <1>9, Zenon
  <2>2. i + 2 >= n => Digit(x, 1) = 0
    BY <1>1, <1>3, SMT
  <2> QED BY <1>4, <2>1, <2>2, SMT DEF Value
<1>13. Group(s, k) = x
  BY <1>3, <1>10, <1>11, <1>12, SMT DEF Group
<1> QED BY <1>13 DEF s, k, x, i

\* The number of pads that end the letters, and of the bytes they stand for.
PadsOf(s) == IF s[Len(s)] # Pad THEN 0 ELSE IF s[Len(s) - 1] # Pad THEN 1 ELSE 2
SizeOf(s) == IF s = <<>> THEN 0 ELSE 3 * (Len(s) \div 4) - PadsOf(s)
ByteUnits == <<Word16, 256, 1>>

LEMMA SizeUndoes ==
  ASSUME NEW d \in Seq(Byte), d # <<>>
  PROVE  SizeOf(base64Encode(d)) = Len(d)
<1> DEFINE s == base64Encode(d)
           n == Len(d)
           g == (n - 1) \div 3
           i == 3 * g
           x == WordAt(d, i)
<1>1. n \in Nat /\ n > 0
  BY EmptySeq
<1>2. g \in Nat /\ 3 * g < n /\ 4 * ((n + 2) \div 3) = 4 * g + 4 /\ n <= 3 * g + 3
  <2> HIDE DEF n
  <2> QED BY <1>1
<1>3. Len(s) = 4 * g + 4
  BY <1>1, <1>2, EncodedLength, Zenon
<1>4. s[4 * g + 2 + 1] = Letter(d, i, 2) /\ s[4 * g + 3 + 1] = Letter(d, i, 3)
  <2>1. 2 \in 0..3 /\ 3 \in 0..3
    OBVIOUS
  <2> QED BY <1>1, <1>2, <2>1, LetterAt
<1>5. Digit(x, 64) # Pad /\ Digit(x, 1) # Pad
  <2>1. i \in Nat /\ i + 1 \in Nat /\ i + 2 \in Nat
    BY <1>2
  <2> HIDE DEF i
  <2>2. x \in Nat
    <3>1. ByteAt(d, i) \in Nat /\ ByteAt(d, i + 1) \in Nat /\ ByteAt(d, i + 2) \in Nat
      BY <2>1, ByteAtFacts, Zenon
    <3> DEFINE a == ByteAt(d, i)
               b == ByteAt(d, i + 1)
               c == ByteAt(d, i + 2)
    <3> HIDE DEF a, b, c
    <3>2. a \in Nat /\ b \in Nat /\ c \in Nat
      BY <3>1 DEF a, b, c
    <3>3. Word16 * a + 256 * b + c \in Nat
      BY <3>2, SMT DEF Word16
    <3> QED BY <3>3, Zenon DEF a, b, c, WordAt
  <2>3. 64 \in Nat \ {0} /\ 1 \in Nat \ {0}
    OBVIOUS
  <2> QED BY <2>2, <2>3, DigitRange, Zenon
<1>6. Letter(d, i, 2) = Pad <=> i + 1 >= n
  <2>1. 2 > 1 /\ i + 2 - 1 = i + 1 /\ Units[2 + 1] = 64
    BY <1>2, SMT DEF Units
  <2> QED BY <2>1, <1>5, Zenon DEF Letter
<1>7. Letter(d, i, 3) = Pad <=> i + 2 >= n
  <2>1. 3 > 1 /\ i + 3 - 1 = i + 2 /\ Units[3 + 1] = 1
    BY <1>2, SMT DEF Units
  <2> QED BY <2>1, <1>5, Zenon DEF Letter
<1>8. s # <<>>
  <2>1. Len(s) # 0
    BY <1>2, <1>3
  <2> QED BY <2>1, SMT
<1> DEFINE m == Len(s)
<1>9. (s[m] = Pad <=> i + 2 >= n) /\ (s[m - 1] = Pad <=> i + 1 >= n)
  <2>1. m = 4 * g + 3 + 1 /\ m - 1 = 4 * g + 2 + 1
    BY <1>2, <1>3
  <2> HIDE DEF m, i
  <2> QED BY <1>4, <1>6, <1>7, <2>1, Zenon
<1>10. SizeOf(s) = 3 * (m \div 4) - (IF i + 2 < n THEN 0 ELSE IF i + 1 < n THEN 1 ELSE 2)
  <2>1. (i + 2 < n <=> ~(i + 2 >= n)) /\ (i + 1 < n <=> ~(i + 1 >= n))
    BY <1>1, <1>2
  <2> HIDE DEF i
  <2>2. PadsOf(s) = IF i + 2 < n THEN 0 ELSE IF i + 1 < n THEN 1 ELSE 2
    BY <1>9, <2>1, Zenon DEF PadsOf
  <2> QED BY <1>8, <2>2, Zenon DEF SizeOf
<1>11. SizeOf(s) = n
  <2>1. m \div 4 = g + 1
    <3> HIDE DEF g, m
    <3>1. \A y \in Nat : (4 * y + 4) \div 4 = y + 1
      OBVIOUS
    <3> QED BY <1>2, <1>3, <3>1, Zenon DEF m
  <2>2. SizeOf(s) = 3 * (g + 1) - (IF i + 2 < n THEN 0 ELSE IF i + 1 < n THEN 1 ELSE 2)
    BY <1>10, <2>1, Zenon
  <2> HIDE DEF s, n, g
  <2> QED BY <1>1, <1>2, <2>2
<1> QED BY <1>11

LEMMA Base64Undoes ==
  ASSUME NEW d \in Seq(Byte), d # <<>>
  PROVE  Decode64(base64Encode(d)) = d
<1> DEFINE s == base64Encode(d)
           n == Len(d)
           D(k) == octet(Group(s, 4 * ((k - 1) \div 3) + 1), ByteUnits[1 + ((k - 1) % 3)])
<1>1. n \in Nat
  OBVIOUS
<1> HIDE DEF s
<1>2. Decode64(s) = [k \in 1 .. SizeOf(s) |-> D(k)]
  BY Zenon DEF Decode64, SizeOf, PadsOf, ByteUnits, Group, Value
<1>3. SizeOf(s) = n
  BY SizeUndoes, Zenon DEF s
<1>4. ASSUME NEW k \in 1..n
      PROVE  D(k) = d[k]
  <2> DEFINE g == (k - 1) \div 3
             j == (k - 1) % 3
             i == 3 * g
             x == WordAt(d, i)
             a == ByteAt(d, i)
             b == ByteAt(d, i + 1)
             c == ByteAt(d, i + 2)
  <2>1. g \in Nat /\ 3 * g < n /\ j \in 0..2 /\ k = i + j + 1 /\ i \in Nat /\ i + 1 \in Nat /\ i + 2 \in Nat
    <3> HIDE DEF n
    <3> QED BY <1>1
  <2>2. Group(s, 4 * g + 1) = x
    BY <2>1, GroupUndoes, Zenon DEF s
  <2>3. a \in Nat /\ a < 256 /\ b \in Nat /\ b < 256 /\ c \in Nat /\ c < 256
    BY <2>1, ByteAtFacts, Zenon
  <2>4. x = Word16 * a + 256 * b + c
    BY Zenon DEF WordAt
  <2> HIDE DEF a, b, c, x
  <2>5. octet(x, Word16) = a /\ octet(x, 256) = b /\ octet(x, 1) = c
    BY <2>3, <2>4, SMT DEF octet, Word16
  <2>6. ByteUnits[1 + 0] = Word16 /\ ByteUnits[1 + 1] = 256 /\ ByteUnits[1 + 2] = 1
    BY SMT DEF ByteUnits
  <2>7. D(k) = octet(x, ByteUnits[1 + j])
    BY <2>2, Zenon
  <2>8. i + j < n /\ i + j \in Nat /\ i + j + 1 = k
    <3> HIDE DEF n, g, j, i
    <3> QED BY <2>1, <1>1
  <2>9. ByteAt(d, i + j) = d[k]
    <3> DEFINE y == i + j
    <3> HIDE DEF y
    <3>1. y \in Nat /\ y < Len(d) /\ y + 1 = k
      BY <2>8 DEF y
    <3>2. ByteAt(d, y) = d[y + 1]
      BY <3>1, ByteAtFacts, Zenon
    <3> QED BY <3>1, <3>2, Zenon DEF y
  <2> HIDE DEF D, g, j, i
  <2>10. CASE j = 0
    <3>1. i + j = i
      BY <2>1, <2>10
    <3>2. D(k) = a
      BY <2>5, <2>6, <2>7, <2>10, Zenon
    <3> QED BY <2>9, <3>1, <3>2, Zenon DEF a
  <2>11. CASE j = 1
    BY <2>5, <2>6, <2>7, <2>9, <2>11, Zenon DEF b
  <2>12. CASE j = 2
    BY <2>5, <2>6, <2>7, <2>9, <2>12, Zenon DEF c
  <2>13. j = 0 \/ j = 1 \/ j = 2
    BY <2>1
  <2> QED BY <2>10, <2>11, <2>12, <2>13, Zenon
<1> HIDE DEF D
<1>5. d = [k \in 1..n |-> d[k]]
  OBVIOUS
<1>6. [k \in 1..n |-> D(k)] = [k \in 1..n |-> d[k]]
  BY <1>4, Zenon
<1> QED BY <1>2, <1>3, <1>5, <1>6, Zenon DEF s

-----------------------------------------------------------------------------
(* The session and its description.                                        *)

\* stream_info_ once the file is open.
Opened(e) == [sps |-> e.sps[1], pps |-> e.pps[1], sprop |-> sprop(e.sps[1], e.pps[1])]

\* What DESCRIBE leaves behind, and nothing changes later.
Described ==
  /\ extradata \in Container /\ frames \in Streams /\ frames \in Seq(Frame) /\ tcp \in BOOLEAN
  /\ info = NotOpen \/ info = Opened(extradata)

LEMMA FirstSets ==
  ASSUME NEW e \in Container
  PROVE  /\ e.sps[1] \in Nal /\ e.pps[1] \in Nal
         /\ Opened(e) # NotOpen
         /\ Opened(e).sps = e.sps[1] /\ Opened(e).pps = e.pps[1] /\ Opened(e).sprop = sprop(e.sps[1], e.pps[1])
<1> DEFINE x == e.sps
           y == e.pps
<1>1. x \in SetsOf(7, 31) /\ y \in SetsOf(8, 255)
  BY DEF Container
<1> HIDE DEF x, y
<1>2. Len(x) \in Nat \ {0} /\ Len(y) \in Nat \ {0}
  BY <1>1, SetsFacts, ZenonT(40)
<1>3. 1 \in 1..Len(x) /\ 1 \in 1..Len(y)
  BY <1>2
<1>4. x[1] \in Nal /\ y[1] \in Nal
  BY <1>1, <1>3, SetsFacts
<1>5. x[1] # <<>>
  BY <1>4, NalFacts, Zenon
<1>6. Opened(e).sps = x[1]
  BY DEF Opened, x
<1>7. NotOpen.sps = <<>>
  BY DEF NotOpen
<1>8. Opened(e) # NotOpen
  BY <1>5, <1>6, <1>7, Zenon
<1>9. Opened(e).sps = e.sps[1] /\ Opened(e).pps = e.pps[1] /\ Opened(e).sprop = sprop(e.sps[1], e.pps[1])
  BY DEF Opened
<1> QED BY <1>4, <1>8, <1>9, Zenon DEF x, y

LEMMA DescribedInit == Init => Described
<1> SUFFICES ASSUME Init PROVE Described
  OBVIOUS
<1>1. Extradata \subseteq Container /\ Streams \subseteq Seq(Frame)
  BY VideoAssumption, Zenon
<1>2. extradata \in Extradata /\ frames \in Streams /\ tcp \in BOOLEAN /\ info = NotOpen
  BY Zenon DEF Init
<1> QED BY <1>1, <1>2 DEF Described

LEMMA OpenDescribes ==
  ASSUME Described, open
  PROVE  info' = Opened(extradata)
<1> DEFINE p == parseExtradata(ExtradataBytes(extradata))
           e == extradata
<1>1. e \in Container
  BY Zenon DEF Described
<1>2. p = [sps |-> e.sps[1], pps |-> e.pps[1]]
  BY <1>1, ParseUndoes, Zenon
<1>3. info' = [sps |-> p.sps, pps |-> p.pps, sprop |-> sprop(p.sps, p.pps)]
  BY Zenon DEF open
<1> HIDE DEF p
<1>4. p.sps = e.sps[1] /\ p.pps = e.pps[1]
  BY <1>2
<1> QED BY <1>3, <1>4, Zenon DEF Opened

LEMMA DescribedStep ==
  ASSUME Described, [Next]_vars
  PROVE  Described'
<1>1. CASE open
  <2>1. UNCHANGED session /\ info' = Opened(extradata)
    BY <1>1, OpenDescribes, Zenon DEF open
  <2> QED BY <2>1 DEF Described, session
<1>2. ASSUME UNCHANGED <<session, info>> PROVE Described'
  BY <1>2 DEF Described, session
<1>3. CASE pacerTick
  BY <1>2, <1>3 DEF pacerTick
<1>4. CASE sendVideoRTP
  BY <1>2, <1>4 DEF sendVideoRTP
<1>5. CASE Lose
  BY <1>2, <1>5 DEF Lose
<1>6. CASE Done \/ UNCHANGED vars
  BY <1>2, <1>6 DEF Done, vars
<1> QED BY <1>1, <1>3, <1>4, <1>5, <1>6, Zenon DEF Next

LEMMA DescribedAlways == Spec => []Described
<1>1. Init => Described
  BY DescribedInit
<1>2. Described /\ [Next]_vars => Described'
  BY DescribedStep
<1> QED BY <1>1, <1>2, PTL DEF Spec

LEMMA DescribedSdp ==
  ASSUME Described
  PROVE  SdpDescribesStream
<1> SUFFICES ASSUME info # NotOpen
             PROVE  /\ Decode64(info.sprop[1]) = extradata.sps[1]
                    /\ Decode64(info.sprop[2]) = extradata.pps[1]
  BY Zenon DEF SdpDescribesStream
<1> DEFINE x == extradata.sps[1]
           y == extradata.pps[1]
<1>1. extradata \in Container /\ info = Opened(extradata)
  BY Zenon DEF Described
<1>2. info.sprop = sprop(x, y) /\ x \in Nal /\ y \in Nal
  BY <1>1, FirstSets, Zenon
<1> HIDE DEF x, y
<1>3. x \in Seq(Byte) /\ x # <<>> /\ y \in Seq(Byte) /\ y # <<>>
  BY <1>2, NalFacts, Zenon
<1>4. info.sprop[1] = base64Encode(x) /\ info.sprop[2] = base64Encode(y)
  BY <1>2, SMT DEF sprop
<1>5. Decode64(info.sprop[1]) = x /\ Decode64(info.sprop[2]) = y
  BY <1>3, <1>4, Base64Undoes, Zenon
<1> QED BY <1>5 DEF x, y

\* From sprop-parameter-sets of the SDP (parseExtradata, base64Encode) the player
\* decodes the first SPS and the first PPS of the container, in either format.
THEOREM SdpDescribes == Spec => []SdpDescribesStream
<1>1. Described => SdpDescribesStream
  BY DescribedSdp
<1> QED BY <1>1, DescribedAlways, PTL

-----------------------------------------------------------------------------
(* The NAL units of a frame.                                               *)

LEMMA FrameFacts ==
  ASSUME NEW f \in Frame
  PROVE  /\ f.key \in BOOLEAN /\ f.nals \in Seq(Nal) /\ f.codes \in Codes /\ Len(f.codes) = Len(f.nals)
BY DEF Frame, Codes

\* The units of a list that are no parameter sets.
Others(nals) == FlattenSeq([i \in DOMAIN nals |-> When(NalType(nals[i]) \notin {7, 8}, nals[i])])

LEMMA OthersType ==
  ASSUME NEW nals \in Seq(Nal)
  PROVE  Others(nals) \in Seq(Nal)
<1> DEFINE n == Len(nals)
           x(i) == When(NalType(nals[i]) \notin {7, 8}, nals[i])
           s == [i \in 1..n |-> x(i)]
<1>1. n \in Nat /\ DOMAIN nals = 1..n
  OBVIOUS
<1>2. ASSUME NEW i \in 1..n PROVE x(i) \in Seq(Nal)
  <2>1. nals[i] \in Nal
    BY ElementOfSeq
  <2>2. <<nals[i]>> \in Seq(Nal) /\ <<>> \in Seq(Nal)
    BY <2>1
  <2> QED BY <2>2, Zenon DEF When
<1> HIDE DEF x, n
<1>3. s \in Seq(Seq(Nal))
  BY <1>1, <1>2
<1>4. FlattenSeq(s) \in Seq(Nal)
  BY <1>3, JoinEnds
<1>5. Others(nals) = FlattenSeq(s)
  BY <1>1, Zenon DEF Others, x
<1> QED BY <1>4, <1>5, Zenon

LEMMA MeantType ==
  ASSUME Described, NEW f \in Frame
  PROVE  Meant(f) \in Seq(Nal)
<1> DEFINE x == extradata.sps[1]
           y == extradata.pps[1]
           o == Others(f.nals)
<1>1. x \in Nal /\ y \in Nal
  BY FirstSets, Zenon DEF Described
<1>2. f.nals \in Seq(Nal) /\ f.key \in BOOLEAN
  BY FrameFacts, Zenon
<1>3. o \in Seq(Nal)
  BY <1>2, OthersType, Zenon
<1>4. f.key => Meant(f) = <<x, y>> \o o
  BY Zenon DEF Meant, Others
<1>5. ~f.key => Meant(f) = f.nals
  BY Zenon DEF Meant
<1> HIDE DEF x, y, o
<1>6. <<x, y>> \in Seq(Nal)
  BY <1>1
<1>7. <<x, y>> \o o \in Seq(Nal)
  BY <1>3, <1>6, ConcatProperties
<1> QED BY <1>2, <1>4, <1>5, <1>7, Zenon

\* Splitting and the choice of pacerTick give the units that are meant.
LEMMA NalListMeant ==
  ASSUME Described, info # NotOpen, NEW f \in Frame
  PROVE  nalList(f) = Meant(f)
<1> DEFINE nals == splitView(AnnexB(f.nals, f.codes))
           keep(nal) == ~(f.key /\ NalType(nal) \in {7, 8})
           x == extradata.sps[1]
           y == extradata.pps[1]
           w == FlattenSeq([i \in DOMAIN nals |-> When(keep(nals[i]), nals[i])])
<1>1. /\ f.nals \in Seq(Nal) /\ f.codes \in Codes /\ Len(f.codes) = Len(f.nals) /\ f.key \in BOOLEAN
  BY FrameFacts, Zenon
<1>2. nals = f.nals
  BY <1>1, SplitUndoes, Zenon
<1>3. x \in Nal /\ y \in Nal /\ info.sps = x /\ info.pps = y
  BY FirstSets, Zenon DEF Described
<1>4. x # <<>> /\ y # <<>>
  BY <1>3, NalFacts, Zenon
<1>5. nalList(f) = When(f.key /\ info.sps # <<>>, info.sps) \o When(f.key /\ info.pps # <<>>, info.pps) \o w
  BY Zenon DEF nalList
<1> HIDE DEF x, y, nals
<1>6. CASE f.key
  <2>1. When(f.key /\ info.sps # <<>>, info.sps) = <<x>> /\ When(f.key /\ info.pps # <<>>, info.pps) = <<y>>
    BY <1>3, <1>4, <1>6, Zenon DEF When
  <2>2. w = Others(f.nals)
    <3>1. \A i : keep(nals[i]) <=> NalType(nals[i]) \notin {7, 8}
      BY <1>6, Zenon
    <3>2. ASSUME NEW i PROVE When(keep(nals[i]), nals[i]) = When(NalType(nals[i]) \notin {7, 8}, nals[i])
      <4> HIDE DEF keep
      <4>1. CASE keep(nals[i])
        BY <3>1, <4>1, Zenon DEF When
      <4>2. CASE ~keep(nals[i])
        BY <3>1, <4>2, Zenon DEF When
      <4> QED BY <4>1, <4>2, Zenon
    <3> HIDE DEF keep
    <3>3. [i \in DOMAIN nals |-> When(keep(nals[i]), nals[i])] = [i \in DOMAIN nals |-> When(NalType(nals[i]) \notin {7, 8}, nals[i])]
      BY <3>2, Zenon
    <3> QED BY <1>2, <3>3, Zenon DEF Others
  <2>3. Meant(f) = <<x, y>> \o Others(f.nals)
    BY <1>6, Zenon DEF Meant, Others, x, y
  <2> HIDE DEF w
  <2>4. <<x>> \o <<y>> = <<x, y>>
    BY <1>3, Pair
  <2> QED BY <1>5, <2>1, <2>2, <2>3, <2>4, Zenon
<1>7. CASE ~f.key
  <2>1. When(f.key /\ info.sps # <<>>, info.sps) = <<>> /\ When(f.key /\ info.pps # <<>>, info.pps) = <<>>
    BY <1>7, Zenon DEF When
  <2>2. w = nals
    <3>1. ASSUME NEW i PROVE When(keep(nals[i]), nals[i]) = <<nals[i]>>
      BY <1>7, Zenon DEF When
    <3> HIDE DEF keep
    <3>2. [i \in DOMAIN nals |-> When(keep(nals[i]), nals[i])] = [i \in DOMAIN nals |-> <<nals[i]>>]
      BY <3>1, Zenon
    <3>3. DOMAIN nals = 1..Len(nals) /\ nals \in Seq(Nal)
      BY <1>1, <1>2
    <3>4. FlattenSeq([i \in 1..Len(nals) |-> <<nals[i]>>]) = nals
      BY <3>3, JoinSingles, Zenon
    <3> QED BY <3>2, <3>3, <3>4, Zenon
  <2> HIDE DEF w
  <2>3. <<>> \o <<>> \o w = w
    <3>1. w \in Seq(Nal)
      BY <1>1, <1>2, <2>2, Zenon
    <3> QED BY <3>1, ConcatEmptySeq
  <2>4. Meant(f) = f.nals
    BY <1>7, Zenon DEF Meant
  <2> QED BY <1>2, <1>5, <2>1, <2>2, <2>3, <2>4, Zenon
<1> QED BY <1>1, <1>6, <1>7, Zenon

-----------------------------------------------------------------------------
(* Fragmentation.                                                          *)

\* The number of fragments of a NAL unit, the bytes of it that the first i of them
\* hold (the first byte of the unit with the first), and those bytes.
Cut(nal) == (Len(nal) - 1 + fragmentSize - 1) \div fragmentSize
Upto(nal, i) == IF i = Cut(nal) THEN Len(nal) ELSE 1 + i * fragmentSize
Partial(nal, i) == SubSeq(nal, 1, Upto(nal, i))
FragmentHead(nal, i) ==
  <<32 * ((nal[1] \div 32) % 4) + 28,
    (IF i = 1 THEN 128 ELSE 0) + (IF i = Cut(nal) THEN 64 ELSE 0) + NalType(nal)>>
Fragment(nal, i) == FragmentHead(nal, i) \o SubSeq(nal, Upto(nal, i - 1) + 1, Upto(nal, i))

LEMMA MtuFacts == Mtu \in Nat /\ 2 < Mtu /\ fragmentSize \in Nat /\ fragmentSize > 0 /\ fragmentSize + 2 = Mtu
<1>1. Mtu \in Nat /\ 2 < Mtu
  BY VideoAssumption, Zenon
<1> QED BY <1>1 DEF fragmentSize

LEMMA CutFacts ==
  ASSUME NEW nal \in Nal, Len(nal) > Mtu
  PROVE  /\ Cut(nal) \in Nat /\ Cut(nal) >= 2
         /\ Upto(nal, 0) = 1 /\ Upto(nal, Cut(nal)) = Len(nal)
         /\ \A i \in 1..Cut(nal) :
              /\ Upto(nal, i - 1) \in 1..Len(nal) /\ Upto(nal, i) \in 1..Len(nal)
              /\ Upto(nal, i - 1) < Upto(nal, i) /\ Upto(nal, i) - Upto(nal, i - 1) <= fragmentSize
              /\ Upto(nal, i - 1) = 1 + (i - 1) * fragmentSize
<1> DEFINE n == Len(nal)
           f == fragmentSize
           c == Cut(nal)
           l == n - 1
<1>1. n \in Nat /\ n > Mtu
  BY NalFacts
<1>2. f \in Nat /\ f > 0 /\ f + 2 = Mtu
  BY MtuFacts
<1>3. c = (l + f - 1) \div f
  BY DEF Cut
<1> HIDE DEF n, f, c
<1>4. l \in Nat /\ l > f
  BY <1>1, <1>2
<1> HIDE DEF l
<1>5. c \in Nat /\ c >= 2 /\ (c - 1) * f < l /\ l <= c * f
  BY <1>2, <1>3, <1>4
<1>6. \A i : Upto(nal, i) = IF i = c THEN n ELSE 1 + i * f
  BY Zenon DEF Upto, c, n, f
<1>7. Upto(nal, 0) = 1 /\ Upto(nal, c) = n
  <2>1. 0 # c /\ 1 + 0 * f = 1
    BY <1>2, <1>5
  <2> QED BY <1>6, <2>1, Zenon
<1>8. ASSUME NEW i \in 1..c
      PROVE  /\ Upto(nal, i - 1) \in 1..n /\ Upto(nal, i) \in 1..n
             /\ Upto(nal, i - 1) < Upto(nal, i) /\ Upto(nal, i) - Upto(nal, i - 1) <= f
             /\ Upto(nal, i - 1) = 1 + (i - 1) * f
  <2> DEFINE u == Upto(nal, i - 1)
             v == Upto(nal, i)
             g == (i - 1) * f
             z == (c - 1) * f
  <2>1. i - 1 # c /\ i - 1 \in Nat /\ i - 1 <= c - 1 /\ c - 1 \in Nat
    BY <1>5
  <2>2. u = 1 + g /\ v = IF i = c THEN n ELSE 1 + i * f
    BY <1>6, <2>1, Zenon
  <2>3. i * f = g + f /\ c * f = z + f /\ g \in Nat /\ z \in Nat
    BY <1>2, <1>5, <2>1
  <2>4. g <= z
    BY <1>2, <2>1
  <2>5. i # c => g + f <= z
    <3>1. i # c => i <= c - 1
      BY <1>5
    <3>2. i # c => i * f <= z
      BY <1>2, <2>1, <3>1
    <3> QED BY <2>3, <3>2
  <2>6. i = c => g = z
    OBVIOUS
  <2> HIDE DEF u, v, g, z
  <2>7. z < l /\ l <= z + f
    BY <1>5, <2>3 DEF z
  <2>8. n = l + 1
    BY <1>1 DEF l
  <2>9. CASE i = c
    <3>1. v = n /\ u = 1 + z
      BY <2>2, <2>6, <2>9, Zenon
    <3>2. u \in 1..n /\ v \in 1..n /\ u < v /\ v - u <= f
      BY <1>2, <1>4, <2>3, <2>7, <2>8, <3>1
    <3> QED BY <2>2, <3>2 DEF u, v, g
  <2>10. CASE i # c
    <3>1. v = 1 + (g + f) /\ g + f <= z
      BY <2>2, <2>3, <2>5, <2>10, Zenon
    <3>2. u \in 1..n /\ v \in 1..n /\ u < v /\ v - u <= f
      BY <1>2, <1>4, <2>2, <2>3, <2>7, <2>8, <3>1
    <3> QED BY <2>2, <3>2 DEF u, v, g
  <2> QED BY <2>9, <2>10
<1> QED BY <1>5, <1>7, <1>8, Zenon DEF c, n, f

LEMMA FragmentHeadFacts ==
  ASSUME NEW nal \in Nal, Len(nal) > Mtu, NEW i \in 1..Cut(nal)
  PROVE  LET h == FragmentHead(nal, i)
         IN /\ h \in Seq(Byte) /\ Len(h) = 2 /\ h[1] % 32 = 28
            /\ (h[2] >= 128 <=> i = 1) /\ (h[2] % 128 >= 64 <=> i = Cut(nal)) /\ h[2] < 192
            /\ 32 * (h[1] \div 32) + (h[2] % 32) = nal[1]
<1> DEFINE x == nal[1]
           t == NalType(nal)
           c == Cut(nal)
           a == 32 * ((x \div 32) % 4) + 28
           b == (IF i = 1 THEN 128 ELSE 0) + (IF i = c THEN 64 ELSE 0) + t
           h == FragmentHead(nal, i)
<1>1. x \in 0..255 /\ x < 128
  <2>1. 1 \in 1..Len(nal)
    BY NalFacts
  <2> QED BY <2>1, NalFacts
<1>2. t = x % 32
  BY Zenon DEF NalType
<1>3. c \in Nat /\ c >= 2
  BY CutFacts
<1> HIDE DEF x, t, c
<1>4. /\ a \in 0..255 /\ b \in 0..255 /\ a % 32 = 28 /\ (b >= 128 <=> i = 1) /\ (b % 128 >= 64 <=> i = c)
      /\ b < 192 /\ 32 * (a \div 32) + (b % 32) = x
  <2>1. x \div 32 \in 0..3 /\ x = 32 * (x \div 32) + t /\ t \in 0..31
    BY <1>1, <1>2
  <2> DEFINE y == x \div 32
  <2>2. y \in 0..3 /\ x = 32 * y + t /\ a = 32 * y + 28
    BY <2>1
  <2> HIDE DEF y, a
  <2>3. a \in 0..255 /\ a % 32 = 28 /\ 32 * (a \div 32) = 32 * y
    BY <2>2
  <2>4. b \in 0..255 /\ (b >= 128 <=> i = 1) /\ (b % 128 >= 64 <=> i = c) /\ b < 192 /\ b % 32 = t
    <3>1. ~(i = 1 /\ i = c)
      BY <1>3
    <3>2. CASE i = 1
      <4>1. b = 128 + 0 + t
        BY <3>1, <3>2
      <4> HIDE DEF b
      <4>2. t \in 0..31
        BY <2>1
      <4>3. b \in 0..255 /\ b >= 128 /\ ~(b % 128 >= 64) /\ b < 192 /\ b % 32 = t
        BY <4>1, <4>2
      <4> QED BY <4>3, <3>1, <3>2, Zenon
    <3>3. CASE i # 1 /\ i = c
      <4>1. b = 0 + 64 + t
        BY <3>3
      <4> HIDE DEF b
      <4>2. t \in 0..31
        BY <2>1
      <4>3. b \in 0..255 /\ ~(b >= 128) /\ b % 128 >= 64 /\ b < 192 /\ b % 32 = t
        BY <4>1, <4>2
      <4> QED BY <4>3, <3>3, Zenon
    <3>4. CASE i # 1 /\ i # c
      <4>1. b = 0 + 0 + t
        BY <3>4
      <4> HIDE DEF b
      <4>2. t \in 0..31
        BY <2>1
      <4>3. b \in 0..255 /\ ~(b >= 128) /\ ~(b % 128 >= 64) /\ b < 192 /\ b % 32 = t
        BY <4>1, <4>2
      <4> QED BY <4>3, <3>4, Zenon
    <3> QED BY <3>2, <3>3, <3>4
  <2> QED BY <2>2, <2>3, <2>4
<1>5. h = <<a, b>>
  BY Zenon DEF FragmentHead, x, t, c
<1> HIDE DEF a, b, h
<1>6. h \in Seq(Byte) /\ Len(h) = 2 /\ h[1] = a /\ h[2] = b
  BY <1>4, <1>5 DEF Byte
<1> QED BY <1>4, <1>6, Zenon DEF h, c, x

LEMMA FragmentsAre ==
  ASSUME NEW nal \in Nal, Len(nal) > Mtu
  PROVE  packetize(nal) = [i \in 1..Cut(nal) |-> Fragment(nal, i)]
<1> DEFINE data  == Tail(nal)
           count == (Len(data) + fragmentSize - 1) \div fragmentSize
           nri   == 32 * ((nal[1] \div 32) % 4)
           flags(i) == (IF i = 1 THEN 128 ELSE 0) + (IF i = count THEN 64 ELSE 0)
           head(i) == <<nri + 28, flags(i) + NalType(nal)>>
           part(i) == SubSeq(data, (i - 1) * fragmentSize + 1, IF i = count THEN Len(data) ELSE i * fragmentSize)
           c == Cut(nal)
           n == Len(nal)
<1>1. nal # <<>> /\ nal \in Seq(Byte) /\ n \in Nat
  BY NalFacts
<1>2. ~(n <= Mtu)
  BY <1>1, MtuFacts
<1>3. packetize(nal) = [i \in 1..count |-> head(i) \o part(i)]
  BY <1>1, <1>2, Zenon DEF packetize
<1>4. Len(data) = n - 1
  BY <1>1, HeadTailProperties
<1>5. count = c
  BY <1>4, Zenon DEF Cut
<1>6. ASSUME NEW i \in 1..c PROVE head(i) \o part(i) = Fragment(nal, i)
  <2>1. head(i) = FragmentHead(nal, i)
    BY <1>5, Zenon DEF FragmentHead
  <2> DEFINE u == Upto(nal, i - 1)
             v == Upto(nal, i)
             f == fragmentSize
  <2>2. u \in 1..n /\ v \in 1..n /\ u < v /\ u = 1 + (i - 1) * f
    BY CutFacts, Zenon
  <2>3. v = IF i = c THEN n ELSE 1 + i * f
    BY Zenon DEF Upto
  <2> DEFINE q == IF i = count THEN Len(data) ELSE i * f
             p == (i - 1) * f + 1
  <2>4. q + 1 = v /\ q \in Int
    <3>1. c \in Nat /\ f \in Nat
      BY CutFacts, MtuFacts
    <3>2. CASE i = c
      <4>1. q = n - 1 /\ v = n
        BY <1>4, <1>5, <2>3, <3>2, Zenon
      <4> HIDE DEF q, v, n
      <4> QED BY <4>1, <1>1
    <3>3. CASE i # c
      <4>1. q = i * f /\ v = 1 + i * f
        BY <1>5, <2>3, <3>3, Zenon
      <4>2. i * f \in Nat
        BY <3>1
      <4> HIDE DEF q, v
      <4> QED BY <4>1, <4>2
    <3> QED BY <3>2, <3>3
  <2>5. p = u
    <3>1. (i - 1) * f \in Int
      BY CutFacts, MtuFacts
    <3> QED BY <2>2, <3>1
  <2>6. part(i) = SubSeq(data, u, q)
    BY <2>5, Zenon
  <2> HIDE DEF u, v, q, p, part, head, data
  <2>7. u \in 1..Len(nal) /\ q \in u-1..Len(nal)-1
    BY <1>1, <2>2, <2>4
  <2>8. SubSeq(Tail(nal), u, q) = SubSeq(nal, u + 1, q + 1)
    BY <1>1, <2>7, TailSlice, Zenon
  <2>9. part(i) = SubSeq(nal, u + 1, v)
    BY <2>4, <2>6, <2>8, Zenon DEF data
  <2> QED BY <2>1, <2>9, Zenon DEF Fragment, u, v
<1> HIDE DEF head, part, count, c
<1>7. [i \in 1..c |-> head(i) \o part(i)] = [i \in 1..c |-> Fragment(nal, i)]
  BY <1>6, Zenon
<1> QED BY <1>3, <1>5, <1>7, Zenon DEF c

\* A fragment at the player: its size, what its header says, and what it adds.
LEMMA FragmentFacts ==
  ASSUME NEW nal \in Nal, Len(nal) > Mtu, NEW i \in 1..Cut(nal), NEW pl, pl = Fragment(nal, i)
  PROVE  /\ pl \in Seq(Byte) /\ Len(pl) \in Nat \ {0} /\ Len(pl) <= Mtu /\ pl[1] % 32 = 28 /\ pl[2] < 192
         /\ pl[2] % 128 >= 64 <=> i = Cut(nal)
         /\ i = 1 => \A part : Joined(part, pl) = Partial(nal, 1)
         /\ i # 1 => Joined(<<>>, pl) = <<>>
         /\ i # 1 => Joined(Partial(nal, i - 1), pl) = Partial(nal, i)
         /\ Partial(nal, i) # <<>>
         /\ i = Cut(nal) => Partial(nal, i) = nal
<1> DEFINE h == FragmentHead(nal, i)
           u == Upto(nal, i - 1)
           v == Upto(nal, i)
           n == Len(nal)
           w == SubSeq(nal, u + 1, v)
<1>1. nal \in Seq(Byte) /\ n \in Nat
  BY NalFacts
<1>2. /\ h \in Seq(Byte) /\ Len(h) = 2 /\ h[1] % 32 = 28
      /\ (h[2] >= 128 <=> i = 1) /\ (h[2] % 128 >= 64 <=> i = Cut(nal)) /\ h[2] < 192
      /\ 32 * (h[1] \div 32) + (h[2] % 32) = nal[1]
  BY FragmentHeadFacts, Zenon
<1>3. u \in 1..n /\ v \in 1..n /\ u < v /\ v - u <= fragmentSize
  BY CutFacts, Zenon
<1>4. w \in Seq(Byte) /\ Len(w) = v - u
  <2> DEFINE x == u + 1
  <2>1. x \in 1..Len(nal)+1 /\ v \in x-1..Len(nal) /\ v - x + 1 = v - u
    <3> HIDE DEF u, v
    <3> QED BY <1>1, <1>3
  <2> HIDE DEF x, u, v
  <2>2. SubSeq(nal, x, v) \in Seq(Byte) /\ Len(SubSeq(nal, x, v)) = v - x + 1
    BY <1>1, <2>1, SliceFacts, Zenon
  <2> QED BY <2>1, <2>2, Zenon DEF x
<1>5. pl = h \o w
  BY Zenon DEF Fragment
<1> HIDE DEF h, w
<1>6. pl \in Seq(Byte) /\ Len(pl) = Len(h) + Len(w) /\ \A k \in 1..Len(h) : pl[k] = h[k]
  <2>1. h \in Seq(Byte) /\ w \in Seq(Byte)
    BY <1>2, <1>4
  <2> QED BY <1>5, <2>1, ConcatProperties
<1>7. pl[1] = h[1] /\ pl[2] = h[2]
  <2>1. 1 \in 1..Len(h) /\ 2 \in 1..Len(h)
    BY <1>2
  <2> QED BY <1>6, <2>1, Zenon
<1>8. SubSeq(pl, 3, Len(pl)) = w
  <2>1. SubSeq(h \o w, Len(h) + 1, Len(h \o w)) = w
    BY <1>2, <1>4, AfterHead, Zenon
  <2>2. Len(h) + 1 = 3
    BY <1>2
  <2> QED BY <1>5, <2>1, <2>2, Zenon
<1>9. Len(pl) \in Nat \ {0} /\ Len(pl) <= Mtu
  <2> HIDE DEF u, v
  <2>1. Len(pl) = 2 + (v - u)
    BY <1>2, <1>4, <1>6, Zenon
  <2> QED BY <1>1, <1>3, <2>1, MtuFacts
<1>10. SubSeq(nal, 1, u) \o w = Partial(nal, i)
  <2> HIDE DEF u, v
  <2>1. u \in 0..Len(nal) /\ v \in u..Len(nal)
    BY <1>1, <1>3
  <2>2. SubSeq(nal, 1, u) \o SubSeq(nal, u + 1, v) = SubSeq(nal, 1, v)
    BY <1>1, <2>1, SlicesJoin, Zenon
  <2> QED BY <2>2, Zenon DEF Partial, v, w
<1>11. Partial(nal, i) # <<>>
  <2> HIDE DEF u, v
  <2>1. v \in 0..Len(nal) /\ v # 0
    BY <1>1, <1>3
  <2>2. Len(SubSeq(nal, 1, v)) = v
    BY <1>1, <2>1, PrefixFacts, Zenon
  <2>3. Len(<<>>) = 0
    OBVIOUS
  <2> QED BY <2>1, <2>2, <2>3, Zenon DEF Partial, v
<1>12. i = 1 => SubSeq(nal, 1, u) = <<nal[1]>>
  <2>1. i = 1 => u = 1
    <3>1. Upto(nal, 0) = 1 /\ 1 - 1 = 0
      BY CutFacts
    <3> QED BY <3>1, Zenon
  <2>2. 1 \in 0..Len(nal) /\ 1 \in 1..1 /\ 1 \in 1..Len(nal)
    <3> HIDE DEF u, v
    <3> QED BY <1>1, <1>3
  <2> DEFINE a == SubSeq(nal, 1, 1)
  <2>3. a \in Seq(Byte) /\ Len(a) = 1 /\ a[1] = nal[1]
    BY <1>1, <2>2, PrefixFacts, Zenon
  <2> HIDE DEF a
  <2>4. a = <<nal[1]>>
    <3> DEFINE b == nal[1]
    <3>0. b \in Byte
      BY <1>1, <2>2, ElementOfSeq
    <3> HIDE DEF b
    <3>1. <<b>> \in Seq(Byte) /\ Len(<<b>>) = 1 /\ <<b>>[1] = b
      BY <3>0
    <3>2. a[1] = b
      BY <2>3 DEF b
    <3>3. a = <<b>>
      BY <2>3, <3>1, <3>2, SeqEqual
    <3> QED BY <3>3 DEF b
  <2> QED BY <2>1, <2>4, Zenon DEF a
<1>13. i = 1 => \A part : Joined(part, pl) = Partial(nal, 1)
  <2> HAVE i = 1
  <2> TAKE part
  <2>1. Joined(part, pl) = <<nal[1]>> \o w
    BY <1>2, <1>7, <1>8, Zenon DEF Joined
  <2> QED BY <1>10, <1>12, <2>1, Zenon
<1>14. i # 1 => Joined(<<>>, pl) = <<>>
  BY <1>2, <1>7, Zenon DEF Joined
<1>15. i # 1 => Joined(Partial(nal, i - 1), pl) = Partial(nal, i)
  <2> HAVE i # 1
  <2> DEFINE g == Partial(nal, i - 1)
  <2>1. g = SubSeq(nal, 1, u)
    BY Zenon DEF Partial
  <2>2. g # <<>>
    <3> HIDE DEF u, v
    <3>1. u \in 0..Len(nal) /\ u # 0
      BY <1>1, <1>3
    <3>2. Len(SubSeq(nal, 1, u)) = u
      BY <1>1, <3>1, PrefixFacts, Zenon
    <3>3. Len(<<>>) = 0
      OBVIOUS
    <3> QED BY <2>1, <3>1, <3>2, <3>3, Zenon
  <2> HIDE DEF g
  <2>3. Joined(g, pl) = g \o w
    BY <1>2, <1>7, <1>8, <2>2, Zenon DEF Joined
  <2> QED BY <1>10, <2>1, <2>3, Zenon DEF g
<1>16. i = Cut(nal) => Partial(nal, i) = nal
  <2>1. i = Cut(nal) => v = n
    BY CutFacts, Zenon
  <2>2. SubSeq(nal, 1, n) = nal
    BY <1>1
  <2> QED BY <2>1, <2>2, Zenon DEF Partial
<1> QED BY <1>2, <1>6, <1>7, <1>9, <1>11, <1>13, <1>14, <1>15, <1>16, Zenon

-----------------------------------------------------------------------------
(* The RTP header.                                                         *)

Word32 == 256 * Word24

LEMMA OctetType ==
  ASSUME NEW x \in Nat, NEW u \in Nat \ {0}
  PROVE  octet(x, u) \in Byte
<1>1. x \div u \in Nat
  OBVIOUS
<1> QED BY <1>1 DEF octet, Byte

LEMMA WordFacts ==
  /\ {Word12, Word16, Word18, Word24, 256, 1} \subseteq Nat \ {0}
  /\ Word32 \in Nat \ {0}
BY SMT DEF Word12, Word16, Word18, Word24, Word32

LEMMA FourOctets ==
  ASSUME NEW x \in Nat
  PROVE  Word24 * octet(x, Word24) + Word16 * octet(x, Word16) + 256 * octet(x, 256) + octet(x, 1) = x % Word32
<1> DEFINE a == x \div 256
           b == a \div 256
           c == b \div 256
<1>1. a \in Nat /\ x = 256 * a + (x % 256)
  BY SMT
<1> HIDE DEF a
<1>2. b \in Nat /\ a = 256 * b + (a % 256)
  BY <1>1, SMT
<1> HIDE DEF b
<1>3. c \in Nat /\ b = 256 * c + (b % 256)
  BY <1>2, SMT
<1>4. x \div 256 = a /\ x \div Word16 = b /\ x \div Word24 = c /\ x \div 1 = x
  <2>1. b = x \div 65536
    BY <1>1, <1>2, SMT DEF b
  <2> HIDE DEF c
  <2>2. c = x \div 16777216
    BY <1>1, <1>2, <1>3, SMT
  <2> QED BY <2>1, <2>2, SMT DEF a, Word16, Word24
<1> HIDE DEF c
<1>5. octet(x, Word24) = c % 256 /\ octet(x, Word16) = b % 256 /\ octet(x, 256) = a % 256 /\ octet(x, 1) = x % 256
  BY <1>4, Zenon DEF octet
<1>6. x % 4294967296 = 16777216 * (c % 256) + 65536 * (b % 256) + 256 * (a % 256) + (x % 256)
  BY <1>1, <1>2, <1>3, SMT
<1>7. Word32 = 4294967296
  BY SMT DEF Word32, Word24
<1> QED BY <1>5, <1>6, <1>7, SMT DEF Word24, Word16

LEMMA TwoOctets ==
  ASSUME NEW x \in Nat, x < Word16
  PROVE  256 * octet(x, 256) + octet(x, 1) = x
BY SMT DEF octet, Word16

LEMMA HeaderFacts ==
  ASSUME NEW seq \in Nat, seq < Word16, NEW ts \in Nat, NEW marker \in BOOLEAN,
         NEW y, y = header(seq, ts, marker)
  PROVE  /\ y \in Seq(Byte) /\ Len(y) = 12
         /\ 256 * y[3] + y[4] = seq
         /\ Word24 * y[5] + Word16 * y[6] + 256 * y[7] + y[8] = ts % Word32
         /\ y[2] \in Byte /\ (y[2] >= 128 <=> marker)
<1> DEFINE m == (IF marker THEN 128 ELSE 0) + PayloadType
           a == octet(seq, 256)
           b == octet(seq, 1)
           c == octet(ts, Word24)
           d == octet(ts, Word16)
           e == octet(ts, 256)
           f == octet(ts, 1)
           g == octet(Ssrc, Word24)
           h == octet(Ssrc, Word16)
           i == octet(Ssrc, 256)
           j == octet(Ssrc, 1)
           t == <<128, m, a, b, c, d, e, f, g, h, i, j>>
<1>1. m \in Byte /\ (m >= 128 <=> marker) /\ 128 \in Byte
  <2>1. marker => m = 128 + 96
    BY DEF PayloadType
  <2>2. ~marker => m = 0 + 96
    BY DEF PayloadType
  <2> HIDE DEF m
  <2>3. CASE marker
    <3>1. m \in 0..255 /\ m >= 128
      BY <2>1, <2>3
    <3> QED BY <2>3, <3>1 DEF Byte
  <2>4. CASE ~marker
    <3>1. m \in 0..255 /\ ~(m >= 128)
      BY <2>2, <2>4
    <3> QED BY <2>4, <3>1 DEF Byte
  <2> QED BY <2>3, <2>4
<1>2. {a, b, c, d, e, f, g, h, i, j} \subseteq Byte
  <2>1. Ssrc \in Nat
    BY VideoAssumption, Zenon
  <2>2. Word24 \in Nat \ {0} /\ Word16 \in Nat \ {0} /\ 256 \in Nat \ {0} /\ 1 \in Nat \ {0}
    BY WordFacts, Zenon
  <2>3. \A x \in Nat : {octet(x, Word24), octet(x, Word16), octet(x, 256), octet(x, 1)} \subseteq Byte
    BY <2>2, OctetType
  <2> QED BY <2>1, <2>3
<1>3. Word24 * c + Word16 * d + 256 * e + f = ts % Word32
  BY FourOctets, Zenon
<1>4. 256 * a + b = seq
  BY TwoOctets, Zenon
<1>5. y = t
  BY Zenon DEF header
<1> HIDE DEF m, a, b, c, d, e, f, g, h, i, j
<1>6. t \in Seq(Byte) /\ Len(t) = 12 /\ t[2] = m /\ t[3] = a /\ t[4] = b /\ t[5] = c /\ t[6] = d /\ t[7] = e /\ t[8] = f
  BY <1>1, <1>2
<1> HIDE DEF t
<1>7. 256 * y[3] + y[4] = seq
  BY <1>4, <1>5, <1>6, Zenon
<1>8. Word24 * y[5] + Word16 * y[6] + 256 * y[7] + y[8] = ts % Word32
  BY <1>3, <1>5, <1>6, Zenon
<1>9. y[2] \in Byte /\ (y[2] >= 128 <=> marker)
  BY <1>1, <1>5, <1>6, Zenon
<1>10. y \in Seq(Byte) /\ Len(y) = 12
  BY <1>5, <1>6, Zenon
<1> QED BY <1>7, <1>8, <1>9, <1>10, Zenon

\* The player reads the fields that were written, the timestamp modulo 2^32.
LEMMA FieldsUndo ==
  ASSUME NEW payload \in Seq(Byte), NEW seq \in Nat, seq < Word16, NEW ts \in Nat, NEW marker \in BOOLEAN
  PROVE  LET pkt == build(payload, seq, ts, marker)
         IN /\ pkt \in Seq(Byte) /\ Len(pkt) = Len(payload) + 12
            /\ Fields(pkt) = [seq |-> seq, ts |-> ts % Word32, marker |-> marker, payload |-> payload]
<1> DEFINE h == header(seq, ts, marker)
           pkt == build(payload, seq, ts, marker)
<1>1. /\ h \in Seq(Byte) /\ Len(h) = 12
      /\ 256 * h[3] + h[4] = seq
      /\ Word24 * h[5] + Word16 * h[6] + 256 * h[7] + h[8] = ts % Word32
      /\ h[2] \in Byte /\ (h[2] >= 128 <=> marker)
  BY HeaderFacts
<1>2. pkt = h \o payload
  BY Zenon DEF build
<1> HIDE DEF h, pkt
<1>3. pkt \in Seq(Byte) /\ Len(pkt) = Len(h) + Len(payload) /\ \A k \in 1..Len(h) : pkt[k] = h[k]
  <2>1. h \in Seq(Byte)
    BY <1>1
  <2> QED BY <1>2, <2>1, ConcatProperties
<1>4. /\ pkt[2] = h[2] /\ pkt[3] = h[3] /\ pkt[4] = h[4] /\ pkt[5] = h[5] /\ pkt[6] = h[6]
      /\ pkt[7] = h[7] /\ pkt[8] = h[8]
  <2>1. {2, 3, 4, 5, 6, 7, 8} \subseteq 1..Len(h)
    BY <1>1
  <2> QED BY <1>3, <2>1, Zenon
<1>5. SubSeq(pkt, 13, Len(pkt)) = payload
  <2>1. SubSeq(h \o payload, Len(h) + 1, Len(h \o payload)) = payload
    BY <1>1, AfterHead, Zenon
  <2>2. Len(h) + 1 = 13
    BY <1>1
  <2> QED BY <1>2, <2>1, <2>2, Zenon
<1>6. Len(pkt) = Len(payload) + 12
  <2>1. Len(payload) \in Nat
    OBVIOUS
  <2> QED BY <1>1, <1>3, <2>1
<1>7. (pkt[2] >= 128) = marker
  <2>1. pkt[2] >= 128 <=> marker
    BY <1>1, <1>4, Zenon
  <2>2. pkt[2] \in 0..255
    BY <1>1, <1>4 DEF Byte
  <2> QED BY <2>1, <2>2
<1>8. Fields(pkt) = [seq |-> seq, ts |-> ts % Word32, marker |-> marker, payload |-> payload]
  <2>1. 256 * pkt[3] + pkt[4] = seq /\ Word24 * pkt[5] + Word16 * pkt[6] + 256 * pkt[7] + pkt[8] = ts % Word32
    BY <1>1, <1>4, Zenon
  <2> QED BY <1>5, <1>7, <2>1, Zenon DEF Fields
<1> QED BY <1>3, <1>6, <1>8, Zenon DEF pkt

-----------------------------------------------------------------------------
(* Interleaved framing.                                                    *)

\* The bytes of packets on a TCP connection.
Wire(q) == FlattenSeq([i \in 1..Len(q) |-> interleaved(0, q[i])])

SizeAt(s, i) == 256 * s[i + 2] + s[i + 3]
Short(s, i) == i + 3 > Len(s) \/ i + 3 + SizeAt(s, i) > Len(s)
DeframeTurn(f, s, i) ==
  IF Short(s, i) THEN <<>> ELSE <<SubSeq(s, i + 4, i + 3 + SizeAt(s, i))>> \o f[i + 4 + SizeAt(s, i)]
Deframes(f, s) == f = [i \in 1 .. Len(s) + 1 |-> DeframeTurn(f, s, i)]

LEMMA DeframeExists ==
  ASSUME NEW s \in Seq(Byte)
  PROVE  \E f : Deframes(f, s)
<1> DEFINE n == Len(s)
           m == n + 1
           after(i) == i + 4 + SizeAt(s, i)
           h == [i \in 1..m |-> IF Short(s, i) THEN <<>> ELSE <<SubSeq(s, i + 4, i + 3 + SizeAt(s, i))>>]
           g == [i \in 1..m |-> IF Short(s, i) THEN 0 ELSE after(i)]
<1>0. n \in Nat /\ m \in Nat /\ 1 \in 0..m
  OBVIOUS
<1>1. PICK f : Chains(f, h, g, 1, m)
  <2> HIDE DEF h, g, n, m
  <2> QED BY <1>0, ChainExists
<1>2. ASSUME NEW i \in 1..m PROVE Link(f, h, g, m, i) = DeframeTurn(f, s, i)
  <2>1. /\ h[i] = IF Short(s, i) THEN <<>> ELSE <<SubSeq(s, i + 4, i + 3 + SizeAt(s, i))>>
        /\ g[i] = IF Short(s, i) THEN 0 ELSE after(i)
    <3> HIDE DEF m
    <3> QED BY Zenon
  <2>2. CASE Short(s, i)
    <3>1. g[i] = 0 /\ h[i] = <<>>
      BY <2>1, <2>2, Zenon
    <3> HIDE DEF g, h
    <3>2. g[i] \notin i+1..m
      BY <1>0, <3>1
    <3> QED BY <2>2, <3>1, <3>2, Zenon DEF Link, DeframeTurn
  <2>3. CASE ~Short(s, i)
    <3>1. g[i] = after(i) /\ h[i] = <<SubSeq(s, i + 4, i + 3 + SizeAt(s, i))>>
      BY <2>1, <2>3, Zenon
    <3> DEFINE z == SizeAt(s, i)
    <3>2. ~(i + 3 > n) /\ ~(i + 3 + z > n)
      BY <2>3, Zenon DEF Short
    <3>3. z \in Nat
      <4> DEFINE x == s[i + 2]
                 y == s[i + 3]
      <4>1. i + 2 \in 1..Len(s) /\ i + 3 \in 1..Len(s)
        BY <1>0, <3>2
      <4>2. x \in Byte /\ y \in Byte
        BY <4>1, ElementOfSeq, Zenon
      <4> HIDE DEF x, y
      <4>3. 256 * x + y \in Nat
        BY <4>2 DEF Byte
      <4> QED BY <4>3, Zenon DEF SizeAt, x, y
    <3> HIDE DEF z, g, h
    <3>4. i + 4 + z \in i+1..m
      BY <1>0, <3>2, <3>3
    <3>5. g[i] \in i+1..m
      BY <3>1, <3>4, Zenon DEF z
    <3> QED BY <2>3, <3>1, <3>5, Zenon DEF Link, DeframeTurn
  <2> QED BY <2>2, <2>3
<1>3. f = [i \in 1..m |-> Link(f, h, g, m, i)]
  BY <1>1 DEF Chains
<1> HIDE DEF h, g
<1>4. f = [i \in 1..m |-> DeframeTurn(f, s, i)]
  BY <1>2, <1>3
<1> QED BY <1>4 DEF Deframes

LEMMA DeframeValue ==
  ASSUME NEW s \in Seq(Byte)
  PROVE  \E f : Deframes(f, s) /\ Deframed(s) = f[1]
<1> DEFINE From == CHOOSE f : f = [i \in 1 .. Len(s) + 1 |-> DeframeTurn(f, s, i)]
<1>1. Deframed(s) = From[1]
  BY Zenon DEF Deframed, DeframeTurn, Short, SizeAt
<1>2. From = CHOOSE f : Deframes(f, s)
  BY Zenon DEF Deframes
<1>3. Deframes(From, s)
  BY <1>2, DeframeExists, Zenon
<1> HIDE DEF From
<1> QED BY <1>1, <1>3

LEMMA InterleavedFacts ==
  ASSUME NEW p \in Seq(Byte), Len(p) < Word16, NEW w, w = interleaved(0, p)
  PROVE  /\ w \in Seq(Byte) /\ Len(w) = Len(p) + 4 /\ 256 * w[3] + w[4] = Len(p)
         /\ \A k \in 1..Len(p) : w[4 + k] = p[k]
<1> DEFINE l == Len(p)
           x == octet(l, 256)
           y == octet(l, 1)
           h == <<36, 0, x, y>>
<1>1. l \in Nat /\ l < Word16
  OBVIOUS
<1> HIDE DEF l
<1>2. x \in Byte /\ y \in Byte
  <2>1. 256 \in Nat \ {0} /\ 1 \in Nat \ {0}
    OBVIOUS
  <2> QED BY <1>1, <2>1, OctetType
<1>3. 256 * x + y = l
  BY <1>1, TwoOctets, Zenon
<1>4. w = h \o p
  BY Zenon DEF interleaved, l
<1> HIDE DEF x, y
<1>5. h \in Seq(Byte) /\ Len(h) = 4 /\ h[3] = x /\ h[4] = y
  BY <1>2 DEF Byte
<1> HIDE DEF h
<1>6. /\ w \in Seq(Byte) /\ Len(w) = Len(h) + Len(p)
      /\ (\A k \in 1..Len(h) : w[k] = h[k])
      /\ \A k \in 1..Len(p) : w[Len(h) + k] = p[k]
  <2>1. h \in Seq(Byte)
    BY <1>5
  <2>2. /\ h \o p \in Seq(Byte) /\ Len(h \o p) = Len(h) + Len(p)
        /\ (\A k \in 1..Len(h) : (h \o p)[k] = h[k])
        /\ \A k \in 1..Len(p) : (h \o p)[Len(h) + k] = p[k]
    BY <2>1, ConcatProperties
  <2> QED BY <1>4, <2>2, Zenon
<1>7. 3 \in 1..Len(h) /\ 4 \in 1..Len(h) /\ Len(h) + Len(p) = Len(p) + 4
  BY <1>1, <1>5 DEF l
<1>8. w[3] = x /\ w[4] = y
  BY <1>5, <1>6, <1>7, Zenon
<1>9. 256 * w[3] + w[4] = Len(p)
  BY <1>3, <1>8, Zenon DEF l
<1>10. \A k \in 1..Len(p) : w[4 + k] = p[k]
  BY <1>5, <1>6, Zenon
<1> QED BY <1>6, <1>7, <1>9, <1>10, Zenon

\* The player takes the packets out of the stream as they were put in.
LEMMA DeframeUndoes ==
  ASSUME NEW q \in Seq(Seq(Byte)), \A i \in 1..Len(q) : Len(q[i]) < Word16
  PROVE  Wire(q) \in Seq(Byte) /\ Deframed(Wire(q)) = q
<1> DEFINE n == Len(q)
           w == [i \in 1..n |-> interleaved(0, q[i])]
           s == FlattenSeq(w)
           W == Seq(Byte)
<1>0. n \in Nat
  OBVIOUS
<1>1. ASSUME NEW i \in 1..n
      PROVE  /\ q[i] \in Seq(Byte) /\ Len(q[i]) \in Nat /\ w[i] \in W /\ Len(w[i]) = Len(q[i]) + 4 /\ 256 * w[i][3] + w[i][4] = Len(q[i])
             /\ \A k \in 1..Len(q[i]) : w[i][4 + k] = q[i][k]
  <2> DEFINE p == q[i]
             v == w[i]
  <2>1. p \in Seq(Byte) /\ Len(p) < Word16
    BY ElementOfSeq
  <2>2. v = interleaved(0, p)
    BY Zenon
  <2> HIDE DEF p, v
  <2>3. /\ v \in Seq(Byte) /\ Len(v) = Len(p) + 4 /\ 256 * v[3] + v[4] = Len(p)
        /\ \A k \in 1..Len(p) : v[4 + k] = p[k]
    BY <2>1, <2>2, InterleavedFacts, SMTT(30)
  <2>4. Len(p) \in Nat
    BY <2>1
  <2> QED BY <2>1, <2>3, <2>4, Zenon DEF p, v
<1>2. w \in Seq(Seq(Byte)) /\ Len(w) = n
  <2>1. \A i \in 1..n : w[i] \in W
    BY <1>1, Zenon
  <2>2. w = [i \in 1..n |-> w[i]]
    BY Zenon
  <2> HIDE DEF w, n, W
  <2>3. w \in Seq(W) /\ Len(w) = n
    BY <1>0, <2>1, <2>2
  <2> QED BY <2>3 DEF W
<1> HIDE DEF w
<1>3. /\ EndAt(w, 0) = 0 /\ EndAt(w, n) = Len(s) /\ s \in Seq(Byte)
      /\ \A j \in 0..n : EndAt(w, j) \in Nat
      /\ \A j \in 1..n : EndAt(w, j) = EndAt(w, j - 1) + Len(w[j])
  <2> HIDE DEF n
  <2>1. /\ EndAt(w, 0) = 0 /\ EndAt(w, Len(w)) = Len(s) /\ s \in Seq(Byte)
        /\ \A j \in 0..Len(w) : EndAt(w, j) \in Nat
        /\ \A j \in 1..Len(w) : EndAt(w, j) = EndAt(w, j - 1) + Len(w[j])
    BY <1>2, JoinEnds
  <2> QED BY <1>2, <2>1, Zenon
<1>4. Wire(q) = s
  BY Zenon DEF Wire, w
<1> HIDE DEF s
<1>5. PICK f : Deframes(f, s) /\ Deframed(s) = f[1]
  BY <1>3, DeframeValue
<1>6. Len(s) \in Nat
  BY <1>3
<1>7. f[Len(s) + 1] = <<>>
  <2> DEFINE m == Len(s) + 1
  <2>1. m \in 1..Len(s)+1 /\ m + 3 > Len(s)
    BY <1>6
  <2> HIDE DEF m
  <2>2. f[m] = DeframeTurn(f, s, m)
    BY <1>5, <2>1 DEF Deframes
  <2>3. f[m] = <<>>
    BY <2>1, <2>2, Zenon DEF DeframeTurn, Short
  <2> QED BY <2>3 DEF m
<1> DEFINE pos == [k \in 1..n+1 |-> EndAt(w, k - 1) + 1]
<1>8. ASSUME NEW k \in 1..n PROVE f[pos[k]] = <<q[k]>> \o f[EndAt(w, k) + 1]
  <2> DEFINE e == EndAt(w, k - 1)
             x == EndAt(w, k)
             p == q[k]
             v == w[k]
             l == Len(p)
             b == e + 1
  <2>1. k - 1 \in 0..n /\ k \in 0..n /\ n \in 0..n /\ k \in 1..n+1
    BY <1>0
  <2>2. e \in Nat /\ x \in Nat /\ x = e + Len(v)
    BY <1>3, <2>1
  <2>3. /\ p \in Seq(Byte) /\ l \in Nat /\ v \in Seq(Byte) /\ Len(v) = l + 4 /\ 256 * v[3] + v[4] = l
        /\ \A j \in 1..l : v[4 + j] = p[j]
    BY <1>1, Zenon
  <2>4. x <= Len(s)
    <3>0. k \in 0..Len(w) /\ n \in k..Len(w)
      BY <1>2, <2>1, <1>0
    <3>1. EndAt(w, k) <= EndAt(w, n)
      BY <1>2, <3>0, JoinMonotone
    <3> QED BY <1>3, <3>1, Zenon
  <2>5. \A j \in 1..Len(v) : s[e + j] = v[j]
    <3> TAKE j \in 1..Len(v)
    <3>1. k \in 1..Len(w) /\ j \in 1..Len(w[k])
      BY <1>2, Zenon
    <3>2. FlattenSeq(w)[EndAt(w, k - 1) + j] = w[k][j]
      BY <1>2, <3>1, JoinAt
    <3> QED BY <3>2, Zenon DEF s
  <2>6. pos[k] = b
    BY <2>1, Zenon
  <2> HIDE DEF e, x, p, v, l, pos
  <2>7. b \in 1..Len(s)+1 /\ b + 2 = e + 3 /\ b + 3 = e + 4 /\ 3 \in 1..Len(v) /\ 4 \in 1..Len(v) /\ x = e + l + 4
    BY <1>6, <2>2, <2>3, <2>4
  <2>8. SizeAt(s, b) = l
    <3>1. s[b + 2] = v[3] /\ s[b + 3] = v[4]
      BY <2>5, <2>7, Zenon
    <3> QED BY <2>3, <3>1, Zenon DEF SizeAt
  <2>9. ~Short(s, b)
    <3>1. ~(b + 3 > Len(s)) /\ ~(b + 3 + l > Len(s))
      BY <1>6, <2>2, <2>3, <2>4, <2>7
    <3> QED BY <2>8, <3>1, Zenon DEF Short
  <2>10. SubSeq(s, b + 4, b + 3 + l) = p
    <3> DEFINE at == e + 4
    <3>1. at \in Nat /\ at + l <= Len(s) /\ b + 4 = at + 1 /\ b + 3 + l = at + l
      BY <1>6, <2>2, <2>3, <2>4, <2>7
    <3>2. ASSUME NEW j \in 1..l PROVE s[at + j] = p[j]
      <4>1. 4 + j \in 1..Len(v) /\ e + (4 + j) = at + j
        BY <2>2, <2>3
      <4> QED BY <2>3, <2>5, <4>1, Zenon
    <3> HIDE DEF at
    <3>3. Within(p, s, at)
      BY <3>1, <3>2, Zenon DEF Within, l
    <3>4. Bytes(s, at, at + Len(p)) = p
      <4>1. s \in Seq(Byte) /\ p \in Seq(Byte) /\ at \in Nat
        BY <1>3, <2>3, <3>1
      <4> QED BY <3>3, <4>1, TakeWithin
    <3> QED BY <3>1, <3>4, Zenon DEF Bytes, l
  <2>11. b + 4 + l = x + 1
    BY <2>2, <2>3, <2>7
  <2> HIDE DEF b
  <2>12. f[b] = DeframeTurn(f, s, b)
    BY <1>5, <2>7 DEF Deframes
  <2>13. f[b] = <<p>> \o f[x + 1]
    BY <2>8, <2>9, <2>10, <2>11, <2>12, Zenon DEF DeframeTurn
  <2> QED BY <2>6, <2>13, Zenon DEF p, x
<1>9. CASE n = 0
  <2>1. Len(s) + 1 = 1
    BY <1>3, <1>9
  <2>2. q = <<>>
    BY <1>9
  <2> QED BY <1>3, <1>4, <1>5, <1>7, <2>1, <2>2, Zenon
<1>10. CASE n # 0
  <2>1. n \in 1..n /\ 1 \in 1..n+1 /\ q # <<>>
    BY <1>0, <1>10
  <2>2. f[pos[n]] = <<q[n]>>
    <3>1. f[pos[n]] = <<q[n]>> \o <<>>
      BY <1>3, <1>7, <1>8, <2>1, Zenon
    <3>2. <<q[n]>> \in Seq(Seq(Byte))
      BY <1>1, <2>1
    <3>3. <<q[n]>> \o <<>> = <<q[n]>>
      BY <3>2, ConcatEmptySeq
    <3> QED BY <3>1, <3>3, Zenon
  <2>3. ASSUME NEW k \in 1..n-1 PROVE f[pos[k]] = <<q[k]>> \o f[pos[k + 1]]
    <3>1. k \in 1..n /\ k + 1 \in 1..n+1 /\ (k + 1) - 1 = k
      BY <1>0
    <3>2. pos[k + 1] = EndAt(w, k) + 1
      BY <3>1, Zenon
    <3> HIDE DEF pos
    <3> QED BY <1>8, <3>1, <3>2, Zenon
  <2>4. pos[1] = 1
    <3>1. pos[1] = EndAt(w, 1 - 1) + 1 /\ 1 - 1 = 0 /\ 0 + 1 = 1
      BY <2>1
    <3> QED BY <1>3, <3>1, Zenon
  <2> HIDE DEF pos
  <2>5. f[pos[1]] = q
    BY <2>1, <2>2, <2>3, ChainRuns
  <2> QED BY <1>3, <1>4, <1>5, <2>4, <2>5, Zenon
<1> QED BY <1>9, <1>10

\* One more packet on the connection.
LEMMA WireGrows ==
  ASSUME NEW q \in Seq(Seq(Byte)), \A i \in 1..Len(q) : Len(q[i]) < Word16,
         NEW x \in Seq(Byte), Len(x) < Word16
  PROVE  Wire(Append(q, x)) = Wire(q) \o interleaved(0, x)
<1> DEFINE n == Len(q)
           y == interleaved(0, x)
           a == Append(q, x)
           w == [i \in 1..n |-> interleaved(0, q[i])]
           v == [i \in 1..n+1 |-> interleaved(0, a[i])]
           u == <<y>>
           W == Seq(Byte)
<1>0. n \in Nat
  OBVIOUS
<1>1. a \in Seq(Seq(Byte)) /\ Len(a) = n + 1 /\ (\A i \in 1..n : a[i] = q[i]) /\ a[n + 1] = x
  BY AppendProperties
<1>2. y \in W
  BY InterleavedFacts
<1>3. ASSUME NEW i \in 1..n PROVE interleaved(0, q[i]) \in W
  <2> DEFINE p == q[i]
  <2>1. p \in Seq(Byte) /\ Len(p) < Word16
    BY ElementOfSeq
  <2> HIDE DEF p
  <2>2. interleaved(0, p) \in Seq(Byte)
    BY <2>1, InterleavedFacts
  <2> QED BY <2>2 DEF p
<1> HIDE DEF y, a
<1>4. w \in Seq(W) /\ Len(w) = n /\ \A i \in 1..n : w[i] = interleaved(0, q[i])
  <2> HIDE DEF n, W
  <2> QED BY <1>0, <1>3
<1>5. u \in Seq(W) /\ Len(u) = 1 /\ u[1] = y
  <2> HIDE DEF W
  <2> QED BY <1>2
<1>6. v \in Seq(W) /\ Len(v) = n + 1 /\ \A i \in 1..n+1 : v[i] = interleaved(0, a[i])
  <2>1. ASSUME NEW i \in 1..n+1 PROVE interleaved(0, a[i]) \in W
    <3>1. CASE i \in 1..n
      BY <1>1, <1>3, <3>1, Zenon
    <3>2. CASE i = n + 1
      BY <1>1, <1>2, <3>2, Zenon DEF y
    <3>3. i \in 1..n \/ i = n + 1
      <4> HIDE DEF n
      <4> QED BY <1>0
    <3> QED BY <3>1, <3>2, <3>3, Zenon
  <2> HIDE DEF n, W
  <2> QED BY <1>0, <2>1
<1> HIDE DEF w, v, u, W
<1>7. v = w \o u
  <2> DEFINE z == w \o u
  <2>0. w \in Seq(W) /\ u \in Seq(W)
    BY <1>4, <1>5
  <2>1. /\ z \in Seq(W) /\ Len(z) = Len(w) + Len(u) /\ (\A i \in 1..Len(w) : z[i] = w[i])
        /\ \A i \in 1..Len(u) : z[Len(w) + i] = u[i]
    BY <2>0, ConcatProperties
  <2> HIDE DEF z
  <2>2. Len(w) + Len(u) = n + 1 /\ 1 \in 1..Len(u)
    BY <1>0, <1>4, <1>5
  <2>3. Len(z) = n + 1 /\ (\A i \in 1..n : z[i] = w[i]) /\ z[n + 1] = y
    BY <1>4, <1>5, <2>1, <2>2, Zenon
  <2>4. ASSUME NEW i \in 1..n+1 PROVE v[i] = z[i]
    <3>1. CASE i \in 1..n
      BY <1>1, <1>4, <1>6, <2>3, <3>1, Zenon
    <3>2. CASE i = n + 1
      BY <1>1, <1>6, <2>3, <3>2, Zenon DEF y
    <3> QED BY <1>0, <3>1, <3>2
  <2>5. v = z
    BY <1>6, <2>1, <2>3, <2>4, SeqEqual
  <2> QED BY <2>5 DEF z
<1>8. Wire(q) = FlattenSeq(w) /\ Wire(a) = FlattenSeq(v)
  BY <1>1, Zenon DEF Wire, w, v
<1>9. FlattenSeq(w \o u) = FlattenSeq(w) \o FlattenSeq(u)
  <2>1. w \in Seq(Seq(Byte)) /\ u \in Seq(Seq(Byte))
    BY <1>4, <1>5 DEF W
  <2> QED BY <2>1, JoinConcat
<1>10. FlattenSeq(u) = y
  BY <1>2, JoinOne DEF u, W
<1> QED BY <1>7, <1>8, <1>9, <1>10, Zenon DEF a, y

LEMMA WireEmpty == Wire(<<>>) = <<>>
<1> DEFINE w == [i \in 1..Len(<<>>) |-> interleaved(0, <<>>[i])]
<1>1. w = <<>>
  OBVIOUS
<1> HIDE DEF w
<1>2. w \in Seq(Seq(Byte)) /\ Len(w) = 0
  BY <1>1
<1>3. EndAt(w, 0) = 0 /\ EndAt(w, Len(w)) = Len(FlattenSeq(w)) /\ FlattenSeq(w) \in Seq(Byte)
  BY <1>2, JoinEnds
<1>4. FlattenSeq(w) = <<>>
  <2> DEFINE z == FlattenSeq(w)
  <2>1. z \in Seq(Byte) /\ Len(z) = 0
    BY <1>2, <1>3, Zenon
  <2> HIDE DEF z
  <2>2. z = <<>>
    BY <2>1
  <2> QED BY <2>2 DEF z
<1> QED BY <1>4, Zenon DEF Wire, w

-----------------------------------------------------------------------------
(* All payloads of a list of NAL units.                                    *)

\* What FragmentsFit says of a payload.
Fits(pl) == Len(pl) \in Nat \ {0} /\ Len(pl) <= Mtu /\ (pl[1] % 32 = 28 => pl[2] < 192)

LEMMA PacketizeFacts ==
  ASSUME NEW nal \in Nal
  PROVE  /\ packetize(nal) \in Seq(Seq(Byte)) /\ Len(packetize(nal)) \in Nat \ {0}
         /\ \A i \in 1..Len(packetize(nal)) : Fits(packetize(nal)[i])
         /\ Len(nal) <= Mtu => packetize(nal) = <<nal>>
         /\ ~(Len(nal) <= Mtu) => Len(packetize(nal)) = Cut(nal) /\ Len(nal) > Mtu
         /\ ~(Len(nal) <= Mtu) => \A i \in 1..Cut(nal) : packetize(nal)[i] = Fragment(nal, i)
<1> DEFINE s == packetize(nal)
           W == Seq(Byte)
<1>0. nal \in W /\ Len(nal) \in Nat \ {0} /\ nal # <<>> /\ NalType(nal) # 28 /\ Mtu \in Nat
  BY NalFacts, MtuFacts
<1>1. CASE Len(nal) <= Mtu
  <2>1. s = <<nal>>
    BY <1>0, <1>1, Zenon DEF packetize
  <2>2. Fits(nal)
    BY <1>0, <1>1, Zenon DEF Fits, NalType
  <2> HIDE DEF s, W
  <2>3. s \in Seq(W) /\ Len(s) = 1 /\ s[1] = nal
    BY <1>0, <2>1
  <2>4. \A i \in 1..Len(s) : i = 1
    BY <2>3
  <2>5. Len(s) \in Nat \ {0}
    BY <2>3
  <2> QED BY <1>1, <2>1, <2>2, <2>3, <2>4, <2>5, Zenon DEF s, W
<1>2. CASE ~(Len(nal) <= Mtu)
  <2> DEFINE c == Cut(nal)
  <2>1. Len(nal) > Mtu
    BY <1>0, <1>2
  <2>2. s = [i \in 1..c |-> Fragment(nal, i)]
    BY <2>1, FragmentsAre, Zenon
  <2>3. c \in Nat /\ c >= 2
    BY <2>1, CutFacts
  <2>4. ASSUME NEW i \in 1..c PROVE Fragment(nal, i) \in W /\ Fits(Fragment(nal, i))
    <3> DEFINE pl == Fragment(nal, i)
    <3>1. pl = Fragment(nal, i)
      OBVIOUS
    <3> HIDE DEF pl
    <3>2. pl \in W /\ Len(pl) \in Nat \ {0} /\ Len(pl) <= Mtu /\ pl[2] < 192
      BY <2>1, <3>1, FragmentFacts
    <3> QED BY <3>1, <3>2, Zenon DEF Fits
  <2> HIDE DEF s, W, c
  <2>5. s \in Seq(W) /\ Len(s) = c /\ \A i \in 1..c : s[i] = Fragment(nal, i)
    BY <2>2, <2>3, <2>4
  <2>6. c \in Nat \ {0}
    BY <2>3
  <2> QED BY <1>2, <2>1, <2>4, <2>5, <2>6, Zenon DEF s, W, c
<1> QED BY <1>1, <1>2

\* packetize as a function, so that it can be mapped over a list.
pktz == [nal \in Nal |-> packetize(nal)]
PacketsOf(nals) == FlattenSeq(Mapped(pktz, nals))

LEMMA PacketsFacts ==
  ASSUME NEW nals \in Seq(Nal)
  PROVE  /\ Mapped(pktz, nals) \in Seq(Seq(Seq(Byte))) /\ Len(Mapped(pktz, nals)) = Len(nals)
         /\ \A n \in 1..Len(nals) : Mapped(pktz, nals)[n] = packetize(nals[n]) /\ nals[n] \in Nal
         /\ Mapped(pktz, nals) = [n \in DOMAIN nals |-> packetize(nals[n])]
         /\ PacketsOf(nals) \in Seq(Seq(Byte)) /\ Len(PacketsOf(nals)) \in Nat
         /\ \A i \in 1..Len(PacketsOf(nals)) : Fits(PacketsOf(nals)[i])
<1> DEFINE W == Seq(Byte)
           s == Mapped(pktz, nals)
           m == Len(nals)
           f == PacketsOf(nals)
<1>1. \A x \in Nal : pktz[x] = packetize(x)
  BY Zenon DEF pktz
<1>2. \A x \in Nal : pktz[x] \in Seq(W)
  BY <1>1, PacketizeFacts, Zenon
<1>3. s \in Seq(Seq(W))
  <2> HIDE DEF W
  <2> QED BY <1>2, JoinMapped
<1>4. m \in Nat /\ DOMAIN nals = 1..m /\ \A n \in 1..m : nals[n] \in Nal
  BY ElementOfSeq
<1>5. s = [n \in 1..m |-> pktz[nals[n]]]
  BY Zenon DEF Mapped
<1>6. s = [n \in DOMAIN nals |-> packetize(nals[n])]
  BY <1>1, <1>4, <1>5, Zenon
<1>7. Len(s) = m
  <2> HIDE DEF s, m
  <2> QED BY <1>4, <1>5
<1>8. \A n \in 1..m : s[n] = packetize(nals[n]) /\ nals[n] \in Nal
  BY <1>1, <1>4, <1>5, Zenon
<1> HIDE DEF s
<1>9. f \in Seq(W)
  BY <1>3, JoinEnds DEF PacketsOf, s
<1>10. ASSUME NEW i \in 1..Len(f) PROVE Fits(f[i])
  <2>1. f = FlattenSeq(s)
    BY DEF PacketsOf, s
  <2>2. PICK n \in 1..Len(s) : \E k \in 1..Len(s[n]) : i = EndAt(s, n - 1) + k
    BY <1>3, <2>1, JoinPlace
  <2>3. PICK k \in 1..Len(s[n]) : i = EndAt(s, n - 1) + k
    BY <2>2
  <2>4. f[i] = s[n][k]
    BY <1>3, <2>1, <2>3, JoinAt
  <2>5. n \in 1..m
    BY <1>7
  <2>6. Fits(packetize(nals[n])[k])
    BY <1>8, <2>5, PacketizeFacts, Zenon
  <2> QED BY <1>8, <2>4, <2>5, <2>6, Zenon
<1>11. Len(f) \in Nat
  BY <1>9
<1> QED BY <1>3, <1>6, <1>7, <1>8, <1>9, <1>10, <1>11, Zenon DEF s, W

LEMMA PacketsConcat ==
  ASSUME NEW a \in Seq(Nal), NEW b \in Seq(Nal)
  PROVE  PacketsOf(a \o b) = PacketsOf(a) \o PacketsOf(b)
<1> DEFINE W == Seq(Byte)
<1>1. \A x \in Nal : pktz[x] \in Seq(W)
  BY PacketizeFacts, Zenon DEF pktz
<1> HIDE DEF W
<1>2. MapJoins(pktz, a, b)
  BY <1>1, JoinMapped
<1> QED BY <1>2, Zenon DEF MapJoins, PacketsOf

\* mk: pacerTick marks the last packet of a frame and no other.
LEMMA MarkersAre ==
  ASSUME NEW nals \in Seq(Nal), NEW i \in 1..Len(PacketsOf(nals))
  PROVE  FlattenSeq(markers(Mapped(pktz, nals)))[i] = (i = Len(PacketsOf(nals)))
<1> DEFINE W == Seq(Byte)
           s == Mapped(pktz, nals)
           m == Len(nals)
           f == PacketsOf(nals)
           t == markers(s)
           B == Seq(BOOLEAN)
<1>1. /\ s \in Seq(Seq(W)) /\ Len(s) = m /\ m \in Nat
      /\ \A n \in 1..m : s[n] = packetize(nals[n]) /\ nals[n] \in Nal
      /\ f = FlattenSeq(s) /\ Len(f) \in Nat /\ DOMAIN s = 1..m
  <2>1. m \in Nat
    OBVIOUS
  <2>2. /\ s \in Seq(Seq(W)) /\ Len(s) = m
        /\ \A n \in 1..m : s[n] = packetize(nals[n]) /\ nals[n] \in Nal
        /\ Len(f) \in Nat
    BY PacketsFacts, Zenon
  <2>3. DOMAIN s = 1..m
    <3> HIDE DEF s, m, W
    <3> QED BY <2>2
  <2> QED BY <2>1, <2>2, <2>3, Zenon DEF PacketsOf
<1> HIDE DEF s, m, W, f
<1>2. ASSUME NEW n \in 1..m PROVE s[n] \in Seq(W) /\ Len(s[n]) \in Nat \ {0} /\ DOMAIN s[n] = 1..Len(s[n])
  <2>1. packetize(nals[n]) \in Seq(W) /\ Len(packetize(nals[n])) \in Nat \ {0}
    BY <1>1, PacketizeFacts, Zenon DEF W
  <2> DEFINE x == s[n]
  <2>2. x \in Seq(W) /\ Len(x) \in Nat \ {0}
    BY <1>1, <2>1, Zenon
  <2> HIDE DEF x
  <2>3. DOMAIN x = 1..Len(x)
    BY <2>2
  <2> QED BY <2>2, <2>3 DEF x
<1>3. ASSUME NEW n \in 1..m
      PROVE  /\ t[n] \in B /\ Len(t[n]) = Len(s[n])
             /\ \A p \in 1..Len(s[n]) : t[n][p] = (n = m /\ p = Len(s[n]))
  <2> DEFINE l == Len(s[n])
             y == t[n]
  <2>1. y = [p \in 1..l |-> n = m /\ p = l]
    BY <1>1, <1>2, Zenon DEF markers
  <2>2. l \in Nat
    BY <1>2
  <2> HIDE DEF l, y
  <2>3. y \in [1..l -> BOOLEAN]
    BY <2>1, Zenon
  <2>4. y \in B /\ Len(y) = l
    BY <2>2, <2>3
  <2>5. \A p \in 1..l : y[p] = (n = m /\ p = l)
    BY <2>1, Zenon
  <2> QED BY <2>4, <2>5 DEF l, y
<1>4. t \in Seq(B) /\ Len(t) = m
  <2>1. t = [n \in 1..m |-> t[n]]
    BY <1>1, Zenon DEF markers
  <2> HIDE DEF t, B
  <2>2. t \in [1..m -> B]
    BY <1>3, <2>1, Zenon
  <2> QED BY <1>1, <2>2
<1> HIDE DEF t
<1>5. \A j \in 0..m : EndAt(s, j) = EndAt(t, j)
  <2>1. t \in Seq(Seq(BOOLEAN)) /\ Len(s) = Len(t) /\ \A n \in 1..Len(s) : Len(s[n]) = Len(t[n])
    BY <1>1, <1>3, <1>4, Zenon
  <2>2. \A j \in 0..Len(s) : EndAt(s, j) = EndAt(t, j)
    <3> DEFINE R == BOOLEAN
    <3>1. s \in Seq(Seq(W)) /\ t \in Seq(Seq(R))
      BY <1>1, <2>1
    <3>2. Len(s) = Len(t) /\ \A n \in 1..Len(s) : Len(s[n]) = Len(t[n])
      BY <2>1
    <3> HIDE DEF R
    <3> QED BY <3>1, <3>2, EndsAgree
  <2> QED BY <1>1, <2>2
<1>6. PICK n \in 1..Len(s) : \E k \in 1..Len(s[n]) : i = EndAt(s, n - 1) + k
  BY <1>1, JoinPlace DEF f
<1>7. PICK k \in 1..Len(s[n]) : i = EndAt(s, n - 1) + k
  BY <1>6
<1>8. n \in 1..m /\ n - 1 \in 0..m /\ n \in 0..m
  BY <1>1
<1>9. FlattenSeq(t)[i] = (n = m /\ k = Len(s[n]))
  <2>1. n \in 1..Len(t) /\ k \in 1..Len(t[n])
    BY <1>3, <1>4, <1>8, Zenon
  <2>2. FlattenSeq(t)[EndAt(t, n - 1) + k] = t[n][k]
    BY <1>4, <2>1, JoinAt
  <2>3. EndAt(t, n - 1) + k = i
    BY <1>5, <1>7, <1>8, Zenon
  <2> QED BY <1>3, <1>8, <2>2, <2>3, Zenon
<1>10. /\ EndAt(s, m) = Len(f)
       /\ \A j \in 0..m : EndAt(s, j) \in Nat
       /\ \A j \in 1..m : EndAt(s, j) = EndAt(s, j - 1) + Len(s[j])
  <2>1. /\ EndAt(s, Len(s)) = Len(FlattenSeq(s))
        /\ \A j \in 0..Len(s) : EndAt(s, j) \in Nat
        /\ \A j \in 1..Len(s) : EndAt(s, j) = EndAt(s, j - 1) + Len(s[j])
    BY <1>1, JoinEnds
  <2> QED BY <1>1, <2>1, Zenon
<1> DEFINE l == Len(s[n])
           e == EndAt(s, n - 1)
           x == EndAt(s, n)
<1>11. l \in Nat /\ e \in Nat /\ x = e + l /\ k \in 1..l /\ i = e + k
  BY <1>2, <1>7, <1>8, <1>10
<1>12. (i = Len(f)) <=> (n = m /\ k = l)
  <2>1. CASE n = m
    <3>1. x = Len(f)
      BY <1>10, <2>1, Zenon
    <3> HIDE DEF l, e, x
    <3> QED BY <1>1, <1>11, <2>1, <3>1
  <2>2. CASE n # m
    <3>1. n \in 0..Len(s) /\ m - 1 \in n..Len(s) /\ m \in 1..m /\ m - 1 \in 0..m
      BY <1>1, <1>8, <2>2
    <3>2. x <= EndAt(s, m - 1)
      <4> DEFINE j == m - 1
      <4>1. n \in 0..Len(s) /\ j \in n..Len(s)
        BY <3>1
      <4> HIDE DEF j
      <4>2. EndAt(s, n) <= EndAt(s, j)
        BY <1>1, <4>1, JoinMonotone
      <4> QED BY <4>2 DEF j
    <3>3. Len(f) = EndAt(s, m - 1) + Len(s[m]) /\ Len(s[m]) \in Nat \ {0} /\ EndAt(s, m - 1) \in Nat
      BY <1>2, <1>10, <3>1, Zenon
    <3> DEFINE y == EndAt(s, m - 1)
               z == Len(s[m])
    <3>4. x <= y /\ Len(f) = y + z /\ z \in Nat \ {0} /\ y \in Nat
      BY <3>2, <3>3
    <3> HIDE DEF l, e, x, y, z
    <3>5. i # Len(f)
      BY <1>1, <1>11, <3>4
    <3> QED BY <2>2, <3>5
  <2> QED BY <2>1, <2>2
<1>13. (i = Len(f)) = (n = m /\ k = l)
  BY <1>12, Zenon
<1> QED BY <1>9, <1>13, Zenon DEF t, s, f

\* The units meant of the first n frames.
UnitsOf(n) == FlattenSeq([i \in 1..n |-> Meant(frames[i])])

LEMMA UnitsGrow ==
  ASSUME Described, NEW n \in 0..Len(frames)
  PROVE  /\ UnitsOf(n) \in Seq(Nal)
         /\ n < Len(frames) => UnitsOf(n + 1) = UnitsOf(n) \o Meant(frames[n + 1])
         /\ UnitsOf(0) = <<>>
<1> DEFINE l == Len(frames)
           W == Seq(Nal)
           g == [i \in 1..l |-> Meant(frames[i])]
           p(k) == [i \in 1..k |-> Meant(frames[i])]
<1>1. frames \in Seq(Frame) /\ l \in Nat /\ n \in Nat /\ n <= l
  BY DEF Described
<1>2. ASSUME NEW i \in 1..l PROVE Meant(frames[i]) \in W
  <2>1. frames[i] \in Frame
    BY <1>1, ElementOfSeq
  <2> QED BY <2>1, MeantType, Zenon
<1> HIDE DEF l, W
<1>3. ASSUME NEW k \in 0..l PROVE p(k) \in Seq(W) /\ Len(p(k)) = k /\ \A i \in 1..k : p(k)[i] = Meant(frames[i])
  <2>1. k \in Nat /\ \A i \in 1..k : i \in 1..l
    BY <1>1
  <2>2. \A i \in 1..k : p(k)[i] = Meant(frames[i])
    BY Zenon
  <2>3. p(k) \in [1..k -> W]
    BY <1>2, <2>1, Zenon
  <2> DEFINE y == p(k)
  <2> HIDE DEF p, y
  <2>4. y \in [1..k -> W]
    BY <2>3 DEF y
  <2>5. y \in Seq(W) /\ Len(y) = k
    BY <2>1, <2>4
  <2> QED BY <2>2, <2>5 DEF y
<1>4. UnitsOf(n) \in Seq(Nal)
  <2>1. p(n) \in Seq(Seq(Nal))
    BY <1>3 DEF l, W
  <2> DEFINE y == p(n)
  <2>2. UnitsOf(n) = FlattenSeq(y)
    BY Zenon DEF UnitsOf
  <2>3. y \in Seq(Seq(Nal))
    BY <2>1
  <2> HIDE DEF y, p
  <2> QED BY <2>2, <2>3, JoinEnds
<1>5. ASSUME n < Len(frames) PROVE UnitsOf(n + 1) = UnitsOf(n) \o Meant(frames[n + 1])
  <2> DEFINE k == n + 1
             x == Meant(frames[k])
             a == p(n)
             b == p(k)
  <2>1. n \in 0..l /\ k \in 0..l /\ k \in 1..l /\ k \in 1..k
    BY <1>1, <1>5 DEF l
  <2>2. /\ a \in Seq(W) /\ Len(a) = n /\ \A i \in 1..n : a[i] = Meant(frames[i])
    BY <1>3, <2>1, Zenon
  <2> HIDE DEF p
  <2>3. /\ b \in Seq(W) /\ Len(b) = k /\ \A i \in 1..k : b[i] = Meant(frames[i])
    BY <1>3, <2>1, Zenon
  <2>4. x \in W
    BY <1>2, <2>1, Zenon
  <2> DEFINE c == Append(a, x)
  <2> HIDE DEF a, b, x
  <2>5. c \in Seq(W) /\ Len(c) = Len(a) + 1 /\ (\A i \in 1..Len(a) : c[i] = a[i]) /\ c[Len(a) + 1] = x
    <3>1. a \in Seq(W)
      BY <2>2
    <3> QED BY <2>4, <3>1, AppendProperties
  <2> HIDE DEF c
  <2>6. Len(c) = k /\ (\A i \in 1..n : c[i] = a[i]) /\ c[k] = x
    BY <2>2, <2>5, Zenon
  <2>7. ASSUME NEW i \in 1..k PROVE c[i] = b[i]
    <3>1. CASE i \in 1..n
      BY <2>1, <2>2, <2>3, <2>6, <3>1, Zenon
    <3>2. CASE i = k
      BY <2>1, <2>3, <2>6, <3>2, Zenon DEF x
    <3>3. i \in 1..n \/ i = k
      BY <1>1
    <3> QED BY <3>1, <3>2, <3>3, Zenon
  <2>8. c = b
    BY <2>3, <2>5, <2>6, <2>7, SeqEqual
  <2>9. FlattenSeq(Append(a, x)) = FlattenSeq(a) \o x
    BY <2>2, <2>4, JoinAppend DEF W
  <2>10. UnitsOf(n) = FlattenSeq(a) /\ UnitsOf(k) = FlattenSeq(b)
    BY Zenon DEF UnitsOf, a, b, p
  <2> QED BY <2>8, <2>9, <2>10, Zenon DEF c, x
<1>6. UnitsOf(0) = <<>>
  <2> DEFINE y == p(0)
  <2>1. y \in Seq(Seq(Nal)) /\ Len(y) = 0
    <3>1. 0 \in 0..l
      BY <1>1
    <3> QED BY <1>3, <3>1 DEF W
  <2>2. UnitsOf(0) = FlattenSeq(y)
    BY Zenon DEF UnitsOf
  <2> DEFINE z == FlattenSeq(y)
  <2> HIDE DEF y, p
  <2>3. EndAt(y, 0) = 0 /\ EndAt(y, Len(y)) = Len(z) /\ z \in Seq(Nal)
    BY <2>1, JoinEnds
  <2> HIDE DEF z
  <2>4. Len(z) = 0
    BY <2>1, <2>3, Zenon
  <2>5. z = <<>>
    BY <2>3, <2>4
  <2> QED BY <2>2, <2>5 DEF z
<1> QED BY <1>4, <1>5, <1>6

-----------------------------------------------------------------------------
(* The packets of a session.                                               *)

\* A packet as pacerTick builds it: its payload, its frame, and whether it is the
\* last one of the frame.
Sent == [payload : Seq(Byte), frame : Nat, last : BOOLEAN]

\* Z: the packets of the units M, of the first n frames.
Built(Z, M, n) ==
  /\ Z \in Seq(Sent)
  /\ Len(Z) = Len(PacketsOf(M)) /\ \A k \in 1..Len(Z) : Z[k].payload = PacketsOf(M)[k]
  /\ \A k \in 1..Len(Z) : Z[k].frame <= n
  /\ \A j, k \in 1..Len(Z) : j <= k => Z[j].frame <= Z[k].frame
  /\ \A k \in 1..Len(Z) : Z[k].last <=> (k = Len(Z) \/ Z[k + 1].frame # Z[k].frame)

FramePackets(B, n) ==
  [i \in 1..Len(PacketsOf(B)) |->
     [payload |-> PacketsOf(B)[i], frame |-> n, last |-> i = Len(PacketsOf(B))]]

LEMMA FramePacketsFacts ==
  ASSUME NEW B \in Seq(Nal), NEW n \in Nat, NEW Y, Y = FramePackets(B, n)
  PROVE  /\ Y \in Seq(Sent) /\ Len(Y) = Len(PacketsOf(B)) /\ Len(Y) \in Nat
         /\ \A i \in 1..Len(Y) : Y[i].payload = PacketsOf(B)[i] /\ Y[i].frame = n /\ Y[i].last = (i = Len(Y))
<1> DEFINE p == PacketsOf(B)
           l == Len(p)
           y(i) == [payload |-> p[i], frame |-> n, last |-> i = l]
<1>1. p \in Seq(Seq(Byte)) /\ l \in Nat
  BY PacketsFacts, Zenon
<1>2. Y = [i \in 1..l |-> y(i)]
  BY Zenon DEF FramePackets
<1> HIDE DEF p, l
<1>3. ASSUME NEW i \in 1..l PROVE y(i) \in Sent /\ y(i).payload = p[i] /\ y(i).frame = n /\ y(i).last = (i = l)
  <2>1. p[i] \in Seq(Byte)
    BY <1>1, ElementOfSeq DEF l
  <2> QED BY <2>1 DEF Sent
<1> HIDE DEF y
<1>4. Y \in [1..l -> Sent]
  BY <1>2, <1>3, Zenon
<1>5. Y \in Seq(Sent) /\ Len(Y) = l
  BY <1>1, <1>4
<1>6. \A i \in 1..l : Y[i] = y(i)
  BY <1>2, Zenon
<1>7. ASSUME NEW i \in 1..l PROVE Y[i].payload = p[i] /\ Y[i].frame = n /\ Y[i].last = (i = l)
  <2>1. Y[i] = y(i)
    BY <1>6
  <2>2. y(i).payload = p[i] /\ y(i).frame = n /\ y(i).last = (i = l)
    BY <1>3
  <2> QED BY <2>1, <2>2, Zenon
<1>8. Y \in Seq(Sent) /\ Len(Y) = Len(PacketsOf(B)) /\ Len(Y) \in Nat
  BY <1>1, <1>5, Zenon DEF p, l
<1>9. \A i \in 1..Len(Y) : Y[i].payload = PacketsOf(B)[i] /\ Y[i].frame = n /\ Y[i].last = (i = Len(Y))
  BY <1>5, <1>7 DEF p
<1> QED BY <1>8, <1>9, Zenon

LEMMA BuiltGrows ==
  ASSUME NEW M \in Seq(Nal), NEW B \in Seq(Nal), NEW n \in Nat, NEW Z, Built(Z, M, n)
  PROVE  Built(Z \o FramePackets(B, n + 1), M \o B, n + 1)
<1> DEFINE Y == FramePackets(B, n + 1)
           U == Z \o Y
           a == Len(Z)
           b == Len(Y)
           p == PacketsOf(M)
           q == PacketsOf(B)
           r == PacketsOf(M \o B)
<1>1. /\ Z \in Seq(Sent) /\ a = Len(p) /\ (\A k \in 1..a : Z[k].payload = p[k])
      /\ (\A k \in 1..a : Z[k].frame <= n)
      /\ (\A j, k \in 1..a : j <= k => Z[j].frame <= Z[k].frame)
      /\ \A k \in 1..a : Z[k].last <=> (k = a \/ Z[k + 1].frame # Z[k].frame)
  BY Zenon DEF Built
<1>2. /\ Y \in Seq(Sent) /\ b = Len(q) /\ b \in Nat
      /\ \A i \in 1..b : Y[i].payload = q[i] /\ Y[i].frame = n + 1 /\ Y[i].last = (i = b)
  <2> DEFINE m == n + 1
  <2>1. m \in Nat /\ Y = FramePackets(B, m)
    OBVIOUS
  <2> HIDE DEF m, Y
  <2>2. /\ Y \in Seq(Sent) /\ Len(Y) = Len(PacketsOf(B)) /\ Len(Y) \in Nat
        /\ \A i \in 1..Len(Y) : Y[i].payload = PacketsOf(B)[i] /\ Y[i].frame = m /\ Y[i].last = (i = Len(Y))
    BY <2>1, FramePacketsFacts
  <2> QED BY <2>2, Zenon DEF m
<1> HIDE DEF Y
<1>3. /\ U \in Seq(Sent) /\ Len(U) = a + b /\ (\A k \in 1..a : U[k] = Z[k]) /\ \A i \in 1..b : U[a + i] = Y[i]
  <2>1. Z \in Seq(Sent) /\ Y \in Seq(Sent)
    BY <1>1, <1>2
  <2> QED BY <2>1, ConcatProperties
<1>4. p \in Seq(Seq(Byte)) /\ q \in Seq(Seq(Byte)) /\ r = p \o q
  BY PacketsFacts, PacketsConcat, Zenon
<1> HIDE DEF U, r, p, q
<1>5. /\ Len(r) = Len(p) + Len(q) /\ (\A k \in 1..Len(p) : r[k] = p[k]) /\ \A i \in 1..Len(q) : r[Len(p) + i] = q[i]
  <2>1. /\ Len(p \o q) = Len(p) + Len(q) /\ (\A k \in 1..Len(p) : (p \o q)[k] = p[k])
        /\ \A i \in 1..Len(q) : (p \o q)[Len(p) + i] = q[i]
    BY <1>4, ConcatProperties
  <2> QED BY <1>4, <2>1, Zenon
<1>6. Len(r) = a + b /\ (\A k \in 1..a : r[k] = p[k]) /\ \A i \in 1..b : r[a + i] = q[i]
  BY <1>1, <1>2, <1>5, Zenon
<1>7. a \in Nat
  BY <1>1
<1>8. \A k \in 1..a : Z[k].frame \in Nat
  <2>1. \A k \in 1..a : Z[k] \in Sent
    BY <1>1, ElementOfSeq
  <2> QED BY <2>1 DEF Sent
<1> HIDE DEF a, b
<1>9. ASSUME NEW k \in 1..a+b PROVE k \in 1..a \/ \E i \in 1..b : k = a + i
  <2>1. CASE k > a
    <3>1. k - a \in 1..b /\ k = a + (k - a)
      BY <1>2, <1>7, <2>1
    <3> QED BY <3>1
  <2> QED BY <1>2, <1>7, <2>1
<1>10. /\ \A k \in 1..a : U[k].payload = r[k] /\ U[k].frame = Z[k].frame /\ U[k].last = Z[k].last
       /\ \A i \in 1..b : U[a + i].payload = r[a + i] /\ U[a + i].frame = n + 1 /\ U[a + i].last = (i = b)
  <2>1. ASSUME NEW k \in 1..a PROVE U[k].payload = r[k] /\ U[k].frame = Z[k].frame /\ U[k].last = Z[k].last
    <3>1. U[k] = Z[k] /\ r[k] = p[k] /\ Z[k].payload = p[k]
      BY <1>1, <1>3, <1>6
    <3> QED BY <3>1, Zenon
  <2>2. ASSUME NEW i \in 1..b
        PROVE  U[a + i].payload = r[a + i] /\ U[a + i].frame = n + 1 /\ U[a + i].last = (i = b)
    <3>1. U[a + i] = Y[i] /\ r[a + i] = q[i]
      BY <1>3, <1>6
    <3>2. Y[i].payload = q[i] /\ Y[i].frame = n + 1 /\ Y[i].last = (i = b)
      BY <1>2
    <3> QED BY <3>1, <3>2, Zenon
  <2> QED BY <2>1, <2>2, Zenon
<1>11. \A k \in 1..a+b : U[k].payload = r[k]
  BY <1>9, <1>10, Zenon
<1>12. \A k \in 1..a+b : U[k].frame <= n + 1
  <2>1. \A k \in 1..a : Z[k].frame <= n + 1
    BY <1>1, <1>8
  <2>2. n + 1 <= n + 1
    OBVIOUS
  <2> TAKE k \in 1..a+b
  <2>3. CASE k \in 1..a
    BY <1>10, <2>1, <2>3, Zenon
  <2>4. ASSUME NEW i \in 1..b, k = a + i PROVE U[k].frame <= n + 1
    <3>1. U[k].frame = n + 1
      BY <1>10, <2>4
    <3> QED BY <2>2, <3>1, Zenon
  <2> QED BY <1>9, <2>3, <2>4, Zenon
<1>13. ASSUME NEW j \in 1..a+b, NEW k \in 1..a+b, j <= k PROVE U[j].frame <= U[k].frame
  <2>1. CASE k \in 1..a
    <3>1. j \in 1..a
      BY <1>2, <1>7, <1>13, <2>1
    <3> QED BY <1>1, <1>10, <1>13, <2>1, <3>1, Zenon
  <2>2. CASE k \notin 1..a
    <3>1. U[k].frame = n + 1
      <4>1. PICK i \in 1..b : k = a + i
        BY <1>9, <2>2
      <4> QED BY <1>10, <4>1
    <3> QED BY <1>12, <3>1, Zenon
  <2> QED BY <2>1, <2>2
<1>14. ASSUME NEW k \in 1..a+b PROVE U[k].last <=> (k = a + b \/ U[k + 1].frame # U[k].frame)
  <2>1. CASE k \in 1..a /\ k # a
    <3>1. k + 1 \in 1..a /\ k # a + b
      BY <1>2, <1>7, <2>1
    <3>2. Z[k].last <=> (k = a \/ Z[k + 1].frame # Z[k].frame)
      BY <1>1, <2>1
    <3>3. U[k].last = Z[k].last /\ U[k].frame = Z[k].frame /\ U[k + 1].frame = Z[k + 1].frame
      BY <1>10, <2>1, <3>1
    <3> QED BY <2>1, <3>1, <3>2, <3>3, Zenon
  <2>2. CASE k \in 1..a /\ k = a
    <3>1. U[k].last
      BY <1>1, <1>10, <2>2, Zenon
    <3>2. CASE b = 0
      <4>1. k = a + b
        BY <1>7, <2>2, <3>2
      <4> QED BY <3>1, <4>1, Zenon
    <3>3. CASE b # 0
      <4>1. 1 \in 1..b
        BY <1>2, <3>3
      <4>2. U[k + 1].frame = n + 1
        BY <1>10, <2>2, <4>1, Zenon
      <4>3. U[k].frame <= n /\ U[k].frame \in Nat
        BY <1>1, <1>8, <1>10, <2>2, Zenon
      <4> DEFINE x == U[k].frame
                 y == U[k + 1].frame
      <4>4. x <= n /\ x \in Nat /\ y = n + 1
        BY <4>2, <4>3
      <4> HIDE DEF x, y
      <4>5. y # x
        BY <4>4
      <4> QED BY <3>1, <4>5, Zenon DEF x, y
    <3> QED BY <3>2, <3>3
  <2>3. CASE k \notin 1..a
    <3>1. PICK i \in 1..b : k = a + i
      BY <1>9, <2>3
    <3>2. U[k].last = (i = b) /\ U[k].frame = n + 1
      BY <1>10, <3>1, Zenon
    <3>3. CASE i = b
      BY <3>1, <3>2, <3>3, Zenon
    <3>4. CASE i # b
      <4> DEFINE j == i + 1
      <4>1. j \in 1..b /\ k + 1 = a + j /\ k # a + b
        BY <1>2, <1>7, <3>1, <3>4
      <4> HIDE DEF j
      <4>2. U[k + 1].frame = n + 1
        BY <1>10, <4>1, ZenonT(40)
      <4> QED BY <3>2, <3>4, <4>1, <4>2, Zenon
    <3> QED BY <3>3, <3>4
  <2> QED BY <2>1, <2>2, <2>3
<1>15. Built(U, M \o B, n + 1)
  BY <1>3, <1>6, <1>11, <1>12, <1>13, <1>14, Zenon DEF Built, r
<1> QED BY <1>15 DEF U, Y

\* The k-th packet on its way, numbered from FirstSeq.
Packet(Z, k) == build(Z[k].payload, (FirstSeq + k - 1) % Word16, FirstTs + Z[k].frame, Z[k].last)

\* What the player reads of it.
Read(Z, k) ==
  [seq |-> (FirstSeq + k - 1) % Word16, ts |-> (FirstTs + Z[k].frame) % Word32,
   marker |-> Z[k].last, payload |-> Z[k].payload]

LEMMA Mod16 ==
  ASSUME NEW x \in Nat
  PROVE  /\ x % Word16 \in Nat /\ x % Word16 < Word16
         /\ \A y \in Nat : ((x % Word16) + y) % Word16 = (x + y) % Word16
         /\ \A y \in Nat : x % Word16 = y % Word16 => (x - y) % Word16 = 0
BY SMT DEF Word16

LEMMA PacketFacts ==
  ASSUME NEW M \in Seq(Nal), NEW n \in Nat, NEW Z, Built(Z, M, n), NEW k \in 1..Len(Z)
  PROVE  /\ Z[k] \in Sent /\ Z[k].frame \in Nat /\ Z[k].last \in BOOLEAN /\ Z[k].payload \in Seq(Byte)
         /\ Fits(Z[k].payload)
         /\ Packet(Z, k) \in Seq(Byte) /\ Len(Packet(Z, k)) < Word16
         /\ Fields(Packet(Z, k)) = Read(Z, k)
<1> DEFINE pl == Z[k].payload
           seq == (FirstSeq + k - 1) % Word16
           ts == FirstTs + Z[k].frame
           mk == Z[k].last
           pkt == Packet(Z, k)
<1>1. FirstSeq \in Nat /\ FirstTs \in Nat /\ Mtu \in Nat /\ Mtu + 12 < Word16 /\ Word16 \in Nat
  <2>1. Word16 \in Nat
    BY SMT DEF Word16
  <2>2. {Mtu, FirstSeq, FirstTs, Ssrc, MaxLost} \subseteq Nat /\ Mtu + 12 < Word16
    BY VideoAssumption, Zenon
  <2> QED BY <2>1, <2>2, Zenon
<1>2. Z \in Seq(Sent) /\ Len(Z) \in Nat
  BY LenProperties DEF Built
<1>3. Z[k] \in Sent
  BY <1>2, ElementOfSeq
<1>4. Z[k].frame \in Nat /\ mk \in BOOLEAN /\ pl \in Seq(Byte)
  BY <1>3 DEF Sent
<1>5. Fits(pl)
  <2>1. Len(Z) = Len(PacketsOf(M)) /\ pl = PacketsOf(M)[k]
    BY Zenon DEF Built
  <2> QED BY <2>1, PacketsFacts, Zenon
<1>6. seq \in Nat /\ seq < Word16 /\ ts \in Nat
  <2>1. FirstSeq + k - 1 \in Nat /\ ts \in Nat
    BY <1>1, <1>2, <1>4, SMTT(30)
  <2> QED BY <2>1, Mod16, Zenon
<1>7. pkt = build(pl, seq, ts, mk)
  BY Zenon DEF Packet
<1> HIDE DEF pl, seq, ts, mk, pkt
<1>8. /\ pkt \in Seq(Byte) /\ Len(pkt) = Len(pl) + 12
      /\ Fields(pkt) = [seq |-> seq, ts |-> ts % Word32, marker |-> mk, payload |-> pl]
  BY <1>4, <1>6, <1>7, FieldsUndo, ZenonT(40)
<1>9. Len(pkt) < Word16
  <2>1. Len(pl) <= Mtu /\ Len(pl) \in Nat
    BY <1>5 DEF Fits
  <2> DEFINE w == Word16
  <2>2. w \in Nat /\ Mtu + 12 < w
    BY <1>1
  <2> HIDE DEF w
  <2>3. Len(pl) + 12 < w
    BY <1>1, <2>1, <2>2
  <2> QED BY <1>8, <2>3, Zenon DEF w
<1>10. Fields(pkt) = Read(Z, k)
  BY <1>8, Zenon DEF Read, seq, ts, mk, pl
<1> QED BY <1>3, <1>4, <1>5, <1>8, <1>9, <1>10, Zenon DEF pl, mk, pkt

\* Q: the packets that arrived, of those in Z; h tells which, and l were lost.
Took(Q, h, Z, l) ==
  /\ Q \in Seq(Seq(Byte))
  /\ \A i \in 1..Len(Q) : /\ h[i] \in 1..Len(Z) /\ i <= h[i] /\ h[i] <= i + l
                          /\ Q[i] = Packet(Z, h[i])
  /\ \A i \in 1..Len(Q)-1 : h[i] < h[i + 1]

LEMMA TookMore ==
  ASSUME NEW Z, Len(Z) \in Nat, NEW Q, NEW h, NEW l \in Nat, Took(Q, h, Z, l),
         NEW x \in Seq(Byte), Len(Q) + l + 1 <= Len(Z), x = Packet(Z, Len(Q) + l + 1)
  PROVE  \E g : Took(Append(Q, x), g, Z, l)
<1> DEFINE n == Len(Q)
           R == Append(Q, x)
           W == Seq(Byte)
           z == Len(Z)
           g == [i \in 1..n+1 |-> IF i = n + 1 THEN n + l + 1 ELSE h[i]]
<1>1. /\ Q \in Seq(W)
      /\ (\A i \in 1..n : /\ h[i] \in 1..z /\ i <= h[i] /\ h[i] <= i + l /\ Q[i] = Packet(Z, h[i]))
      /\ \A i \in 1..n-1 : h[i] < h[i + 1]
  BY Zenon DEF Took
<1>2. n \in Nat
  BY <1>1
<1>3. R \in Seq(W) /\ Len(R) = n + 1 /\ (\A i \in 1..n : R[i] = Q[i]) /\ R[n + 1] = x
  <2> HIDE DEF W
  <2>1. Q \in Seq(W) /\ x \in W
    BY <1>1 DEF W
  <2> QED BY <2>1, AppendProperties
<1>4. n + l + 1 \in 1..z /\ n + 1 <= n + l + 1 /\ n + l + 1 <= (n + 1) + l /\ n + 1 \in 1..n+1
  <2> HIDE DEF n, z
  <2>1. n + l + 1 <= z /\ z \in Nat
    BY DEF n, z
  <2> QED BY <1>2, <2>1
<1> HIDE DEF n, z, R, W
<1>5. g[n + 1] = n + l + 1 /\ \A i \in 1..n : g[i] = h[i]
  <2>1. \A i \in 1..n : i \in 1..n+1 /\ i # n + 1
    BY <1>2
  <2> QED BY <1>4, <2>1, Zenon
<1> HIDE DEF g
<1>6. ASSUME NEW i \in 1..n+1 PROVE i \in 1..n \/ i = n + 1
  BY <1>2
<1>7. ASSUME NEW i \in 1..n+1 PROVE g[i] \in 1..z /\ i <= g[i] /\ g[i] <= i + l /\ R[i] = Packet(Z, g[i])
  <2>1. CASE i \in 1..n
    BY <1>1, <1>3, <1>5, <2>1, Zenon
  <2>2. CASE i = n + 1
    BY <1>3, <1>4, <1>5, <2>2, Zenon DEF n
  <2> QED BY <1>6, <2>1, <2>2
<1>8. ASSUME NEW i \in 1..n PROVE g[i] < g[i + 1]
  <2>1. CASE i = n
    <3>1. g[n] = h[n] /\ h[n] <= n + l /\ h[n] \in 1..z
      BY <1>1, <1>5, <2>1, Zenon
    <3> DEFINE u == g[n]
               v == g[n + 1]
    <3>2. u <= n + l /\ u \in Int /\ v = n + l + 1
      BY <1>5, <3>1
    <3> HIDE DEF u, v
    <3>3. u < v
      BY <1>2, <3>2
    <3> QED BY <2>1, <3>3, Zenon DEF u, v
  <2>2. CASE i # n
    <3>1. i \in 1..n-1 /\ i + 1 \in 1..n
      BY <1>2, <2>2
    <3>2. h[i] < h[i + 1] /\ g[i] = h[i] /\ g[i + 1] = h[i + 1]
      BY <1>1, <1>5, <3>1
    <3> QED BY <3>2, Zenon
  <2> QED BY <2>1, <2>2
<1>9. (n + 1) - 1 = n
  BY <1>2
<1>10. Took(R, g, Z, l)
  <2>1. \A i \in 1..Len(R) : /\ g[i] \in 1..Len(Z) /\ i <= g[i] /\ g[i] <= i + l /\ R[i] = Packet(Z, g[i])
    BY <1>3, <1>7, Zenon DEF z
  <2>2. \A i \in 1..Len(R)-1 : g[i] < g[i + 1]
    BY <1>3, <1>8, <1>9, Zenon
  <2> QED BY <1>3, <2>1, <2>2, Zenon DEF Took, W
<1> QED BY <1>10 DEF R

LEMMA TookLoses ==
  ASSUME NEW Z, Len(Z) \in Nat, NEW Q, NEW h, NEW l \in Nat, Took(Q, h, Z, l)
  PROVE  Took(Q, h, Z, l + 1)
<1>1. Q \in Seq(Seq(Byte)) /\ Len(Q) \in Nat
  BY LenProperties DEF Took
<1>2. ASSUME NEW i \in 1..Len(Q) PROVE h[i] <= i + (l + 1)
  <2> DEFINE x == h[i]
             n == Len(Q)
             z == Len(Z)
  <2>1. x \in 1..z /\ x <= i + l
    BY Zenon DEF Took
  <2> HIDE DEF x, n, z
  <2>2. n \in Nat /\ z \in Nat /\ i \in 1..n
    BY <1>1 DEF n, z
  <2>3. x <= i + (l + 1)
    BY <2>1, <2>2
  <2> QED BY <2>3 DEF x
<1> QED BY <1>2, Zenon DEF Took

LEMMA TookGrows ==
  ASSUME NEW Z \in Seq(Sent), NEW Y \in Seq(Sent), NEW Q, NEW h, NEW l, Took(Q, h, Z, l)
  PROVE  Took(Q, h, Z \o Y, l)
<1> DEFINE U == Z \o Y
<1>1. Len(U) = Len(Z) + Len(Y) /\ Len(Z) \in Nat /\ Len(Y) \in Nat /\ \A k \in 1..Len(Z) : U[k] = Z[k]
  BY ConcatProperties
<1> HIDE DEF U
<1>2. ASSUME NEW k \in 1..Len(Z) PROVE k \in 1..Len(U) /\ Packet(U, k) = Packet(Z, k)
  <2>1. k \in 1..Len(U)
    BY <1>1
  <2>2. U[k] = Z[k]
    BY <1>1
  <2> QED BY <2>1, <2>2, Zenon DEF Packet
<1>3. ASSUME NEW i \in 1..Len(Q)
      PROVE  h[i] \in 1..Len(U) /\ i <= h[i] /\ h[i] <= i + l /\ Q[i] = Packet(U, h[i])
  <2>1. h[i] \in 1..Len(Z) /\ i <= h[i] /\ h[i] <= i + l /\ Q[i] = Packet(Z, h[i])
    BY Zenon DEF Took
  <2> QED BY <1>2, <2>1, Zenon
<1>4. Took(Q, h, U, l)
  BY <1>3, Zenon DEF Took
<1> QED BY <1>4 DEF U

\* The state of a session: Z was built so far, Q of it has arrived, and what is
\* neither there nor lost is pending, numbered without a gap.
Sending(Z, Q, h) ==
  /\ next \in 1 .. Len(frames) + 1 /\ lost \in 0 .. MaxLost
  /\ Built(Z, UnitsOf(next - 1), next - 1)
  /\ rtpSeq = (FirstSeq + Len(Z)) % Word16
  /\ Took(Q, h, Z, lost)
  /\ pending \in Seq(Seq(Byte)) /\ Len(Q) + lost + Len(pending) = Len(Z)
  /\ \A i \in 1..Len(pending) : pending[i] = Packet(Z, Len(Q) + lost + i)
  /\ IF tcp THEN stream = Wire(Q) /\ datagrams = <<>> ELSE datagrams = Q /\ stream = <<>>

\* The inductive invariant.
VideoInv == Described /\ \E Z, Q, h : Sending(Z, Q, h)

LEMMA ParameterFacts ==
  Mtu \in Nat /\ FirstSeq \in Nat /\ FirstTs \in Nat /\ Ssrc \in Nat /\ MaxLost \in Nat /\ Word16 \in Nat
  /\ Mtu + 12 < Word16 /\ FirstSeq < Word16
<1>1. Word16 \in Nat
  BY SMT DEF Word16
<1> QED BY <1>1, VideoAssumption, Zenon

LEMMA SendingTypes ==
  ASSUME Described, NEW Z, NEW Q, NEW h, Sending(Z, Q, h)
  PROVE  /\ next \in Nat /\ next - 1 \in Nat /\ next - 1 \in 0..Len(frames) /\ Len(frames) \in Nat
         /\ UnitsOf(next - 1) \in Seq(Nal)
         /\ Z \in Seq(Sent) /\ Len(Z) \in Nat /\ Q \in Seq(Seq(Byte)) /\ Len(Q) \in Nat /\ lost \in Nat
         /\ pending \in Seq(Seq(Byte)) /\ Len(pending) \in Nat
<1>1. Len(frames) \in Nat
  BY DEF Described
<1>2. next \in 1..Len(frames)+1 /\ lost \in 0..MaxLost
  BY Zenon DEF Sending
<1>3. next \in Nat /\ next - 1 \in Nat /\ next - 1 \in 0..Len(frames) /\ lost \in Nat
  BY <1>1, <1>2, ParameterFacts
<1>4. UnitsOf(next - 1) \in Seq(Nal)
  <2> DEFINE n == next - 1
  <2>1. n \in 0..Len(frames)
    BY <1>3
  <2> HIDE DEF n
  <2>2. UnitsOf(n) \in Seq(Nal)
    BY <2>1, UnitsGrow, Zenon
  <2> QED BY <2>2 DEF n
<1>5. Z \in Seq(Sent)
  BY Zenon DEF Sending, Built
<1>6. Q \in Seq(Seq(Byte)) /\ pending \in Seq(Seq(Byte))
  BY Zenon DEF Sending, Took
<1> QED BY <1>1, <1>3, <1>4, <1>5, <1>6, LenProperties

\* Nothing built, nothing sent.
LEMMA VideoInvInit == Init => VideoInv
<1> SUFFICES ASSUME Init PROVE VideoInv
  OBVIOUS
<1>1. Described
  BY DescribedInit
<1>2. /\ next = 1 /\ rtpSeq = FirstSeq /\ pending = <<>> /\ stream = <<>> /\ datagrams = <<>> /\ lost = 0
  BY Zenon DEF Init
<1> DEFINE e == <<>>
<1>3. Len(frames) \in Nat
  BY <1>1 DEF Described
<1>4. next - 1 = 0 /\ next \in 1..Len(frames)+1 /\ lost \in 0..MaxLost
  BY <1>2, <1>3, ParameterFacts
<1>5. UnitsOf(next - 1) = e
  <2>1. 0 \in 0..Len(frames)
    BY <1>3
  <2>2. UnitsOf(0) = <<>>
    BY <1>1, <2>1, UnitsGrow, Zenon
  <2> QED BY <1>4, <2>2, Zenon
<1>6. e \in Seq(Sent) /\ e \in Seq(Nal) /\ e \in Seq(Seq(Byte)) /\ Len(e) = 0 /\ 1..0 = {} /\ 1..(0-1) = {}
  OBVIOUS
<1>7. Len(PacketsOf(e)) = 0
  <2> DEFINE s == Mapped(pktz, e)
  <2>1. s \in Seq(Seq(Seq(Byte))) /\ Len(s) = 0
    BY <1>6, PacketsFacts, Zenon
  <2> DEFINE W == Seq(Byte)
  <2>2. s \in Seq(Seq(W))
    BY <2>1
  <2> HIDE DEF s, W
  <2>3. EndAt(s, 0) = 0 /\ EndAt(s, Len(s)) = Len(FlattenSeq(s))
    BY <2>2, JoinEnds
  <2> QED BY <2>1, <2>3, Zenon DEF PacketsOf, s
<1>8. Built(e, e, next - 1)
  <2> HIDE DEF e
  <2>1. 1..Len(e) = {}
    BY <1>6
  <2> QED BY <1>6, <1>7, <2>1, Zenon DEF Built
<1>9. Took(e, e, e, lost)
  <2> HIDE DEF e
  <2>1. 1..Len(e) = {} /\ 1..Len(e)-1 = {}
    BY <1>6
  <2> QED BY <1>6, <2>1, Zenon DEF Took
<1>10. rtpSeq = (FirstSeq + Len(e)) % Word16
  <2>1. FirstSeq + 0 = FirstSeq
    BY ParameterFacts
  <2>2. FirstSeq % Word16 = FirstSeq
    <3> DEFINE w == Word16
    <3>1. w \in Nat /\ FirstSeq \in Nat /\ FirstSeq < w
      BY ParameterFacts
    <3> HIDE DEF w
    <3>2. FirstSeq % w = FirstSeq
      BY <3>1
    <3> QED BY <3>2 DEF w
  <2> QED BY <1>2, <1>6, <2>1, <2>2, Zenon
<1>11. tcp \in BOOLEAN /\ Wire(e) = e
  BY <1>1, WireEmpty DEF Described
<1>12. Len(e) + lost + Len(pending) = Len(e) /\ 1..Len(pending) = {} /\ pending \in Seq(Seq(Byte))
  <2>1. 0 + 0 + 0 = 0
    OBVIOUS
  <2> QED BY <1>2, <1>6, <2>1, Zenon
<1>13. Sending(e, e, e)
  <2>1. IF tcp THEN stream = Wire(e) /\ datagrams = <<>> ELSE datagrams = e /\ stream = <<>>
    BY <1>2, <1>11, Zenon
  <2> HIDE DEF e
  <2>2. Built(e, UnitsOf(next - 1), next - 1)
    BY <1>5, <1>8, Zenon
  <2> QED BY <1>4, <1>9, <1>10, <1>12, <2>1, <2>2, Zenon DEF Sending
<1> QED BY <1>1, <1>13 DEF VideoInv

\* A step that leaves the session's data alone.
LEMMA SendingSame ==
  ASSUME NEW Z, NEW Q, NEW h, Sending(Z, Q, h),
         UNCHANGED <<session, next, rtpSeq, pending, stream, datagrams, lost>>
  PROVE  Sending(Z, Q, h)'
<1>1. /\ frames' = frames /\ extradata' = extradata /\ tcp' = tcp /\ next' = next /\ rtpSeq' = rtpSeq
      /\ pending' = pending /\ stream' = stream /\ datagrams' = datagrams /\ lost' = lost
  BY DEF session
<1>2. UnitsOf(next - 1)' = UnitsOf(next - 1)
  BY <1>1, Zenon DEF UnitsOf, Meant
<1> QED BY <1>1, <1>2, Zenon DEF Sending

LEMMA VideoInvSend ==
  ASSUME Described, Described', NEW Z, NEW Q, NEW h, Sending(Z, Q, h), sendVideoRTP, NEW x, x = Head(pending)
  PROVE  \E g : Sending(Z, Append(Q, x), g)'
<1> DEFINE n == Len(Q)
           p == Len(pending)
           R == Append(Q, x)
           z == Len(Z)
           W == Seq(Byte)
<1>1. /\ frames' = frames /\ extradata' = extradata /\ tcp' = tcp /\ next' = next /\ rtpSeq' = rtpSeq
      /\ lost' = lost /\ pending # <<>> /\ pending' = Tail(pending)
      /\ tcp => stream' = stream \o interleaved(0, x) /\ datagrams' = datagrams
      /\ ~tcp => datagrams' = Append(datagrams, x) /\ stream' = stream
  BY DEF sendVideoRTP, session
<1>2. UnitsOf(next - 1)' = UnitsOf(next - 1)
  BY <1>1, Zenon DEF UnitsOf, Meant
<1>3. /\ Z \in Seq(Sent) /\ z \in Nat /\ Q \in Seq(W) /\ n \in Nat /\ lost \in Nat /\ pending \in Seq(W) /\ p \in Nat
      /\ UnitsOf(next - 1) \in Seq(Nal) /\ next - 1 \in Nat
  BY SendingTypes, Zenon
<1>4. /\ Built(Z, UnitsOf(next - 1), next - 1) /\ Took(Q, h, Z, lost)
      /\ n + lost + p = z /\ \A i \in 1..p : pending[i] = Packet(Z, n + lost + i)
  BY Zenon DEF Sending
<1>5. /\ x = pending[1] /\ x \in W /\ p > 0
      /\ Tail(pending) \in Seq(W) /\ Len(Tail(pending)) = p - 1 /\ \A i \in 1..p-1 : Tail(pending)[i] = pending[i + 1]
  <2> HIDE DEF W, p
  <2>1. pending \in Seq(W) /\ pending # <<>>
    BY <1>1, <1>3
  <2> QED BY <1>3, <2>1, HeadTailProperties DEF p
<1> HIDE DEF n, p, z, R
<1>6. 1 \in 1..p /\ n + lost + 1 <= z /\ n + lost + 1 \in 1..z
  <2>1. n \in Nat /\ lost \in Nat /\ p \in Nat /\ z \in Nat
    BY <1>3, Zenon
  <2>2. n + lost + p = z /\ p > 0
    BY <1>4, <1>5, Zenon
  <2> QED BY <2>1, <2>2
<1>7. x = Packet(Z, n + lost + 1)
  BY <1>4, <1>5, <1>6, Zenon
<1>8. PICK g : Took(R, g, Z, lost)
  <2>1. \E g : Took(Append(Q, x), g, Z, lost)
    BY <1>3, <1>4, <1>5, <1>6, <1>7, TookMore, Zenon DEF n, z
  <2> QED BY <2>1 DEF R
<1>9. R \in Seq(W) /\ Len(R) = n + 1
  <2> HIDE DEF W
  <2> QED BY <1>3, <1>5, AppendProperties DEF R, n
<1>10. Len(R) + lost + (p - 1) = z /\ \A i \in 1..p-1 : Tail(pending)[i] = Packet(Z, Len(R) + lost + i)
  <2>1. Len(R) + lost + (p - 1) = z
    BY <1>3, <1>4, <1>9
  <2>2. ASSUME NEW i \in 1..p-1 PROVE Tail(pending)[i] = Packet(Z, Len(R) + lost + i)
    <3>1. i + 1 \in 1..p /\ n + lost + (i + 1) = Len(R) + lost + i
      BY <1>3, <1>9
    <3> QED BY <1>4, <1>5, <3>1, Zenon
  <2> QED BY <2>1, <2>2
<1>11. ASSUME NEW k \in 1..Len(Z) PROVE Packet(Z, k) \in Seq(Byte) /\ Len(Packet(Z, k)) < Word16
  <2> DEFINE u == UnitsOf(next - 1)
             m == next - 1
  <2>1. u \in Seq(Nal) /\ m \in Nat /\ Built(Z, u, m)
    BY <1>3, <1>4
  <2> HIDE DEF u, m
  <2> QED BY <2>1, PacketFacts, Zenon
<1>12. tcp => Wire(R) = Wire(Q) \o interleaved(0, x)
  <2>1. ASSUME NEW i \in 1..Len(Q) PROVE Len(Q[i]) < Word16
    <3>1. h[i] \in 1..Len(Z) /\ Q[i] = Packet(Z, h[i])
      BY <1>4, Zenon DEF Took
    <3> QED BY <1>11, <3>1, Zenon
  <2>2. Len(x) < Word16
    BY <1>6, <1>7, <1>11, Zenon DEF z
  <2>3. Q \in Seq(Seq(Byte)) /\ x \in Seq(Byte)
    BY <1>3, <1>5
  <2>4. Wire(Append(Q, x)) = Wire(Q) \o interleaved(0, x)
    BY <2>1, <2>2, <2>3, WireGrows, Zenon
  <2> QED BY <2>4 DEF R
<1>13. IF tcp' THEN stream' = Wire(R) /\ datagrams' = <<>> ELSE datagrams' = R /\ stream' = <<>>
  <2>1. IF tcp THEN stream = Wire(Q) /\ datagrams = <<>> ELSE datagrams = Q /\ stream = <<>>
    BY Zenon DEF Sending
  <2> QED BY <1>1, <1>12, <2>1, Zenon DEF R
<1>14. /\ next \in 1..Len(frames)+1 /\ lost \in 0..MaxLost /\ rtpSeq = (FirstSeq + z) % Word16
  BY Zenon DEF Sending, z
<1>15. Sending(Z, R, g)'
  <2>1. Built(Z, UnitsOf(next - 1), next - 1)'
    <3>1. Built(Z, UnitsOf(next - 1)', next' - 1)
      BY <1>1, <1>2, <1>4, Zenon
    <3> QED BY <3>1 DEF Built
  <2>2. Took(R, g, Z, lost')
    BY <1>1, <1>8, Zenon
  <2>3. pending' \in Seq(W) /\ Len(pending') = p - 1
    BY <1>1, <1>5, Zenon
  <2>4. Len(R) + lost' + Len(pending') = Len(Z)
    BY <1>1, <1>10, <2>3, Zenon DEF z
  <2>5. \A i \in 1..Len(pending') : pending'[i] = Packet(Z, Len(R) + lost' + i)
    BY <1>1, <1>10, <2>3, Zenon
  <2>6. next' \in 1..Len(frames')+1 /\ lost' \in 0..MaxLost /\ rtpSeq' = (FirstSeq + Len(Z)) % Word16
    BY <1>1, <1>14, Zenon DEF z
  <2> QED BY <1>13, <2>1, <2>2, <2>3, <2>4, <2>5, <2>6, Zenon DEF Sending
<1> QED BY <1>15 DEF R

LEMMA VideoInvLose ==
  ASSUME Described, Described', NEW Z, NEW Q, NEW h, Sending(Z, Q, h), Lose
  PROVE  Sending(Z, Q, h)'
<1> DEFINE n == Len(Q)
           p == Len(pending)
           z == Len(Z)
           W == Seq(Byte)
<1>1. /\ frames' = frames /\ extradata' = extradata /\ tcp' = tcp /\ next' = next /\ rtpSeq' = rtpSeq
      /\ lost' = lost + 1 /\ lost < MaxLost /\ pending # <<>> /\ pending' = Tail(pending)
      /\ stream' = stream /\ datagrams' = datagrams
  BY DEF Lose, session
<1>2. UnitsOf(next - 1)' = UnitsOf(next - 1)
  BY <1>1, Zenon DEF UnitsOf, Meant
<1>3. z \in Nat /\ n \in Nat /\ lost \in Nat /\ pending \in Seq(W) /\ p \in Nat
  BY SendingTypes, Zenon
<1>4. /\ Built(Z, UnitsOf(next - 1), next - 1) /\ Took(Q, h, Z, lost)
      /\ n + lost + p = z /\ \A i \in 1..p : pending[i] = Packet(Z, n + lost + i)
  BY Zenon DEF Sending
<1>5. /\ p > 0 /\ Tail(pending) \in Seq(W) /\ Len(Tail(pending)) = p - 1
      /\ \A i \in 1..p-1 : Tail(pending)[i] = pending[i + 1]
  <2> HIDE DEF W, p
  <2>1. pending \in Seq(W) /\ pending # <<>>
    BY <1>1, <1>3
  <2> QED BY <1>3, <2>1, HeadTailProperties DEF p
<1> HIDE DEF n, p, z
<1>6. Took(Q, h, Z, lost + 1)
  BY <1>3, <1>4, TookLoses, Zenon DEF z
<1>7. n + (lost + 1) + (p - 1) = z /\ lost + 1 \in 0..MaxLost
  BY <1>1, <1>3, <1>4, <1>5, ParameterFacts
<1>8. ASSUME NEW i \in 1..p-1 PROVE Tail(pending)[i] = Packet(Z, n + (lost + 1) + i)
  <2>1. i + 1 \in 1..p /\ n + lost + (i + 1) = n + (lost + 1) + i
    BY <1>3
  <2> QED BY <1>4, <1>5, <2>1, Zenon
<1>9. /\ next \in 1..Len(frames)+1 /\ rtpSeq = (FirstSeq + z) % Word16
      /\ IF tcp THEN stream = Wire(Q) /\ datagrams = <<>> ELSE datagrams = Q /\ stream = <<>>
  BY Zenon DEF Sending, z
<1>10. Built(Z, UnitsOf(next - 1), next - 1)'
  <2>1. Built(Z, UnitsOf(next - 1)', next' - 1)
    BY <1>1, <1>2, <1>4, Zenon
  <2> QED BY <2>1 DEF Built
<1>11. Took(Q, h, Z, lost')
  BY <1>1, <1>6, Zenon
<1>12. pending' \in Seq(W) /\ Len(pending') = p - 1
  BY <1>1, <1>5, Zenon
<1>13. Len(Q) + lost' + Len(pending') = Len(Z)
  BY <1>1, <1>7, <1>12, Zenon DEF n, z
<1>14. \A i \in 1..Len(pending') : pending'[i] = Packet(Z, Len(Q) + lost' + i)
  BY <1>1, <1>8, <1>12, Zenon DEF n
<1>15. next' \in 1..Len(frames')+1 /\ lost' \in 0..MaxLost /\ rtpSeq' = (FirstSeq + Len(Z)) % Word16
  BY <1>1, <1>7, <1>9, Zenon DEF z
<1>16. IF tcp' THEN stream' = Wire(Q) /\ datagrams' = <<>> ELSE datagrams' = Q /\ stream' = <<>>
  BY <1>1, <1>9, Zenon
<1> QED BY <1>10, <1>11, <1>12, <1>13, <1>14, <1>15, <1>16, Zenon DEF Sending

LEMMA VideoInvTick ==
  ASSUME Described, Described', NEW Z, NEW Q, NEW h, Sending(Z, Q, h), pacerTick,
         NEW B, B = Meant(frames[next]), NEW Y, Y = FramePackets(B, next)
  PROVE  Sending(Z \o Y, Q, h)'
<1> DEFINE n == Len(Q)
           z == Len(Z)
           W == Seq(Byte)
           U == Z \o Y
           m == next - 1
           flat == PacketsOf(B)
           l == Len(flat)
           s == Mapped(pktz, B)
           mk == FlattenSeq(markers(s))
<1>1. /\ frames' = frames /\ extradata' = extradata /\ tcp' = tcp /\ next' = next + 1 /\ lost' = lost
      /\ stream' = stream /\ datagrams' = datagrams /\ pending = <<>> /\ next <= Len(frames) /\ info # NotOpen
  BY DEF pacerTick, session
<1>2. /\ Z \in Seq(Sent) /\ z \in Nat /\ n \in Nat /\ lost \in Nat /\ m \in Nat /\ next \in Nat /\ Len(frames) \in Nat
      /\ UnitsOf(m) \in Seq(Nal) /\ m \in 0..Len(frames)
  BY SendingTypes, Zenon
<1>3. /\ Built(Z, UnitsOf(m), m) /\ Took(Q, h, Z, lost) /\ n + lost + Len(pending) = z
      /\ next \in 1..Len(frames)+1 /\ lost \in 0..MaxLost /\ rtpSeq = (FirstSeq + z) % Word16
      /\ IF tcp THEN stream = Wire(Q) /\ datagrams = <<>> ELSE datagrams = Q /\ stream = <<>>
  BY Zenon DEF Sending
<1>4. next \in 1..Len(frames) /\ m + 1 = next /\ m < Len(frames) /\ next' \in 1..Len(frames)+1 /\ next' - 1 = next /\ n + lost = z
  <2>1. Len(pending) = 0
    BY <1>1
  <2> QED BY <1>1, <1>2, <1>3, <2>1
<1>5. frames[next] \in Frame
  BY <1>4, ElementOfSeq DEF Described
<1>6. B \in Seq(Nal) /\ nalList(frames[next]) = B
  BY <1>1, <1>5, MeantType, NalListMeant, Zenon
<1>7. UnitsOf(next) = UnitsOf(m) \o B
  <2>1. UnitsOf(m + 1) = UnitsOf(m) \o Meant(frames[m + 1])
    BY <1>2, <1>4, UnitsGrow, Zenon
  <2> QED BY <1>4, <2>1, Zenon
<1>8. UnitsOf(next - 1)' = UnitsOf(next)
  <2>1. (next - 1)' = next
    BY <1>4
  <2> QED BY <1>1, <2>1, Zenon DEF UnitsOf, Meant
<1>9. Built(U, UnitsOf(next), next)
  <2> DEFINE M == UnitsOf(m)
  <2>1. M \in Seq(Nal) /\ Built(Z, M, m)
    BY <1>2, <1>3
  <2> HIDE DEF M, m
  <2>2. Built(Z \o FramePackets(B, m + 1), M \o B, m + 1)
    BY <1>2, <1>6, <2>1, BuiltGrows, Zenon
  <2> QED BY <1>4, <1>7, <2>2, Zenon DEF M
<1>10. /\ Y \in Seq(Sent) /\ Len(Y) = l /\ l \in Nat
       /\ \A i \in 1..l : Y[i].payload = flat[i] /\ Y[i].frame = next /\ Y[i].last = (i = l)
  <2>1. /\ Y \in Seq(Sent) /\ Len(Y) = l /\ Len(Y) \in Nat
        /\ \A i \in 1..Len(Y) : Y[i].payload = PacketsOf(B)[i] /\ Y[i].frame = next /\ Y[i].last = (i = Len(Y))
    BY <1>2, <1>6, FramePacketsFacts
  <2> QED BY <2>1, Zenon
<1>11. /\ U \in Seq(Sent) /\ Len(U) = z + l /\ \A i \in 1..l : U[z + i] = Y[i]
  <2>1. Z \in Seq(Sent) /\ Y \in Seq(Sent)
    BY <1>2, <1>10
  <2>2. /\ U \in Seq(Sent) /\ Len(U) = Len(Z) + Len(Y) /\ \A i \in 1..Len(Y) : U[Len(Z) + i] = Y[i]
    <3> HIDE DEF l, flat, s, mk
    <3> QED BY <2>1, ConcatProperties
  <2> QED BY <1>10, <2>2, Zenon
<1>12. Took(Q, h, U, lost)
  BY <1>2, <1>3, <1>10, TookGrows, Zenon
<1>13. /\ s = [i \in DOMAIN B |-> packetize(B[i])] /\ flat = FlattenSeq(s) /\ flat \in Seq(W)
       /\ \A i \in 1..l : mk[i] = (i = l)
  <2>1. /\ s = [i \in DOMAIN B |-> packetize(B[i])] /\ flat \in Seq(W)
    BY <1>6, PacketsFacts, Zenon
  <2>2. \A i \in 1..l : mk[i] = (i = l)
    BY <1>6, MarkersAre, Zenon
  <2> QED BY <2>1, <2>2, Zenon DEF PacketsOf
<1>14. /\ pending' = [i \in DOMAIN flat |-> build(flat[i], seqAfter(i - 1), FirstTs + next, mk[i])]
       /\ rtpSeq' = seqAfter(l)
  BY <1>6, <1>13, Zenon DEF pacerTick
<1>15. DOMAIN flat = 1..l
  <2> HIDE DEF flat, W
  <2>1. flat \in Seq(W)
    BY <1>13
  <2> QED BY <2>1 DEF l
<1> HIDE DEF U, s, flat, mk, l, n, z
<1>16. ASSUME NEW i \in Nat PROVE seqAfter(i) = (FirstSeq + z + i) % Word16
  <2> DEFINE f == FirstSeq + z
  <2>1. f \in Nat
    BY <1>2, ParameterFacts
  <2>2. seqAfter(i) = ((f % Word16) + i) % Word16
    BY <1>3, Zenon DEF seqAfter
  <2> HIDE DEF f
  <2>3. ((f % Word16) + i) % Word16 = (f + i) % Word16
    BY <2>1, Mod16, Zenon
  <2> QED BY <2>2, <2>3, Zenon DEF f
<1>17. ASSUME NEW i \in 1..l
       PROVE  build(flat[i], seqAfter(i - 1), FirstTs + next, mk[i]) = Packet(U, z + i)
  <2>1. seqAfter(i - 1) = (FirstSeq + (z + i) - 1) % Word16
    <3> DEFINE j == i - 1
    <3>1. j \in Nat /\ FirstSeq + z + j = FirstSeq + (z + i) - 1
      BY <1>2, <1>10, ParameterFacts
    <3> HIDE DEF j
    <3>2. seqAfter(j) = (FirstSeq + z + j) % Word16
      BY <1>16, <3>1
    <3> QED BY <3>1, <3>2, Zenon DEF j
  <2>2. U[z + i].payload = flat[i] /\ U[z + i].frame = next /\ U[z + i].last = mk[i]
    <3>1. U[z + i] = Y[i] /\ Y[i].payload = flat[i] /\ Y[i].frame = next
      BY <1>10, <1>11
    <3>2. Y[i].last = (i = l) /\ mk[i] = (i = l)
      BY <1>10, <1>13, Zenon
    <3> QED BY <3>1, <3>2, Zenon
  <2> QED BY <2>1, <2>2, Zenon DEF Packet
<1>18. pending' = [i \in 1..l |-> Packet(U, z + i)]
  BY <1>14, <1>15, <1>17, Zenon
<1>19. pending' \in Seq(W) /\ Len(pending') = l /\ \A i \in 1..l : pending'[i] = Packet(U, z + i)
  <2>1. ASSUME NEW i \in 1..l PROVE Packet(U, z + i) \in W
    <3> DEFINE M == UnitsOf(next)
               k == z + i
    <3>1. k \in 1..Len(U)
      BY <1>2, <1>10, <1>11
    <3>2. M \in Seq(Nal)
      <4>1. next \in 0..Len(frames)
        BY <1>2, <1>4
      <4> QED BY <4>1, UnitsGrow, Zenon
    <3>3. Built(U, M, next)
      BY <1>9
    <3> HIDE DEF M, k
    <3>4. Packet(U, k) \in Seq(Byte)
      BY <1>2, <3>1, <3>2, <3>3, PacketFacts, Zenon
    <3> QED BY <3>4 DEF k
  <2>2. \A i \in 1..l : pending'[i] = Packet(U, z + i)
    BY <1>18, Zenon
  <2>3. pending' \in [1..l -> W]
    BY <1>18, <2>1, Zenon
  <2> DEFINE y == pending'
  <2>4. y \in [1..l -> W]
    BY <2>3
  <2> HIDE DEF y, W
  <2>5. y \in Seq(W) /\ Len(y) = l
    BY <1>10, <2>4
  <2> QED BY <2>2, <2>5 DEF y
<1>20. rtpSeq' = (FirstSeq + Len(U)) % Word16
  <2>1. FirstSeq + z + l = FirstSeq + (z + l)
    BY <1>2, <1>10, ParameterFacts
  <2>2. seqAfter(l) = (FirstSeq + z + l) % Word16
    BY <1>10, <1>16
  <2> QED BY <1>11, <1>14, <2>1, <2>2, Zenon
<1>21. Built(U, UnitsOf(next - 1), next - 1)'
  <2>1. Built(U, UnitsOf(next - 1)', next' - 1)
    BY <1>4, <1>8, <1>9, Zenon
  <2> QED BY <2>1 DEF Built
<1>22. Len(Q) + lost' + Len(pending') = Len(U) /\ \A i \in 1..Len(pending') : pending'[i] = Packet(U, Len(Q) + lost' + i)
  BY <1>1, <1>4, <1>11, <1>19, Zenon DEF n
<1>23. next' \in 1..Len(frames')+1 /\ lost' \in 0..MaxLost
  BY <1>1, <1>3, <1>4, Zenon
<1>24. Took(Q, h, U, lost')
  BY <1>1, <1>12, Zenon
<1>25. IF tcp' THEN stream' = Wire(Q) /\ datagrams' = <<>> ELSE datagrams' = Q /\ stream' = <<>>
  BY <1>1, <1>3, Zenon
<1>26. Sending(U, Q, h)'
  BY <1>19, <1>20, <1>21, <1>22, <1>23, <1>24, <1>25, Zenon DEF Sending
<1> QED BY <1>26 DEF U

LEMMA VideoInvStep ==
  ASSUME VideoInv, [Next]_vars
  PROVE  VideoInv'
<1>1. Described /\ Described'
  BY DescribedStep DEF VideoInv
<1>2. PICK Z, Q, h : Sending(Z, Q, h)
  BY Zenon DEF VideoInv
<1>3. ASSUME UNCHANGED <<session, next, rtpSeq, pending, stream, datagrams, lost>>
      PROVE  VideoInv'
  <2>1. Sending(Z, Q, h)'
    BY <1>2, <1>3, SendingSame
  <2> QED BY <1>1, <2>1, Zenon DEF VideoInv
<1>4. CASE open
  BY <1>3, <1>4 DEF open
<1>5. CASE pacerTick
  <2>1. PICK b : b = Meant(frames[next])
    OBVIOUS
  <2>2. PICK y : y = FramePackets(b, next)
    OBVIOUS
  <2>3. Sending(Z \o y, Q, h)'
    BY <1>1, <1>2, <1>5, <2>1, <2>2, VideoInvTick, Zenon
  <2>4. \E X, R, g : Sending(X, R, g)'
    BY <2>3, Zenon
  <2> QED BY <1>1, <2>4, Zenon DEF VideoInv
<1>6. CASE sendVideoRTP
  <2>1. PICK x : x = Head(pending)
    OBVIOUS
  <2>2. PICK g : Sending(Z, Append(Q, x), g)'
    BY <1>1, <1>2, <1>6, <2>1, VideoInvSend
  <2>3. \E X, R, g1 : Sending(X, R, g1)'
    BY <2>2, Zenon
  <2> QED BY <1>1, <2>3, Zenon DEF VideoInv
<1>7. CASE Lose
  <2>1. Sending(Z, Q, h)'
    BY <1>1, <1>2, <1>7, VideoInvLose, Zenon
  <2> QED BY <1>1, <2>1, Zenon DEF VideoInv
<1>8. CASE Done \/ UNCHANGED vars
  BY <1>3, <1>8 DEF Done, vars
<1> QED BY <1>4, <1>5, <1>6, <1>7, <1>8, Zenon DEF Next

\* Every packet built is accounted for: it is pending, lost or with the player, in
\* the order in which it was built.
THEOREM VideoInvariant == Spec => []VideoInv
<1>1. Init => VideoInv
  BY VideoInvInit
<1>2. VideoInv /\ [Next]_vars => VideoInv'
  BY VideoInvStep
<1> QED BY <1>1, <1>2, PTL DEF Spec

-----------------------------------------------------------------------------
(* What the player reads.                                                  *)

LEMMA ArrivedAre ==
  ASSUME Described, NEW Z, NEW Q, NEW h, Sending(Z, Q, h)
  PROVE  Arrived = [i \in 1..Len(Q) |-> Read(Z, h[i])]
<1> DEFINE M == UnitsOf(next - 1)
           m == next - 1
<1>1. /\ Q \in Seq(Seq(Byte)) /\ Len(Q) \in Nat /\ M \in Seq(Nal) /\ m \in Nat
  BY SendingTypes, Zenon
<1>2. Built(Z, M, m) /\ Took(Q, h, Z, lost)
  BY Zenon DEF Sending
<1> HIDE DEF M, m
<1>3. ASSUME NEW i \in 1..Len(Q) PROVE Len(Q[i]) < Word16 /\ Fields(Q[i]) = Read(Z, h[i])
  <2>1. h[i] \in 1..Len(Z) /\ Q[i] = Packet(Z, h[i])
    BY <1>2, Zenon DEF Took
  <2> DEFINE k == h[i]
  <2> HIDE DEF k
  <2>2. k \in 1..Len(Z)
    BY <2>1 DEF k
  <2>3. Len(Packet(Z, k)) < Word16 /\ Fields(Packet(Z, k)) = Read(Z, k)
    BY <1>1, <1>2, <2>2, PacketFacts, Zenon
  <2> QED BY <2>1, <2>3, Zenon DEF k
<1>4. Packets = Q
  <2>1. Deframed(Wire(Q)) = Q
    BY <1>1, <1>3, DeframeUndoes, Zenon
  <2>2. IF tcp THEN stream = Wire(Q) /\ datagrams = <<>> ELSE datagrams = Q /\ stream = <<>>
    BY Zenon DEF Sending
  <2> QED BY <2>1, <2>2, Zenon DEF Packets
<1>5. DOMAIN Q = 1..Len(Q)
  BY <1>1
<1> QED BY <1>3, <1>4, <1>5, Zenon DEF Arrived

LEMMA InvTypeOK ==
  ASSUME VideoInv
  PROVE  TypeOK
<1>1. Described
  BY DEF VideoInv
<1>2. PICK Z, Q, h : Sending(Z, Q, h)
  BY Zenon DEF VideoInv
<1>3. Len(Z) \in Nat /\ pending \in Seq(Seq(Byte))
  BY <1>1, <1>2, SendingTypes, Zenon
<1>4. rtpSeq \in Nat /\ rtpSeq < Word16
  <2> DEFINE x == FirstSeq + Len(Z)
  <2>1. x \in Nat
    BY <1>3, ParameterFacts
  <2>2. rtpSeq = x % Word16
    BY <1>2, Zenon DEF Sending
  <2> HIDE DEF x
  <2> QED BY <2>1, <2>2, Mod16, Zenon
<1>5. next \in 1..Len(frames)+1 /\ IF tcp THEN datagrams = <<>> ELSE stream = <<>>
  BY <1>2, Zenon DEF Sending
<1>6. ASSUME NEW i \in DOMAIN pending, NEW j \in DOMAIN pending[i] PROVE pending[i][j] \in 0..255
  <2> DEFINE x == pending[i]
  <2>1. x \in Seq(Byte)
    BY <1>3
  <2>2. j \in DOMAIN x
    OBVIOUS
  <2> HIDE DEF x
  <2>3. x[j] \in Byte
    BY <2>1, <2>2
  <2> QED BY <2>3 DEF x, Byte
<1> QED BY <1>4, <1>5, <1>6, Zenon DEF TypeOK

LEMMA InvFragmentsFit ==
  ASSUME VideoInv
  PROVE  FragmentsFit
<1>1. Described
  BY DEF VideoInv
<1>2. PICK Z, Q, h : Sending(Z, Q, h)
  BY Zenon DEF VideoInv
<1> DEFINE M == UnitsOf(next - 1)
           m == next - 1
           a == Arrived
<1>3. M \in Seq(Nal) /\ m \in Nat /\ Built(Z, M, m) /\ Took(Q, h, Z, lost)
  BY <1>1, <1>2, SendingTypes, Zenon DEF Sending
<1>4. a = [i \in 1..Len(Q) |-> Read(Z, h[i])]
  BY <1>1, <1>2, ArrivedAre, Zenon
<1> HIDE DEF M, m, a
<1>5. ASSUME NEW i \in DOMAIN a
      PROVE  Len(a[i].payload) <= Mtu /\ (a[i].payload[1] % 32 = 28 => a[i].payload[2] < 192)
  <2>1. i \in 1..Len(Q) /\ a[i] = Read(Z, h[i])
    BY <1>4, Zenon
  <2> DEFINE k == h[i]
  <2>2. k \in 1..Len(Z)
    BY <1>3, <2>1, Zenon DEF Took
  <2> HIDE DEF k
  <2>3. Fits(Z[k].payload)
    BY <1>3, <2>2, PacketFacts, Zenon
  <2>4. Read(Z, k).payload = Z[k].payload
    BY DEF Read
  <2>5. a[i].payload = Z[k].payload
    BY <2>1, <2>4, Zenon DEF k
  <2> QED BY <2>3, <2>5, Zenon DEF Fits
<1> QED BY <1>5, Zenon DEF FragmentsFit, a

\* Fewer than 2^32 apart, timestamps differ.
LEMMA TimestampsDiffer ==
  ASSUME NEW t \in Nat, NEW x \in Nat, NEW y \in Nat, x # y, x < Word32, y < Word32
  PROVE  (t + x) % Word32 # (t + y) % Word32
<1>1. Word32 = 4294967296
  BY SMT DEF Word32, Word24
<1> QED BY <1>1, SMT

LEMMA InvMarkerEndsFrame ==
  ASSUME VideoInv, Len(frames) < Word32
  PROVE  MarkerEndsFrame
<1>1. Described
  BY DEF VideoInv
<1>2. PICK Z, Q, h : Sending(Z, Q, h)
  BY Zenon DEF VideoInv
<1> DEFINE M == UnitsOf(next - 1)
           m == next - 1
           a == Arrived
           n == Len(Q)
           z == Len(Z)
<1>3. /\ M \in Seq(Nal) /\ m \in Nat /\ Built(Z, M, m) /\ Took(Q, h, Z, lost) /\ n \in Nat /\ z \in Nat
      /\ m \in 0..Len(frames) /\ Len(frames) \in Nat
  BY <1>1, <1>2, SendingTypes, Zenon DEF Sending
<1>4. a = [i \in 1..n |-> Read(Z, h[i])]
  BY <1>1, <1>2, ArrivedAre, Zenon
<1> HIDE DEF M, m, a, n
<1>5. Len(a) = n
  BY <1>3, <1>4
<1>6. ASSUME NEW i \in 1..n-1
      PROVE  /\ a[i].marker => a[i + 1].ts # a[i].ts
             /\ a[i + 1].ts # a[i].ts /\ lost = 0 => a[i].marker
  <2> DEFINE j == h[i]
             k == h[i + 1]
             x == Z[j].frame
             y == Z[k].frame
  <2>1. i \in 1..n /\ i + 1 \in 1..n
    BY <1>3
  <2>2. j \in 1..z /\ k \in 1..z /\ j < k /\ i <= j /\ j <= i + lost /\ i + 1 <= k /\ k <= i + 1 + lost
    BY <1>3, <2>1, Zenon DEF Took, n
  <2>3. a[i] = Read(Z, j) /\ a[i + 1] = Read(Z, k)
    BY <1>4, <2>1, Zenon
  <2>4. /\ a[i].marker = Z[j].last /\ a[i].ts = (FirstTs + x) % Word32 /\ a[i + 1].ts = (FirstTs + y) % Word32
    <3>1. Read(Z, j).marker = Z[j].last /\ Read(Z, j).ts = (FirstTs + x) % Word32 /\ Read(Z, k).ts = (FirstTs + y) % Word32
      <4> HIDE DEF j, k
      <4> QED BY DEF Read
    <3> QED BY <2>3, <3>1, Zenon
  <2> HIDE DEF j, k
  <2>5. x \in Nat /\ y \in Nat
    BY <1>3, <2>2, PacketFacts, Zenon
  <2>6. /\ x <= m /\ y <= m
        /\ \A u, v \in 1..z : u <= v => Z[u].frame <= Z[v].frame
        /\ Z[j].last <=> (j = z \/ Z[j + 1].frame # x)
    BY <1>3, <2>2, Zenon DEF Built
  <2>7. x < Word32 /\ y < Word32
    <3> DEFINE w == Word32
               f == Len(frames)
    <3>1. w \in Nat /\ f < w /\ f \in Nat /\ m \in 0..f
      BY <1>3, WordFacts
    <3> HIDE DEF w, f, x, y
    <3>2. x < w /\ y < w
      BY <1>3, <2>5, <2>6, <3>1
    <3> QED BY <3>2 DEF w
  <2>8. ASSUME Z[j].last PROVE a[i + 1].ts # a[i].ts
    <3>1. j # z /\ j + 1 \in 1..z /\ j <= j + 1 /\ j + 1 <= k
      BY <1>3, <2>2
    <3> DEFINE v == Z[j + 1].frame
    <3>2. v # x /\ x <= v /\ v <= y
      BY <2>2, <2>6, <2>8, <3>1, Zenon
    <3>3. v \in Nat
      <4> DEFINE q == j + 1
      <4>1. q \in 1..z
        BY <3>1
      <4> HIDE DEF q
      <4>2. Z[q].frame \in Nat
        BY <1>3, <4>1, PacketFacts, Zenon
      <4> QED BY <4>2 DEF q
    <3> HIDE DEF x, y, v
    <3>4. x # y
      BY <2>5, <3>2, <3>3
    <3>5. (FirstTs + x) % Word32 # (FirstTs + y) % Word32
      BY <2>5, <2>7, <3>4, ParameterFacts, TimestampsDiffer, Zenon
    <3> QED BY <2>4, <3>5, Zenon
  <2>9. ASSUME a[i + 1].ts # a[i].ts, lost = 0 PROVE Z[j].last
    <3>1. j = i /\ k = j + 1
      BY <1>3, <2>2, <2>9
    <3>2. x # y
      BY <2>4, <2>9, Zenon
    <3> QED BY <2>6, <3>1, <3>2, Zenon
  <2> QED BY <2>4, <2>8, <2>9, Zenon
<1> QED BY <1>5, <1>6, Zenon DEF MarkerEndsFrame, a

\* rtp_seq_ stays a 16-bit value and packets consist of bytes, and nothing arrives
\* on the transport that SETUP did not choose.
THEOREM VideoTypeCorrect == Spec => []TypeOK
<1>1. VideoInv => TypeOK
  BY InvTypeOK
<1> QED BY <1>1, VideoInvariant, PTL

\* packetize keeps to every payload limit above two bytes, and no fragment is both
\* the first and the last of its unit.
THEOREM FragmentsKeepToMtu == Spec => []FragmentsFit
<1>1. VideoInv => FragmentsFit
  BY InvFragmentsFit
<1> QED BY <1>1, VideoInvariant, PTL

\* The marker that pacerTick computes ends access units, whatever is lost.  The
\* premise, fewer than 2^32 frames, is four years of video at 30 frames a second:
\* with more a timestamp returns.
THEOREM MarkerEndsAccessUnit ==
  ASSUME \A s \in Streams : Len(s) < Word32
  PROVE  Spec => []MarkerEndsFrame
<1>1. VideoInv => MarkerEndsFrame
  <2> SUFFICES ASSUME VideoInv PROVE MarkerEndsFrame
    OBVIOUS
  <2>1. Len(frames) < Word32
    BY DEF VideoInv, Described
  <2> QED BY <2>1, InvMarkerEndsFrame
<1> QED BY <1>1, VideoInvariant, PTL

-----------------------------------------------------------------------------
(* The player puts the fragments together again.                           *)

\* What the player holds of a unit after its first q packets, q fewer than all.
Held(nal, q) == IF q = 0 THEN <<>> ELSE Partial(nal, q)

\* The part that counts for a packet.
Kept(r, pkt) == IF pkt.seq = (r.seq + 1) % Word16 THEN r.part ELSE <<>>

\* One more packet of a unit, at a player that holds all of it so far or nothing.
Takes(r, pkt, t, nal, q) ==
  /\ t.seq = pkt.seq
  /\ q < Len(packetize(nal)) =>
       /\ t.nals = r.nals /\ t.part \in {<<>>, Held(nal, q)}
       /\ Kept(r, pkt) = Held(nal, q - 1) => t.part = Held(nal, q)
  /\ q = Len(packetize(nal)) =>
       /\ t.part = <<>> /\ t.nals \in {r.nals, Append(r.nals, nal)}
       /\ Kept(r, pkt) = Held(nal, q - 1) => t.nals = Append(r.nals, nal)

LEMMA DeliverTakes ==
  ASSUME NEW nal \in Nal, NEW q \in 1..Len(packetize(nal)), NEW r, NEW pkt,
         pkt.payload = packetize(nal)[q], Kept(r, pkt) \in {<<>>, Held(nal, q - 1)}
  PROVE  Takes(r, pkt, Deliver(r, pkt), nal, q)
<1> DEFINE part == Kept(r, pkt)
           pl == pkt.payload
           new == Joined(part, pl)
           t == Deliver(r, pkt)
           u == [seq |-> pkt.seq, nals |-> Append(r.nals, pl), part |-> <<>>]
           v == [seq |-> pkt.seq, nals |-> Append(r.nals, new), part |-> <<>>]
           w == [seq |-> pkt.seq, nals |-> r.nals, part |-> new]
<1>1. t = IF pl[1] % 32 # 28 THEN u ELSE IF pl[2] % 128 >= 64 /\ new # <<>> THEN v ELSE w
  BY Zenon DEF Deliver, Kept
<1>2. u.seq = pkt.seq /\ u.nals = Append(r.nals, pl) /\ u.part = <<>>
  <2> HIDE DEF pl
  <2> QED OBVIOUS
<1>3. v.seq = pkt.seq /\ v.nals = Append(r.nals, new) /\ v.part = <<>>
  <2> HIDE DEF new
  <2> QED OBVIOUS
<1>4. w.seq = pkt.seq /\ w.nals = r.nals /\ w.part = new
  <2> HIDE DEF new
  <2> QED OBVIOUS
<1>5. CASE Len(nal) <= Mtu
  <2>1. packetize(nal) = <<nal>>
    BY <1>5, PacketizeFacts, Zenon
  <2>2. Len(packetize(nal)) = 1 /\ q = 1 /\ ~(q < Len(packetize(nal))) /\ pl = nal
    BY <2>1
  <2>3. pl[1] % 32 # 28
    BY <2>2, NalFacts, Zenon DEF NalType
  <2>4. t = u
    BY <1>1, <2>3, Zenon
  <2> HIDE DEF u, t, pl
  <2> QED BY <1>2, <2>2, <2>4, Zenon DEF Takes, t
<1>6. CASE ~(Len(nal) <= Mtu)
  <2> DEFINE c == Cut(nal)
  <2>1. Len(nal) > Mtu /\ Len(packetize(nal)) = c /\ q \in 1..c /\ pl = Fragment(nal, q)
    BY <1>6, PacketizeFacts, Zenon
  <2>2. c \in Nat /\ c >= 2
    BY <2>1, CutFacts
  <2> HIDE DEF pl
  <2>3. /\ pl[1] % 32 = 28
        /\ pl[2] % 128 >= 64 <=> q = c
        /\ q = 1 => \A x : Joined(x, pl) = Partial(nal, 1)
        /\ q # 1 => Joined(<<>>, pl) = <<>>
        /\ q # 1 => Joined(Partial(nal, q - 1), pl) = Partial(nal, q)
        /\ Partial(nal, q) # <<>>
        /\ q = c => Partial(nal, q) = nal
    <3> DEFINE x == Fragment(nal, q)
    <3>1. x = Fragment(nal, q) /\ q \in 1..Cut(nal)
      BY <2>1
    <3> HIDE DEF x
    <3>2. /\ x[1] % 32 = 28
          /\ x[2] % 128 >= 64 <=> q = Cut(nal)
          /\ q = 1 => \A y : Joined(y, x) = Partial(nal, 1)
          /\ q # 1 => Joined(<<>>, x) = <<>>
          /\ q # 1 => Joined(Partial(nal, q - 1), x) = Partial(nal, q)
          /\ Partial(nal, q) # <<>>
          /\ q = Cut(nal) => Partial(nal, q) = nal
      BY <2>1, <3>1, FragmentFacts
    <3> QED BY <2>1, <3>1, <3>2, Zenon
  <2>4. q \in Nat /\ q # 0 /\ (q - 1 = 0 <=> q = 1) /\ (q < c <=> q # c)
    BY <2>1, <2>2
  <2>5. Held(nal, q) = Partial(nal, q) /\ (q = 1 => Held(nal, q - 1) = <<>>)
        /\ (q # 1 => Held(nal, q - 1) = Partial(nal, q - 1))
    BY <2>4, Zenon DEF Held
  <2>6. new \in {<<>>, Held(nal, q)} /\ (part = Held(nal, q - 1) => new = Held(nal, q))
    <3> HIDE DEF part
    <3>1. part \in {<<>>, Held(nal, q - 1)}
      BY DEF part
    <3>2. CASE q = 1
      BY <2>3, <2>5, <3>2, Zenon
    <3>3. CASE q # 1
      <4>1. CASE part = <<>>
        <5>1. new = <<>>
          BY <2>3, <3>3, <4>1, Zenon
        <5>2. CASE part = Held(nal, q - 1)
          BY <2>3, <2>5, <3>3, <5>2, Zenon
        <5> QED BY <5>1, <5>2, Zenon
      <4>2. CASE part = Held(nal, q - 1)
        BY <2>3, <2>5, <3>3, <4>2, Zenon
      <4> QED BY <3>1, <4>1, <4>2, Zenon
    <3> QED BY <3>2, <3>3, Zenon
  <2> HIDE DEF u, v, w, t, new, part, c
  <2>7. CASE q # c
    <3>1. t = w
      BY <1>1, <2>3, <2>7, Zenon
    <3> QED BY <1>4, <2>1, <2>4, <2>6, <2>7, <3>1, Zenon DEF Takes, t, part
  <2>8. CASE q = c
    <3>1. CASE new = <<>>
      <4>1. t = w
        BY <1>1, <2>3, <3>1, Zenon
      <4>2. part # Held(nal, q - 1)
        BY <2>3, <2>5, <2>6, <3>1, Zenon
      <4> QED BY <1>4, <2>1, <2>4, <2>8, <3>1, <4>1, <4>2, Zenon DEF Takes, t, part
    <3>2. CASE new # <<>>
      <4>1. t = v /\ new = nal
        BY <1>1, <2>3, <2>5, <2>6, <2>8, <3>2, Zenon
      <4> QED BY <1>3, <2>1, <2>4, <2>8, <4>1, Zenon DEF Takes, t
    <3> QED BY <3>1, <3>2
  <2> QED BY <2>7, <2>8
<1> QED BY <1>5, <1>6

\* After k packets d units are complete and q packets of the next one are there.
Stands(s, k, d, q) ==
  /\ d \in 0..Len(s) /\ q \in Nat /\ k = EndAt(s, d) + q
  /\ d = Len(s) => q = 0
  /\ d < Len(s) => q < Len(s[d + 1])

LEMMA StandsSomewhere ==
  ASSUME NEW S, NEW s \in Seq(Seq(S)), NEW k \in 0..Len(FlattenSeq(s))
  PROVE  \E d, q : Stands(s, k, d, q)
<1> DEFINE m == Len(s)
           l == Len(FlattenSeq(s))
<1>1. m \in Nat /\ l \in Nat /\ EndAt(s, m) = l
  BY JoinEnds, LenProperties
<1>2. CASE k = l
  <2>1. m \in 0..m /\ ~(m < m) /\ k = EndAt(s, m) + 0
    BY <1>1, <1>2
  <2> QED BY <2>1, Zenon DEF Stands
<1>3. CASE k # l
  <2>1. k + 1 \in 1..l
    BY <1>1, <1>3
  <2>2. PICK j \in 1..m : \E i \in 1..Len(s[j]) : k + 1 = EndAt(s, j - 1) + i
    <3> DEFINE x == k + 1
    <3>1. x \in 1..l
      BY <2>1
    <3> HIDE DEF x
    <3>2. \E j \in 1..m : \E i \in 1..Len(s[j]) : x = EndAt(s, j - 1) + i
      BY <3>1, JoinPlace
    <3> QED BY <3>2, Zenon DEF x
  <2>3. PICK i \in 1..Len(s[j]) : k + 1 = EndAt(s, j - 1) + i
    BY <2>2
  <2> DEFINE d == j - 1
             q == i - 1
  <2>4. d \in 0..m /\ d < m /\ d # m /\ d + 1 = j
    BY <1>1
  <2>5. Len(s[j]) \in Nat
    BY ElementOfSeq, LenProperties
  <2>6. EndAt(s, d) \in Nat
    BY <2>4, JoinEnds, Zenon
  <2>7. q \in Nat /\ q < Len(s[j]) /\ k = EndAt(s, d) + q
    <3> DEFINE e == EndAt(s, d)
               y == Len(s[j])
    <3>1. e \in Nat /\ y \in Nat /\ i \in 1..y /\ k + 1 = e + i
      BY <2>3, <2>5, <2>6
    <3> HIDE DEF e, y
    <3>2. q \in Nat /\ q < y /\ k = e + q
      BY <1>1, <3>1
    <3> QED BY <3>2, Zenon DEF e, y
  <2> HIDE DEF d, q
  <2>8. Stands(s, k, d, q)
    BY <2>4, <2>7, Zenon DEF Stands
  <2> QED BY <2>8
<1> QED BY <1>2, <1>3

\* Where the next packet belongs, and where k + 1 stands then.
LEMMA StandsNext ==
  ASSUME NEW S, NEW s \in Seq(Seq(S)), \A j \in 1..Len(s) : Len(s[j]) > 0,
         NEW k \in Nat, k < Len(FlattenSeq(s)), NEW d, NEW q, Stands(s, k, d, q)
  PROVE  /\ d + 1 \in 1..Len(s) /\ d \in 0..Len(s) /\ d \in Nat /\ q \in Nat
         /\ q + 1 \in 1..Len(s[d + 1]) /\ Len(s[d + 1]) \in Nat
         /\ FlattenSeq(s)[k + 1] = s[d + 1][q + 1]
         /\ q + 1 < Len(s[d + 1]) => Stands(s, k + 1, d, q + 1)
         /\ q + 1 = Len(s[d + 1]) => Stands(s, k + 1, d + 1, 0)
<1> DEFINE m == Len(s)
           l == Len(FlattenSeq(s))
           e == EndAt(s, d)
           j == d + 1
           y == Len(s[j])
<1>1. m \in Nat /\ l \in Nat /\ EndAt(s, m) = l
  BY JoinEnds, LenProperties
<1>2. d \in 0..m /\ q \in Nat /\ k = e + q /\ (d = m => q = 0) /\ (d < m => q < y)
  BY Zenon DEF Stands
<1>3. e \in Nat
  BY <1>2, JoinEnds, Zenon
<1>4. d # m
  <2> SUFFICES ASSUME d = m PROVE FALSE
    OBVIOUS
  <2>1. e = l /\ q = 0
    BY <1>1, <1>2, Zenon
  <2> HIDE DEF e, l
  <2> QED BY <1>1, <1>2, <2>1 DEF l
<1>5. j \in 1..m /\ d < m /\ d \in Nat /\ j - 1 = d /\ j \in 0..m
  BY <1>1, <1>2, <1>4
<1>6. y \in Nat /\ q < y
  BY <1>2, <1>5, ElementOfSeq, LenProperties
<1>7. q + 1 \in 1..y
  <2> HIDE DEF y
  <2> QED BY <1>2, <1>6
<1>8. FlattenSeq(s)[k + 1] = s[j][q + 1]
  <2> DEFINE i == q + 1
  <2>1. i \in 1..Len(s[j])
    BY <1>7
  <2> HIDE DEF i, j
  <2>2. FlattenSeq(s)[EndAt(s, j - 1) + i] = s[j][i]
    BY <1>5, <2>1, JoinAt
  <2>3. k + 1 = EndAt(s, j - 1) + i
    <3> HIDE DEF e
    <3>1. k + 1 = e + i
      BY <1>2, <1>3 DEF i
    <3> QED BY <1>5, <3>1, Zenon DEF e
  <2> QED BY <2>2, <2>3, Zenon DEF i
<1>9. ASSUME q + 1 < y PROVE Stands(s, k + 1, d, q + 1)
  <2>1. k + 1 = e + (q + 1) /\ q + 1 \in Nat
    <3> HIDE DEF e
    <3> QED BY <1>2, <1>3
  <2> QED BY <1>2, <1>4, <1>9, <2>1, Zenon DEF Stands
<1>10. ASSUME q + 1 = y PROVE Stands(s, k + 1, j, 0)
  <2>1. EndAt(s, j) = e + y
    <3> HIDE DEF j
    <3>1. EndAt(s, j) = EndAt(s, j - 1) + Len(s[j])
      BY <1>5, JoinEnds
    <3> QED BY <1>5, <3>1, Zenon DEF j
  <2>2. k + 1 = EndAt(s, j) + 0
    <3> DEFINE g == EndAt(s, j)
    <3>1. g = e + y
      BY <2>1
    <3> HIDE DEF e, y, g
    <3>2. k + 1 = g + 0
      BY <1>2, <1>3, <1>6, <1>10, <3>1
    <3> QED BY <3>2 DEF g
  <2>3. ASSUME j < m PROVE 0 < Len(s[j + 1])
    <3>1. j + 1 \in 1..m
      BY <1>1, <1>5, <2>3
    <3> DEFINE x == Len(s[j + 1])
    <3>2. x > 0 /\ x \in Nat
      BY <3>1, ElementOfSeq, LenProperties
    <3> HIDE DEF x
    <3>3. 0 < x
      BY <3>2
    <3> QED BY <3>3 DEF x
  <2>4. 0 \in Nat
    OBVIOUS
  <2> HIDE DEF j
  <2> QED BY <1>5, <2>2, <2>3, <2>4, Zenon DEF Stands
<1> QED BY <1>2, <1>5, <1>6, <1>7, <1>8, <1>9, <1>10, Zenon

\* Units do not become incomplete, and in the end all are complete.
LEMMA StandsLater ==
  ASSUME NEW S, NEW s \in Seq(Seq(S)), NEW j \in Nat, NEW k \in Nat, j <= k,
         NEW c, NEW p, Stands(s, j, c, p), NEW d, NEW q, Stands(s, k, d, q)
  PROVE  c <= d
<1> SUFFICES ASSUME ~(c <= d) PROVE FALSE
  OBVIOUS
<1> DEFINE m == Len(s)
           x == d + 1
           y == Len(s[x])
           e == EndAt(s, d)
           g == EndAt(s, c)
           f == EndAt(s, x)
<1>1. m \in Nat
  OBVIOUS
<1>2. d \in 0..m /\ q \in Nat /\ k = e + q /\ (d < m => q < y)
  BY Zenon DEF Stands
<1>3. c \in 0..m /\ p \in Nat /\ j = g + p
  BY Zenon DEF Stands
<1>4. d < m /\ x \in 1..m /\ x \in 0..m /\ c \in x..m /\ x - 1 = d
  BY <1>1, <1>2, <1>3
<1>5. f <= g
  <2> HIDE DEF x
  <2> QED BY <1>4, JoinMonotone
<1>6. f = e + y
  <2> HIDE DEF x
  <2>1. EndAt(s, x) = EndAt(s, x - 1) + Len(s[x])
    BY <1>4, JoinEnds
  <2> QED BY <1>4, <2>1, Zenon DEF x
<1>7. e \in Nat /\ g \in Nat
  BY <1>2, <1>3, JoinEnds, Zenon
<1>8. y \in Nat
  BY <1>4, ElementOfSeq, LenProperties
<1>9. q < y
  BY <1>2, <1>4, Zenon
<1> HIDE DEF e, f, g, y
<1> QED BY <1>2, <1>3, <1>5, <1>6, <1>7, <1>8, <1>9

LEMMA StandsAtEnds ==
  ASSUME NEW S, NEW s \in Seq(Seq(S)), NEW d, NEW q
  PROVE  /\ Stands(s, Len(FlattenSeq(s)), d, q) => d = Len(s)
         /\ Stands(s, 0, d, q) => q = 0
         /\ (\A j \in 1..Len(s) : Len(s[j]) > 0) => Stands(s, 0, 0, 0)
<1> DEFINE m == Len(s)
           l == Len(FlattenSeq(s))
<1>1. m \in Nat /\ l \in Nat /\ EndAt(s, m) = l /\ EndAt(s, 0) = 0
  BY JoinEnds, LenProperties
<1>2. ASSUME Stands(s, l, d, q) PROVE d = m
  <2>1. l = EndAt(s, m) + 0 /\ m \in 0..m /\ 0 \in Nat /\ ~(m < m) /\ l <= l
    BY <1>1
  <2> HIDE DEF l, m
  <2>2. Stands(s, l, m, 0)
    BY <2>1, Zenon DEF Stands, m
  <2>3. m <= d
    BY <1>1, <1>2, <2>1, <2>2, StandsLater, Zenon
  <2>4. d \in 0..m
    BY <1>2, Zenon DEF Stands, m
  <2> QED BY <1>1, <2>3, <2>4
<1>3. ASSUME Stands(s, 0, d, q) PROVE q = 0
  <2> DEFINE e == EndAt(s, d)
  <2>1. d \in 0..m /\ q \in Nat /\ 0 = e + q
    BY <1>3, Zenon DEF Stands
  <2>2. e \in Nat
    BY <2>1, JoinEnds, Zenon
  <2> HIDE DEF e
  <2> QED BY <2>1, <2>2
<1>4. ASSUME \A j \in 1..m : Len(s[j]) > 0 PROVE Stands(s, 0, 0, 0)
  <2>1. 0 \in 0..m /\ 0 \in Nat /\ 0 = EndAt(s, 0) + 0
    BY <1>1
  <2>2. ASSUME 0 < m PROVE 0 < Len(s[0 + 1])
    <3>1. 0 + 1 \in 1..m
      BY <1>1, <2>2
    <3> DEFINE x == Len(s[0 + 1])
    <3>2. x > 0 /\ x \in Nat
      BY <1>4, <3>1, ElementOfSeq, LenProperties
    <3> HIDE DEF x
    <3>3. 0 < x
      BY <3>2
    <3> QED BY <3>3 DEF x
  <2> QED BY <2>1, <2>2, Zenon DEF Stands
<1> QED BY <1>2, <1>3, <1>4, Zenon

\* s consists of elements of the first n of t, in their order.
Picked(s, t, n) ==
  \E e : /\ \A i \in 1..Len(s) : e[i] \in 1..n /\ t[e[i]] = s[i]
         /\ \A i, j \in 1..Len(s) : i < j => e[i] < e[j]

LEMMA PickedEmpty == \A t, n : Picked(<<>>, t, n)
<1> TAKE t, n
<1>1. Len(<<>>) = 0 /\ ~\E i : i \in 1..0
  OBVIOUS
<1>2. ~\E i : i \in 1..Len(<<>>)
  BY <1>1, Zenon
<1> QED BY <1>2, Zenon DEF Picked

LEMMA PickedLater ==
  ASSUME NEW s, NEW t, NEW n \in Nat, NEW m \in Nat, n <= m, Picked(s, t, n)
  PROVE  Picked(s, t, m)
<1>1. \A x \in 1..n : x \in 1..m
  OBVIOUS
<1> QED BY <1>1, Zenon DEF Picked

LEMMA PickedMore ==
  ASSUME NEW S, NEW s \in Seq(S), NEW x \in S, NEW t, NEW n \in Nat, Picked(s, t, n), t[n + 1] = x
  PROVE  Picked(Append(s, x), t, n + 1)
<1> DEFINE u == Append(s, x)
           l == Len(s)
           m == n + 1
<1>1. PICK e : /\ \A i \in 1..l : e[i] \in 1..n /\ t[e[i]] = s[i]
               /\ \A i, j \in 1..l : i < j => e[i] < e[j]
  BY Zenon DEF Picked
<1>2. l \in Nat /\ Len(u) = l + 1 /\ u[l + 1] = x /\ \A i \in 1..l : u[i] = s[i]
  BY AppendProperties, LenProperties
<1> DEFINE f == [i \in 1..l+1 |-> IF i = l + 1 THEN m ELSE e[i]]
<1> HIDE DEF u, l, m
<1>3. f[l + 1] = m /\ \A i \in 1..l : f[i] = e[i]
  <2>1. l + 1 \in 1..l+1 /\ \A i \in 1..l : i \in 1..l+1 /\ i # l + 1
    BY <1>2
  <2> QED BY <2>1, Zenon
<1>4. m \in 1..m /\ (\A k \in 1..n : k \in 1..m /\ k < m) /\ t[m] = x
  <2>1. m \in 1..m /\ \A k \in 1..n : k \in 1..m /\ k < m
    BY DEF m
  <2> QED BY <2>1, Zenon DEF m
<1> HIDE DEF f
<1>5. ASSUME NEW i \in 1..l+1 PROVE f[i] \in 1..m /\ t[f[i]] = u[i]
  <2>1. CASE i = l + 1
    BY <1>2, <1>3, <1>4, <2>1, Zenon
  <2>2. CASE i # l + 1
    <3>1. i \in 1..l
      BY <1>2, <2>2
    <3> QED BY <1>1, <1>2, <1>3, <1>4, <3>1, Zenon
  <2> QED BY <2>1, <2>2
<1>6. ASSUME NEW i \in 1..l+1, NEW j \in 1..l+1, i < j PROVE f[i] < f[j]
  <2>0. i \in 1..l
    BY <1>2, <1>6
  <2>1. CASE j = l + 1
    BY <1>1, <1>3, <1>4, <2>0, <2>1, Zenon
  <2>2. CASE j # l + 1
    <3>1. j \in 1..l
      BY <1>2, <2>2
    <3> QED BY <1>1, <1>3, <1>6, <2>0, <3>1, Zenon
  <2> QED BY <2>1, <2>2
<1>7. Picked(u, t, m)
  BY <1>2, <1>5, <1>6, Zenon DEF Picked
<1> QED BY <1>7 DEF u, m

\* Subsequence looks for each element as early as it can, so it finds them all.
LaterAt(s, t, x, i) == {j \in x + 1 .. Len(t) : t[j] = s[i]}
SeekAt(s, t, x, i) == IF LaterAt(s, t, x, i) = {} THEN Len(t) + 1 ELSE Min(LaterAt(s, t, x, i))
SeekTurn(f, s, t, i) == IF i = 0 THEN 0 ELSE SeekAt(s, t, f[i - 1], i)
Seeks(f, s, t, n) == f = [i \in 0 .. n |-> SeekTurn(f, s, t, i)]

LEMMA SeekExists ==
  ASSUME NEW s, NEW t, NEW n \in Nat
  PROVE  \E f : Seeks(f, s, t, n)
<1> DEFINE T == {m \in Nat : ~\E f : Seeks(f, s, t, m)}
<1> SUFFICES ASSUME T # {} PROVE FALSE
  BY Zenon
<1>1. PICK m \in T : \A k \in T : m <= k
  BY Smallest
<1>2. m \in Nat /\ ~\E f : Seeks(f, s, t, m)
  OBVIOUS
<1>3. CASE m = 0
  <2> DEFINE f == [i \in 0..m |-> 0]
  <2>1. \A i \in 0..m : i = 0
    BY <1>3
  <2>2. \A i \in 0..m : SeekTurn(f, s, t, i) = 0
    BY <2>1, Zenon DEF SeekTurn
  <2>3. Seeks(f, s, t, m)
    BY <2>2, Zenon DEF Seeks
  <2> QED BY <1>2, <2>3, Zenon
<1>4. CASE m # 0
  <2>1. m - 1 \in Nat /\ ~(m <= m - 1)
    BY <1>2, <1>4
  <2>2. PICK f : Seeks(f, s, t, m - 1)
    BY <1>1, <2>1, Zenon
  <2> DEFINE g == [i \in 0..m |-> IF i = m THEN SeekTurn(f, s, t, m) ELSE f[i]]
  <2>3. \A i \in 0..m : (i # m => i \in 0..m-1) /\ (i # 0 => i - 1 \in 0..m /\ i - 1 # m)
    BY <1>2, <1>4
  <2>4. \A i \in 0..m : SeekTurn(g, s, t, i) = SeekTurn(f, s, t, i)
    <3> TAKE i \in 0..m
    <3>1. i # 0 => g[i - 1] = f[i - 1]
      BY <2>3, Zenon
    <3> HIDE DEF g
    <3>2. CASE i = 0
      BY <3>2, Zenon DEF SeekTurn
    <3>3. CASE i # 0
      BY <3>1, <3>3, Zenon DEF SeekTurn
    <3> QED BY <3>2, <3>3
  <2>5. \A i \in 0..m-1 : f[i] = SeekTurn(f, s, t, i)
    BY <2>2, Zenon DEF Seeks
  <2>6. \A i \in 0..m : g[i] = SeekTurn(g, s, t, i)
    BY <2>3, <2>4, <2>5, Zenon
  <2>7. Seeks(g, s, t, m)
    BY <2>6, Zenon DEF Seeks
  <2> QED BY <1>2, <2>7, Zenon
<1> QED BY <1>3, <1>4

LEMMA PickedIsSubsequence ==
  ASSUME NEW S, NEW s \in Seq(S), NEW t \in Seq(S), Picked(s, t, Len(t))
  PROVE  Subsequence(s, t)
<1> DEFINE l == Len(s)
           m == Len(t)
<1>0. l \in Nat /\ m \in Nat
  OBVIOUS
<1>1. PICK e : /\ \A i \in 1..l : e[i] \in 1..m /\ t[e[i]] = s[i]
               /\ \A i, j \in 1..l : i < j => e[i] < e[j]
  BY Zenon DEF Picked
<1> DEFINE f == CHOOSE f : Seeks(f, s, t, l)
<1>2. Seeks(f, s, t, l)
  BY <1>0, SeekExists, Zenon
<1>3. Subsequence(s, t) = (f[l] <= m)
  BY Zenon DEF Subsequence, Seeks, SeekTurn, SeekAt, LaterAt
<1> HIDE DEF f
<1>4. \A i \in 0..l : f[i] = SeekTurn(f, s, t, i)
  BY <1>2, Zenon DEF Seeks
<1> DEFINE Early(i) == f[i] \in Nat /\ f[i] <= m /\ (i # 0 => f[i] <= e[i])
           T == {i \in 0..l : ~Early(i)}
<1>5. ASSUME T # {} PROVE FALSE
  <2>1. PICK k \in T : \A i \in T : k <= i
    <3>1. T \subseteq Nat
      OBVIOUS
    <3> HIDE DEF T
    <3> QED BY <1>5, <3>1, Smallest
  <2>2. k \in 0..l /\ ~Early(k)
    OBVIOUS
  <2>3. f[k] = SeekTurn(f, s, t, k)
    BY <1>4, <2>2, Zenon
  <2>4. k # 0
    <3> SUFFICES ASSUME k = 0 PROVE FALSE
      OBVIOUS
    <3>1. f[k] = 0
      BY <2>3, Zenon DEF SeekTurn
    <3>2. 0 \in Nat /\ 0 <= m
      BY <1>0
    <3> QED BY <2>2, <3>1, <3>2, Zenon
  <2> DEFINE x == f[k - 1]
             L == LaterAt(s, t, x, k)
             y == e[k]
  <2>5. k \in 1..l /\ k - 1 \in 0..l /\ ~(k <= k - 1) /\ (k - 1 # 0 => k - 1 \in 1..l /\ k - 1 < k)
    BY <1>0, <2>2, <2>4
  <2>6. Early(k - 1)
    <3> HIDE DEF Early
    <3> QED BY <2>1, <2>5, Zenon DEF T
  <2>7. f[k] = SeekAt(s, t, x, k)
    BY <2>3, <2>4, Zenon DEF SeekTurn
  <2>8. y \in 1..m /\ t[y] = s[k]
    BY <1>1, <2>5, Zenon
  <2>9. x \in Nat /\ x < y
    <3>1. CASE k - 1 = 0
      <4>1. 0 \in 0..l /\ k - 1 = 0
        BY <1>0, <3>1
      <4>2. x = 0
        BY <1>4, <4>1, Zenon DEF SeekTurn
      <4> HIDE DEF x, y
      <4> QED BY <1>0, <2>8, <4>2
    <3>2. CASE k - 1 # 0
      <4> DEFINE z == e[k - 1]
      <4>1. z < y /\ z \in 1..m /\ x <= z /\ x \in Nat
        BY <1>1, <2>5, <2>6, <3>2, Zenon
      <4> HIDE DEF x, y, z
      <4> QED BY <1>0, <2>8, <4>1
    <3> QED BY <3>1, <3>2
  <2> HIDE DEF x
  <2>10. y \in L
    <3>1. y \in x+1..m
      <4> HIDE DEF y
      <4> QED BY <1>0, <2>8, <2>9
    <3> QED BY <2>8, <3>1, Zenon DEF LaterAt
  <2>11. f[k] = Min(L) /\ L # {}
    BY <2>7, <2>10, Zenon DEF SeekAt
  <2>12. L \subseteq Nat
    <3>1. \A j \in x+1..m : j \in Nat
      BY <1>0, <2>9
    <3> QED BY <3>1, Zenon DEF LaterAt
  <2> HIDE DEF L, y
  <2>13. PICK z \in L : \A j \in L : z <= j
    BY <2>11, <2>12, Smallest
  <2>14. Min(L) \in L /\ \A j \in L : Min(L) <= j
    <3>1. Min(L) = CHOOSE w \in L : \A j \in L : w <= j
      BY DEF Min
    <3> QED BY <2>13, <3>1, Zenon
  <2>15. f[k] \in Nat /\ f[k] <= y
    BY <2>10, <2>11, <2>12, <2>14, Zenon
  <2>16. f[k] <= m
    <3> DEFINE w == f[k]
    <3> HIDE DEF w
    <3>1. w <= m
      BY <1>0, <2>8, <2>15 DEF w
    <3> QED BY <3>1 DEF w
  <2> QED BY <2>2, <2>15, <2>16, Zenon DEF y
<1>6. l \in 0..l
  BY <1>0
<1>7. f[l] <= m
  BY <1>5, <1>6, Zenon
<1> QED BY <1>3, <1>7, Zenon

\* The player's loop has a value.
PlayTurn(f, a, i) == IF i = 0 THEN Start ELSE Deliver(f[i - 1], a[i])
Plays(f, a, n) == f = [i \in 0 .. n |-> PlayTurn(f, a, i)]

LEMMA PlayExists ==
  ASSUME NEW a, NEW n \in Nat
  PROVE  \E f : Plays(f, a, n)
<1> DEFINE T == {m \in Nat : ~\E f : Plays(f, a, m)}
<1> SUFFICES ASSUME T # {} PROVE FALSE
  BY Zenon
<1>1. PICK m \in T : \A k \in T : m <= k
  BY Smallest
<1>2. m \in Nat /\ ~\E f : Plays(f, a, m)
  OBVIOUS
<1>3. CASE m = 0
  <2> DEFINE f == [i \in 0..m |-> Start]
  <2>1. \A i \in 0..m : i = 0
    BY <1>3
  <2>2. \A i \in 0..m : PlayTurn(f, a, i) = Start
    BY <2>1, Zenon DEF PlayTurn
  <2>3. Plays(f, a, m)
    BY <2>2, Zenon DEF Plays
  <2> QED BY <1>2, <2>3, Zenon
<1>4. CASE m # 0
  <2>1. m - 1 \in Nat /\ ~(m <= m - 1)
    BY <1>2, <1>4
  <2>2. PICK f : Plays(f, a, m - 1)
    BY <1>1, <2>1, Zenon
  <2> DEFINE g == [i \in 0..m |-> IF i = m THEN PlayTurn(f, a, m) ELSE f[i]]
  <2>3. \A i \in 0..m : (i # m => i \in 0..m-1) /\ (i # 0 => i - 1 \in 0..m /\ i - 1 # m)
    BY <1>2, <1>4
  <2>4. \A i \in 0..m : PlayTurn(g, a, i) = PlayTurn(f, a, i)
    <3> TAKE i \in 0..m
    <3>1. i # 0 => g[i - 1] = f[i - 1]
      BY <2>3, Zenon
    <3> HIDE DEF g
    <3>2. CASE i = 0
      BY <3>2, Zenon DEF PlayTurn
    <3>3. CASE i # 0
      BY <3>1, <3>3, Zenon DEF PlayTurn
    <3> QED BY <3>2, <3>3
  <2>5. \A i \in 0..m-1 : f[i] = PlayTurn(f, a, i)
    BY <2>2, Zenon DEF Plays
  <2>6. \A i \in 0..m : g[i] = PlayTurn(g, a, i)
    BY <2>3, <2>4, <2>5, Zenon
  <2>7. Plays(g, a, m)
    BY <2>6, Zenon DEF Plays
  <2> QED BY <1>2, <2>7, Zenon
<1> QED BY <1>3, <1>4

LEMMA PlayerValue ==
  ASSUME NEW a, Len(a) \in Nat
  PROVE  \E f : Plays(f, a, Len(a)) /\ Player(a) = f[Len(a)]
<1> DEFINE f == CHOOSE f : Plays(f, a, Len(a))
<1>1. Plays(f, a, Len(a))
  BY PlayExists, Zenon
<1>2. Player(a) = f[Len(a)]
  BY Zenon DEF Player, Plays, PlayTurn
<1> QED BY <1>1, <1>2, Zenon

\* The first d elements and the next one.
LEMMA TakeOneMore ==
  ASSUME NEW S, NEW s \in Seq(S), NEW d \in 0..Len(s)-1
  PROVE  /\ SubSeq(s, 1, d) \in Seq(S) /\ Append(SubSeq(s, 1, d), s[d + 1]) = SubSeq(s, 1, d + 1)
         /\ SubSeq(s, 1, 0) = <<>> /\ SubSeq(s, 1, Len(s)) = s
<1>1. Len(s) \in Nat /\ d \in Nat /\ d + 1 \in 1..Len(s)
  OBVIOUS
<1> DEFINE u == SubSeq(s, 1, d)
           v == SubSeq(s, 1, d + 1)
           w == Append(u, s[d + 1])
<1>2. s[d + 1] \in S
  BY <1>1, ElementOfSeq
<1>3. u \in Seq(S) /\ Len(u) = d /\ \A i \in 1..d : u[i] = s[i]
  BY <1>1
<1>4. v \in Seq(S) /\ Len(v) = d + 1 /\ \A i \in 1..d+1 : v[i] = s[i]
  BY <1>1
<1>5. SubSeq(s, 1, 0) = <<>> /\ SubSeq(s, 1, Len(s)) = s
  BY <1>1
<1> HIDE DEF u, v
<1>6. w \in Seq(S) /\ Len(w) = d + 1 /\ (\A i \in 1..d : w[i] = u[i]) /\ w[d + 1] = s[d + 1]
  BY <1>1, <1>2, <1>3, AppendProperties
<1> HIDE DEF w
<1>7. \A i \in 1..d+1 : w[i] = v[i]
  <2> TAKE i \in 1..d+1
  <2>1. CASE i = d + 1
    BY <1>4, <1>6, <2>1, Zenon
  <2>2. CASE i # d + 1
    <3>1. i \in 1..d
      BY <1>1, <2>2
    <3> QED BY <1>3, <1>4, <1>6, <3>1, Zenon
  <2> QED BY <2>1, <2>2
<1>8. w = v
  BY <1>4, <1>6, <1>7, SeqEqual
<1> QED BY <1>3, <1>5, <1>8, Zenon DEF u, v, w

\* The player after packet k: of the d units complete then it has some, in order,
\* and of the unit that packet k leaves open it holds all there is or nothing ...
Following(r, M, k, d, q) ==
  /\ Stands(Mapped(pktz, M), k, d, q)
  /\ k # 0 => r.seq = (FirstSeq + k - 1) % Word16
  /\ r.nals \in Seq(Nal) /\ Picked(r.nals, M, d)
  /\ r.part \in {<<>>, Held(M[d + 1], q)}

\* ... and when nothing was lost it has and holds everything.
Complete(r, M, d, q) == r.nals = SubSeq(M, 1, d) /\ r.part = Held(M[d + 1], q)

\* Packet x after packet k: the sequence numbers tell whether one is missing.
LEMMA NotMultiple ==
  ASSUME NEW i \in Nat, i > 0, i < Word16
  PROVE  i % Word16 # 0
BY SMT DEF Word16

LEMMA GapSeen ==
  ASSUME NEW f \in Nat, NEW k \in Nat \ {0}, NEW x \in Nat, k < x, x - k <= Word16
  PROVE  ((f + x - 1) % Word16 = (((f + k - 1) % Word16) + 1) % Word16) <=> x = k + 1
<1> DEFINE y == f + k
           z == f + x - 1
           e == f + k - 1
           w == Word16
<1>0. w \in Nat
  BY SMT DEF Word16
<1>1. y \in Nat /\ z \in Nat /\ e \in Nat /\ e + 1 = y /\ 1 \in Nat
  OBVIOUS
<1>2. z - y = x - k - 1 /\ (y = z <=> x = k + 1)
  OBVIOUS
<1> HIDE DEF y, z, e
<1>3. ((e % Word16) + 1) % Word16 = y % Word16
  BY <1>1, Mod16, Zenon
<1>4. ASSUME x # k + 1 PROVE z % w # y % w
  <2> DEFINE i == z - y
  <2> HIDE DEF w
  <2>1. i \in Nat /\ i > 0 /\ i < w
    BY <1>0, <1>1, <1>2, <1>4 DEF w
  <2> HIDE DEF i
  <2>2. i % w # 0
    BY <2>1, NotMultiple, Zenon DEF w
  <2> QED BY <1>1, <2>2, Mod16, Zenon DEF i, w
<1>5. (z % w = y % w) <=> x = k + 1
  BY <1>2, <1>4, Zenon
<1> QED BY <1>3, <1>5, Zenon DEF y, z, e

LEMMA Unfragmented ==
  ASSUME NEW M \in Seq(Nal), NEW s, s = Mapped(pktz, M)
  PROVE  /\ s \in Seq(Seq(Seq(Byte))) /\ Len(s) = Len(M) /\ PacketsOf(M) = FlattenSeq(s)
         /\ \A n \in 1..Len(s) : s[n] = packetize(M[n]) /\ M[n] \in Nal /\ Len(s[n]) > 0 /\ Len(s[n]) \in Nat
<1>1. /\ Mapped(pktz, M) \in Seq(Seq(Seq(Byte))) /\ Len(Mapped(pktz, M)) = Len(M)
      /\ \A n \in 1..Len(M) : Mapped(pktz, M)[n] = packetize(M[n]) /\ M[n] \in Nal
  BY PacketsFacts, Zenon
<1>2. ASSUME NEW n \in 1..Len(M) PROVE Len(s[n]) > 0 /\ Len(s[n]) \in Nat
  <2> DEFINE y == Len(s[n])
  <2>1. y \in Nat \ {0}
    BY <1>1, PacketizeFacts, Zenon
  <2> HIDE DEF y
  <2>2. y > 0 /\ y \in Nat
    BY <2>1
  <2> QED BY <2>2 DEF y
<1> QED BY <1>1, <1>2, Zenon DEF PacketsOf

\* Packet k + 1 is the next one of the unit that packet k leaves open.
NextIs(s, k, d, q) == FlattenSeq(s)[k + 1] = s[d + 1][q + 1]

LEMMA StandsThere ==
  ASSUME NEW S, NEW s \in Seq(Seq(S)), \A j \in 1..Len(s) : Len(s[j]) > 0,
         NEW k \in Nat, k < Len(FlattenSeq(s)), NEW d, NEW q, Stands(s, k, d, q)
  PROVE  NextIs(s, k, d, q)
BY StandsNext DEF NextIs

LEMMA FollowStep ==
  ASSUME NEW M \in Seq(Nal), NEW n, NEW Z, Built(Z, M, n),
         NEW k \in Nat, NEW x \in 1..Len(Z), k < x, x - k <= Word16,
         NEW r, NEW d, NEW q, Following(r, M, k, d, q), NEW t, t = Deliver(r, Read(Z, x))
  PROVE  \E c, p : /\ Following(t, M, x, c, p)
                   /\ x = k + 1 /\ Complete(r, M, d, q) => Complete(t, M, c, p)
<1> DEFINE s == Mapped(pktz, M)
           W == Seq(Byte)
           y == x - 1
           z == Len(Z)
           pkt == Read(Z, x)
           m == Len(s)
<1>1. /\ s \in Seq(Seq(W)) /\ m = Len(M) /\ PacketsOf(M) = FlattenSeq(s)
      /\ \A i \in 1..m : s[i] = packetize(M[i]) /\ M[i] \in Nal /\ Len(s[i]) > 0 /\ Len(s[i]) \in Nat
  BY Unfragmented, Zenon
<1>2. Z \in Seq(Sent) /\ z = Len(FlattenSeq(s)) /\ Z[x].payload = FlattenSeq(s)[x]
  BY <1>1, Zenon DEF Built
<1>3. z \in Nat /\ y \in Nat /\ y \in 0..z /\ y < z /\ y + 1 = x /\ k <= y
  BY <1>2, LenProperties
<1>4. /\ Stands(s, k, d, q) /\ (k # 0 => r.seq = (FirstSeq + k - 1) % Word16)
      /\ r.nals \in Seq(Nal) /\ Picked(r.nals, M, d) /\ r.part \in {<<>>, Held(M[d + 1], q)}
  BY Zenon DEF Following
<1>5. pkt.seq = (FirstSeq + x - 1) % Word16 /\ pkt.payload = Z[x].payload
  BY DEF Read
<1> HIDE DEF s, W, y, pkt
<1>6. d \in Nat
  <2>1. d \in 0..m /\ m \in Nat
    BY <1>1, <1>4, LenProperties, Zenon DEF Stands
  <2> HIDE DEF m
  <2> QED BY <2>1
<1>7. \E c, p : Stands(s, y, c, p) /\ (x = k + 1 => c = d /\ p = q)
  <2>1. CASE x = k + 1
    <3>1. y = k
      BY <1>3, <2>1
    <3> QED BY <1>4, <3>1, Zenon
  <2>2. CASE x # k + 1
    <3>1. \E c, p : Stands(s, y, c, p)
      BY <1>1, <1>2, <1>3, StandsSomewhere, Zenon
    <3> QED BY <2>2, <3>1, Zenon
  <2> QED BY <2>1, <2>2
<1>8. PICK c, p : Stands(s, y, c, p) /\ (x = k + 1 => c = d /\ p = q)
  BY <1>7, Zenon
<1> DEFINE u == M[c + 1]
           l == Len(s[c + 1])
<1>9. /\ c + 1 \in 1..m /\ c \in 0..m /\ c \in Nat /\ p \in Nat /\ p + 1 \in 1..l /\ l \in Nat
      /\ FlattenSeq(s)[y + 1] = s[c + 1][p + 1]
      /\ p + 1 < l => Stands(s, y + 1, c, p + 1)
      /\ p + 1 = l => Stands(s, y + 1, c + 1, 0)
  <2>1. y < Len(FlattenSeq(s))
    BY <1>2, <1>3, Zenon
  <2>2. \A j \in 1..Len(s) : Len(s[j]) > 0
    BY <1>1, Zenon
  <2>3. s \in Seq(Seq(W)) /\ Stands(s, y, c, p)
    BY <1>1, <1>8, Zenon
  <2> HIDE DEF s, W, y, z, pkt
  <2>4. /\ c + 1 \in 1..Len(s) /\ c \in 0..Len(s) /\ c \in Nat /\ p \in Nat
        /\ p + 1 \in 1..Len(s[c + 1]) /\ Len(s[c + 1]) \in Nat
    BY <1>3, <2>1, <2>2, <2>3, StandsNext
  <2>5. FlattenSeq(s)[y + 1] = s[c + 1][p + 1]
    <3>1. NextIs(s, y, c, p)
      BY <1>3, <2>1, <2>2, <2>3, StandsThere, Zenon
    <3> QED BY <3>1, Zenon DEF NextIs
  <2>6. p + 1 < Len(s[c + 1]) => Stands(s, y + 1, c, p + 1)
    BY <1>3, <2>1, <2>2, <2>3, StandsNext, Zenon
  <2>7. p + 1 = Len(s[c + 1]) => Stands(s, y + 1, c + 1, 0)
    BY <1>3, <2>1, <2>2, <2>3, StandsNext, Zenon
  <2> QED BY <2>4, <2>5, <2>6, <2>7, Zenon
<1>10. d <= c
  BY <1>1, <1>3, <1>4, <1>8, StandsLater, Zenon
<1>11. u \in Nal /\ l = Len(packetize(u)) /\ pkt.payload = packetize(u)[p + 1]
  <2>1. s[c + 1] = packetize(u) /\ u \in Nal
    BY <1>1, <1>9, Zenon
  <2> QED BY <1>2, <1>3, <1>5, <1>9, <2>1, Zenon
<1>12. /\ Kept(r, pkt) \in {<<>>, Held(u, p)}
       /\ x = k + 1 /\ r.part = Held(M[d + 1], q) => Kept(r, pkt) = Held(u, p)
  <2>1. CASE k = 0
    <3>1. q = 0
      BY <1>1, <1>4, <2>1, StandsAtEnds, Zenon
    <3>2. Held(M[d + 1], q) = <<>>
      BY <3>1, Zenon DEF Held
    <3>3. Kept(r, pkt) = <<>>
      BY <1>4, <3>2, Zenon DEF Kept
    <3>4. x = k + 1 => Held(u, p) = <<>>
      BY <1>8, <3>2, Zenon
    <3> QED BY <3>3, <3>4, Zenon
  <2>2. CASE k # 0
    <3>1. FirstSeq \in Nat
      BY ParameterFacts
    <3>2. k \in Nat \ {0} /\ x \in Nat
      BY <1>3, <2>2
    <3>3. (pkt.seq = (r.seq + 1) % Word16) <=> x = k + 1
      <4>1. ((FirstSeq + x - 1) % Word16 = (((FirstSeq + k - 1) % Word16) + 1) % Word16) <=> x = k + 1
        BY <3>1, <3>2, GapSeen, Zenon
      <4> QED BY <1>4, <1>5, <2>2, <4>1, Zenon
    <3>4. CASE x = k + 1
      BY <1>4, <1>8, <3>3, <3>4, Zenon DEF Kept
    <3>5. CASE x # k + 1
      BY <3>3, <3>5, Zenon DEF Kept
    <3> QED BY <3>4, <3>5
  <2> QED BY <2>1, <2>2
<1> DEFINE g == p + 1
<1>13. g - 1 = p /\ g \in 1..l
  BY <1>9
<1> HIDE DEF u, l, g, m
<1>14. Takes(r, pkt, t, u, g)
  <2>1. t = Deliver(r, pkt)
    BY DEF pkt
  <2>2. g \in 1..Len(packetize(u)) /\ pkt.payload = packetize(u)[g] /\ Kept(r, pkt) \in {<<>>, Held(u, g - 1)}
    BY <1>11, <1>12, <1>13, Zenon DEF g
  <2>3. Takes(r, pkt, Deliver(r, pkt), u, g)
    BY <1>11, <2>2, DeliverTakes, Zenon
  <2> QED BY <2>1, <2>3, Zenon
<1>15. t.seq = (FirstSeq + x - 1) % Word16
  BY <1>5, <1>14, Zenon DEF Takes
<1>16. CASE g < l
  <2>1. /\ t.nals = r.nals /\ t.part \in {<<>>, Held(u, g)}
        /\ Kept(r, pkt) = Held(u, p) => t.part = Held(u, g)
    BY <1>11, <1>13, <1>14, <1>16, Zenon DEF Takes
  <2>2. Picked(t.nals, M, c)
    BY <1>4, <1>6, <1>9, <1>10, <2>1, PickedLater, Zenon
  <2>3. Stands(s, x, c, g)
    BY <1>3, <1>9, <1>16, Zenon DEF g
  <2>4. Following(t, M, x, c, g)
    BY <1>4, <1>15, <2>1, <2>2, <2>3, Zenon DEF Following, u, s
  <2>5. x = k + 1 /\ Complete(r, M, d, q) => Complete(t, M, c, g)
    BY <1>8, <1>12, <2>1, Zenon DEF Complete, u
  <2> QED BY <2>4, <2>5, Zenon
<1>17. CASE ~(g < l)
  <2>0. g = l
    BY <1>9, <1>13, <1>17
  <2>1. /\ t.part = <<>> /\ t.nals \in {r.nals, Append(r.nals, u)}
        /\ Kept(r, pkt) = Held(u, p) => t.nals = Append(r.nals, u)
    BY <1>11, <1>13, <1>14, <2>0, Zenon DEF Takes
  <2> DEFINE v == c + 1
  <2>2. v \in Nat /\ d <= v
    BY <1>6, <1>9, <1>10
  <2>3. t.nals \in Seq(Nal) /\ Picked(t.nals, M, v)
    <3>1. CASE t.nals = r.nals
      <4> HIDE DEF v
      <4> QED BY <1>4, <1>6, <2>2, <3>1, PickedLater, Zenon
    <3>2. CASE t.nals = Append(r.nals, u)
      <4>1. Picked(r.nals, M, c)
        BY <1>4, <1>6, <1>9, <1>10, PickedLater, Zenon
      <4>2. Picked(Append(r.nals, u), M, c + 1)
        <5>1. M[c + 1] = u
          BY DEF u
        <5> DEFINE N == r.nals
        <5>2. N \in Seq(Nal) /\ Picked(N, M, c)
          BY <1>4, <4>1, Zenon
        <5> HIDE DEF N
        <5>3. Picked(Append(N, u), M, c + 1)
          BY <1>9, <1>11, <5>1, <5>2, PickedMore, Zenon
        <5> QED BY <5>3 DEF N
      <4>3. Append(r.nals, u) \in Seq(Nal)
        BY <1>4, <1>11, AppendProperties
      <4> QED BY <3>2, <4>2, <4>3, Zenon
    <3> QED BY <2>1, <3>1, <3>2, Zenon
  <2>4. Stands(s, x, v, 0)
    BY <1>3, <1>9, <2>0, Zenon DEF g
  <2>5. \A w : Held(w, 0) = <<>>
    BY Zenon DEF Held
  <2>6. Following(t, M, x, v, 0)
    <3> HIDE DEF v
    <3> QED BY <1>15, <2>1, <2>3, <2>4, <2>5, Zenon DEF Following, s
  <2>7. ASSUME x = k + 1, Complete(r, M, d, q) PROVE Complete(t, M, v, 0)
    <3>1. t.nals = Append(SubSeq(M, 1, c), u)
      BY <1>8, <1>12, <2>1, <2>7, Zenon DEF Complete
    <3>2. c \in 0..Len(M)-1
      BY <1>1, <1>9
    <3>3. Append(SubSeq(M, 1, c), M[c + 1]) = SubSeq(M, 1, c + 1)
      BY <3>2, TakeOneMore
    <3>4. t.nals = SubSeq(M, 1, v)
      BY <3>1, <3>3, Zenon DEF u
    <3> HIDE DEF v
    <3> QED BY <2>1, <2>5, <3>4, Zenon DEF Complete
  <2> HIDE DEF v
  <2> QED BY <2>6, <2>7, Zenon
<1> QED BY <1>16, <1>17

\* The packet that arrived i-th, 0 before the first.
Reached(h, i) == IF i = 0 THEN 0 ELSE h[i]

LEMMA Followed ==
  ASSUME NEW M \in Seq(Nal), NEW n, NEW Z, Built(Z, M, n), NEW Q, NEW h, NEW l \in Nat, l < Word16,
         Took(Q, h, Z, l), NEW a, a = [i \in 1..Len(Q) |-> Read(Z, h[i])], NEW f, Plays(f, a, Len(Q)),
         NEW i \in 0..Len(Q)
  PROVE  \E d, q : Following(f[i], M, Reached(h, i), d, q) /\ (l = 0 => Complete(f[i], M, d, q))
<1> DEFINE F(j) == \E d, q : Following(f[j], M, Reached(h, j), d, q) /\ (l = 0 => Complete(f[j], M, d, q))
           T == {j \in 0..Len(Q) : ~F(j)}
           o == Len(Q)
           z == Len(Z)
<1>1. o \in Nat /\ z \in Nat /\ Word16 \in Nat
  <2>1. Q \in Seq(Seq(Byte)) /\ Z \in Seq(Sent)
    BY Zenon DEF Took, Built
  <2> QED BY <2>1, LenProperties, ParameterFacts
<1>2. \A j \in 0..o : f[j] = PlayTurn(f, a, j)
  BY Zenon DEF Plays
<1>3. /\ \A j \in 1..o : h[j] \in 1..z /\ j <= h[j] /\ h[j] <= j + l
      /\ \A j \in 1..o-1 : h[j] < h[j + 1]
  BY Zenon DEF Took
<1>4. F(0)
  <2> DEFINE s == Mapped(pktz, M)
             W == Seq(Byte)
  <2>1. s \in Seq(Seq(W)) /\ \A j \in 1..Len(s) : Len(s[j]) > 0
    BY Unfragmented, Zenon
  <2>2. Stands(s, 0, 0, 0)
    <3> HIDE DEF s, W
    <3> QED BY <2>1, StandsAtEnds, Zenon
  <2>3. 0 \in 0..o /\ Reached(h, 0) = 0
    BY <1>1 DEF Reached
  <2>4. f[0] = Start
    BY <1>2, <2>3, Zenon DEF PlayTurn
  <2>5. Start.nals = <<>> /\ Start.part = <<>>
    BY DEF Start
  <2>6. \A w : Held(w, 0) = <<>>
    BY Zenon DEF Held
  <2>7. <<>> \in Seq(Nal) /\ SubSeq(M, 1, 0) = <<>>
    OBVIOUS
  <2>8. Following(f[0], M, Reached(h, 0), 0, 0)
    BY <2>2, <2>3, <2>4, <2>5, <2>6, <2>7, PickedEmpty, Zenon DEF Following
  <2>9. Complete(f[0], M, 0, 0)
    BY <2>4, <2>5, <2>6, <2>7, Zenon DEF Complete
  <2> QED BY <2>8, <2>9, Zenon
<1>5. ASSUME T # {} PROVE FALSE
  <2>1. PICK j \in T : \A b \in T : j <= b
    <3>1. T \subseteq Nat
      OBVIOUS
    <3> HIDE DEF T
    <3> QED BY <1>5, <3>1, Smallest
  <2>2. j \in 0..o /\ ~F(j)
    BY Zenon
  <2> HIDE DEF F
  <2>3. j # 0
    BY <1>4, <2>2, Zenon
  <2> DEFINE b == j - 1
             k == Reached(h, b)
             x == h[j]
  <2>4. b \in 0..o /\ ~(j <= b) /\ j \in 1..o /\ (b # 0 => b \in 1..o-1 /\ b \in 1..o /\ b + 1 = j)
    BY <1>1, <2>2, <2>3
  <2>5. F(b)
    BY <2>1, <2>4, Zenon DEF T
  <2>6. PICK d, q : Following(f[b], M, k, d, q) /\ (l = 0 => Complete(f[b], M, d, q))
    BY <2>5, Zenon DEF F
  <2>7. x \in 1..z /\ j <= x /\ x <= j + l
    BY <1>3, <2>4, Zenon
  <2>8. k \in Nat /\ b <= k /\ k <= b + l /\ k < x
    <3>1. CASE b = 0
      <4>1. k = 0
        BY <3>1, Zenon DEF Reached
      <4> HIDE DEF k, x
      <4> QED BY <1>1, <2>7, <3>1, <4>1
    <3>2. CASE b # 0
      <4> DEFINE g == h[b]
      <4>1. k = g /\ g \in 1..z /\ b <= g /\ g <= b + l /\ g < x
        BY <1>3, <2>4, <3>2, Zenon DEF Reached
      <4> HIDE DEF k, x, g
      <4> QED BY <1>1, <4>1
    <3> QED BY <3>1, <3>2
  <2> HIDE DEF k, x
  <2>9. x - k <= Word16 /\ (l = 0 => x = k + 1)
    <3> DEFINE w == Word16
    <3>1. w \in Nat /\ l < w
      BY <1>1
    <3> HIDE DEF w
    <3>2. x - k <= w /\ (l = 0 => x = k + 1)
      BY <1>1, <2>4, <2>7, <2>8, <3>1
    <3> QED BY <3>2 DEF w
  <2>10. f[j] = Deliver(f[b], Read(Z, x))
    <3>1. f[j] = Deliver(f[b], a[j])
      BY <1>2, <2>2, <2>3, Zenon DEF PlayTurn
    <3>2. a[j] = Read(Z, x)
      BY <2>4, Zenon DEF x
    <3> QED BY <3>1, <3>2, Zenon
  <2> DEFINE r == f[b]
             t == f[j]
  <2>11. Following(r, M, k, d, q) /\ t = Deliver(r, Read(Z, x)) /\ x \in 1..Len(Z)
    BY <2>6, <2>7, <2>10, Zenon
  <2> HIDE DEF r, t
  <2>12. \E c, p : Following(t, M, x, c, p) /\ (x = k + 1 /\ Complete(r, M, d, q) => Complete(t, M, c, p))
    BY <2>8, <2>9, <2>11, FollowStep
  <2>13. Reached(h, j) = x
    BY <2>3, Zenon DEF Reached, x
  <2>14. F(j)
    BY <2>6, <2>9, <2>12, <2>13, Zenon DEF F, r, t
  <2> QED BY <2>2, <2>14
<1>6. F(i)
  BY <1>5, Zenon
<1> QED BY <1>6

LEMMA InvStreamReassembles ==
  ASSUME VideoInv, MaxLost < Word16
  PROVE  StreamReassembles
<1>1. Described
  BY DEF VideoInv
<1>2. PICK Z, Q, h : Sending(Z, Q, h)
  BY Zenon DEF VideoInv
<1> DEFINE M == UnitsOf(next - 1)
           m == next - 1
           a == Arrived
           n == Len(Q)
           z == Len(Z)
           s == Mapped(pktz, M)
           W == Seq(Byte)
<1>3. /\ M \in Seq(Nal) /\ m \in Nat /\ Built(Z, M, m) /\ Took(Q, h, Z, lost) /\ n \in Nat /\ z \in Nat
      /\ lost \in Nat /\ Len(pending) \in Nat /\ n + lost + Len(pending) = z
  BY <1>1, <1>2, SendingTypes, Zenon DEF Sending
<1>4. a = [i \in 1..n |-> Read(Z, h[i])]
  BY <1>1, <1>2, ArrivedAre, Zenon
<1>5. M = FlattenSeq([i \in 1..next-1 |-> Meant(frames[i])])
  BY DEF UnitsOf
<1> HIDE DEF M, m, a, n, z
<1>6. Len(a) = n
  BY <1>3, <1>4
<1>7. lost < Word16
  <2> DEFINE w == Word16
  <2>1. lost \in 0..MaxLost /\ MaxLost < w /\ w \in Nat /\ MaxLost \in Nat
    BY <1>2, ParameterFacts, Zenon DEF Sending
  <2> HIDE DEF w
  <2>2. lost < w
    BY <2>1
  <2> QED BY <2>2 DEF w
<1>8. PICK f : Plays(f, a, n) /\ Player(a) = f[n]
  <2>1. \E f : Plays(f, a, Len(a)) /\ Player(a) = f[Len(a)]
    BY <1>3, <1>6, PlayerValue, Zenon
  <2> QED BY <1>6, <2>1, Zenon
<1>9. n \in 0..n
  BY <1>3
<1>10. PICK d, q : Following(f[n], M, Reached(h, n), d, q) /\ (lost = 0 => Complete(f[n], M, d, q))
  <2>1. a = [i \in 1..Len(Q) |-> Read(Z, h[i])] /\ Plays(f, a, Len(Q)) /\ n \in 0..Len(Q)
    BY <1>4, <1>8, <1>9, Zenon DEF n
  <2> QED BY <1>3, <1>7, <2>1, Followed, Zenon
<1>11. Rebuilt = f[n].nals
  BY <1>8, Zenon DEF Rebuilt, a
<1>12. s \in Seq(Seq(W)) /\ Len(s) = Len(M) /\ PacketsOf(M) = FlattenSeq(s) /\ Len(M) \in Nat
  <2>1. Len(M) \in Nat
    BY <1>3
  <2> QED BY <1>3, <2>1, Unfragmented, Zenon
<1> DEFINE g == f[n].nals
<1>13. Stands(s, Reached(h, n), d, q) /\ g \in Seq(Nal) /\ Picked(g, M, d)
  BY <1>10, Zenon DEF Following
<1> HIDE DEF s, W, g
<1>14. d \in Nat /\ d <= Len(M)
  <2>1. d \in 0..Len(M)
    BY <1>12, <1>13, Zenon DEF Stands
  <2> QED BY <1>12, <2>1
<1>15. Subsequence(g, M)
  <2>1. Picked(g, M, Len(M))
    BY <1>12, <1>13, <1>14, PickedLater, Zenon
  <2> QED BY <1>3, <1>13, <2>1, PickedIsSubsequence, Zenon
<1>16. ASSUME lost = 0, pending = <<>> PROVE g = M
  <2>1. Len(pending) = 0
    BY <1>16
  <2>2. n = z
    BY <1>3, <1>16, <2>1
  <2>3. Reached(h, n) = z
    <3>1. CASE n = 0
      BY <2>2, <3>1, Zenon DEF Reached
    <3>2. CASE n # 0
      <4>1. n \in 1..n
        BY <1>3, <3>2
      <4>2. h[n] \in 1..z /\ n <= h[n] /\ h[n] <= n + lost
        BY <1>3, <4>1, Zenon DEF Took, n, z
      <4> DEFINE x == h[n]
      <4> HIDE DEF x
      <4>3. x = z
        BY <1>3, <1>16, <2>2, <4>2 DEF x
      <4> QED BY <3>2, <4>3, Zenon DEF Reached, x
    <3> QED BY <3>1, <3>2
  <2>4. z = Len(FlattenSeq(s))
    BY <1>3, <1>12, Zenon DEF Built, z
  <2>5. d = Len(s)
    BY <1>12, <1>13, <2>3, <2>4, StandsAtEnds, Zenon
  <2>6. g = SubSeq(M, 1, Len(M))
    BY <1>10, <1>12, <1>16, <2>5, Zenon DEF Complete, g
  <2>7. SubSeq(M, 1, Len(M)) = M
    BY <1>3, <1>12
  <2> QED BY <2>6, <2>7, Zenon
<1> QED BY <1>5, <1>11, <1>15, <1>16, Zenon DEF StreamReassembles, g

\* Splitting, fragmentation, RTP and interleaved framing are undone by any player
\* that follows the RFCs, over UDP and TCP and for every payload limit, stream and
\* first sequence number: without loss it rebuilds exactly the NAL units of the
\* frames, and after any loss only units that were sent.  The premise is sharp: when
\* 2^16 packets in a row are lost, the sequence number hides the gap.
THEOREM StreamIsReassembled ==
  ASSUME MaxLost < Word16
  PROVE  Spec => []StreamReassembles
<1>1. VideoInv => StreamReassembles
  BY InvStreamReassembles
<1> QED BY <1>1, VideoInvariant, PTL
=============================================================================

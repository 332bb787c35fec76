---------------------------- MODULE ReceiveProofs ----------------------------
(***************************************************************************)
(* The framing of a client's messages, for every set of messages, every    *)
(* number of them, every limit and every way in which TCP cuts the stream. *)
(***************************************************************************)
EXTENDS Receive, SequenceLemmas

-----------------------------------------------------------------------------
(* One message in a buffer.                                                *)

RequestType == [id : Nat, body : Seq(CellType)]

\* The first cell of some kinds, from i to j.
LEMMA FirstFacts ==
  ASSUME NEW buf, NEW i \in Nat \ {0}, NEW j \in Nat, NEW kinds
  PROVE  \/ FirstAt(buf, i, j, kinds) = 0 /\ \A k \in i..j : buf[k].k \notin kinds
         \/ /\ FirstAt(buf, i, j, kinds) \in i..j /\ buf[FirstAt(buf, i, j, kinds)].k \in kinds
            /\ \A k \in i..j : buf[k].k \in kinds => FirstAt(buf, i, j, kinds) <= k
<1> DEFINE I == {k \in i..j : buf[k].k \in kinds}
<1>1. FirstAt(buf, i, j, kinds) = IF I # {} THEN Min(I) ELSE 0
  BY DEF FirstAt, SelectInSubSeq
<1>2. CASE I = {}
  BY <1>1, <1>2
<1>3. CASE I # {}
  <2>1. I \subseteq Nat
    OBVIOUS
  <2>2. \E m \in I : \A k \in I : m <= k
    BY <1>3, <2>1, Smallest
  <2>3. Min(I) \in I /\ \A k \in I : Min(I) <= k
    <3> HIDE DEF I
    <3> QED BY <2>2 DEF Min
  <2> QED BY <1>1, <1>3, <2>3
<1> QED BY <1>2, <1>3

\* The last cell of some kinds, up to j.
LEMMA LastFacts ==
  ASSUME NEW buf, NEW j \in Nat, NEW kinds
  PROVE  \/ LastAt(buf, j, kinds) = 0 /\ \A k \in 1..j : buf[k].k \notin kinds
         \/ /\ LastAt(buf, j, kinds) \in 1..j /\ buf[LastAt(buf, j, kinds)].k \in kinds
            /\ \A k \in 1..j : buf[k].k \in kinds => k <= LastAt(buf, j, kinds)
<1> DEFINE I == {k \in 1..j : buf[k].k \in kinds}
<1>1. LastAt(buf, j, kinds) = IF I # {} THEN Max(I) ELSE 0
  BY DEF LastAt, SelectLastInSubSeq
<1>2. CASE I = {}
  BY <1>1, <1>2
<1>3. CASE I # {}
  <2>1. I \subseteq 0..j /\ \A k \in I : k \in Nat
    OBVIOUS
  <2>2. \E m \in I : \A k \in I : k <= m
    BY <1>3, <2>1, Largest
  <2>3. Max(I) \in I /\ \A k \in I : Max(I) >= k
    <3> HIDE DEF I
    <3>1. \E m \in I : \A k \in I : m >= k
      BY <2>1, <2>2
    <3> QED BY <3>1 DEF Max
  <2>4. Max(I) \in 1..j /\ buf[Max(I)].k \in kinds
    BY <2>3
  <2>5. \A k \in 1..j : buf[k].k \in kinds => k <= Max(I)
    <3> SUFFICES ASSUME NEW k \in 1..j, buf[k].k \in kinds PROVE k <= Max(I)
      OBVIOUS
    <3>1. Max(I) >= k
      BY <2>3
    <3> HIDE DEF I
    <3> QED BY <2>4, <3>1
  <2> QED BY <1>1, <1>3, <2>4, <2>5
<1> QED BY <1>2, <1>3

LEMMA CellFacts ==
  ASSUME NEW buf \in Seq(CellType), NEW i \in 1..Len(buf)
  PROVE  buf[i] \in CellType /\ buf[i].v \in Nat
<1>1. buf[i] \in CellType
  BY ElementOfSeq
<1> QED BY <1>1 DEF CellType

\* Sums of sizes: they wrap, and those below the modulus do not.
LEMMA SizeFacts ==
  /\ SizeMod \in Nat \ {0}
  /\ \A x \in Nat : x % SizeMod \in Nat /\ (x < SizeMod => x % SizeMod = x)
<1>1. SizeMod \in Nat \ {0}
  BY ReceiveAssumption
<1>2. ASSUME NEW x \in Nat, NEW m \in Nat \ {0} PROVE x % m \in Nat /\ (x < m => x % m = x)
  OBVIOUS
<1> QED BY <1>1, <1>2

LEMMA StoulFacts ==
  ASSUME NEW buf \in Seq(CellType), NEW at, at = 0 \/ at \in 1..Len(buf)
  PROVE  /\ stoul(buf, at) \in Nat /\ (at = 0 => stoul(buf, at) = 0)
         /\ at # 0 /\ buf[at].v < SizeMod => stoul(buf, at) = buf[at].v
<1>1. at # 0 => buf[at].v \in Nat
  BY CellFacts
<1> QED BY <1>1 DEF stoul

LEMMA BodyLengthType ==
  ASSUME NEW buf \in Seq(CellType), NEW i \in Nat \ {0}, NEW end \in 0..Len(buf)
  PROVE  bodyLength(buf, i, end) \in Nat
<1> DEFINE g == FirstAt(buf, i, end, {"length"})
           h == FirstAt(buf, i, end, {"lower"})
           at == IF g # 0 THEN g ELSE h
<1>0. Len(buf) \in Nat /\ end \in Nat
  BY LenProperties
<1>1. (g = 0 \/ g \in i..end) /\ (h = 0 \/ h \in i..end)
  BY <1>0, FirstFacts
<1>2. bodyLength(buf, i, end) = stoul(buf, at)
  BY DEF bodyLength
<1> HIDE DEF g, h
<1>3. at = 0 \/ at \in 1..Len(buf)
  BY <1>0, <1>1
<1> HIDE DEF at
<1> QED BY <1>2, <1>3, StoulFacts

LEMMA FullSizeType ==
  ASSUME NEW buf \in Seq(CellType), NEW i \in 1..Len(buf), NEW end \in i..Len(buf)
  PROVE  fullSize(buf, i, end) \in Nat
<1>1. Len(buf) \in Nat /\ i \in Nat \ {0} /\ end \in 0..Len(buf)
  BY LenProperties
<1> DEFINE b == bodyLength(buf, i, end)
           x == (end - i + 1) + b
<1>2. b \in Nat
  BY <1>1, BodyLengthType
<1> HIDE DEF b
<1>3. x \in Nat
  BY <1>1, <1>2
<1> HIDE DEF x
<1> QED BY <1>3, SizeFacts DEF fullSize, x, b

LEMMA ByteFacts ==
  ASSUME NEW buf \in Seq(CellType), NEW i \in 1..Len(buf), NEW j \in 1..Len(buf)
  PROVE  256 * Byte(buf[i]) + Byte(buf[j]) \in Nat
<1>1. buf[i].v \in Nat /\ buf[j].v \in Nat
  BY CellFacts
<1>2. \A x \in Nat : x % 256 \in Nat
  OBVIOUS
<1>3. Byte(buf[i]) \in Nat /\ Byte(buf[j]) \in Nat
  BY <1>1, <1>2 DEF Byte
<1>4. \A x, y \in Nat : 256 * x + y \in Nat
  OBVIOUS
<1> QED BY <1>3, <1>4, Zenon

\* The loop goes on at or after i, and within the buffer.
LEMMA AfterType ==
  ASSUME NEW buf \in Seq(CellType), NEW i \in 1..Len(buf)+1
  PROVE  after(buf, i) \in i..Len(buf)+1
<1> DEFINE left == Len(buf) - i + 1
           plen == 256 * Byte(buf[i + 2]) + Byte(buf[i + 3])
           end  == FirstAt(buf, i, Len(buf), {"blank"})
           size == fullSize(buf, i, end)
<1>0. Len(buf) \in Nat /\ i \in Nat \ {0} /\ left \in Nat
  OBVIOUS
<1>1. after(buf, i) = IF left = 0 THEN i
                      ELSE IF buf[i].k = "dollar"
                           THEN IF left < 4 \/ left < 4 + plen THEN i ELSE i + 4 + plen
                      ELSE IF end = 0 \/ left < size THEN i ELSE i + size
  BY DEF after
<1>2. left >= 4 => plen \in Nat
  <2> SUFFICES ASSUME left >= 4 PROVE plen \in Nat
    OBVIOUS
  <2>1. i + 2 \in 1..Len(buf) /\ i + 3 \in 1..Len(buf)
    BY <1>0
  <2> QED BY <2>1, ByteFacts
<1>3. end = 0 \/ end \in i..Len(buf)
  BY <1>0, FirstFacts
<1>4. left # 0 /\ end # 0 => size \in Nat
  <2>1. left # 0 => i \in 1..Len(buf)
    BY <1>0
  <2> HIDE DEF end
  <2> QED BY <1>3, <2>1, FullSizeType
<1> HIDE DEF plen, end, size
<1> QED BY <1>0, <1>1, <1>2, <1>3, <1>4

\* parse gives nothing or one request.
LEMMA ParseType ==
  ASSUME NEW raw \in Seq(CellType), raw # <<>>
  PROVE  parse(raw) \in Seq(RequestType)
<1> DEFINE first == FirstAt(raw, 1, Len(raw), Kinds \ {"text", "dollar"})
           blank == FirstAt(raw, 1, Len(raw), {"blank"})
           crlf  == LastAt(raw, Len(raw), Lengths \cup {"blank"})
           pos   == IF blank # 0 THEN blank ELSE crlf - 1
           n     == stoul(raw, LastAt(raw, pos, Lengths))
           top   == Min({pos + n, Len(raw)})
           body  == IF (pos + n) % SizeMod <= Len(raw) THEN SubSeq(raw, pos + 1, top) ELSE <<>>
           r     == [id |-> IF first = 1 THEN raw[1].v ELSE 0, body |-> body]
<1>1. parse(raw) = IF first = 0 \/ crlf = 0 THEN <<>>
                   ELSE IF raw[first].k # "line" THEN <<>> ELSE <<r>>
  BY DEF parse
<1>2. Len(raw) \in Nat /\ 1 \in 1..Len(raw)
  OBVIOUS
<1>3. raw[1].v \in Nat
  BY <1>2, CellFacts
<1>4. (blank = 0 \/ blank \in 1..Len(raw)) /\ (crlf = 0 \/ crlf \in 1..Len(raw))
  BY <1>2, FirstFacts, LastFacts
<1>5. ASSUME crlf # 0 PROVE r \in RequestType
  <2> HIDE DEF first, blank, crlf
  <2>1. pos \in 0..Len(raw)
    BY <1>2, <1>4, <1>5
  <2> HIDE DEF pos
  <2>2. LastAt(raw, pos, Lengths) = 0 \/ LastAt(raw, pos, Lengths) \in 1..Len(raw)
    <3>1. pos \in Nat
      BY <1>2, <2>1
    <3>2. LastAt(raw, pos, Lengths) = 0 \/ LastAt(raw, pos, Lengths) \in 1..pos
      BY <3>1, LastFacts
    <3> QED BY <1>2, <2>1, <3>2
  <2>3. n \in Nat
    BY <2>2, StoulFacts
  <2> HIDE DEF n
  <2>4. top \in pos..Len(raw)
    <3>1. pos + n \in Nat
      BY <1>2, <2>1, <2>3
    <3> DEFINE x == pos + n
               y == Len(raw)
    <3>2. x \in Nat /\ y \in Nat /\ x >= pos /\ y >= pos /\ pos \in Nat
      BY <1>2, <2>1, <2>3
    <3> HIDE DEF x, y
    <3>3. Min({x, y}) \in {x, y} /\ \A k \in {x, y} : Min({x, y}) <= k
      <4>1. \E m \in {x, y} : \A k \in {x, y} : m <= k
        BY <3>2
      <4> QED BY <4>1 DEF Min
    <3>4. Min({x, y}) \in pos..y
      BY <3>2, <3>3
    <3> QED BY <3>4 DEF x, y
  <2> HIDE DEF top
  <2>5. SubSeq(raw, pos + 1, top) \in Seq(CellType)
    <3> DEFINE a == pos + 1
    <3>1. a \in 1..Len(raw)+1 /\ top \in a-1..Len(raw)
      BY <1>2, <2>1, <2>4
    <3> HIDE DEF a
    <3>2. SubSeq(raw, a, top) \in Seq(CellType)
      BY <3>1, SliceFacts
    <3> QED BY <3>2 DEF a
  <2>6. <<>> \in Seq(CellType)
    OBVIOUS
  <2>7. body \in Seq(CellType)
    BY <2>5, <2>6, Zenon
  <2> HIDE DEF body
  <2>8. (IF first = 1 THEN raw[1].v ELSE 0) \in Nat
    BY <1>3
  <2> QED BY <2>7, <2>8 DEF RequestType
<1> HIDE DEF r
<1>6. <<>> \in Seq(RequestType) /\ (crlf # 0 => <<r>> \in Seq(RequestType))
  BY <1>5
<1> QED BY <1>1, <1>6, Zenon

LEMMA HandedType ==
  ASSUME NEW buf \in Seq(CellType), NEW i \in 1..Len(buf), NEW j \in i..Len(buf)
  PROVE  handed(buf, i, j) \in Seq(RequestType)
<1>1. i \in 1..Len(buf)+1 /\ j \in i-1..Len(buf) /\ j - i + 1 \in Nat \ {0}
  OBVIOUS
<1> DEFINE raw == SubSeq(buf, i, j)
<1>2. raw \in Seq(CellType) /\ Len(raw) = j - i + 1
  BY <1>1, SliceFacts
<1> HIDE DEF raw
<1>3. raw # <<>>
  BY <1>1, <1>2
<1>4. parse(raw) \in Seq(RequestType)
  BY <1>2, <1>3, ParseType
<1>5. <<>> \in Seq(RequestType)
  OBVIOUS
<1> QED BY <1>4, <1>5, Zenon DEF handed, raw

-----------------------------------------------------------------------------
(* The loop over a buffer.  messages is defined by recursion from the end  *)
(* of the buffer; Turn is one turn of the loop.                            *)

Turn(F, buf, i) ==
  IF after(buf, i) = i THEN [out |-> <<>>, rest |-> i]
  ELSE [out |-> handed(buf, i, after(buf, i) - 1) \o F[after(buf, i)].out, rest |-> F[after(buf, i)].rest]
Loops(F, buf, i) == F = [k \in i..Len(buf)+1 |-> Turn(F, buf, k)]

LEMMA TurnDepends ==
  ASSUME NEW F, NEW G, NEW buf, NEW i, after(buf, i) # i => F[after(buf, i)] = G[after(buf, i)]
  PROVE  Turn(F, buf, i) = Turn(G, buf, i)
<1>1. CASE after(buf, i) = i
  BY <1>1, Zenon DEF Turn
<1>2. CASE after(buf, i) # i
  BY <1>2, Zenon DEF Turn
<1> QED BY <1>1, <1>2

\* The recursion has a solution: from the end on, cell by cell.
LEMMA LoopExists ==
  ASSUME NEW buf \in Seq(CellType)
  PROVE  \E F : Loops(F, buf, 1)
<1> DEFINE n == Len(buf) + 1
           T == {m \in 0..n-1 : ~\E F : Loops(F, buf, n - m)}
<1>0. n \in Nat \ {0} /\ n - 1 \in 0..n-1 /\ n - (n - 1) = 1
  OBVIOUS
<1> SUFFICES ASSUME T # {} PROVE FALSE
  BY <1>0
<1>1. T \subseteq Nat
  OBVIOUS
<1>2. PICK m \in T : \A k \in T : m <= k
  BY <1>1, Smallest
<1>3. m \in 0..n-1 /\ ~\E F : Loops(F, buf, n - m)
  OBVIOUS
<1>4. \E F : \A k \in n-m+1..n : F[k] = Turn(F, buf, k)
  <2>1. CASE m = 0
    BY <1>0, <2>1
  <2>2. CASE m # 0
    <3>1. m - 1 \in 0..n-1 /\ ~(m <= m - 1) /\ n - (m - 1) = n - m + 1
      BY <1>0, <1>3, <2>2
    <3>2. PICK F : Loops(F, buf, n - (m - 1))
      BY <1>2, <3>1
    <3>3. F = [k \in n-m+1..n |-> Turn(F, buf, k)]
      BY <3>1, <3>2 DEF Loops
    <3> QED BY <3>3
  <2> QED BY <2>1, <2>2
<1>5. PICK F : \A k \in n-m+1..n : F[k] = Turn(F, buf, k)
  BY <1>4
<1> DEFINE G == [k \in n-m..n |-> Turn(F, buf, k)]
<1>6. ASSUME NEW k \in n-m..n PROVE Turn(F, buf, k) = Turn(G, buf, k)
  <2>1. k \in 1..n
    BY <1>0, <1>3
  <2>2. after(buf, k) \in k..n
    BY <2>1, AfterType
  <2>3. ASSUME after(buf, k) # k PROVE F[after(buf, k)] = G[after(buf, k)]
    <3>1. after(buf, k) \in n-m+1..n /\ after(buf, k) \in n-m..n
      BY <1>0, <1>3, <2>1, <2>2, <2>3
    <3> QED BY <1>5, <3>1
  <2> HIDE DEF G
  <2> QED BY <2>3, TurnDepends
<1>7. G = [k \in n-m..n |-> Turn(G, buf, k)]
  BY <1>6
<1> HIDE DEF G
<1>8. Loops(G, buf, n - m)
  BY <1>7 DEF Loops
<1> QED BY <1>3, <1>8

\* messages is the loop from the first cell on.
LEMMA MessagesFacts ==
  ASSUME NEW buf \in Seq(CellType)
  PROVE  \E F : messages(buf) = F[1] /\ \A i \in 1..Len(buf)+1 : F[i] = Turn(F, buf, i)
<1> DEFINE From == CHOOSE F : F = [i \in 1..Len(buf)+1 |->
             IF after(buf, i) = i THEN [out |-> <<>>, rest |-> i]
             ELSE [out |-> handed(buf, i, after(buf, i) - 1) \o F[after(buf, i)].out,
                   rest |-> F[after(buf, i)].rest]]
<1>1. messages(buf) = From[1]
  BY Zenon DEF messages
<1>2. From = CHOOSE F : Loops(F, buf, 1)
  BY Zenon DEF Loops, Turn
<1>3. Loops(From, buf, 1)
  BY <1>2, LoopExists, Zenon
<1> HIDE DEF From
<1>4. \A i \in 1..Len(buf)+1 : From[i] = Turn(From, buf, i)
  BY <1>3 DEF Loops
<1> QED BY <1>1, <1>4, Zenon

\* What it leaves behind is a suffix, and what it finds are requests.
LEMMA MessagesType ==
  ASSUME NEW buf \in Seq(CellType)
  PROVE  messages(buf).rest \in 1..Len(buf)+1 /\ messages(buf).out \in Seq(RequestType)
<1>1. PICK F : messages(buf) = F[1] /\ \A i \in 1..Len(buf)+1 : F[i] = Turn(F, buf, i)
  BY MessagesFacts
<1> DEFINE n == Len(buf) + 1
           Good(i) == F[i].rest \in 1..n /\ F[i].out \in Seq(RequestType)
           T == {m \in 0..n-1 : ~Good(n - m)}
<1>0. n \in Nat \ {0} /\ n - 1 \in 0..n-1 /\ n - (n - 1) = 1
  OBVIOUS
<1> SUFFICES ASSUME T # {} PROVE FALSE
  BY <1>0, <1>1
<1>2. T \subseteq Nat
  OBVIOUS
<1>3. PICK m \in T : \A k \in T : m <= k
  BY <1>2, Smallest
<1> DEFINE i == n - m
           j == after(buf, i)
<1>4. m \in 0..n-1 /\ ~Good(i) /\ i \in 1..n
  BY <1>0
<1>5. j \in i..n /\ F[i] = Turn(F, buf, i)
  BY <1>1, <1>4, AfterType
<1>6. CASE j = i
  <2>1. F[i] = [out |-> <<>>, rest |-> i]
    BY <1>5, <1>6 DEF Turn
  <2>2. <<>> \in Seq(RequestType)
    OBVIOUS
  <2> QED BY <1>4, <2>1, <2>2
<1>7. CASE j # i
  <2>1. /\ n - j \in 0..n-1 /\ ~(m <= n - j) /\ n - (n - j) = j /\ j \in 1..n
        /\ i \in 1..Len(buf) /\ j - 1 \in i..Len(buf)
    <3> HIDE DEF j
    <3> QED BY <1>0, <1>4, <1>5, <1>7
  <2>2. Good(j)
    <3> HIDE DEF j, Good
    <3> QED BY <1>3, <2>1
  <2>3. handed(buf, i, j - 1) \in Seq(RequestType)
    <3> HIDE DEF i, j
    <3> QED BY <2>1, HandedType
  <2>4. F[i] = [out |-> handed(buf, i, j - 1) \o F[j].out, rest |-> F[j].rest]
    BY <1>5, <1>7, Zenon DEF Turn
  <2>5. handed(buf, i, j - 1) \o F[j].out \in Seq(RequestType)
    <3> HIDE DEF i, j
    <3> QED BY <2>2, <2>3, ConcatProperties
  <2> DEFINE o == handed(buf, i, j - 1) \o F[j].out
  <2>6. o \in Seq(RequestType) /\ F[i] = [out |-> o, rest |-> F[j].rest]
    BY <2>4, <2>5, Zenon
  <2> HIDE DEF o, i, j
  <2>7. F[i].out = o /\ F[i].rest = F[j].rest
    BY <2>6
  <2> QED BY <1>4, <2>2, <2>6, <2>7, Zenon
<1> QED BY <1>6, <1>7

-----------------------------------------------------------------------------
(* Well formed messages in a buffer.                                       *)

\* u is in the buffer from i on, as far as the buffer goes.
Begins(u, buf, i) == \A k \in 1..Len(u) : i + k - 1 <= Len(buf) => buf[i + k - 1] = u[k]

\* The loop finds the end of the header and of the body, once they are there.
LEMMA TextFacts ==
  ASSUME NEW u \in Seq(CellType), NEW e \in 1..Len(u), IsText(u, e),
         NEW buf \in Seq(CellType), NEW i \in 1..Len(buf), Begins(u, buf, i)
  PROVE  /\ i + e - 1 > Len(buf) => FirstAt(buf, i, Len(buf), {"blank"}) = 0
         /\ i + e - 1 <= Len(buf) => /\ FirstAt(buf, i, Len(buf), {"blank"}) = i + e - 1
                                     /\ fullSize(buf, i, i + e - 1) = Len(u)
<1> DEFINE f == FirstAt(buf, i, Len(buf), {"blank"})
           t == i + e - 1
           g == FirstAt(buf, i, t, {"length"})
           h == FirstAt(buf, i, t, {"lower"})
           at == IF g # 0 THEN g ELSE h
<1>0. /\ Len(u) \in Nat /\ Len(buf) \in Nat /\ e \in Nat /\ i \in Nat \ {0} /\ t \in Nat
      /\ Len(u) < SizeMod
  BY DEF IsText
<1>1. \/ f = 0 /\ \A k \in i..Len(buf) : buf[k].k \notin {"blank"}
      \/ /\ f \in i..Len(buf) /\ buf[f].k \in {"blank"}
         /\ \A k \in i..Len(buf) : buf[k].k \in {"blank"} => f <= k
  BY <1>0, FirstFacts
<1>2. /\ \/ g = 0 /\ \A k \in i..t : buf[k].k \notin {"length"}
         \/ g \in i..t /\ buf[g].k \in {"length"}
      /\ \/ h = 0 /\ \A k \in i..t : buf[k].k \notin {"lower"}
         \/ h \in i..t /\ buf[h].k \in {"lower"}
  BY <1>0, FirstFacts
<1> HIDE DEF f, g, h
\* A cell of the header, seen in the buffer.
<1>3. ASSUME NEW k \in i..Len(buf), k <= t
      PROVE  k - i + 1 \in 1..e /\ buf[k] = u[k - i + 1]
  <2>1. k - i + 1 \in 1..e /\ k - i + 1 \in 1..Len(u) /\ i + (k - i + 1) - 1 = k /\ k <= Len(buf)
    BY <1>0, <1>3
  <2> QED BY <2>1 DEF Begins
<1>4. ASSUME NEW k \in i..Len(buf), k < t PROVE buf[k].k # "blank"
  <2>1. k - i + 1 \in 1..e /\ buf[k] = u[k - i + 1] /\ k - i + 1 # e
    BY <1>0, <1>3, <1>4
  <2> QED BY <2>1 DEF IsText
<1>5. ASSUME t > Len(buf) PROVE f = 0
  BY <1>0, <1>1, <1>4, <1>5
<1>6. ASSUME t <= Len(buf) PROVE f = t /\ fullSize(buf, i, t) = Len(u)
  <2>1. t \in i..Len(buf) /\ buf[t] = u[e]
    <3>1. t \in i..Len(buf) /\ t - i + 1 = e
      BY <1>0, <1>6
    <3> QED BY <1>0, <1>3, <3>1
  <2>2. buf[t].k = "blank"
    BY <2>1 DEF IsText
  <2>3. f = t
    BY <1>0, <1>1, <1>4, <2>1, <2>2
  <2>4. bodyLength(buf, i, t) = stoul(buf, at)
    BY DEF bodyLength, g, h
  <2> DEFINE b == Len(u) - e
  <2>5. stoul(buf, at) = b
    <3>1. CASE at # 0
      <4>1. at \in i..Len(buf) /\ at <= t /\ at \in 1..Len(buf) /\ buf[at].k \in Lengths
        BY <1>0, <1>2, <1>6, <3>1 DEF Lengths
      <4> HIDE DEF at
      <4>2. at - i + 1 \in 1..e /\ buf[at] = u[at - i + 1]
        BY <1>3, <4>1
      <4>3. buf[at].v = b
        BY <4>1, <4>2 DEF IsText
      <4>4. b < SizeMod
        BY <1>0, ReceiveAssumption
      <4> QED BY <3>1, <4>1, <4>3, <4>4, StoulFacts
    <3>2. CASE at = 0
      <4>1. ASSUME NEW k \in 1..e, u[k].k \in Lengths PROVE FALSE
        <5>1. i + k - 1 \in i..t /\ i + k - 1 \in i..Len(buf) /\ i + k - 1 <= t /\ (i + k - 1) - i + 1 = k
          BY <1>0, <1>6
        <5>2. buf[i + k - 1] = u[k]
          BY <1>3, <5>1
        <5>3. u[k].k \in {"length", "lower"}
          BY <4>1 DEF IsText, Lengths
        <5>4. g = 0 /\ h = 0
          BY <1>0, <1>2, <3>2
        <5>5. buf[i + k - 1].k \notin {"length"} /\ buf[i + k - 1].k \notin {"lower"}
          BY <1>0, <1>2, <5>1, <5>4
        <5> QED BY <5>2, <5>3, <5>5
      <4>2. Len(u) = e
        BY <4>1 DEF IsText
      <4> HIDE DEF at
      <4>3. stoul(buf, at) = 0
        BY <3>2, StoulFacts
      <4> QED BY <1>0, <4>2, <4>3
    <3> QED BY <3>1, <3>2
  <2> HIDE DEF at
  <2>6. (t - i + 1) + bodyLength(buf, i, t) = Len(u)
    BY <1>0, <2>4, <2>5
  <2>7. fullSize(buf, i, t) = Len(u) % SizeMod
    BY <2>6, Zenon DEF fullSize
  <2>8. Len(u) % SizeMod = Len(u)
    BY <1>0, SizeFacts
  <2> QED BY <2>3, <2>7, <2>8
<1> QED BY <1>5, <1>6 DEF f, t

\* What parse makes of a message is what the client meant.
LEMMA ParseMeant ==
  ASSUME NEW u \in Seq(CellType), NEW e \in 1..Len(u), IsText(u, e)
  PROVE  parse(u) = Meant(u)
<1> DEFINE l     == Len(u)
           first == FirstAt(u, 1, l, Kinds \ {"text", "dollar"})
           blank == FirstAt(u, 1, l, {"blank"})
           crlf  == LastAt(u, l, Lengths \cup {"blank"})
           pos   == IF blank # 0 THEN blank ELSE crlf - 1
           at    == LastAt(u, pos, Lengths)
           n     == stoul(u, at)
           body  == IF (pos + n) % SizeMod <= l THEN SubSeq(u, pos + 1, Min({pos + n, l})) ELSE <<>>
<1>0. l \in Nat /\ e \in Nat \ {0} /\ e <= l /\ l < SizeMod /\ 1 \in 1..l /\ u[e].k = "blank"
  BY DEF IsText
<1>1. blank = e
  <2>1. Begins(u, u, 1)
    BY <1>0 DEF Begins
  <2>2. 1 + e - 1 = e /\ 1 + e - 1 <= l
    BY <1>0
  <2> QED BY <1>0, <2>1, <2>2, TextFacts
<1>2. \/ first = 0 /\ \A k \in 1..l : u[k].k \notin Kinds \ {"text", "dollar"}
      \/ /\ first \in 1..l /\ u[first].k \in Kinds \ {"text", "dollar"}
         /\ \A k \in 1..l : u[k].k \in Kinds \ {"text", "dollar"} => first <= k
  BY <1>0, FirstFacts
<1>3. \/ crlf = 0 /\ \A k \in 1..l : u[k].k \notin Lengths \cup {"blank"}
      \/ crlf \in 1..l
  BY <1>0, LastFacts
<1>4. parse(u) = IF first = 0 \/ crlf = 0 THEN <<>>
                 ELSE IF u[first].k # "line" THEN <<>>
                 ELSE <<[id |-> IF first = 1 THEN u[1].v ELSE 0, body |-> body]>>
  BY DEF parse
<1>5. Meant(u) = IF u[1].k # "line" THEN <<>> ELSE <<[id |-> u[1].v, body |-> SubSeq(u, e + 1, l)]>>
  BY <1>1 DEF Meant
<1>6. pos = e
  BY <1>0, <1>1
<1>7. at = LastAt(u, e, Lengths)
  BY <1>6
<1> HIDE DEF first, blank, crlf, pos
<1>8. \/ at = 0 /\ \A k \in 1..e : u[k].k \notin Lengths
      \/ at \in 1..e /\ u[at].k \in Lengths
  BY <1>0, <1>7, LastFacts
<1> HIDE DEF at
<1>9. n = l - e
  <2>1. CASE at = 0
    <3>1. n = 0
      BY <2>1, StoulFacts
    <3>2. l = e
      BY <1>0, <1>8, <2>1 DEF IsText
    <3> QED BY <1>0, <3>1, <3>2
  <2>2. CASE at # 0
    <3>1. at \in 1..e /\ at \in 1..l /\ u[at].k \in Lengths
      BY <1>0, <1>8, <2>2
    <3>2. u[at].v = l - e
      BY <3>1 DEF IsText
    <3>3. l - e < SizeMod
      BY <1>0, ReceiveAssumption
    <3> QED BY <2>2, <3>1, <3>2, <3>3, StoulFacts
  <2> QED BY <2>1, <2>2
<1> HIDE DEF n
<1>10. body = SubSeq(u, e + 1, l)
  <2>1. pos + n = l
    BY <1>0, <1>6, <1>9
  <2>2. l % SizeMod = l
    BY <1>0, SizeFacts
  <2>3. Min({l, l}) = l
    <3>1. \E m \in {l, l} : \A k \in {l, l} : m <= k
      BY <1>0
    <3> HIDE DEF l
    <3> QED BY <3>1 DEF Min
  <2>4. l <= l
    BY <1>0
  <2> QED BY <1>6, <2>1, <2>2, <2>3, <2>4, Zenon
<1> HIDE DEF body
<1>11. first # 0 /\ crlf # 0 /\ first \in 1..e
  <2>1. u[e].k \in Kinds \ {"text", "dollar"} /\ u[e].k \in Lengths \cup {"blank"} /\ e \in 1..l
    BY <1>0 DEF Kinds
  <2> QED BY <1>0, <1>2, <1>3, <2>1
<1>12. u[first].k = "line" <=> u[1].k = "line"
  <2>1. u[first].k = "line" => first = 1
    BY <1>11 DEF IsText
  <2>2. u[1].k = "line" => first = 1
    <3>1. "line" \in Kinds \ {"text", "dollar"}
      BY DEF Kinds
    <3>2. u[1].k = "line" => first <= 1
      BY <1>0, <1>2, <1>11, <3>1
    <3> QED BY <1>0, <1>11, <3>2
  <2> QED BY <2>1, <2>2
<1>13. u[first].k = "line" => first = 1
  BY <1>11 DEF IsText
<1> QED BY <1>4, <1>5, <1>10, <1>11, <1>12, <1>13, Zenon

\* One turn of the loop: a message that is all there is taken out, and handed on as
\* it was meant; one that is not is left.
LEMMA TurnTakesMessage ==
  ASSUME NEW u \in Seq(CellType), u # <<>>, WellFormed(u),
         NEW buf \in Seq(CellType), NEW i \in 1..Len(buf)+1, Begins(u, buf, i)
  PROVE  /\ i + Len(u) - 1 > Len(buf) => after(buf, i) = i
         /\ i + Len(u) - 1 <= Len(buf) => /\ after(buf, i) = i + Len(u)
                                          /\ handed(buf, i, i + Len(u) - 1) = Meant(u)
         /\ ~spins(buf, i)
<1>0. Len(u) \in Nat \ {0} /\ Len(buf) \in Nat /\ i \in Nat \ {0}
  OBVIOUS
<1> DEFINE left == Len(buf) - i + 1
           plen == 256 * Byte(buf[i + 2]) + Byte(buf[i + 3])
           end  == FirstAt(buf, i, Len(buf), {"blank"})
           size == fullSize(buf, i, end)
<1>1. after(buf, i) = IF left = 0 THEN i
                      ELSE IF buf[i].k = "dollar"
                           THEN IF left < 4 \/ left < 4 + plen THEN i ELSE i + 4 + plen
                      ELSE IF end = 0 \/ left < size THEN i ELSE i + size
  BY DEF after
<1>4. spins(buf, i) <=> i <= Len(buf) /\ buf[i].k # "dollar" /\ end # 0 /\ size = 0
  BY DEF spins
<1>2. CASE i = Len(buf) + 1
  BY <1>0, <1>1, <1>2, <1>4
<1>3. CASE i \in 1..Len(buf)
  <2>0. left \in Nat \ {0}
    BY <1>0, <1>3
  <2>1. buf[i] = u[1]
    <3>1. 1 \in 1..Len(u) /\ i + 1 - 1 = i /\ i <= Len(buf)
      BY <1>0, <1>3
    <3> QED BY <3>1 DEF Begins
  <2>2. CASE IsFrame(u)
    <3>1. left >= 4 => plen = 256 * Byte(u[3]) + Byte(u[4])
      <4> SUFFICES ASSUME left >= 4 PROVE plen = 256 * Byte(u[3]) + Byte(u[4])
        OBVIOUS
      <4>1. 3 \in 1..Len(u) /\ 4 \in 1..Len(u) /\ i + 3 - 1 = i + 2 /\ i + 4 - 1 = i + 3
            /\ i + 3 - 1 <= Len(buf) /\ i + 4 - 1 <= Len(buf)
        BY <1>0, <2>2 DEF IsFrame
      <4>2. buf[i + 2] = u[3] /\ buf[i + 3] = u[4]
        BY <4>1 DEF Begins
      <4> QED BY <4>2, Zenon
    <3>2. Len(u) = 4 + (256 * Byte(u[3]) + Byte(u[4])) /\ Len(u) >= 4 /\ buf[i].k = "dollar" /\ u[1].k = "dollar"
      BY <2>1, <2>2 DEF IsFrame
    <3> DEFINE z == 256 * Byte(u[3]) + Byte(u[4])
    <3>3. z \in Nat
      <4>1. 3 \in 1..Len(u) /\ 4 \in 1..Len(u)
        BY <1>0, <3>2
      <4> QED BY <4>1, ByteFacts
    <3>4. Len(u) = 4 + z /\ (left >= 4 => plen = z)
      BY <3>1, <3>2
    <3>5. after(buf, i) = IF left < 4 \/ left < 4 + plen THEN i ELSE i + 4 + plen
      BY <1>1, <2>0, <3>2
    <3>6. handed(buf, i, i + Len(u) - 1) = Meant(u)
      BY <3>2 DEF handed, Meant
    <3>7. ~spins(buf, i)
      BY <1>4, <3>2
    <3> HIDE DEF z, plen
    <3> QED BY <1>0, <2>0, <3>3, <3>4, <3>5, <3>6, <3>7
  <2>3. ASSUME NEW e \in 1..Len(u), IsText(u, e)
        PROVE  /\ i + Len(u) - 1 > Len(buf) => after(buf, i) = i
               /\ i + Len(u) - 1 <= Len(buf) => /\ after(buf, i) = i + Len(u)
                                                /\ handed(buf, i, i + Len(u) - 1) = Meant(u)
               /\ ~spins(buf, i)
    <3>1. /\ i + e - 1 > Len(buf) => end = 0
          /\ i + e - 1 <= Len(buf) => end = i + e - 1 /\ fullSize(buf, i, i + e - 1) = Len(u)
      BY <1>3, <2>3, TextFacts
    <3>2. buf[i].k # "dollar"
      BY <2>1, <2>3 DEF IsText
    <3>3. after(buf, i) = IF end = 0 \/ left < size THEN i ELSE i + size
      BY <1>1, <2>0, <3>2
    <3>4. i + e - 1 <= Len(buf) => size = Len(u)
      BY <3>1
    <3> HIDE DEF size
    <3>8. ~spins(buf, i)
      BY <1>0, <1>4, <3>1, <3>4
    <3>5. i + Len(u) - 1 > Len(buf) => after(buf, i) = i
      BY <1>0, <3>1, <3>3, <3>4
    <3>6. i + Len(u) - 1 <= Len(buf) => after(buf, i) = i + Len(u)
      <4> HIDE DEF end
      <4> QED BY <1>0, <3>1, <3>3, <3>4
    <3>7. ASSUME i + Len(u) - 1 <= Len(buf) PROVE handed(buf, i, i + Len(u) - 1) = Meant(u)
      <4> DEFINE j == i + Len(u) - 1
                 raw == SubSeq(buf, i, j)
      <4>1. j \in i-1..Len(buf) /\ j - i + 1 = Len(u)
        BY <1>0, <3>7
      <4>2. /\ raw \in Seq(CellType) /\ Len(raw) = Len(u)
            /\ \A k \in 1..Len(u) : raw[k] = buf[i + k - 1]
        <5> HIDE DEF j
        <5> QED BY <4>1, SliceFacts
      <4> HIDE DEF raw
      <4>3. \A k \in 1..Len(u) : raw[k] = u[k]
        <5>1. \A k \in 1..Len(u) : i + k - 1 <= Len(buf)
          BY <1>0, <3>7
        <5> QED BY <4>2, <5>1 DEF Begins
      <4>4. raw = u
        BY <4>2, <4>3, SeqEqual
      <4>5. handed(buf, i, j) = parse(raw)
        BY <3>2, Zenon DEF handed, raw
      <4> QED BY <2>3, <4>4, <4>5, ParseMeant, Zenon
    <3> QED BY <3>5, <3>6, <3>7, <3>8
  <2> QED BY <2>2, <2>3 DEF WellFormed
<1> QED BY <1>0, <1>2, <1>3

-----------------------------------------------------------------------------
(* The client's stream.                                                    *)

LEMMA UnitFacts ==
  ASSUME units \in Seq(Units)
  PROVE  /\ units \in Seq(Seq(CellType)) /\ Len(units) \in Nat
         /\ \A j \in 1..Len(units) : units[j] \in Seq(CellType) /\ units[j] # <<>> /\ units[j] \in Units
<1>1. Len(units) \in Nat /\ \A j \in 1..Len(units) : units[j] \in Units
  BY ElementOfSeq, LenProperties
<1>2. Units \subseteq Seq(CellType) /\ \A u \in Units : u # <<>>
  BY ReceiveAssumption
<1>3. \A j \in 1..Len(units) : units[j] \in Seq(CellType) /\ units[j] # <<>>
  BY <1>1, <1>2
<1>4. units \in Seq(Seq(CellType))
  <2> DEFINE W == Seq(CellType)
  <2>1. \A j \in 1..Len(units) : units[j] \in W
    BY <1>3
  <2> HIDE DEF W
  <2>2. units \in Seq(W)
    BY <1>1, <2>1
  <2> QED BY <2>2 DEF W
<1> QED BY <1>1, <1>3, <1>4

LEMMA EndFacts ==
  ASSUME units \in Seq(Units)
  PROVE  /\ EndOf(0) = 0 /\ EndOf(Len(units)) = Len(Stream) /\ Stream \in Seq(CellType)
         /\ \A j \in 0..Len(units) : EndOf(j) \in Nat
         /\ \A j \in 1..Len(units) : EndOf(j) = EndOf(j - 1) + Len(units[j])
<1>1. units \in Seq(Seq(CellType))
  BY UnitFacts
<1>2. \A j : EndOf(j) = EndAt(units, j)
  BY Zenon DEF EndOf, EndAt, Prefix
<1>3. /\ EndAt(units, 0) = 0 /\ EndAt(units, Len(units)) = Len(Stream) /\ Stream \in Seq(CellType)
      /\ \A j \in 0..Len(units) : EndAt(units, j) \in Nat
      /\ \A j \in 1..Len(units) : EndAt(units, j) = EndAt(units, j - 1) + Len(units[j])
  BY <1>1, JoinEnds DEF Stream
<1> QED BY <1>2, <1>3, Zenon

LEMMA EndMonotone ==
  ASSUME units \in Seq(Units), NEW i \in 0..Len(units), NEW j \in i..Len(units)
  PROVE  EndOf(i) <= EndOf(j)
<1>1. EndAt(units, i) <= EndAt(units, j)
  BY UnitFacts, JoinMonotone
<1> QED BY <1>1, Zenon DEF EndOf, EndAt, Prefix

\* Message j is in the stream where the messages before it end.
LEMMA StreamAt ==
  ASSUME units \in Seq(Units), NEW j \in 1..Len(units), NEW k \in 1..Len(units[j])
  PROVE  Stream[EndOf(j - 1) + k] = units[j][k]
<1>1. Stream[EndAt(units, j - 1) + k] = units[j][k]
  BY UnitFacts, JoinAt DEF Stream
<1> QED BY <1>1, Zenon DEF EndOf, EndAt, Prefix

\* How many messages end within the first t cells.
CompleteAt(t) == Max({j \in 0 .. Len(units) : EndOf(j) <= t})

LEMMA CompleteFacts ==
  ASSUME units \in Seq(Units), NEW t \in Nat
  PROVE  /\ CompleteAt(t) \in 0..Len(units) /\ EndOf(CompleteAt(t)) <= t
         /\ \A j \in 0..Len(units) : EndOf(j) <= t => j <= CompleteAt(t)
<1> DEFINE T == {j \in 0 .. Len(units) : EndOf(j) <= t}
<1>1. Len(units) \in Nat /\ T \subseteq 0..Len(units) /\ 0 \in T
  BY UnitFacts, EndFacts
<1>2. \E m \in T : \A k \in T : k <= m
  BY <1>1, Largest
<1>3. CompleteAt(t) = Max(T)
  BY DEF CompleteAt
<1>4. Max(T) \in T /\ \A k \in T : k <= Max(T)
  <2> HIDE DEF T
  <2>1. \E m \in T : \A k \in T : m >= k
    <3>1. \A k \in T : k \in Int
      BY <1>1
    <3> QED BY <1>2, <3>1
  <2>2. Max(T) \in T /\ \A k \in T : Max(T) >= k
    BY <2>1 DEF Max
  <2>3. \A k \in T : k \in Int
    BY <1>1
  <2> QED BY <2>2, <2>3
<1> QED BY <1>3, <1>4

-----------------------------------------------------------------------------
(* The loop over what has been received.                                   *)

LEMMA MeantType ==
  ASSUME NEW u \in Seq(CellType), u # <<>>
  PROVE  Meant(u) \in Seq(RequestType)
<1> DEFINE pos == FirstAt(u, 1, Len(u), {"blank"})
           body == SubSeq(u, pos + 1, Len(u))
<1>1. pos = 0 \/ pos \in 1..Len(u)
  BY FirstFacts
<1>2. Meant(u) = IF u[1].k # "line" THEN <<>> ELSE <<[id |-> u[1].v, body |-> body]>>
  BY DEF Meant
<1> HIDE DEF pos
<1>3. Len(u) \in Nat /\ pos + 1 \in 1..Len(u)+1 /\ Len(u) \in (pos + 1)-1..Len(u) /\ 1 \in 1..Len(u)
  BY <1>1
<1>4. body \in Seq(CellType)
  BY <1>3, SliceFacts
<1>5. u[1].v \in Nat
  BY <1>3, CellFacts
<1> DEFINE r == [id |-> u[1].v, body |-> body]
<1> HIDE DEF body
<1>6. r \in RequestType
  BY <1>4, <1>5 DEF RequestType
<1>7. Meant(u) = IF u[1].k # "line" THEN <<>> ELSE <<r>>
  BY <1>2
<1> HIDE DEF r
<1>8. <<>> \in Seq(RequestType) /\ <<r>> \in Seq(RequestType)
  BY <1>6
<1> QED BY <1>7, <1>8, Zenon

\* What the client meant by its first j messages.
Flat(j) == FlattenSeq([k \in 1 .. j |-> Meant(units[k])])

LEMMA FlatFacts ==
  ASSUME units \in Seq(Units)
  PROVE  /\ Flat(0) = <<>>
         /\ \A j \in 0..Len(units) : Flat(j) \in Seq(RequestType)
         /\ \A j \in 1..Len(units) : Flat(j) = Flat(j - 1) \o Meant(units[j])
<1> DEFINE n == Len(units)
           ms == [k \in 1..n |-> Meant(units[k])]
           R == Seq(RequestType)
<1>1. n \in Nat /\ \A k \in 1..n : Meant(units[k]) \in R
  BY UnitFacts, MeantType
<1> HIDE DEF R, n
<1>2. ms \in Seq(R) /\ Len(ms) = n /\ \A k \in 1..n : ms[k] = Meant(units[k])
  BY <1>1
<1>3. ASSUME NEW j \in 0..n PROVE Flat(j) = Prefix(ms, j)
  <2>1. SubSeq(ms, 1, j) = [k \in 1..j |-> ms[k]]
    <3> HIDE DEF ms
    <3> QED BY <1>1, <1>2
  <2>2. \A k \in 1..j : ms[k] = Meant(units[k])
    <3>1. \A k \in 1..j : k \in 1..n
      BY <1>1
    <3> QED BY <1>2, <3>1
  <2>3. [k \in 1..j |-> ms[k]] = [k \in 1..j |-> Meant(units[k])]
    <3> HIDE DEF ms
    <3> QED BY <2>2
  <2> QED BY <2>1, <2>3, Zenon DEF Flat, Prefix
<1> HIDE DEF ms
<1>4. ms \in Seq(Seq(RequestType)) /\ Len(ms) = n
  BY <1>2 DEF R
<1>5. Flat(0) = <<>>
  <2>1. 0 \in 0..n
    BY <1>1
  <2> QED BY <1>3, <1>4, <2>1, PrefixEnds, Zenon
<1>6. \A j \in 0..n : Flat(j) \in Seq(RequestType)
  BY <1>3, <1>4, PrefixType
<1>7. ASSUME NEW j \in 1..n PROVE Flat(j) = Flat(j - 1) \o Meant(units[j])
  <2>1. j \in 0..n /\ j - 1 \in 0..n
    BY <1>1
  <2>2. Prefix(ms, j) = Prefix(ms, j - 1) \o ms[j]
    BY <1>4, PrefixStep
  <2> QED BY <1>2, <1>3, <2>1, <2>2, Zenon
<1> QED BY <1>5, <1>6, <1>7 DEF n

\* A place in the stream and in a buffer that starts behind its first y cells.
LEMMA PlaceFacts ==
  ASSUME NEW x \in Nat, NEW y \in Nat, NEW n \in Nat, NEW q, q = x - y + 1, q \in 1..n+1
  PROVE  /\ \A k \in Nat \ {0} : q + k - 1 <= n => q + k - 1 \in 1..n /\ y + (q + k - 1) = x + k
         /\ \A l \in Nat \ {0} : (x + l) - y + 1 \in 1..n+1 =>
               q + l = (x + l) - y + 1 /\ q + l - 1 <= n /\ (x + l) - y + 1 # q
  OBVIOUS

\* The buffer holds the stream from the end of message c up to cell w.
Holds(buf, c, w) == buf = SubSeq(Stream, EndOf(c) + 1, w)
Clean == \A j \in 1..Len(units) : WellFormed(units[j])

\* Then the loop hands on the messages that end within it and leaves the rest.
LEMMA LoopRuns ==
  ASSUME units \in Seq(Units), Clean,
         NEW w \in Nat, w <= Len(Stream), NEW c \in 0..Len(units), EndOf(c) <= w,
         NEW buf, Holds(buf, c, w),
         NEW d, d = CompleteAt(w)
  PROVE  /\ messages(buf).rest = EndOf(d) - EndOf(c) + 1
         /\ Flat(c) \o messages(buf).out = Flat(d)
         /\ ~spins(buf, messages(buf).rest)
<1> DEFINE p(j) == EndOf(j) - EndOf(c) + 1
<1>0. /\ Len(units) \in Nat /\ c \in Nat /\ EndOf(c) \in Nat /\ Stream \in Seq(CellType)
      /\ \A j \in 0..Len(units) : EndOf(j) \in Nat
  BY UnitFacts, EndFacts
<1>1. d \in c..Len(units) /\ EndOf(d) <= w /\ \A j \in 0..Len(units) : EndOf(j) <= w => j <= d
  BY <1>0, CompleteFacts
<1>2. /\ buf \in Seq(CellType) /\ Len(buf) = w - EndOf(c)
      /\ \A k \in 1..Len(buf) : buf[k] = Stream[EndOf(c) + k]
  <2> DEFINE a == EndOf(c) + 1
  <2>1. a \in 1..Len(Stream)+1 /\ w \in a-1..Len(Stream) /\ w - a + 1 = w - EndOf(c)
    BY <1>0
  <2>2. \A k \in 1..w-EndOf(c) : a + k - 1 = EndOf(c) + k
    BY <1>0
  <2> HIDE DEF a
  <2>3. /\ SubSeq(Stream, a, w) \in Seq(CellType) /\ Len(SubSeq(Stream, a, w)) = w - a + 1
        /\ \A k \in 1..w-a+1 : SubSeq(Stream, a, w)[k] = Stream[a + k - 1]
    BY <1>0, <2>1, SliceFacts
  <2>4. buf = SubSeq(Stream, a, w)
    BY DEF a, Holds
  <2>5. /\ buf \in Seq(CellType) /\ Len(buf) = w - EndOf(c)
        /\ \A k \in 1..w-EndOf(c) : buf[k] = Stream[a + k - 1]
    BY <2>1, <2>3, <2>4, Zenon
  <2>6. \A k \in 1..w-EndOf(c) : buf[k] = Stream[EndOf(c) + k]
    BY <2>2, <2>5
  <2> QED BY <2>5, <2>6, Zenon
<1>11. Len(buf) = w - EndOf(c) /\ EndOf(c) \in Nat /\ w \in Nat /\ EndOf(c) <= w
  BY <1>0, <1>2
<1>3. PICK F : messages(buf) = F[1] /\ \A i \in 1..Len(buf)+1 : F[i] = Turn(F, buf, i)
  BY <1>2, MessagesFacts
<1>4. ASSUME NEW j \in c..d
      PROVE  j \in 0..Len(units) /\ p(j) \in 1..Len(buf)+1 /\ EndOf(j) \in Nat
  <2>1. j \in 0..Len(units) /\ c \in 0..Len(units) /\ j \in c..Len(units) /\ d \in j..Len(units)
    BY <1>0, <1>1
  <2>2. EndOf(c) <= EndOf(j) /\ EndOf(j) <= EndOf(d) /\ EndOf(j) \in Nat /\ EndOf(d) \in Nat
    BY <1>0, <2>1, EndMonotone
  <2>3. EndOf(d) <= w
    BY <1>1
  <2> QED BY <1>11, <2>1, <2>2, <2>3, SMTT(30)
\* Message j+1 is in the buffer at p(j).
<1>5. ASSUME NEW j \in c..d, j < Len(units)
      PROVE  /\ j + 1 \in 1..Len(units) /\ Begins(units[j + 1], buf, p(j))
             /\ EndOf(j + 1) = EndOf(j) + Len(units[j + 1]) /\ Len(units[j + 1]) \in Nat
             /\ units[j + 1] \in Seq(CellType) /\ units[j + 1] # <<>>
  <2>0. j + 1 \in 1..Len(units) /\ (j + 1) - 1 = j
    BY <1>0, <1>4, <1>5
  <2>1. units[j + 1] \in Seq(CellType) /\ units[j + 1] # <<>> /\ Len(units[j + 1]) \in Nat
    BY <2>0, UnitFacts, LenProperties
  <2>2. EndOf(j + 1) = EndOf(j) + Len(units[j + 1])
    BY <2>0, EndFacts
  <2>3. ASSUME NEW k \in 1..Len(units[j + 1]), p(j) + k - 1 <= Len(buf)
        PROVE  buf[p(j) + k - 1] = units[j + 1][k]
    <3>1. p(j) + k - 1 \in 1..Len(buf) /\ EndOf(c) + (p(j) + k - 1) = EndOf(j) + k
      <4> DEFINE q == p(j)
                 x == EndOf(j)
                 y == EndOf(c)
                 n == Len(buf)
      <4>1. x \in Nat /\ y \in Nat /\ n \in Nat /\ q = x - y + 1 /\ q \in 1..n+1
        BY <1>2, <1>4, <1>11
      <4>2. k \in Nat \ {0} /\ q + k - 1 <= n
        BY <2>1, <2>3
      <4> HIDE DEF q, x, y, n
      <4>3. q + k - 1 \in 1..n /\ y + (q + k - 1) = x + k
        BY <4>1, <4>2, PlaceFacts
      <4> QED BY <4>3 DEF q, x, y, n
    <3>2. Stream[EndOf((j + 1) - 1) + k] = units[j + 1][k]
      BY <2>0, StreamAt
    <3>3. Stream[EndOf(j) + k] = units[j + 1][k]
      BY <2>0, <3>2
    <3> HIDE DEF p
    <3> QED BY <1>2, <3>1, <3>3
  <2> HIDE DEF p
  <2> QED BY <2>0, <2>1, <2>2, <2>3 DEF Begins
<1> DEFINE G(j) == F[p(j)].rest = p(d) /\ F[p(j)].out \in Seq(RequestType) /\ Flat(j) \o F[p(j)].out = Flat(d)
\* The message after the last complete one is left.
<1>6. G(d) /\ ~spins(buf, p(d))
  <2>0. d \in c..d /\ d \in 0..Len(units)
    BY <1>0, <1>1
  <2>1. after(buf, p(d)) = p(d) /\ ~spins(buf, p(d))
    <3>1. CASE d = Len(units)
      <4>1. EndOf(d) = Len(Stream) /\ Len(Stream) \in Nat
        BY <1>0, <3>1, EndFacts
      <4>2. p(d) = Len(buf) + 1 /\ Len(buf) \in Nat
        BY <1>0, <1>1, <1>2, <4>1
      <4> HIDE DEF p
      <4>3. Len(buf) - p(d) + 1 = 0 /\ ~(p(d) <= Len(buf))
        BY <4>2
      <4> QED BY <4>3 DEF after, spins
    <3>2. CASE d # Len(units)
      <4>1. d < Len(units)
        BY <1>0, <1>1, <3>2
      <4> DEFINE u == units[d + 1]
      <4>2. /\ d + 1 \in 1..Len(units) /\ d + 1 \in 0..Len(units) /\ Begins(u, buf, p(d))
            /\ EndOf(d + 1) = EndOf(d) + Len(u) /\ Len(u) \in Nat /\ u \in Seq(CellType) /\ u # <<>>
        <5>1. d + 1 \in 0..Len(units)
          BY <1>0, <2>0, <4>1
        <5> HIDE DEF p
        <5> QED BY <1>5, <2>0, <4>1, <5>1
      <4>3. ~(EndOf(d + 1) <= w)
        BY <1>0, <1>1, <4>2
      <4> HIDE DEF u
      <4>4. p(d) + Len(u) - 1 > Len(buf)
        <5>1. EndOf(d) \in Nat /\ EndOf(d + 1) \in Nat
          BY <1>0, <2>0, <4>2
        <5> QED BY <1>11, <4>2, <4>3, <5>1
      <4>5. WellFormed(u) /\ p(d) \in 1..Len(buf)+1
        BY <1>4, <2>0, <4>2 DEF u, Clean
      <4> HIDE DEF p
      <4> QED BY <1>2, <4>2, <4>4, <4>5, TurnTakesMessage
    <3> QED BY <3>1, <3>2
  <2>2. F[p(d)] = Turn(F, buf, p(d))
    BY <1>3, <1>4, <2>0
  <2> HIDE DEF p
  <2>3. F[p(d)] = [out |-> <<>>, rest |-> p(d)]
    BY <2>1, <2>2, Zenon DEF Turn
  <2>4. F[p(d)].rest = p(d) /\ F[p(d)].out = <<>>
    BY <2>3
  <2>5. Flat(d) \o <<>> = Flat(d) /\ <<>> \in Seq(RequestType)
    BY <2>0, FlatFacts, ConcatEmptySeq
  <2> QED BY <2>1, <2>4, <2>5, Zenon
\* A complete message is taken out and handed on.
<1>7. ASSUME NEW j \in c..d, j # d, G(j + 1) PROVE G(j)
  <2>0. j < Len(units) /\ j + 1 \in c..d /\ j + 1 \in 0..Len(units) /\ j + 1 \in 1..Len(units) /\ (j + 1) - 1 = j
    <3> HIDE DEF G
    <3>1. j \in c..d /\ j # d /\ c \in Nat /\ d \in c..Len(units) /\ Len(units) \in Nat
      BY <1>0, <1>1, <1>7
    <3> QED BY <3>1
  <2> DEFINE u == units[j + 1]
  <2>1. /\ Begins(u, buf, p(j)) /\ EndOf(j + 1) = EndOf(j) + Len(u) /\ Len(u) \in Nat \ {0}
        /\ u \in Seq(CellType) /\ u # <<>> /\ WellFormed(u)
    BY <1>5, <2>0 DEF Clean
  <2> HIDE DEF u
  <2>2. /\ p(j) + Len(u) = p(j + 1) /\ p(j) + Len(u) - 1 <= Len(buf) /\ p(j) \in 1..Len(buf)+1
        /\ p(j + 1) # p(j)
    <3>1. EndOf(j) \in Nat /\ EndOf(j + 1) \in Nat /\ p(j) \in 1..Len(buf)+1 /\ p(j + 1) \in 1..Len(buf)+1
      BY <1>4, <2>0
    <3> DEFINE q == p(j)
               x == EndOf(j)
               y == EndOf(c)
               n == Len(buf)
               l == Len(u)
    <3>2. x \in Nat /\ y \in Nat /\ n \in Nat /\ q = x - y + 1 /\ q \in 1..n+1
      BY <1>2, <1>11, <3>1
    <3>3. l \in Nat \ {0} /\ p(j + 1) = (x + l) - y + 1 /\ p(j + 1) \in 1..n+1
      BY <2>1, <3>1
    <3> HIDE DEF q, x, y, n, l, p
    <3>4. q + l = p(j + 1) /\ q + l - 1 <= n /\ p(j + 1) # q
      BY <3>2, <3>3, PlaceFacts
    <3> QED BY <3>1, <3>4 DEF q, n, l
  <2> HIDE DEF p, G
  <2>3. /\ after(buf, p(j)) = p(j) + Len(u)
        /\ handed(buf, p(j), p(j) + Len(u) - 1) = Meant(u)
    BY <1>2, <2>1, <2>2, TurnTakesMessage
  <2>4. F[p(j)] = Turn(F, buf, p(j))
    BY <1>3, <2>2
  <2> DEFINE o == Meant(u) \o F[p(j + 1)].out
  <2>5. F[p(j)] = [out |-> o, rest |-> F[p(j + 1)].rest]
    <3>1. after(buf, p(j)) = p(j + 1) /\ p(j + 1) # p(j) /\ handed(buf, p(j), p(j + 1) - 1) = Meant(u)
      BY <2>2, <2>3
    <3> QED BY <2>4, <3>1, Zenon DEF Turn
  <2>6. /\ Meant(u) \in Seq(RequestType) /\ Flat(j) \in Seq(RequestType)
        /\ Flat(j + 1) = Flat(j) \o Meant(u)
    <3>1. j \in 0..Len(units) /\ Flat(j + 1) = Flat((j + 1) - 1) \o Meant(u)
      BY <1>4, <2>0, FlatFacts DEF u
    <3> QED BY <2>0, <2>1, <3>1, FlatFacts, MeantType
  <2>7. F[p(j + 1)].out \in Seq(RequestType) /\ F[p(j + 1)].rest = p(d) /\ Flat(j + 1) \o F[p(j + 1)].out = Flat(d)
    BY <1>7 DEF G
  <2>8. o \in Seq(RequestType)
    BY <2>6, <2>7, ConcatProperties
  <2>9. Flat(j) \o o = Flat(d)
    <3> DEFINE v == F[p(j + 1)].out
               x == Flat(j)
               y == Meant(u)
               xy == Flat(j + 1)
    <3>1. /\ x \in Seq(RequestType) /\ y \in Seq(RequestType) /\ v \in Seq(RequestType)
          /\ xy = Cat(x, y) /\ o = Cat(y, v) /\ Cat(xy, v) = Flat(d)
      BY <2>6, <2>7, Zenon DEF Cat
    <3> HIDE DEF v, x, y, xy, o
    <3>2. Cat(Cat(x, y), v) = Cat(x, Cat(y, v))
      BY <3>1, CatAssociative
    <3>3. Cat(x, o) = Flat(d)
      BY <3>1, <3>2, Zenon
    <3> QED BY <3>3, Zenon DEF Cat, x
  <2> HIDE DEF o
  <2>10. F[p(j)].out = o /\ F[p(j)].rest = p(d)
    BY <2>5, <2>7
  <2> QED BY <2>8, <2>9, <2>10, Zenon DEF G
<1>8. G(c)
  <2> HIDE DEF G
  <2> DEFINE T == {m \in 0..d-c : ~G(d - m)}
  <2>1. T \subseteq Nat /\ d \in Nat /\ d - c \in 0..d-c /\ d - (d - c) = c /\ d - 0 = d
    BY <1>0, <1>1
  <2>2. ASSUME T # {} PROVE FALSE
    <3>1. PICK m \in T : \A k \in T : m <= k
      BY <2>1, <2>2, Smallest
    <3>2. m \in 0..d-c /\ ~G(d - m)
      OBVIOUS
    <3>3. m # 0
      BY <1>6, <2>1, <3>2
    <3>4. m - 1 \in 0..d-c /\ ~(m <= m - 1) /\ d - (m - 1) = (d - m) + 1 /\ d - m \in c..d /\ d - m # d
      <4> HIDE DEF T
      <4>1. c \in Nat /\ d \in Nat
        BY <1>0, <2>1
      <4> QED BY <3>2, <3>3, <4>1
    <3>5. G(d - (m - 1))
      BY <3>1, <3>4
    <3>6. G((d - m) + 1)
      BY <3>4, <3>5
    <3> QED BY <1>7, <3>2, <3>4, <3>6
  <2> QED BY <2>1, <2>2
<1>9. p(c) = 1
  BY <1>0
<1> HIDE DEF p
<1>10. p(d) = EndOf(d) - EndOf(c) + 1
  BY DEF p
<1> QED BY <1>3, <1>6, <1>8, <1>9, <1>10, Zenon

-----------------------------------------------------------------------------
(* The type invariant.                                                     *)

\* The sets the variables take their values from.
Types ==
  /\ units \in Seq(Units) /\ taken \in Nat /\ written \in Nat
  /\ recvBuf \in Seq(CellType) /\ parsed \in Seq(RequestType)
TypeInv == Types /\ TypeOK

LEMMA StreamOf ==
  ASSUME units \in Seq(Units)
  PROVE  Stream \in Seq(CellType) /\ Len(Stream) \in Nat
  BY EndFacts, LenProperties

LEMMA ReceivedType ==
  ASSUME TypeInv
  PROVE  /\ Received \in Seq(CellType) /\ SubSeq(Stream, taken + 1, written) \in Seq(CellType)
         /\ Len(SubSeq(Stream, taken + 1, written)) = written - taken
<1>1. Stream \in Seq(CellType) /\ Len(Stream) \in Nat /\ recvBuf \in Seq(CellType)
  BY StreamOf DEF TypeInv, Types
<1> DEFINE a == taken + 1
<1>2. a \in 1..Len(Stream)+1 /\ written \in a-1..Len(Stream) /\ written - a + 1 = written - taken
  BY <1>1 DEF TypeInv, Types, TypeOK
<1> HIDE DEF a
<1>3. SubSeq(Stream, a, written) \in Seq(CellType) /\ Len(SubSeq(Stream, a, written)) = written - a + 1
  BY <1>1, <1>2, SliceFacts
<1>4. recvBuf \o SubSeq(Stream, a, written) \in Seq(CellType)
  BY <1>1, <1>3, ConcatProperties
<1> QED BY <1>2, <1>3, <1>4, Zenon DEF Received, a

LEMMA RequestIds ==
  ASSUME NEW p \in Seq(RequestType)
  PROVE  \A i \in DOMAIN p : p[i].id \in Nat
<1>1. DOMAIN p = 1..Len(p)
  OBVIOUS
<1>2. \A i \in 1..Len(p) : p[i] \in RequestType
  BY ElementOfSeq
<1> QED BY <1>1, <1>2 DEF RequestType

LEMMA TypeInit ==
  ASSUME Init PROVE TypeInv
<1>1. units \in Seq(Units)
  <2>1. PICK m \in 0..MaxUnits : units \in [1..m -> Units]
    BY DEF Init, SeqOf
  <2> QED BY <2>1, ReceiveAssumption
<1>2. Stream \in Seq(CellType) /\ Len(Stream) \in Nat
  BY <1>1, StreamOf
<1>3. recvBuf \in Seq(CellType) /\ parsed \in Seq(RequestType) /\ Len(recvBuf) = 0
  BY DEF Init
<1>4. \A i \in DOMAIN parsed : parsed[i].id \in Nat
  BY <1>3, RequestIds
<1>5. taken \in Nat /\ written \in Nat /\ taken <= written /\ written <= Len(Stream) /\ Len(recvBuf) <= MaxRecvBuf
  BY <1>2, <1>3, ReceiveAssumption DEF Init
<1>6. fin \in BOOLEAN /\ open \in BOOLEAN /\ spinning \in BOOLEAN
  BY Zenon DEF Init
<1> QED BY <1>1, <1>3, <1>4, <1>5, <1>6, Zenon DEF TypeInv, Types, TypeOK

LEMMA SameStream ==
  ASSUME units' = units
  PROVE  Stream' = Stream
  BY DEF Stream

LEMMA TypeStep ==
  ASSUME TypeInv, [Next]_vars PROVE TypeInv'
<1> USE DEF TypeInv
<1>0. Stream \in Seq(CellType) /\ Len(Stream) \in Nat
  BY StreamOf DEF Types
<1>1. CASE Arrive
  BY <1>0, <1>1, SameStream DEF Arrive, Types, TypeOK
<1>2. CASE HangUp
  BY <1>0, <1>2, SameStream DEF HangUp, Types, TypeOK
<1>3. CASE onReadable \/ onReadableSpins
  <2> DEFINE buf == Received
             m == messages(buf)
  <2>1. buf \in Seq(CellType) /\ Len(buf) \in Nat /\ Len(buf) <= MaxRecvBuf
    <3>1. buf \in Seq(CellType)
      BY ReceivedType
    <3>2. Len(buf) <= MaxRecvBuf
      BY <1>3 DEF onReadable, onReadableSpins, recv
    <3> HIDE DEF buf
    <3> QED BY <3>1, <3>2, LenProperties
  <2>2. /\ taken' = written /\ recvBuf' = SubSeq(buf, m.rest, Len(buf))
        /\ parsed' = parsed \o m.out \/ parsed' = parsed
        /\ units' = units /\ written' = written /\ fin' = fin /\ open' = open
    BY <1>3 DEF onReadable, onReadableSpins
  <2> HIDE DEF buf
  <2>3. m.rest \in 1..Len(buf)+1 /\ m.out \in Seq(RequestType)
    BY <2>1, MessagesType
  <2> HIDE DEF m
  <2>4. parsed' \in Seq(RequestType)
    BY <2>2, <2>3, ConcatProperties DEF Types
  <2>5. recvBuf' \in Seq(CellType) /\ Len(recvBuf') = Len(buf) - m.rest + 1
    <3> DEFINE r == m.rest
    <3>1. r \in 1..Len(buf)+1 /\ Len(buf) \in r-1..Len(buf)
      BY <2>1, <2>3
    <3> HIDE DEF r
    <3>2. SubSeq(buf, r, Len(buf)) \in Seq(CellType) /\ Len(SubSeq(buf, r, Len(buf))) = Len(buf) - r + 1
      BY <2>1, <3>1, SliceFacts
    <3> QED BY <2>2, <3>2, Zenon DEF r
  <2>6. Len(recvBuf') <= MaxRecvBuf
    <3>1. Len(recvBuf') <= Len(buf)
      BY <2>1, <2>3, <2>5
    <3>2. Len(recvBuf') \in Nat /\ MaxRecvBuf \in Nat
      BY <2>5, LenProperties, ReceiveAssumption
    <3> QED BY <2>1, <3>1, <3>2
  <2>7. \A i \in DOMAIN parsed' : parsed'[i].id \in Nat
    BY <2>4, RequestIds
  <2>8. written' \in Nat /\ taken' <= written' /\ written' <= Len(Stream')
    BY <2>2, SameStream DEF Types, TypeOK
  <2>9. fin' \in BOOLEAN /\ open' \in BOOLEAN /\ spinning' \in BOOLEAN
    <3>1. spinning' = spinning \/ spinning' = TRUE
      BY <1>3, Zenon DEF onReadable, onReadableSpins
    <3> QED BY <2>2, <3>1, Zenon DEF TypeOK
  <2>10. units' \in Seq(Units) /\ taken' \in Nat
    BY <2>2 DEF Types
  <2> QED BY <2>4, <2>5, <2>6, <2>7, <2>8, <2>9, <2>10, Zenon DEF Types, TypeOK
<1>4. CASE onReadableFails
  BY <1>0, <1>4, SameStream DEF onReadableFails, Types, TypeOK
<1>5. CASE UNCHANGED vars
  BY <1>0, <1>5, SameStream DEF vars, Types, TypeOK
<1>6. CASE Quiet
  BY <1>5, <1>6 DEF Quiet
<1> QED BY <1>1, <1>2, <1>3, <1>4, <1>5, <1>6 DEF Next

\* The buffer and the stream keep to their bounds and every request has an identity,
\* for every set of messages, well formed or not, and whether the loop returns or not.
THEOREM ReceiveTypeCorrect == Spec => []TypeOK
<1>1. Init => TypeInv
  BY TypeInit
<1>2. TypeInv /\ [Next]_vars => TypeInv'
  BY TypeStep
<1>3. TypeInv => TypeOK
  BY DEF TypeInv
<1> QED BY <1>1, <1>2, <1>3, PTL DEF Spec

-----------------------------------------------------------------------------
(* Framing.                                                                *)

\* The two invariants with the number of complete messages as a parameter.
FramedAt(c) == ~spinning /\ parsed = Flat(c) /\ Holds(recvBuf, c, taken)
OutstandingAt(c) == ~open /\ ~fin => written - EndOf(c) > MaxRecvBuf

LEMMA Restated ==
  /\ FramingExact <=> (Canonical => FramedAt(CompleteAt(taken)))
  /\ ClosedOnlyOnOverflow <=> (Canonical => OutstandingAt(CompleteAt(taken)))
<1>1. Complete = CompleteAt(taken)
  BY Zenon DEF Complete, CompleteAt
<1>2. FramingExact <=> (Canonical => FramedAt(CompleteAt(taken)))
  BY <1>1, Zenon DEF FramingExact, FramedAt, Flat, Holds
<1>3. ClosedOnlyOnOverflow <=> (Canonical => OutstandingAt(CompleteAt(taken)))
  BY <1>1, Zenon DEF ClosedOnlyOnOverflow, OutstandingAt
<1> QED BY <1>2, <1>3

\* No step changes what the client sends, so what is said of it stays true.
LEMMA RestatedNext ==
  ASSUME units' = units
  PROVE  /\ FramingExact' <=> (Canonical => /\ ~spinning' /\ parsed' = Flat(CompleteAt(taken'))
                                            /\ Holds(recvBuf', CompleteAt(taken'), taken'))
         /\ ClosedOnlyOnOverflow' <=>
              (Canonical => (~open' /\ ~fin' => written' - EndOf(CompleteAt(taken')) > MaxRecvBuf))
<1>1. Complete' = CompleteAt(taken')
  BY Zenon DEF Complete, CompleteAt, EndOf
<1>2. Canonical' <=> Canonical
  BY Zenon DEF Canonical
<1>3. Stream' = Stream
  BY SameStream
<1>4. FramingExact' <=> (Canonical' => /\ ~spinning'
                                       /\ parsed' = FlattenSeq([j \in 1 .. Complete' |-> Meant(units'[j])])
                                       /\ recvBuf' = SubSeq(Stream', EndOf(Complete)' + 1, taken'))
  BY Zenon DEF FramingExact
<1>5. EndOf(Complete)' = EndOf(CompleteAt(taken'))
  BY <1>1, Zenon DEF EndOf
<1>6. FlattenSeq([j \in 1 .. Complete' |-> Meant(units'[j])]) = Flat(CompleteAt(taken'))
  BY <1>1, Zenon DEF Flat
<1>7. ClosedOnlyOnOverflow' <=>
        (Canonical' /\ ~open' /\ ~fin' => written' - EndOf(Complete)' > MaxRecvBuf)
  BY Zenon DEF ClosedOnlyOnOverflow
<1> QED BY <1>2, <1>3, <1>4, <1>5, <1>6, <1>7, Zenon DEF Holds

\* A canonical client sends messages.
LEMMA CleanUnits ==
  ASSUME units \in Seq(Units), Canonical
  PROVE  Clean
<1>1. DOMAIN units = 1..Len(units)
  OBVIOUS
<1> QED BY <1>1, Zenon DEF Canonical, Clean

\* What the recv loop leaves in the buffer is the stream from the end of the last
\* complete message on.
LEMMA ReceivedHolds ==
  ASSUME TypeInv, Canonical, FramedAt(CompleteAt(taken))
  PROVE  /\ Holds(Received, CompleteAt(taken), written) /\ CompleteAt(taken) \in 0..Len(units)
         /\ EndOf(CompleteAt(taken)) \in Nat /\ EndOf(CompleteAt(taken)) <= taken
         /\ Len(Received) = written - EndOf(CompleteAt(taken))
<1> DEFINE c == CompleteAt(taken)
           a == EndOf(c) + 1
<1>1. Stream \in Seq(CellType) /\ Len(Stream) \in Nat /\ units \in Seq(Units) /\ taken \in Nat /\ written \in Nat
  BY StreamOf DEF TypeInv, Types
<1>2. c \in 0..Len(units) /\ EndOf(c) <= taken
  BY <1>1, CompleteFacts
<1> HIDE DEF c
<1>3. EndOf(c) \in Nat
  BY <1>1, <1>2, EndFacts
<1>4. /\ a \in 1..Len(Stream)+1 /\ taken \in a-1..Len(Stream) /\ written \in taken..Len(Stream)
      /\ written \in a-1..Len(Stream) /\ written - a + 1 = written - EndOf(c)
  BY <1>1, <1>2, <1>3 DEF TypeInv, TypeOK
<1>5. recvBuf = SubSeq(Stream, a, taken)
  BY DEF FramedAt, Holds, c
<1> HIDE DEF a
<1>6. SubSeq(Stream, a, taken) \o SubSeq(Stream, taken + 1, written) = SubSeq(Stream, a, written)
  BY <1>1, <1>4, ConcatAdjacentSubSeq
<1>7. Received = SubSeq(Stream, a, written)
  BY <1>5, <1>6, Zenon DEF Received
<1>8. Len(SubSeq(Stream, a, written)) = written - a + 1
  BY <1>1, <1>4, SliceFacts
<1>9. Len(Received) = written - EndOf(c)
  BY <1>4, <1>7, <1>8, Zenon
<1> QED BY <1>2, <1>3, <1>7, <1>9, Zenon DEF Holds, a, c

LEMMA FramingInit ==
  ASSUME Init PROVE FramingExact /\ ClosedOnlyOnOverflow
<1>1. units \in Seq(Units) /\ taken = 0 /\ recvBuf = <<>> /\ parsed = <<>> /\ open /\ ~spinning
  BY TypeInit DEF Init, TypeInv, Types
<1> DEFINE c == CompleteAt(taken)
<1>2. c \in 0..Len(units) /\ EndOf(c) <= taken
  BY <1>1, CompleteFacts
<1>3. c = 0
  <2> SUFFICES ASSUME c # 0 PROVE FALSE
    OBVIOUS
  <2>1. Len(units) \in Nat /\ c \in 1..Len(units) /\ c - 1 \in 0..Len(units)
    BY <1>1, <1>2, UnitFacts
  <2> HIDE DEF c
  <2>2. EndOf(c) = EndOf(c - 1) + Len(units[c]) /\ EndOf(c - 1) \in Nat
    BY <1>1, <2>1, EndFacts
  <2>3. Len(units[c]) \in Nat \ {0}
    <3>1. units[c] \in Seq(CellType) /\ units[c] # <<>>
      BY <1>1, <2>1, UnitFacts
    <3> DEFINE u == units[c]
    <3> HIDE DEF u
    <3>2. u \in Seq(CellType) /\ u # <<>>
      BY <3>1 DEF u
    <3>3. Len(u) \in Nat \ {0}
      BY <3>2
    <3> QED BY <3>3 DEF u
  <2> QED BY <1>1, <1>2, <2>2, <2>3
<1> HIDE DEF c
<1>4. Flat(c) = <<>>
  BY <1>1, <1>3, FlatFacts
<1>5. Holds(recvBuf, c, taken)
  <2>1. EndOf(c) + 1 = 1
    BY <1>1, <1>3, EndFacts
  <2>2. SubSeq(Stream, 1, 0) = <<>>
    BY SubSeqEmpty
  <2> QED BY <1>1, <2>1, <2>2, Zenon DEF Holds
<1>6. FramedAt(c) /\ OutstandingAt(c)
  BY <1>1, <1>4, <1>5, Zenon DEF FramedAt, OutstandingAt
<1> QED BY <1>6, Restated, Zenon DEF c

\* onReadable hands on the messages that are now complete.
LEMMA ReadFrames ==
  ASSUME TypeInv, FramingExact, onReadable
  PROVE  FramingExact'
<1>0. /\ units' = units /\ taken' = written /\ units \in Seq(Units) /\ written \in Nat
      /\ taken \in Nat /\ taken <= written /\ written <= Len(Stream)
  BY DEF onReadable, TypeInv, Types, TypeOK
<1> SUFFICES ASSUME Canonical
             PROVE  ~spinning' /\ parsed' = Flat(CompleteAt(taken')) /\ Holds(recvBuf', CompleteAt(taken'), taken')
  BY <1>0, RestatedNext, Zenon
<1> DEFINE c == CompleteAt(taken)
           d == CompleteAt(written)
           buf == Received
           m == messages(buf)
<1>1. FramedAt(c)
  BY Restated
<1>2. Holds(buf, c, written) /\ c \in 0..Len(units) /\ EndOf(c) \in Nat /\ EndOf(c) <= taken
      /\ Len(buf) = written - EndOf(c)
  BY <1>1, ReceivedHolds
<1>3. parsed' = parsed \o m.out /\ recvBuf' = SubSeq(buf, m.rest, Len(buf)) /\ ~spinning'
  BY <1>1 DEF onReadable, FramedAt
<1>4. Clean
  BY <1>0, CleanUnits
<1>5. d \in 0..Len(units) /\ EndOf(d) <= written
  BY <1>0, CompleteFacts
<1> HIDE DEF c, buf
<1>6. EndOf(c) <= written /\ EndOf(d) \in Nat
  <2> HIDE DEF d
  <2> QED BY <1>0, <1>2, <1>5, EndFacts
<1>7. m.rest = EndOf(d) - EndOf(c) + 1 /\ Flat(c) \o m.out = Flat(d)
  BY <1>0, <1>2, <1>4, <1>6, LoopRuns
<1>8. parsed' = Flat(d)
  BY <1>1, <1>3, <1>7, Zenon DEF FramedAt
<1>9. Holds(recvBuf', d, written)
  <2> HIDE DEF d, m
  <2> DEFINE a == EndOf(c) + 1
             b == EndOf(d) + 1
             r == m.rest
  <2>1. Stream \in Seq(CellType) /\ Len(Stream) \in Nat /\ buf = SubSeq(Stream, a, written)
    BY <1>0, <1>2, StreamOf DEF Holds
  <2>2. EndOf(c) <= EndOf(d)
    <3>1. c <= d
      BY <1>0, <1>2, <1>6, CompleteFacts DEF d
    <3>2. d \in c..Len(units)
      BY <1>2, <1>5, <3>1
    <3> QED BY <1>0, <1>2, <3>2, EndMonotone
  <2> DEFINE n == Len(buf)
             t == SubSeq(buf, r, n)
             v == SubSeq(Stream, b, written)
  <2>3. /\ a \in 1..Len(Stream)+1 /\ b \in 1..Len(Stream)+1 /\ written \in a-1..Len(Stream) /\ written \in b-1..Len(Stream)
        /\ n = written - a + 1 /\ r = b - a + 1 /\ n \in Nat /\ r \in 1..n+1 /\ n \in r-1..n
        /\ n - r + 1 = written - b + 1
    <3> DEFINE x == EndOf(c)
               y == EndOf(d)
               l == Len(Stream)
    <3>1. /\ x \in Nat /\ y \in Nat /\ l \in Nat /\ written \in Nat
          /\ x <= y /\ y <= written /\ written <= l /\ n = written - x
      BY <1>0, <1>2, <1>5, <1>6, <2>1, <2>2, Zenon
    <3>2. r = y - x + 1 /\ a = x + 1 /\ b = y + 1
      BY <1>7, Zenon
    <3> HIDE DEF a, b, r, n, x, y, l
    <3>3. /\ a \in 1..l+1 /\ b \in 1..l+1 /\ written \in a-1..l /\ written \in b-1..l
          /\ n = written - a + 1 /\ r = b - a + 1 /\ n \in Nat /\ r \in 1..n+1 /\ n \in r-1..n
          /\ n - r + 1 = written - b + 1
      BY <3>1, <3>2
    <3> QED BY <3>3 DEF l
  <2> HIDE DEF a, b, r, n
  <2>4. /\ buf \in Seq(CellType) /\ \A k \in 1..written-a+1 : buf[k] = Stream[a + k - 1]
    BY <2>1, <2>3, SliceFacts
  <2>5. /\ t \in Seq(CellType) /\ Len(t) = n - r + 1
        /\ \A k \in 1..n-r+1 : t[k] = buf[r + k - 1]
    <3> HIDE DEF t
    <3>1. n = Len(buf) /\ n \in r-1..Len(buf) /\ r \in 1..Len(buf)+1
      BY <2>3 DEF n
    <3> QED BY <2>4, <3>1, SliceFacts DEF t
  <2>6. /\ v \in Seq(CellType) /\ Len(v) = written - b + 1
        /\ \A k \in 1..written-b+1 : v[k] = Stream[b + k - 1]
    BY <2>1, <2>3, SliceFacts
  <2> HIDE DEF t, v
  <2>7. ASSUME NEW k \in 1..written-b+1 PROVE t[k] = v[k]
    <3>1. /\ k \in 1..n-r+1 /\ r + k - 1 \in 1..written-a+1 /\ a + (r + k - 1) - 1 = b + k - 1
      BY <1>0, <2>3
    <3>2. t[k] = buf[r + k - 1] /\ buf[r + k - 1] = Stream[a + (r + k - 1) - 1]
      BY <2>4, <2>5, <3>1
    <3> QED BY <2>6, <3>1, <3>2
  <2>8. Len(t) = Len(v)
    BY <2>3, <2>5, <2>6
  <2>9. t = v
    BY <2>5, <2>6, <2>7, <2>8, SeqEqual
  <2> QED BY <1>3, <2>9, Zenon DEF Holds, t, v, b, r, n
<1> QED BY <1>0, <1>3, <1>8, <1>9, Zenon

\* No message of a canonical client keeps the loop from returning.
LEMMA ReadReturns ==
  ASSUME TypeInv, FramingExact, Canonical
  PROVE  ~spins(Received, messages(Received).rest)
<1> DEFINE c == CompleteAt(taken)
<1>0. units \in Seq(Units) /\ written \in Nat /\ taken \in Nat /\ taken <= written /\ written <= Len(Stream)
  BY DEF TypeInv, Types, TypeOK
<1>1. FramedAt(c)
  BY Restated
<1>2. Holds(Received, c, written) /\ c \in 0..Len(units) /\ EndOf(c) \in Nat /\ EndOf(c) <= taken
  BY <1>1, ReceivedHolds
<1>3. Clean
  BY <1>0, CleanUnits
<1> HIDE DEF c
<1>4. EndOf(c) <= written
  BY <1>0, <1>2
<1> QED BY <1>0, <1>2, <1>3, <1>4, LoopRuns

LEMMA FramingStep ==
  ASSUME TypeInv, FramingExact, ClosedOnlyOnOverflow, [Next]_vars
  PROVE  FramingExact' /\ ClosedOnlyOnOverflow'
<1> DEFINE c == CompleteAt(taken)
<1>0. /\ units \in Seq(Units) /\ written \in Nat /\ taken \in Nat /\ MaxRecvBuf \in Nat
      /\ c \in 0..Len(units) /\ EndOf(c) \in Nat /\ units' = units
  <2>1. units \in Seq(Units) /\ written \in Nat /\ taken \in Nat /\ MaxRecvBuf \in Nat
    BY ReceiveAssumption DEF TypeInv, Types
  <2>2. c \in 0..Len(units)
    BY <2>1, CompleteFacts
  <2> HIDE DEF c
  <2>3. EndOf(c) \in Nat
    BY <2>1, <2>2, EndFacts
  <2>4. units' = units
    BY DEF Next, vars, Arrive, HangUp, onReadable, onReadableSpins, onReadableFails, Quiet
  <2> QED BY <2>1, <2>2, <2>3, <2>4
<1>1. (Canonical => FramedAt(c)) /\ (Canonical => OutstandingAt(c))
  BY Restated
\* What is framed changes in onReadable only.
<1>2. ASSUME taken' = taken, recvBuf' = recvBuf, parsed' = parsed, spinning' = spinning PROVE FramingExact'
  BY <1>0, <1>1, <1>2, RestatedNext, Zenon DEF FramedAt
<1>4. ASSUME taken' = taken, Canonical => (~open' /\ ~fin' => written' - EndOf(c) > MaxRecvBuf)
      PROVE  ClosedOnlyOnOverflow'
  BY <1>0, <1>4, RestatedNext, Zenon
<1>5. CASE Arrive
  <2>1. taken' = taken /\ recvBuf' = recvBuf /\ parsed' = parsed /\ spinning' = spinning /\ open' = open /\ fin' = fin /\ written' = written + 1
    BY <1>5 DEF Arrive
  <2> HIDE DEF c
  <2>2. Canonical => (~open' /\ ~fin' => written' - EndOf(c) > MaxRecvBuf)
    BY <1>0, <1>1, <2>1 DEF OutstandingAt
  <2> QED BY <1>2, <1>4, <2>1, <2>2
<1>6. CASE HangUp
  <2>1. taken' = taken /\ recvBuf' = recvBuf /\ parsed' = parsed /\ spinning' = spinning /\ fin'
    BY <1>6 DEF HangUp
  <2> QED BY <1>2, <1>4, <2>1
<1>7. CASE onReadable
  <2>1. FramingExact'
    BY <1>7, ReadFrames
  <2>2. open'
    BY <1>7 DEF onReadable, recv
  <2> QED BY <1>0, <2>1, <2>2, RestatedNext, Zenon
<1>11. CASE onReadableSpins
  <2>1. ~Canonical
    BY <1>11, ReadReturns DEF onReadableSpins
  <2> QED BY <1>0, <2>1, RestatedNext, Zenon
\* The limit is on what is outstanding: the buffer holds nothing else.
<1>8. CASE onReadableFails
  <2>1. /\ taken' = taken /\ recvBuf' = recvBuf /\ parsed' = parsed /\ spinning' = spinning /\ fin' = fin /\ written' = written
        /\ fin \/ Len(Received) > MaxRecvBuf
    BY <1>8 DEF onReadableFails
  <2>2. Canonical => Len(Received) = written - EndOf(c)
    BY <1>1, ReceivedHolds
  <2> HIDE DEF c
  <2>3. Canonical => (~open' /\ ~fin' => written' - EndOf(c) > MaxRecvBuf)
    BY <2>1, <2>2
  <2> QED BY <1>2, <1>4, <2>1, <2>3
<1>9. CASE UNCHANGED vars
  <2>1. taken' = taken /\ recvBuf' = recvBuf /\ parsed' = parsed /\ spinning' = spinning /\ open' = open /\ fin' = fin /\ written' = written
    BY <1>9 DEF vars
  <2> HIDE DEF c
  <2>2. Canonical => (~open' /\ ~fin' => written' - EndOf(c) > MaxRecvBuf)
    BY <1>1, <2>1 DEF OutstandingAt
  <2> QED BY <1>2, <1>4, <2>1, <2>2
<1>10. CASE Quiet
  BY <1>9, <1>10 DEF Quiet
<1> QED BY <1>5, <1>6, <1>7, <1>8, <1>9, <1>10, <1>11 DEF Next

\* However TCP cuts the stream, the requests handed on are those of the messages
\* received in full, in order and with their bodies, the buffer holds the rest and the
\* loop returns: for every client of well formed messages, every number of them and
\* every limit.
THEOREM FramingIsExact == Spec => []FramingExact
<1> DEFINE Inv == TypeInv /\ FramingExact /\ ClosedOnlyOnOverflow
<1>1. Init => Inv
  BY TypeInit, FramingInit
<1>2. Inv /\ [Next]_vars => Inv'
  BY TypeStep, FramingStep
<1>3. Inv => FramingExact
  OBVIOUS
<1> HIDE DEF Inv
<1> QED BY <1>1, <1>2, <1>3, PTL DEF Spec

\* A session whose client has not hung up is closed only when more than kMaxRecvBuf
\* is outstanding beyond the messages received in full, for the same clients.
THEOREM ClosedOnOverflowOnly == Spec => []ClosedOnlyOnOverflow
<1> DEFINE Inv == TypeInv /\ FramingExact /\ ClosedOnlyOnOverflow
<1>1. Init => Inv
  BY TypeInit, FramingInit
<1>2. Inv /\ [Next]_vars => Inv'
  BY TypeStep, FramingStep
<1>3. Inv => ClosedOnlyOnOverflow
  OBVIOUS
<1> HIDE DEF Inv
<1> QED BY <1>1, <1>2, <1>3, PTL DEF Spec
=============================================================================

---------------------------- MODULE SequenceLemmas ----------------------------
(***************************************************************************)
(* Numbers and sequences: what the proofs about bytes, packets and files   *)
(* have in common.  Above all FlattenSeq, which joins the elements of a    *)
(* sequence of sequences: where each element begins in the whole.          *)
(***************************************************************************)
EXTENDS Integers, Sequences, SequencesExt, SequenceTheorems, WellFoundedInduction, TLAPS

\* Every nonempty set of numbers has a smallest one ...
LEMMA Smallest ==
  ASSUME NEW T, T \subseteq Nat, T # {}
  PROVE  \E m \in T : \A k \in T : m <= k
<1> DEFINE R == OpToRel(<, Nat)
<1>1. IsWellFoundedOn(R, Nat)
  BY NatLessThanWellFounded
<1>2. \A x, y \in Nat : <<y, x>> \in R <=> y < x
  BY DEF OpToRel
<1> HIDE DEF R
<1>3. PICK x \in T : \A y \in T : ~ (<<y, x>> \in R)
  BY <1>1, WFMin
<1>4. \A y \in T : y \in Nat /\ x \in Nat /\ ~(y < x)
  BY <1>2, <1>3
<1>5. \A y \in T : x <= y
  BY <1>4
<1> QED BY <1>5

\* ... and a bounded one a largest one.
LEMMA Largest ==
  ASSUME NEW n \in Nat, NEW T, T \subseteq 0..n, T # {}
  PROVE  \E m \in T : \A k \in T : k <= m
<1> DEFINE U == {n - k : k \in T}
<1>1. U \subseteq Nat
  <2>1. \A k \in T : k \in 0..n
    OBVIOUS
  <2> QED BY <2>1
<1>2. U # {}
  OBVIOUS
<1>3. PICK u \in U : \A v \in U : u <= v
  BY <1>1, <1>2, Smallest
<1>4. PICK m \in T : u = n - m
  BY <1>3
<1>5. ASSUME NEW k \in T PROVE k <= m
  <2>1. n - k \in U
    OBVIOUS
  <2>2. k \in 0..n /\ m \in 0..n
    OBVIOUS
  <2>3. n - m <= n - k
    BY <1>3, <1>4, <2>1
  <2> HIDE DEF U
  <2> QED BY <2>2, <2>3
<1> QED BY <1>5

\* Whole division: what it gives, and the largest number of times it goes.
LEMMA DivFacts ==
  ASSUME NEW n \in Int, NEW m \in Nat \ {0}
  PROVE  /\ n \div m \in Int /\ (n \div m) * m <= n /\ n < (n \div m + 1) * m
         /\ n % m \in 0..m-1 /\ n = (n \div m) * m + (n % m)
OBVIOUS

LEMMA TimesMono ==
  ASSUME NEW a \in Int, NEW b \in Int, NEW m \in Nat, a <= b
  PROVE  a * m <= b * m
<1> DEFINE c == b - a
<1>1. c \in Nat /\ b = a + c
  OBVIOUS
<1> HIDE DEF c
<1>2. b * m = a * m + c * m
  BY <1>1
<1>3. c * m \in Nat /\ a * m \in Int
  BY <1>1
<1> QED BY <1>2, <1>3

LEMMA DivLargest ==
  ASSUME NEW n \in Int, NEW m \in Nat \ {0}, NEW q \in Int, q * m <= n
  PROVE  q <= n \div m
<1> DEFINE d == n \div m
<1>1. d \in Int /\ n < (d + 1) * m
  BY DivFacts
<1> HIDE DEF d
<1>2. ASSUME d + 1 <= q PROVE FALSE
  <2>1. (d + 1) * m <= q * m
    BY <1>1, <1>2, TimesMono
  <2>2. (d + 1) * m \in Int /\ q * m \in Int
    BY <1>1
  <2> QED BY <1>1, <2>1, <2>2
<1> QED BY <1>1, <1>2 DEF d

LEMMA DivMono ==
  ASSUME NEW a \in Int, NEW b \in Int, NEW m \in Nat \ {0}, a <= b
  PROVE  a \div m <= b \div m
<1> DEFINE q == a \div m
<1>1. q \in Int /\ q * m <= a
  BY DivFacts
<1> HIDE DEF q
<1>2. q * m <= b
  <2>1. q * m \in Int
    BY <1>1
  <2> QED BY <1>1, <2>1
<1> QED BY <1>1, <1>2, DivLargest DEF q

\* Joining three sequences; Cat keeps the provers from taking sequences apart where
\* only this is needed.
Cat(x, y) == x \o y

LEMMA CatAssociative ==
  ASSUME NEW S, NEW x \in Seq(S), NEW y \in Seq(S), NEW z \in Seq(S)
  PROVE  Cat(Cat(x, y), z) = Cat(x, Cat(y, z))
<1> DEFINE xy == x \o y
           yz == y \o z
           a == xy \o z
           b == x \o yz
<1>0. Len(x) \in Nat /\ Len(y) \in Nat /\ Len(z) \in Nat
  OBVIOUS
<1>1. /\ xy \in Seq(S) /\ Len(xy) = Len(x) + Len(y)
      /\ yz \in Seq(S) /\ Len(yz) = Len(y) + Len(z)
  BY ConcatProperties
<1>2. /\ a \in Seq(S) /\ Len(a) = Len(x) + Len(y) + Len(z)
      /\ b \in Seq(S) /\ Len(b) = Len(x) + Len(y) + Len(z)
  BY <1>0, <1>1
<1>3. ASSUME NEW i \in 1..Len(x)+Len(y)+Len(z) PROVE a[i] = b[i]
  <2>1. CASE i <= Len(x)
    BY <1>0, <1>1, <2>1
  <2>2. CASE Len(x) < i /\ i <= Len(x) + Len(y)
    BY <1>0, <1>1, <2>2
  <2>3. CASE Len(x) + Len(y) < i
    BY <1>0, <1>1, <2>3
  <2> QED BY <1>0, <2>1, <2>2, <2>3
<1> HIDE DEF a, b
<1>4. a = b
  BY <1>0, <1>2, <1>3, SeqEqual
<1> QED BY <1>4, Zenon DEF Cat, a, b

\* FlattenSeq is defined by recursion over the places of s.  At is one step of it.
At(f, s, i) == IF i = 1 THEN s[i] ELSE f[i-1] \o s[i]
Flattens(f, s, n) == f = [i \in 1..n |-> At(f, s, i)]
Agree(s, t, n) == \A i \in 1..n : s[i] = t[i]

LEMMA AtDepends ==
  ASSUME NEW f, NEW g, NEW s, NEW t, NEW i, s[i] = t[i], i # 1 => f[i-1] = g[i-1]
  PROVE  At(f, s, i) = At(g, t, i)
<1>1. CASE i = 1
  BY <1>1, Zenon DEF At
<1>2. CASE i # 1
  BY <1>2, Zenon DEF At
<1> QED BY <1>1, <1>2

\* The recursion has a solution ...
LEMMA FlattenExists ==
  ASSUME NEW s, NEW n \in Nat
  PROVE  \E f : Flattens(f, s, n)
<1> DEFINE T == {m \in Nat : ~\E f : Flattens(f, s, m)}
<1> SUFFICES ASSUME T # {} PROVE FALSE
  OBVIOUS
<1>1. PICK m \in T : \A k \in T : m <= k
  BY Smallest
<1>2. m \in Nat /\ ~\E f : Flattens(f, s, m)
  OBVIOUS
<1>3. CASE m = 0
  <2> DEFINE f == [i \in 1..0 |-> 0]
  <2>1. f = [i \in 1..0 |-> At(f, s, i)]
    OBVIOUS
  <2> QED BY <1>2, <1>3, <2>1 DEF Flattens
<1>4. CASE m # 0
  <2>1. m - 1 \in Nat /\ m - 1 \notin T
    BY <1>1, <1>2, <1>4
  <2>2. PICK f : Flattens(f, s, m - 1)
    BY <2>1
  <2> DEFINE g == [i \in 1..m |-> At(f, s, i)]
  <2>3. ASSUME NEW i \in 1..m PROVE At(f, s, i) = At(g, s, i)
    <3>1. ASSUME i # 1 PROVE f[i-1] = g[i-1]
      <4>1. i - 1 \in 1..m-1 /\ i - 1 \in 1..m
        BY <1>2, <3>1
      <4> QED BY <2>2, <4>1 DEF Flattens
    <3> QED BY <3>1, AtDepends
  <2>4. g = [i \in 1..m |-> At(g, s, i)]
    BY <2>3
  <2> HIDE DEF g
  <2> QED BY <1>2, <2>4 DEF Flattens
<1> QED BY <1>3, <1>4

\* ... and, as far as two sequences agree, only one.
LEMMA FlattenUnique ==
  ASSUME NEW s, NEW t, NEW n \in Nat, NEW m \in Nat, m <= n, Agree(s, t, m),
         NEW f, Flattens(f, s, n), NEW g, Flattens(g, t, m)
  PROVE  Agree(f, g, m)
<1> USE DEF Agree
<1> DEFINE T == {i \in 1..m : f[i] # g[i]}
<1> SUFFICES ASSUME T # {} PROVE FALSE
  OBVIOUS
<1>1. T \subseteq Nat
  OBVIOUS
<1>2. PICK i \in T : \A k \in T : i <= k
  BY <1>1, Smallest
<1>3. i \in 1..m /\ i \in 1..n /\ f[i] # g[i] /\ i \in Nat
  OBVIOUS
<1>4. ASSUME i # 1 PROVE f[i-1] = g[i-1]
  <2>1. i - 1 \in 1..m /\ ~(i <= i - 1)
    BY <1>3, <1>4
  <2>2. i - 1 \notin T
    BY <1>2, <2>1
  <2> QED BY <2>1, <2>2
<1>5. At(f, s, i) = At(g, t, i)
  BY <1>3, <1>4, AtDepends
<1>6. f[i] = At(f, s, i) /\ g[i] = At(g, t, i)
  BY <1>3 DEF Flattens
<1> QED BY <1>3, <1>5, <1>6

LEMMA FlattenValue ==
  ASSUME NEW S, NEW s \in Seq(S), s # <<>>, NEW f, Flattens(f, s, Len(s))
  PROVE  FlattenSeq(s) = f[Len(s)]
<1>1. Len(s) \in Nat /\ Len(s) # 0
  OBVIOUS
<1> DEFINE flatten == CHOOSE g : g = [i \in 1..Len(s) |-> IF i = 1 THEN s[i] ELSE g[i-1] \o s[i]]
<1>2. FlattenSeq(s) = flatten[Len(s)]
  BY <1>1, Zenon DEF FlattenSeq
<1>3. flatten = CHOOSE g : Flattens(g, s, Len(s))
  BY Zenon DEF Flattens, At
<1>4. Flattens(flatten, s, Len(s))
  BY <1>3, Zenon
<1> HIDE DEF flatten
<1>5. Agree(s, s, Len(s)) /\ Len(s) <= Len(s)
  BY <1>1 DEF Agree
<1>6. Agree(flatten, f, Len(s))
  BY <1>1, <1>4, <1>5, FlattenUnique
<1>7. Len(s) \in 1..Len(s)
  BY <1>1
<1> QED BY <1>2, <1>6, <1>7 DEF Agree

\* The first j elements of s, joined.
Prefix(s, j) == FlattenSeq(SubSeq(s, 1, j))

LEMMA PrefixFacts ==
  ASSUME NEW S, NEW s \in Seq(S), NEW j \in 0..Len(s)
  PROVE  /\ SubSeq(s, 1, j) \in Seq(S) /\ Len(SubSeq(s, 1, j)) = j
         /\ \A i \in 1..j : SubSeq(s, 1, j)[i] = s[i]
<1>1. Len(s) \in Nat /\ j \in Nat /\ j <= Len(s)
  OBVIOUS
<1>2. \A i \in 1..j : s[i] \in S
  <2>1. \A i \in 1..j : i \in 1..Len(s)
    BY <1>1
  <2> QED BY <2>1, ElementOfSeq
<1>3. SubSeq(s, 1, j) = [i \in 1..j |-> s[i]]
  BY <1>1
<1> QED BY <1>1, <1>2, <1>3

\* A prefix is the one before it and one element more.
LEMMA PrefixStep ==
  ASSUME NEW S, NEW s \in Seq(Seq(S)), NEW j \in 1..Len(s)
  PROVE  Prefix(s, j) = Prefix(s, j - 1) \o s[j]
<1>1. Len(s) \in Nat /\ j \in 0..Len(s) /\ j - 1 \in 0..Len(s) /\ j \in Nat /\ j - 1 \in Nat /\ j # 0
  OBVIOUS
<1> DEFINE p == SubSeq(s, 1, j)
           q == SubSeq(s, 1, j - 1)
<1>2. p \in Seq(Seq(S)) /\ Len(p) = j /\ \A i \in 1..j : p[i] = s[i]
  BY <1>1, PrefixFacts
<1>3. q \in Seq(Seq(S)) /\ Len(q) = j - 1 /\ \A i \in 1..j-1 : q[i] = s[i]
  BY <1>1, PrefixFacts
<1>4. s[j] \in Seq(S)
  BY ElementOfSeq
<1> HIDE DEF p, q
<1>5. PICK f : Flattens(f, p, j)
  BY <1>1, FlattenExists
<1>6. PICK g : Flattens(g, q, j - 1)
  BY <1>1, FlattenExists
<1>7. FlattenSeq(p) = f[j]
  <2>1. p # <<>>
    BY <1>1, <1>2
  <2> QED BY <1>2, <1>5, <2>1, FlattenValue
<1>8. j \in 1..j
  BY <1>1
<1>9. f[j] = At(f, p, j)
  BY <1>5, <1>8 DEF Flattens
<1>10. CASE j = 1
  <2>1. q = <<>>
    BY <1>3, <1>10
  <2>2. FlattenSeq(q) = <<>>
    BY <2>1 DEF FlattenSeq
  <2>3. FlattenSeq(p) = s[j]
    BY <1>2, <1>7, <1>8, <1>9, <1>10, Zenon DEF At
  <2>4. <<>> \o s[j] = s[j]
    BY <1>4
  <2> QED BY <2>2, <2>3, <2>4, Zenon DEF Prefix, p, q
<1>11. CASE j # 1
  <2>1. j - 1 \in 1..j-1 /\ q # <<>> /\ j - 1 <= j
    BY <1>1, <1>3, <1>11
  <2>2. FlattenSeq(q) = g[j-1]
    BY <1>3, <1>6, <2>1, FlattenValue
  <2>3. \A i \in 1..j-1 : p[i] = q[i]
    <3>1. \A i \in 1..j-1 : i \in 1..j
      BY <1>1
    <3> QED BY <1>2, <1>3, <3>1
  <2>4. f[j-1] = g[j-1]
    <3> DEFINE k == j - 1
    <3>1. k \in Nat /\ k <= j /\ k \in 1..k /\ Flattens(g, q, k) /\ Agree(p, q, k)
      BY <1>1, <1>6, <2>1, <2>3 DEF Agree
    <3> HIDE DEF k
    <3>2. Agree(f, g, k)
      BY <1>1, <1>5, <3>1, FlattenUnique
    <3>3. f[k] = g[k]
      BY <3>1, <3>2 DEF Agree
    <3> QED BY <3>3 DEF k
  <2>5. f[j] = f[j-1] \o s[j]
    BY <1>2, <1>8, <1>9, <1>11, Zenon DEF At
  <2> QED BY <1>7, <2>2, <2>4, <2>5, Zenon DEF Prefix, p, q
<1> QED BY <1>10, <1>11

\* The whole is a prefix of itself, and nothing is one too.
LEMMA PrefixEnds ==
  ASSUME NEW S, NEW s \in Seq(Seq(S))
  PROVE  Prefix(s, 0) = <<>> /\ Prefix(s, Len(s)) = FlattenSeq(s)
<1>1. 0 \in 0..Len(s) /\ Len(s) \in 0..Len(s)
  OBVIOUS
<1>2. SubSeq(s, 1, 0) = <<>>
  <2>1. SubSeq(s, 1, 0) \in Seq(Seq(S)) /\ Len(SubSeq(s, 1, 0)) = 0
    BY <1>1, PrefixFacts
  <2> QED BY <2>1
<1>3. SubSeq(s, 1, Len(s)) = s
  <2>1. /\ SubSeq(s, 1, Len(s)) \in Seq(Seq(S)) /\ Len(SubSeq(s, 1, Len(s))) = Len(s)
        /\ \A i \in 1..Len(s) : SubSeq(s, 1, Len(s))[i] = s[i]
    BY <1>1, PrefixFacts
  <2> DEFINE p == SubSeq(s, 1, Len(s))
  <2> HIDE DEF p
  <2> SUFFICES p = s
    BY DEF p
  <2>2. p \in Seq(Seq(S)) /\ Len(p) = Len(s) /\ \A i \in 1..Len(s) : p[i] = s[i]
    BY <2>1 DEF p
  <2> QED BY <2>2, SeqEqual
<1>4. FlattenSeq(<<>>) = <<>>
  BY DEF FlattenSeq
<1> QED BY <1>2, <1>3, <1>4, Zenon DEF Prefix

\* Every prefix is a sequence, and so is the whole.
LEMMA PrefixType ==
  ASSUME NEW S, NEW s \in Seq(Seq(S)), NEW j \in 0..Len(s)
  PROVE  Prefix(s, j) \in Seq(S)
<1> DEFINE T == {i \in 0..Len(s) : Prefix(s, i) \notin Seq(S)}
<1> SUFFICES ASSUME T # {} PROVE FALSE
  OBVIOUS
<1>1. T \subseteq Nat
  OBVIOUS
<1>2. PICK m \in T : \A k \in T : m <= k
  BY <1>1, Smallest
<1>3. m \in 0..Len(s) /\ Prefix(s, m) \notin Seq(S)
  OBVIOUS
<1>4. CASE m = 0
  <2>1. <<>> \in Seq(S)
    OBVIOUS
  <2> QED BY <1>3, <1>4, <2>1, PrefixEnds, Zenon
<1>5. CASE m # 0
  <2>1. m \in 1..Len(s) /\ m - 1 \in 0..Len(s) /\ ~(m <= m - 1)
    BY <1>3, <1>5
  <2>2. Prefix(s, m - 1) \in Seq(S)
    BY <1>2, <2>1
  <2>3. s[m] \in Seq(S)
    BY <2>1, ElementOfSeq
  <2>4. Prefix(s, m - 1) \o s[m] \in Seq(S)
    BY <2>2, <2>3, ConcatProperties
  <2> QED BY <1>3, <2>1, <2>4, PrefixStep, Zenon
<1> QED BY <1>4, <1>5

\* A slice of a sequence, possibly empty.
LEMMA SliceFacts ==
  ASSUME NEW S, NEW buf \in Seq(S), NEW i \in 1..Len(buf)+1, NEW j \in i-1..Len(buf)
  PROVE  /\ SubSeq(buf, i, j) \in Seq(S) /\ Len(SubSeq(buf, i, j)) = j - i + 1
         /\ \A k \in 1..j-i+1 : SubSeq(buf, i, j)[k] = buf[i + k - 1]
<1> DEFINE n == j - i + 1
           t == [k \in 1..n |-> buf[i + k - 1]]
<1>1. Len(buf) \in Nat /\ i \in Int /\ j \in Int /\ n \in Nat
  OBVIOUS
<1>2. SubSeq(buf, i, j) = t
  BY <1>1
<1>3. \A k \in 1..n : buf[i + k - 1] \in S
  <2>1. \A k \in 1..n : i + k - 1 \in 1..Len(buf)
    BY <1>1
  <2> QED BY <2>1, ElementOfSeq
<1> HIDE DEF n
<1>4. t \in Seq(S) /\ Len(t) = n /\ \A k \in 1..n : t[k] = buf[i + k - 1]
  BY <1>1, <1>3
<1> HIDE DEF t
<1>5. /\ SubSeq(buf, i, j) \in Seq(S) /\ Len(SubSeq(buf, i, j)) = n
      /\ \A k \in 1..n : SubSeq(buf, i, j)[k] = buf[i + k - 1]
  BY <1>2, <1>4, Zenon
<1> QED BY <1>5, Zenon DEF n

\* Where element j of s ends in the whole.
EndAt(s, j) == Len(Prefix(s, j))

LEMMA JoinEnds ==
  ASSUME NEW S, NEW s \in Seq(Seq(S))
  PROVE  /\ EndAt(s, 0) = 0 /\ EndAt(s, Len(s)) = Len(FlattenSeq(s)) /\ FlattenSeq(s) \in Seq(S)
         /\ \A j \in 0..Len(s) : EndAt(s, j) \in Nat
         /\ \A j \in 1..Len(s) : EndAt(s, j) = EndAt(s, j - 1) + Len(s[j])
<1>1. Len(s) \in Nat
  OBVIOUS
<1>3. Prefix(s, 0) = <<>> /\ Prefix(s, Len(s)) = FlattenSeq(s)
  BY PrefixEnds
<1>4. \A j \in 0..Len(s) : Prefix(s, j) \in Seq(S)
  BY PrefixType
<1>5. ASSUME NEW j \in 1..Len(s) PROVE EndAt(s, j) = EndAt(s, j - 1) + Len(s[j])
  <2>1. j - 1 \in 0..Len(s)
    BY <1>1
  <2>2. Prefix(s, j - 1) \in Seq(S) /\ s[j] \in Seq(S)
    BY <1>4, <2>1, ElementOfSeq
  <2>3. Len(Prefix(s, j - 1) \o s[j]) = Len(Prefix(s, j - 1)) + Len(s[j])
    BY <2>2, ConcatProperties
  <2>4. Prefix(s, j) = Prefix(s, j - 1) \o s[j]
    BY PrefixStep
  <2> QED BY <2>3, <2>4, Zenon DEF EndAt
<1>6. EndAt(s, 0) = 0 /\ EndAt(s, Len(s)) = Len(FlattenSeq(s))
  <2>1. Len(<<>>) = 0
    OBVIOUS
  <2> QED BY <1>3, <2>1, Zenon DEF EndAt
<1>7. FlattenSeq(s) \in Seq(S)
  <2>1. Len(s) \in 0..Len(s)
    BY <1>1
  <2> QED BY <1>3, <1>4, <2>1, Zenon
<1>8. \A j \in 0..Len(s) : EndAt(s, j) \in Nat
  BY <1>4, LenProperties DEF EndAt
<1> QED BY <1>5, <1>6, <1>7, <1>8

LEMMA JoinMonotone ==
  ASSUME NEW S, NEW s \in Seq(Seq(S)), NEW i \in 0..Len(s), NEW j \in i..Len(s)
  PROVE  EndAt(s, i) <= EndAt(s, j)
<1> DEFINE T == {k \in i..Len(s) : ~(EndAt(s, i) <= EndAt(s, k))}
<1> SUFFICES ASSUME T # {} PROVE FALSE
  OBVIOUS
<1>0. Len(s) \in Nat
  OBVIOUS
<1>1. T \subseteq Nat
  BY <1>0
<1>2. PICK m \in T : \A k \in T : m <= k
  BY <1>1, Smallest
<1>3. m \in i..Len(s) /\ ~(EndAt(s, i) <= EndAt(s, m)) /\ EndAt(s, i) \in Nat
  BY JoinEnds
<1>4. m # i
  BY <1>3
<1>5. m - 1 \in i..Len(s) /\ m \in 1..Len(s) /\ m - 1 \in 0..Len(s) /\ ~(m <= m - 1)
  BY <1>0, <1>3, <1>4
<1>6. EndAt(s, i) <= EndAt(s, m - 1)
  BY <1>2, <1>5
<1>7. EndAt(s, m) = EndAt(s, m - 1) + Len(s[m]) /\ EndAt(s, m - 1) \in Nat /\ Len(s[m]) \in Nat
  <2>1. s[m] \in Seq(S)
    BY <1>5, ElementOfSeq
  <2> QED BY <1>5, <2>1, JoinEnds, LenProperties
<1> QED BY <1>3, <1>6, <1>7

\* Element j is in the whole where the elements before it end.
LEMMA JoinAt ==
  ASSUME NEW S, NEW s \in Seq(Seq(S)), NEW j \in 1..Len(s), NEW k \in 1..Len(s[j])
  PROVE  FlattenSeq(s)[EndAt(s, j - 1) + k] = s[j][k]
<1> DEFINE x == EndAt(s, j - 1) + k
           T == {m \in j..Len(s) : Prefix(s, m)[x] # s[j][k]}
<1>0. Len(s) \in Nat /\ j \in Nat /\ Len(s[j]) \in Nat /\ j - 1 \in 0..Len(s)
  BY ElementOfSeq, LenProperties
<1>1. EndAt(s, j - 1) \in Nat /\ x \in Nat \ {0} /\ x <= EndAt(s, j - 1) + Len(s[j])
  <2> DEFINE e == EndAt(s, j - 1)
             l == Len(s[j])
  <2>1. e \in Nat /\ l \in Nat /\ k \in 1..l
    BY <1>0, JoinEnds
  <2> HIDE DEF e, l
  <2>2. e + k \in Nat \ {0} /\ e + k <= e + l
    BY <2>1
  <2> QED BY <2>1, <2>2 DEF e, l
<1>2. ASSUME T # {} PROVE FALSE
  <2>1. T \subseteq Nat
    BY <1>0
  <2>2. PICK m \in T : \A l \in T : m <= l
    BY <1>2, <2>1, Smallest
  <2>3. m \in j..Len(s) /\ Prefix(s, m)[x] # s[j][k]
    OBVIOUS
  <2>4. m \in 1..Len(s) /\ m - 1 \in 0..Len(s)
    BY <1>0, <2>3
  <2> DEFINE p == Prefix(s, m - 1)
             u == s[m]
  <2>5. p \in Seq(S) /\ u \in Seq(S) /\ Len(p) = EndAt(s, m - 1) /\ Prefix(s, m) = p \o u
    <3>1. p \in Seq(S) /\ u \in Seq(S)
      BY <2>4, PrefixType, ElementOfSeq
    <3>2. Prefix(s, m) = p \o u
      BY <2>4, PrefixStep
    <3>3. Len(p) = EndAt(s, m - 1)
      BY Zenon DEF EndAt
    <3> QED BY <3>1, <3>2, <3>3, Zenon
  <2> HIDE DEF p, u
  <2>6. CASE m = j
    <3>1. Len(p) = EndAt(s, j - 1) /\ u = s[j] /\ Len(u) = Len(s[j])
      BY <2>5, <2>6 DEF u
    <3>2. x \in 1..Len(p)+Len(u) /\ ~(x <= Len(p)) /\ x - Len(p) = k
      BY <1>0, <1>1, <3>1, SMTT(30)
    <3>3. (p \o u)[x] = u[k]
      <4> HIDE DEF x
      <4>1. (p \o u)[x] = IF x <= Len(p) THEN p[x] ELSE u[x - Len(p)]
        BY <2>5, <3>2, ConcatProperties
      <4> QED BY <3>2, <4>1, Zenon
    <3>4. (p \o u)[x] = s[j][k]
      BY <3>1, <3>3, Zenon
    <3> QED BY <2>3, <2>5, <3>4, Zenon
  <2>7. CASE m # j
    <3>1. m - 1 \in j..Len(s) /\ ~(m <= m - 1)
      BY <1>0, <2>3, <2>7
    <3>2. p[x] = s[j][k]
      BY <2>2, <3>1 DEF p
    <3>3. x <= Len(p)
      <4>1. EndAt(s, j) <= EndAt(s, m - 1) /\ EndAt(s, j) = EndAt(s, j - 1) + Len(s[j])
        <5>1. j \in 0..Len(s) /\ j \in 1..Len(s) /\ m - 1 \in j..Len(s)
          BY <1>0, <3>1
        <5> QED BY <5>1, JoinMonotone, JoinEnds
      <4>2. EndAt(s, m - 1) \in Nat
        BY <2>4, JoinEnds
      <4>3. x \in Nat /\ EndAt(s, j) \in Nat /\ x <= EndAt(s, j)
        <5>1. x <= EndAt(s, j) /\ x \in Nat
          BY <1>1, <4>1, Zenon
        <5>2. j \in 0..Len(s)
          BY <1>0
        <5>3. EndAt(s, j) \in Nat
          BY <5>2, JoinEnds, Zenon
        <5> QED BY <5>1, <5>3, Zenon
      <4>4. Len(p) = EndAt(s, m - 1)
        BY <2>5
      <4> HIDE DEF x
      <4> QED BY <4>1, <4>2, <4>3, <4>4
    <3>4. x \in 1..Len(p)+Len(u) /\ Len(u) \in Nat /\ Len(p) \in Nat
      <4>1. Len(u) \in Nat /\ Len(p) \in Nat
        BY <2>5, LenProperties
      <4> HIDE DEF x
      <4> QED BY <1>1, <3>3, <4>1
    <3>5. (p \o u)[x] = p[x]
      BY <2>5, <3>3, <3>4, ConcatProperties
    <3> QED BY <2>3, <2>5, <3>2, <3>5, Zenon
  <2> QED BY <2>6, <2>7
<1>3. Len(s) \in j..Len(s)
  BY <1>0
<1>4. Prefix(s, Len(s))[x] = s[j][k]
  BY <1>2, <1>3
<1>5. Prefix(s, Len(s)) = FlattenSeq(s)
  BY PrefixEnds
<1> QED BY <1>4, <1>5, Zenon

\* Every place of the whole belongs to an element.
LEMMA JoinPlace ==
  ASSUME NEW S, NEW s \in Seq(Seq(S)), NEW m \in 1..Len(FlattenSeq(s))
  PROVE  \E j \in 1..Len(s) : \E k \in 1..Len(s[j]) : m = EndAt(s, j - 1) + k
<1> DEFINE T == {j \in 0..Len(s) : m <= EndAt(s, j)}
<1>1. Len(s) \in Nat /\ T \subseteq Nat
  OBVIOUS
<1>2. Len(s) \in T
  <2>1. EndAt(s, Len(s)) = Len(FlattenSeq(s)) /\ FlattenSeq(s) \in Seq(S)
    BY JoinEnds
  <2>2. Len(FlattenSeq(s)) \in Nat
    BY <2>1, LenProperties
  <2> QED BY <1>1, <2>1, <2>2
<1>3. PICK j \in T : \A i \in T : j <= i
  BY <1>1, <1>2, Smallest
<1>4. j \in 0..Len(s) /\ m <= EndAt(s, j) /\ m \in Nat /\ 1 <= m
  OBVIOUS
<1>5. j # 0
  BY <1>4, JoinEnds
<1>6. j \in 1..Len(s) /\ j - 1 \in 0..Len(s) /\ ~(j <= j - 1)
  BY <1>1, <1>4, <1>5
<1>7. ~(m <= EndAt(s, j - 1))
  BY <1>3, <1>6
<1>8. EndAt(s, j - 1) \in Nat /\ EndAt(s, j) = EndAt(s, j - 1) + Len(s[j]) /\ Len(s[j]) \in Nat
  <2>1. s[j] \in Seq(S)
    BY <1>6, ElementOfSeq
  <2> QED BY <1>6, <2>1, JoinEnds, LenProperties
<1> DEFINE e == EndAt(s, j - 1)
           l == Len(s[j])
           k == m - e
<1>9. e \in Nat /\ l \in Nat /\ ~(m <= e) /\ m <= e + l
  BY <1>4, <1>7, <1>8
<1>10. k \in 1..l /\ m = e + k
  <2> HIDE DEF e, l
  <2> QED BY <1>4, <1>9
<1> QED BY <1>6, <1>10

\* Where an element ends depends only on the lengths.
LEMMA EndsAgree ==
  ASSUME NEW S, NEW R, NEW s \in Seq(Seq(S)), NEW t \in Seq(Seq(R)), Len(s) = Len(t),
         \A i \in 1..Len(s) : Len(s[i]) = Len(t[i])
  PROVE  \A j \in 0..Len(s) : EndAt(s, j) = EndAt(t, j)
<1> DEFINE T == {j \in 0..Len(s) : EndAt(s, j) # EndAt(t, j)}
<1> SUFFICES ASSUME T # {} PROVE FALSE
  OBVIOUS
<1>1. T \subseteq Nat /\ Len(s) \in Nat
  OBVIOUS
<1>2. PICK j \in T : \A i \in T : j <= i
  BY <1>1, Smallest
<1>3. j \in 0..Len(s) /\ EndAt(s, j) # EndAt(t, j)
  OBVIOUS
<1>4. j # 0
  BY <1>3, JoinEnds
<1>5. j \in 1..Len(s) /\ j - 1 \in 0..Len(s) /\ ~(j <= j - 1)
  BY <1>1, <1>3, <1>4
<1>6. EndAt(s, j - 1) = EndAt(t, j - 1)
  BY <1>2, <1>5
<1>7. EndAt(s, j) = EndAt(s, j - 1) + Len(s[j])
  BY <1>5, JoinEnds
<1>8. EndAt(t, j) = EndAt(t, j - 1) + Len(t[j])
  <2>1. j \in 1..Len(t)
    BY <1>5
  <2> QED BY <2>1, JoinEnds
<1> QED BY <1>3, <1>5, <1>6, <1>7, <1>8, Zenon

\* The join of one sequence after another.
LEMMA JoinConcat ==
  ASSUME NEW S, NEW s \in Seq(Seq(S)), NEW t \in Seq(Seq(S))
  PROVE  FlattenSeq(s \o t) = FlattenSeq(s) \o FlattenSeq(t)
<1> DEFINE st == s \o t
           n == Len(s)
           W == Seq(S)
<1>1. n \in Nat /\ Len(t) \in Nat
  OBVIOUS
<1>2. /\ st \in Seq(Seq(S)) /\ Len(st) = n + Len(t)
      /\ \A i \in 1..n+Len(t) : st[i] = IF i <= n THEN s[i] ELSE t[i - n]
  <2>1. s \in Seq(W) /\ t \in Seq(W)
    OBVIOUS
  <2> HIDE DEF W
  <2>2. /\ st \in Seq(W) /\ Len(st) = n + Len(t)
        /\ \A i \in 1..n+Len(t) : st[i] = IF i <= n THEN s[i] ELSE t[i - n]
    BY <2>1, ConcatProperties
  <2> QED BY <2>2 DEF W
<1> HIDE DEF st, W
<1>3. FlattenSeq(s) \in Seq(S)
  BY JoinEnds
<1> DEFINE T == {j \in 0..Len(t) : Prefix(st, n + j) # FlattenSeq(s) \o Prefix(t, j)}
<1>4. ASSUME T # {} PROVE FALSE
  <2>1. T \subseteq Nat
    BY <1>1
  <2>2. PICK j \in T : \A i \in T : j <= i
    BY <1>4, <2>1, Smallest
  <2>3. j \in 0..Len(t) /\ Prefix(st, n + j) # FlattenSeq(s) \o Prefix(t, j)
    OBVIOUS
  <2>4. CASE j = 0
    <3>1. SubSeq(st, 1, n) = s
      <4>1. n \in 0..Len(st)
        BY <1>1, <1>2
      <4>2. /\ SubSeq(st, 1, n) \in Seq(Seq(S)) /\ Len(SubSeq(st, 1, n)) = n
            /\ \A i \in 1..n : SubSeq(st, 1, n)[i] = st[i]
        BY <1>2, <4>1, PrefixFacts
      <4>3. \A i \in 1..n : st[i] = s[i]
        <5>1. \A i \in 1..n : i \in 1..n+Len(t) /\ i <= n
          BY <1>1
        <5> QED BY <1>2, <5>1
      <4> DEFINE p == SubSeq(st, 1, n)
      <4>4. p \in Seq(Seq(S)) /\ Len(p) = Len(s) /\ \A i \in 1..Len(p) : p[i] = s[i]
        BY <4>2, <4>3, Zenon
      <4> HIDE DEF p
      <4>5. p = s
        BY <4>4, SeqEqual
      <4> QED BY <4>5 DEF p
    <3>2. Prefix(t, 0) = <<>>
      BY PrefixEnds
    <3>3. FlattenSeq(s) \o <<>> = FlattenSeq(s)
      BY <1>3, ConcatEmptySeq
    <3>4. n + 0 = n
      BY <1>1
    <3> QED BY <2>3, <2>4, <3>1, <3>2, <3>3, <3>4, Zenon DEF Prefix
  <2>5. CASE j # 0
    <3>1. /\ j \in 1..Len(t) /\ j - 1 \in 0..Len(t) /\ ~(j <= j - 1)
          /\ n + j \in 1..Len(st) /\ (n + j) - 1 = n + (j - 1) /\ ~(n + j <= n) /\ (n + j) - n = j
      <4>1. \A l \in Nat : j \in 0..l /\ j # 0 =>
              /\ j \in 1..l /\ j - 1 \in 0..l /\ ~(j <= j - 1)
              /\ n + j \in 1..n+l /\ (n + j) - 1 = n + (j - 1) /\ ~(n + j <= n) /\ (n + j) - n = j
        BY <1>1
      <4> QED BY <1>1, <1>2, <2>3, <2>5, <4>1, Zenon
    <3>2. Prefix(st, n + (j - 1)) = FlattenSeq(s) \o Prefix(t, j - 1)
      BY <2>2, <3>1
    <3>3. Prefix(st, n + j) = Prefix(st, (n + j) - 1) \o st[n + j]
      BY <1>2, <3>1, PrefixStep
    <3>4. st[n + j] = t[j]
      BY <1>2, <3>1
    <3>5. Prefix(t, j) = Prefix(t, j - 1) \o t[j]
      BY <3>1, PrefixStep
    <3>6. Prefix(t, j - 1) \in Seq(S) /\ t[j] \in Seq(S)
      BY <3>1, PrefixType, ElementOfSeq
    <3>7. Cat(Cat(FlattenSeq(s), Prefix(t, j - 1)), t[j]) = Cat(FlattenSeq(s), Cat(Prefix(t, j - 1), t[j]))
      BY <1>3, <3>6, CatAssociative
    <3> QED BY <2>3, <3>1, <3>2, <3>3, <3>4, <3>5, <3>7, Zenon DEF Cat
  <2> QED BY <2>4, <2>5
<1>5. Len(t) \in 0..Len(t)
  BY <1>1
<1>6. Prefix(st, n + Len(t)) = FlattenSeq(s) \o Prefix(t, Len(t))
  BY <1>4, <1>5
<1>7. Prefix(st, Len(st)) = FlattenSeq(st) /\ Prefix(t, Len(t)) = FlattenSeq(t)
  BY <1>2, PrefixEnds
<1> QED BY <1>2, <1>6, <1>7, Zenon DEF st

\* The join of one sequence is that sequence.
LEMMA JoinOne ==
  ASSUME NEW S, NEW x \in Seq(S)
  PROVE  FlattenSeq(<<x>>) = x
<1> DEFINE s == <<x>>
<1>1. s \in Seq(Seq(S)) /\ Len(s) = 1 /\ s[1] = x
  OBVIOUS
<1> HIDE DEF s
<1>2. 1 \in 1..Len(s) /\ 1 - 1 = 0
  BY <1>1
<1>3. Prefix(s, 1) = Prefix(s, 1 - 1) \o s[1]
  BY <1>1, <1>2, PrefixStep
<1>4. Prefix(s, 0) = <<>> /\ Prefix(s, Len(s)) = FlattenSeq(s)
  BY <1>1, PrefixEnds
<1>5. <<>> \o x = x
  BY ConcatEmptySeq
<1>6. FlattenSeq(s) = x
  BY <1>1, <1>2, <1>3, <1>4, <1>5, Zenon
<1> QED BY <1>6 DEF s

\* The join of one-element sequences.
LEMMA JoinSingles ==
  ASSUME NEW S, NEW s \in Seq(S)
  PROVE  FlattenSeq([i \in 1..Len(s) |-> <<s[i]>>]) = s
<1> DEFINE t == [i \in 1..Len(s) |-> <<s[i]>>]
           W == Seq(S)
<1>1. Len(s) \in Nat
  OBVIOUS
<1>2. t \in Seq(W) /\ Len(t) = Len(s) /\ \A i \in 1..Len(s) : Len(t[i]) = 1 /\ t[i][1] = s[i]
  <2>1. \A i \in 1..Len(s) : s[i] \in S
    BY ElementOfSeq
  <2>2. \A i \in 1..Len(s) : <<s[i]>> \in W
    BY <2>1
  <2>3. t \in Seq(W) /\ Len(t) = Len(s)
    <3> HIDE DEF W
    <3> QED BY <1>1, <2>2
  <2> QED BY <2>3
<1>3. t \in Seq(Seq(S))
  BY <1>2
<1> HIDE DEF t, W
<1>4. \A j \in 0..Len(s) : EndAt(t, j) = j
  <2> DEFINE T == {j \in 0..Len(s) : EndAt(t, j) # j}
  <2> SUFFICES ASSUME T # {} PROVE FALSE
    OBVIOUS
  <2>1. T \subseteq Nat
    BY <1>1
  <2>2. PICK j \in T : \A i \in T : j <= i
    BY <2>1, Smallest
  <2>3. j \in 0..Len(s) /\ EndAt(t, j) # j
    OBVIOUS
  <2>4. j # 0
    BY <1>3, <2>3, JoinEnds
  <2>5. j \in 1..Len(t) /\ j \in 1..Len(s) /\ j - 1 \in 0..Len(s) /\ ~(j <= j - 1)
    BY <1>1, <1>2, <2>3, <2>4
  <2>6. EndAt(t, j - 1) = j - 1 /\ EndAt(t, j) = EndAt(t, j - 1) + Len(t[j]) /\ Len(t[j]) = 1
    BY <1>2, <1>3, <2>2, <2>5, JoinEnds
  <2> QED BY <2>3, <2>6
<1> DEFINE u == FlattenSeq(t)
<1>5. u \in Seq(S) /\ Len(u) = Len(s)
  <2>1. Len(s) \in 0..Len(s)
    BY <1>1
  <2> QED BY <1>2, <1>3, <1>4, <2>1, JoinEnds
<1>6. ASSUME NEW i \in 1..Len(s) PROVE u[i] = s[i]
  <2>1. i \in 1..Len(t) /\ 1 \in 1..Len(t[i]) /\ i - 1 \in 0..Len(s) /\ (i - 1) + 1 = i
    BY <1>1, <1>2
  <2>2. u[EndAt(t, i - 1) + 1] = t[i][1]
    BY <1>3, <2>1, JoinAt
  <2>3. EndAt(t, i - 1) = i - 1
    BY <1>4, <2>1
  <2> QED BY <1>2, <2>1, <2>2, <2>3, Zenon
<1> HIDE DEF u
<1>7. u = s
  BY <1>5, <1>6, SeqEqual
<1> QED BY <1>7 DEF u, t

-----------------------------------------------------------------------------
(* Loops over a sequence that collect something at one place and go on at  *)
(* a later one: h is what is collected, g where the loop goes on.          *)

Link(f, h, g, n, i) == IF g[i] \in i+1..n THEN h[i] \o f[g[i]] ELSE h[i]
Chains(f, h, g, lo, n) == f = [i \in lo..n |-> Link(f, h, g, n, i)]

LEMMA ChainExists ==
  ASSUME NEW h, NEW g, NEW n \in Nat, NEW lo \in 0..n
  PROVE  \E f : Chains(f, h, g, lo, n)
<1> DEFINE T == {m \in 0..n+1 : ~\E f : Chains(f, h, g, n + 1 - m, n)}
<1>1. ASSUME T # {} PROVE FALSE
  <2>1. T \subseteq Nat
    OBVIOUS
  <2>2. PICK m \in T : \A k \in T : m <= k
    BY <1>1, <2>1, Smallest
  <2>3. m \in 0..n+1 /\ ~\E f : Chains(f, h, g, n + 1 - m, n)
    OBVIOUS
  <2> DEFINE l == n + 1 - m
  <2>4. l \in Nat
    BY <2>3
  <2>5. CASE m = 0
    <3>1. l..n = {}
      BY <2>5
    <3> DEFINE f == [i \in {} |-> 0]
    <3>2. f = [i \in {} |-> Link(f, h, g, n, i)]
      OBVIOUS
    <3>3. Chains(f, h, g, l, n)
      <4> HIDE DEF f, l
      <4> QED BY <3>1, <3>2, Zenon DEF Chains
    <3> QED BY <2>3, <3>3
  <2>6. CASE m # 0
    <3>1. m - 1 \in 0..n+1 /\ ~(m <= m - 1) /\ n + 1 - (m - 1) = l + 1
      BY <2>3, <2>6
    <3>2. m - 1 \notin T
      BY <2>2, <3>1
    <3>3. PICK f : Chains(f, h, g, n + 1 - (m - 1), n)
      BY <3>1, <3>2
    <3>4. Chains(f, h, g, l + 1, n)
      BY <3>1, <3>3
    <3> HIDE DEF l
    <3> DEFINE e == [i \in l..n |-> Link(f, h, g, n, i)]
    <3>5. ASSUME NEW i \in l..n PROVE Link(f, h, g, n, i) = Link(e, h, g, n, i)
      <4>1. ASSUME g[i] \in i+1..n PROVE f[g[i]] = e[g[i]]
        <5>1. g[i] \in l+1..n /\ g[i] \in l..n
          BY <2>4, <4>1
        <5>2. f[g[i]] = Link(f, h, g, n, g[i])
          BY <3>4, <5>1 DEF Chains
        <5> QED BY <5>1, <5>2
      <4>2. CASE g[i] \in i+1..n
        BY <4>1, <4>2, Zenon DEF Link
      <4>3. CASE g[i] \notin i+1..n
        BY <4>3, Zenon DEF Link
      <4> QED BY <4>2, <4>3
    <3>6. e = [i \in l..n |-> Link(e, h, g, n, i)]
      BY <3>5
    <3> HIDE DEF e
    <3>7. Chains(e, h, g, l, n)
      BY <3>6 DEF Chains
    <3> QED BY <2>3, <3>7 DEF l
  <2> QED BY <2>5, <2>6
<1>2. n + 1 - lo \in 0..n+1 /\ n + 1 - (n + 1 - lo) = lo
  OBVIOUS
<1>3. \E f : Chains(f, h, g, n + 1 - (n + 1 - lo), n)
  BY <1>1, <1>2
<1> QED BY <1>2, <1>3

\* When the loop finds the elements of x one after the other, it collects x.
LEMMA ChainRuns ==
  ASSUME NEW S, NEW x \in Seq(S), x # <<>>, NEW f, NEW pos,
         f[pos[Len(x)]] = <<x[Len(x)]>>,
         \A k \in 1..Len(x)-1 : f[pos[k]] = <<x[k]>> \o f[pos[k + 1]]
  PROVE  f[pos[1]] = x
<1> DEFINE n == Len(x)
           T == {k \in 1..n : f[pos[k]] # SubSeq(x, k, n)}
<1>0. n \in Nat /\ n # 0
  OBVIOUS
<1>1. ASSUME T # {} PROVE FALSE
  <2>1. T \subseteq 0..n
    BY <1>0
  <2>2. PICK k \in T : \A j \in T : j <= k
    BY <1>0, <1>1, <2>1, Largest
  <2>3. k \in 1..n /\ f[pos[k]] # SubSeq(x, k, n)
    OBVIOUS
  <2>4. k \in 1..n+1 /\ n \in k-1..n /\ k + 1 \in 1..n+1 /\ n \in (k+1)-1..n
    BY <1>0, <2>3
  <2> DEFINE a == SubSeq(x, k, n)
             b == SubSeq(x, k + 1, n)
  <2>5. a \in Seq(S) /\ Len(a) = n - k + 1 /\ \A i \in 1..n-k+1 : a[i] = x[k + i - 1]
    BY <2>4, SliceFacts
  <2>6. b \in Seq(S) /\ Len(b) = n - (k + 1) + 1 /\ \A i \in 1..n-(k+1)+1 : b[i] = x[(k + 1) + i - 1]
    BY <2>4, SliceFacts
  <2>7. x[k] \in S
    BY <2>3, ElementOfSeq
  <2> HIDE DEF a, b
  <2> DEFINE c == <<x[k]>> \o b
  <2>8. c = a
    <3>1. <<x[k]>> \in Seq(S) /\ Len(<<x[k]>>) = 1 /\ <<x[k]>>[1] = x[k]
      BY <2>7
    <3>2. c \in Seq(S) /\ Len(c) = 1 + Len(b) /\ \A i \in 1..1+Len(b) : c[i] = IF i <= 1 THEN <<x[k]>>[i] ELSE b[i - 1]
      <4> DEFINE o == <<x[k]>>
      <4>1. o \in Seq(S) /\ Len(o) = 1
        BY <3>1
      <4> HIDE DEF o
      <4>2. /\ o \o b \in Seq(S) /\ Len(o \o b) = Len(o) + Len(b)
            /\ \A i \in 1..Len(o)+Len(b) : (o \o b)[i] = IF i <= Len(o) THEN o[i] ELSE b[i - Len(o)]
        BY <2>6, <4>1, ConcatProperties
      <4> QED BY <4>1, <4>2, Zenon DEF o
    <3> HIDE DEF c
    <3>3. Len(c) = Len(a) /\ Len(c) \in Nat
      BY <1>0, <2>3, <2>5, <2>6, <3>2
    <3>4. ASSUME NEW i \in 1..Len(c) PROVE c[i] = a[i]
      <4>1. i \in 1..n-k+1 /\ i \in 1..1+Len(b)
        BY <2>5, <3>2, <3>3
      <4>2. CASE i = 1
        <5>1. k + i - 1 = k /\ i <= 1
          BY <2>3, <4>2
        <5> QED BY <2>5, <3>1, <3>2, <4>1, <4>2, <5>1, Zenon
      <4>3. CASE i # 1
        <5>1. ~(i <= 1) /\ i - 1 \in 1..n-(k+1)+1 /\ (k + 1) + (i - 1) - 1 = k + i - 1
          BY <1>0, <2>3, <4>1, <4>3
        <5> QED BY <2>5, <2>6, <3>2, <4>1, <5>1, Zenon
      <4> QED BY <4>2, <4>3
    <3> QED BY <2>5, <3>2, <3>3, <3>4, SeqEqual
  <2>9. CASE k = n
    <3>1. b = <<>>
      <4>1. Len(b) = 0
        BY <1>0, <2>6, <2>9
      <4> QED BY <2>6, <4>1
    <3>2. <<x[k]>> \o <<>> = <<x[k]>>
      BY <2>7
    <3> QED BY <2>3, <2>8, <2>9, <3>1, <3>2, Zenon DEF a, c
  <2>10. CASE k # n
    <3>1. k \in 1..n-1 /\ k + 1 \in 1..n /\ ~(k + 1 <= k)
      BY <1>0, <2>3, <2>10
    <3>2. f[pos[k + 1]] = b
      BY <2>2, <3>1 DEF b
    <3>3. f[pos[k]] = <<x[k]>> \o f[pos[k + 1]]
      BY <3>1
    <3> QED BY <2>3, <2>8, <3>2, <3>3, Zenon DEF a, c
  <2> QED BY <2>9, <2>10
<1>2. 1 \in 1..n
  BY <1>0
<1>3. f[pos[1]] = SubSeq(x, 1, n)
  BY <1>1, <1>2
<1>4. SubSeq(x, 1, n) = x
  BY SubSeqFull
<1> QED BY <1>3, <1>4, Zenon

LEMMA Pair ==
  ASSUME NEW S, NEW x \in S, NEW y \in S
  PROVE  <<x>> \o <<y>> = <<x, y>>
<1> DEFINE a == <<x>>
           b == <<y>>
           c == <<x, y>>
<1>1. a \in Seq(S) /\ Len(a) = 1 /\ a[1] = x /\ b \in Seq(S) /\ Len(b) = 1 /\ b[1] = y
  OBVIOUS
<1>2. c \in Seq(S) /\ Len(c) = 2 /\ c[1] = x /\ c[2] = y
  OBVIOUS
<1> HIDE DEF a, b, c
<1>3. /\ a \o b \in Seq(S) /\ Len(a \o b) = Len(a) + Len(b)
      /\ \A i \in 1..Len(a) : (a \o b)[i] = a[i]
      /\ \A i \in 1..Len(b) : (a \o b)[Len(a) + i] = b[i]
  <2>1. a \in Seq(S) /\ b \in Seq(S)
    BY <1>1
  <2> QED BY <2>1, ConcatProperties
<1>4. 1 \in 1..Len(a) /\ 1 \in 1..Len(b) /\ Len(a) + 1 = 2 /\ Len(a) + Len(b) = 2
  BY <1>1
<1>5. (a \o b)[1] = x /\ (a \o b)[2] = y /\ Len(a \o b) = 2
  BY <1>1, <1>3, <1>4, Zenon
<1> DEFINE d == a \o b
<1>6. d \in Seq(S) /\ d[1] = x /\ d[2] = y /\ Len(d) = 2
  BY <1>3, <1>5, Zenon
<1> HIDE DEF d
<1>7. d = c
  BY <1>2, <1>6, SeqEqual
<1> QED BY <1>7, Zenon DEF a, b, c, d

\* What follows a header, and two slices put together.
LEMMA AfterHead ==
  ASSUME NEW S, NEW h \in Seq(S), NEW w \in Seq(S)
  PROVE  SubSeq(h \o w, Len(h) + 1, Len(h \o w)) = w
<1> DEFINE d == h \o w
           m == Len(h)
           n == Len(w)
           u == SubSeq(d, m + 1, Len(d))
<1>1. d \in Seq(S) /\ Len(d) = m + n /\ m \in Nat /\ n \in Nat /\ \A i \in 1..n : d[m + i] = w[i]
  BY ConcatProperties
<1> HIDE DEF d, m, n
<1>3. u \in Seq(S) /\ Len(u) = Len(d) - (m + 1) + 1 /\ \A k \in 1..Len(d) - (m+1) + 1 : u[k] = d[m + 1 + k - 1]
  <2> DEFINE i == m + 1
             j == Len(d)
  <2>1. i \in 1..Len(d)+1 /\ j \in i-1..Len(d) /\ d \in Seq(S)
    BY <1>1
  <2> HIDE DEF i, j
  <2>2. SubSeq(d, i, j) \in Seq(S) /\ Len(SubSeq(d, i, j)) = j - i + 1 /\ \A k \in 1..j-i+1 : SubSeq(d, i, j)[k] = d[i + k - 1]
    BY <2>1, SliceFacts, Zenon
  <2> QED BY <2>2, Zenon DEF i, j
<1> HIDE DEF u
<1>4. Len(d) - (m + 1) + 1 = n
  BY <1>1
<1>5. Len(u) = n /\ \A k \in 1..n : u[k] = d[m + 1 + k - 1]
  BY <1>3, <1>4, Zenon
<1>6. ASSUME NEW k \in 1..n PROVE u[k] = w[k]
  <2>1. m + 1 + k - 1 = m + k
    BY <1>1
  <2> QED BY <1>1, <1>5, <2>1, Zenon
<1>7. Len(u) = Len(w) /\ \A k \in 1..Len(u) : u[k] = w[k]
  BY <1>5, <1>6, Zenon DEF n
<1>8. u = w
  BY <1>3, <1>7, SeqEqual
<1> QED BY <1>8, Zenon DEF u, d, m

LEMMA SlicesJoin ==
  ASSUME NEW S, NEW s \in Seq(S), NEW p \in 0..Len(s), NEW q \in p..Len(s)
  PROVE  SubSeq(s, 1, p) \o SubSeq(s, p + 1, q) = SubSeq(s, 1, q)
<1> DEFINE l == Len(s)
           a == SubSeq(s, 1, p)
           b == SubSeq(s, p + 1, q)
           c == SubSeq(s, 1, q)
           d == a \o b
<1>1. l \in Nat /\ p \in Nat /\ q \in Nat /\ p <= q /\ q <= l
  OBVIOUS
<1>2. a \in Seq(S) /\ Len(a) = p /\ \A i \in 1..p : a[i] = s[i]
  BY PrefixFacts
<1>3. c \in Seq(S) /\ Len(c) = q /\ \A i \in 1..q : c[i] = s[i]
  <2>1. q \in 0..Len(s)
    BY <1>1
  <2> QED BY <2>1, PrefixFacts
<1>4. b \in Seq(S) /\ Len(b) = q - (p + 1) + 1 /\ \A k \in 1..q-(p+1)+1 : b[k] = s[p + 1 + k - 1]
  <2> DEFINE i == p + 1
  <2>1. i \in 1..Len(s)+1 /\ q \in i-1..Len(s)
    BY <1>1
  <2> HIDE DEF i
  <2>2. SubSeq(s, i, q) \in Seq(S) /\ Len(SubSeq(s, i, q)) = q - i + 1 /\ \A k \in 1..q-i+1 : SubSeq(s, i, q)[k] = s[i + k - 1]
    BY <2>1, SliceFacts, Zenon
  <2> QED BY <2>2, Zenon DEF i
<1>5. a \in Seq(S) /\ b \in Seq(S)
  BY <1>2, <1>4
<1> HIDE DEF a, b, c, l
<1>6. d \in Seq(S) /\ Len(d) = Len(a) + Len(b) /\ (\A i \in 1..Len(a) : d[i] = a[i]) /\ \A i \in 1..Len(b) : d[Len(a) + i] = b[i]
  BY <1>5, ConcatProperties
<1> HIDE DEF d
<1>7. q - (p + 1) + 1 = q - p /\ p + (q - p) = q
  BY <1>1
<1>8. Len(d) = q /\ (\A i \in 1..p : d[i] = a[i]) /\ \A i \in 1..q-p : d[p + i] = b[i]
  BY <1>2, <1>4, <1>6, <1>7, Zenon
<1>9. ASSUME NEW i \in 1..q PROVE d[i] = c[i]
  <2>1. CASE i <= p
    <3>1. i \in 1..p
      BY <2>1, <1>1
    <3> QED BY <1>2, <1>3, <1>8, <3>1, Zenon
  <2>2. CASE i > p
    <3> DEFINE k == i - p
    <3>1. k \in 1..q-p /\ p + k = i /\ p + 1 + k - 1 = i
      BY <1>1, <2>2
    <3> HIDE DEF k
    <3>2. d[i] = b[k]
      BY <1>8, <3>1, Zenon
    <3>3. b[k] = s[i]
      BY <1>4, <1>7, <3>1, Zenon
    <3> QED BY <1>3, <3>2, <3>3, Zenon
  <2> QED BY <1>1, <2>1, <2>2
<1>10. d = c
  BY <1>3, <1>6, <1>8, <1>9, SeqEqual
<1> QED BY <1>10, Zenon DEF a, b, c, d

LEMMA TailSlice ==
  ASSUME NEW S, NEW s \in Seq(S), s # <<>>, NEW p \in 1..Len(s), NEW q \in p-1..Len(s)-1
  PROVE  SubSeq(Tail(s), p, q) = SubSeq(s, p + 1, q + 1)
<1> DEFINE t == Tail(s)
           n == Len(s)
           a == SubSeq(t, p, q)
           b == SubSeq(s, p + 1, q + 1)
<1>1. t \in Seq(S) /\ Len(t) = n - 1 /\ n \in Nat /\ n > 0 /\ \A i \in 1..n-1 : t[i] = s[i + 1]
  BY HeadTailProperties, EmptySeq
<1>2. p \in Nat /\ q \in Int /\ p <= n /\ p - 1 <= q /\ q <= n - 1 /\ 1 <= p
  BY <1>1
<1>3. b \in Seq(S) /\ Len(b) = (q + 1) - (p + 1) + 1 /\ \A k \in 1..(q+1)-(p+1)+1 : b[k] = s[p + 1 + k - 1]
  <2> DEFINE i == p + 1
             j == q + 1
  <2>1. i \in 1..Len(s)+1 /\ j \in i-1..Len(s)
    BY <1>1, <1>2
  <2> HIDE DEF i, j
  <2>2. SubSeq(s, i, j) \in Seq(S) /\ Len(SubSeq(s, i, j)) = j - i + 1 /\ \A k \in 1..j-i+1 : SubSeq(s, i, j)[k] = s[i + k - 1]
    BY <2>1, SliceFacts, Zenon
  <2> QED BY <2>2, Zenon DEF i, j
<1>4. a \in Seq(S) /\ Len(a) = q - p + 1 /\ \A k \in 1..q-p+1 : a[k] = t[p + k - 1]
  <2> HIDE DEF t
  <2>1. p \in 1..Len(t)+1 /\ q \in p-1..Len(t) /\ t \in Seq(S)
    BY <1>1, <1>2
  <2> QED BY <2>1, SliceFacts, Zenon
<1>5. (q + 1) - (p + 1) + 1 = q - p + 1
  BY <1>2
<1> HIDE DEF a, b, t, n
<1>6. Len(a) = Len(b)
  BY <1>3, <1>4, <1>5, Zenon
<1>7. ASSUME NEW k \in 1..Len(a) PROVE a[k] = b[k]
  <2> DEFINE x == p + k - 1
  <2>1. k \in 1..q-p+1
    BY <1>4, Zenon
  <2>2. x \in 1..n-1 /\ p + 1 + k - 1 = x + 1
    BY <2>1, <1>1, <1>2
  <2> HIDE DEF x
  <2>3. a[k] = t[x]
    BY <1>4, <2>1, Zenon DEF x
  <2>4. b[k] = s[x + 1]
    BY <1>3, <1>5, <2>1, <2>2, Zenon
  <2> QED BY <1>1, <2>2, <2>3, <2>4, Zenon
<1>8. a = b
  BY <1>3, <1>4, <1>6, <1>7, SeqEqual
<1> QED BY <1>8, Zenon DEF a, b, t

\* One more piece, and two sequences joined before or after each element is mapped.
LEMMA JoinAppend ==
  ASSUME NEW S, NEW s \in Seq(Seq(S)), NEW x \in Seq(S)
  PROVE  FlattenSeq(Append(s, x)) = FlattenSeq(s) \o x
<1> DEFINE W == Seq(S)
<1>1. <<x>> \in Seq(W)
  OBVIOUS
<1>2. Append(s, x) = s \o <<x>>
  BY AppendIsConcat
<1>3. FlattenSeq(s \o <<x>>) = FlattenSeq(s) \o FlattenSeq(<<x>>)
  BY <1>1, JoinConcat
<1>4. FlattenSeq(<<x>>) = x
  BY JoinOne
<1> QED BY <1>2, <1>3, <1>4, Zenon

Mapped(g, a) == [i \in 1..Len(a) |-> g[a[i]]]
MapJoins(g, a, b) == FlattenSeq(Mapped(g, a \o b)) = FlattenSeq(Mapped(g, a)) \o FlattenSeq(Mapped(g, b))

LEMMA JoinMapped ==
  ASSUME NEW S, NEW T, NEW g, \A x \in S : g[x] \in Seq(T), NEW a \in Seq(S), NEW b \in Seq(S)
  PROVE  /\ Mapped(g, a) \in Seq(Seq(T))
         /\ MapJoins(g, a, b)
<1> DEFINE W == Seq(T)
           c == a \o b
           u == Mapped(g, a)
           v == Mapped(g, b)
           w == Mapped(g, c)
           z == u \o v
           m == Len(a)
           n == Len(b)
<1>0. m \in Nat /\ n \in Nat
  OBVIOUS
<1>1. /\ c \in Seq(S) /\ Len(c) = m + n /\ (\A i \in 1..m : c[i] = a[i]) /\ \A i \in 1..n : c[m + i] = b[i]
  BY ConcatProperties
<1>2. (\A i \in 1..m : a[i] \in S) /\ (\A i \in 1..n : b[i] \in S)
  BY ElementOfSeq
<1>3. \A i \in 1..m+n : c[i] \in S
  <2> HIDE DEF c
  <2> QED BY <1>1, ElementOfSeq
<1> HIDE DEF c
<1>4. u \in Seq(W) /\ Len(u) = m /\ \A i \in 1..m : u[i] = g[a[i]]
  <2>1. \A i \in 1..m : g[a[i]] \in W
    BY <1>2
  <2> HIDE DEF W, m
  <2> QED BY <1>0, <2>1 DEF Mapped, m
<1>5. v \in Seq(W) /\ Len(v) = n /\ \A i \in 1..n : v[i] = g[b[i]]
  <2>1. \A i \in 1..n : g[b[i]] \in W
    BY <1>2
  <2> HIDE DEF W, n
  <2> QED BY <1>0, <2>1 DEF Mapped, n
<1>6. w \in Seq(W) /\ Len(w) = m + n /\ \A i \in 1..m+n : w[i] = g[c[i]]
  <2> DEFINE l == m + n
  <2>1. \A i \in 1..l : g[c[i]] \in W
    BY <1>3
  <2>2. l \in Nat /\ Len(c) = l
    BY <1>0, <1>1
  <2>3. w = [i \in 1..l |-> g[c[i]]]
    BY <2>2, Zenon DEF Mapped
  <2> HIDE DEF W, l, w
  <2>4. \A i \in 1..l : w[i] = g[c[i]]
    BY <2>3, Zenon
  <2>5. w \in [1..l -> W]
    BY <2>1, <2>3, Zenon
  <2>6. w \in Seq(W) /\ Len(w) = l
    BY <2>2, <2>5
  <2> QED BY <2>4, <2>6 DEF l
<1> HIDE DEF u, v, w, W
<1>7. /\ z \in Seq(W) /\ Len(z) = Len(u) + Len(v) /\ (\A i \in 1..Len(u) : z[i] = u[i])
      /\ \A i \in 1..Len(v) : z[Len(u) + i] = v[i]
  <2>1. u \in Seq(W) /\ v \in Seq(W)
    BY <1>4, <1>5
  <2> QED BY <2>1, ConcatProperties
<1> HIDE DEF z, m, n
<1>8. Len(z) = m + n /\ (\A i \in 1..m : z[i] = u[i]) /\ \A i \in 1..n : z[m + i] = v[i]
  BY <1>4, <1>5, <1>7, Zenon
<1>9. ASSUME NEW i \in 1..m+n PROVE w[i] = z[i]
  <2>1. CASE i <= m
    <3>1. i \in 1..m
      BY <1>0, <2>1
    <3>2. c[i] = a[i] /\ u[i] = g[a[i]] /\ w[i] = g[c[i]] /\ z[i] = u[i]
      BY <1>1, <1>4, <1>6, <1>8, <3>1
    <3> QED BY <3>2, Zenon
  <2>2. CASE i > m
    <3> DEFINE k == i - m
    <3>1. k \in 1..n /\ m + k = i
      BY <1>0, <2>2
    <3> HIDE DEF k
    <3>2. c[m + k] = b[k] /\ v[k] = g[b[k]] /\ w[i] = g[c[i]] /\ z[m + k] = v[k]
      BY <1>1, <1>5, <1>6, <1>8, <3>1
    <3> QED BY <3>1, <3>2, Zenon
  <2> QED BY <1>0, <2>1, <2>2
<1>10. w = z
  BY <1>6, <1>7, <1>8, <1>9, SeqEqual
<1>11. FlattenSeq(u \o v) = FlattenSeq(u) \o FlattenSeq(v)
  BY <1>4, <1>5, JoinConcat DEF W
<1> QED BY <1>4, <1>10, <1>11, Zenon DEF MapJoins, u, v, w, z, W, c
=============================================================================

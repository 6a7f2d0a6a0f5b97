----------------------------- MODULE WireProofs -----------------------------
(***************************************************************************)
(* Proofs about the byte formats, for every input and every width of a     *)
(* scalar: each reader accepts one encoding of a value, and the signed     *)
(* envelope carries what was reviewed.                                     *)
(***************************************************************************)
EXTENDS WireInput, TLAPS, SequenceTheorems, WellFoundedInduction

-----------------------------------------------------------------------------
(* Induction over the positions of a sequence *)

\* The natural numbers are well ordered.
LEMMA LeastElement ==
    ASSUME NEW T \in SUBSET Nat, T # {}
    PROVE  \E m \in T : \A k \in T : m <= k
<1> DEFINE less == {ss \in Nat \X Nat : ss[1] < ss[2]}
<1>1. IsWellFoundedOn(less, Nat)
  BY NatLessThanWellFounded DEF OpToRel
<1> HIDE DEF less
<1>2. PICK x \in T : \A y \in T : ~(<<y, x>> \in less)
  BY <1>1, WFMin, Zenon
<1>3. \A y \in T : ~(y < x)
  BY <1>2 DEF less
<1>4. QED
  BY <1>3

\* What holds at 0 and passes from each position to the next holds at all.
LEMMA Positions ==
    ASSUME NEW n \in Nat, NEW T, 0 \in T,
           \A i \in 1..n : i - 1 \in T => i \in T
    PROVE  0..n \subseteq T
<1> SUFFICES ASSUME (0..n) \ T # {} PROVE FALSE
  OBVIOUS
<1>1. (0..n) \ T \in SUBSET Nat
  OBVIOUS
<1>2. PICK m \in (0..n) \ T : \A k \in (0..n) \ T : m <= k
  BY <1>1, LeastElement
<1>3. m # 0 /\ m - 1 \in 0..n /\ m \in 1..n
  BY <1>2
<1>4. m - 1 \in T
  BY <1>2, <1>3
<1>5. QED
  BY <1>2, <1>3, <1>4

\* A function may be defined from each position to the next.
Follows(g, n, S, a, F) ==
    /\ g \in [0..n -> S] /\ g[0] = a
    /\ \A i \in 1..n : g[i] = F[<<i, g[i - 1]>>]

LEMMA Recursion ==
    ASSUME NEW n \in Nat, NEW S, NEW a \in S, NEW F \in [(1..n) \X S -> S]
    PROVE  \E g : Follows(g, n, S, a, F)
<1> DEFINE T == {m \in 0..n : \E g : Follows(g, m, S, a, F)}
<1>1. 0 \in T
  <2>1. Follows([i \in 0..0 |-> a], 0, S, a, F)
    BY DEF Follows
  <2>2. QED BY <2>1
<1>2. ASSUME NEW m \in 1..n, m - 1 \in T PROVE m \in T
  <2>1. PICK g : Follows(g, m - 1, S, a, F)
    BY <1>2
  <2> DEFINE h == [i \in 0..m |-> IF i = m THEN F[<<m, g[m - 1]>>] ELSE g[i]]
  <2>2. g[m - 1] \in S /\ F[<<m, g[m - 1]>>] \in S
    BY <2>1 DEF Follows
  <2>3. h \in [0..m -> S] /\ h[0] = a
    BY <2>1, <2>2 DEF Follows
  <2>4. \A i \in 1..m : h[i] = F[<<i, h[i - 1]>>]
    <3> TAKE i \in 1..m
    <3>1. CASE i = m
      BY <3>1
    <3>2. CASE i # m
      <4>1. i \in 1..(m - 1) /\ i - 1 # m /\ i \in 0..m /\ i - 1 \in 0..m
        BY <3>2
      <4>2. h[i] = g[i] /\ h[i - 1] = g[i - 1]
        BY <4>1
      <4>3. g[i] = F[<<i, g[i - 1]>>]
        BY <2>1, <4>1 DEF Follows
      <4>4. QED BY <4>2, <4>3
    <3>3. QED BY <3>1, <3>2
  <2> HIDE DEF h
  <2>5. Follows(h, m, S, a, F)
    BY <2>3, <2>4 DEF Follows
  <2>6. QED BY <2>5
<1> HIDE DEF T
<1>3. n \in T
  BY <1>1, <1>2, Positions
<1>4. QED BY <1>3 DEF T

-----------------------------------------------------------------------------
(* Numbers and their bytes *)

\* What a loop over the bytes has read after each of them.
ReadsNumber(read, s) ==
    /\ read \in [0..Len(s) -> 0..(UsizeMax + 1)] /\ read[0] = 0
    /\ \A i \in 1..Len(s) : read[i] = Shift(read[i - 1], s[i])
    /\ Number(s) = read[Len(s)]

LEMMA NumberSteps ==
    ASSUME NEW s \in Seq(Byte)
    PROVE  \E read : ReadsNumber(read, s)
<1> DEFINE n == Len(s)
           S == 0..(UsizeMax + 1)
           F == [p \in (1..n) \X S |-> Shift(p[2], s[p[1]])]
           r == CHOOSE f : f = [i \in 0..n |-> IF i = 0 THEN 0 ELSE Shift(f[i - 1], s[i])]
<1>1. n \in Nat /\ \A i \in 1..n : s[i] \in 0..255
  BY LenProperties, ElementOfSeq DEF Byte
<1>2. \A v \in S, b \in 0..255 : Shift(v, b) \in S
  BY CapacityAssumption DEF Shift
<1>3. F \in [(1..n) \X S -> S]
  BY <1>1, <1>2
<1>4. 0 \in S
  BY CapacityAssumption
<1>5. PICK g : Follows(g, n, S, 0, F)
  <2> HIDE DEF F, S, n
  <2> QED BY <1>1, <1>3, <1>4, Recursion
<1>6. g = [i \in 0..n |-> IF i = 0 THEN 0 ELSE Shift(g[i - 1], s[i])]
  <2>1. g \in [0..n -> S] /\ g[0] = 0
    BY <1>5 DEF Follows
  <2>2. ASSUME NEW i \in 1..n PROVE g[i] = Shift(g[i - 1], s[i])
    <3>1. <<i, g[i - 1]>> \in (1..n) \X S
      BY <1>1, <2>1
    <3>2. g[i] = F[<<i, g[i - 1]>>]
      BY <1>5 DEF Follows
    <3>3. QED BY <3>1, <3>2
  <2>3. \A i \in 0..n : g[i] = IF i = 0 THEN 0 ELSE Shift(g[i - 1], s[i])
    <3> HIDE DEF n, S, F
    <3> QED BY <1>1, <2>1, <2>2
  <2>4. DOMAIN g = 0..n /\ g = [i \in 0..n |-> g[i]]
    BY <2>1
  <2>5. QED BY <2>3, <2>4
<1>7. r = [i \in 0..n |-> IF i = 0 THEN 0 ELSE Shift(r[i - 1], s[i])]
  <2> HIDE DEF n
  <2> QED BY <1>6, Zenon
<1>8. Number(s) = r[n]
  BY DEF Number
<1> HIDE DEF r, n
<1>9. DOMAIN r = 0..n /\ r[0] = 0 /\ \A i \in 1..n : r[i] = Shift(r[i - 1], s[i])
  BY <1>1, <1>7
<1>10. \A i \in 0..n : r[i] \in S
  <2> DEFINE T == {i \in 0..n : r[i] \in S}
  <2>1. 0 \in T
    BY <1>1, <1>4, <1>9
  <2>2. ASSUME NEW i \in 1..n, i - 1 \in T PROVE i \in T
    <3>1. i - 1 \in 0..n /\ i \in 0..n /\ r[i - 1] \in S
      BY <1>1, <2>2
    <3>2. r[i] = Shift(r[i - 1], s[i])
      BY <1>9
    <3> HIDE DEF S
    <3>3. r[i] \in S
      BY <1>1, <1>2, <3>1, <3>2, Zenon
    <3>4. QED BY <3>1, <3>3
  <2> HIDE DEF T
  <2>3. 0..n \subseteq T
    BY <1>1, <2>1, <2>2, Positions
  <2>4. QED BY <2>3 DEF T
<1>11. r \in [0..n -> S]
  BY <1>7, <1>10
<1>12. QED BY <1>8, <1>9, <1>11 DEF ReadsNumber, n

-----------------------------------------------------------------------------
(* Pieces of a sequence of bytes *)

Zeros(k) == [i \in 1..k |-> 0]

LEMMA ZerosAreBytes ==
    ASSUME NEW k \in Nat
    PROVE  Zeros(k) \in Seq(Byte) /\ Len(Zeros(k)) = k /\ \A i \in 1..k : Zeros(k)[i] = 0
<1>1. Zeros(k) \in [1..k -> Byte]
  BY DEF Zeros, Byte
<1>2. QED BY <1>1 DEF Zeros

LEMMA FromProperties ==
    ASSUME NEW S, NEW s \in Seq(S), NEW i \in 1..Len(s) + 1
    PROVE  /\ From(s, i) \in Seq(S) /\ Len(From(s, i)) = Len(s) + 1 - i
           /\ \A k \in 1..Len(s) + 1 - i : From(s, i)[k] = s[i - 1 + k]
<1>1. Len(s) \in Nat /\ \A j \in i..Len(s) : s[j] \in S
  BY LenProperties, ElementOfSeq
<1>2. i \in Int /\ Len(s) \in Int
  BY <1>1
<1>3. /\ SubSeq(s, i, Len(s)) \in Seq(S)
      /\ Len(SubSeq(s, i, Len(s))) = IF i <= Len(s) THEN Len(s) - i + 1 ELSE 0
      /\ \A k \in 1..Len(s) - i + 1 : SubSeq(s, i, Len(s))[k] = s[i + k - 1]
  BY <1>1, <1>2, SubSeqProperties
<1>4. QED
  BY <1>1, <1>3 DEF From

LEMMA PartProperties ==
    ASSUME NEW S, NEW s \in Seq(S), NEW i \in 1..Len(s) + 1, NEW j \in i - 1..Len(s)
    PROVE  /\ SubSeq(s, i, j) \in Seq(S) /\ Len(SubSeq(s, i, j)) = j + 1 - i
           /\ \A k \in 1..j + 1 - i : SubSeq(s, i, j)[k] = s[i - 1 + k]
<1>1. Len(s) \in Nat /\ i \in Int /\ j \in Int /\ \A k \in i..j : s[k] \in S
  BY LenProperties, ElementOfSeq
<1>2. /\ SubSeq(s, i, j) \in Seq(S)
      /\ Len(SubSeq(s, i, j)) = IF i <= j THEN j - i + 1 ELSE 0
      /\ \A k \in 1..j - i + 1 : SubSeq(s, i, j)[k] = s[i + k - 1]
  BY <1>1, SubSeqProperties
<1>3. QED
  BY <1>1, <1>2

LEMMA Regrouped ==
    ASSUME NEW a \in Seq(Byte), NEW b \in Seq(Byte), NEW c \in Seq(Byte)
    PROVE  (a \o b) \o c = a \o (b \o c)
BY ConcatAssociative

\* A sequence is a part from the start and the rest.
LEMMA CutInTwo ==
    ASSUME NEW S, NEW s \in Seq(S), NEW k \in 0..Len(s)
    PROVE  s = SubSeq(s, 1, k) \o From(s, k + 1)
<1>1. Len(s) \in Nat
  BY LenProperties
<1>2. 1 \in 1..Len(s) + 1 /\ k \in (1 - 1)..Len(s) /\ Len(s) \in k..Len(s)
  BY <1>1
<1>3. SubSeq(s, 1, k) \o SubSeq(s, k + 1, Len(s)) = SubSeq(s, 1, Len(s))
  BY <1>2, ConcatAdjacentSubSeq, Zenon
<1>4. SubSeq(s, 1, Len(s)) = s
  BY SubSeqFull, Zenon
<1>5. QED
  BY <1>3, <1>4, Zenon DEF From

\* Cutting where two sequences were joined gives them back.
LEMMA CutWhereJoined ==
    ASSUME NEW S, NEW s \in Seq(S), NEW t \in Seq(S)
    PROVE  SubSeq(s \o t, 1, Len(s)) = s /\ From(s \o t, Len(s) + 1) = t
<1> DEFINE u == s \o t
<1>1. Len(s) \in Nat /\ Len(t) \in Nat
  BY LenProperties
<1>2. /\ u \in Seq(S) /\ Len(u) = Len(s) + Len(t)
      /\ \A i \in 1..Len(s) + Len(t) : u[i] = IF i <= Len(s) THEN s[i] ELSE t[i - Len(s)]
  BY ConcatProperties
<1> HIDE DEF u
<1>3. /\ SubSeq(u, 1, Len(s)) \in Seq(S) /\ Len(SubSeq(u, 1, Len(s))) = Len(s)
      /\ \A k \in 1..Len(s) : SubSeq(u, 1, Len(s))[k] = u[k]
  <2>1. 1 \in 1..Len(u) + 1 /\ Len(s) \in 0..Len(u)
    BY <1>1, <1>2
  <2>2. QED BY <1>1, <1>2, <2>1, PartProperties
<1>4. \A k \in 1..Len(s) : u[k] = s[k]
  BY <1>1, <1>2
<1>5. SubSeq(u, 1, Len(s)) = s
  BY <1>3, <1>4, SeqEqual
<1>6. /\ From(u, Len(s) + 1) \in Seq(S) /\ Len(From(u, Len(s) + 1)) = Len(t)
      /\ \A k \in 1..Len(t) : From(u, Len(s) + 1)[k] = u[Len(s) + k]
  <2> DEFINE m == Len(s) + 1
  <2>1. m \in 1..Len(u) + 1 /\ Len(u) + 1 - m = Len(t)
    BY <1>1, <1>2
  <2>2. \A k \in 1..Len(t) : m - 1 + k = Len(s) + k
    BY <1>1
  <2> HIDE DEF m
  <2>3. /\ From(u, m) \in Seq(S) /\ Len(From(u, m)) = Len(u) + 1 - m
        /\ \A k \in 1..Len(u) + 1 - m : From(u, m)[k] = u[m - 1 + k]
    BY <1>2, <2>1, FromProperties
  <2>4. From(u, m) \in Seq(S) /\ Len(From(u, m)) = Len(t)
        /\ \A k \in 1..Len(t) : From(u, m)[k] = u[Len(s) + k]
    BY <2>1, <2>2, <2>3
  <2>5. QED BY <2>4 DEF m
<1>7. \A k \in 1..Len(t) : u[Len(s) + k] = t[k]
  BY <1>1, <1>2
<1>8. From(u, Len(s) + 1) = t
  BY <1>6, <1>7, SeqEqual
<1>9. QED BY <1>5, <1>8 DEF u

\* What is left of a number after each of its bytes.
LeavesRest(rest, n, width) ==
    /\ rest \in [0..width -> Nat] /\ rest[0] = n
    /\ \A i \in 1..width : rest[i] = rest[i - 1] \div 256
    /\ LittleEndian(n, width) = [i \in 1..width |-> rest[i - 1] % 256]

LEMMA LittleEndianSteps ==
    ASSUME NEW n \in Nat, NEW w \in Nat
    PROVE  \E rest : LeavesRest(rest, n, w)
<1> DEFINE F == [p \in (1..w) \X Nat |-> p[2] \div 256]
           r == CHOOSE f : f = [i \in 0..w |-> IF i = 0 THEN n ELSE f[i - 1] \div 256]
<1>1. \A v \in Nat : v \div 256 \in Nat
  OBVIOUS
<1>2. F \in [(1..w) \X Nat -> Nat]
  BY <1>1
<1>3. PICK g : Follows(g, w, Nat, n, F)
  <2> HIDE DEF F
  <2> QED BY <1>2, Recursion
<1>4. g = [i \in 0..w |-> IF i = 0 THEN n ELSE g[i - 1] \div 256]
  <2>1. g \in [0..w -> Nat] /\ g[0] = n
    BY <1>3 DEF Follows
  <2>2. ASSUME NEW i \in 1..w PROVE g[i] = g[i - 1] \div 256
    <3>1. <<i, g[i - 1]>> \in (1..w) \X Nat
      BY <2>1
    <3>2. g[i] = F[<<i, g[i - 1]>>]
      BY <1>3 DEF Follows
    <3>3. QED BY <3>1, <3>2
  <2>3. \A i \in 0..w : g[i] = IF i = 0 THEN n ELSE g[i - 1] \div 256
    <3> HIDE DEF F
    <3> QED BY <2>1, <2>2
  <2>4. DOMAIN g = 0..w /\ g = [i \in 0..w |-> g[i]]
    BY <2>1
  <2>5. QED BY <2>3, <2>4
<1>5. r = [i \in 0..w |-> IF i = 0 THEN n ELSE r[i - 1] \div 256]
  BY <1>4, Zenon
<1>6. LittleEndian(n, w) = [i \in 1..w |-> r[i - 1] % 256]
  BY DEF LittleEndian
<1> HIDE DEF r
<1>7. DOMAIN r = 0..w /\ r[0] = n /\ \A i \in 1..w : r[i] = r[i - 1] \div 256
  BY <1>5
<1>8. \A i \in 0..w : r[i] \in Nat
  <2> DEFINE T == {i \in 0..w : r[i] \in Nat}
  <2>1. 0 \in T
    BY <1>7
  <2>2. ASSUME NEW i \in 1..w, i - 1 \in T PROVE i \in T
    <3>1. i \in 0..w /\ r[i - 1] \in Nat /\ r[i] = r[i - 1] \div 256
      BY <1>7, <2>2
    <3>2. QED BY <1>1, <3>1
  <2> HIDE DEF T
  <2>3. 0..w \subseteq T
    BY <2>1, <2>2, Positions
  <2>4. QED BY <2>3 DEF T
<1>9. r \in [0..w -> Nat]
  BY <1>5, <1>8
<1>10. QED BY <1>6, <1>7, <1>9 DEF LeavesRest

LEMMA LittleEndianBytes ==
    ASSUME NEW n \in Nat, NEW w \in Nat
    PROVE  LittleEndian(n, w) \in Seq(Byte) /\ Len(LittleEndian(n, w)) = w
<1>1. PICK rest : LeavesRest(rest, n, w)
  BY LittleEndianSteps
<1>2. LittleEndian(n, w) = [i \in 1..w |-> rest[i - 1] % 256]
  BY <1>1 DEF LeavesRest
<1>3. \A i \in 1..w : rest[i - 1] % 256 \in 0..255
  <2>1. \A i \in 1..w : rest[i - 1] \in Nat
    BY <1>1 DEF LeavesRest
  <2>2. \A v \in Nat : v % 256 \in 0..255
    OBVIOUS
  <2>3. QED BY <2>1, <2>2
<1>4. LittleEndian(n, w) \in [1..w -> Byte]
  BY <1>2, <1>3 DEF Byte
<1>5. LittleEndian(n, w) \in Seq(Byte)
  BY <1>4
<1>6. Len(LittleEndian(n, w)) = w
  BY <1>2
<1>7. QED BY <1>5, <1>6

LEMMA BackwardsProperties ==
    ASSUME NEW s \in Seq(Byte)
    PROVE  /\ Backwards(s) \in Seq(Byte) /\ Len(Backwards(s)) = Len(s)
           /\ \A i \in 1..Len(s) : Backwards(s)[i] = s[Len(s) + 1 - i]
           /\ Backwards(Backwards(s)) = s
<1> DEFINE n == Len(s)
<1>1. n \in Nat /\ DOMAIN s = 1..n /\ \A i \in 1..n : s[i] \in Byte
  BY LenProperties, ElementOfSeq
<1>2. ASSUME NEW t, t \in Seq(Byte), Len(t) = n
      PROVE  Backwards(t) \in Seq(Byte) /\ Len(Backwards(t)) = n
             /\ \A i \in 1..n : Backwards(t)[i] = t[n + 1 - i]
  <2>1. DOMAIN t = 1..n /\ \A i \in 1..n : t[i] \in Byte
    BY <1>2, LenProperties, ElementOfSeq
  <2>2. Backwards(t) = [i \in 1..n |-> t[n + 1 - i]]
    BY <1>2, <2>1 DEF Backwards
  <2>3. Backwards(t) \in [1..n -> Byte]
    BY <1>1, <2>1, <2>2
  <2>4. QED BY <1>1, <2>2, <2>3
<1> HIDE DEF n
<1>3. Backwards(s) \in Seq(Byte) /\ Len(Backwards(s)) = n
      /\ \A i \in 1..n : Backwards(s)[i] = s[n + 1 - i]
  BY <1>2 DEF n
<1>4. Backwards(Backwards(s)) \in Seq(Byte) /\ Len(Backwards(Backwards(s))) = n
      /\ \A i \in 1..n : Backwards(Backwards(s))[i] = Backwards(s)[n + 1 - i]
  BY <1>2, <1>3
<1>5. \A i \in 1..n : n + 1 - i \in 1..n /\ n + 1 - (n + 1 - i) = i
  BY <1>1
<1>6. \A i \in 1..n : Backwards(Backwards(s))[i] = s[i]
  BY <1>3, <1>4, <1>5
<1>7. Backwards(Backwards(s)) = s
  BY <1>4, <1>6, SeqEqual DEF n
<1>8. QED BY <1>3, <1>7 DEF n

\* Significant cuts off the zeros at the start.
LEMMA SignificantFrom ==
    ASSUME NEW s \in Seq(Byte), NEW k \in 0..Len(s),
           \A i \in 1..k : s[i] = 0, k < Len(s) => s[k + 1] # 0
    PROVE  Significant(s) = From(s, k + 1)
<1>1. Len(s) \in Nat /\ DOMAIN s = 1..Len(s)
  BY LenProperties
<1>2. CASE k = Len(s)
  <2>1. From(s, k + 1) = <<>>
    <3>1. Len(s) + 1 \in Int /\ Len(s) \in Int /\ Len(s) < Len(s) + 1
      BY <1>1
    <3>2. SubSeq(s, Len(s) + 1, Len(s)) = <<>>
      BY <3>1, SubSeqEmpty, Zenon
    <3>3. QED BY <1>2, <3>2 DEF From
  <2>2. \A i \in DOMAIN s : s[i] = 0
    BY <1>1, <1>2
  <2>3. QED BY <2>1, <2>2 DEF Significant
<1>3. CASE k < Len(s)
  <2> DEFINE first == CHOOSE i \in DOMAIN s : s[i] # 0 /\ \A j \in 1..i-1 : s[j] = 0
  <2>1. k + 1 \in DOMAIN s /\ s[k + 1] # 0 /\ \A j \in 1..(k + 1)-1 : s[j] = 0
    BY <1>1, <1>3
  <2>2. first \in DOMAIN s /\ s[first] # 0 /\ \A j \in 1..first-1 : s[j] = 0
    BY <2>1, Zenon
  <2> HIDE DEF first
  <2>3. first = k + 1
    BY <1>1, <2>1, <2>2
  <2>4. ~(\A i \in DOMAIN s : s[i] = 0)
    BY <2>1
  <2>5. Significant(s) = From(s, first)
    BY <2>4 DEF Significant, first
  <2>6. QED BY <2>3, <2>5
<1>4. k = Len(s) \/ k < Len(s)
  <2>1. \A n \in Nat : \A j \in 0..n : j = n \/ j < n
    OBVIOUS
  <2>2. QED BY <1>1, <2>1, Zenon
<1>5. QED BY <1>2, <1>3, <1>4, Zenon

LEMMA SignificantOfPadded ==
    ASSUME NEW b \in Seq(Byte), b # <<>> => b[1] # 0, NEW k \in Nat
    PROVE  Significant(Zeros(k) \o b) = b
<1> DEFINE z == Zeros(k)
           s == z \o b
<1>1. z \in Seq(Byte) /\ Len(z) = k /\ \A i \in 1..k : z[i] = 0
  BY ZerosAreBytes
<1> HIDE DEF z
<1>2. Len(b) \in Nat /\ (Len(b) > 0 => b[1] # 0)
  BY EmptySeq, LenProperties
<1>3. s \in Seq(Byte) /\ Len(s) = k + Len(b)
      /\ \A i \in 1..k + Len(b) : s[i] = IF i <= k THEN z[i] ELSE b[i - k]
  BY <1>1, ConcatProperties
<1>4. From(s, k + 1) = b
  BY <1>1, CutWhereJoined
<1> HIDE DEF s
<1>5. k \in 0..Len(s) /\ \A i \in 1..k : s[i] = 0
  BY <1>1, <1>2, <1>3
<1>6. k < Len(s) => s[k + 1] # 0
  <2>1. ASSUME k < Len(s) PROVE s[k + 1] # 0
    <3>1. k + 1 \in 1..k + Len(b) /\ ~(k + 1 <= k) /\ k + 1 - k = 1 /\ Len(b) > 0
      BY <1>2, <1>3, <2>1
    <3>2. s[k + 1] = b[1]
      BY <1>3, <3>1
    <3>3. QED BY <1>2, <3>1, <3>2
  <2>2. QED BY <2>1
<1>7. Significant(s) = From(s, k + 1)
  BY <1>3, <1>5, <1>6, SignificantFrom
<1>8. QED BY <1>4, <1>7 DEF s, z

LEMMA SignificantProperties ==
    ASSUME NEW s \in Seq(Byte)
    PROVE  /\ Significant(s) \in Seq(Byte)
           /\ Significant(s) # <<>> => Significant(s)[1] # 0
           /\ \E k \in 0..Len(s) :
                 /\ Len(Significant(s)) = Len(s) - k
                 /\ s = Zeros(k) \o Significant(s)
<1>1. Len(s) \in Nat
  BY LenProperties
<1> DEFINE T == {i \in 0..Len(s) : i < Len(s) => s[i + 1] # 0}
<1>2. T \in SUBSET Nat /\ Len(s) \in T
  BY <1>1
<1>3. PICK k \in T : \A i \in T : k <= i
  <2> HIDE DEF T
  <2> QED BY <1>2, LeastElement
<1>4. k \in 0..Len(s) /\ \A i \in 1..k : s[i] = 0
  <2>1. k \in 0..Len(s)
    OBVIOUS
  <2>2. ASSUME NEW i \in 1..k PROVE s[i] = 0
    <3>1. i - 1 \in 0..Len(s) /\ i - 1 < k /\ i - 1 + 1 = i /\ i - 1 < Len(s)
      BY <1>1, <2>1
    <3>2. ~(i - 1 \in T)
      BY <1>1, <1>3, <2>1, <3>1
    <3>3. QED BY <3>1, <3>2
  <2>3. QED BY <2>1, <2>2
<1>5. k < Len(s) => s[k + 1] # 0
  OBVIOUS
<1>6. Significant(s) = From(s, k + 1)
  BY <1>4, <1>5, SignificantFrom
<1> HIDE DEF T
<1> DEFINE m == k + 1
<1>7. m \in 1..Len(s) + 1 /\ Len(s) + 1 - m = Len(s) - k
      /\ (k < Len(s) => 1 \in 1..Len(s) + 1 - m /\ m - 1 + 1 = k + 1)
  BY <1>1, <1>4
<1> HIDE DEF m
<1>8. /\ From(s, m) \in Seq(Byte) /\ Len(From(s, m)) = Len(s) + 1 - m
      /\ \A i \in 1..Len(s) + 1 - m : From(s, m)[i] = s[m - 1 + i]
  BY <1>7, FromProperties
<1>9. Significant(s) = From(s, m)
  BY <1>6 DEF m
<1>10. Significant(s) \in Seq(Byte) /\ Len(Significant(s)) = Len(s) - k
  BY <1>7, <1>8, <1>9
<1>11. Significant(s) # <<>> => Significant(s)[1] # 0
  <2>1. CASE k < Len(s)
    BY <1>5, <1>7, <1>8, <1>9, <2>1
  <2>2. CASE k = Len(s)
    <3>1. Len(Significant(s)) = 0
      BY <1>1, <1>10, <2>2
    <3>2. QED BY <1>10, <3>1, EmptySeq
  <2>3. QED BY <1>1, <1>4, <2>1, <2>2
<1>12. SubSeq(s, 1, k) = Zeros(k)
  <2>1. k \in Nat /\ Zeros(k) \in Seq(Byte) /\ Len(Zeros(k)) = k /\ \A i \in 1..k : Zeros(k)[i] = 0
    BY <1>4, ZerosAreBytes
  <2>2. 1 \in 1..Len(s) + 1 /\ k \in (1 - 1)..Len(s) /\ k + 1 - 1 = k /\ \A i \in 1..k : 1 - 1 + i = i
    BY <1>1, <1>4
  <2>3. /\ SubSeq(s, 1, k) \in Seq(Byte) /\ Len(SubSeq(s, 1, k)) = k + 1 - 1
        /\ \A i \in 1..k + 1 - 1 : SubSeq(s, 1, k)[i] = s[1 - 1 + i]
    BY <2>2, PartProperties
  <2>4. \A i \in 1..k : SubSeq(s, 1, k)[i] = Zeros(k)[i]
    BY <1>4, <2>1, <2>2, <2>3
  <2>5. QED BY <2>1, <2>2, <2>3, <2>4, SeqEqual
<1>13. s = SubSeq(s, 1, k) \o From(s, k + 1)
  BY <1>4, CutInTwo
<1>14. s = Zeros(k) \o Significant(s)
  BY <1>6, <1>12, <1>13
<1>15. QED BY <1>4, <1>10, <1>11, <1>14

LEMMA PaddedProperties ==
    ASSUME NEW s \in Seq(Byte), NEW k \in Nat
    PROVE  /\ Zeros(k) \o s \in Seq(Byte) /\ Len(Zeros(k) \o s) = k + Len(s)
           /\ \A i \in 1..k : (Zeros(k) \o s)[i] = 0
           /\ \A i \in 1..Len(s) : (Zeros(k) \o s)[k + i] = s[i]
<1>1. Zeros(k) \in Seq(Byte) /\ Len(Zeros(k)) = k /\ \A i \in 1..k : Zeros(k)[i] = 0
  BY ZerosAreBytes
<1>2. Len(s) \in Nat
  BY LenProperties
<1> DEFINE z == Zeros(k) \o s
<1>3. z \in Seq(Byte) /\ Len(z) = k + Len(s)
      /\ \A i \in 1..k + Len(s) : z[i] = IF i <= k THEN Zeros(k)[i] ELSE s[i - k]
  BY <1>1, ConcatProperties
<1> HIDE DEF z
<1>4. \A i \in 1..k : z[i] = 0
  BY <1>1, <1>2, <1>3
<1>5. \A i \in 1..Len(s) : z[k + i] = s[i]
  BY <1>2, <1>3
<1>6. QED BY <1>3, <1>4, <1>5 DEF z

\* Leading zeros do not change the number.
LEMMA NumberOfPadded ==
    ASSUME NEW s \in Seq(Byte), NEW k \in Nat
    PROVE  Number(Zeros(k) \o s) = Number(s)
<1> DEFINE z == Zeros(k) \o s
           n == Len(s)
<1>2. n \in Nat
  BY LenProperties
<1>3. z \in Seq(Byte) /\ Len(z) = k + n
      /\ (\A i \in 1..k : z[i] = 0) /\ \A i \in 1..n : z[k + i] = s[i]
  BY PaddedProperties
<1> HIDE DEF z
<1>4. PICK all : ReadsNumber(all, z)
  BY <1>3, NumberSteps
<1>5. PICK read : ReadsNumber(read, s)
  BY NumberSteps
<1>6. all[0] = 0 /\ Number(z) = all[k + n] /\ \A i \in 1..k + n : all[i] = Shift(all[i - 1], z[i])
  BY <1>3, <1>4 DEF ReadsNumber
<1>7. read[0] = 0 /\ Number(s) = read[n] /\ \A i \in 1..n : read[i] = Shift(read[i - 1], s[i])
  BY <1>5 DEF ReadsNumber
<1> HIDE DEF n
<1>8. \A i \in 0..k : all[i] = 0
  <2> DEFINE T == {i \in 0..k : all[i] = 0}
  <2>1. 0 \in T
    BY <1>6
  <2>2. ASSUME NEW i \in 1..k, i - 1 \in T PROVE i \in T
    <3>1. z[i] = 0 /\ all[i] = Shift(all[i - 1], z[i]) /\ all[i - 1] = 0
      BY <1>2, <1>3, <1>6, <2>2
    <3>2. Shift(0, 0) = 0
      BY CapacityAssumption DEF Shift
    <3>3. QED BY <3>1, <3>2
  <2> HIDE DEF T
  <2>3. 0..k \subseteq T
    BY <2>1, <2>2, Positions
  <2>4. QED BY <2>3 DEF T
<1>9. \A i \in 0..n : all[k + i] = read[i]
  <2> DEFINE T == {i \in 0..n : all[k + i] = read[i]}
  <2>1. 0 \in T
    BY <1>2, <1>7, <1>8
  <2>2. ASSUME NEW i \in 1..n, i - 1 \in T PROVE i \in T
    <3>1. k + i \in 1..k + n /\ k + i - 1 = k + (i - 1)
      BY <1>2
    <3>2. z[k + i] = s[i] /\ all[k + i] = Shift(all[k + (i - 1)], z[k + i])
      BY <1>3, <1>6, <3>1
    <3>3. all[k + (i - 1)] = read[i - 1] /\ read[i] = Shift(read[i - 1], s[i])
      BY <1>7, <2>2
    <3>4. QED BY <3>2, <3>3
  <2> HIDE DEF T
  <2>3. 0..n \subseteq T
    BY <1>2, <2>1, <2>2, Positions
  <2>4. QED BY <2>3 DEF T
<1>10. all[k + n] = read[n]
  BY <1>2, <1>9
<1>11. QED BY <1>6, <1>7, <1>10 DEF z

LEMMA ShiftWithin ==
    ASSUME NEW v \in 0..(UsizeMax + 1), NEW b \in 0..255, Shift(v, b) <= UsizeMax
    PROVE  v <= UsizeMax /\ Shift(v, b) = v * 256 + b
<1>1. UsizeMax \in Nat
  BY CapacityAssumption
<1>2. ~(v * 256 + b > UsizeMax)
  BY <1>1 DEF Shift
<1>3. QED BY <1>1, <1>2 DEF Shift

\* to_be_bytes gives back the bytes a number was read from, padded.
LEMMA BytesOfNumber ==
    ASSUME NEW s \in Seq(Byte), Number(s) <= UsizeMax, NEW w \in Nat, Len(s) <= w
    PROVE  /\ Number(s) \in Nat
           /\ Backwards(LittleEndian(Number(s), w)) = Zeros(w - Len(s)) \o s
<1> DEFINE n == Len(s)
           z == Zeros(w - n) \o s
           little == LittleEndian(Number(s), w)
<1>1. n \in Nat /\ w - n \in Nat /\ \A i \in 1..n : s[i] \in 0..255
  BY LenProperties, ElementOfSeq DEF Byte
<1>3. z \in Seq(Byte) /\ Len(z) = (w - n) + n
      /\ (\A i \in 1..w - n : z[i] = 0) /\ \A i \in 1..n : z[(w - n) + i] = s[i]
  BY <1>1, PaddedProperties
<1>4. PICK read : ReadsNumber(read, s)
  BY NumberSteps
<1>5. read \in [0..n -> 0..(UsizeMax + 1)] /\ read[0] = 0 /\ Number(s) = read[n]
      /\ \A i \in 1..n : read[i] = Shift(read[i - 1], s[i])
  BY <1>4 DEF ReadsNumber
<1> HIDE DEF z
<1>6. Number(s) \in Nat
  BY <1>1, <1>5, CapacityAssumption
<1>7. PICK rest : LeavesRest(rest, Number(s), w)
  BY <1>6, LittleEndianSteps
<1>8. rest \in [0..w -> Nat] /\ rest[0] = Number(s)
      /\ \A i \in 1..w : rest[i] = rest[i - 1] \div 256 /\ little[i] = rest[i - 1] % 256
  BY <1>7 DEF LeavesRest
<1>9. little \in Seq(Byte) /\ Len(little) = w
  BY <1>6, LittleEndianBytes
<1> HIDE DEF n, little
<1>10. \A i \in 1..n : read[i] <= UsizeMax =>
          read[i - 1] \in Nat /\ read[i - 1] <= UsizeMax /\ read[i] = read[i - 1] * 256 + s[i]
  <2> SUFFICES ASSUME NEW i \in 1..n, read[i] <= UsizeMax
               PROVE  read[i - 1] \in Nat /\ read[i - 1] <= UsizeMax
                      /\ read[i] = read[i - 1] * 256 + s[i]
    OBVIOUS
  <2>1. read[i - 1] \in 0..(UsizeMax + 1) /\ s[i] \in 0..255
    BY <1>1, <1>5
  <2>2. read[i] = Shift(read[i - 1], s[i])
    BY <1>5
  <2>3. read[i - 1] <= UsizeMax /\ read[i] = read[i - 1] * 256 + s[i]
    <3> DEFINE v == read[i - 1]
    <3>1. v \in 0..(UsizeMax + 1) /\ Shift(v, s[i]) <= UsizeMax
      BY <2>1, <2>2
    <3> HIDE DEF v
    <3>2. v <= UsizeMax /\ Shift(v, s[i]) = v * 256 + s[i]
      BY <2>1, <3>1, ShiftWithin
    <3>3. QED BY <2>2, <3>2 DEF v
  <2>4. QED BY <2>1, <2>3
<1>11. \A v \in Nat, b \in 0..255 : (v * 256 + b) \div 256 = v /\ (v * 256 + b) % 256 = b
  OBVIOUS
<1>12. \A i \in 0..n : rest[i] = read[n - i] /\ read[n - i] <= UsizeMax
  <2> DEFINE T == {i \in 0..n : rest[i] = read[n - i] /\ read[n - i] <= UsizeMax}
  <2>1. 0 \in T
    BY <1>1, <1>5, <1>8
  <2>2. ASSUME NEW i \in 1..n, i - 1 \in T PROVE i \in T
    <3> DEFINE j == n - i + 1
    <3>1. i \in 1..w /\ j \in 1..n /\ n - (i - 1) = j /\ n - i = j - 1
      BY <1>1
    <3> HIDE DEF j
    <3>2. rest[i - 1] = read[j] /\ read[j] <= UsizeMax
      BY <2>2, <3>1
    <3>3. read[j - 1] \in Nat /\ read[j - 1] <= UsizeMax
          /\ read[j] = read[j - 1] * 256 + s[j]
      BY <1>10, <3>1, <3>2
    <3>4. rest[i] = rest[i - 1] \div 256
      BY <1>8, <3>1
    <3>5. s[j] \in 0..255
      BY <1>1, <3>1
    <3>6. (read[j - 1] * 256 + s[j]) \div 256 = read[j - 1]
      <4> DEFINE v == read[j - 1]
                 b == s[j]
      <4>1. v \in Nat /\ b \in 0..255
        BY <3>3, <3>5
      <4> HIDE DEF v, b
      <4>2. (v * 256 + b) \div 256 = v
        BY <4>1
      <4>3. QED BY <4>2 DEF v, b
    <3>7. rest[i] = read[j - 1]
      BY <3>2, <3>3, <3>4, <3>6, Zenon
    <3>8. QED BY <3>1, <3>3, <3>7
  <2> HIDE DEF T
  <2>3. 0..n \subseteq T
    BY <1>1, <2>1, <2>2, Positions
  <2>4. QED BY <2>3 DEF T
<1>13. \A i \in 1..n : little[i] = s[n + 1 - i]
  <2> TAKE i \in 1..n
  <2> DEFINE j == n + 1 - i
  <2>1. i \in 1..w /\ i - 1 \in 0..n /\ n - (i - 1) = j /\ j \in 1..n
    BY <1>1
  <2> HIDE DEF j
  <2>2. rest[i - 1] = read[j] /\ read[j] <= UsizeMax
    BY <1>12, <2>1
  <2>3. read[j - 1] \in Nat /\ read[j] = read[j - 1] * 256 + s[j]
    BY <1>10, <2>1, <2>2
  <2>4. little[i] = rest[i - 1] % 256
    BY <1>8, <2>1
  <2>5. s[j] \in 0..255
    BY <1>1, <2>1
  <2>6. (read[j - 1] * 256 + s[j]) % 256 = s[j]
    <3> DEFINE v == read[j - 1]
               b == s[j]
    <3>1. v \in Nat /\ b \in 0..255
      BY <2>3, <2>5
    <3> HIDE DEF v, b
    <3>2. (v * 256 + b) % 256 = b
      BY <3>1
    <3>3. QED BY <3>2 DEF v, b
  <2>7. little[i] = s[j]
    BY <2>2, <2>3, <2>4, <2>6, Zenon
  <2>8. QED BY <2>7 DEF j
<1>14. \A i \in 0..w - n : rest[n + i] = 0
  <2> DEFINE T == {i \in 0..w - n : rest[n + i] = 0}
  <2>1. 0 \in T
    <3>1. n \in 0..n /\ n - n = 0 /\ n + 0 = n /\ 0 \in 0..w - n
      BY <1>1
    <3>2. QED BY <1>5, <1>12, <3>1
  <2>2. ASSUME NEW i \in 1..w - n, i - 1 \in T PROVE i \in T
    <3> DEFINE j == n + i
    <3>1. j \in 1..w /\ j - 1 = n + (i - 1)
      BY <1>1
    <3>2. rest[j - 1] = 0
      BY <2>2, <3>1
    <3> HIDE DEF j
    <3>3. rest[j] = rest[j - 1] \div 256
      BY <1>8, <3>1
    <3>4. rest[j] = 0
      BY <3>2, <3>3
    <3>5. QED BY <3>4 DEF j
  <2> HIDE DEF T
  <2>3. 0..w - n \subseteq T
    BY <1>1, <2>1, <2>2, Positions
  <2>4. QED BY <2>3 DEF T
<1>15. \A i \in n + 1..w : little[i] = 0
  <2> TAKE i \in n + 1..w
  <2>1. i \in 1..w /\ i - 1 - n \in 0..w - n /\ n + (i - 1 - n) = i - 1
    BY <1>1
  <2>2. rest[i - 1] = 0
    BY <1>14, <2>1
  <2>3. QED BY <1>8, <2>1, <2>2
<1>16. Backwards(little) \in Seq(Byte) /\ Len(Backwards(little)) = w
       /\ \A i \in 1..w : Backwards(little)[i] = little[w + 1 - i]
  BY <1>9, BackwardsProperties
<1>17. \A i \in 1..w : Backwards(little)[i] = z[i]
  <2> TAKE i \in 1..w
  <2>2. CASE i <= w - n
    <3>1. w + 1 - i \in n + 1..w /\ i \in 1..w - n
      BY <1>1, <2>2
    <3>2. QED BY <1>3, <1>15, <1>16, <3>1
  <2>3. CASE ~(i <= w - n)
    <3>1. w + 1 - i \in 1..n /\ n + 1 - (w + 1 - i) = i - (w - n)
          /\ i - (w - n) \in 1..n /\ (w - n) + (i - (w - n)) = i
      BY <1>1, <2>3
    <3>2. little[w + 1 - i] = s[i - (w - n)]
      BY <1>13, <3>1
    <3>3. z[i] = s[i - (w - n)]
      BY <1>3, <3>1
    <3>4. QED BY <1>16, <3>2, <3>3
  <2>4. QED BY <2>2, <2>3
<1>18. Len(z) = w
  BY <1>1, <1>3
<1>19. Backwards(little) = z
  BY <1>3, <1>16, <1>17, <1>18, SeqEqual
<1>20. QED BY <1>6, <1>19 DEF z, little, n

LEMMA LastDigit ==
    ASSUME NEW n \in Nat
    PROVE  (n \div 256) * 256 + (n % 256) = n
BY SMTT(30)

\* Reading the bytes of a number that fits gives it back.
LEMMA NumberOfBytes ==
    ASSUME NEW n \in 0..UsizeMax, NEW w \in Nat,
           NEW rest, LeavesRest(rest, n, w), rest[w] = 0
    PROVE  Number(Backwards(LittleEndian(n, w))) = n
<1> DEFINE little == LittleEndian(n, w)
           s == Backwards(little)
<1>1. n \in Nat /\ UsizeMax \in Nat
  BY CapacityAssumption
<1>2. rest[0] = n /\ (\A i \in 0..w : rest[i] \in Nat)
      /\ \A i \in 1..w : rest[i] = rest[i - 1] \div 256 /\ little[i] = rest[i - 1] % 256
  BY DEF LeavesRest
<1>3. little \in Seq(Byte) /\ Len(little) = w
  BY <1>1, LittleEndianBytes
<1> HIDE DEF little
<1>4. s \in Seq(Byte) /\ Len(s) = w /\ \A i \in 1..w : s[i] = little[w + 1 - i]
  BY <1>3, BackwardsProperties
<1> HIDE DEF s
<1>5. PICK read : ReadsNumber(read, s)
  BY <1>4, NumberSteps
<1>6. read[0] = 0 /\ Number(s) = read[w] /\ \A i \in 1..w : read[i] = Shift(read[i - 1], s[i])
  BY <1>4, <1>5 DEF ReadsNumber
<1>7. \A i \in 0..w : rest[i] <= UsizeMax
  <2> DEFINE T == {i \in 0..w : rest[i] <= UsizeMax}
  <2>1. 0 \in T
    BY <1>2
  <2>2. ASSUME NEW i \in 1..w, i - 1 \in T PROVE i \in T
    <3>1. i - 1 \in 0..w /\ i \in 0..w
      OBVIOUS
    <3>2. rest[i] = rest[i - 1] \div 256 /\ rest[i - 1] \in Nat /\ rest[i - 1] <= UsizeMax
      BY <1>2, <2>2, <3>1
    <3>3. \A v \in Nat : v \div 256 <= v
      OBVIOUS
    <3>4. rest[i - 1] \div 256 <= rest[i - 1] /\ rest[i] \in Nat
      BY <1>2, <3>1, <3>2, <3>3
    <3>5. QED BY <1>1, <3>1, <3>2, <3>4
  <2> HIDE DEF T
  <2>3. 0..w \subseteq T
    BY <2>1, <2>2, Positions
  <2>4. QED BY <2>3 DEF T
<1>8. \A v \in Nat : v <= UsizeMax => Shift(v \div 256, v % 256) = v
  <2> SUFFICES ASSUME NEW v \in Nat, v <= UsizeMax PROVE Shift(v \div 256, v % 256) = v
    OBVIOUS
  <2>1. v \div 256 \in Nat /\ v % 256 \in 0..255
    OBVIOUS
  <2>2. (v \div 256) * 256 + (v % 256) = v
    BY LastDigit
  <2>3. QED BY <1>1, <2>1, <2>2 DEF Shift
<1>9. \A i \in 0..w : read[i] = rest[w - i]
  <2> DEFINE T == {i \in 0..w : read[i] = rest[w - i]}
  <2>1. 0 \in T
    BY <1>6
  <2>2. ASSUME NEW i \in 1..w, i - 1 \in T PROVE i \in T
    <3> DEFINE j == w + 1 - i
    <3>1. j \in 1..w /\ j - 1 \in 0..w /\ w - (i - 1) = j /\ w - i = j - 1
      OBVIOUS
    <3>2. s[i] = little[j]
      BY <1>4
    <3> HIDE DEF j
    <3>3. read[i - 1] = rest[j]
      BY <2>2, <3>1
    <3>4. rest[j] = rest[j - 1] \div 256 /\ little[j] = rest[j - 1] % 256
      BY <1>2, <3>1
    <3>5. rest[j - 1] \in Nat /\ rest[j - 1] <= UsizeMax
      BY <1>2, <1>7, <3>1
    <3>6. Shift(rest[j - 1] \div 256, rest[j - 1] % 256) = rest[j - 1]
      BY <1>8, <3>5, Zenon
    <3>7. read[i] = Shift(read[i - 1], s[i])
      BY <1>6
    <3>8. read[i] = rest[j - 1]
      <4> DEFINE q == rest[j - 1] \div 256
                 m == rest[j - 1] % 256
      <4>1. rest[j] = q /\ little[j] = m /\ Shift(q, m) = rest[j - 1]
        BY <3>4, <3>6
      <4> HIDE DEF q, m
      <4>2. read[i] = Shift(rest[j], little[j])
        BY <3>2, <3>3, <3>7
      <4>3. QED BY <4>1, <4>2
    <3>9. QED BY <3>1, <3>8
  <2> HIDE DEF T
  <2>3. 0..w \subseteq T
    BY <2>1, <2>2, Positions
  <2>4. QED BY <2>3 DEF T
<1>10. read[w] = rest[0]
  BY <1>9
<1>11. QED BY <1>2, <1>6, <1>10 DEF s, little

LEMMA BigEndianProperties ==
    ASSUME NEW n \in Nat
    PROVE  /\ BigEndian(n) \in Seq(Byte) /\ Len(BigEndian(n)) <= 8
           /\ BigEndian(n) # <<>> => BigEndian(n)[1] # 0
<1> DEFINE s == Backwards(LittleEndian(n, 8))
<1>1. LittleEndian(n, 8) \in Seq(Byte) /\ Len(LittleEndian(n, 8)) = 8
  BY LittleEndianBytes
<1>2. s \in Seq(Byte) /\ Len(s) = 8
  BY <1>1, BackwardsProperties
<1> HIDE DEF s
<1>3. Significant(s) \in Seq(Byte) /\ (Significant(s) # <<>> => Significant(s)[1] # 0)
      /\ \E k \in 0..Len(s) : Len(Significant(s)) = Len(s) - k /\ s = Zeros(k) \o Significant(s)
  BY <1>2, SignificantProperties
<1>4. Len(Significant(s)) <= 8
  BY <1>2, <1>3
<1>5. BigEndian(n) = Significant(s)
  BY DEF BigEndian, s
<1>6. QED BY <1>3, <1>4, <1>5

\* One number is written in one way.
LEMMA BigEndianOfNumber ==
    ASSUME NEW s \in Seq(Byte), Len(s) <= 8, Number(s) <= UsizeMax, s # <<>> => s[1] # 0
    PROVE  Number(s) \in Nat /\ BigEndian(Number(s)) = s
<1>1. Number(s) \in Nat /\ Backwards(LittleEndian(Number(s), 8)) = Zeros(8 - Len(s)) \o s
  BY BytesOfNumber
<1>2. 8 - Len(s) \in Nat
  BY LenProperties
<1>3. Significant(Zeros(8 - Len(s)) \o s) = s
  BY <1>2, SignificantOfPadded
<1>4. QED BY <1>1, <1>3 DEF BigEndian

\* Every length in an envelope takes three bytes at most.
IsLength(n) == n \in 0..UsizeMax /\ n < 16777216

LEMMA EnvelopeLengths ==
    ASSUME NEW n \in Nat, n <= MaxSigned
    PROVE  IsLength(n)
BY CapacityAssumption, SMT DEF IsLength

LEMMA NumberOfBigEndian ==
    ASSUME NEW n, IsLength(n)
    PROVE  Number(BigEndian(n)) = n /\ Len(BigEndian(n)) <= 3
<1> DEFINE little == LittleEndian(n, 8)
           s == Backwards(little)
<1>1. n \in Nat /\ n \in 0..UsizeMax
  BY CapacityAssumption, SMT DEF IsLength
<1>2. PICK rest : LeavesRest(rest, n, 8)
  BY <1>1, LittleEndianSteps
<1>3. rest[0] = n /\ (\A i \in 0..8 : rest[i] \in Nat)
      /\ \A i \in 1..8 : rest[i] = rest[i - 1] \div 256 /\ little[i] = rest[i - 1] % 256
  BY <1>2 DEF LeavesRest
<1>4. rest[3] = 0
  <2>1. rest[1] = n \div 256 /\ rest[2] = rest[1] \div 256 /\ rest[3] = rest[2] \div 256
    BY <1>3
  <2>2. QED BY <1>1, <2>1, SMT DEF IsLength
<1>5. rest[4] = 0 /\ rest[5] = 0 /\ rest[6] = 0 /\ rest[7] = 0 /\ rest[8] = 0
  <2>1. rest[4] = rest[3] \div 256 /\ rest[5] = rest[4] \div 256 /\ rest[6] = rest[5] \div 256
        /\ rest[7] = rest[6] \div 256 /\ rest[8] = rest[7] \div 256
    BY <1>3
  <2>2. QED BY <1>4, <2>1
<1>6. little[4] = 0 /\ little[5] = 0 /\ little[6] = 0 /\ little[7] = 0 /\ little[8] = 0
  BY <1>3, <1>4, <1>5
<1>7. little \in Seq(Byte) /\ Len(little) = 8
  BY <1>1, LittleEndianBytes
<1>8. Number(s) = n
  BY <1>1, <1>2, <1>5, NumberOfBytes
<1> HIDE DEF little
<1>9. s \in Seq(Byte) /\ Len(s) = 8 /\ \A i \in 1..8 : s[i] = little[8 + 1 - i]
  <2>1. s \in Seq(Byte) /\ Len(s) = Len(little)
        /\ \A i \in 1..Len(little) : s[i] = little[Len(little) + 1 - i]
    BY <1>7, BackwardsProperties
  <2>2. QED BY <1>7, <2>1
<1>10. s[1] = 0 /\ s[2] = 0 /\ s[3] = 0 /\ s[4] = 0 /\ s[5] = 0
  BY <1>6, <1>9
<1>11. BigEndian(n) = Significant(s)
  BY DEF BigEndian, s, little
<1> HIDE DEF s
<1> DEFINE b == Significant(s)
<1>12. PICK k \in 0..8 : Len(b) = 8 - k /\ s = Zeros(k) \o b
  BY <1>9, SignificantProperties
<1>13. b \in Seq(Byte) /\ (b # <<>> => b[1] # 0)
  BY <1>9, SignificantProperties
<1> HIDE DEF b
<1>14. Number(b) = n
  BY <1>8, <1>12, <1>13, NumberOfPadded
<1>15. Len(b) <= 3
  <2> SUFFICES ASSUME k < 5 PROVE FALSE
    BY <1>12
  <2>1. Len(b) > 0 /\ b # <<>> /\ 1 \in 1..Len(b)
    BY <1>12, EmptySeq
  <2>2. (Zeros(k) \o b)[k + 1] = b[1]
    <3>1. k \in Nat /\ b \in Seq(Byte)
      BY <1>13
    <3>2. \A i \in 1..Len(b) : (Zeros(k) \o b)[k + i] = b[i]
      BY <3>1, PaddedProperties, Zenon
    <3>3. QED BY <2>1, <3>2
  <2>3. s[k + 1] = 0
    BY <1>10
  <2>4. QED BY <1>12, <1>13, <2>1, <2>2, <2>3
<1>16. QED BY <1>11, <1>14, <1>15 DEF b

LEMMA NumberOfEmpty == Number(<<>>) = 0
<1>1. <<>> \in Seq(Byte) /\ Len(<<>>) = 0
  OBVIOUS
<1>2. PICK read : ReadsNumber(read, <<>>)
  BY <1>1, NumberSteps
<1>3. QED BY <1>1, <1>2 DEF ReadsNumber

LEMMA NumberOfByte ==
    ASSUME NEW b \in Byte, b <= UsizeMax
    PROVE  Number(<<b>>) = b
<1>1. <<b>> \in Seq(Byte) /\ Len(<<b>>) = 1 /\ <<b>>[1] = b
  OBVIOUS
<1>2. PICK read : ReadsNumber(read, <<b>>)
  BY <1>1, NumberSteps
<1>3. read[0] = 0 /\ Number(<<b>>) = read[1] /\ read[1] = Shift(read[0], b)
  <2>1. 1 \in 1..Len(<<b>>) /\ 1 - 1 = 0
    BY <1>1
  <2>2. QED BY <1>1, <1>2, <2>1 DEF ReadsNumber
<1>4. QED BY <1>3, CapacityAssumption DEF Shift, Byte

-----------------------------------------------------------------------------
(* RLP *)

Encoding(payload, is_list) ==
    IF is_list THEN RlpPushList(payload) ELSE RlpPushBytes(payload)

ShortBase(is_list) == IF is_list THEN 192 ELSE 128
LongBase(is_list) == IF is_list THEN 247 ELSE 183
IsItsOwnEncoding(payload, is_list) ==
    ~is_list /\ Len(payload) = 1 /\ ~HasHighBit(payload[1])

LEMMA EncodingForms ==
    ASSUME NEW p, NEW l \in BOOLEAN
    PROVE  Encoding(p, l) = IF IsItsOwnEncoding(p, l) THEN p
                            ELSE RlpPushLength(ShortBase(l), LongBase(l), Len(p)) \o p
BY DEF Encoding, IsItsOwnEncoding, RlpPushList, RlpPushBytes, ShortBase, LongBase

\* The five ranges of a first byte.
LEMMA CaseOfFive ==
    ASSUME NEW b \in 0..255, NEW v1, NEW v2, NEW v3, NEW v4, NEW v5, NEW v,
           v = CASE b <= 127 -> v1
                 [] b \in 128..183 -> v2
                 [] b \in 184..191 -> v3
                 [] b \in 192..247 -> v4
                 [] b >= 248 -> v5
    PROVE  /\ b <= 127 => v = v1
           /\ b \in 128..183 => v = v2
           /\ b \in 184..191 => v = v3
           /\ b \in 192..247 => v = v4
           /\ b \in 248..255 => v = v5
OBVIOUS

LEMMA Prefixes ==
    ASSUME NEW b \in 0..255, NEW x
    PROVE  /\ b <= 127 => ItemWithPrefix(b, x) = Item(x, 1, 1, FALSE)
           /\ b \in 128..183 => ItemWithPrefix(b, x) = ParseShortItem(x, b - 128, FALSE)
           /\ b \in 184..191 => ItemWithPrefix(b, x) = ParseLongItem(x, b - 183, FALSE)
           /\ b \in 192..247 => ItemWithPrefix(b, x) = ParseShortItem(x, b - 192, TRUE)
           /\ b \in 248..255 => ItemWithPrefix(b, x) = ParseLongItem(x, b - 247, TRUE)
<1> DEFINE v1 == Item(x, 1, 1, FALSE)
           v2 == ParseShortItem(x, b - 128, FALSE)
           v3 == ParseLongItem(x, b - 183, FALSE)
           v4 == ParseShortItem(x, b - 192, TRUE)
           v5 == ParseLongItem(x, b - 247, TRUE)
           v == ItemWithPrefix(b, x)
<1>1. v = CASE b <= 127 -> v1
            [] b \in 128..183 -> v2
            [] b \in 184..191 -> v3
            [] b \in 192..247 -> v4
            [] b >= 248 -> v5
  BY DEF ItemWithPrefix
<1> HIDE DEF v, v1, v2, v3, v4, v5
<1>2. /\ b <= 127 => v = v1
      /\ b \in 128..183 => v = v2
      /\ b \in 184..191 => v = v3
      /\ b \in 192..247 => v = v4
      /\ b \in 248..255 => v = v5
  BY <1>1, CaseOfFive
<1>3. QED BY <1>2 DEF v, v1, v2, v3, v4, v5

LEMMA PrefixSingle ==
    ASSUME NEW b \in 0..127, NEW x
    PROVE  ItemWithPrefix(b, x) = Item(x, 1, 1, FALSE)
<1>1. b \in 0..255 /\ b <= 127
  OBVIOUS
<1>2. QED BY <1>1, Prefixes

\* A short and a long item, of bytes or a list.
LEMMA PrefixShort ==
    ASSUME NEW n \in 0..55, NEW l \in BOOLEAN, NEW x
    PROVE  ShortBase(l) + n \in 0..255
           /\ ItemWithPrefix(ShortBase(l) + n, x) = ParseShortItem(x, n, l)
<1>1. CASE l = FALSE
  <2> DEFINE b == 128 + n
  <2>1. b \in 0..255 /\ b \in 128..183 /\ b - 128 = n
    OBVIOUS
  <2> HIDE DEF b
  <2>2. ItemWithPrefix(b, x) = ParseShortItem(x, b - 128, FALSE)
    BY <2>1, Prefixes, Zenon
  <2>3. QED BY <1>1, <2>1, <2>2 DEF ShortBase, b
<1>2. CASE l = TRUE
  <2> DEFINE b == 192 + n
  <2>1. b \in 0..255 /\ b \in 192..247 /\ b - 192 = n
    OBVIOUS
  <2> HIDE DEF b
  <2>2. ItemWithPrefix(b, x) = ParseShortItem(x, b - 192, TRUE)
    BY <2>1, Prefixes, Zenon
  <2>3. QED BY <1>2, <2>1, <2>2 DEF ShortBase, b
<1>3. QED BY <1>1, <1>2

LEMMA PrefixLong ==
    ASSUME NEW n \in 1..8, NEW l \in BOOLEAN, NEW x
    PROVE  LongBase(l) + n \in 0..255
           /\ ItemWithPrefix(LongBase(l) + n, x) = ParseLongItem(x, n, l)
<1>1. CASE l = FALSE
  <2> DEFINE b == 183 + n
  <2>1. b \in 0..255 /\ b \in 184..191 /\ b - 183 = n
    OBVIOUS
  <2> HIDE DEF b
  <2>2. ItemWithPrefix(b, x) = ParseLongItem(x, b - 183, FALSE)
    BY <2>1, Prefixes, Zenon
  <2>3. QED BY <1>1, <2>1, <2>2 DEF LongBase, b
<1>2. CASE l = TRUE
  <2> DEFINE b == 247 + n
  <2>1. b \in 0..255 /\ b \in 248..255 /\ b - 247 = n
    OBVIOUS
  <2> HIDE DEF b
  <2>2. ItemWithPrefix(b, x) = ParseLongItem(x, b - 247, TRUE)
    BY <2>1, Prefixes, Zenon
  <2>3. QED BY <1>2, <2>1, <2>2 DEF LongBase, b
<1>3. QED BY <1>1, <1>2

LEMMA PrefixCases ==
    ASSUME NEW b \in 0..255
    PROVE  \/ b \in 0..127
           \/ \E l \in BOOLEAN, n \in 0..55 : b = ShortBase(l) + n
           \/ \E l \in BOOLEAN, n \in 1..8 : b = LongBase(l) + n
<1>1. CASE b \in 128..183
  <2>1. b - 128 \in 0..55 /\ b = ShortBase(FALSE) + (b - 128)
      /\ FALSE \in BOOLEAN
    BY <1>1 DEF ShortBase
  <2>2. \E l \in BOOLEAN, n \in 0..55 : b = ShortBase(l) + n
    <3> SUFFICES b = ShortBase(FALSE) + (b - 128)
      BY <2>1, Zenon
    <3>1. QED BY <2>1
  <2>3. QED BY <2>2, Zenon
<1>2. CASE b \in 184..191
  <2>1. b - 183 \in 1..8 /\ b = LongBase(FALSE) + (b - 183)
      /\ FALSE \in BOOLEAN
    BY <1>2 DEF LongBase
  <2>2. \E l \in BOOLEAN, n \in 1..8 : b = LongBase(l) + n
    <3> SUFFICES b = LongBase(FALSE) + (b - 183)
      BY <2>1, Zenon
    <3>1. QED BY <2>1
  <2>3. QED BY <2>2, Zenon
<1>3. CASE b \in 192..247
  <2>1. b - 192 \in 0..55 /\ b = ShortBase(TRUE) + (b - 192)
      /\ TRUE \in BOOLEAN
    BY <1>3 DEF ShortBase
  <2>2. \E l \in BOOLEAN, n \in 0..55 : b = ShortBase(l) + n
    <3> SUFFICES b = ShortBase(TRUE) + (b - 192)
      BY <2>1, Zenon
    <3>1. QED BY <2>1
  <2>3. QED BY <2>2, Zenon
<1>4. CASE b \in 248..255
  <2>1. b - 247 \in 1..8 /\ b = LongBase(TRUE) + (b - 247)
      /\ TRUE \in BOOLEAN
    BY <1>4 DEF LongBase
  <2>2. \E l \in BOOLEAN, n \in 1..8 : b = LongBase(l) + n
    <3> SUFFICES b = LongBase(TRUE) + (b - 247)
      BY <2>1, Zenon
    <3>1. QED BY <2>1
  <2>3. QED BY <2>2, Zenon
<1>5. QED BY <1>1, <1>2, <1>3, <1>4

LEMMA ItemReads ==
    ASSUME NEW x, NEW start, NEW len, NEW l, Item(x, start, len, l).ok
    PROVE  /\ ~(Len(x) < start - 1 + len)
           /\ Item(x, start, len, l)
                = Read([payload |-> SubSeq(x, start, start - 1 + len), is_list |-> l],
                       start - 1 + len)
<1>1. ~(Len(x) < start - 1 + len)
  BY DEF Item, Failure
<1>2. QED BY <1>1 DEF Item

\* What an item read from x is made of.
Decodes(x, item, p, l, k) ==
    /\ p \in Seq(Byte) /\ l \in BOOLEAN /\ k \in 1..Len(x)
    /\ item = Read([payload |-> p, is_list |-> l], k)
    /\ SubSeq(x, 1, k) = Encoding(p, l)

LEMMA FirstAndRest ==
    ASSUME NEW S, NEW x \in Seq(S), NEW k \in 1..Len(x)
    PROVE  SubSeq(x, 1, k) = <<x[1]>> \o SubSeq(x, 2, k)
<1>1. Len(x) \in Nat
  BY LenProperties
<1>2. 1 \in 1..Len(x) /\ k \in 1..Len(x) /\ 1 + 1 = 2
  BY <1>1
<1>3. SubSeq(x, 1, k) = <<x[1]>> \o SubSeq(x, 1 + 1, k)
  BY <1>2, SubSeqRecursiveFirst, Zenon
<1>4. QED BY <1>2, <1>3

LEMMA ByteAt ==
    ASSUME NEW s \in Seq(Byte), NEW i \in 1..Len(s)
    PROVE  s[i] \in 0..255
<1>1. s[i] \in Byte
  BY ElementOfSeq, Zenon
<1>2. QED BY <1>1 DEF Byte

LEMMA FirstAlone ==
    ASSUME NEW x \in Seq(Byte), x # <<>>
    PROVE  SubSeq(x, 1, 1) = <<x[1]>>
<1>1. Len(x) \in Nat \ {0}
  BY EmptySeq
<1>2. SubSeq(x, 1, 1) = <<x[1]>> \o SubSeq(x, 2, 1)
  BY <1>1, FirstAndRest
<1>3. 2 \in Int /\ 1 \in Int /\ 1 < 2
  OBVIOUS
<1>4. SubSeq(x, 2, 1) = <<>>
  BY <1>3, SubSeqEmpty, Zenon
<1>5. x[1] \in Byte
  <2>1. 1 \in 1..Len(x)
    BY <1>1
  <2>2. QED BY <2>1, ElementOfSeq, Zenon
<1>6. <<x[1]>> \o <<>> = <<x[1]>>
  <2>1. <<x[1]>> \in Seq(Byte)
    BY <1>5
  <2>2. QED BY <2>1, ConcatEmptySeq
<1>7. QED BY <1>2, <1>4, <1>6

LEMMA SingleItemDecodes ==
    ASSUME NEW x \in Seq(Byte), x # <<>>, x[1] \in 0..127
    PROVE  Decodes(x, Item(x, 1, 1, FALSE), <<x[1]>>, FALSE, 1)
<1>1. Len(x) \in Nat \ {0}
  BY EmptySeq
<1>2. Item(x, 1, 1, FALSE) = Read([payload |-> SubSeq(x, 1, 1), is_list |-> FALSE], 1)
  <2>1. 1 - 1 + 1 = 1 /\ ~(Len(x) < 1)
    BY <1>1
  <2>2. QED BY <2>1 DEF Item
<1>3. SubSeq(x, 1, 1) = <<x[1]>>
  BY FirstAlone
<1>4. <<x[1]>> \in Seq(Byte) /\ Len(<<x[1]>>) = 1 /\ <<x[1]>>[1] = x[1]
  BY DEF Byte
<1> DEFINE v == <<x[1]>>
<1>5. v \in Seq(Byte) /\ Len(v) = 1 /\ ~(v[1] >= 128)
  <2>1. \A b \in 0..127 : ~(b >= 128)
    OBVIOUS
  <2>2. ~(x[1] >= 128)
    BY <2>1
  <2>3. QED BY <1>4, <2>2, Zenon
<1>6. Item(x, 1, 1, FALSE) = Read([payload |-> v, is_list |-> FALSE], 1) /\ SubSeq(x, 1, 1) = v
  BY <1>2, <1>3
<1> HIDE DEF v
<1>7. Encoding(v, FALSE) = v
  BY <1>5 DEF Encoding, RlpPushBytes, HasHighBit
<1>8. Decodes(x, Item(x, 1, 1, FALSE), v, FALSE, 1)
  <2>1. 1 \in 1..Len(x) /\ FALSE \in BOOLEAN
    BY <1>1
  <2>2. QED BY <1>5, <1>6, <1>7, <2>1, Zenon DEF Decodes
<1>9. QED BY <1>8 DEF v

LEMMA ShortItemDecodes ==
    ASSUME NEW x \in Seq(Byte), NEW n \in 0..55, NEW l \in BOOLEAN,
           x # <<>>, x[1] = ShortBase(l) + n, ParseShortItem(x, n, l).ok
    PROVE  Decodes(x, ParseShortItem(x, n, l), SubSeq(x, 2, n + 1), l, n + 1)
<1> DEFINE p == SubSeq(x, 2, n + 1)
<1>1. Len(x) \in Nat \ {0}
  BY EmptySeq
<1>2. ~(~l /\ n = 1 /\ Len(x) > 1 /\ ~HasHighBit(x[2])) /\ Item(x, 2, n, l).ok
      /\ ParseShortItem(x, n, l) = Item(x, 2, n, l)
  BY DEF ParseShortItem, Failure
<1>3. ~(Len(x) < 2 - 1 + n)
      /\ Item(x, 2, n, l) = Read([payload |-> SubSeq(x, 2, 2 - 1 + n), is_list |-> l], 2 - 1 + n)
  <2> DEFINE start == 2
  <2>1. Item(x, start, n, l).ok
    BY <1>2
  <2> HIDE DEF start
  <2>2. ~(Len(x) < start - 1 + n)
        /\ Item(x, start, n, l) = Read([payload |-> SubSeq(x, start, start - 1 + n),
                                        is_list |-> l], start - 1 + n)
    BY <2>1, ItemReads
  <2>3. QED BY <2>2 DEF start
<1>4. 2 - 1 + n = n + 1 /\ n + 1 \in 1..Len(x)
  BY <1>1, <1>3
<1>5. Item(x, 2, n, l) = Read([payload |-> p, is_list |-> l], n + 1)
  BY <1>3, <1>4
<1>6. p \in Seq(Byte) /\ Len(p) = n /\ \A i \in 1..n : p[i] = x[1 + i]
  <2> DEFINE j == n + 1
  <2>1. 2 \in 1..Len(x) + 1 /\ j \in 2 - 1..Len(x) /\ j + 1 - 2 = n /\ 2 - 1 = 1
    BY <1>1, <1>4
  <2> HIDE DEF j
  <2>2. /\ SubSeq(x, 2, j) \in Seq(Byte) /\ Len(SubSeq(x, 2, j)) = j + 1 - 2
        /\ \A i \in 1..j + 1 - 2 : SubSeq(x, 2, j)[i] = x[2 - 1 + i]
    BY <2>1, PartProperties
  <2>3. QED BY <2>1, <2>2 DEF j
<1>7. SubSeq(x, 1, n + 1) = <<x[1]>> \o p
  BY <1>4, FirstAndRest
<1> HIDE DEF p
<1>8. ~IsItsOwnEncoding(p, l)
  <2> SUFFICES ASSUME ~l, Len(p) = 1, ~HasHighBit(p[1]) PROVE FALSE
    BY DEF IsItsOwnEncoding
  <2>1. n = 1 /\ 1 \in 1..n /\ 1 + 1 = 2
    <3>1. n = 1
      BY <1>6, Zenon
    <3>2. QED BY <3>1
  <2>2. p[1] = x[2] /\ Len(x) > 1
    BY <1>1, <1>4, <1>6, <2>1
  <2>3. QED BY <1>2, <2>1, <2>2
<1>9. RlpPushLength(ShortBase(l), LongBase(l), Len(p)) = <<x[1]>>
  BY <1>6 DEF RlpPushLength
<1>10. Encoding(p, l) = <<x[1]>> \o p
  BY <1>8, <1>9, EncodingForms
<1>11. QED BY <1>2, <1>4, <1>5, <1>6, <1>7, <1>10 DEF Decodes, p

LEMMA LongItemDecodes ==
    ASSUME NEW x \in Seq(Byte), NEW m \in 1..8, NEW l \in BOOLEAN,
           x # <<>>, x[1] = LongBase(l) + m, ParseLongItem(x, m, l).ok
    PROVE  \E p, k : Decodes(x, ParseLongItem(x, m, l), p, l, k)
<1> DEFINE digits == SubSeq(x, 2, 1 + m)
           n == Number(digits)
           start == 2 + m
           k == start - 1 + n
           p == SubSeq(x, start, k)
<1>1. Len(x) \in Nat \ {0} /\ UsizeMax \in Nat
  BY EmptySeq, CapacityAssumption
<1>2. ~(Len(x) < 1 + m) /\ x[2] # 0
      /\ ParseLongItem(x, m, l) = LongItem(x, start, n, l)
  BY DEF ParseLongItem, Failure
<1>3. digits \in Seq(Byte) /\ Len(digits) = m /\ \A i \in 1..m : digits[i] = x[1 + i]
  <2> DEFINE j == 1 + m
  <2>1. 2 \in 1..Len(x) + 1 /\ j \in 2 - 1..Len(x) /\ j + 1 - 2 = m /\ 2 - 1 = 1
    BY <1>1, <1>2
  <2> HIDE DEF j
  <2>2. /\ SubSeq(x, 2, j) \in Seq(Byte) /\ Len(SubSeq(x, 2, j)) = j + 1 - 2
        /\ \A i \in 1..j + 1 - 2 : SubSeq(x, 2, j)[i] = x[2 - 1 + i]
    BY <2>1, PartProperties
  <2>3. QED BY <2>1, <2>2 DEF j
<1>4. digits # <<>> => digits[1] # 0
  <2>1. 1 \in 1..m /\ 1 + 1 = 2
    OBVIOUS
  <2>2. QED BY <1>2, <1>3, <2>1
<1> HIDE DEF digits, n
<1>5. ~(n < 56 \/ n > UsizeMax) /\ Item(x, start, n, l).ok
      /\ LongItem(x, start, n, l) = Item(x, start, n, l)
  BY <1>2 DEF LongItem, Failure
<1>6. PICK read : ReadsNumber(read, digits)
  BY <1>3, NumberSteps
<1>7. n \in Nat /\ n >= 56 /\ n <= UsizeMax
  BY <1>1, <1>3, <1>5, <1>6 DEF ReadsNumber, n
<1>8. BigEndian(n) = digits
  BY <1>3, <1>4, <1>7, BigEndianOfNumber DEF n
<1> HIDE DEF start
<1>9. ~(Len(x) < start - 1 + n)
      /\ Item(x, start, n, l)
           = Read([payload |-> SubSeq(x, start, start - 1 + n), is_list |-> l], start - 1 + n)
  BY <1>5, ItemReads
<1>10. start \in Nat /\ start - 1 = 1 + m /\ start \in 1..Len(x) + 1 /\ k \in 1..Len(x)
       /\ k \in start - 1..Len(x) /\ k + 1 - start = n
  BY <1>1, <1>2, <1>7, <1>9 DEF start
<1>11. Item(x, start, n, l) = Read([payload |-> p, is_list |-> l], k)
  BY <1>9
<1> HIDE DEF k
<1>12. p \in Seq(Byte) /\ Len(p) = n
  BY <1>10, PartProperties
<1>13. SubSeq(x, 1, k) = (<<x[1]>> \o digits) \o p
  <2>1. SubSeq(x, 1, start - 1) = <<x[1]>> \o digits
    <3>1. 1 + m \in 1..Len(x)
      BY <1>1, <1>2
    <3>2. SubSeq(x, 1, 1 + m) = <<x[1]>> \o SubSeq(x, 2, 1 + m)
      BY <3>1, FirstAndRest
    <3>3. QED BY <1>10, <3>2 DEF digits
  <2> DEFINE j == start - 1
  <2>2. 1 \in 1..Len(x) + 1 /\ j \in (1 - 1)..Len(x) /\ k \in j..Len(x) /\ j + 1 = start
    BY <1>1, <1>10
  <2>3. SubSeq(x, 1, j) = <<x[1]>> \o digits
    BY <2>1
  <2> HIDE DEF j
  <2>4. SubSeq(x, 1, j) \o SubSeq(x, j + 1, k) = SubSeq(x, 1, k)
    BY <2>2, ConcatAdjacentSubSeq, Zenon
  <2>5. QED BY <2>2, <2>3, <2>4
<1> HIDE DEF p
<1>14. RlpPushLength(ShortBase(l), LongBase(l), Len(p)) = <<x[1]>> \o digits
  <2>1. ~(Len(p) < 56) /\ BigEndian(Len(p)) = digits /\ LongBase(l) + Len(digits) = x[1]
    BY <1>3, <1>7, <1>8, <1>12
  <2>2. QED BY <2>1 DEF RlpPushLength
<1>15. Encoding(p, l) = (<<x[1]>> \o digits) \o p
  <2>1. ~IsItsOwnEncoding(p, l)
    BY <1>7, <1>12 DEF IsItsOwnEncoding
  <2>2. QED BY <1>14, <2>1, EncodingForms
<1>16. ParseLongItem(x, m, l) = Read([payload |-> p, is_list |-> l], k)
  BY <1>2, <1>5, <1>11
<1>17. Decodes(x, ParseLongItem(x, m, l), p, l, k)
  BY <1>10, <1>12, <1>13, <1>15, <1>16 DEF Decodes
<1>18. QED BY <1>17

\* parse_rlp_item accepts one encoding of an item.
LEMMA ItemDecodes ==
    ASSUME NEW x \in Seq(Byte), ParseRlpItem(x).ok
    PROVE  \E p, l, k : Decodes(x, ParseRlpItem(x), p, l, k)
<1>1. x # <<>> /\ ParseRlpItem(x) = ItemWithPrefix(x[1], x)
  BY DEF ParseRlpItem, Failure
<1>2. x[1] \in 0..255
  <2>1. 1 \in 1..Len(x)
    BY <1>1, EmptySeq
  <2>2. QED BY <2>1, ElementOfSeq DEF Byte
<1>3. CASE x[1] \in 0..127
  <2>1. ItemWithPrefix(x[1], x) = Item(x, 1, 1, FALSE)
    BY <1>3, PrefixSingle
  <2>2. QED BY <1>1, <1>3, <2>1, SingleItemDecodes
<1>4. CASE \E l \in BOOLEAN, n \in 0..55 : x[1] = ShortBase(l) + n
  <2>1. PICK l \in BOOLEAN, n \in 0..55 : x[1] = ShortBase(l) + n
    BY <1>4
  <2>2. ItemWithPrefix(x[1], x) = ParseShortItem(x, n, l)
    BY <2>1, PrefixShort
  <2>3. QED BY <1>1, <2>1, <2>2, ShortItemDecodes
<1>5. CASE \E l \in BOOLEAN, m \in 1..8 : x[1] = LongBase(l) + m
  <2>1. PICK l \in BOOLEAN, m \in 1..8 : x[1] = LongBase(l) + m
    BY <1>5
  <2>2. ItemWithPrefix(x[1], x) = ParseLongItem(x, m, l)
    BY <2>1, PrefixLong
  <2>3. ParseLongItem(x, m, l).ok /\ ParseRlpItem(x) = ParseLongItem(x, m, l)
    BY <1>1, <2>2
  <2>4. \E p, k : Decodes(x, ParseLongItem(x, m, l), p, l, k)
    BY <1>1, <2>1, <2>3, LongItemDecodes
  <2>5. QED BY <2>3, <2>4, Zenon
<1>6. QED BY <1>2, <1>3, <1>4, <1>5, PrefixCases

\* Whatever parse_rlp_item accepts, the writer of bytes or lists writes just
\* those bytes for it.
THEOREM RlpCanonical ==
    ASSUME input \in Seq(Byte)
    PROVE  RlpIsCanonical
<1> SUFFICES ASSUME ParseRlpItem(input).ok
             PROVE  Prefix(ParseRlpItem(input).used)
                      = IF ParseRlpItem(input).value.is_list
                        THEN RlpPushList(ParseRlpItem(input).value.payload)
                        ELSE RlpPushBytes(ParseRlpItem(input).value.payload)
  BY DEF RlpIsCanonical
<1>1. PICK p, l, k : Decodes(input, ParseRlpItem(input), p, l, k)
  BY ItemDecodes
<1>2. ParseRlpItem(input).used = k /\ ParseRlpItem(input).value.is_list = l
      /\ ParseRlpItem(input).value.payload = p
  BY <1>1 DEF Decodes, Read
<1>3. QED BY <1>1, <1>2 DEF Decodes, Encoding, Prefix

\* The part that was joined in the middle.
LEMMA MiddlePart ==
    ASSUME NEW S, NEW a \in Seq(S), NEW b \in Seq(S), NEW c \in Seq(S)
    PROVE  /\ (a \o b) \o c \in Seq(S)
           /\ Len((a \o b) \o c) = Len(a) + Len(b) + Len(c)
           /\ \A i \in 1..Len(a) : ((a \o b) \o c)[i] = a[i]
           /\ \A i \in 1..Len(b) : ((a \o b) \o c)[Len(a) + i] = b[i]
           /\ SubSeq((a \o b) \o c, Len(a) + 1, Len(a) + Len(b)) = b
<1> DEFINE ab == a \o b
           x == ab \o c
           i0 == Len(a) + 1
           j0 == Len(a) + Len(b)
<1>1. Len(a) \in Nat /\ Len(b) \in Nat /\ Len(c) \in Nat
  BY LenProperties
<1>2. ab \in Seq(S) /\ Len(ab) = Len(a) + Len(b)
      /\ \A i \in 1..Len(a) + Len(b) : ab[i] = IF i <= Len(a) THEN a[i] ELSE b[i - Len(a)]
  BY ConcatProperties
<1> HIDE DEF ab
<1>3. x \in Seq(S) /\ Len(x) = Len(ab) + Len(c)
      /\ \A i \in 1..Len(ab) + Len(c) : x[i] = IF i <= Len(ab) THEN ab[i] ELSE c[i - Len(ab)]
  <2>1. ab \in Seq(S)
    BY <1>2
  <2>2. QED BY <2>1, ConcatProperties, Zenon
<1> HIDE DEF x
<1>4. \A i \in 1..Len(a) : x[i] = a[i]
  <2> TAKE i \in 1..Len(a)
  <2>1. i \in 1..Len(a) + Len(b) /\ i \in 1..Len(ab) + Len(c) /\ i <= Len(ab) /\ i <= Len(a)
    BY <1>1, <1>2
  <2>2. x[i] = ab[i]
    BY <1>3, <2>1
  <2>3. ab[i] = a[i]
    BY <1>2, <2>1
  <2>4. QED BY <2>2, <2>3
<1>5. \A i \in 1..Len(b) : x[Len(a) + i] = b[i]
  <2> TAKE i \in 1..Len(b)
  <2> DEFINE j == Len(a) + i
  <2>1. j \in 1..Len(a) + Len(b) /\ j \in 1..Len(ab) + Len(c) /\ j <= Len(ab) /\ ~(j <= Len(a))
        /\ j - Len(a) = i
    BY <1>1, <1>2
  <2> HIDE DEF j
  <2>2. x[j] = ab[j]
    BY <1>3, <2>1
  <2>3. ab[j] = b[i]
    BY <1>2, <2>1
  <2>4. QED BY <2>2, <2>3 DEF j
<1>6. i0 \in 1..Len(x) + 1 /\ j0 \in i0 - 1..Len(x) /\ j0 + 1 - i0 = Len(b)
      /\ \A i \in 1..Len(b) : i0 - 1 + i = Len(a) + i
  BY <1>1, <1>2, <1>3
<1> HIDE DEF i0, j0
<1>7. /\ SubSeq(x, i0, j0) \in Seq(S) /\ Len(SubSeq(x, i0, j0)) = j0 + 1 - i0
      /\ \A i \in 1..j0 + 1 - i0 : SubSeq(x, i0, j0)[i] = x[i0 - 1 + i]
  <2>1. x \in Seq(S)
    BY <1>3
  <2>2. QED BY <1>6, <2>1, PartProperties
<1>8. \A i \in 1..Len(b) : SubSeq(x, i0, j0)[i] = b[i]
  BY <1>5, <1>6, <1>7
<1>9. SubSeq(x, i0, j0) = b
  <2> DEFINE t == SubSeq(x, i0, j0)
  <2>1. t \in Seq(S) /\ Len(t) = Len(b) /\ \A i \in 1..Len(t) : t[i] = b[i]
    BY <1>6, <1>7, <1>8
  <2> HIDE DEF t
  <2>2. t = b
    BY <2>1, SeqEqual
  <2>3. QED BY <2>2 DEF t
<1>10. Len(x) = Len(a) + Len(b) + Len(c)
  BY <1>1, <1>2, <1>3
<1>11. QED BY <1>3, <1>4, <1>5, <1>9, <1>10 DEF x, ab, i0, j0

Header(l, n) == RlpPushLength(ShortBase(l), LongBase(l), n)

LEMMA LongHeader ==
    ASSUME NEW n \in Nat, IsLength(n), n >= 56, NEW l \in BOOLEAN
    PROVE  /\ BigEndian(n) \in Seq(Byte) /\ Len(BigEndian(n)) \in 1..3
           /\ BigEndian(n)[1] # 0 /\ Number(BigEndian(n)) = n
           /\ Header(l, n) = <<LongBase(l) + Len(BigEndian(n))>> \o BigEndian(n)
           /\ Header(l, n) \in Seq(Byte) /\ Len(Header(l, n)) = Len(BigEndian(n)) + 1
           /\ Header(l, n)[1] = LongBase(l) + Len(BigEndian(n))
           /\ \A i \in 1..Len(BigEndian(n)) : Header(l, n)[1 + i] = BigEndian(n)[i]
<1> DEFINE d == BigEndian(n)
           m == Len(d)
           b == LongBase(l) + m
<1>1. d \in Seq(Byte) /\ (d # <<>> => d[1] # 0)
  BY BigEndianProperties
<1>2. Number(d) = n /\ m <= 3
  BY NumberOfBigEndian
<1>3. d # <<>>
  BY <1>2, NumberOfEmpty
<1>4. m \in 1..3
  <2>1. m \in Nat \ {0}
    BY <1>1, <1>3, EmptySeq
  <2>2. m <= 3
    BY <1>2
  <2> HIDE DEF m
  <2>3. QED BY <2>1, <2>2
<1>5. Header(l, n) = <<b>> \o d
  BY DEF Header, RlpPushLength
<1>6. b \in Byte
  <2>1. \A j \in 1..3 : LongBase(l) + j \in 0..255
    BY DEF LongBase
  <2>2. QED BY <1>4, <2>1 DEF Byte
<1> HIDE DEF d, b
<1>7. <<b>> \in Seq(Byte) /\ Len(<<b>>) = 1 /\ <<b>>[1] = b
  BY <1>6
<1>8. /\ <<b>> \o d \in Seq(Byte) /\ Len(<<b>> \o d) = Len(<<b>>) + Len(d)
      /\ \A i \in 1..Len(<<b>>) + Len(d) :
            (<<b>> \o d)[i] = IF i <= Len(<<b>>) THEN <<b>>[i] ELSE d[i - Len(<<b>>)]
  BY <1>1, <1>7, ConcatProperties
<1> DEFINE h == <<b>> \o d
<1>9. h \in Seq(Byte) /\ Len(h) = m + 1
      /\ \A i \in 1..m + 1 : h[i] = IF i <= 1 THEN b ELSE d[i - 1]
  BY <1>4, <1>7, <1>8
<1> HIDE DEF h
<1>10. h[1] = b /\ \A i \in 1..m : h[1 + i] = d[i]
  BY <1>4, <1>9
<1>11. QED BY <1>1, <1>2, <1>3, <1>4, <1>5, <1>9, <1>10 DEF h, d, b

LEMMA HeaderProperties ==
    ASSUME NEW n \in Nat, IsLength(n), NEW l \in BOOLEAN
    PROVE  Header(l, n) \in Seq(Byte) /\ Len(Header(l, n)) \in 1..4
           /\ (n < 56 => Header(l, n) = <<ShortBase(l) + n>> /\ Len(Header(l, n)) = 1)
<1>1. CASE n < 56
  <2>1. Header(l, n) = <<ShortBase(l) + n>>
    BY <1>1 DEF Header, RlpPushLength
  <2> DEFINE b == ShortBase(l) + n
  <2>2. b \in Byte
    BY <1>1 DEF ShortBase, Byte
  <2> HIDE DEF b
  <2>3. <<b>> \in Seq(Byte) /\ Len(<<b>>) = 1
    BY <2>2
  <2>4. Header(l, n) = <<b>>
    BY <2>1 DEF b
  <2>5. Header(l, n) \in Seq(Byte) /\ Len(Header(l, n)) = 1
    BY <2>3, <2>4
  <2>6. Len(Header(l, n)) \in 1..4
    BY <2>5
  <2>7. QED BY <2>1, <2>5, <2>6, Zenon
<1>2. CASE n >= 56
  <2>1. ~(n < 56)
    BY <1>2
  <2>2. Header(l, n) \in Seq(Byte) /\ Len(Header(l, n)) = Len(BigEndian(n)) + 1
        /\ Len(BigEndian(n)) \in 1..3
    BY <1>2, LongHeader
  <2>3. Len(Header(l, n)) \in 1..4
    <3> DEFINE j == Len(BigEndian(n))
               k == Len(Header(l, n))
    <3>1. j \in 1..3 /\ k = j + 1
      BY <2>2
    <3> HIDE DEF j, k
    <3>2. k \in 1..4
      BY <3>1
    <3>3. QED BY <3>2 DEF k
  <2>4. QED BY <2>1, <2>2, <2>3, Zenon
<1>3. QED BY <1>1, <1>2

LEMMA EncodingProperties ==
    ASSUME NEW p \in Seq(Byte), NEW l \in BOOLEAN, IsLength(Len(p))
    PROVE  /\ Encoding(p, l) \in Seq(Byte)
           /\ Len(Encoding(p, l)) \in Len(p)..Len(p) + 4 /\ Len(Encoding(p, l)) >= 1
           /\ Len(p) < 56 => Len(Encoding(p, l)) <= Len(p) + 1
<1>1. Len(p) \in Nat
  BY LenProperties
<1>2. CASE IsItsOwnEncoding(p, l)
  <2>1. Encoding(p, l) = p /\ Len(p) = 1
    BY <1>2, EncodingForms DEF IsItsOwnEncoding
  <2>2. QED BY <2>1
<1>3. CASE ~IsItsOwnEncoding(p, l)
  <2> DEFINE h == Header(l, Len(p))
  <2>1. Encoding(p, l) = h \o p
    BY <1>3, EncodingForms DEF Header
  <2>2. h \in Seq(Byte) /\ Len(h) \in 1..4 /\ (Len(p) < 56 => Len(h) = 1)
    BY <1>1, HeaderProperties
  <2> HIDE DEF h
  <2>3. h \o p \in Seq(Byte) /\ Len(h \o p) = Len(h) + Len(p)
    BY <2>2, ConcatProperties
  <2> DEFINE e == h \o p
  <2>4. e \in Seq(Byte) /\ Len(e) = Len(h) + Len(p)
    BY <2>3
  <2> HIDE DEF e
  <2>5. Len(e) \in Len(p)..Len(p) + 4 /\ Len(e) >= 1 /\ (Len(p) < 56 => Len(e) <= Len(p) + 1)
    <3> DEFINE i == Len(p)
               j == Len(h)
               k == Len(e)
    <3>1. i \in Nat /\ j \in 1..4 /\ k = j + i /\ (i < 56 => j = 1)
      BY <1>1, <2>2, <2>4
    <3> HIDE DEF i, j, k
    <3>2. k \in i..i + 4 /\ k >= 1 /\ (i < 56 => k <= i + 1)
      BY <3>1
    <3>3. QED BY <3>2 DEF i, k
  <2>6. QED BY <2>1, <2>4, <2>5 DEF e
<1>4. QED BY <1>2, <1>3

\* parse_rlp_item reads what was written, whatever follows.
LEMMA SingleItemRead ==
    ASSUME NEW p \in Seq(Byte), IsItsOwnEncoding(p, FALSE), NEW y \in Seq(Byte)
    PROVE  ParseRlpItem(p \o y) = Read([payload |-> p, is_list |-> FALSE], 1)
<1> DEFINE x == p \o y
<1>1. Len(p) = 1 /\ ~HasHighBit(p[1])
  BY DEF IsItsOwnEncoding
<1>2. Len(y) \in Nat
  BY LenProperties
<1>3. x \in Seq(Byte) /\ Len(x) = Len(p) + Len(y)
      /\ \A i \in 1..Len(p) + Len(y) : x[i] = IF i <= Len(p) THEN p[i] ELSE y[i - Len(p)]
  BY ConcatProperties
<1>4. SubSeq(x, 1, Len(p)) = p
  BY CutWhereJoined
<1> HIDE DEF x
<1>5. x[1] = p[1] /\ ~(Len(x) < 1) /\ x # <<>>
  BY <1>1, <1>2, <1>3
<1>6. p[1] \in 0..255
  <2>1. 1 \in 1..Len(p)
    BY <1>1
  <2>2. QED BY <2>1, ElementOfSeq, Zenon DEF Byte
<1>7. p[1] \in 0..127
  <2> DEFINE c == p[1]
  <2>1. ~(c >= 128) /\ c \in 0..255
    BY <1>1, <1>6 DEF HasHighBit
  <2> HIDE DEF c
  <2>2. c \in 0..127
    BY <2>1
  <2>3. QED BY <2>2 DEF c
<1>8. ParseRlpItem(x) = Item(x, 1, 1, FALSE)
  BY <1>5, <1>7, PrefixSingle DEF ParseRlpItem
<1>9. Item(x, 1, 1, FALSE) = Read([payload |-> SubSeq(x, 1, 1), is_list |-> FALSE], 1)
  <2>1. 1 - 1 + 1 = 1
    OBVIOUS
  <2>2. QED BY <1>5, <2>1 DEF Item
<1>10. QED BY <1>1, <1>4, <1>8, <1>9 DEF x

LEMMA ShortItemRead ==
    ASSUME NEW p \in Seq(Byte), NEW l \in BOOLEAN, ~IsItsOwnEncoding(p, l), Len(p) < 56,
           NEW h \in Seq(Byte), h = <<ShortBase(l) + Len(p)>>, Len(h) = 1,
           NEW y \in Seq(Byte)
    PROVE  ParseRlpItem((h \o p) \o y) = Read([payload |-> p, is_list |-> l], 1 + Len(p))
<1> DEFINE x == (h \o p) \o y
           n == Len(p)
           j == Len(h) + Len(p)
<1>1. Len(p) \in Nat /\ Len(y) \in Nat
  BY LenProperties
<1>2. /\ x \in Seq(Byte) /\ Len(x) = Len(h) + Len(p) + Len(y)
      /\ \A i \in 1..Len(h) : x[i] = h[i]
      /\ \A i \in 1..Len(p) : x[Len(h) + i] = p[i]
      /\ SubSeq(x, Len(h) + 1, j) = p
  BY MiddlePart
<1> HIDE DEF x
<1>3. h[1] = ShortBase(l) + n
  OBVIOUS
<1>4. x[1] = ShortBase(l) + n /\ x # <<>>
  BY <1>1, <1>2, <1>3
<1> HIDE DEF n
<1>5. n \in 0..55 /\ n = Len(p)
  <2>1. \A k \in Nat : k < 56 => k \in 0..55
    OBVIOUS
  <2>2. QED BY <1>1, <2>1, Zenon DEF n
<1>6. ParseRlpItem(x) = ParseShortItem(x, n, l)
  BY <1>4, <1>5, PrefixShort DEF ParseRlpItem
<1>7. ~(~l /\ n = 1 /\ Len(x) > 1 /\ ~HasHighBit(x[2]))
  <2> SUFFICES ASSUME ~l, n = 1, ~HasHighBit(x[2]) PROVE FALSE
    OBVIOUS
  <2>1. 1 \in 1..Len(p) /\ Len(h) + 1 = 2
    <3>1. Len(p) = 1
      BY <1>5
    <3>2. QED BY <3>1
  <2>2. x[2] = p[1]
    BY <1>2, <2>1
  <2>3. QED BY <1>5, <2>2 DEF IsItsOwnEncoding
<1>8. ParseShortItem(x, n, l) = Item(x, 2, n, l)
  BY <1>7 DEF ParseShortItem
<1>9. Len(h) + 1 = 2 /\ 2 - 1 + n = j /\ j = 1 + Len(p) /\ ~(Len(x) < j)
  BY <1>1, <1>2, <1>5
<1> HIDE DEF j
<1>10. Item(x, 2, n, l) = Read([payload |-> SubSeq(x, 2, j), is_list |-> l], j)
  BY <1>9 DEF Item
<1>11. SubSeq(x, 2, j) = p
  BY <1>2, <1>9
<1>12. QED BY <1>6, <1>8, <1>9, <1>10, <1>11 DEF x

LEMMA LongItemRead ==
    ASSUME NEW p \in Seq(Byte), NEW l \in BOOLEAN, Len(p) >= 56, IsLength(Len(p)),
           NEW y \in Seq(Byte)
    PROVE  ParseRlpItem((Header(l, Len(p)) \o p) \o y)
             = Read([payload |-> p, is_list |-> l], Len(Header(l, Len(p))) + Len(p))
<1> DEFINE n == Len(p)
           h == Header(l, n)
           d == BigEndian(n)
           m == Len(d)
           x == (h \o p) \o y
           j == Len(h) + Len(p)
           start == 2 + m
<1>1. n \in Nat /\ Len(y) \in Nat
  BY LenProperties
<1>2. /\ d \in Seq(Byte) /\ m \in 1..3 /\ d[1] # 0 /\ Number(d) = n
      /\ h \in Seq(Byte) /\ Len(h) = m + 1 /\ h[1] = LongBase(l) + m
      /\ \A i \in 1..m : h[1 + i] = d[i]
  BY <1>1, LongHeader
<1>3. ~(n < 56) /\ ~(n > UsizeMax)
  BY <1>1, CapacityAssumption, SMT DEF IsLength
<1> HIDE DEF h, d
<1>4. /\ x \in Seq(Byte) /\ Len(x) = Len(h) + Len(p) + Len(y)
      /\ \A i \in 1..Len(h) : x[i] = h[i]
      /\ SubSeq(x, Len(h) + 1, j) = p
  <2>1. h \in Seq(Byte)
    BY <1>2
  <2>2. QED BY <2>1, MiddlePart
<1> HIDE DEF x, m, n
<1>5. n = Len(p) /\ m = Len(d)
  BY DEF m, n
<1>6. x[1] = LongBase(l) + m /\ x # <<>> /\ x[2] # 0
  <2>1. 1 \in 1..Len(h) /\ 2 \in 1..Len(h) /\ 1 \in 1..m /\ 1 + 1 = 2
    BY <1>2
  <2>2. x[1] = h[1] /\ x[2] = h[2] /\ h[2] = d[1]
    BY <1>2, <1>4, <2>1
  <2>3. Len(x) # 0
    BY <1>1, <1>2, <1>4, <1>5
  <2>4. QED BY <1>2, <2>2, <2>3
<1>7. ParseRlpItem(x) = ParseLongItem(x, m, l)
  <2>1. m \in 1..8
    BY <1>2
  <2>2. QED BY <1>6, <2>1, PrefixLong DEF ParseRlpItem
<1>8. SubSeq(x, 2, 1 + m) = d
  <2> DEFINE k == 1 + m
  <2>1. 2 \in 1..Len(x) + 1 /\ k \in 2 - 1..Len(x) /\ k + 1 - 2 = m /\ 2 - 1 = 1
    BY <1>1, <1>2, <1>4, <1>5
  <2> HIDE DEF k
  <2>2. /\ SubSeq(x, 2, k) \in Seq(Byte) /\ Len(SubSeq(x, 2, k)) = k + 1 - 2
        /\ \A i \in 1..k + 1 - 2 : SubSeq(x, 2, k)[i] = x[2 - 1 + i]
    BY <1>4, <2>1, PartProperties
  <2>3. \A i \in 1..m : x[1 + i] = d[i]
    <3> TAKE i \in 1..m
    <3>1. 1 + i \in 1..Len(h)
      BY <1>2
    <3>2. QED BY <1>2, <1>4, <3>1
  <2>4. \A i \in 1..m : SubSeq(x, 2, k)[i] = d[i]
    BY <2>1, <2>2, <2>3
  <2>5. SubSeq(x, 2, k) = d
    BY <1>2, <1>5, <2>1, <2>2, <2>4, SeqEqual
  <2>6. QED BY <2>5 DEF k
<1>9. ParseLongItem(x, m, l) = LongItem(x, start, n, l)
  <2>1. ~(Len(x) < 1 + m)
    BY <1>1, <1>2, <1>4, <1>5
  <2>2. QED BY <1>2, <1>6, <1>8, <2>1 DEF ParseLongItem
<1>10. LongItem(x, start, n, l) = Item(x, start, n, l)
  BY <1>3 DEF LongItem
<1>11. Len(h) + 1 = start /\ start - 1 + n = j /\ ~(Len(x) < j)
  BY <1>1, <1>2, <1>4, <1>5
<1> HIDE DEF j, start
<1>12. Item(x, start, n, l) = Read([payload |-> SubSeq(x, start, j), is_list |-> l], j)
  BY <1>11 DEF Item
<1>13. SubSeq(x, start, j) = p
  BY <1>4, <1>11
<1>14. QED BY <1>7, <1>9, <1>10, <1>12, <1>13 DEF x, h, j, n

LEMMA ItemRead ==
    ASSUME NEW p \in Seq(Byte), NEW l \in BOOLEAN, IsLength(Len(p)), NEW y \in Seq(Byte)
    PROVE  ParseRlpItem(Encoding(p, l) \o y)
             = Read([payload |-> p, is_list |-> l], Len(Encoding(p, l)))
<1>1. Len(p) \in Nat
  BY LenProperties
<1>2. CASE IsItsOwnEncoding(p, l)
  <2>1. Encoding(p, l) = p /\ l = FALSE /\ Len(p) = 1
    BY <1>2, EncodingForms DEF IsItsOwnEncoding
  <2>2. QED BY <1>2, <2>1, SingleItemRead
<1>3. CASE ~IsItsOwnEncoding(p, l)
  <2> DEFINE h == Header(l, Len(p))
  <2>1. Encoding(p, l) = h \o p
    BY <1>3, EncodingForms DEF Header
  <2>2. h \in Seq(Byte) /\ Len(h) \in 1..4
        /\ (Len(p) < 56 => h = <<ShortBase(l) + Len(p)>> /\ Len(h) = 1)
    BY <1>1, HeaderProperties
  <2>3. Len(h \o p) = Len(h) + Len(p)
    <3> HIDE DEF h
    <3>1. QED BY <2>2, ConcatProperties
  <2>4. CASE Len(p) < 56
    <3> HIDE DEF h
    <3>1. ParseRlpItem((h \o p) \o y) = Read([payload |-> p, is_list |-> l], 1 + Len(p))
      BY <1>3, <2>2, <2>4, ShortItemRead
    <3>2. QED BY <2>1, <2>2, <2>3, <2>4, <3>1
  <2>5. CASE Len(p) >= 56
    <3>1. ParseRlpItem((h \o p) \o y) = Read([payload |-> p, is_list |-> l], Len(h) + Len(p))
      BY <2>5, LongItemRead
    <3>2. QED BY <2>1, <2>3, <3>1
  <2>6. QED BY <1>1, <2>4, <2>5
<1>4. QED BY <1>2, <1>3

-----------------------------------------------------------------------------
(* Compact sizes *)

LEMMA NothingPadded ==
    ASSUME NEW s \in Seq(Byte)
    PROVE  Zeros(0) \o s = s
<1>1. Zeros(0) \in Seq(Byte) /\ Len(Zeros(0)) = 0
  BY ZerosAreBytes
<1>2. Zeros(0) = <<>>
  BY <1>1, EmptySeq
<1>3. QED BY <1>2, ConcatEmptySeq

LEMMA NumberIsNatural ==
    ASSUME NEW s \in Seq(Byte)
    PROVE  Number(s) \in Nat
<1>1. PICK read : ReadsNumber(read, s)
  BY NumberSteps
<1>2. QED BY <1>1, LenProperties, CapacityAssumption DEF ReadsNumber

LEMMA NumberOfTwo ==
    ASSUME NEW s \in Seq(Byte), Len(s) = 2
    PROVE  Number(s) < 65536
<1>1. PICK read : ReadsNumber(read, s)
  BY NumberSteps
<1>2. s[1] \in 0..255 /\ s[2] \in 0..255
  <2>1. 1 \in 1..Len(s) /\ 2 \in 1..Len(s)
    OBVIOUS
  <2>2. QED BY <2>1, ByteAt
<1>3. read[0] = 0 /\ read[1] = Shift(read[0], s[1]) /\ read[2] = Shift(read[1], s[2])
      /\ Number(s) = read[2] /\ read[1] \in 0..(UsizeMax + 1)
  BY <1>1 DEF ReadsNumber
<1>4. UsizeMax \in Nat
  BY CapacityAssumption
<1>5. \A v \in 0..(UsizeMax + 1), b \in 0..255 : Shift(v, b) <= v * 256 + b
  BY <1>4 DEF Shift
<1>6. read[1] <= 255
  <2> DEFINE b == s[1]
  <2>1. b \in 0..255 /\ read[1] = Shift(0, b)
    BY <1>2, <1>3
  <2> HIDE DEF b
  <2>2. Shift(0, b) <= 255
    BY <1>4, <2>1 DEF Shift
  <2>3. QED BY <2>1, <2>2
<1>7. read[2] <= read[1] * 256 + s[2]
  BY <1>2, <1>3, <1>5
<1>8. Number(s) \in Nat
  BY NumberIsNatural
<1>10. read[1] \in Nat
  BY <1>3, <1>4
<1>11. Number(s) <= read[1] * 256 + s[2]
  BY <1>3, <1>7
<1>12. QED
  <2> DEFINE v == read[1]
             b == s[2]
             n == Number(s)
  <2>1. v \in Nat /\ v <= 255 /\ b \in 0..255 /\ n \in Nat /\ n <= v * 256 + b
    BY <1>2, <1>6, <1>8, <1>10, <1>11
  <2> HIDE DEF v, b, n
  <2>2. n < 65536
    BY <2>1
  <2>3. QED BY <2>2 DEF n

LEMMA WideRead ==
    ASSUME NEW x \in Seq(Byte), NEW w \in Nat \ {0}, NEW least \in Nat,
           ReadWide(x, w, least).ok
    PROVE  /\ w + 1 \in 1..Len(x)
           /\ \E n \in least..UsizeMax :
                 /\ ReadWide(x, w, least) = Read(n, w + 1)
                 /\ SubSeq(x, 2, w + 1) = LittleEndian(n, w)
                 /\ w = 2 => n < 65536
<1> DEFINE k == w + 1
           d == SubSeq(x, 2, k)
           n == Number(Backwards(d))
<1>1. Len(x) \in Nat
  BY LenProperties
<1>2. ~(Len(x) <= w)
  BY DEF ReadWide, Failure
<1>3. ReadWide(x, w, least) = IF n \in least..UsizeMax THEN Read(n, w + 1) ELSE Failure
  BY <1>2 DEF ReadWide
<1>4. 2 \in 1..Len(x) + 1 /\ k \in 2 - 1..Len(x) /\ k + 1 - 2 = w /\ k \in 1..Len(x)
  BY <1>1, <1>2
<1> HIDE DEF k
<1>5. d \in Seq(Byte) /\ Len(d) = w
  BY <1>4, PartProperties
<1> HIDE DEF d
<1>6. Backwards(d) \in Seq(Byte) /\ Len(Backwards(d)) = w /\ Backwards(Backwards(d)) = d
  BY <1>5, BackwardsProperties
<1> HIDE DEF n
<1>7. n \in least..UsizeMax /\ ReadWide(x, w, least) = Read(n, w + 1)
  BY <1>3 DEF Failure
<1>8. n \in Nat /\ n <= UsizeMax
  <2>1. n \in Nat
    BY <1>6, NumberIsNatural DEF n
  <2>2. QED BY <1>7, <2>1, CapacityAssumption
<1>9. LittleEndian(n, w) \in Seq(Byte) /\ Len(LittleEndian(n, w)) = w
  BY <1>8, LittleEndianBytes
<1>10. Backwards(LittleEndian(n, w)) = Zeros(w - Len(Backwards(d))) \o Backwards(d)
  <2>1. Len(Backwards(d)) <= w /\ w \in Nat
    BY <1>6
  <2>2. QED BY <1>6, <1>8, <2>1, BytesOfNumber DEF n
<1>11. Backwards(LittleEndian(n, w)) = Backwards(d)
  <2>1. w - Len(Backwards(d)) = 0
    BY <1>6
  <2>2. QED BY <1>6, <1>10, <2>1, NothingPadded
<1>12. LittleEndian(n, w) = d
  <2>1. Backwards(Backwards(LittleEndian(n, w))) = LittleEndian(n, w)
    BY <1>9, BackwardsProperties
  <2>2. QED BY <1>6, <1>11, <2>1
<1>13. w = 2 => n < 65536
  BY <1>6, NumberOfTwo DEF n
<1>14. QED BY <1>4, <1>7, <1>12, <1>13 DEF d, k

\* read_compact_size accepts one encoding of a number.
LEMMA CompactSizeRead ==
    ASSUME NEW x \in Seq(Byte), ReadCompactSize(x).ok
    PROVE  \E n, k : /\ k \in 1..Len(x) /\ ReadCompactSize(x) = Read(n, k)
                     /\ SubSeq(x, 1, k) = PushCompactSize(n)
<1> DEFINE b == x[1]
           w2 == 2
           w4 == 4
           least2 == 253
           least4 == 65536
<1>1. x # <<>> /\ b # 255
  BY DEF ReadCompactSize, Failure
<1>2. Len(x) \in Nat \ {0} /\ 1 \in 1..Len(x)
  BY <1>1, EmptySeq
<1>3. b \in 0..255
  BY <1>2, ByteAt
<1>4. \A k \in 1..Len(x) : SubSeq(x, 1, k) = <<b>> \o SubSeq(x, 2, k)
  BY FirstAndRest
<1>5. SubSeq(x, 1, 1) = <<b>>
  BY <1>1, FirstAlone
<1>6. ReadCompactSize(x) = IF b <= 252 THEN Read(b, 1)
                           ELSE IF b = 253 THEN ReadWide(x, w2, least2)
                           ELSE ReadWide(x, w4, least4)
  BY <1>1 DEF ReadCompactSize
<1>7. w2 = 2 /\ w4 = 4 /\ least2 = 253 /\ least4 = 65536
  OBVIOUS
<1> HIDE DEF b, w2, w4, least2, least4
<1>8. CASE b <= 252
  <2>1. ReadCompactSize(x) = Read(b, 1)
    BY <1>6, <1>8
  <2>2. PushCompactSize(b) = <<b>>
    BY <1>3, <1>8 DEF PushCompactSize
  <2>3. QED BY <1>2, <1>5, <2>1, <2>2
<1>9. CASE b = 253
  <2>1. ReadCompactSize(x) = ReadWide(x, w2, least2)
    BY <1>6, <1>9
  <2>2. ReadWide(x, w2, least2).ok /\ w2 \in Nat \ {0} /\ least2 \in Nat
    BY <1>7, <2>1
  <2>3. w2 + 1 \in 1..Len(x)
    BY <2>2, WideRead
  <2>4. PICK n \in least2..UsizeMax : ReadWide(x, w2, least2) = Read(n, w2 + 1)
             /\ SubSeq(x, 2, w2 + 1) = LittleEndian(n, w2) /\ (w2 = 2 => n < 65536)
    BY <2>2, WideRead
  <2>5. n \in Nat /\ ~(n < 253) /\ n < 65536
    BY <1>7, <2>4, CapacityAssumption
  <2>6. PushCompactSize(n) = <<253>> \o LittleEndian(n, w2)
    BY <1>7, <2>5 DEF PushCompactSize
  <2>7. SubSeq(x, 1, w2 + 1) = <<253>> \o LittleEndian(n, w2)
    BY <1>4, <1>9, <2>3, <2>4
  <2>8. ReadCompactSize(x) = Read(n, w2 + 1) /\ SubSeq(x, 1, w2 + 1) = PushCompactSize(n)
    <3>1. ReadCompactSize(x) = Read(n, w2 + 1)
      BY <2>1, <2>4
    <3>2. SubSeq(x, 1, w2 + 1) = PushCompactSize(n)
      BY <2>6, <2>7
    <3>3. QED BY <3>1, <3>2
  <2> DEFINE k == w2 + 1
  <2>9. k \in 1..Len(x) /\ ReadCompactSize(x) = Read(n, k)
        /\ SubSeq(x, 1, k) = PushCompactSize(n)
    BY <2>3, <2>8
  <2> HIDE DEF k
  <2>10. QED BY <2>9, Zenon
<1>10. CASE b = 254
  <2>1. ReadCompactSize(x) = ReadWide(x, w4, least4)
    BY <1>6, <1>10
  <2>2. ReadWide(x, w4, least4).ok /\ w4 \in Nat \ {0} /\ least4 \in Nat
    BY <1>7, <2>1
  <2>3. w4 + 1 \in 1..Len(x)
    BY <2>2, WideRead
  <2>4. PICK n \in least4..UsizeMax : ReadWide(x, w4, least4) = Read(n, w4 + 1)
             /\ SubSeq(x, 2, w4 + 1) = LittleEndian(n, w4)
    BY <2>2, WideRead
  <2>5. n \in Nat /\ ~(n < 253) /\ ~(n < 65536)
    BY <1>7, <2>4, CapacityAssumption
  <2>6. PushCompactSize(n) = <<254>> \o LittleEndian(n, w4)
    BY <1>7, <2>5 DEF PushCompactSize
  <2>7. SubSeq(x, 1, w4 + 1) = <<254>> \o LittleEndian(n, w4)
    BY <1>4, <1>10, <2>3, <2>4
  <2>8. ReadCompactSize(x) = Read(n, w4 + 1) /\ SubSeq(x, 1, w4 + 1) = PushCompactSize(n)
    <3>1. ReadCompactSize(x) = Read(n, w4 + 1)
      BY <2>1, <2>4
    <3>2. SubSeq(x, 1, w4 + 1) = PushCompactSize(n)
      BY <2>6, <2>7
    <3>3. QED BY <3>1, <3>2
  <2> DEFINE k == w4 + 1
  <2>9. k \in 1..Len(x) /\ ReadCompactSize(x) = Read(n, k)
        /\ SubSeq(x, 1, k) = PushCompactSize(n)
    BY <2>3, <2>8
  <2> HIDE DEF k
  <2>10. QED BY <2>9, Zenon
<1>11. QED BY <1>1, <1>3, <1>8, <1>9, <1>10

\* What a u16 and a u32 hold.
FitsU16(n) == n < 65536
FitsU32(n) == n \div 65536 < 65536

LEMMA TwoDigits ==
    ASSUME NEW n \in Nat, FitsU16(n), NEW n1, n1 = n \div 256, NEW n2, n2 = n1 \div 256
    PROVE  n2 = 0
BY DEF FitsU16

LEMMA FourDigits ==
    ASSUME NEW n \in Nat, FitsU32(n), NEW n1, n1 = n \div 256, NEW n2, n2 = n1 \div 256,
           NEW n3, n3 = n2 \div 256, NEW n4, n4 = n3 \div 256
    PROVE  n4 = 0
<1>1. n2 \in Nat /\ n2 = n \div 65536
  OBVIOUS
<1>2. FitsU16(n2)
  BY <1>1 DEF FitsU16, FitsU32
<1>3. QED BY <1>1, <1>2, TwoDigits

LEMMA WideWritten ==
    ASSUME NEW n \in 0..UsizeMax, NEW w \in Nat \ {0}, NEW least \in Nat, n >= least,
           NEW rest, LeavesRest(rest, n, w), rest[w] = 0,
           NEW b \in Byte
    PROVE  LET x == <<b>> \o LittleEndian(n, w)
           IN /\ x \in Seq(Byte) /\ Len(x) = w + 1 /\ x[1] = b /\ x # <<>>
              /\ ReadWide(x, w, least) = Read(n, w + 1)
<1> DEFINE d == LittleEndian(n, w)
           x == <<b>> \o d
           k == w + 1
<1>1. n \in Nat /\ n <= UsizeMax /\ UsizeMax \in Nat /\ n \in least..UsizeMax
  BY CapacityAssumption
<1>2. d \in Seq(Byte) /\ Len(d) = w
  BY <1>1, LittleEndianBytes
<1>3. Number(Backwards(d)) = n
  BY NumberOfBytes
<1> HIDE DEF d
<1>4. <<b>> \in Seq(Byte) /\ Len(<<b>>) = 1 /\ <<b>>[1] = b
  OBVIOUS
<1>5. /\ x \in Seq(Byte) /\ Len(x) = Len(<<b>>) + Len(d)
      /\ \A i \in 1..Len(<<b>>) + Len(d) :
            x[i] = IF i <= Len(<<b>>) THEN <<b>>[i] ELSE d[i - Len(<<b>>)]
  BY <1>2, <1>4, ConcatProperties
<1>6. From(x, Len(<<b>>) + 1) = d
  BY <1>2, <1>4, CutWhereJoined
<1> HIDE DEF x
<1>7. Len(x) = k /\ x[1] = b /\ x # <<>>
  <2>1. Len(x) = 1 + w
    BY <1>2, <1>4, <1>5
  <2>2. x[1] = b
    BY <1>2, <1>4, <1>5
  <2>3. QED BY <2>1, <2>2
<1>8. SubSeq(x, 2, k) = d
  <2>1. Len(<<b>>) + 1 = 2
    BY <1>4
  <2>2. QED BY <1>6, <1>7, <2>1 DEF From
<1>9. ~(Len(x) <= w)
  BY <1>7
<1>10. ReadWide(x, w, least) = Read(n, w + 1)
  BY <1>1, <1>3, <1>8, <1>9 DEF ReadWide
<1>11. QED BY <1>5, <1>7, <1>10 DEF x, d

\* read_compact_size reads what push_compact_size writes.
LEMMA CompactSizeWritten ==
    ASSUME NEW n \in 0..UsizeMax, FitsU32(n)
    PROVE  /\ PushCompactSize(n) \in Seq(Byte) /\ Len(PushCompactSize(n)) <= 5
           /\ ReadCompactSize(PushCompactSize(n)) = Read(n, Len(PushCompactSize(n)))
<1> DEFINE x == PushCompactSize(n)
           w2 == 2
           w4 == 4
           least2 == 253
           least4 == 65536
<1>1. n \in Nat
  BY CapacityAssumption
<1>2. CASE n < 253
  <2>1. x = <<n>>
    BY <1>2 DEF PushCompactSize
  <2>2. n \in 0..252 /\ n \in Byte
    BY <1>1, <1>2 DEF Byte
  <2> HIDE DEF x
  <2>3. x \in Seq(Byte) /\ Len(x) = 1 /\ x[1] = n /\ x # <<>>
    BY <2>1, <2>2
  <2>4. n # 255 /\ n <= 252
    BY <2>2
  <2>5. ReadCompactSize(x) = Read(n, 1)
    BY <2>3, <2>4 DEF ReadCompactSize
  <2>6. QED BY <2>3, <2>5 DEF x
<1>3. CASE n >= 253 /\ n < 65536
  <2>1. PICK rest : LeavesRest(rest, n, w2)
    BY <1>1, LittleEndianSteps
  <2>2. rest[2] = 0
    <3>1. rest[1] = n \div 256 /\ rest[2] = rest[1] \div 256
      BY <2>1 DEF LeavesRest
    <3>2. FitsU16(n)
      BY <1>3 DEF FitsU16
    <3>3. QED BY <1>1, <3>1, <3>2, TwoDigits
  <2>3. x = <<253>> \o LittleEndian(n, w2)
    BY <1>1, <1>3 DEF PushCompactSize
  <2>4. w2 = 2 /\ w2 \in Nat \ {0} /\ least2 = 253 /\ least2 \in Nat /\ n >= least2 /\ rest[w2] = 0
        /\ 253 \in Byte
    BY <1>3, <2>2 DEF Byte
  <2> HIDE DEF x, w2, least2
  <2>5. x \in Seq(Byte) /\ Len(x) = w2 + 1 /\ x[1] = 253 /\ x # <<>>
        /\ ReadWide(x, w2, least2) = Read(n, w2 + 1)
    BY <2>1, <2>3, <2>4, WideWritten
  <2>6. ReadCompactSize(x) = ReadWide(x, 2, 253)
    BY <2>5 DEF ReadCompactSize
  <2>7. Len(x) <= 5 /\ ReadCompactSize(x) = Read(n, Len(x))
    BY <2>4, <2>5, <2>6
  <2>8. QED BY <2>5, <2>7 DEF x
<1>4. CASE n >= 65536
  <2>1. PICK rest : LeavesRest(rest, n, w4)
    BY <1>1, LittleEndianSteps
  <2>2. rest[4] = 0
    <3>1. rest[1] = n \div 256 /\ rest[2] = rest[1] \div 256
          /\ rest[3] = rest[2] \div 256 /\ rest[4] = rest[3] \div 256
      BY <2>1 DEF LeavesRest
    <3>2. QED BY <1>1, <3>1, FourDigits
  <2>3. x = <<254>> \o LittleEndian(n, w4)
    BY <1>1, <1>4 DEF PushCompactSize
  <2>4. w4 = 4 /\ w4 \in Nat \ {0} /\ least4 = 65536 /\ least4 \in Nat /\ n >= least4 /\ rest[w4] = 0
        /\ 254 \in Byte
    BY <1>4, <2>2 DEF Byte
  <2> HIDE DEF x, w4, least4
  <2>5. x \in Seq(Byte) /\ Len(x) = w4 + 1 /\ x[1] = 254 /\ x # <<>>
        /\ ReadWide(x, w4, least4) = Read(n, w4 + 1)
    BY <2>1, <2>3, <2>4, WideWritten
  <2>6. ReadCompactSize(x) = ReadWide(x, 4, 65536)
    BY <2>5 DEF ReadCompactSize
  <2>7. Len(x) <= 5 /\ ReadCompactSize(x) = Read(n, Len(x))
    BY <2>4, <2>5, <2>6
  <2>8. QED BY <2>5, <2>7 DEF x
<1>5. QED BY <1>1, <1>2, <1>3, <1>4

-----------------------------------------------------------------------------
(* Short vectors *)

\* Where a short vector ends: at its first byte without the high bit.
EndsAt(x, k) ==
    /\ k \in 1..Len(x) /\ ~HasHighBit(x[k])
    /\ \A i \in 1..k - 1 : HasHighBit(x[i])

\* The seven bits a byte of x gives, when it is one of the first k.
Chunk(x, k, i) == IF i <= k THEN x[i] % 128 ELSE 0
ShortvecValue(x, k) == Chunk(x, k, 1) + 128 * Chunk(x, k, 2) + 16384 * Chunk(x, k, 3)

LEMMA ShortvecEnd ==
    ASSUME NEW x \in Seq(Byte), NEW k, EndsAt(x, k)
    PROVE  ReadShortvec(x) = IF ShortvecRefused(x, k) THEN Failure
                             ELSE Read(ShortvecValue(x, k), k)
<1> DEFINE ends == {i \in DOMAIN x : ~HasHighBit(x[i])}
           last == IF ends = {} THEN Len(x) + 1
                   ELSE CHOOSE i \in ends : \A j \in ends : i <= j
<1>1. k \in ends /\ \A j \in ends : k <= j
  BY DEF EndsAt
<1>2. ends # {} /\ \A i \in ends : i \in Int
  BY <1>1
<1>3. last = k
  <2> HIDE DEF ends
  <2>1. last = CHOOSE i \in ends : \A j \in ends : i <= j
    BY <1>2
  <2>2. last \in ends /\ \A j \in ends : last <= j
    BY <1>1, <2>1
  <2>3. last \in Int /\ k \in Int /\ last <= k /\ k <= last
    BY <1>1, <1>2, <2>2
  <2> HIDE DEF last
  <2>4. \A a, b \in Int : a <= b /\ b <= a => a = b
    OBVIOUS
  <2>5. QED BY <2>3, <2>4
<1>4. ReadShortvec(x) = IF ShortvecRefused(x, last) THEN Failure
                        ELSE Read(ShortvecValue(x, last), last)
  BY DEF ReadShortvec, ShortvecValue, Chunk
<1> HIDE DEF last
<1>5. QED BY <1>3, <1>4

LEMMA ShortvecEnds ==
    ASSUME NEW x \in Seq(Byte), ReadShortvec(x).ok
    PROVE  \E k : EndsAt(x, k)
<1> DEFINE ends == {i \in DOMAIN x : ~HasHighBit(x[i])}
<1>1. ends # {}
  <2>1. SUFFICES ASSUME ends = {} PROVE FALSE
    OBVIOUS
  <2>2. ShortvecRefused(x, Len(x) + 1)
    BY DEF ShortvecRefused
  <2>3. ReadShortvec(x) = Failure
    BY <2>1, <2>2 DEF ReadShortvec
  <2>4. QED BY <2>3 DEF Failure
<1>2. ends \in SUBSET Nat
  OBVIOUS
<1>3. PICK m \in ends : \A j \in ends : m <= j
  <2> HIDE DEF ends
  <2>1. QED BY <1>1, <1>2, LeastElement
<1>4. EndsAt(x, m)
  BY <1>3 DEF EndsAt
<1>5. QED BY <1>4

\* The digits of a number in base 128.
IsTwo(n, a, b) == n = a + 128 * b
IsThree(n, a, b, c) == n = a + 128 * b + 16384 * c
HasTwo(n, a, b) ==
    n \in Nat /\ ~(n < 128) /\ n < 16384 /\ n % 128 = a /\ n \div 128 = b
HasThree(n, a, b, c) ==
    /\ n \in Nat /\ ~(n < 128) /\ ~(n < 16384) /\ n < 65536
    /\ n % 128 = a /\ (n \div 128) % 128 = b /\ n \div 16384 = c

LEMMA DigitsOfTwo ==
    ASSUME NEW a \in 0..127, NEW b \in 1..127, NEW n, IsTwo(n, a, b)
    PROVE  HasTwo(n, a, b)
BY DEF IsTwo, HasTwo

LEMMA DigitsOfThree ==
    ASSUME NEW a \in 0..127, NEW b \in 0..127, NEW c \in 1..3, NEW n, IsThree(n, a, b, c)
    PROVE  HasThree(n, a, b, c)
<1>1. n \in Nat /\ ~(n < 128) /\ ~(n < 16384) /\ n < 65536
  BY DEF IsThree
<1> DEFINE m == b + 128 * c
<1>2. m \in Nat /\ n = a + 128 * m /\ m % 128 = b
  BY DEF IsThree
<1>3. n \div 16384 = c
  BY DEF IsThree
<1> HIDE DEF m
<1>4. n % 128 = a /\ n \div 128 = m
  BY <1>2
<1>5. QED BY <1>1, <1>2, <1>3, <1>4 DEF HasThree

LEMMA LowBits ==
    ASSUME NEW b \in 0..255
    PROVE  /\ b < 128 => b % 128 = b
           /\ b >= 128 => b % 128 = b - 128 /\ b % 128 \in 0..127
OBVIOUS

\* read_shortvec accepts one encoding of a u16.
LEMMA ShortvecRead ==
    ASSUME NEW x \in Seq(Byte), ReadShortvec(x).ok
    PROVE  \E n, k : /\ k \in 1..Len(x) /\ ReadShortvec(x) = Read(n, k)
                     /\ n < 65536 /\ SubSeq(x, 1, k) = PushShortvec(n)
<1>1. PICK k : EndsAt(x, k)
  BY ShortvecEnds
<1>2. ReadShortvec(x) = IF ShortvecRefused(x, k) THEN Failure ELSE Read(ShortvecValue(x, k), k)
  BY <1>1, ShortvecEnd
<1>3. ~ShortvecRefused(x, k)
  BY <1>2 DEF Failure
<1>4. k \in 1..Len(x) /\ k \in 1..3
  BY <1>1, <1>3 DEF EndsAt, ShortvecRefused
<1>5. \A i \in 1..k : x[i] \in 0..255
  BY <1>4, ByteAt
<1> DEFINE n == ShortvecValue(x, k)
           s == SubSeq(x, 1, k)
<1>6. n < 65536 /\ s = PushShortvec(n)
  <2>1. 1 \in 1..Len(x) + 1 /\ k \in 1 - 1..Len(x) /\ k + 1 - 1 = k
    BY <1>4
  <2>2. s \in Seq(Byte) /\ Len(s) = k + 1 - 1 /\ \A i \in 1..k + 1 - 1 : s[i] = x[1 - 1 + i]
    <3>1. 1 \in 1..Len(x) + 1
      BY <2>1
    <3>2. k \in 1 - 1..Len(x)
      BY <2>1
    <3>3. QED BY <3>1, <3>2, PartProperties
  <2> HIDE DEF s
  <2>3. s \in Seq(Byte) /\ Len(s) = k /\ \A i \in 1..k : s[i] = x[i]
    BY <2>1, <2>2, <1>4
  <2>4. CASE k = 1
    <3> DEFINE a == x[1]
    <3>1. a \in 0..255 /\ a < 128 /\ s[1] = a
      <4>1. ~HasHighBit(x[1])
        BY <1>1, <2>4 DEF EndsAt
      <4>2. x[1] \in 0..255 /\ s[1] = x[1]
        BY <1>5, <2>3, <2>4
      <4> HIDE DEF a
      <4>3. a \in 0..255 /\ ~(a >= 128) /\ s[1] = a
        BY <4>1, <4>2 DEF HasHighBit, a
      <4>4. QED BY <4>3
    <3>2. n = (a % 128) + 128 * 0 + 16384 * 0
      BY <2>4 DEF ShortvecValue, Chunk
    <3> HIDE DEF a, n
    <3>3. n = a /\ n < 128 /\ n < 65536
      BY <3>1, <3>2, LowBits
    <3>4. PushShortvec(n) = <<a>>
      BY <3>3 DEF PushShortvec
    <3>5. s = <<a>>
      BY <2>3, <2>4, <3>1
    <3>6. QED BY <3>3, <3>4, <3>5
  <2>5. CASE k = 2
    <3> DEFINE a == x[1]
               b == x[2]
    <3>1. a \in 0..255 /\ a >= 128 /\ s[1] = a
      <4>1. HasHighBit(x[1])
        BY <1>1, <2>5 DEF EndsAt
      <4>2. QED BY <1>5, <2>3, <2>5, <4>1 DEF HasHighBit
    <3>2. b \in 0..255 /\ b < 128 /\ b # 0 /\ s[2] = b
      <4>1. ~HasHighBit(x[2]) /\ x[2] # 0
        BY <1>1, <1>3, <2>5 DEF EndsAt, ShortvecRefused
      <4>2. x[2] \in 0..255 /\ s[2] = x[2]
        BY <1>5, <2>3, <2>5
      <4> HIDE DEF b
      <4>3. b \in 0..255 /\ ~(b >= 128) /\ b # 0 /\ s[2] = b
        BY <4>1, <4>2 DEF HasHighBit, b
      <4>4. QED BY <4>3
    <3>3. n = (a % 128) + 128 * (b % 128) + 16384 * 0
      BY <2>5 DEF ShortvecValue, Chunk
    <3>4. Len(s) = 2
      BY <2>3, <2>5
    <3> HIDE DEF a, b, n
    <3> DEFINE a1 == a - 128
    <3>5. a1 \in 0..127 /\ b \in 1..127 /\ n = a1 + 128 * b
      BY <3>1, <3>2, <3>3, LowBits
    <3>6. n < 65536 /\ ~(n < 128) /\ n < 16384 /\ n % 128 = a1 /\ n \div 128 = b
      <4> HIDE DEF a1
      <4>1. IsTwo(n, a1, b)
        BY <3>5 DEF IsTwo
      <4>2. HasTwo(n, a1, b)
        BY <3>5, <4>1, DigitsOfTwo
      <4>3. n < 16384 => n < 65536
        BY <3>5
      <4>4. QED BY <4>2, <4>3 DEF HasTwo
    <3>7. PushShortvec(n) = <<a - 128 + 128, b>>
      BY <3>6 DEF PushShortvec
    <3>8. a - 128 + 128 = a
      BY <3>1
    <3>9. s = <<a, b>>
      BY <2>3, <3>1, <3>2, <3>4
    <3>10. QED BY <3>6, <3>7, <3>8, <3>9
  <2>6. CASE k = 3
    <3> DEFINE a == x[1]
               b == x[2]
               c == x[3]
    <3>1. a \in 0..255 /\ a >= 128 /\ s[1] = a
      <4>1. HasHighBit(x[1])
        BY <1>1, <2>6 DEF EndsAt
      <4>2. QED BY <1>5, <2>3, <2>6, <4>1 DEF HasHighBit
    <3>2. b \in 0..255 /\ b >= 128 /\ s[2] = b
      <4>1. HasHighBit(x[2])
        BY <1>1, <2>6 DEF EndsAt
      <4>2. QED BY <1>5, <2>3, <2>6, <4>1 DEF HasHighBit
    <3>3. c \in 0..255 /\ c \in 1..3 /\ s[3] = c
      <4>1. ~(x[3] > 3) /\ x[3] # 0
        BY <1>3, <2>6 DEF ShortvecRefused
      <4>2. x[3] \in 0..255 /\ s[3] = x[3]
        BY <1>5, <2>3, <2>6
      <4> HIDE DEF c
      <4>3. c \in 0..255 /\ ~(c > 3) /\ c # 0 /\ s[3] = c
        BY <4>1, <4>2 DEF c
      <4>4. QED BY <4>3
    <3>4. n = (a % 128) + 128 * (b % 128) + 16384 * (c % 128)
      BY <2>6 DEF ShortvecValue, Chunk
    <3>5. Len(s) = 3
      BY <2>3, <2>6
    <3> HIDE DEF a, b, c, n
    <3> DEFINE a1 == a - 128
               b1 == b - 128
    <3>6. a1 \in 0..127 /\ b1 \in 0..127 /\ n = a1 + 128 * b1 + 16384 * c
      <4>1. a % 128 = a1 /\ a1 \in 0..127
        BY <3>1, LowBits
      <4>2. b % 128 = b1 /\ b1 \in 0..127
        BY <3>2, LowBits
      <4>3. c % 128 = c
        BY <3>3
      <4>4. n = a1 + 128 * b1 + 16384 * c
        <5> DEFINE low(i) == i % 128
        <5>1. n = low(a) + 128 * low(b) + 16384 * low(c)
          BY <3>4
        <5>2. low(a) = a1 /\ low(b) = b1 /\ low(c) = c
          BY <4>1, <4>2, <4>3
        <5> HIDE DEF low, a1, b1
        <5>3. QED BY <5>1, <5>2
      <4>5. QED BY <4>1, <4>2, <4>4
    <3>7. n < 65536 /\ ~(n < 128) /\ ~(n < 16384) /\ n % 128 = a1
          /\ (n \div 128) % 128 = b1 /\ n \div 16384 = c
      <4> HIDE DEF a1, b1
      <4>1. IsThree(n, a1, b1, c)
        BY <3>6 DEF IsThree
      <4>2. a1 \in 0..127 /\ b1 \in 0..127 /\ c \in 1..3
        BY <3>3, <3>6
      <4>3. HasThree(n, a1, b1, c)
        BY <4>1, <4>2, DigitsOfThree, Zenon
      <4>4. QED BY <4>3 DEF HasThree
    <3>8. PushShortvec(n) = <<a - 128 + 128, b - 128 + 128, c>>
      BY <3>7 DEF PushShortvec
    <3>9. a - 128 + 128 = a /\ b - 128 + 128 = b
      BY <3>1, <3>2
    <3>10. s = <<a, b, c>>
      BY <2>3, <3>1, <3>2, <3>3, <3>5
    <3>11. QED BY <3>7, <3>8, <3>9, <3>10
  <2>7. QED BY <1>4, <2>4, <2>5, <2>6
<1>7. QED BY <1>2, <1>3, <1>4, <1>6

\* read_shortvec reads what push_shortvec writes.
LEMMA ShortvecWritten ==
    ASSUME NEW n \in Nat, n < 65536
    PROVE  /\ PushShortvec(n) \in Seq(Byte) /\ Len(PushShortvec(n)) <= 3
           /\ ReadShortvec(PushShortvec(n)) = Read(n, Len(PushShortvec(n)))
<1> DEFINE x == PushShortvec(n)
<1>1. CASE n < 128
  <2>1. x = <<n>>
    BY <1>1 DEF PushShortvec
  <2>2. n \in Byte /\ n \in 0..255
    BY <1>1 DEF Byte
  <2> HIDE DEF x
  <2>3. x \in Seq(Byte) /\ Len(x) = 1 /\ x[1] = n
    BY <2>1, <2>2
  <2>4. EndsAt(x, 1)
    BY <1>1, <2>2, <2>3 DEF EndsAt, HasHighBit
  <2>5. ~ShortvecRefused(x, 1)
    BY <2>3 DEF ShortvecRefused
  <2>6. ShortvecValue(x, 1) = (n % 128) + 128 * 0 + 16384 * 0
    BY <2>3 DEF ShortvecValue, Chunk
  <2>7. ShortvecValue(x, 1) = n
    BY <1>1, <2>2, <2>6, LowBits
  <2>8. QED BY <2>3, <2>4, <2>5, <2>7, ShortvecEnd DEF x
<1>2. CASE n >= 128 /\ n < 16384
  <2> DEFINE a == n % 128
             b == n \div 128
  <2>1. a \in 0..127 /\ b \in 1..127 /\ n = a + 128 * b
    BY <1>2
  <2>2. x = <<a + 128, b>>
    BY <1>2 DEF PushShortvec
  <2> HIDE DEF x, a, b
  <2>3. a + 128 \in Byte /\ b \in Byte /\ a + 128 \in 0..255 /\ b \in 0..255
    BY <2>1 DEF Byte
  <2>4. x \in Seq(Byte) /\ Len(x) = 2 /\ x[1] = a + 128 /\ x[2] = b
    BY <2>2, <2>3
  <2>5. EndsAt(x, 2)
    BY <2>1, <2>4 DEF EndsAt, HasHighBit
  <2>6. ~ShortvecRefused(x, 2)
    BY <2>1, <2>4 DEF ShortvecRefused
  <2>7. ShortvecValue(x, 2) = ((a + 128) % 128) + 128 * (b % 128) + 16384 * 0
    BY <2>4 DEF ShortvecValue, Chunk
  <2>8. (a + 128) % 128 = a /\ b % 128 = b
    BY <2>1
  <2>9. ShortvecValue(x, 2) = n
    BY <2>1, <2>7, <2>8
  <2>10. QED BY <2>4, <2>5, <2>6, <2>9, ShortvecEnd DEF x
<1>3. CASE n >= 16384
  <2> DEFINE m == n \div 128
             a == n % 128
             b == m % 128
             c == m \div 128
  <2>1. n \div 16384 = c
    OBVIOUS
  <2>2. x = <<a + 128, b + 128, n \div 16384>>
    BY <1>3 DEF PushShortvec
  <2>3. m \in Nat /\ a \in 0..127 /\ n = a + 128 * m /\ m >= 128 /\ m < 512
    BY <1>3
  <2> HIDE DEF x, a, m
  <2>4. b \in 0..127 /\ c \in 1..3 /\ m = b + 128 * c
    BY <2>3
  <2> HIDE DEF b, c
  <2>5. a + 128 \in Byte /\ b + 128 \in Byte /\ c \in Byte
    BY <2>3, <2>4 DEF Byte
  <2>6. x \in Seq(Byte) /\ Len(x) = 3 /\ x[1] = a + 128 /\ x[2] = b + 128 /\ x[3] = c
    BY <2>1, <2>2, <2>5
  <2>7. EndsAt(x, 3)
    BY <2>3, <2>4, <2>6 DEF EndsAt, HasHighBit
  <2>8. ~ShortvecRefused(x, 3)
    BY <2>4, <2>6 DEF ShortvecRefused
  <2>9. ShortvecValue(x, 3) = ((a + 128) % 128) + 128 * ((b + 128) % 128) + 16384 * (c % 128)
    BY <2>6 DEF ShortvecValue, Chunk
  <2>10. (a + 128) % 128 = a /\ (b + 128) % 128 = b /\ c % 128 = c
    BY <2>3, <2>4
  <2>11. ShortvecValue(x, 3) = n
    BY <2>3, <2>4, <2>9, <2>10
  <2>12. QED BY <2>6, <2>7, <2>8, <2>11, ShortvecEnd DEF x
<1>4. QED BY <1>1, <1>2, <1>3

-----------------------------------------------------------------------------
(* DER integers *)

LEMMA OneMoreZero ==
    ASSUME NEW k \in Nat
    PROVE  Zeros(k) \o <<0>> = Zeros(k + 1)
<1> DEFINE z == Zeros(k)
           o == <<0>>
           t == Zeros(k + 1)
<1>1. z \in Seq(Byte) /\ Len(z) = k /\ \A i \in 1..k : z[i] = 0
  BY ZerosAreBytes
<1>2. k + 1 \in Nat
  OBVIOUS
<1>3. t \in Seq(Byte) /\ Len(t) = k + 1 /\ \A i \in 1..k + 1 : t[i] = 0
  BY <1>2, ZerosAreBytes
<1>4. o \in Seq(Byte) /\ Len(o) = 1 /\ o[1] = 0
  BY DEF Byte
<1> HIDE DEF z, o, t
<1>5. /\ z \o o \in Seq(Byte) /\ Len(z \o o) = k + 1
      /\ \A i \in 1..k + 1 : (z \o o)[i] = 0
  BY <1>1, <1>4, ConcatProperties
<1> DEFINE q == z \o o
<1> HIDE DEF q
<1>6. q \in Seq(Byte) /\ Len(q) = Len(t) /\ \A i \in 1..Len(q) : q[i] = t[i]
  BY <1>3, <1>5 DEF q
<1>7. q = t
  BY <1>3, <1>6, SeqEqual
<1>8. QED BY <1>7 DEF q, z, o, t

LEMMA ZeroInFront ==
    ASSUME NEW s \in Seq(Byte)
    PROVE  /\ <<0>> \o s \in Seq(Byte) /\ Len(<<0>> \o s) = Len(s) + 1
           /\ (<<0>> \o s)[1] = 0 /\ Tail(<<0>> \o s) = s
           /\ s # <<>> => (<<0>> \o s)[2] = s[1]
           /\ \A k \in Nat : Zeros(k) \o (<<0>> \o s) = Zeros(k + 1) \o s
<1> DEFINE o == <<0>>
           q == o \o s
<1>1. o \in Seq(Byte) /\ Len(o) = 1 /\ o[1] = 0
  BY DEF Byte
<1>2. \A k \in Nat : Zeros(k) \o o = Zeros(k + 1)
  BY OneMoreZero
<1> HIDE DEF o
<1>3. /\ q \in Seq(Byte) /\ Len(q) = Len(o) + Len(s)
      /\ \A i \in 1..Len(o) + Len(s) : q[i] = IF i <= Len(o) THEN o[i] ELSE s[i - Len(o)]
  BY <1>1, ConcatProperties
<1>4. From(q, Len(o) + 1) = s
  BY <1>1, CutWhereJoined
<1>5. \A k \in Nat : Zeros(k) \o q = Zeros(k + 1) \o s
  <2>1. SUFFICES ASSUME NEW k \in Nat PROVE Zeros(k) \o q = Zeros(k + 1) \o s
    OBVIOUS
  <2>2. Zeros(k) \in Seq(Byte)
    BY ZerosAreBytes
  <2>3. (Zeros(k) \o o) \o s = Zeros(k) \o q
    BY <1>1, <2>2, ConcatAssociative
  <2>4. QED BY <1>2, <2>3
<1> HIDE DEF q
<1>6. q \in Seq(Byte) /\ Len(q) = Len(s) + 1 /\ q[1] = 0 /\ q # <<>>
  BY <1>1, <1>3
<1>7. s # <<>> => q[2] = s[1]
  <2>1. SUFFICES ASSUME s # <<>> PROVE q[2] = s[1]
    OBVIOUS
  <2>2. Len(s) >= 1
    BY <2>1, EmptySeq
  <2>3. QED BY <1>1, <1>3, <2>2
<1>8. Tail(q) = s
  <2>1. Tail(q) = SubSeq(q, 2, Len(q))
    BY <1>6, TailIsSubSeq
  <2>2. Len(o) + 1 = 2
    BY <1>1
  <2>3. QED BY <1>4, <2>1, <2>2 DEF From
<1>9. QED BY <1>5, <1>6, <1>7, <1>8 DEF q, o

LEMMA FirstZero ==
    ASSUME NEW v \in Seq(Byte), v # <<>>, v[1] = 0
    PROVE  Tail(v) \in Seq(Byte) /\ Len(Tail(v)) = Len(v) - 1 /\ v = <<0>> \o Tail(v)
           /\ (Len(v) > 1 => Tail(v)[1] = v[2])
<1> DEFINE t == Tail(v)
           w == <<0>> \o t
<1>1. t \in Seq(Byte) /\ Len(t) = Len(v) - 1 /\ \A i \in 1..Len(t) : t[i] = v[i + 1]
  BY HeadTailProperties
<1>2. Len(v) \in Nat /\ Len(v) >= 1
  BY EmptySeq
<1>3. v = w
  <2>1. 1 \in 1..Len(v) /\ Len(v) \in 1..Len(v)
    BY <1>2
  <2>2. SubSeq(v, 1, Len(v)) = <<v[1]>> \o SubSeq(v, 1 + 1, Len(v))
    BY <2>1, SubSeqRecursiveFirst
  <2>3. SubSeq(v, 1, Len(v)) = v
    BY SubSeqFull
  <2>4. t = SubSeq(v, 2, Len(v))
    BY TailIsSubSeq
  <2>5. QED BY <2>2, <2>3, <2>4
<1>4. Len(v) > 1 => t[1] = v[2]
  <2> HIDE DEF t
  <2>1. QED BY <1>1, <1>2
<1>5. QED BY <1>1, <1>3, <1>4

LEMMA ZeroSignificant ==
    ASSUME NEW s \in Seq(Byte)
    PROVE  /\ IsZero(s) <=> Significant(s) = <<>>
           /\ IsZero(s) => s = Zeros(Len(s))
<1>1. IsZero(s) => Significant(s) = <<>>
  BY DEF IsZero, Significant
<1>2. ASSUME Significant(s) = <<>> PROVE IsZero(s) /\ s = Zeros(Len(s))
  <2>1. PICK k \in 0..Len(s) : Len(Significant(s)) = Len(s) - k
                               /\ s = Zeros(k) \o Significant(s)
    BY SignificantProperties
  <2>2. k = Len(s) /\ k \in Nat
    BY <1>2, <2>1
  <2>3. Zeros(k) \in Seq(Byte) /\ Len(Zeros(k)) = k /\ \A i \in 1..k : Zeros(k)[i] = 0
    BY <2>2, ZerosAreBytes
  <2>4. Zeros(k) \o <<>> = Zeros(k)
    BY <2>3, ConcatEmptySeq
  <2>5. s = Zeros(k)
    BY <1>2, <2>1, <2>4
  <2>6. \A i \in 1..Len(s) : s[i] = 0
    BY <2>2, <2>3, <2>5
  <2>7. DOMAIN s = 1..Len(s)
    BY LenProperties
  <2>8. QED BY <2>2, <2>5, <2>6, <2>7 DEF IsZero
<1>3. QED BY <1>1, <1>2

\* A number without leading zeros is what is left of its padded form.
LEMMA PaddedNumber ==
    ASSUME NEW w \in Seq(Byte), w # <<>>, w[1] # 0, Len(w) <= IntBytes
    PROVE  /\ LeftPad(w) \in Seq(Byte) /\ Len(LeftPad(w)) = IntBytes
           /\ Significant(LeftPad(w)) = w /\ ~IsZero(LeftPad(w))
<1> DEFINE k == IntBytes - Len(w)
<1>1. k \in Nat /\ k + Len(w) = IntBytes
  BY BytesAssumption
<1>2. LeftPad(w) = Zeros(k) \o w
  BY DEF LeftPad, Zeros
<1> HIDE DEF k
<1>3. Zeros(k) \o w \in Seq(Byte) /\ Len(Zeros(k) \o w) = k + Len(w)
  BY <1>1, PaddedProperties
<1>4. Significant(Zeros(k) \o w) = w
  BY <1>1, SignificantOfPadded
<1>5. QED BY <1>1, <1>2, <1>3, <1>4, ZeroSignificant

\* A number read from DER is written back as it was read.
LEMMA IntegerRead ==
    ASSUME NEW v \in Seq(Byte), DerIntegerFits(v)
    PROVE  /\ DecodeDerInteger(v) \in Seq(Byte) /\ Len(DecodeDerInteger(v)) = IntBytes
           /\ DerInteger(DecodeDerInteger(v)) = v
<1> DEFINE d == DecodeDerInteger(v)
           t == Tail(v)
<1>1. IntBytes \in Nat /\ IntBytes >= 1
  BY BytesAssumption
<1>2. Len(v) \in 1..IntBytes + 1 /\ v # <<>> /\ Len(v) \in Nat
  BY <1>1 DEF DerIntegerFits
<1>3. 1 \in 1..Len(v) /\ v[1] \in 0..255
  <2>1. 1 \in 1..Len(v)
    BY <1>2
  <2>2. QED BY <2>1, ByteAt
<1>4. Len(v) > 1 => v[2] \in 0..255
  <2>1. SUFFICES ASSUME Len(v) > 1 PROVE v[2] \in 0..255
    OBVIOUS
  <2>2. 2 \in 1..Len(v)
    BY <1>2, <2>1
  <2>3. QED BY <2>2, ByteAt
<1>5. CASE Len(v) = IntBytes + 1
  <2>1. v[1] = 0 /\ HasHighBit(v[2])
    BY <1>5 DEF DerIntegerFits
  <2>2. t \in Seq(Byte) /\ Len(t) = IntBytes /\ v = <<0>> \o t /\ t[1] = v[2]
    BY <1>1, <1>2, <1>5, <2>1, FirstZero
  <2>3. d = LeftPad(t)
    BY <1>5 DEF DecodeDerInteger
  <2> HIDE DEF t
  <2>4. t # <<>> /\ t[1] # 0 /\ Len(t) <= IntBytes /\ HasHighBit(t[1])
    BY <1>1, <2>1, <2>2 DEF HasHighBit
  <2>5. /\ d \in Seq(Byte) /\ Len(d) = IntBytes
        /\ Significant(d) = t /\ ~IsZero(d)
    BY <2>2, <2>3, <2>4, PaddedNumber
  <2> HIDE DEF d
  <2>6. DerInteger(d) = <<0>> \o t
    BY <2>4, <2>5 DEF DerInteger
  <2>7. QED BY <2>2, <2>5, <2>6 DEF d
<1>6. CASE Len(v) # IntBytes + 1
  <2>1. Len(v) <= IntBytes
    BY <1>1, <1>2, <1>6
  <2>2. ~(v[1] = 0 /\ Len(v) > 1 /\ ~HasHighBit(v[2])) /\ ~HasHighBit(v[1])
    BY <1>6 DEF DerIntegerFits
  <2>3. d = LeftPad(v)
    BY <1>6 DEF DecodeDerInteger
  <2> HIDE DEF d
  <2>4. CASE v[1] # 0
    <3>1. /\ d \in Seq(Byte) /\ Len(d) = IntBytes
          /\ Significant(d) = v /\ ~IsZero(d)
      BY <1>2, <2>1, <2>3, <2>4, PaddedNumber
    <3>2. DerInteger(d) = v
      BY <2>2, <3>1 DEF DerInteger
    <3>3. QED BY <3>1, <3>2 DEF d
  <2>5. CASE v[1] = 0 /\ Len(v) > 1
    <3>1. t \in Seq(Byte) /\ Len(t) = Len(v) - 1 /\ v = <<0>> \o t /\ t[1] = v[2]
      BY <1>2, <2>5, FirstZero
    <3>2. HasHighBit(v[2]) /\ v[2] # 0
      BY <1>4, <2>2, <2>5 DEF HasHighBit
    <3> DEFINE k == IntBytes - Len(v)
    <3>3. k \in Nat /\ k + 1 = IntBytes - Len(t) /\ k + 1 \in Nat /\ Len(t) <= IntBytes
      BY <1>1, <1>2, <2>1, <3>1
    <3>4. d = Zeros(k) \o v
      BY <2>3 DEF LeftPad, Zeros
    <3>5. LeftPad(t) = Zeros(IntBytes - Len(t)) \o t
      BY DEF LeftPad, Zeros
    <3> HIDE DEF t, k
    <3>6. Zeros(k) \o (<<0>> \o t) = Zeros(k + 1) \o t
      BY <3>1, <3>3, ZeroInFront
    <3>7. d = LeftPad(t)
      BY <3>1, <3>3, <3>4, <3>5, <3>6
    <3>8. t # <<>> /\ t[1] # 0 /\ HasHighBit(t[1])
      BY <1>2, <2>5, <3>1, <3>2
    <3>9. /\ d \in Seq(Byte) /\ Len(d) = IntBytes
          /\ Significant(d) = t /\ ~IsZero(d)
      BY <3>1, <3>3, <3>7, <3>8, PaddedNumber
    <3>10. DerInteger(d) = <<0>> \o t
      BY <3>8, <3>9 DEF DerInteger
    <3>11. QED BY <3>1, <3>9, <3>10 DEF d
  <2>6. CASE v[1] = 0 /\ Len(v) = 1
    <3>1. t \in Seq(Byte) /\ Len(t) = 0 /\ v = <<0>> \o t
      BY <1>2, <2>6, FirstZero
    <3>2. t = <<>>
      BY <3>1, EmptySeq
    <3> DEFINE k == IntBytes - 1
    <3>3. k \in Nat /\ k + 1 = IntBytes
      BY <1>1
    <3>4. d = Zeros(k) \o v
      BY <2>3, <2>6 DEF LeftPad, Zeros
    <3> HIDE DEF t, k
    <3>5. v = <<0>>
      BY <3>1, <3>2
    <3>6. d = Zeros(k + 1)
      BY <3>3, <3>4, <3>5, OneMoreZero
    <3>7. Zeros(k + 1) \in Seq(Byte) /\ Len(Zeros(k + 1)) = k + 1
          /\ \A i \in 1..k + 1 : Zeros(k + 1)[i] = 0
      <4>1. k + 1 \in Nat
        BY <3>3
      <4>2. QED BY <4>1, ZerosAreBytes
    <3>8. d \in Seq(Byte) /\ Len(d) = IntBytes
      BY <3>3, <3>6, <3>7
    <3>9. IsZero(d)
      <4>1. DOMAIN d = 1..Len(d)
        BY <3>8, LenProperties
      <4>2. \A i \in 1..Len(d) : d[i] = 0
        BY <3>3, <3>6, <3>7, <3>8
      <4>3. QED BY <4>1, <4>2 DEF IsZero
    <3>10. DerInteger(d) = <<0>>
      BY <3>9 DEF DerInteger, HasHighBit
    <3>11. QED BY <3>5, <3>8, <3>10 DEF d
  <2>7. Len(v) > 1 \/ Len(v) = 1
    <3> DEFINE l == Len(v)
    <3>1. l \in Nat /\ l # 0
      BY <1>2, EmptySeq
    <3> HIDE DEF l
    <3>2. l > 1 \/ l = 1
      BY <3>1
    <3>3. QED BY <3>2 DEF l
  <2>8. QED BY <2>4, <2>5, <2>6, <2>7
<1>7. QED BY <1>5, <1>6

\* A number written as DER is read back, leading zeros included.
LEMMA IntegerWritten ==
    ASSUME NEW d \in Seq(Byte), Len(d) = IntBytes
    PROVE  /\ DerInteger(d) \in Seq(Byte) /\ DerIntegerFits(DerInteger(d))
           /\ DecodeDerInteger(DerInteger(d)) = d
<1> DEFINE v == DerInteger(d)
           g == Significant(d)
<1>1. IntBytes \in Nat /\ IntBytes >= 1
  BY BytesAssumption
<1>2. CASE IsZero(d)
  <2>1. v = <<0>>
    BY <1>2 DEF DerInteger, HasHighBit
  <2> HIDE DEF v
  <2>2. v \in Seq(Byte) /\ Len(v) = 1 /\ v[1] = 0
    BY <2>1 DEF Byte
  <2>3. DerIntegerFits(v)
    <3>1. /\ Len(v) \in 1..IntBytes + 1 /\ Len(v) # IntBytes + 1
          /\ ~(Len(v) > 1) /\ ~HasHighBit(v[1])
      BY <1>1, <2>2 DEF HasHighBit
    <3>2. QED BY <3>1 DEF DerIntegerFits
  <2>4. DecodeDerInteger(v) = Zeros(IntBytes - 1) \o v
    <3>1. Len(v) # IntBytes + 1
      BY <1>1, <2>2
    <3>2. DecodeDerInteger(v) = LeftPad(v)
      BY <3>1 DEF DecodeDerInteger
    <3>3. QED BY <2>2, <3>2 DEF LeftPad, Zeros
  <2> DEFINE k == IntBytes - 1
  <2>5. k \in Nat /\ k + 1 = IntBytes
    BY <1>1
  <2>6. DecodeDerInteger(v) = Zeros(k) \o <<0>>
    BY <2>1, <2>4
  <2> HIDE DEF k
  <2>7. DecodeDerInteger(v) = Zeros(IntBytes)
    BY <2>5, <2>6, OneMoreZero
  <2>8. d = Zeros(IntBytes)
    BY <1>2, ZeroSignificant
  <2>9. QED BY <2>2, <2>3, <2>7, <2>8 DEF v
<1>3. CASE ~IsZero(d)
  <2>1. g \in Seq(Byte) /\ g # <<>> /\ g[1] # 0
    BY <1>3, SignificantProperties, ZeroSignificant
  <2>2. PICK k \in 0..Len(d) : Len(g) = Len(d) - k /\ d = Zeros(k) \o g
    BY SignificantProperties
  <2>3. v = IF HasHighBit(g[1]) THEN <<0>> \o g ELSE g
    BY <1>3 DEF DerInteger
  <2> HIDE DEF g, v
  <2>4. k \in Nat /\ Len(g) \in 1..IntBytes /\ k = IntBytes - Len(g)
    <3>1. Len(g) \in Nat /\ Len(g) # 0
      BY <2>1, EmptySeq
    <3>2. QED BY <1>1, <2>2, <3>1
  <2>5. 1 \in 1..Len(g) /\ g[1] \in 0..255
    <3>1. 1 \in 1..Len(g)
      BY <2>4
    <3>2. QED BY <2>1, <3>1, ByteAt
  <2>6. LeftPad(g) = d
    BY <2>2, <2>4 DEF LeftPad, Zeros
  <2>7. CASE ~HasHighBit(g[1])
    <3>1. v = g
      BY <2>3, <2>7
    <3>2. Len(g) # IntBytes + 1 /\ Len(g) \in 1..IntBytes + 1
      BY <1>1, <2>4
    <3>3. DerIntegerFits(g)
      BY <2>1, <2>7, <3>2 DEF DerIntegerFits
    <3>4. DecodeDerInteger(g) = d
      BY <2>6, <3>2 DEF DecodeDerInteger
    <3>5. QED BY <2>1, <3>1, <3>3, <3>4 DEF v
  <2>8. CASE HasHighBit(g[1])
    <3> DEFINE q == <<0>> \o g
    <3>1. v = q
      BY <2>3, <2>8
    <3>2. /\ q \in Seq(Byte) /\ Len(q) = Len(g) + 1
          /\ q[1] = 0 /\ Tail(q) = g /\ q[2] = g[1]
      BY <2>1, ZeroInFront
    <3>3. \A m \in Nat : Zeros(m) \o q = Zeros(m + 1) \o g
      BY <2>1, ZeroInFront
    <3> HIDE DEF q
    <3>4. Len(q) \in 1..IntBytes + 1 /\ HasHighBit(q[2]) /\ ~HasHighBit(q[1])
      BY <1>1, <2>4, <2>8, <3>2 DEF HasHighBit
    <3>5. DerIntegerFits(q)
      BY <3>2, <3>4 DEF DerIntegerFits
    <3>6. DecodeDerInteger(q) = d
      <4>1. CASE Len(q) = IntBytes + 1
        BY <2>6, <3>2, <4>1 DEF DecodeDerInteger
      <4>2. CASE Len(q) # IntBytes + 1
        <5>1. DecodeDerInteger(q) = Zeros(IntBytes - Len(q)) \o q
          BY <4>2 DEF DecodeDerInteger, LeftPad, Zeros
        <5> DEFINE m == IntBytes - Len(q)
        <5>2. m \in Nat /\ m + 1 = k
          BY <1>1, <2>4, <3>2, <4>2
        <5>3. DecodeDerInteger(q) = Zeros(m) \o q
          BY <5>1
        <5> HIDE DEF m
        <5>4. QED BY <2>2, <3>3, <5>2, <5>3
      <4>3. QED BY <4>1, <4>2
    <3>7. QED BY <3>1, <3>2, <3>5, <3>6 DEF v
  <2>9. QED BY <2>7, <2>8
<1>4. QED BY <1>2, <1>3

-----------------------------------------------------------------------------
(* DER signatures *)

\* Tag, length and value of an integer.
DerPart(v) == <<2, Len(v)>> \o v

LEMMA PartOfInteger ==
    ASSUME NEW v \in Seq(Byte), DerIntegerFits(v)
    PROVE  /\ Len(v) \in 1..33
           /\ DerPart(v) \in Seq(Byte) /\ Len(DerPart(v)) = 2 + Len(v)
           /\ DerPart(v)[1] = 2 /\ DerPart(v)[2] = Len(v)
           /\ \A i \in 1..Len(v) : DerPart(v)[2 + i] = v[i]
<1> DEFINE l == Len(v)
           h == <<2, l>>
<1>1. l \in 1..33
  <2>1. l \in 1..IntBytes + 1
    BY DEF DerIntegerFits
  <2> HIDE DEF l
  <2>2. QED BY <2>1, BytesAssumption
<1>2. DerPart(v) = h \o v
  BY DEF DerPart
<1> HIDE DEF l
<1>3. h \in Seq(Byte) /\ Len(h) = 2 /\ h[1] = 2 /\ h[2] = l
  BY <1>1 DEF Byte
<1> HIDE DEF h
<1>4. /\ h \o v \in Seq(Byte) /\ Len(h \o v) = Len(h) + Len(v)
      /\ \A i \in 1..Len(h) + Len(v) : (h \o v)[i] = IF i <= Len(h) THEN h[i] ELSE v[i - Len(h)]
  BY <1>3, ConcatProperties
<1> DEFINE q == h \o v
<1>5. q \in Seq(Byte) /\ Len(q) = 2 + l
  BY <1>3, <1>4 DEF l
<1>6. \A i \in 1..2 + l : q[i] = IF i <= 2 THEN h[i] ELSE v[i - 2]
  BY <1>3, <1>4 DEF l
<1> HIDE DEF q
<1>7. q[1] = 2 /\ q[2] = l /\ \A i \in 1..l : q[2 + i] = v[i]
  BY <1>1, <1>3, <1>6
<1>8. QED BY <1>1, <1>2, <1>5, <1>7 DEF l, q

LEMMA DerFieldRead ==
    ASSUME NEW x \in Seq(Byte), NEW i \in Nat \ {0}, DerField(x, i).ok
    PROVE  \E v \in Seq(Byte) :
              /\ DerIntegerFits(v) /\ i + 1 + Len(v) <= Len(x)
              /\ DerField(x, i) = Read(DecodeDerInteger(v), 2 + Len(v))
              /\ SubSeq(x, i, i + 1 + Len(v)) = DerPart(v)
<1> DEFINE l == x[i + 1]
           j == i + 1 + l
           i1 == i + 1
           i2 == i + 2
           v == SubSeq(x, i2, j)
           h == SubSeq(x, i, i1)
<1>1. ~(Len(x) < i1) /\ x[i] = 2 /\ ~(Len(x) < j) /\ DerField(x, i) = IntegerIn(v)
  BY DEF DerField, Failure
<1>2. i \in 1..Len(x) /\ i1 \in 1..Len(x)
  BY <1>1
<1>3. l \in 0..255
  BY <1>2, ByteAt
<1>4. i1 \in i..Len(x) /\ j \in Nat /\ j \in i1..Len(x) /\ j + 1 - i2 = l /\ i1 + 1 = i2
      /\ i2 \in 1..Len(x) + 1 /\ j \in i2 - 1..Len(x) /\ i \in 1..Len(x) + 1
      /\ i1 \in i - 1..Len(x) /\ i1 + 1 - i = 2 /\ i - 1 + 1 = i /\ i - 1 + 2 = i1
  <2> HIDE DEF l
  <2>1. QED BY <1>1, <1>2, <1>3
<1> HIDE DEF j, i1, i2
<1>5. v \in Seq(Byte) /\ Len(v) = l
  BY <1>4, PartProperties
<1>6. h \in Seq(Byte) /\ Len(h) = 2 /\ h[1] = x[i] /\ h[2] = x[i1]
  BY <1>4, PartProperties
<1>7. h \o SubSeq(x, i1 + 1, j) = SubSeq(x, i, j)
  <2>1. i \in 1..Len(x) + 1
    BY <1>4
  <2>2. i1 \in i - 1..Len(x)
    BY <1>4
  <2>3. j \in i1..Len(x)
    BY <1>4
  <2>4. QED BY <2>1, <2>2, <2>3, ConcatAdjacentSubSeq
<1>8. SubSeq(x, i, j) = h \o v
  BY <1>4, <1>7
<1> HIDE DEF v, h, l
<1>9. h = <<2, l>>
  BY <1>1, <1>6 DEF l, i1
<1>10. SubSeq(x, i, j) = DerPart(v)
  BY <1>5, <1>8, <1>9 DEF DerPart
<1>11. DerIntegerFits(v) /\ IntegerIn(v) = Read(DecodeDerInteger(v), 2 + Len(v))
  <2>1. IntegerIn(v).ok
    BY <1>1
  <2>2. DerIntegerFits(v)
    BY <2>1 DEF IntegerIn, Failure
  <2>3. QED BY <2>2 DEF IntegerIn
<1>12. j = i + 1 + Len(v) /\ j <= Len(x)
  BY <1>4, <1>5 DEF j
<1>13. QED BY <1>1, <1>5, <1>10, <1>11, <1>12

LEMMA DerFieldWritten ==
    ASSUME NEW a \in Seq(Byte), NEW v \in Seq(Byte), NEW b \in Seq(Byte), DerIntegerFits(v)
    PROVE  DerField((a \o DerPart(v)) \o b, Len(a) + 1) = Read(DecodeDerInteger(v), 2 + Len(v))
<1> DEFINE f == DerPart(v)
           x == (a \o f) \o b
           n == Len(a)
           l == Len(v)
           i == n + 1
           i1 == i + 1
           i2 == i + 2
           j == i + 1 + l
           w == SubSeq(x, i2, j)
<1>1. /\ l \in 1..33 /\ f \in Seq(Byte) /\ Len(f) = 2 + l /\ f[1] = 2 /\ f[2] = l
      /\ \A k \in 1..l : f[2 + k] = v[k]
  BY PartOfInteger
<1> HIDE DEF f
<1>2. /\ x \in Seq(Byte) /\ Len(x) = Len(a) + Len(f) + Len(b)
      /\ \A k \in 1..Len(f) : x[Len(a) + k] = f[k]
  <2>1. f \in Seq(Byte)
    BY <1>1
  <2>2. QED BY <2>1, MiddlePart
<1>3. n \in Nat /\ Len(b) \in Nat
  OBVIOUS
<1> DEFINE o == Len(b)
<1>4. Len(x) = n + (2 + l) + o /\ \A k \in 1..2 + l : x[n + k] = f[k]
  BY <1>1, <1>2
<1> HIDE DEF x, n, l, o
<1>5. x[i] = 2 /\ x[i1] = l
  BY <1>1, <1>3, <1>4
<1>6. \A k \in 1..l : x[i2 - 1 + k] = v[k]
  <2>1. SUFFICES ASSUME NEW k \in 1..l PROVE x[i2 - 1 + k] = v[k]
    OBVIOUS
  <2>2. 2 + k \in 1..2 + l /\ n + (2 + k) = i2 - 1 + k
    BY <1>1, <1>3
  <2>3. x[n + (2 + k)] = f[2 + k]
    BY <1>4, <2>2
  <2>4. QED BY <1>1, <2>2, <2>3
<1>7. /\ i2 \in 1..Len(x) + 1 /\ j \in i2 - 1..Len(x) /\ j + 1 - i2 = l
      /\ ~(Len(x) < i1) /\ ~(Len(x) < j)
  BY <1>1, <1>3, <1>4 DEF o
<1> HIDE DEF i2, j
<1>8. w \in Seq(Byte) /\ Len(w) = l /\ \A k \in 1..l : w[k] = x[i2 - 1 + k]
  BY <1>2, <1>7, PartProperties
<1> HIDE DEF w
<1>9. w = v
  <2>1. Len(w) = Len(v) /\ \A k \in 1..Len(w) : w[k] = v[k]
    BY <1>6, <1>8 DEF l
  <2>2. QED BY <1>8, <2>1, SeqEqual
<1>10. DerField(x, i) = IntegerIn(SubSeq(x, i + 2, i + 1 + x[i + 1]))
  <2>1. i + 1 + x[i + 1] = j
    BY <1>5 DEF j
  <2>2. ~(Len(x) < i + 1) /\ ~(Len(x) < i + 1 + x[i + 1]) /\ x[i] = 2
    BY <1>5, <1>7, <2>1
  <2>3. QED BY <2>2, Zenon DEF DerField
<1>11. SubSeq(x, i + 2, i + 1 + x[i + 1]) = w
  BY <1>5 DEF w, i2, j
<1>12. IntegerIn(v) = Read(DecodeDerInteger(v), 2 + Len(v))
  BY DEF IntegerIn
<1>13. DerField(x, i) = Read(DecodeDerInteger(v), 2 + Len(v))
  BY <1>9, <1>10, <1>11, <1>12
<1>14. QED BY <1>13 DEF x, f, n

\* The bytes of a signature after its tag and length.
DerBody(u, v) == DerPart(u) \o DerPart(v)

LEMMA EncodedSignature ==
    ASSUME NEW u \in Seq(Byte), NEW v \in Seq(Byte), DerIntegerFits(u), DerIntegerFits(v)
    PROVE  /\ DerBody(u, v) \in Seq(Byte)
           /\ Len(DerBody(u, v)) = (2 + Len(u)) + (2 + Len(v)) /\ Len(DerBody(u, v)) \in 6..70
           /\ \A r, s : DerInteger(r) = u /\ DerInteger(s) = v =>
                 EncodeDer(r, s) = <<48, Len(DerBody(u, v))>> \o DerBody(u, v)
<1> DEFINE a == DerPart(u)
           b == DerPart(v)
           h == <<2, Len(v)>>
           lu == Len(u)
           lv == Len(v)
<1>1. a \in Seq(Byte) /\ Len(a) = 2 + lu /\ lu \in 1..33
  BY PartOfInteger
<1>2. b \in Seq(Byte) /\ Len(b) = 2 + lv /\ lv \in 1..33
  BY PartOfInteger
<1>3. h \in Seq(Byte)
  BY <1>2 DEF Byte
<1>4. \A r, s : DerInteger(r) = u /\ DerInteger(s) = v =>
         EncodeDer(r, s) = <<48, Len(a \o h \o v)>> \o (a \o h \o v)
  BY DEF EncodeDer, DerPart
<1>5. b = h \o v
  BY DEF DerPart
<1> HIDE DEF a, b, h, lu, lv
<1>6. (a \o h) \o v = a \o b
  <2>1. a \in Seq(Byte)
    BY <1>1
  <2>2. (a \o h) \o v = a \o (h \o v)
    BY <1>3, <2>1, ConcatAssociative
  <2>3. QED BY <1>5, <2>2
<1>7. a \o b \in Seq(Byte) /\ Len(a \o b) = Len(a) + Len(b)
  BY <1>1, <1>2, ConcatProperties
<1>8. Len(a \o b) = (2 + lu) + (2 + lv) /\ Len(a \o b) \in 6..70
  BY <1>1, <1>2, <1>7
<1>9. QED BY <1>4, <1>6, <1>7, <1>8 DEF DerBody, a, b, lu, lv

\* decode_der_signature accepts one encoding, of a signature with a low s.
LEMMA DerRead ==
    ASSUME NEW x \in Seq(Byte), DecodeDer(x).ok
    PROVE  LET sig == DecodeDer(x).value
           IN /\ ValidSignature(sig.r, sig.s) /\ x = EncodeDer(sig.r, sig.s)
<1> DEFINE n == x[2]
           one == DerField(x, 3)
           i == 3 + one.used
           two == DerField(x, i)
<1>1. ~(Len(x) < 2) /\ x[1] = 48 /\ n + 2 = Len(x)
  BY DEF DecodeDer, Failure
<1>2. one.ok /\ DecodeDer(x) = SignatureOf(one, two, n)
  BY <1>1 DEF DecodeDer, Failure
<1>3. /\ two.ok /\ one.used + two.used = n /\ ValidSignature(one.value, two.value)
      /\ DecodeDer(x).value = [r |-> one.value, s |-> two.value]
  BY <1>2 DEF SignatureOf, Failure, Read
<1>4. PICK u \in Seq(Byte) :
              /\ DerIntegerFits(u) /\ 3 + 1 + Len(u) <= Len(x)
              /\ one = Read(DecodeDerInteger(u), 2 + Len(u))
              /\ SubSeq(x, 3, 3 + 1 + Len(u)) = DerPart(u)
  BY <1>2, DerFieldRead
<1> DEFINE lu == Len(u)
<1>5. one.value = DecodeDerInteger(u) /\ one.used = 2 + lu
  BY <1>4 DEF Read
<1>6. lu \in Nat /\ i \in Nat \ {0} /\ i = 5 + lu
  BY <1>5
<1> HIDE DEF one, two, n, i
<1>7. PICK v \in Seq(Byte) :
              /\ DerIntegerFits(v) /\ i + 1 + Len(v) <= Len(x)
              /\ two = Read(DecodeDerInteger(v), 2 + Len(v))
              /\ SubSeq(x, i, i + 1 + Len(v)) = DerPart(v)
  BY <1>3, <1>6, DerFieldRead DEF two
<1> DEFINE lv == Len(v)
           j == 4 + lu
           k == i + 1 + lv
<1>8. two.value = DecodeDerInteger(v) /\ two.used = 2 + lv
  BY <1>7 DEF Read
<1>9. lv \in Nat /\ Len(x) \in Nat
  OBVIOUS
<1>10. (2 + lu) + (2 + lv) = n /\ k = Len(x) /\ j + 1 = i /\ j \in 2..Len(x) /\ k \in j..Len(x)
  <2>1. (2 + lu) + (2 + lv) = n
    BY <1>3, <1>5, <1>8
  <2>2. Len(x) = (2 + lu) + (2 + lv) + 2
    BY <1>1, <2>1
  <2> DEFINE lx == Len(x)
  <2>3. lx = (2 + lu) + (2 + lv) + 2
    BY <2>2
  <2> HIDE DEF lu, lv, lx
  <2>4. k = lx /\ j + 1 = i /\ j \in 2..lx /\ k \in j..lx
    BY <1>6, <1>9, <2>3
  <2>5. QED BY <2>1, <2>4 DEF lx
<1>11. SubSeq(x, 3, j) = DerPart(u) /\ SubSeq(x, j + 1, k) = DerPart(v)
  <2>1. 3 + 1 + lu = j
    BY <1>6
  <2>2. QED BY <1>4, <1>7, <1>10, <2>1
<1> HIDE DEF lu, lv, j, k
<1>12. SubSeq(x, 1, 2) = <<48, n>>
  <2> DEFINE h == SubSeq(x, 1, 2)
             m == 2
  <2>1. 1 \in 1..Len(x) + 1 /\ m \in 1 - 1..Len(x) /\ m + 1 - 1 = 2
    BY <1>1, <1>9
  <2> HIDE DEF m
  <2>2. SubSeq(x, 1, m) \in Seq(Byte) /\ Len(SubSeq(x, 1, m)) = m + 1 - 1
        /\ \A q \in 1..m + 1 - 1 : SubSeq(x, 1, m)[q] = x[1 - 1 + q]
    BY <2>1, PartProperties
  <2>3. h \in Seq(Byte) /\ Len(h) = 2 /\ h[1] = x[1] /\ h[2] = x[2]
    BY <2>1, <2>2 DEF m
  <2> HIDE DEF h
  <2>4. h = <<48, n>>
    BY <1>1, <2>3 DEF n
  <2>5. QED BY <2>4 DEF h
<1>13. SubSeq(x, 3, j) \o SubSeq(x, j + 1, k) = SubSeq(x, 3, k)
  <2> DEFINE m == 3
  <2>1. m \in 1..Len(x) + 1
    BY <1>1, <1>9
  <2>2. j \in m - 1..Len(x)
    BY <1>10
  <2>3. k \in j..Len(x)
    BY <1>10
  <2> HIDE DEF m
  <2>4. SubSeq(x, m, j) \o SubSeq(x, j + 1, k) = SubSeq(x, m, k)
    BY <2>1, <2>2, <2>3, ConcatAdjacentSubSeq
  <2>5. QED BY <2>4 DEF m
<1>14. SubSeq(x, 1, 2) \o SubSeq(x, 3, k) = x
  <2> DEFINE m == 2
  <2>1. m \in 0..Len(x)
    BY <1>1, <1>9
  <2>2. m + 1 = 3
    OBVIOUS
  <2> HIDE DEF m
  <2>3. x = SubSeq(x, 1, m) \o From(x, m + 1)
    BY <2>1, CutInTwo
  <2>4. x = SubSeq(x, 1, m) \o SubSeq(x, 3, k)
    BY <1>10, <2>2, <2>3 DEF From
  <2>5. QED BY <2>4 DEF m
<1>15. x = <<48, n>> \o DerBody(u, v)
  BY <1>11, <1>12, <1>13, <1>14 DEF DerBody
<1>16. DerInteger(one.value) = u /\ DerInteger(two.value) = v
  BY <1>4, <1>5, <1>7, <1>8, IntegerRead
<1>17. /\ Len(DerBody(u, v)) = (2 + Len(u)) + (2 + Len(v))
       /\ EncodeDer(one.value, two.value) = <<48, Len(DerBody(u, v))>> \o DerBody(u, v)
  <2>1. DerIntegerFits(u) /\ DerIntegerFits(v)
    BY <1>4, <1>7
  <2>2. /\ Len(DerBody(u, v)) = (2 + Len(u)) + (2 + Len(v))
        /\ \A r, s : DerInteger(r) = u /\ DerInteger(s) = v =>
                 EncodeDer(r, s) = <<48, Len(DerBody(u, v))>> \o DerBody(u, v)
    BY <2>1, EncodedSignature
  <2>3. QED BY <1>16, <2>2, Zenon
<1>18. EncodeDer(one.value, two.value) = x
  BY <1>10, <1>15, <1>17 DEF lu, lv
<1>19. QED BY <1>3, <1>18

\* decode_der_signature reads what encode_der_signature writes.
LEMMA DerWritten ==
    ASSUME NEW r \in Seq(Byte), NEW s \in Seq(Byte), Len(r) = IntBytes, Len(s) = IntBytes,
           ValidSignature(r, s)
    PROVE  /\ EncodeDer(r, s) \in Seq(Byte) /\ Len(EncodeDer(r, s)) <= 2 * IntBytes + 8
           /\ DecodeDer(EncodeDer(r, s)) = Read([r |-> r, s |-> s], Len(EncodeDer(r, s)))
<1> DEFINE u == DerInteger(r)
           v == DerInteger(s)
           d == DerBody(u, v)
           n == Len(d)
           h == <<48, n>>
           x == h \o d
           lu == Len(u)
           lv == Len(v)
<1>1. u \in Seq(Byte) /\ DerIntegerFits(u) /\ DecodeDerInteger(u) = r
  BY IntegerWritten
<1>2. v \in Seq(Byte) /\ DerIntegerFits(v) /\ DecodeDerInteger(v) = s
  BY IntegerWritten
<1> HIDE DEF u, v
<1>3. /\ d \in Seq(Byte) /\ n = (2 + lu) + (2 + lv) /\ n \in 6..70 /\ EncodeDer(r, s) = x
  <2>1. DerInteger(r) = u /\ DerInteger(s) = v
    BY DEF u, v
  <2>2. QED BY <1>1, <1>2, <2>1, EncodedSignature
<1>4. /\ DerPart(u) \in Seq(Byte) /\ Len(DerPart(u)) = 2 + lu /\ lu \in 1..33
      /\ DerPart(v) \in Seq(Byte) /\ Len(DerPart(v)) = 2 + lv /\ lv \in 1..33
  BY <1>1, <1>2, PartOfInteger
<1>5. d = DerPart(u) \o DerPart(v)
  BY DEF DerBody
<1>6. lu <= IntBytes + 1 /\ lv <= IntBytes + 1
  <2>1. lu \in 1..IntBytes + 1 /\ lv \in 1..IntBytes + 1
    BY <1>1, <1>2 DEF DerIntegerFits
  <2> HIDE DEF lu, lv
  <2>2. QED BY <2>1, BytesAssumption
<1> HIDE DEF d, n
<1>7. h \in Seq(Byte) /\ Len(h) = 2 /\ h[1] = 48 /\ h[2] = n
  BY <1>3 DEF Byte
<1> HIDE DEF h
<1>8. /\ x \in Seq(Byte) /\ Len(x) = Len(h) + Len(d)
      /\ \A i \in 1..Len(h) + Len(d) : x[i] = IF i <= Len(h) THEN h[i] ELSE d[i - Len(h)]
  <2>1. h \in Seq(Byte)
    BY <1>7
  <2>2. d \in Seq(Byte)
    BY <1>3
  <2>3. QED BY <2>1, <2>2, ConcatProperties
<1> DEFINE pu == DerPart(u)
           pv == DerPart(v)
           a == h \o pu
<1> HIDE DEF x
<1>9. /\ Len(x) = 2 + n /\ x[1] = 48 /\ x[2] = n /\ ~(Len(x) < 2) /\ x[2] + 2 = Len(x)
  <2>1. Len(x) = 2 + n
    BY <1>7, <1>8 DEF n
  <2>2. x[1] = 48 /\ x[2] = n
    BY <1>3, <1>7, <1>8 DEF n
  <2>3. QED BY <1>3, <2>1, <2>2
<1>10. x = (h \o pu) \o pv
  <2>1. h \in Seq(Byte)
    BY <1>7
  <2>2. pu \in Seq(Byte) /\ pv \in Seq(Byte)
    BY <1>4
  <2>3. d = pu \o pv
    BY <1>5
  <2> HIDE DEF pu, pv, h
  <2>4. (h \o pu) \o pv = h \o (pu \o pv)
    BY <2>1, <2>2, Regrouped
  <2>5. QED BY <2>3, <2>4 DEF x
<1>11. DerField(x, 3) = Read(r, 2 + lu)
  <2>1. DerField((h \o pu) \o pv, Len(h) + 1) = Read(DecodeDerInteger(u), 2 + Len(u))
    BY <1>1, <1>4, <1>7, DerFieldWritten
  <2>2. Len(h) + 1 = 3
    BY <1>7
  <2>3. QED BY <1>1, <1>10, <2>1, <2>2
<1>12. DerField(x, 3 + (2 + lu)) = Read(s, 2 + lv)
  <2>1. a \in Seq(Byte) /\ Len(a) = Len(h) + Len(pu)
    BY <1>4, <1>7, ConcatProperties
  <2>2. <<>> \in Seq(Byte)
    OBVIOUS
  <2> HIDE DEF a
  <2>3. DerField((a \o pv) \o <<>>, Len(a) + 1) = Read(DecodeDerInteger(v), 2 + Len(v))
    BY <1>2, <2>1, <2>2, DerFieldWritten
  <2>4. a \o pv = x
    BY <1>10 DEF a
  <2>5. (a \o pv) \o <<>> = x
    BY <1>8, <2>4, ConcatEmptySeq
  <2>6. Len(a) + 1 = 3 + (2 + lu)
    BY <1>4, <1>7, <2>1
  <2>7. QED BY <1>2, <2>3, <2>5, <2>6
<1> HIDE DEF lu, lv
<1>13. DecodeDer(x) = SignatureOf(Read(r, 2 + lu), Read(s, 2 + lv), n)
  <2>1. DecodeDer(x) = SignatureOf(DerField(x, 3), DerField(x, 3 + DerField(x, 3).used), x[2])
    BY <1>9, <1>11 DEF DecodeDer, Read
  <2>2. DerField(x, 3).used = 2 + lu
    BY <1>11 DEF Read
  <2>3. QED BY <1>9, <1>11, <1>12, <2>1, <2>2
<1>14. DecodeDer(x) = Read([r |-> r, s |-> s], 2 + n)
  BY <1>3, <1>13 DEF SignatureOf, Read
<1>15. Len(x) <= 2 * IntBytes + 8
  <2>1. IntBytes \in Nat
    BY BytesAssumption
  <2>2. QED BY <1>3, <1>4, <1>6, <1>9, <2>1
<1>16. QED BY <1>3, <1>8, <1>9, <1>14, <1>15

-----------------------------------------------------------------------------
(* Parts that are joined *)

\* What is joined after each part.
Joins(all, parts) ==
    /\ all \in [0..Len(parts) -> Seq(Byte)] /\ all[0] = <<>>
    /\ \A i \in 1..Len(parts) : all[i] = all[i - 1] \o parts[i]
    /\ Joined(parts) = all[Len(parts)]

LEMMA JoinSteps ==
    ASSUME NEW parts \in Seq(Seq(Byte))
    PROVE  \E all : Joins(all, parts)
<1> DEFINE n == Len(parts)
           S == Seq(Byte)
           F == [p \in (1..n) \X S |-> p[2] \o parts[p[1]]]
           r == CHOOSE f : f = [i \in 0..n |-> IF i = 0 THEN <<>> ELSE f[i - 1] \o parts[i]]
<1>1. n \in Nat /\ \A i \in 1..n : parts[i] \in S
  BY LenProperties, ElementOfSeq
<1>2. \A u, v \in S : u \o v \in S
  BY ConcatProperties
<1>3. F \in [(1..n) \X S -> S]
  <2>1. \A p \in (1..n) \X S : p[2] \in S /\ parts[p[1]] \in S
    BY <1>1
  <2> HIDE DEF S, n
  <2>2. \A p \in (1..n) \X S : p[2] \o parts[p[1]] \in S
    BY <1>2, <2>1
  <2>3. QED BY <2>2
<1>4. <<>> \in S
  OBVIOUS
<1>5. PICK g : Follows(g, n, S, <<>>, F)
  <2> HIDE DEF F, S, n
  <2> QED BY <1>1, <1>3, <1>4, Recursion
<1>6. g = [i \in 0..n |-> IF i = 0 THEN <<>> ELSE g[i - 1] \o parts[i]]
  <2> HIDE DEF n, S
  <2>1. g \in [0..n -> S] /\ g[0] = <<>>
    BY <1>5 DEF Follows
  <2>2. ASSUME NEW i \in 1..n PROVE g[i] = g[i - 1] \o parts[i]
    <3>1. <<i, g[i - 1]>> \in (1..n) \X S
      BY <1>1, <2>1
    <3>2. g[i] = F[<<i, g[i - 1]>>]
      BY <1>5 DEF Follows
    <3>3. QED BY <3>1, <3>2
  <2> HIDE DEF F
  <2>3. \A i \in 0..n : g[i] = IF i = 0 THEN <<>> ELSE g[i - 1] \o parts[i]
    <3>1. SUFFICES ASSUME NEW i \in 0..n
                   PROVE  g[i] = IF i = 0 THEN <<>> ELSE g[i - 1] \o parts[i]
      OBVIOUS
    <3>2. CASE i = 0
      BY <2>1, <3>2
    <3>3. CASE i # 0
      <4>1. i \in 1..n
        BY <1>1, <3>3
      <4>2. QED BY <2>2, <3>3, <4>1, Zenon
    <3>4. QED BY <3>2, <3>3
  <2>4. DOMAIN g = 0..n /\ g = [i \in 0..n |-> g[i]]
    BY <2>1
  <2>5. QED BY <2>3, <2>4
<1>7. r = [i \in 0..n |-> IF i = 0 THEN <<>> ELSE r[i - 1] \o parts[i]]
  <2> HIDE DEF n
  <2> QED BY <1>6, Zenon
<1>8. Joined(parts) = r[n]
  BY DEF Joined
<1> HIDE DEF r, n, S
<1>9. DOMAIN r = 0..n /\ r[0] = <<>> /\ \A i \in 1..n : r[i] = r[i - 1] \o parts[i]
  BY <1>1, <1>7
<1>10. \A i \in 0..n : r[i] \in S
  <2> DEFINE T == {i \in 0..n : r[i] \in S}
  <2>1. 0 \in T
    BY <1>1, <1>4, <1>9
  <2>2. ASSUME NEW i \in 1..n, i - 1 \in T PROVE i \in T
    <3>1. i - 1 \in 0..n /\ i \in 0..n /\ r[i - 1] \in S
      BY <1>1, <2>2
    <3>2. r[i] = r[i - 1] \o parts[i]
      BY <1>9
    <3>3. r[i] \in S
      BY <1>1, <1>2, <3>1, <3>2
    <3>4. QED BY <3>1, <3>3
  <2> HIDE DEF T
  <2>3. 0..n \subseteq T
    BY <1>1, <2>1, <2>2, Positions
  <2>4. QED BY <2>3 DEF T
<1>11. r \in [0..n -> S]
  BY <1>7, <1>10
<1>12. QED BY <1>8, <1>9, <1>11 DEF Joins, n, S

LEMMA JoinedIsBytes ==
    ASSUME NEW parts \in Seq(Seq(Byte))
    PROVE  Joined(parts) \in Seq(Byte)
<1>1. PICK all : Joins(all, parts)
  BY JoinSteps
<1>2. Len(parts) \in 0..Len(parts)
  BY LenProperties
<1>3. QED BY <1>1, <1>2 DEF Joins

\* What a reader has left after each part.
Leaves(left, parts) ==
    /\ left \in [0..Len(parts) -> Seq(Byte)] /\ left[0] = Joined(parts)
    /\ left[Len(parts)] = <<>>
    /\ \A i \in 1..Len(parts) : left[i - 1] = parts[i] \o left[i]

LEMMA LeftSteps ==
    ASSUME NEW parts \in Seq(Seq(Byte))
    PROVE  \E left : Leaves(left, parts)
<1> DEFINE n == Len(parts)
           S == Seq(Byte)
           F == [p \in (1..n) \X S |-> parts[n + 1 - p[1]] \o p[2]]
<1>1. n \in Nat /\ \A i \in 1..n : parts[i] \in S
  BY LenProperties, ElementOfSeq
<1>2. \A u, v \in S : u \o v \in S
  BY ConcatProperties
<1>3. <<>> \in S /\ \A u \in S : u \o <<>> = u /\ <<>> \o u = u
  BY ConcatEmptySeq
<1>4. \A u, v, w \in S : (u \o v) \o w = u \o (v \o w)
  BY ConcatAssociative
<1>5. PICK all : Joins(all, parts)
  BY JoinSteps
<1>6. /\ all \in [0..n -> S] /\ all[0] = <<>> /\ Joined(parts) = all[n]
      /\ \A i \in 1..n : all[i] = all[i - 1] \o parts[i]
  BY <1>5 DEF Joins
<1> HIDE DEF n, S
<1>7. F \in [(1..n) \X S -> S]
  <2>1. \A p \in (1..n) \X S : p[2] \in S /\ n + 1 - p[1] \in 1..n
    BY <1>1
  <2>2. \A p \in (1..n) \X S : parts[n + 1 - p[1]] \o p[2] \in S
    BY <1>1, <1>2, <2>1
  <2>3. QED BY <2>2
<1>8. PICK g : Follows(g, n, S, <<>>, F)
  <2> HIDE DEF F
  <2> QED BY <1>1, <1>3, <1>7, Recursion
<1>9. /\ g \in [0..n -> S] /\ g[0] = <<>>
      /\ \A i \in 1..n : g[i] = parts[n + 1 - i] \o g[i - 1]
  <2>1. g \in [0..n -> S] /\ g[0] = <<>>
    BY <1>8 DEF Follows
  <2>2. ASSUME NEW i \in 1..n PROVE g[i] = parts[n + 1 - i] \o g[i - 1]
    <3>1. <<i, g[i - 1]>> \in (1..n) \X S
      BY <1>1, <2>1
    <3>2. g[i] = F[<<i, g[i - 1]>>]
      BY <1>8 DEF Follows
    <3>3. QED BY <3>1, <3>2
  <2>3. QED BY <2>1, <2>2
<1> HIDE DEF F
<1> DEFINE left == [i \in 0..n |-> g[n - i]]
<1>10. left \in [0..n -> S] /\ left[n] = <<>> /\ left[0] = g[n]
  <2>1. \A i \in 0..n : n - i \in 0..n /\ n - n = 0 /\ n - 0 = n
    BY <1>1
  <2>2. n \in 0..n /\ 0 \in 0..n
    BY <1>1
  <2>3. QED BY <1>9, <2>1, <2>2
<1>11. \A i \in 1..n : left[i - 1] = parts[i] \o left[i]
  <2>1. SUFFICES ASSUME NEW i \in 1..n PROVE left[i - 1] = parts[i] \o left[i]
    OBVIOUS
  <2> DEFINE j == n + 1 - i
  <2>2. j \in 1..n /\ n - (i - 1) = j /\ n - i = j - 1 /\ n + 1 - j = i
        /\ i \in 0..n /\ i - 1 \in 0..n
    BY <1>1
  <2> HIDE DEF j
  <2>3. g[j] = parts[n + 1 - j] \o g[j - 1]
    BY <1>9, <2>2
  <2>4. QED BY <2>2, <2>3
<1>12. \A i \in 0..n : Joined(parts) = all[n - i] \o g[i]
  <2> DEFINE T == {i \in 0..n : Joined(parts) = all[n - i] \o g[i]}
  <2>1. 0 \in T
    <3>1. n - 0 = n /\ 0 \in 0..n /\ n \in 0..n
      BY <1>1
    <3>2. Joined(parts) = all[n] \o <<>>
      BY <1>3, <1>6, <3>1
    <3>3. QED BY <1>9, <3>1, <3>2
  <2>2. ASSUME NEW i \in 1..n, i - 1 \in T PROVE i \in T
    <3> DEFINE j == n + 1 - i
    <3>1. /\ j \in 1..n /\ n - (i - 1) = j /\ n - i = j - 1 /\ i \in 0..n /\ i - 1 \in 0..n
          /\ j - 1 \in 0..n
      BY <1>1
    <3>2. Joined(parts) = all[n - (i - 1)] \o g[i - 1]
      BY <2>2
    <3>3. g[i] = parts[j] \o g[i - 1]
      BY <1>9
    <3> HIDE DEF j
    <3>4. Joined(parts) = (all[j - 1] \o parts[j]) \o g[i - 1]
      BY <1>6, <3>1, <3>2
    <3>5. Joined(parts) = all[j - 1] \o g[i]
      <4>1. all[j - 1] \in S /\ parts[j] \in S /\ g[i - 1] \in S
        BY <1>1, <1>6, <1>9, <3>1
      <4>2. (all[j - 1] \o parts[j]) \o g[i - 1] = all[j - 1] \o (parts[j] \o g[i - 1])
        BY <1>4, <4>1, Zenon
      <4>3. QED BY <3>3, <3>4, <4>2, Zenon
    <3>6. QED BY <3>1, <3>5
  <2> HIDE DEF T
  <2>3. 0..n \subseteq T
    BY <1>1, <2>1, <2>2, Positions
  <2>4. QED BY <2>3 DEF T
<1>13. Joined(parts) = g[n]
  <2>1. n \in 0..n /\ n - n = 0
    BY <1>1
  <2>2. Joined(parts) = <<>> \o g[n] /\ g[n] \in S
    BY <1>6, <1>9, <1>12, <2>1
  <2>3. QED BY <1>3, <2>2
<1> HIDE DEF left
<1>14. Leaves(left, parts)
  BY <1>10, <1>11, <1>13 DEF Leaves, n, S
<1>15. QED BY <1>14

LEMMA JoinedNothing == Joined(<<>>) = <<>>
<1>1. <<>> \in Seq(Seq(Byte)) /\ Len(<<>>) = 0
  OBVIOUS
<1>2. PICK all : Joins(all, <<>>)
  BY <1>1, JoinSteps
<1>3. QED BY <1>1, <1>2 DEF Joins

\* One more part is appended.
LEMMA JoinedAppend ==
    ASSUME NEW s \in Seq(Seq(Byte)), NEW p \in Seq(Byte)
    PROVE  Joined(Append(s, p)) = Joined(s) \o p
<1> DEFINE n == Len(s)
           S == Seq(Byte)
           t == Append(s, p)
<1>1. n \in Nat
  OBVIOUS
<1>2. t \in Seq(S) /\ Len(t) = n + 1 /\ t[n + 1] = p /\ \A i \in 1..n : t[i] = s[i]
  <2> HIDE DEF S
  <2>1. s \in Seq(S) /\ p \in S
    BY DEF S
  <2>2. QED BY <2>1, AppendProperties
<1> HIDE DEF t
<1>3. PICK a : Joins(a, s)
  BY JoinSteps
<1>4. PICK b : Joins(b, t)
  BY <1>2, JoinSteps
<1> HIDE DEF S
<1>5. a[0] = <<>> /\ (\A i \in 1..n : a[i] = a[i - 1] \o s[i]) /\ Joined(s) = a[n]
  BY <1>3 DEF Joins
<1>6. b[0] = <<>> /\ (\A i \in 1..n + 1 : b[i] = b[i - 1] \o t[i]) /\ Joined(t) = b[n + 1]
  BY <1>2, <1>4 DEF Joins
<1> HIDE DEF n
<1> DEFINE T == {i \in 0..n : a[i] = b[i]}
<1>7. 0 \in T
  BY <1>1, <1>5, <1>6
<1>8. ASSUME NEW i \in 1..n, i - 1 \in T PROVE i \in T
  <2>1. i \in 1..n + 1 /\ i \in 0..n /\ a[i - 1] = b[i - 1]
    BY <1>1, <1>8
  <2>2. a[i] = a[i - 1] \o s[i] /\ b[i] = b[i - 1] \o t[i] /\ t[i] = s[i]
    BY <1>2, <1>5, <1>6, <2>1
  <2>3. QED BY <2>1, <2>2
<1> HIDE DEF T
<1>9. 0..n \subseteq T
  BY <1>1, <1>7, <1>8, Positions
<1>10. a[n] = b[n] /\ n + 1 \in 1..n + 1 /\ (n + 1) - 1 = n
  BY <1>1, <1>9 DEF T
<1>11. b[n + 1] = b[n] \o t[n + 1]
  BY <1>6, <1>10
<1>12. QED BY <1>2, <1>5, <1>6, <1>10, <1>11 DEF t

\* No part is longer than what it is joined to.
LEMMA PartWithin ==
    ASSUME NEW parts \in Seq(Seq(Byte)), NEW i \in 1..Len(parts)
    PROVE  Len(parts[i]) \in Nat /\ Len(parts[i]) <= Len(Joined(parts))
<1> DEFINE n == Len(parts)
           S == Seq(Byte)
<1>1. PICK left : Leaves(left, parts)
  BY LeftSteps
<1>2. n \in Nat /\ \A k \in 1..n : parts[k] \in S
  BY LenProperties, ElementOfSeq
<1>3. /\ left \in [0..n -> S] /\ left[0] = Joined(parts)
      /\ \A k \in 1..n : left[k - 1] = parts[k] \o left[k]
  BY <1>1 DEF Leaves
<1>4. \A u, v \in S : Len(u) \in Nat /\ Len(v) \in Nat /\ Len(u \o v) = Len(u) + Len(v)
  BY ConcatProperties
<1>5. i \in 1..n
  OBVIOUS
<1> HIDE DEF n, S
<1>6. \A k \in 1..n : /\ Len(left[k - 1]) = Len(parts[k]) + Len(left[k])
                      /\ Len(parts[k]) \in Nat /\ Len(left[k]) \in Nat
                      /\ Len(left[k - 1]) \in Nat
  <2>1. SUFFICES ASSUME NEW k \in 1..n
                 PROVE  /\ Len(left[k - 1]) = Len(parts[k]) + Len(left[k])
                        /\ Len(parts[k]) \in Nat /\ Len(left[k]) \in Nat
                        /\ Len(left[k - 1]) \in Nat
    OBVIOUS
  <2>2. left[k] \in S /\ left[k - 1] \in S /\ parts[k] \in S
    BY <1>2, <1>3
  <2>3. QED BY <1>3, <1>4, <2>2
<1> DEFINE m == Len(left[0])
           T == {k \in 0..n : Len(left[k]) <= m}
<1>7. 0 \in T
  <2>1. m \in Nat
    BY <1>2, <1>3, <1>4
  <2>2. QED BY <1>2, <2>1
<1>8. ASSUME NEW k \in 1..n, k - 1 \in T PROVE k \in T
  <2> DEFINE a == Len(left[k - 1])
             b == Len(left[k])
             c == Len(parts[k])
  <2>1. a = c + b /\ a \in Nat /\ b \in Nat /\ c \in Nat /\ a <= m /\ k \in 0..n
    <3>1. k \in 0..n /\ k \in 1..n
      BY <1>2
    <3>2. a = c + b /\ a \in Nat /\ b \in Nat /\ c \in Nat
      BY <1>6, <3>1, Zenon
    <3>3. a <= m
      BY <1>8
    <3>4. QED BY <3>1, <3>2, <3>3
  <2>2. m \in Nat
    BY <1>2, <1>3, <1>4
  <2> HIDE DEF a, b, c, m
  <2>3. b <= m
    BY <2>1, <2>2
  <2>4. k \in 0..n
    BY <2>1
  <2>5. QED BY <2>3, <2>4 DEF b
<1> HIDE DEF T
<1>9. 0..n \subseteq T
  BY <1>2, <1>7, <1>8, Positions
<1>10. Len(left[i - 1]) <= m
  <2>1. i - 1 \in 0..n
    BY <1>2, <1>5
  <2>2. QED BY <1>9, <2>1 DEF T
<1>11. /\ Len(left[i - 1]) = Len(parts[i]) + Len(left[i])
       /\ Len(parts[i]) \in Nat /\ Len(left[i]) \in Nat
  BY <1>5, <1>6
<1>12. m \in Nat
  BY <1>2, <1>3, <1>4
<1> DEFINE a == Len(left[i - 1])
           b == Len(left[i])
           c == Len(parts[i])
<1>13. a = c + b /\ b \in Nat /\ c \in Nat /\ a <= m
  BY <1>10, <1>11
<1>14. m = Len(Joined(parts))
  BY <1>3
<1> HIDE DEF a, b, m
<1>15. c <= m
  <2> HIDE DEF c
  <2>1. QED BY <1>12, <1>13
<1>16. QED BY <1>13, <1>14, <1>15

-----------------------------------------------------------------------------
(* The fields of a list *)

FieldValue == [payload : Seq(Byte), is_list : BOOLEAN]
\* What a reader of a list returns: items and the bytes they were read from.
Field ==
    {f \in [value : FieldValue, encoded : Seq(Byte)] :
        f.encoded = Encoding(f.value.payload, f.value.is_list)}
Encodeds(fields) == [i \in 1..Len(fields) |-> fields[i].encoded]

Reading == [rest : Seq(Byte), fields : Seq(Field)]

LEMMA NextFieldCases ==
    ASSUME NEW read \in Reading
    PROVE  \/ NextField(read) = read
           \/ \E f \in Field, y \in Seq(Byte) :
                 /\ read.rest = f.encoded \o y
                 /\ NextField(read) = [rest |-> y, fields |-> Append(read.fields, f)]
<1> DEFINE x == read.rest
           item == ParseRlpItem(x)
<1>1. x \in Seq(Byte) /\ read.fields \in Seq(Field)
  BY DEF Reading
<1>2. CASE ~item.ok
  BY <1>2 DEF NextField
<1>3. CASE item.ok
  <2> HIDE DEF x
  <2>1. PICK p, l, k : Decodes(x, item, p, l, k)
    BY <1>1, <1>3, ItemDecodes
  <2>2. /\ p \in Seq(Byte) /\ l \in BOOLEAN /\ k \in 1..Len(x)
        /\ item = Read([payload |-> p, is_list |-> l], k)
        /\ SubSeq(x, 1, k) = Encoding(p, l)
    BY <2>1 DEF Decodes
  <2> DEFINE v == [payload |-> p, is_list |-> l]
             e == SubSeq(x, 1, k)
             f == [value |-> v, encoded |-> e]
             y == From(x, k + 1)
  <2>3. item.value = v /\ item.used = k
    BY <2>2 DEF Read
  <2>4. NextField(read) = [rest |-> y, fields |-> Append(read.fields, f)]
    BY <1>3, <2>3 DEF NextField, x
  <2>5. k \in 0..Len(x) /\ k + 1 \in 1..Len(x) + 1 /\ k \in Nat
    BY <2>2
  <2>6. x = e \o y
    BY <1>1, <2>5, CutInTwo
  <2>7. y \in Seq(Byte)
    BY <1>1, <2>5, FromProperties
  <2>8. e \in Seq(Byte)
    <3>1. 1 \in 1..Len(x) + 1 /\ k \in 1 - 1..Len(x)
      BY <1>1, <2>5
    <3>2. QED BY <1>1, <3>1, PartProperties
  <2>9. f \in Field
    <3>1. v \in FieldValue
      BY <2>2 DEF FieldValue
    <3> HIDE DEF e
    <3>2. e = Encoding(v.payload, v.is_list)
      BY <2>2 DEF e
    <3>3. QED BY <2>8, <3>1, <3>2 DEF Field
  <2> HIDE DEF f, y, e
  <2>10. f.encoded = e
    BY DEF f
  <2>11. QED BY <2>4, <2>6, <2>7, <2>9, <2>10 DEF x
<1>4. QED BY <1>2, <1>3

\* What a reader has read after each attempt at a field.
ReadsFields(read, payload, count) ==
    /\ read \in [0..count -> Reading] /\ read[0] = [rest |-> payload, fields |-> <<>>]
    /\ \A k \in 1..count : read[k] = NextField(read[k - 1])
    /\ ParseFields(payload, count) = AllRead(read[count], count)

LEMMA NextFieldReads ==
    ASSUME NEW read \in Reading
    PROVE  NextField(read) \in Reading
<1>1. CASE NextField(read) = read
  BY <1>1
<1>2. ASSUME NEW f \in Field, NEW y \in Seq(Byte),
             NextField(read) = [rest |-> y, fields |-> Append(read.fields, f)]
      PROVE  NextField(read) \in Reading
  <2>1. read.fields \in Seq(Field)
    BY DEF Reading
  <2>2. Append(read.fields, f) \in Seq(Field)
    BY <2>1, AppendProperties
  <2>3. QED BY <1>2, <2>2 DEF Reading
<1>3. QED BY <1>1, <1>2, NextFieldCases

LEMMA FieldSteps ==
    ASSUME NEW payload \in Seq(Byte), NEW n \in Nat
    PROVE  \E read : ReadsFields(read, payload, n)
<1> DEFINE S == Reading
           a == [rest |-> payload, fields |-> <<>>]
           F == [p \in (1..n) \X S |-> NextField(p[2])]
           r == CHOOSE f : f = [k \in 0..n |-> IF k = 0 THEN a ELSE NextField(f[k - 1])]
<1>1. a \in S
  <2>1. <<>> \in Seq(Field)
    OBVIOUS
  <2>2. QED BY <2>1 DEF Reading
<1>2. \A v \in S : NextField(v) \in S
  BY NextFieldReads
<1> HIDE DEF S
<1>3. F \in [(1..n) \X S -> S]
  BY <1>2
<1> HIDE DEF a
<1>4. PICK g : Follows(g, n, S, a, F)
  <2> HIDE DEF F
  <2> QED BY <1>1, <1>3, Recursion
<1>5. g = [k \in 0..n |-> IF k = 0 THEN a ELSE NextField(g[k - 1])]
  <2>1. g \in [0..n -> S] /\ g[0] = a
    BY <1>4 DEF Follows
  <2>2. ASSUME NEW k \in 1..n PROVE g[k] = NextField(g[k - 1])
    <3>1. <<k, g[k - 1]>> \in (1..n) \X S
      BY <2>1
    <3>2. g[k] = F[<<k, g[k - 1]>>]
      BY <1>4 DEF Follows
    <3>3. QED BY <3>1, <3>2
  <2> HIDE DEF F
  <2>3. \A k \in 0..n : g[k] = IF k = 0 THEN a ELSE NextField(g[k - 1])
    <3>1. SUFFICES ASSUME NEW k \in 0..n
                   PROVE  g[k] = IF k = 0 THEN a ELSE NextField(g[k - 1])
      OBVIOUS
    <3>2. CASE k = 0
      BY <2>1, <3>2
    <3>3. CASE k # 0
      <4>1. k \in 1..n
        BY <3>3
      <4>2. QED BY <2>2, <3>3, <4>1, Zenon
    <3>4. QED BY <3>2, <3>3
  <2>4. DOMAIN g = 0..n /\ g = [k \in 0..n |-> g[k]]
    BY <2>1
  <2>5. QED BY <2>3, <2>4
<1>6. r = [k \in 0..n |-> IF k = 0 THEN a ELSE NextField(r[k - 1])]
  BY <1>5, Zenon
<1>7. ParseFields(payload, n) = AllRead(r[n], n)
  BY DEF ParseFields, a
<1> HIDE DEF r
<1>8. DOMAIN r = 0..n /\ r[0] = a /\ \A k \in 1..n : r[k] = NextField(r[k - 1])
  BY <1>6
<1>9. \A k \in 0..n : r[k] \in S
  <2> DEFINE T == {k \in 0..n : r[k] \in S}
  <2>1. 0 \in T
    BY <1>1, <1>8
  <2>2. ASSUME NEW k \in 1..n, k - 1 \in T PROVE k \in T
    <3>1. k \in 0..n /\ r[k - 1] \in S
      BY <2>2
    <3>2. r[k] = NextField(r[k - 1])
      BY <1>8
    <3>3. QED BY <1>2, <3>1, <3>2
  <2> HIDE DEF T
  <2>3. 0..n \subseteq T
    BY <2>1, <2>2, Positions
  <2>4. QED BY <2>3 DEF T
<1>10. r \in [0..n -> S]
  BY <1>6, <1>9
<1>11. QED BY <1>7, <1>8, <1>10 DEF ReadsFields, S, a

LEMMA EncodedsProperties ==
    ASSUME NEW fields \in Seq(Field)
    PROVE  /\ Encodeds(fields) \in Seq(Seq(Byte)) /\ Len(Encodeds(fields)) = Len(fields)
           /\ \A i \in 1..Len(fields) : Encodeds(fields)[i] = fields[i].encoded
           /\ \A f \in Field : Encodeds(Append(fields, f)) = Append(Encodeds(fields), f.encoded)
<1> DEFINE n == Len(fields)
           e == Encodeds(fields)
<1>1. n \in Nat /\ \A i \in 1..n : fields[i] \in Field
  BY LenProperties, ElementOfSeq
<1>2. \A f \in Field : f.encoded \in Seq(Byte)
  BY DEF Field
<1>3. e = [i \in 1..n |-> fields[i].encoded]
  BY DEF Encodeds
<1> HIDE DEF e
<1>4. e \in Seq(Seq(Byte)) /\ Len(e) = n /\ \A i \in 1..n : e[i] = fields[i].encoded
  <2> HIDE DEF n
  <2>1. e \in [1..n -> Seq(Byte)]
    BY <1>1, <1>2, <1>3
  <2>2. e \in Seq(Seq(Byte)) /\ Len(e) = n
    BY <1>1, <2>1, IsASeq
  <2>3. QED BY <1>3, <2>2
<1>5. ASSUME NEW f \in Field
      PROVE  Encodeds(Append(fields, f)) = Append(e, f.encoded)
  <2> DEFINE g == Append(fields, f)
             h == Append(e, f.encoded)
             u == Encodeds(g)
  <2>1. g \in Seq(Field) /\ Len(g) = n + 1 /\ g[n + 1] = f /\ \A i \in 1..n : g[i] = fields[i]
    BY AppendProperties
  <2> HIDE DEF g
  <2>2. /\ h \in Seq(Seq(Byte)) /\ Len(h) = n + 1 /\ h[n + 1] = f.encoded
        /\ \A i \in 1..n : h[i] = e[i]
    <3>1. e \in Seq(Seq(Byte)) /\ f.encoded \in Seq(Byte)
      BY <1>2, <1>4
    <3>2. /\ h \in Seq(Seq(Byte)) /\ Len(h) = Len(e) + 1 /\ h[Len(e) + 1] = f.encoded
          /\ \A i \in 1..Len(e) : h[i] = e[i]
      BY <3>1, AppendProperties
    <3>3. QED BY <1>4, <3>2
  <2> HIDE DEF h
  <2>3. \A i \in 1..Len(g) : g[i] \in Field
    BY <2>1, ElementOfSeq
  <2>4. u = [i \in 1..n + 1 |-> g[i].encoded]
    BY <2>1 DEF Encodeds
  <2> HIDE DEF u
  <2>5. u \in Seq(Seq(Byte)) /\ Len(u) = n + 1
    <3>1. u \in [1..n + 1 -> Seq(Byte)]
      BY <1>2, <2>1, <2>3, <2>4
    <3>2. n + 1 \in Nat
      BY <1>1
    <3>3. QED BY <3>1, <3>2, IsASeq
  <2>6. \A i \in 1..n + 1 : u[i] = h[i]
    <3>1. SUFFICES ASSUME NEW i \in 1..n + 1 PROVE u[i] = h[i]
      OBVIOUS
    <3>2. u[i] = g[i].encoded
      BY <2>4
    <3>3. CASE i = n + 1
      BY <2>1, <2>2, <3>2, <3>3
    <3>4. CASE i # n + 1
      <4>1. i \in 1..n
        BY <1>1, <3>4
      <4>2. QED BY <1>4, <2>1, <2>2, <3>2, <4>1
    <3>5. QED BY <3>3, <3>4
  <2>7. u = h
    <3>1. Len(u) = Len(h) /\ \A i \in 1..Len(u) : u[i] = h[i]
      BY <2>2, <2>5, <2>6
    <3>2. QED BY <2>2, <2>5, <3>1, SeqEqual
  <2>8. QED BY <2>7 DEF u, h, g
<1>6. QED BY <1>4, <1>5 DEF e

LEMMA NextFieldWritten ==
    ASSUME NEW read \in Reading, NEW f \in Field, NEW y \in Seq(Byte),
           read.rest = f.encoded \o y, IsLength(Len(f.value.payload))
    PROVE  NextField(read) = [rest |-> y, fields |-> Append(read.fields, f)]
<1> DEFINE x == read.rest
           p == f.value.payload
           l == f.value.is_list
           e == f.encoded
<1>1. /\ f = [value |-> f.value, encoded |-> e] /\ f.value = [payload |-> p, is_list |-> l]
      /\ e \in Seq(Byte) /\ p \in Seq(Byte) /\ l \in BOOLEAN /\ e = Encoding(p, l)
  BY DEF Field, FieldValue
<1>2. x = e \o y
  OBVIOUS
<1>3. IsLength(Len(p))
  OBVIOUS
<1> HIDE DEF x, p, l, e
<1>4. ParseRlpItem(Encoding(p, l) \o y) = Read([payload |-> p, is_list |-> l], Len(Encoding(p, l)))
  BY <1>1, <1>3, ItemRead
<1>5. ParseRlpItem(x) = Read(f.value, Len(e))
  BY <1>1, <1>2, <1>4
<1>6. SubSeq(e \o y, 1, Len(e)) = e /\ From(e \o y, Len(e) + 1) = y
  BY <1>1, CutWhereJoined
<1>7. ParseRlpItem(x).ok /\ ParseRlpItem(x).value = f.value /\ ParseRlpItem(x).used = Len(e)
  BY <1>5 DEF Read
<1>8. NextField(read) = [rest |-> From(x, Len(e) + 1),
                         fields |-> Append(read.fields,
                                           [value |-> f.value, encoded |-> SubSeq(x, 1, Len(e))])]
  BY <1>7 DEF NextField, x
<1>9. QED BY <1>1, <1>2, <1>6, <1>8

LEMMA AllReadCases ==
    ASSUME NEW read \in Reading, NEW n \in Nat, AllRead(read, n).ok
    PROVE  read.rest = <<>> /\ Len(read.fields) = n /\ AllRead(read, n) = Read(read.fields, n)
BY DEF AllRead, Failure

\* The fields read so far and the rest are the whole payload.
Keeps(read, payload) == payload = Joined(Encodeds(read.fields)) \o read.rest

\* parse_typed_list reads the fields its payload is joined from.
LEMMA FieldsRead ==
    ASSUME NEW payload \in Seq(Byte), NEW n \in Nat, ParseFields(payload, n).ok
    PROVE  \E fields \in Seq(Field) :
              /\ Len(fields) = n /\ ParseFields(payload, n) = Read(fields, n)
              /\ payload = Joined(Encodeds(fields))
<1>1. PICK read : ReadsFields(read, payload, n)
  BY FieldSteps
<1>2. /\ read \in [0..n -> Reading] /\ read[0] = [rest |-> payload, fields |-> <<>>]
      /\ \A k \in 1..n : read[k] = NextField(read[k - 1])
      /\ ParseFields(payload, n) = AllRead(read[n], n)
  BY <1>1 DEF ReadsFields
<1> DEFINE T == {k \in 0..n : Keeps(read[k], payload)}
<1>3. 0 \in T
  <2>1. read[0].fields = <<>> /\ read[0].rest = payload
    BY <1>2
  <2>2. Encodeds(<<>>) = <<>>
    BY DEF Encodeds
  <2>3. <<>> \o payload = payload
    BY ConcatEmptySeq
  <2>4. Keeps(read[0], payload)
    BY <2>1, <2>2, <2>3, JoinedNothing DEF Keeps
  <2>5. QED BY <2>4
<1>4. ASSUME NEW k \in 1..n, k - 1 \in T PROVE k \in T
  <2> DEFINE r == read[k - 1]
  <2>1. k \in 0..n /\ r \in Reading /\ read[k] = NextField(r) /\ Keeps(r, payload)
    <3>1. k \in 0..n /\ k - 1 \in 0..n
      OBVIOUS
    <3>2. Keeps(r, payload)
      BY <1>4
    <3>3. QED BY <1>2, <3>1, <3>2
  <2> HIDE DEF r
  <2>2. Keeps(NextField(r), payload)
    <3>1. CASE NextField(r) = r
      BY <2>1, <3>1
    <3>2. ASSUME NEW f \in Field, NEW y \in Seq(Byte), r.rest = f.encoded \o y,
                 NextField(r) = [rest |-> y, fields |-> Append(r.fields, f)]
          PROVE  Keeps(NextField(r), payload)
      <4>1. r.fields \in Seq(Field) /\ f.encoded \in Seq(Byte)
        BY <2>1 DEF Reading, Field
      <4> DEFINE s == r.fields
                 e == Encodeds(s)
                 j == Joined(e)
      <4> HIDE DEF s
      <4>2. s \in Seq(Field)
        BY <4>1 DEF s
      <4>3. e \in Seq(Seq(Byte)) /\ Encodeds(Append(s, f)) = Append(e, f.encoded)
        BY <4>2, EncodedsProperties
      <4> HIDE DEF e
      <4>4. Joined(Append(e, f.encoded)) = j \o f.encoded
        BY <4>1, <4>3, JoinedAppend
      <4>5. j \in Seq(Byte)
        BY <4>3, JoinedIsBytes
      <4> HIDE DEF j
      <4>6. payload = j \o (f.encoded \o y)
        BY <2>1, <3>2 DEF j, e, s, Keeps
      <4>7. (j \o f.encoded) \o y = j \o (f.encoded \o y)
        <5> DEFINE c == f.encoded
        <5>1. c \in Seq(Byte)
          BY <4>1
        <5> HIDE DEF c
        <5>2. (j \o c) \o y = j \o (c \o y)
          BY <4>5, <5>1, ConcatAssociative
        <5>3. QED BY <5>2 DEF c
      <4>8. NextField(r).rest = y /\ NextField(r).fields = Append(s, f)
        BY <3>2 DEF s
      <4>9. QED BY <4>3, <4>4, <4>6, <4>7, <4>8 DEF Keeps
    <3>3. QED BY <2>1, <3>1, <3>2, NextFieldCases
  <2>3. QED BY <2>1, <2>2
<1> HIDE DEF T
<1>5. 0..n \subseteq T
  BY <1>3, <1>4, Positions
<1>6. Keeps(read[n], payload) /\ read[n] \in Reading
  <2>1. n \in 0..n
    OBVIOUS
  <2>2. Keeps(read[n], payload)
    BY <1>5, <2>1 DEF T
  <2>3. QED BY <1>2, <2>1, <2>2
<1> DEFINE s == read[n].fields
<1>7. read[n].rest = <<>> /\ Len(s) = n /\ ParseFields(payload, n) = Read(s, n)
  BY <1>2, <1>6, AllReadCases
<1>8. s \in Seq(Field)
  BY <1>6 DEF Reading
<1>9. payload = Joined(Encodeds(s))
  <2>1. payload = Joined(Encodeds(s)) \o <<>>
    BY <1>6, <1>7 DEF Keeps
  <2> HIDE DEF s
  <2>2. Encodeds(s) \in Seq(Seq(Byte))
    BY <1>8, EncodedsProperties
  <2>3. Joined(Encodeds(s)) \in Seq(Byte)
    BY <2>2, JoinedIsBytes
  <2>4. QED BY <2>1, <2>3, ConcatEmptySeq
<1>10. QED BY <1>7, <1>8, <1>9

\* Fields that are joined are read back one by one.
LEMMA FieldsWritten ==
    ASSUME NEW fields \in Seq(Field),
           \A i \in 1..Len(fields) : IsLength(Len(fields[i].value.payload))
    PROVE  ParseFields(Joined(Encodeds(fields)), Len(fields)) = Read(fields, Len(fields))
<1> DEFINE n == Len(fields)
           e == Encodeds(fields)
           x == Joined(e)
<1>1. n \in Nat /\ \A i \in 1..n : fields[i] \in Field /\ IsLength(Len(fields[i].value.payload))
  <2>1. \A i \in 1..Len(fields) : fields[i] \in Field
    BY ElementOfSeq
  <2>2. QED BY <2>1
<1>2. e \in Seq(Seq(Byte)) /\ Len(e) = n /\ \A i \in 1..n : e[i] = fields[i].encoded
  BY EncodedsProperties
<1> HIDE DEF e
<1>3. x \in Seq(Byte)
  BY <1>2, JoinedIsBytes
<1>4. PICK left : Leaves(left, e)
  BY <1>2, LeftSteps
<1>5. /\ left \in [0..n -> Seq(Byte)] /\ left[0] = x /\ left[n] = <<>>
      /\ \A i \in 1..n : left[i - 1] = e[i] \o left[i]
  BY <1>2, <1>4 DEF Leaves
<1> HIDE DEF x
<1>6. PICK read : ReadsFields(read, x, n)
  BY <1>1, <1>3, FieldSteps
<1>7. /\ read \in [0..n -> Reading] /\ read[0] = [rest |-> x, fields |-> <<>>]
      /\ \A k \in 1..n : read[k] = NextField(read[k - 1])
      /\ ParseFields(x, n) = AllRead(read[n], n)
  BY <1>6 DEF ReadsFields
<1>8. /\ SubSeq(fields, 1, 0) = <<>> /\ SubSeq(fields, 1, n) = fields
      /\ \A k \in 1..n : Append(SubSeq(fields, 1, k - 1), fields[k]) = SubSeq(fields, 1, k)
  <2>1. SubSeq(fields, 1, 0) = <<>>
    BY SubSeqEmpty
  <2>2. SubSeq(fields, 1, n) = fields
    BY SubSeqFull
  <2>3. ASSUME NEW k \in 1..n
        PROVE  Append(SubSeq(fields, 1, k - 1), fields[k]) = SubSeq(fields, 1, k)
    <3> DEFINE m == 1
               k1 == k - 1
    <3>1. m \in 1..n /\ k \in m..n /\ m \in 1..n + 1 /\ k1 \in m - 1..n
      BY <1>1
    <3> HIDE DEF m
    <3>2. SubSeq(fields, m, k) = SubSeq(fields, m, k - 1) \o <<fields[k]>>
      BY <3>1, SubSeqRecursiveSecond
    <3> HIDE DEF k1
    <3>3. SubSeq(fields, m, k1) \in Seq(Field)
      BY <3>1, PartProperties
    <3>4. Append(SubSeq(fields, m, k1), fields[k]) = SubSeq(fields, m, k1) \o <<fields[k]>>
      BY <1>1, <3>3, AppendIsConcat
    <3>5. QED BY <3>2, <3>4 DEF m, k1
  <2>4. QED BY <2>1, <2>2, <2>3
<1> HIDE DEF n
<1> DEFINE T == {k \in 0..n : read[k] = [rest |-> left[k], fields |-> SubSeq(fields, 1, k)]}
<1>9. 0 \in T
  BY <1>1, <1>5, <1>7, <1>8
<1>10. ASSUME NEW k \in 1..n, k - 1 \in T PROVE k \in T
  <2> DEFINE r == read[k - 1]
             f == fields[k]
             y == left[k]
  <2>1. k \in 0..n /\ k - 1 \in 0..n
    BY <1>1
  <2>2. r \in Reading /\ y \in Seq(Byte) /\ f \in Field /\ IsLength(Len(f.value.payload))
    BY <1>1, <1>5, <1>7, <2>1
  <2>3. r = [rest |-> left[k - 1], fields |-> SubSeq(fields, 1, k - 1)]
    BY <1>10
  <2>4. left[k - 1] = f.encoded \o y
    BY <1>2, <1>5
  <2>5. read[k] = NextField(r)
    BY <1>7
  <2>6. Append(SubSeq(fields, 1, k - 1), f) = SubSeq(fields, 1, k)
    BY <1>8
  <2> HIDE DEF r, f, y
  <2>7. r.rest = f.encoded \o y /\ r.fields = SubSeq(fields, 1, k - 1)
    BY <2>3, <2>4
  <2>8. NextField(r) = [rest |-> y, fields |-> Append(r.fields, f)]
    BY <2>2, <2>7, NextFieldWritten
  <2>9. read[k] = [rest |-> left[k], fields |-> SubSeq(fields, 1, k)]
    BY <2>5, <2>6, <2>7, <2>8 DEF y
  <2>10. QED BY <2>1, <2>9
<1> HIDE DEF T
<1>11. 0..n \subseteq T
  BY <1>1, <1>9, <1>10, Positions
<1>12. read[n] = [rest |-> <<>>, fields |-> fields]
  BY <1>1, <1>5, <1>8, <1>11 DEF T
<1>13. AllRead(read[n], n) = Read(fields, n)
  BY <1>12 DEF AllRead, n
<1>14. QED BY <1>7, <1>13 DEF x, e, n

-----------------------------------------------------------------------------
(* The envelope *)

\* Whatever its length, an item is written in bytes.
LEMMA AnyHeader ==
    ASSUME NEW n \in Nat, NEW l \in BOOLEAN
    PROVE  Header(l, n) \in Seq(Byte) /\ Len(Header(l, n)) \in 1..9
<1> DEFINE b == BigEndian(n)
           k == Len(b)
<1>1. b \in Seq(Byte) /\ k \in Nat /\ k <= 8
  BY BigEndianProperties
<1> HIDE DEF b
<1>2. CASE n < 56
  <2> DEFINE c == ShortBase(l) + n
  <2>1. Header(l, n) = <<c>>
    BY <1>2 DEF Header, RlpPushLength
  <2>2. c \in Byte
    BY <1>2 DEF Byte, ShortBase
  <2> HIDE DEF c
  <2>3. QED BY <2>1, <2>2
<1>3. CASE ~(n < 56)
  <2> DEFINE c == LongBase(l) + k
             h == <<c>>
  <2>1. Header(l, n) = h \o b
    BY <1>3 DEF Header, RlpPushLength, b
  <2>2. c \in Byte
    <3> HIDE DEF k
    <3>1. QED BY <1>1 DEF Byte, LongBase
  <2> HIDE DEF c
  <2>3. h \in Seq(Byte) /\ Len(h) = 1
    BY <2>2
  <2> HIDE DEF h
  <2>4. b \in Seq(Byte)
    BY <1>1
  <2>5. h \o b \in Seq(Byte) /\ Len(h \o b) = Len(h) + Len(b)
    BY <2>3, <2>4, ConcatProperties
  <2>6. Len(h \o b) = 1 + k
    BY <2>3, <2>5
  <2> DEFINE q == Len(h \o b)
  <2>7. q = 1 + k
    BY <2>6
  <2> HIDE DEF q, k
  <2>8. q \in 1..9
    BY <1>1, <2>7
  <2>9. QED BY <2>1, <2>5, <2>8 DEF q
<1>4. QED BY <1>2, <1>3

LEMMA AnyEncoding ==
    ASSUME NEW p \in Seq(Byte), NEW l \in BOOLEAN
    PROVE  /\ Encoding(p, l) \in Seq(Byte) /\ Len(p) <= Len(Encoding(p, l))
           /\ 1 <= Len(Encoding(p, l))
           /\ l => Len(p) + 1 <= Len(Encoding(p, l))
<1> DEFINE h == Header(l, Len(p))
           n == Len(p)
           e == Encoding(p, l)
<1>1. e = IF IsItsOwnEncoding(p, l) THEN p ELSE h \o p
  BY EncodingForms DEF Header
<1>2. n \in Nat
  OBVIOUS
<1>3. h \in Seq(Byte) /\ Len(h) \in 1..9
  BY <1>2, AnyHeader
<1>4. CASE IsItsOwnEncoding(p, l)
  <2>1. Len(p) = 1 /\ ~l
    BY <1>4 DEF IsItsOwnEncoding
  <2>2. QED BY <1>1, <1>4, <2>1
<1>5. CASE ~IsItsOwnEncoding(p, l)
  <2>1. e = h \o p
    BY <1>1, <1>5
  <2> HIDE DEF h, e
  <2>2. h \in Seq(Byte)
    BY <1>3
  <2>3. h \o p \in Seq(Byte) /\ Len(h \o p) = Len(h) + Len(p)
    BY <2>2, ConcatProperties
  <2> DEFINE m == Len(e)
             k == Len(h)
  <2>4. e \in Seq(Byte) /\ m = k + n
    BY <2>1, <2>3
  <2>5. k \in 1..9
    BY <1>3
  <2> HIDE DEF m, k, n
  <2>6. n <= m /\ 1 <= m /\ n + 1 <= m
    BY <1>2, <2>4, <2>5
  <2>7. QED BY <2>4, <2>6 DEF m, n, e
<1>6. QED BY <1>4, <1>5

LEMMA ShorterLength ==
    ASSUME NEW m, IsLength(m), NEW k \in Nat, k <= m
    PROVE  IsLength(k)
<1>1. m \in Nat /\ m <= UsizeMax /\ m < 16777216 /\ UsizeMax \in Nat
  BY CapacityAssumption DEF IsLength
<1>2. k <= UsizeMax /\ k < 16777216
  BY <1>1
<1>3. QED BY <1>1, <1>2 DEF IsLength

LEMMA EnvelopeForm ==
    ASSUME NEW body \in Seq(Byte)
    PROVE  /\ Envelope(body) = <<2>> \o Encoding(body, TRUE)
           /\ Envelope(body) \in Seq(Byte)
           /\ Envelope(body) # <<>> /\ Envelope(body)[1] = 2
           /\ Tail(Envelope(body)) = Encoding(body, TRUE)
           /\ Len(Envelope(body)) = 1 + Len(Encoding(body, TRUE))
<1> DEFINE e == Encoding(body, TRUE)
           h == <<2>>
           x == h \o e
<1>1. Envelope(body) = x
  BY DEF Envelope, Encoding, EIP1559_TYPE
<1>2. e \in Seq(Byte)
  BY AnyEncoding
<1>3. h \in Seq(Byte) /\ Len(h) = 1 /\ h[1] = 2
  BY DEF Byte
<1> HIDE DEF e, h
<1>4. h \in Seq(Byte)
  BY <1>3
<1>5. /\ x \in Seq(Byte) /\ Len(x) = Len(h) + Len(e)
      /\ \A i \in 1..Len(h) + Len(e) : x[i] = IF i <= Len(h) THEN h[i] ELSE e[i - Len(h)]
  BY <1>2, <1>4, ConcatProperties
<1>6. From(x, Len(h) + 1) = e
  BY <1>2, <1>4, CutWhereJoined
<1> HIDE DEF x
<1>7. Len(x) = 1 + Len(e)
  BY <1>3, <1>5
<1>8. x[1] = 2
  <2>1. 1 \in 1..Len(h) + Len(e) /\ 1 <= Len(h)
    BY <1>2, <1>3
  <2>2. QED BY <1>3, <1>5, <2>1
<1>9. x # <<>>
  <2>1. Len(x) # 0
    BY <1>2, <1>7
  <2>2. QED BY <2>1
<1>10. Tail(x) = e
  <2>1. Tail(x) = SubSeq(x, 2, Len(x))
    BY <1>5, <1>9, TailIsSubSeq
  <2>2. Len(h) + 1 = 2
    BY <1>3
  <2>3. QED BY <1>6, <2>1, <2>2 DEF From
<1>11. Envelope(body) = <<2>> \o e
  BY <1>1 DEF x, h
<1>12. x \in Seq(Byte)
  BY <1>5
<1>13. QED BY <1>1, <1>7, <1>8, <1>9, <1>10, <1>11, <1>12 DEF e

\* parse_typed_list reads the fields an envelope was written from.
LEMMA EnvelopeWritten ==
    ASSUME NEW fields \in Seq(Field), IsLength(Len(Joined(Encodeds(fields))))
    PROVE  ParseTypedList(Envelope(Joined(Encodeds(fields))), Len(fields))
             = Read(fields, Len(fields))
<1> DEFINE n == Len(fields)
           e == Encodeds(fields)
           b == Joined(e)
           x == Envelope(b)
           c == Encoding(b, TRUE)
<1>1. e \in Seq(Seq(Byte)) /\ Len(e) = n /\ \A i \in 1..n : e[i] = fields[i].encoded
  BY EncodedsProperties
<1> DEFINE lb == Len(b)
<1>11. IsLength(lb)
  OBVIOUS
<1>2. \A i \in 1..n : IsLength(Len(fields[i].value.payload))
  <2>1. SUFFICES ASSUME NEW i \in 1..n PROVE IsLength(Len(fields[i].value.payload))
    OBVIOUS
  <2>2. fields[i] \in Field
    BY ElementOfSeq
  <2> DEFINE f == fields[i]
             p == f.value.payload
             l == f.value.is_list
  <2>3. p \in Seq(Byte) /\ l \in BOOLEAN /\ f.encoded = Encoding(p, l)
    BY <2>2 DEF Field, FieldValue
  <2>4. e[i] = Encoding(p, l)
    BY <1>1, <2>3
  <2> HIDE DEF p, l, e
  <2>5. Encoding(p, l) \in Seq(Byte) /\ Len(p) <= Len(Encoding(p, l))
    BY <2>3, AnyEncoding
  <2>6. Len(e[i]) \in Nat /\ Len(e[i]) <= Len(b)
    <3>1. i \in 1..Len(e)
      BY <1>1
    <3>2. QED BY <1>1, <3>1, PartWithin
  <2>7. b \in Seq(Byte)
    BY <1>1, JoinedIsBytes
  <2> DEFINE lp == Len(p)
             le == Len(e[i])
  <2>8. lp \in Nat /\ le \in Nat /\ lb \in Nat /\ lp <= le /\ le <= lb
    BY <2>3, <2>4, <2>5, <2>6, <2>7
  <2> HIDE DEF lp, le, lb
  <2>10. lp <= lb
    BY <2>8
  <2>11. IsLength(lp)
    BY <1>11, <2>8, <2>10, ShorterLength
  <2>12. QED BY <2>11 DEF lp, p
<1>3. ParseFields(b, n) = Read(fields, n)
  BY <1>2, FieldsWritten
<1>4. b \in Seq(Byte) /\ IsLength(Len(b))
  <2>1. b \in Seq(Byte)
    BY <1>1, JoinedIsBytes
  <2>2. QED BY <2>1
<1> HIDE DEF b, e
<1>5. x # <<>> /\ x[1] = 2 /\ Tail(x) = c /\ Len(x) = 1 + Len(c) /\ c \in Seq(Byte)
  BY <1>4, EnvelopeForm, AnyEncoding
<1>6. ParseRlpItem(c) = Read([payload |-> b, is_list |-> TRUE], Len(c))
  <2>1. <<>> \in Seq(Byte) /\ TRUE \in BOOLEAN
    OBVIOUS
  <2>2. ParseRlpItem(c \o <<>>) = Read([payload |-> b, is_list |-> TRUE], Len(c))
    BY <1>4, <2>1, ItemRead
  <2>3. c \o <<>> = c
    BY <1>5, ConcatEmptySeq
  <2>4. QED BY <2>2, <2>3
<1> HIDE DEF x, c
<1>7. Len(x) - 1 = Len(c)
  BY <1>5
<1>8. ParseTypedList(x, n) = FieldsOf(Read([payload |-> b, is_list |-> TRUE], Len(c)), Len(c), n)
  BY <1>5, <1>6, <1>7 DEF ParseTypedList, EIP1559_TYPE
<1>9. ParseTypedList(x, n) = ParseFields(b, n)
  BY <1>8 DEF FieldsOf, Read
<1>10. QED BY <1>3, <1>9 DEF x, b, e

\* An envelope parse_typed_list accepts is the one its fields are written to.
LEMMA EnvelopeRead ==
    ASSUME NEW x \in Seq(Byte), NEW n \in Nat, ParseTypedList(x, n).ok
    PROVE  \E fields \in Seq(Field) :
              /\ Len(fields) = n /\ ParseTypedList(x, n) = Read(fields, n)
              /\ x = Envelope(Joined(Encodeds(fields)))
<1> DEFINE t == Tail(x)
           top == ParseRlpItem(t)
<1>1. x # <<>> /\ x[1] = 2 /\ ParseTypedList(x, n) = FieldsOf(top, Len(x) - 1, n)
  BY DEF ParseTypedList, Failure, EIP1559_TYPE
<1>2. t \in Seq(Byte) /\ Len(t) = Len(x) - 1
  BY <1>1, HeadTailProperties
<1> HIDE DEF t
<1>3. /\ top.ok /\ top.value.is_list /\ top.used = Len(t)
      /\ ParseTypedList(x, n) = ParseFields(top.value.payload, n)
  BY <1>1, <1>2 DEF FieldsOf, Failure
<1>4. PICK p, l, k : Decodes(t, top, p, l, k)
  BY <1>2, <1>3, ItemDecodes
<1>5. /\ p \in Seq(Byte) /\ l \in BOOLEAN /\ top = Read([payload |-> p, is_list |-> l], k)
      /\ SubSeq(t, 1, k) = Encoding(p, l)
  BY <1>4 DEF Decodes
<1>6. top.used = k /\ top.value.is_list = l /\ top.value.payload = p
  BY <1>5 DEF Read
<1>7. k = Len(t) /\ l = TRUE
  BY <1>3, <1>5, <1>6
<1>8. t = Encoding(p, TRUE)
  BY <1>2, <1>5, <1>7, SubSeqFull
<1>9. x = <<2>> \o t
  <2> DEFINE i == 1
             j == Len(x)
  <2>1. i \in 1..Len(x) /\ j \in i..Len(x)
    BY <1>1, EmptySeq
  <2> HIDE DEF i, j
  <2>2. SubSeq(x, i, j) = <<x[i]>> \o SubSeq(x, i + 1, j)
    BY <2>1, SubSeqRecursiveFirst
  <2>3. SubSeq(x, 1, Len(x)) = x /\ t = SubSeq(x, 2, Len(x))
    BY <1>1, SubSeqFull, TailIsSubSeq DEF t
  <2>4. QED BY <1>1, <2>2, <2>3 DEF i, j
<1>10. ParseFields(p, n).ok /\ ParseTypedList(x, n) = ParseFields(p, n)
  BY <1>3, <1>6
<1>11. PICK fields \in Seq(Field) :
              /\ Len(fields) = n /\ ParseFields(p, n) = Read(fields, n)
              /\ p = Joined(Encodeds(fields))
  BY <1>5, <1>10, FieldsRead
<1>12. x = Envelope(p)
  BY <1>5, <1>8, <1>9, EnvelopeForm
<1>13. QED BY <1>10, <1>11, <1>12

-----------------------------------------------------------------------------
(* The transfers a host encodes *)

LEMMA FunctionIsSequence ==
    ASSUME NEW n \in Nat, NEW S, NEW f \in [1..n -> S]
    PROVE  f \in Seq(S) /\ Len(f) = n
OBVIOUS

FieldOf(p, l) == [value |-> [payload |-> p, is_list |-> l], encoded |-> Encoding(p, l)]

LEMMA FieldOfIsField ==
    ASSUME NEW p \in Seq(Byte), NEW l \in BOOLEAN
    PROVE  FieldOf(p, l) \in Field
<1>1. Encoding(p, l) \in Seq(Byte)
  BY AnyEncoding
<1>2. QED BY <1>1 DEF FieldOf, Field, FieldValue

LEMMA SignificantAgain ==
    ASSUME NEW b \in Seq(Byte), b # <<>> => b[1] # 0
    PROVE  Significant(b) = b
<1>1. 0 \in Nat
  OBVIOUS
<1>2. Significant(Zeros(0) \o b) = b
  BY <1>1, SignificantOfPadded
<1>3. QED BY <1>2, NothingPadded

LEMMA NumberPushed ==
    ASSUME NEW n \in Nat
    PROVE  BigEndian(n) \in Seq(Byte) /\ RlpPushU64(n) = Encoding(BigEndian(n), FALSE)
<1> DEFINE b == BigEndian(n)
<1>1. b \in Seq(Byte) /\ (b # <<>> => b[1] # 0)
  BY BigEndianProperties
<1>2. RlpPushU64(n) = RlpPushBytes(Significant(b))
  BY DEF RlpPushU64, RlpPushIntegerBytes
<1> HIDE DEF b
<1>3. Significant(b) = b
  BY <1>1, SignificantAgain
<1>4. QED BY <1>1, <1>2, <1>3 DEF Encoding, b

HostPayload(amounts, i) ==
    IF i \in 1..5 THEN BigEndian(amounts[i])
    ELSE IF i = 6 THEN SomeAddress
    ELSE IF i = 7 THEN BigEndian(amounts[6])
    ELSE <<>>
HostFields(amounts) == [i \in 1..9 |-> FieldOf(HostPayload(amounts, i), i = 9)]

LEMMA HostFieldsProperties ==
    ASSUME NEW amounts \in Transfers
    PROVE  /\ HostFields(amounts) \in Seq(Field) /\ Len(HostFields(amounts)) = 9
           /\ \A i \in 1..9 : HostPayload(amounts, i) \in Seq(Byte)
                /\ HostFields(amounts)[i] = FieldOf(HostPayload(amounts, i), i = 9)
<1> DEFINE h == HostFields(amounts)
<1>1. SomeAddress \in Seq(Byte)
  <2>1. 17 \in Byte /\ AddressBytes \in Nat
    BY BytesAssumption DEF Byte
  <2>2. SomeAddress \in [1..AddressBytes -> Byte]
    BY <2>1 DEF SomeAddress
  <2>3. QED BY <2>1, <2>2, FunctionIsSequence
<1>2. \A i \in 1..6 : BigEndian(amounts[i]) \in Seq(Byte)
  <2>1. \A i \in 1..6 : amounts[i] \in Nat
    BY HostAssumption
  <2>2. QED BY <2>1, BigEndianProperties
<1>3. <<>> \in Seq(Byte)
  OBVIOUS
<1>4. \A i \in 1..9 : HostPayload(amounts, i) \in Seq(Byte)
  <2>1. SUFFICES ASSUME NEW i \in 1..9 PROVE HostPayload(amounts, i) \in Seq(Byte)
    OBVIOUS
  <2>2. CASE i \in 1..5
    <3>1. i \in 1..6
      BY <2>2
    <3>2. QED BY <1>2, <2>2, <3>1 DEF HostPayload
  <2>3. CASE ~(i \in 1..5)
    BY <1>1, <1>2, <1>3, <2>3 DEF HostPayload
  <2>4. QED BY <2>2, <2>3
<1>5. h = [i \in 1..9 |-> FieldOf(HostPayload(amounts, i), i = 9)]
  BY DEF HostFields
<1> HIDE DEF h
<1>6. h \in [1..9 -> Field]
  <2>1. \A i \in 1..9 : FieldOf(HostPayload(amounts, i), i = 9) \in Field
    <3>1. \A i \in 1..9 : (i = 9) \in BOOLEAN
      OBVIOUS
    <3>2. QED BY <1>4, <3>1, FieldOfIsField
  <2>2. QED BY <1>5, <2>1
<1>7. h \in Seq(Field) /\ Len(h) = 9
  <2>1. 9 \in Nat
    OBVIOUS
  <2>2. QED BY <1>6, <2>1, FunctionIsSequence
<1>8. QED BY <1>4, <1>5, <1>7 DEF h

LEMMA FieldEncoded ==
    ASSUME NEW p, NEW f, NEW l \in BOOLEAN, f = FieldOf(p, l)
    PROVE  (l => f.encoded = RlpPushList(p)) /\ (~l => f.encoded = RlpPushBytes(p))
<1>1. f.encoded = Encoding(p, l)
  BY DEF FieldOf
<1>2. QED BY <1>1 DEF Encoding

\* encode_native_transfer joins the encodings of these fields.
LEMMA TransferEncoded ==
    ASSUME NEW amounts \in Transfers
    PROVE  TransferFields(amounts, SomeAddress) = Encodeds(HostFields(amounts))
<1> DEFINE h == HostFields(amounts)
           e == Encodeds(h)
           a == [i \in 1..5 |-> RlpPushU64(amounts[i])]
           b == <<RlpPushBytes(SomeAddress), RlpPushU64(amounts[6]), RlpPushBytes(<<>>), <<192>>>>
           S == Seq(Byte)
<1>1. /\ h \in Seq(Field) /\ Len(h) = 9
      /\ \A i \in 1..9 : HostPayload(amounts, i) \in S
            /\ h[i] = FieldOf(HostPayload(amounts, i), i = 9)
  BY HostFieldsProperties
<1> HIDE DEF h
<1>2. e \in Seq(S) /\ Len(e) = 9 /\ \A i \in 1..9 : e[i] = h[i].encoded
  BY <1>1, EncodedsProperties
<1> HIDE DEF e
<1>3. \A i \in 1..8 : e[i] = RlpPushBytes(HostPayload(amounts, i))
  <2>1. SUFFICES ASSUME NEW i \in 1..8 PROVE e[i] = RlpPushBytes(HostPayload(amounts, i))
    OBVIOUS
  <2> DEFINE l == (i = 9)
             q == HostPayload(amounts, i)
  <2>2. i \in 1..9 /\ l \in BOOLEAN /\ ~l
    OBVIOUS
  <2>3. h[i] = FieldOf(q, l) /\ e[i] = h[i].encoded
    BY <1>1, <1>2, <2>2
  <2> HIDE DEF l, q
  <2>4. e[i] = RlpPushBytes(q)
    BY <2>2, <2>3, FieldEncoded
  <2>5. QED BY <2>4 DEF q
<1>4. \A i \in 1..6 : RlpPushU64(amounts[i]) = RlpPushBytes(BigEndian(amounts[i]))
  <2>1. \A i \in 1..6 : amounts[i] \in Nat
    BY HostAssumption
  <2>2. QED BY <2>1, NumberPushed DEF Encoding
<1>5. \A i \in 1..5 : e[i] = RlpPushU64(amounts[i])
  <2>1. \A i \in 1..5 : i \in 1..8 /\ i \in 1..6
    OBVIOUS
  <2>2. \A i \in 1..5 : HostPayload(amounts, i) = BigEndian(amounts[i])
    BY DEF HostPayload
  <2>3. QED BY <1>3, <1>4, <2>1, <2>2
<1>6. e[6] = RlpPushBytes(SomeAddress)
  <2>1. HostPayload(amounts, 6) = SomeAddress /\ 6 \in 1..8
    BY DEF HostPayload
  <2>2. QED BY <1>3, <2>1
<1>7. e[7] = RlpPushU64(amounts[6])
  <2>1. HostPayload(amounts, 7) = BigEndian(amounts[6]) /\ 7 \in 1..8 /\ 6 \in 1..6
    BY DEF HostPayload
  <2>2. QED BY <1>3, <1>4, <2>1
<1>8. e[8] = RlpPushBytes(<<>>)
  <2>1. HostPayload(amounts, 8) = <<>> /\ 8 \in 1..8
    BY DEF HostPayload
  <2>2. QED BY <1>3, <2>1
<1>9. e[9] = <<192>>
  <2> DEFINE l == (9 = 9)
  <2>1. l \in BOOLEAN /\ l /\ 9 \in 1..9
    OBVIOUS
  <2>2. HostPayload(amounts, 9) = <<>>
    BY DEF HostPayload
  <2>3. h[9] = FieldOf(<<>>, l) /\ e[9] = h[9].encoded
    BY <1>1, <1>2, <2>2
  <2> HIDE DEF l
  <2>4. e[9] = RlpPushList(<<>>)
    BY <2>1, <2>3, FieldEncoded
  <2>5. RlpPushList(<<>>) = <<192>>
    <3>1. RlpPushList(<<>>) = <<192>> \o <<>>
      BY DEF RlpPushList, RlpPushLength
    <3>2. <<192>> \in Seq(Byte)
      BY DEF Byte
    <3>3. QED BY <3>1, <3>2, ConcatEmptySeq
  <2>6. QED BY <2>4, <2>5
<1>10. \A i \in 1..9 : e[i] \in S
  BY <1>2, ElementOfSeq
<1> HIDE DEF S
<1>11. a \in Seq(S) /\ Len(a) = 5 /\ \A i \in 1..5 : a[i] = e[i]
  <2>1. \A i \in 1..5 : i \in 1..9
    OBVIOUS
  <2>2. a \in [1..5 -> S]
    BY <1>5, <1>10, <2>1
  <2>3. QED BY <1>5, <2>2, IsASeq
<1>12. b \in Seq(S) /\ Len(b) = 4 /\ b[1] = e[6] /\ b[2] = e[7] /\ b[3] = e[8] /\ b[4] = e[9]
  <2>1. b = <<e[6], e[7], e[8], e[9]>>
    BY <1>6, <1>7, <1>8, <1>9
  <2> HIDE DEF b
  <2>2. e[6] \in S /\ e[7] \in S /\ e[8] \in S /\ e[9] \in S
    BY <1>10
  <2>3. QED BY <2>1, <2>2
<1>13. TransferFields(amounts, SomeAddress) = a \o b
  BY DEF TransferFields
<1> HIDE DEF a, b
<1>14. /\ a \o b \in Seq(S) /\ Len(a \o b) = Len(a) + Len(b)
       /\ \A i \in 1..Len(a) + Len(b) :
            (a \o b)[i] = IF i <= Len(a) THEN a[i] ELSE b[i - Len(a)]
  BY <1>11, <1>12, ConcatProperties
<1> DEFINE q == a \o b
<1>15. q \in Seq(S) /\ Len(q) = 9
  BY <1>11, <1>12, <1>14
<1>16. \A i \in 1..9 : q[i] = IF i <= 5 THEN a[i] ELSE b[i - 5]
  <2>1. Len(a) = 5 /\ Len(a) + Len(b) = 9
    BY <1>11, <1>12
  <2>2. \A i \in 1..Len(a) + Len(b) : q[i] = IF i <= Len(a) THEN a[i] ELSE b[i - Len(a)]
    BY <1>14
  <2> HIDE DEF q
  <2>3. QED BY <2>1, <2>2
<1> HIDE DEF q
<1>17. \A i \in 1..9 : q[i] = e[i]
  <2>1. q[6] = e[6] /\ q[7] = e[7] /\ q[8] = e[8] /\ q[9] = e[9]
    BY <1>12, <1>16
  <2>2. \A i \in 1..5 : q[i] = e[i]
    BY <1>11, <1>16
  <2>3. \A i \in 1..9 : i \in 1..5 \/ i = 6 \/ i = 7 \/ i = 8 \/ i = 9
    OBVIOUS
  <2>4. QED BY <2>1, <2>2, <2>3
<1>18. q = e
  <2>1. Len(q) = Len(e) /\ \A i \in 1..Len(q) : q[i] = e[i]
    BY <1>2, <1>15, <1>17
  <2>2. QED BY <1>2, <1>15, <2>1, SeqEqual
<1>19. QED BY <1>13, <1>18 DEF q, e, h

\* The payload of an envelope that is not too long has a length of three bytes.
LEMMA BodyWithin ==
    ASSUME NEW body \in Seq(Byte), Len(Envelope(body)) <= MaxUnsigned
    PROVE  IsLength(Len(body)) /\ Len(body) + 2 <= Len(Envelope(body))
<1> DEFINE n == Len(body)
           m == Len(Envelope(body))
           k == Len(Encoding(body, TRUE))
<1>1. m = 1 + k
  BY EnvelopeForm
<1>2. n + 1 <= k /\ k \in Nat
  <2> DEFINE l == TRUE
  <2>1. l \in BOOLEAN /\ l
    OBVIOUS
  <2> HIDE DEF l
  <2>2. Encoding(body, l) \in Seq(Byte) /\ (l => Len(body) + 1 <= Len(Encoding(body, l)))
    BY <2>1, AnyEncoding
  <2>3. Len(body) + 1 <= Len(Encoding(body, l)) /\ Encoding(body, l) \in Seq(Byte)
    BY <2>1, <2>2, Zenon
  <2>4. Encoding(body, TRUE) \in Seq(Byte) /\ n + 1 <= k
    BY <2>3 DEF l
  <2>5. k \in Nat
    BY <2>4, LenProperties
  <2>6. QED BY <2>4, <2>5, Zenon
<1>3. n \in Nat /\ m <= MaxUnsigned
  OBVIOUS
<1> HIDE DEF n, m, k
<1>4. MaxUnsigned \in Nat /\ MaxSigned \in Nat /\ MaxUnsigned <= MaxSigned
  BY CapacityAssumption, BytesAssumption
<1>5. n + 2 <= m /\ n <= MaxSigned
  BY <1>1, <1>2, <1>3, <1>4
<1>6. IsLength(n)
  BY <1>3, <1>5, EnvelopeLengths
<1>7. QED BY <1>5, <1>6 DEF n, m

LEMMA HostEnvelope ==
    ASSUME NEW amounts \in Transfers
    PROVE  LET x == EncodeNativeTransfer(amounts, SomeAddress)
           IN /\ x \in Seq(Byte)
              /\ Len(x) <= MaxUnsigned =>
                    ParseTypedList(x, UnsignedFields) = Read(HostFields(amounts), UnsignedFields)
<1> DEFINE h == HostFields(amounts)
           b == Joined(Encodeds(h))
           x == EncodeNativeTransfer(amounts, SomeAddress)
<1>1. h \in Seq(Field) /\ Len(h) = UnsignedFields
  BY HostFieldsProperties DEF UnsignedFields
<1>2. x = Envelope(b)
  BY TransferEncoded DEF EncodeNativeTransfer
<1> HIDE DEF h, x
<1>3. b \in Seq(Byte)
  <2>1. Encodeds(h) \in Seq(Seq(Byte))
    BY <1>1, EncodedsProperties
  <2>2. QED BY <2>1, JoinedIsBytes
<1>4. x \in Seq(Byte)
  BY <1>2, <1>3, EnvelopeForm
<1>5. ASSUME Len(x) <= MaxUnsigned
      PROVE  ParseTypedList(x, UnsignedFields) = Read(h, UnsignedFields)
  <2>1. IsLength(Len(b))
    BY <1>2, <1>3, <1>5, BodyWithin
  <2>2. ParseTypedList(Envelope(b), Len(h)) = Read(h, Len(h))
    BY <1>1, <2>1, EnvelopeWritten
  <2>3. QED BY <1>1, <1>2, <2>2
<1>6. QED BY <1>4, <1>5 DEF h, x

-----------------------------------------------------------------------------
(* The bytes on hand *)

LEMMA WrittenCases ==
    ASSUME WrittenIsOnHand
    PROVE  /\ written.format = "Transfer" => TransferOnHand
           /\ written.format = "Compact" => CompactOnHand
           /\ written.format = "Shortvec" => ShortvecOnHand
           /\ written.format = "Der" => DerOnHand
<1>1. written = None => written.format = "None"
  BY DEF None
<1>2. TransferOnHand => written.format = "Transfer"
  BY DEF TransferOnHand
<1>3. CompactOnHand => written.format = "Compact"
  BY DEF CompactOnHand
<1>4. ShortvecOnHand => written.format = "Shortvec"
  BY DEF ShortvecOnHand
<1>5. DerOnHand => written.format = "Der"
  BY DEF DerOnHand
<1>6. QED BY <1>1, <1>2, <1>3, <1>4, <1>5 DEF WrittenIsOnHand

LEMMA ScalarIsBytes ==
    ASSUME NEW r \in Scalars
    PROVE  r \in Seq(Byte) /\ Len(r) = IntBytes
<1>1. IntBytes \in Nat /\ r \in [1..IntBytes -> Byte]
  BY BytesAssumption
<1>2. QED BY <1>1, FunctionIsSequence

LEMMA Room == IntBytes \in Nat /\ IntBytes >= 1 /\ MaxUnsigned \in Nat
              /\ 2 * IntBytes + 8 <= MaxUnsigned /\ 5 <= MaxUnsigned
<1>1. IntBytes \in Nat /\ IntBytes >= 1
  BY BytesAssumption
<1>2. MaxUnsigned \in Nat /\ 2 * IntBytes + 8 <= MaxUnsigned
  BY CapacityAssumption
<1>3. QED BY <1>1, <1>2

LEMMA WireStart == Init => WireInv
<1> SUFFICES ASSUME Init PROVE WireInv
  OBVIOUS
<1>1. input = <<>> /\ written = None
  BY DEF Init
<1>2. input \in Seq(Byte) /\ Len(input) = 0
  BY <1>1
<1>3. QED BY <1>1, <1>2, Room DEF WireInv, WrittenIsOnHand

LEMMA WireStep == WireInv /\ [Next]_vars => WireInv'
<1> SUFFICES ASSUME WireInv, [Next]_vars PROVE WireInv'
  OBVIOUS
<1>1. input \in Seq(Byte) /\ Len(input) <= MaxUnsigned /\ WrittenIsOnHand
  BY DEF WireInv
<1>2. ASSUME NEW piece \in Pieces, Send(piece) PROVE WireInv'
  <2>1. piece \in Seq(Byte)
    BY HostAssumption
  <2>2. input \in Seq(Byte)
    BY <1>1
  <2>3. input' \in Seq(Byte)
    BY <1>2, <2>1, <2>2, ConcatProperties DEF Send
  <2>4. written' = None /\ Len(input') <= MaxUnsigned
    BY <1>2 DEF Send
  <2>5. QED BY <2>3, <2>4 DEF WireInv, WrittenIsOnHand
<1>3. ASSUME NEW amounts \in Transfers, SendTransfer(amounts) PROVE WireInv'
  <2>1. /\ input' = EncodeNativeTransfer(amounts, SomeAddress) /\ Len(input') <= MaxUnsigned
        /\ written' = [format |-> "Transfer", scalars |-> amounts]
    BY <1>3 DEF SendTransfer
  <2>2. EncodeNativeTransfer(amounts, SomeAddress) \in Seq(Byte)
    BY HostEnvelope
  <2>3. QED BY <2>1, <2>2 DEF WireInv, WrittenIsOnHand, TransferOnHand
<1>4. ASSUME NEW i \in 1..UnsignedFields, NEW field \in Fields, AlterField(i, field)
      PROVE  WireInv'
  <2> DEFINE fields == ParseTypedList(input, UnsignedFields).value
             parts == [j \in 1..UnsignedFields |->
                         IF j = i THEN field ELSE fields[j].encoded]
  <2>1. PICK amounts \in Transfers : input = EncodeNativeTransfer(amounts, SomeAddress)
    <3>1. written.format = "Transfer"
      BY <1>4 DEF AlterField
    <3>2. QED BY <1>1, <3>1, WrittenCases DEF TransferOnHand
  <2>2. fields = HostFields(amounts)
    <3>1. ParseTypedList(input, UnsignedFields) = Read(HostFields(amounts), UnsignedFields)
      BY <1>1, <2>1, HostEnvelope
    <3>2. QED BY <3>1 DEF Read
  <2>3. input' = Envelope(Joined(parts)) /\ Len(input') <= MaxUnsigned /\ written' = None
    BY <1>4 DEF AlterField
  <2> HIDE DEF fields
  <2>4. \A j \in 1..9 : fields[j].encoded \in Seq(Byte)
    <3>1. fields \in Seq(Field) /\ Len(fields) = 9
      BY <2>2, HostFieldsProperties
    <3>2. \A j \in 1..9 : fields[j] \in Field
      BY <3>1, ElementOfSeq
    <3>3. QED BY <3>2 DEF Field
  <2>5. field \in Seq(Byte)
    BY HostAssumption
  <2>6. parts \in [1..9 -> Seq(Byte)]
    BY <2>4, <2>5 DEF UnsignedFields
  <2> HIDE DEF parts
  <2>7. parts \in Seq(Seq(Byte))
    <3>1. \A f \in [1..9 -> Seq(Byte)] : f \in Seq(Seq(Byte))
      BY FunctionIsSequence
    <3>2. QED BY <2>6, <3>1, Zenon
  <2>8. Joined(parts) \in Seq(Byte)
    BY <2>7, JoinedIsBytes
  <2>9. input' \in Seq(Byte)
    BY <2>3, <2>8, EnvelopeForm
  <2>10. QED BY <2>3, <2>9 DEF WireInv, WrittenIsOnHand
<1>5. ASSUME NEW i \in DOMAIN input, NEW byte \in AlteredBytes, AlterByte(i, byte)
      PROVE  WireInv'
  <2>1. input' = [input EXCEPT ![i] = byte] /\ written' = None
    BY <1>5 DEF AlterByte
  <2>2. byte \in Byte
    BY BytesAssumption
  <2>3. i \in 1..Len(input)
    BY <1>1, LenProperties
  <2>4. [input EXCEPT ![i] = byte] \in Seq(Byte)
        /\ Len([input EXCEPT ![i] = byte]) = Len(input)
    BY <1>1, <2>2, <2>3, ExceptSeq
  <2>5. QED BY <1>1, <2>1, <2>4 DEF WireInv, WrittenIsOnHand
<1>6. ASSUME NEW format \in {"Compact", "Shortvec"}, NEW n \in Lengths, WriteLength(format, n)
      PROVE  WireInv'
  <2>1. n \in 0..UsizeMax /\ n \in Nat
    BY HostAssumption, CapacityAssumption
  <2>2. CASE format = "Compact"
    <3>1. /\ n \div 65536 < 65536 /\ input' = PushCompactSize(n)
          /\ written' = [format |-> "Compact", value |-> n]
      BY <1>6, <2>2 DEF WriteLength
    <3>2. FitsU32(n)
      BY <3>1 DEF FitsU32
    <3>3. PushCompactSize(n) \in Seq(Byte) /\ Len(PushCompactSize(n)) <= 5
      BY <2>1, <3>2, CompactSizeWritten
    <3>4. input' \in Seq(Byte) /\ Len(input') <= MaxUnsigned
      BY <3>1, <3>3, Room
    <3>5. QED BY <3>1, <3>4 DEF WireInv, WrittenIsOnHand, CompactOnHand
  <2>3. CASE format = "Shortvec"
    <3>1. /\ n \div 65536 < 1 /\ input' = PushShortvec(n)
          /\ written' = [format |-> "Shortvec", value |-> n]
      BY <1>6, <2>3 DEF WriteLength
    <3>2. n < 65536
      BY <2>1, <3>1
    <3>3. PushShortvec(n) \in Seq(Byte) /\ Len(PushShortvec(n)) <= 3
      BY <2>1, <3>2, ShortvecWritten
    <3>4. input' \in Seq(Byte) /\ Len(input') <= MaxUnsigned
      BY <3>1, <3>3, Room
    <3>5. QED BY <3>1, <3>2, <3>4 DEF WireInv, WrittenIsOnHand, ShortvecOnHand
  <2>4. QED BY <2>2, <2>3
<1>7. ASSUME NEW r \in Scalars, NEW s \in Scalars, WriteSignature(r, s) PROVE WireInv'
  <2>1. /\ ValidSignature(r, s) /\ input' = EncodeDer(r, s)
        /\ written' = [format |-> "Der", value |-> [r |-> r, s |-> s]]
    BY <1>7 DEF WriteSignature
  <2>2. r \in Seq(Byte) /\ s \in Seq(Byte) /\ Len(r) = IntBytes /\ Len(s) = IntBytes
    BY ScalarIsBytes
  <2>3. EncodeDer(r, s) \in Seq(Byte) /\ Len(EncodeDer(r, s)) <= 2 * IntBytes + 8
    BY <2>1, <2>2, DerWritten
  <2>4. input' \in Seq(Byte) /\ Len(input') <= MaxUnsigned
    BY <2>1, <2>3, Room
  <2>5. QED BY <2>1, <2>4 DEF WireInv, WrittenIsOnHand, DerOnHand
<1>8. ASSUME Clear PROVE WireInv'
  <2>1. input' = <<>> /\ written' = None
    BY <1>8 DEF Clear
  <2>2. input' \in Seq(Byte) /\ Len(input') = 0
    BY <2>1
  <2>3. QED BY <2>1, <2>2, Room DEF WireInv, WrittenIsOnHand
<1>9. CASE UNCHANGED vars
  BY <1>9 DEF vars, WireInv, WrittenIsOnHand, TransferOnHand, CompactOnHand,
              ShortvecOnHand, DerOnHand
<1>10. QED BY <1>2, <1>3, <1>4, <1>5, <1>6, <1>7, <1>8, <1>9 DEF Next

\* The bytes on hand are bytes, not too many of them, and as long as nobody
\* altered them they are what the signer or the host's encoder wrote.
THEOREM WireInductive == Spec => []WireInv
<1>1. Init => WireInv
  BY WireStart
<1>2. WireInv /\ [Next]_vars => WireInv'
  BY WireStep
<1>3. QED BY <1>1, <1>2, PTL DEF Spec

-----------------------------------------------------------------------------
(* Every reader accepts one encoding *)

LEMMA CompactCase ==
    ASSUME CompactOnHand
    PROVE  \E n \in Lengths : written.value = n /\ input = PushCompactSize(n) /\ FitsU32(n)
<1>1. PICK n \in Lengths :
            /\ written = [format |-> "Compact", value |-> n]
            /\ input = PushCompactSize(n) /\ n \div 65536 < 65536
  BY DEF CompactOnHand
<1>2. FitsU32(n)
  BY <1>1 DEF FitsU32
<1>3. written.value = n
  BY <1>1
<1>4. input = PushCompactSize(n)
  BY <1>1
<1>5. QED BY <1>2, <1>3, <1>4

LEMMA LengthsCanonical == WireInv => LengthsAreCanonical
<1> SUFFICES ASSUME WireInv PROVE LengthsAreCanonical
  OBVIOUS
<1>1. input \in Seq(Byte) /\ WrittenIsOnHand
  BY DEF WireInv
<1> DEFINE c == ReadCompactSize(input)
           v == ReadShortvec(input)
<1>0. c = ReadCompactSize(input) /\ v = ReadShortvec(input)
  OBVIOUS
<1> HIDE DEF c, v
<1>2. c.ok => Prefix(c.used) = PushCompactSize(c.value)
  <2>1. SUFFICES ASSUME c.ok PROVE Prefix(c.used) = PushCompactSize(c.value)
    OBVIOUS
  <2>2. PICK n, k : c = Read(n, k) /\ SubSeq(input, 1, k) = PushCompactSize(n)
    BY <1>0, <1>1, <2>1, CompactSizeRead
  <2>3. c.value = n /\ c.used = k
    BY <2>2 DEF Read
  <2>4. QED BY <2>2, <2>3 DEF Prefix
<1>3. written.format = "Compact" => c = Read(written.value, Len(input))
  <2>1. SUFFICES ASSUME written.format = "Compact"
                 PROVE  c = Read(written.value, Len(input))
    OBVIOUS
  <2>2. PICK n \in Lengths : written.value = n /\ input = PushCompactSize(n) /\ FitsU32(n)
    <3>1. CompactOnHand
      BY <1>1, <2>1, WrittenCases, Zenon
    <3>2. QED BY <3>1, CompactCase
  <2>3. n \in 0..UsizeMax
    BY HostAssumption
  <2>4. ReadCompactSize(PushCompactSize(n)) = Read(n, Len(PushCompactSize(n)))
    BY <2>2, <2>3, CompactSizeWritten
  <2>5. QED BY <1>0, <2>2, <2>4
<1>4. v.ok => v.value < 65536 /\ Prefix(v.used) = PushShortvec(v.value)
  <2>1. SUFFICES ASSUME v.ok PROVE v.value < 65536 /\ Prefix(v.used) = PushShortvec(v.value)
    OBVIOUS
  <2>2. PICK n, k : v = Read(n, k) /\ n < 65536 /\ SubSeq(input, 1, k) = PushShortvec(n)
    BY <1>0, <1>1, <2>1, ShortvecRead
  <2>3. v.value = n /\ v.used = k
    BY <2>2 DEF Read
  <2>4. QED BY <2>2, <2>3 DEF Prefix
<1>5. written.format = "Shortvec" => v = Read(written.value, Len(input))
  <2>1. SUFFICES ASSUME written.format = "Shortvec"
                 PROVE  v = Read(written.value, Len(input))
    OBVIOUS
  <2>2. PICK n \in Lengths : written.value = n /\ input = PushShortvec(n) /\ n < 65536
    <3>1. ShortvecOnHand
      BY <1>1, <2>1, WrittenCases, Zenon
    <3>2. QED BY <3>1 DEF ShortvecOnHand
  <2>3. n \in Nat
    BY HostAssumption, CapacityAssumption
  <2>4. ReadShortvec(PushShortvec(n)) = Read(n, Len(PushShortvec(n)))
    BY <2>2, <2>3, ShortvecWritten
  <2>5. QED BY <1>0, <2>2, <2>4
<1>6. LET n == c IN
        /\ n.ok => Prefix(n.used) = PushCompactSize(n.value)
        /\ written.format = "Compact" => n = Read(written.value, Len(input))
  BY <1>2, <1>3
<1>7. LET n == v IN
        /\ n.ok => n.value < 65536 /\ Prefix(n.used) = PushShortvec(n.value)
        /\ written.format = "Shortvec" => n = Read(written.value, Len(input))
  BY <1>4, <1>5
<1>8. QED BY <1>0, <1>6, <1>7 DEF LengthsAreCanonical

LEMMA DerCanonical == WireInv => DerIsCanonical
<1> SUFFICES ASSUME WireInv PROVE DerIsCanonical
  OBVIOUS
<1>1. input \in Seq(Byte) /\ WrittenIsOnHand
  BY DEF WireInv
<1> DEFINE sig == DecodeDer(input)
<1>2. sig.ok => /\ ValidSignature(sig.value.r, sig.value.s)
                /\ input = EncodeDer(sig.value.r, sig.value.s)
  BY <1>1, DerRead
<1>3. written.format = "Der" => sig = Read(written.value, Len(input))
  <2>1. SUFFICES ASSUME written.format = "Der" PROVE sig = Read(written.value, Len(input))
    OBVIOUS
  <2>2. PICK r \in Scalars, s \in Scalars :
              /\ written.value = [r |-> r, s |-> s]
              /\ input = EncodeDer(r, s) /\ ValidSignature(r, s)
    <3>1. DerOnHand
      BY <1>1, <2>1, WrittenCases
    <3>2. QED BY <3>1 DEF DerOnHand
  <2>3. r \in Seq(Byte) /\ s \in Seq(Byte) /\ Len(r) = IntBytes /\ Len(s) = IntBytes
    BY ScalarIsBytes
  <2>4. DecodeDer(EncodeDer(r, s)) = Read([r |-> r, s |-> s], Len(EncodeDer(r, s)))
    BY <2>2, <2>3, DerWritten
  <2>5. QED BY <2>2, <2>4
<1>4. QED BY <1>2, <1>3 DEF DerIsCanonical

\* Whatever bytes arrive, each reader accepts one encoding of a value and reads
\* back every number and signature the signer writes.
THEOREM ReadersTheorem == Spec => []ReadersAreCanonical
<1>1. WireInv => RlpIsCanonical
  BY RlpCanonical DEF WireInv
<1>2. WireInv => ReadersAreCanonical
  BY <1>1, LengthsCanonical, DerCanonical DEF ReadersAreCanonical
<1>3. QED BY <1>2, WireInductive, PTL

-----------------------------------------------------------------------------
(* What the user reviews of a host's transfer *)

LEMMA HostScalars ==
    ASSUME NEW amounts \in Transfers, NEW i \in 1..6
    PROVE  IsScalar(BigEndian(amounts[i]))
<1>1. amounts[i] \in Nat /\ Len(BigEndian(amounts[i])) <= IntBytes
  BY HostAssumption
<1>2. BigEndian(amounts[i]) # <<>> => BigEndian(amounts[i])[1] # 0
  BY <1>1, BigEndianProperties
<1>3. QED BY <1>1, <1>2 DEF IsScalar

LEMMA FieldKind ==
    ASSUME NEW p, NEW f, NEW l \in BOOLEAN, f = FieldOf(p, l)
    PROVE  (l => f.value.is_list) /\ (~l => ~f.value.is_list)
<1>1. f.value.is_list = l
  BY DEF FieldOf
<1>2. QED BY <1>1, Zenon

LEMMA HostTransfer ==
    ASSUME NEW amounts \in Transfers
    PROVE  LET t == TransferIn(Read(HostFields(amounts), UnsignedFields), AddressBytes)
           IN t.ok /\ \A i \in 1..6 : t.value.scalars[i] = BigEndian(amounts[i])
<1> DEFINE h == HostFields(amounts)
           list == Read(h, UnsignedFields)
           p(i) == HostPayload(amounts, i)
           field(i) == list.value[i].value
           scalars == [i \in 1..6 |-> field(IF i = 6 THEN 7 ELSE i).payload]
           t == TransferIn(list, AddressBytes)
<1>1. list.ok /\ list.value = h
  BY DEF Read
<1>2. \A i \in 1..9 : h[i] = FieldOf(p(i), i = 9)
  BY HostFieldsProperties
<1> HIDE DEF h, list
<1>3. \A i \in 1..9 : field(i).payload = p(i)
  BY <1>1, <1>2 DEF FieldOf
<1>3a. \A i \in 1..9 : i # 9 => ~h[i].value.is_list
  <2>1. SUFFICES ASSUME NEW i \in 1..9, i # 9 PROVE ~h[i].value.is_list
    OBVIOUS
  <2> DEFINE l == (i = 9)
  <2>2. l \in BOOLEAN /\ ~l /\ h[i] = FieldOf(p(i), l)
    BY <1>2, <2>1
  <2> HIDE DEF l
  <2>3. QED BY <2>2, FieldKind
<1>3b. h[9].value.is_list
  <2> DEFINE l == (9 = 9)
  <2>2. l \in BOOLEAN /\ l /\ h[9] = FieldOf(p(9), l)
    BY <1>2
  <2> HIDE DEF l
  <2>3. QED BY <2>2, FieldKind
<1>4. /\ p(1) = BigEndian(amounts[1]) /\ p(2) = BigEndian(amounts[2])
      /\ p(3) = BigEndian(amounts[3]) /\ p(4) = BigEndian(amounts[4])
      /\ p(5) = BigEndian(amounts[5]) /\ p(6) = SomeAddress
      /\ p(7) = BigEndian(amounts[6]) /\ p(8) = <<>> /\ p(9) = <<>>
  BY DEF HostPayload
<1>5. Len(SomeAddress) = AddressBytes
  BY BytesAssumption DEF SomeAddress
<1> HIDE DEF p
<1>6. \A i \in {1, 2, 3, 4, 5, 7} : ~field(i).is_list /\ IsScalar(field(i).payload)
  <2>1. \A i \in {1, 2, 3, 4, 5} : IsScalar(p(i))
    BY <1>4, HostScalars
  <2>2. IsScalar(p(7))
    BY <1>4, HostScalars
  <2>3. \A i \in {1, 2, 3, 4, 5, 7} : i \in 1..9 /\ i # 9
    OBVIOUS
  <2>4. \A i \in {1, 2, 3, 4, 5, 7} : IsScalar(p(i))
    BY <2>1, <2>2
  <2>5. QED BY <1>1, <1>3, <1>3a, <2>3, <2>4, Zenon
<1>7. /\ ~field(6).is_list /\ Len(field(6).payload) = AddressBytes
      /\ ~field(8).is_list /\ field(8).payload = <<>>
      /\ field(9).is_list /\ field(9).payload = <<>>
  <2>1. 6 \in 1..9 /\ 8 \in 1..9 /\ 9 \in 1..9 /\ 6 # 9 /\ 8 # 9
    OBVIOUS
  <2>2. ~field(6).is_list /\ ~field(8).is_list
    BY <1>1, <1>3a, <2>1, Zenon
  <2>3. field(6).payload = SomeAddress /\ field(8).payload = <<>> /\ field(9).payload = <<>>
    BY <1>3, <1>4, <2>1
  <2>4. Len(field(6).payload) = AddressBytes
    BY <1>5, <2>3
  <2>5. QED BY <1>1, <1>3b, <2>2, <2>3, <2>4, Zenon
<1>8. \A i \in 1..6 : scalars[i] = BigEndian(amounts[i])
  <2>1. scalars[6] = p(7)
    BY <1>3
  <2>2. \A i \in 1..5 : scalars[i] = p(i)
    BY <1>3
  <2> HIDE DEF scalars
  <2>3. SUFFICES ASSUME NEW i \in 1..6 PROVE scalars[i] = BigEndian(amounts[i])
    OBVIOUS
  <2>4. /\ scalars[1] = p(1) /\ scalars[2] = p(2) /\ scalars[3] = p(3)
        /\ scalars[4] = p(4) /\ scalars[5] = p(5)
    BY <2>2
  <2>5. i = 1 \/ i = 2 \/ i = 3 \/ i = 4 \/ i = 5 \/ i = 6
    OBVIOUS
  <2>6. QED BY <1>4, <2>1, <2>4, <2>5, Zenon
<1>9. t = Read([scalars |-> scalars, destination |-> field(6).payload], UnsignedFields)
  BY <1>1, <1>6, <1>7 DEF TransferIn
<1> HIDE DEF t, scalars
<1>10. t.ok /\ t.value.scalars = scalars
  BY <1>9 DEF Read
<1>11. QED BY <1>8, <1>10 DEF list, t, h

LEMMA TransferReviewed ==
    ASSUME WireInv, written.format = "Transfer"
    PROVE  LET transfer == ParseEip1559(input, AddressBytes)
           IN /\ transfer.ok
              /\ \A i \in 1..6 : transfer.value.scalars[i] = BigEndian(written.scalars[i])
<1>1. Len(input) <= MaxUnsigned /\ WrittenIsOnHand
  BY DEF WireInv
<1>2. TransferOnHand
  BY <1>1, WrittenCases, Zenon
<1>3. PICK amounts \in Transfers :
            /\ written = [format |-> "Transfer", scalars |-> amounts]
            /\ input = EncodeNativeTransfer(amounts, SomeAddress)
  BY <1>2 DEF TransferOnHand
<1>4. written.scalars = amounts
  BY <1>3
<1>5. ParseTypedList(input, UnsignedFields) = Read(HostFields(amounts), UnsignedFields)
  BY <1>1, <1>3, HostEnvelope
<1>6. ParseEip1559(input, AddressBytes)
        = TransferIn(Read(HostFields(amounts), UnsignedFields), AddressBytes)
  BY <1>5 DEF ParseEip1559
<1>7. QED BY <1>4, <1>6, HostTransfer

-----------------------------------------------------------------------------
(* The signed envelope *)

LEMMA ThreeMore ==
    ASSUME NEW S, NEW e \in Seq(S), NEW a \in S, NEW b \in S, NEW c \in S
    PROVE  e \o <<a, b, c>> = Append(Append(Append(e, a), b), c)
<1> DEFINE n == Len(e)
           e1 == Append(e, a)
           e2 == Append(e1, b)
           e3 == Append(e2, c)
           w == <<a, b, c>>
           u == e \o w
<1>1. n \in Nat
  BY LenProperties
<1>2. e1 \in Seq(S) /\ Len(e1) = n + 1 /\ e1[n + 1] = a /\ \A i \in 1..n : e1[i] = e[i]
  BY AppendProperties
<1> HIDE DEF e1
<1>3. e2 \in Seq(S) /\ Len(e2) = n + 1 + 1 /\ e2[n + 1 + 1] = b
      /\ \A i \in 1..n + 1 : e2[i] = e1[i]
  BY <1>2, AppendProperties
<1> HIDE DEF e2
<1>4. e3 \in Seq(S) /\ Len(e3) = n + 1 + 1 + 1 /\ e3[n + 1 + 1 + 1] = c
      /\ \A i \in 1..n + 1 + 1 : e3[i] = e2[i]
  BY <1>3, AppendProperties
<1>5. w \in Seq(S) /\ Len(w) = 3 /\ w[1] = a /\ w[2] = b /\ w[3] = c
  OBVIOUS
<1> HIDE DEF e3, w
<1>6. /\ u \in Seq(S) /\ Len(u) = n + Len(w)
      /\ \A i \in 1..n + Len(w) : u[i] = IF i <= n THEN e[i] ELSE w[i - n]
  BY <1>5, ConcatProperties
<1> HIDE DEF n, u
<1>7. Len(u) = n + 3 /\ \A i \in 1..n + 3 : u[i] = IF i <= n THEN e[i] ELSE w[i - n]
  BY <1>5, <1>6
<1>8. \A i \in 1..n : u[i] = e3[i]
  BY <1>1, <1>2, <1>3, <1>4, <1>7
<1>9. u[n + 1] = a /\ u[n + 2] = b /\ u[n + 3] = c
  BY <1>1, <1>5, <1>7
<1>10. e3[n + 1] = a /\ e3[n + 2] = b /\ e3[n + 3] = c
  BY <1>1, <1>2, <1>3, <1>4
<1>11. \A i \in 1..n + 3 : u[i] = e3[i]
  BY <1>1, <1>8, <1>9, <1>10
<1>12. Len(u) = Len(e3)
  BY <1>1, <1>4, <1>7
<1>3a. u = e3
  BY <1>4, <1>6, <1>7, <1>11, <1>12, SeqEqual
<1>3b. QED BY <1>3a DEF u, w, e3, e2, e1

\* The fields of the signed envelope.
Signed(fields, y, r, s) ==
    Append(Append(Append(fields, FieldOf(BigEndian(y), FALSE)),
                  FieldOf(Significant(r), FALSE)), FieldOf(Significant(s), FALSE))

LEMMA ParityBytes ==
    ASSUME NEW y \in {0, 1}
    PROVE  /\ BigEndian(y) \in Seq(Byte) /\ Len(BigEndian(y)) = y
           /\ BigEndian(y) \in {<<>>, <<1>>}
<1>1. 1 <= UsizeMax /\ UsizeMax \in Nat
  BY CapacityAssumption, Room
<1>2. CASE y = 0
  <2> DEFINE b == <<>>
  <2>1. b \in Seq(Byte) /\ Len(b) = 0 /\ Len(b) <= 8 /\ b = <<>>
    OBVIOUS
  <2>2. Number(b) = 0 /\ Number(b) <= UsizeMax
    BY <1>1, NumberOfEmpty
  <2> HIDE DEF b
  <2>3. BigEndian(Number(b)) = b
    BY <2>1, <2>2, BigEndianOfNumber
  <2>4. BigEndian(y) = b
    BY <1>2, <2>2, <2>3
  <2>5. QED BY <1>2, <2>1, <2>4
<1>3. CASE y = 1
  <2>1. 1 \in Byte
    BY DEF Byte
  <2> DEFINE b == <<1>>
  <2>2. b \in Seq(Byte) /\ Len(b) = 1 /\ Len(b) <= 8 /\ b[1] # 0 /\ b = <<1>>
    BY <2>1
  <2>3. Number(b) = 1 /\ Number(b) <= UsizeMax
    BY <1>1, <2>1, NumberOfByte
  <2> HIDE DEF b
  <2>4. BigEndian(Number(b)) = b
    BY <2>2, <2>3, BigEndianOfNumber
  <2>5. BigEndian(y) = b
    BY <1>3, <2>3, <2>4
  <2>6. QED BY <1>3, <2>2, <2>5
<1>4. QED BY <1>2, <1>3


LEMMA OneMore ==
    ASSUME NEW S, NEW t \in Seq(S), NEW x \in S, NEW n \in Nat, Len(t) = n, NEW m, m = n + 1
    PROVE  /\ Append(t, x) \in Seq(S) /\ Len(Append(t, x)) = m /\ Append(t, x)[m] = x
           /\ \A i \in 1..n : Append(t, x)[i] = t[i]
BY AppendProperties

IsSigned(g, fields, y, r, s) ==
    /\ g \in Seq(Field) /\ Len(g) = 12
    /\ \A i \in 1..9 : g[i] = fields[i]
    /\ g[10] = FieldOf(BigEndian(y), FALSE)
    /\ g[11] = FieldOf(Significant(r), FALSE)
    /\ g[12] = FieldOf(Significant(s), FALSE)

LEMMA SignedList ==
    ASSUME NEW fields \in Seq(Field), Len(fields) = 9, NEW y \in {0, 1},
           NEW r \in Seq(Byte), NEW s \in Seq(Byte)
    PROVE  IsSigned(Signed(fields, y, r, s), fields, y, r, s)
<1> DEFINE a == FieldOf(BigEndian(y), FALSE)
           b == FieldOf(Significant(r), FALSE)
           c == FieldOf(Significant(s), FALSE)
           g1 == Append(fields, a)
           g2 == Append(g1, b)
           g3 == Append(g2, c)
<1>1. a \in Field
  BY ParityBytes, FieldOfIsField
<1>2. b \in Field /\ c \in Field
  BY SignificantProperties, FieldOfIsField
<1> HIDE DEF a, b, c
<1>3. g1 \in Seq(Field) /\ Len(g1) = 10 /\ g1[10] = a /\ \A i \in 1..9 : g1[i] = fields[i]
  <2> DEFINE n == 9
             m == 10
  <2>1. n \in Nat /\ m = n + 1 /\ Len(fields) = n
    BY <1>1
  <2> HIDE DEF n, m
  <2>2. /\ Append(fields, a) \in Seq(Field) /\ Len(Append(fields, a)) = m
        /\ Append(fields, a)[m] = a /\ \A i \in 1..n : Append(fields, a)[i] = fields[i]
    BY <1>1, <2>1, OneMore
  <2>3. QED BY <2>2 DEF n, m
<1> HIDE DEF g1
<1>4. g2 \in Seq(Field) /\ Len(g2) = 11 /\ g2[11] = b /\ \A i \in 1..10 : g2[i] = g1[i]
  <2> DEFINE n == 10
             m == 11
  <2>1. n \in Nat /\ m = n + 1 /\ Len(g1) = n
    BY <1>3
  <2> HIDE DEF n, m
  <2>2. /\ Append(g1, b) \in Seq(Field) /\ Len(Append(g1, b)) = m
        /\ Append(g1, b)[m] = b /\ \A i \in 1..n : Append(g1, b)[i] = g1[i]
    BY <1>2, <1>3, <2>1, OneMore
  <2>3. QED BY <2>2 DEF n, m
<1> HIDE DEF g2
<1>5. g3 \in Seq(Field) /\ Len(g3) = 12 /\ g3[12] = c /\ \A i \in 1..11 : g3[i] = g2[i]
  <2> DEFINE n == 11
             m == 12
  <2>1. n \in Nat /\ m = n + 1 /\ Len(g2) = n
    BY <1>4
  <2> HIDE DEF n, m
  <2>2. /\ Append(g2, c) \in Seq(Field) /\ Len(Append(g2, c)) = m
        /\ Append(g2, c)[m] = c /\ \A i \in 1..n : Append(g2, c)[i] = g2[i]
    BY <1>2, <1>4, <2>1, OneMore
  <2>3. QED BY <2>2 DEF n, m
<1> HIDE DEF g3
<1>6. /\ \A i \in 1..9 : g3[i] = fields[i]
      /\ g3[10] = a /\ g3[11] = b
  BY <1>3, <1>4, <1>5
<1>7. Signed(fields, y, r, s) = g3
  BY DEF Signed, g3, g2, g1, a, b, c
<1>8. QED BY <1>5, <1>6, <1>7 DEF IsSigned, a, b, c

LEMMA SignedEncoded ==
    ASSUME NEW fields \in Seq(Field), Len(fields) = 9, NEW y \in {0, 1},
           NEW r \in Seq(Byte), NEW s \in Seq(Byte)
    PROVE  LET e == Encodeds(Signed(fields, y, r, s))
               a == Encoding(BigEndian(y), FALSE)
               b == Encoding(Significant(r), FALSE)
               c == Encoding(Significant(s), FALSE)
           IN /\ SignedFieldsOf(fields, [y_parity |-> y, r |-> r, s |-> s]) = e
              /\ Joined(e) = ((Joined(Encodeds(fields)) \o a) \o b) \o c
<1> DEFINE fa == FieldOf(BigEndian(y), FALSE)
           fb == FieldOf(Significant(r), FALSE)
           fc == FieldOf(Significant(s), FALSE)
           a == Encoding(BigEndian(y), FALSE)
           b == Encoding(Significant(r), FALSE)
           c == Encoding(Significant(s), FALSE)
           g1 == Append(fields, fa)
           g2 == Append(g1, fb)
           g3 == Append(g2, fc)
           S == Seq(Byte)
           e == Encodeds(fields)
           e1 == Append(e, a)
           e2 == Append(e1, b)
           e3 == Append(e2, c)
<1>1. fa \in Field /\ fa.encoded = a /\ a \in S
  <2>1. BigEndian(y) \in Seq(Byte)
    BY ParityBytes
  <2>2. QED BY <2>1, FieldOfIsField, AnyEncoding DEF FieldOf
<1>2. fb \in Field /\ fb.encoded = b /\ b \in S
  <2>1. Significant(r) \in Seq(Byte)
    BY SignificantProperties
  <2>2. QED BY <2>1, FieldOfIsField, AnyEncoding DEF FieldOf
<1>3. fc \in Field /\ fc.encoded = c /\ c \in S
  <2>1. Significant(s) \in Seq(Byte)
    BY SignificantProperties
  <2>2. QED BY <2>1, FieldOfIsField, AnyEncoding DEF FieldOf
<1>4. SignedFieldsOf(fields, [y_parity |-> y, r |-> r, s |-> s]) = e \o <<a, b, c>>
  <2>1. RlpPushU64(y) = a
    BY NumberPushed
  <2>2. RlpPushIntegerBytes(r) = b /\ RlpPushIntegerBytes(s) = c
    BY DEF RlpPushIntegerBytes, Encoding
  <2>3. e = [i \in 1..9 |-> fields[i].encoded]
    BY DEF Encodeds
  <2> HIDE DEF a, b, c, e
  <2>4. QED BY <2>1, <2>2, <2>3 DEF SignedFieldsOf, UnsignedFields
<1>5. e \in Seq(S)
  BY EncodedsProperties
<1> HIDE DEF fa, fb, fc, a, b, c
<1>6. Encodeds(g1) = e1 /\ g1 \in Seq(Field)
  BY <1>1, EncodedsProperties, AppendProperties
<1> HIDE DEF g1
<1>7. Encodeds(g2) = Append(Encodeds(g1), fb.encoded) /\ g2 \in Seq(Field)
  BY <1>2, <1>6, EncodedsProperties, AppendProperties
<1> HIDE DEF g2
<1>8. Encodeds(g3) = Append(Encodeds(g2), fc.encoded)
  BY <1>3, <1>7, EncodedsProperties
<1> HIDE DEF g3
<1>9. Encodeds(g3) = e3
  BY <1>2, <1>3, <1>6, <1>7, <1>8
<1> HIDE DEF S, e
<1>10. e \o <<a, b, c>> = e3
  BY <1>1, <1>2, <1>3, <1>5, ThreeMore
<1>11. e1 \in Seq(S)
  BY <1>1, <1>5, AppendProperties
<1> HIDE DEF e1
<1>12. e2 \in Seq(S)
  BY <1>2, <1>11, AppendProperties
<1> HIDE DEF e2
<1>13. Joined(e1) = Joined(e) \o a
  BY <1>1, <1>5, JoinedAppend DEF S, e1
<1>14. Joined(e2) = Joined(e1) \o b
  BY <1>2, <1>11, JoinedAppend DEF S, e2
<1>15. Joined(e3) = Joined(e2) \o c
  BY <1>3, <1>12, JoinedAppend DEF S
<1>16. Joined(e3) = ((Joined(e) \o a) \o b) \o c
  BY <1>13, <1>14, <1>15
<1>17. Signed(fields, y, r, s) = g3
  BY DEF Signed, g3, g2, g1, fa, fb, fc
<1> HIDE DEF e3
<1>18. QED BY <1>4, <1>9, <1>10, <1>16, <1>17 DEF a, b, c, e

\* A half of a signature is written without its leading zeros and padded again.
LEMMA HalfPadded ==
    ASSUME NEW r \in Seq(Byte), Len(r) = IntBytes, ~IsZero(r)
    PROVE  LET w == Significant(r)
           IN w \in Seq(Byte) /\ IsScalar(w) /\ w # <<>> /\ LeftPad(w) = r
<1> DEFINE w == Significant(r)
<1>1. w # <<>>
  BY ZeroSignificant
<1>2. w \in Seq(Byte) /\ w[1] # 0
  BY <1>1, SignificantProperties
<1>3. PICK k \in 0..Len(r) : Len(w) = Len(r) - k /\ r = Zeros(k) \o w
  BY SignificantProperties
<1> HIDE DEF w
<1>4. IntBytes \in Nat
  BY Room
<1>5. Len(w) <= IntBytes /\ IntBytes - Len(w) = k
  BY <1>3, <1>4
<1>6. LeftPad(w) = r
  BY <1>3, <1>5 DEF LeftPad, Zeros
<1>7. IsScalar(w)
  BY <1>2, <1>5 DEF IsScalar
<1>8. QED BY <1>1, <1>2, <1>6, <1>7 DEF w


LEMMA HalfLength ==
    ASSUME NEW r \in Seq(Byte), Len(r) = IntBytes, ~IsZero(r)
    PROVE  LET e == Encoding(Significant(r), FALSE)
           IN e \in Seq(Byte) /\ Len(e) \in Nat /\ Len(e) <= IntBytes + 1
<1> DEFINE w == Significant(r)
           k == Len(w)
<1>1. w \in Seq(Byte) /\ k <= IntBytes
  BY HalfPadded DEF IsScalar
<1> HIDE DEF w
<1>2. k \in Nat
  BY <1>1, LenProperties
<1>3. IntBytes \in Nat /\ IntBytes <= 32 /\ 2 * IntBytes + 8 <= MaxUnsigned
      /\ MaxUnsigned + 2 * IntBytes + 11 <= MaxSigned /\ MaxUnsigned \in Nat /\ MaxSigned \in Nat
  BY BytesAssumption, CapacityAssumption
<1> HIDE DEF k
<1>4. k <= MaxSigned /\ k < 56
  BY <1>1, <1>2, <1>3
<1>5. IsLength(k)
  BY <1>2, <1>4, EnvelopeLengths
<1> DEFINE l == FALSE
<1>6. l \in BOOLEAN /\ ~l
  OBVIOUS
<1> HIDE DEF l
<1>7. Encoding(w, l) \in Seq(Byte) /\ Len(Encoding(w, l)) <= k + 1
  BY <1>1, <1>4, <1>5, <1>6, EncodingProperties DEF k
<1>8. Len(Encoding(w, l)) \in Nat
  BY <1>7, LenProperties
<1>9. Len(Encoding(w, l)) <= IntBytes + 1
  BY <1>1, <1>2, <1>3, <1>7, <1>8 DEF k
<1>10. QED BY <1>7, <1>8, <1>9 DEF l, w

LEMMA ParityLength ==
    ASSUME NEW y \in {0, 1}
    PROVE  LET e == Encoding(BigEndian(y), FALSE)
           IN e \in Seq(Byte) /\ Len(e) \in Nat /\ Len(e) <= 2
<1> DEFINE w == BigEndian(y)
           k == Len(w)
<1>1. w \in Seq(Byte) /\ k = y
  BY ParityBytes
<1> HIDE DEF w, k
<1>2. k \in Nat /\ k <= 1 /\ k < 56
  BY <1>1
<1>3. MaxSigned \in Nat /\ 1 <= MaxSigned
  BY CapacityAssumption, Room
<1>4. IsLength(k)
  BY <1>2, <1>3, EnvelopeLengths
<1> DEFINE l == FALSE
<1>5. l \in BOOLEAN /\ ~l
  OBVIOUS
<1> HIDE DEF l
<1>6. Encoding(w, l) \in Seq(Byte) /\ Len(Encoding(w, l)) <= k + 1
  BY <1>1, <1>2, <1>4, <1>5, EncodingProperties DEF k
<1>7. Len(Encoding(w, l)) \in Nat
  BY <1>6, LenProperties
<1>8. Len(Encoding(w, l)) <= 2
  BY <1>2, <1>6, <1>7
<1>9. QED BY <1>6, <1>7, <1>8 DEF l, w

\* The signed envelope fits its buffer and is read back.
LEMMA SignedEnvelope ==
    ASSUME NEW fields \in Seq(Field), Len(fields) = 9,
           Len(Envelope(Joined(Encodeds(fields)))) <= MaxUnsigned,
           NEW y \in {0, 1},
           NEW r \in Seq(Byte), Len(r) = IntBytes, ~IsZero(r),
           NEW s \in Seq(Byte), Len(s) = IntBytes, ~IsZero(s)
    PROVE  LET g == Signed(fields, y, r, s)
               x == Envelope(Joined(Encodeds(g)))
           IN Len(x) <= MaxSigned /\ ParseTypedList(x, 12) = Read(g, 12)
<1> DEFINE g == Signed(fields, y, r, s)
           body == Joined(Encodeds(fields))
           a == Encoding(BigEndian(y), FALSE)
           b == Encoding(Significant(r), FALSE)
           c == Encoding(Significant(s), FALSE)
           z == Joined(Encodeds(g))
           x == Envelope(z)
           m == Len(z)
<1>1. g \in Seq(Field) /\ Len(g) = 12
  BY SignedList DEF IsSigned
<1>2. z = ((body \o a) \o b) \o c
  BY SignedEncoded
<1>3. a \in Seq(Byte) /\ Len(a) \in Nat /\ Len(a) <= 2
  BY ParityLength
<1>4. b \in Seq(Byte) /\ Len(b) \in Nat /\ Len(b) <= IntBytes + 1
  BY HalfLength
<1>5. c \in Seq(Byte) /\ Len(c) \in Nat /\ Len(c) <= IntBytes + 1
  BY HalfLength
<1>6. body \in Seq(Byte)
  BY EncodedsProperties, JoinedIsBytes
<1>7. Len(body) \in Nat /\ Len(body) + 2 <= MaxUnsigned
  <2> DEFINE k == Len(body)
             n == Len(Envelope(body))
  <2>1. k + 2 <= n /\ n <= MaxUnsigned
    BY <1>6, BodyWithin
  <2>2. k \in Nat /\ n \in Nat
    BY <1>6, EnvelopeForm, LenProperties
  <2> HIDE DEF k, n
  <2>3. k + 2 <= MaxUnsigned
    BY <2>1, <2>2, Room
  <2>4. QED BY <2>2, <2>3 DEF k
<1> HIDE DEF a, b, c, body, z
<1>8. z \in Seq(Byte) /\ m = Len(body) + Len(a) + Len(b) + Len(c)
  <2>1. body \o a \in Seq(Byte) /\ Len(body \o a) = Len(body) + Len(a)
    BY <1>3, <1>6, ConcatProperties
  <2>2. (body \o a) \o b \in Seq(Byte) /\ Len((body \o a) \o b) = Len(body \o a) + Len(b)
    BY <1>4, <2>1, ConcatProperties
  <2>3. z \in Seq(Byte) /\ Len(z) = Len((body \o a) \o b) + Len(c)
    BY <1>2, <1>5, <2>2, ConcatProperties
  <2>4. QED BY <2>1, <2>2, <2>3
<1>9. /\ m \in Nat /\ m + 5 <= MaxSigned /\ m <= MaxSigned
  <2>1. MaxUnsigned + 2 * IntBytes + 11 <= MaxSigned /\ MaxSigned \in Nat
    BY CapacityAssumption
  <2>2. IntBytes \in Nat /\ MaxUnsigned \in Nat
    BY Room
  <2> DEFINE la == Len(a)
             lb == Len(b)
             lc == Len(c)
             k == Len(body)
  <2>3. /\ m = k + la + lb + lc /\ k \in Nat /\ la \in Nat /\ lb \in Nat /\ lc \in Nat
        /\ la <= 2 /\ lb <= IntBytes + 1 /\ lc <= IntBytes + 1 /\ k + 2 <= MaxUnsigned
    BY <1>3, <1>4, <1>5, <1>7, <1>8
  <2> HIDE DEF la, lb, lc, k, m
  <2>4. QED BY <2>1, <2>2, <2>3
<1>10. IsLength(m)
  BY <1>9, EnvelopeLengths
<1>11. Len(x) <= MaxSigned
  <2> DEFINE l == TRUE
             k == Len(Encoding(z, l))
             n == Len(x)
  <2>1. l \in BOOLEAN
    OBVIOUS
  <2>2. n = 1 + k
    BY <1>8, EnvelopeForm
  <2> HIDE DEF l
  <2>3. k \in m..m + 4
    BY <1>8, <1>10, <2>1, EncodingProperties
  <2> HIDE DEF k, n
  <2>4. n <= MaxSigned
    <3>1. MaxSigned \in Nat
      BY CapacityAssumption
    <3> HIDE DEF m
    <3>2. QED BY <1>9, <2>2, <2>3, <3>1
  <2>5. QED BY <2>4 DEF n
<1>12. ParseTypedList(x, 12) = Read(g, 12)
  <2> HIDE DEF g
  <2>1. ParseTypedList(Envelope(Joined(Encodeds(g))), Len(g)) = Read(g, Len(g))
    BY <1>1, <1>10, EnvelopeWritten DEF z
  <2>2. QED BY <1>1, <2>1 DEF z
<1>13. QED BY <1>11, <1>12 DEF z


\* What the signed envelope is read back to.
LEMMA SignatureCarried ==
    ASSUME NEW fields \in Seq(Field), Len(fields) = 9, NEW y \in {0, 1},
           NEW r \in Seq(Byte), Len(r) = IntBytes, ~IsZero(r),
           NEW s \in Seq(Byte), Len(s) = IntBytes, ~IsZero(s)
    PROVE  SignatureIn(Read(Signed(fields, y, r, s), 12))
             = Read([y_parity |-> y, r |-> r, s |-> s], SignedFields)
<1> DEFINE g == Signed(fields, y, r, s)
           list == Read(g, 12)
           payload(i) == list.value[i].value.payload
           u == Significant(r)
           v == Significant(s)
           p == BigEndian(y)
<1>1. list.ok /\ list.value = g
  BY DEF Read
<1>2. g[10] = FieldOf(p, FALSE) /\ g[11] = FieldOf(u, FALSE) /\ g[12] = FieldOf(v, FALSE)
  <2>1. IsSigned(g, fields, y, r, s)
    BY SignedList
  <2> HIDE DEF g, p, u, v
  <2>2. QED BY <2>1 DEF IsSigned, p, u, v
<1> HIDE DEF g, list
<1>3. payload(10) = p /\ payload(11) = u /\ payload(12) = v
  BY <1>1, <1>2 DEF FieldOf
<1>4. IsScalar(u) /\ u # <<>> /\ LeftPad(u) = r
  BY HalfPadded
<1>5. IsScalar(v) /\ v # <<>> /\ LeftPad(v) = s
  BY HalfPadded
<1>6. p \in Seq(Byte) /\ Len(p) = y /\ p \in {<<>>, <<1>>}
  BY ParityBytes
<1> HIDE DEF p, u, v
<1>7. IsScalar(p)
  <2>1. Len(p) <= IntBytes
    BY <1>6, Room
  <2>2. p # <<>> => p[1] # 0
    BY <1>6
  <2>3. QED BY <2>1, <2>2 DEF IsScalar
<1>8. \A i \in 10..12 : IsScalar(payload(i))
  <2>1. \A i \in 10..12 : i = 10 \/ i = 11 \/ i = 12
    OBVIOUS
  <2>2. QED BY <1>3, <1>4, <1>5, <1>7, <2>1, Zenon
<1>9. SignatureIn(list) = Read([y_parity |-> Len(payload(10)), r |-> LeftPad(payload(11)),
                                s |-> LeftPad(payload(12))], SignedFields)
  BY <1>1, <1>3, <1>4, <1>5, <1>6, <1>8 DEF SignatureIn
<1>10. SignatureIn(list) = Read([y_parity |-> y, r |-> r, s |-> s], SignedFields)
  BY <1>3, <1>4, <1>5, <1>6, <1>9
<1>11. QED BY <1>10 DEF list, g

LEMMA EnvelopeCarries ==
    ASSUME input \in Seq(Byte), Len(input) <= MaxUnsigned, ParseTypedList(input, 9).ok,
           NEW y \in {0, 1},
           NEW r \in Seq(Byte), Len(r) = IntBytes, ~IsZero(r),
           NEW s \in Seq(Byte), Len(s) = IntBytes, ~IsZero(s)
    PROVE  LET sig == [y_parity |-> y, r |-> r, s |-> s]
           IN Carries(FinalizeEip1559(input, sig), sig)
<1> DEFINE sig == [y_parity |-> y, r |-> r, s |-> s]
           signed == FinalizeEip1559(input, sig)
<1>1. 9 \in Nat
  OBVIOUS
<1>2. PICK fields \in Seq(Field) :
            /\ Len(fields) = 9 /\ ParseTypedList(input, 9) = Read(fields, 9)
            /\ input = Envelope(Joined(Encodeds(fields)))
  BY <1>1, EnvelopeRead
<1> DEFINE g == Signed(fields, y, r, s)
           z == Envelope(Joined(Encodeds(g)))
<1>3. SignedFieldsOf(fields, sig) = Encodeds(g)
  BY <1>2, SignedEncoded
<1>4. Len(z) <= MaxSigned /\ ParseTypedList(z, 12) = Read(g, 12)
  BY <1>2, SignedEnvelope
<1>5. SignatureIn(Read(g, 12)) = Read(sig, SignedFields)
  BY <1>2, SignatureCarried
<1>6. g \in Seq(Field) /\ Len(g) = 12 /\ \A i \in 1..9 : g[i] = fields[i]
  <2>1. IsSigned(g, fields, y, r, s)
    BY <1>2, SignedList
  <2> HIDE DEF g
  <2>2. QED BY <2>1 DEF IsSigned
<1>7. ParseTypedList(input, UnsignedFields).value = fields
  BY <1>2 DEF UnsignedFields, Read
<1> HIDE DEF g, z
<1>8. signed = Read(z, Len(z))
  <2>1. signed = Bounded(z)
    BY <1>3, <1>7 DEF FinalizeEip1559, z
  <2>2. Len(z) \in Nat /\ MaxSigned \in Nat
    <3>1. Encodeds(g) \in Seq(Seq(Byte))
      BY <1>6, EncodedsProperties
    <3>2. Joined(Encodeds(g)) \in Seq(Byte)
      BY <3>1, JoinedIsBytes
    <3>3. z \in Seq(Byte)
      BY <3>2, EnvelopeForm DEF z
    <3>4. QED BY <3>3, LenProperties, CapacityAssumption
  <2>3. ~(Len(z) > MaxSigned)
    BY <1>4, <2>2
  <2>4. QED BY <2>1, <2>3, Zenon DEF Bounded
<1> HIDE DEF signed, sig
<1>9. signed.ok /\ signed.value = z
  BY <1>8 DEF Read
<1>10. ParseTypedList(z, SignedFields) = Read(g, 12)
  BY <1>4 DEF SignedFields
<1>11. SignatureFromSigned(signed.value) = Read(sig, SignedFields)
  BY <1>5, <1>9, <1>10 DEF SignatureFromSigned
<1>12. SubSeq(g, 1, UnsignedFields) = fields
  <2> DEFINE t == SubSeq(g, 1, 9)
             S == Field
  <2>1. 1 \in 1..Len(g) + 1 /\ 9 \in (1 - 1)..Len(g) /\ 9 + 1 - 1 = 9
        /\ \A k \in 1..9 : 1 - 1 + k = k
    BY <1>6
  <2> HIDE DEF S
  <2>2. g \in Seq(S) /\ fields \in Seq(S)
    BY <1>2, <1>6 DEF S
  <2>3. t \in Seq(S) /\ Len(t) = 9 /\ \A k \in 1..9 : t[k] = g[k]
    BY <2>1, <2>2, PartProperties
  <2> HIDE DEF t
  <2>4. t = fields
    <3>1. Len(t) = Len(fields) /\ \A k \in 1..Len(t) : t[k] = fields[k]
      BY <1>2, <1>6, <2>3
    <3>2. QED BY <2>2, <2>3, <3>1, SeqEqual
  <2>5. QED BY <2>4 DEF t, UnsignedFields
<1>13. SubSeq(ParseTypedList(signed.value, SignedFields).value, 1, UnsignedFields)
         = ParseTypedList(input, UnsignedFields).value
  BY <1>7, <1>9, <1>10, <1>12 DEF Read
<1>14. QED BY <1>9, <1>11, <1>13 DEF Carries, signed, sig

LEMMA AcceptedIsList ==
    ASSUME NEW x, ParseEip1559(x, AddressBytes).ok
    PROVE  ParseTypedList(x, 9).ok
<1> DEFINE list == ParseTypedList(x, UnsignedFields)
<1>1. list.ok \/ TransferIn(list, AddressBytes) = Failure
  BY Zenon DEF TransferIn
<1>2. ~Failure.ok
  BY DEF Failure
<1>3. list.ok
  BY <1>1, <1>2 DEF ParseEip1559
<1>4. QED BY <1>3 DEF UnsignedFields

\* What the user reviews is what the host encoded, and the signed envelope of
\* every transaction the parser accepts fits its buffer and carries the reviewed
\* fields and the very signature.
THEOREM EnvelopeTheorem == Spec => []SignedEnvelopeIsReviewed
<1>1. WireInv => SignedEnvelopeIsReviewed
  <2> SUFFICES ASSUME WireInv PROVE SignedEnvelopeIsReviewed
    OBVIOUS
  <2> DEFINE transfer == ParseEip1559(input, AddressBytes)
  <2>1. written.format = "Transfer" =>
            /\ transfer.ok
            /\ \A i \in 1..6 : transfer.value.scalars[i] = BigEndian(written.scalars[i])
    BY TransferReviewed
  <2>2. ASSUME transfer.ok, NEW y \in {0, 1}, NEW r \in Scalars, NEW s \in Scalars,
               ~IsZero(r), ~IsZero(s)
        PROVE  LET sig == [y_parity |-> y, r |-> r, s |-> s]
               IN Carries(FinalizeEip1559(input, sig), sig)
    <3>1. input \in Seq(Byte) /\ Len(input) <= MaxUnsigned
      BY DEF WireInv
    <3>2. ParseTypedList(input, 9).ok
      BY <2>2, AcceptedIsList
    <3>3. r \in Seq(Byte) /\ Len(r) = IntBytes /\ s \in Seq(Byte) /\ Len(s) = IntBytes
      BY ScalarIsBytes
    <3>4. QED BY <2>2, <3>1, <3>2, <3>3, EnvelopeCarries
  <2> HIDE DEF transfer
  <2>3. transfer.ok =>
            \A y \in {0, 1}, r, s \in {x \in Scalars : ~IsZero(x)} :
               LET sig == [y_parity |-> y, r |-> r, s |-> s]
               IN Carries(FinalizeEip1559(input, sig), sig)
    BY <2>2
  <2>4. QED BY <2>1, <2>3 DEF SignedEnvelopeIsReviewed, transfer
<1>2. QED BY <1>1, WireInductive, PTL
=============================================================================

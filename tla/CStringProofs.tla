---------------------------- MODULE CStringProofs ----------------------------
(***************************************************************************)
(* What the operators on strings return.                                   *)
(***************************************************************************)
EXTENDS CString, FiniteSetTheorems, SequenceTheorems, WellFoundedInduction, TLAPS

\* Natural numbers are well ordered.
LEMMA LeastNumber ==
  ASSUME NEW S \in SUBSET Nat, S # {}
  PROVE  \E n \in S : \A m \in S : n <= m
<1> DEFINE R == {ss \in Nat \X Nat : ss[1] < ss[2]}
<1>1. \A a, b \in Nat : <<a, b>> \in R <=> a < b
  OBVIOUS
<1>2. IsWellFoundedOn(R, Nat)
  BY NatLessThanWellFounded DEF OpToRel
<1> HIDE DEF R
<1>3. PICK n \in S : \A m \in S : ~(<<m, n>> \in R)
  BY <1>2, WFMin
<1>4. ASSUME NEW m \in S PROVE n <= m
  <2>1. n \in Nat /\ m \in Nat /\ ~(m < n)
    BY <1>1, <1>3
  <2> QED
    BY <2>1
<1> QED
  BY <1>4

\* There is a first of the characters at which a string is to end, or none.
LEMMA BeforeFinds ==
  ASSUME NEW C, NEW s \in Seq(C), NEW stop
  PROVE  /\ Before(s, stop) \in 0 .. Len(s)
         /\ \A i \in 1 .. Before(s, stop) : s[i] \notin stop
         /\ Before(s, stop) < Len(s) => s[Before(s, stop) + 1] \in stop
<1> DEFINE P(n) == /\ \A i \in 1 .. n : s[i] \notin stop
                   /\ n < Len(s) => s[n + 1] \in stop
           S == {n \in 0 .. Len(s) : n < Len(s) => s[n + 1] \in stop}
<1>1. Len(s) \in Nat
  OBVIOUS
<1>2. S \in SUBSET Nat /\ S # {}
  BY <1>1
<1>3. PICK n \in S : \A m \in S : n <= m
  BY <1>2, LeastNumber
<1>4. ASSUME NEW i \in 1 .. n PROVE s[i] \notin stop
  <2>1. i - 1 \in 0 .. Len(s) /\ i - 1 < n /\ i - 1 + 1 = i
    BY <1>1, <1>3
  <2>2. n \in Nat /\ i - 1 \in Nat /\ ~(n <= i - 1)
    BY <1>1, <1>3, <2>1
  <2>3. i - 1 \notin S
    BY <1>3, <2>2
  <2> QED
    BY <2>1, <2>3
<1>5. n \in 0 .. Len(s) /\ P(n)
  BY <1>3, <1>4
<1> QED
  BY <1>5 DEF Before

LEMMA UptoType ==
  ASSUME NEW C, NEW s \in Seq(C), NEW n \in 0 .. Len(s)
  PROVE  /\ Upto(s, n) \in Seq(C)
         /\ Len(Upto(s, n)) = n
         /\ \A i \in 1 .. n : Upto(s, n)[i] = s[i]
<1>1. Len(s) \in Nat /\ \A i \in 1 .. n : s[i] \in C
  BY LenProperties
<1> QED
  BY <1>1, SubSeqProperties DEF Upto

LEMMA AfterType ==
  ASSUME NEW C, NEW s \in Seq(C), NEW n \in Nat
  PROVE  /\ After(s, n) \in Seq(C)
         /\ Len(After(s, n)) = IF n <= Len(s) THEN Len(s) - n ELSE 0
         /\ \A i \in 1 .. Len(s) - n : After(s, n)[i] = s[n + i]
<1>1. Len(s) \in Nat /\ \A i \in n + 1 .. Len(s) : s[i] \in C
  BY LenProperties
<1>2. /\ SubSeq(s, n + 1, Len(s)) \in Seq(C)
      /\ Len(SubSeq(s, n + 1, Len(s)))
           = IF n + 1 <= Len(s) THEN Len(s) - (n + 1) + 1 ELSE 0
      /\ \A i \in 1 .. Len(s) - (n + 1) + 1 : SubSeq(s, n + 1, Len(s))[i] = s[n + 1 + i - 1]
  BY <1>1, SubSeqProperties
<1>3. Len(s) - (n + 1) + 1 = Len(s) - n /\ \A i \in Int : n + 1 + i - 1 = n + i
  BY <1>1
<1> QED
  BY <1>1, <1>2, <1>3 DEF After

\* A string that agrees with another from a place on is that part of it.
LEMMA PartOf ==
  ASSUME NEW C, NEW s \in Seq(C), NEW w \in Seq(C), NEW a \in Nat,
         a + Len(w) <= Len(s),
         \A i \in 1 .. Len(w) : w[i] = s[a + i]
  PROVE  w = SubSeq(s, a + 1, a + Len(w))
<1> DEFINE n == Len(w)
           v == SubSeq(s, a + 1, a + n)
<1>1. n \in Nat /\ Len(s) \in Nat /\ \A i \in 1 .. Len(s) : s[i] \in C
  BY LenProperties
<1> HIDE DEF n
<1>2. /\ a + 1 \in Int /\ a + n \in Int
      /\ \A i \in a + 1 .. a + n : i \in 1 .. Len(s)
  BY <1>1 DEF n
<1>3. /\ v \in Seq(C)
      /\ Len(v) = IF a + 1 <= a + n THEN a + n - (a + 1) + 1 ELSE 0
      /\ \A i \in 1 .. a + n - (a + 1) + 1 : v[i] = s[a + 1 + i - 1]
  BY <1>1, <1>2, SubSeqProperties
<1> HIDE DEF v
<1>4. /\ a + n - (a + 1) + 1 = n /\ (~(a + 1 <= a + n) => n = 0)
      /\ \A i \in 1 .. n : a + 1 + i - 1 = a + i
  BY <1>1
<1>5. Len(v) = n
  BY <1>3, <1>4
<1>6. \A i \in 1 .. n : v[i] = w[i]
  BY <1>3, <1>4 DEF n
<1> QED
  BY <1>3, <1>5, <1>6, SeqEqual DEF n, v

LEMMA AfterNone ==
  ASSUME NEW C, NEW s \in Seq(C)
  PROVE  After(s, 0) = s
<1>1. Len(s) \in Nat /\ 0 <= Len(s) /\ Len(s) - 0 = Len(s)
  OBVIOUS
<1>2. /\ After(s, 0) \in Seq(C) /\ Len(After(s, 0)) = Len(s)
      /\ \A i \in 1 .. Len(s) - 0 : After(s, 0)[i] = s[0 + i]
  BY <1>1, AfterType
<1>3. ASSUME NEW i \in 1 .. Len(s) PROVE After(s, 0)[i] = s[i]
  <2>1. i \in 1 .. Len(s) - 0 /\ 0 + i = i
    BY <1>1
  <2> QED
    BY <1>2, <2>1
<1> QED
  BY <1>2, <1>3, SeqEqual

LEMMA TailAfter ==
  ASSUME NEW C, NEW s \in Seq(C), s # <<>>
  PROVE  Tail(s) = After(s, 1)
<1>1. Len(s) \in Nat /\ Len(s) > 0
  BY EmptySeq
<1>2. /\ Tail(s) \in Seq(C) /\ Len(Tail(s)) = Len(s) - 1
      /\ \A i \in 1 .. Len(s) - 1 : Tail(s)[i] = s[i + 1]
  BY HeadTailProperties
<1>3. /\ After(s, 1) \in Seq(C) /\ Len(After(s, 1)) = Len(s) - 1
      /\ \A i \in 1 .. Len(s) - 1 : After(s, 1)[i] = s[1 + i]
  BY <1>1, AfterType
<1>4. \A i \in 1 .. Len(s) - 1 : i + 1 = 1 + i
  BY <1>1
<1> QED
  BY <1>2, <1>3, <1>4, SeqEqual

LEMMA EmptyString ==
  ASSUME NEW C, NEW s \in Seq(C)
  PROVE  s = <<>> <=> Len(s) = 0
  BY EmptySeq

LEMMA Fewer ==
  ASSUME NEW L \in Nat, NEW W \in Nat, NEW k \in Nat, NEW n \in Nat,
         W <= L, n = W - k - 1, W < L \/ k > 0
  PROVE  n + 2 <= L
  OBVIOUS

LEMMA AppendType ==
  ASSUME NEW S, NEW s \in Seq(S), NEW e \in S
  PROVE  Append(s, e) \in Seq(S)
  OBVIOUS

LEMMA AfterAfter ==
  ASSUME NEW C, NEW s \in Seq(C), NEW k \in Nat, NEW m \in Nat, k + m <= Len(s)
  PROVE  After(After(s, k), m) = After(s, k + m)
<1>1. Len(s) \in Nat /\ k <= Len(s) /\ k + m \in Nat
  OBVIOUS
<1>2. /\ After(s, k) \in Seq(C)
      /\ Len(After(s, k)) = Len(s) - k
      /\ \A i \in 1 .. Len(s) - k : After(s, k)[i] = s[k + i]
  BY <1>1, AfterType
<1> DEFINE u == After(s, k)
           v == After(u, m)
           w == After(s, k + m)
<1>3. /\ v \in Seq(C)
      /\ Len(v) = IF m <= Len(u) THEN Len(u) - m ELSE 0
      /\ \A i \in 1 .. Len(u) - m : v[i] = u[m + i]
  BY <1>2, AfterType
<1>4. /\ w \in Seq(C)
      /\ Len(w) = Len(s) - (k + m)
      /\ \A i \in 1 .. Len(s) - (k + m) : w[i] = s[k + m + i]
  BY <1>1, AfterType
<1> HIDE DEF v, w
<1>5. Len(v) = Len(w)
  BY <1>1, <1>2, <1>3, <1>4
<1>6. ASSUME NEW i \in 1 .. Len(v) PROVE v[i] = w[i]
  <2>1. m + i \in 1 .. Len(s) - k /\ i \in 1 .. Len(u) - m /\ i \in 1 .. Len(s) - (k + m)
    BY <1>1, <1>2, <1>3
  <2>2. v[i] = s[k + (m + i)] /\ w[i] = s[k + m + i]
    BY <1>2, <1>3, <1>4, <2>1
  <2>3. k + (m + i) = k + m + i
    BY <2>1
  <2> QED
    BY <2>2, <2>3
<1>7. v \in Seq(C) /\ w \in Seq(C)
  BY <1>3, <1>4
<1> QED
  BY <1>5, <1>6, <1>7, SeqEqual DEF v, w

\* What Before(), Upto() and After() cut off a pointer into a string, as a part of
\* the string: n characters, of which none is a stop, and what follows the stop.
LEMMA PieceAt ==
  ASSUME NEW C, NEW s \in Seq(C), NEW q \in 0 .. Len(s), NEW stop,
         NEW u, u = After(s, q),
         NEW n, n = Before(u, stop)
  PROVE  /\ n \in Nat /\ q + n <= Len(s)
         /\ \A i \in q + 1 .. q + n : s[i] \notin stop
         /\ q + n < Len(s) => s[q + n + 1] \in stop
         /\ Upto(u, n) \in Seq(C) /\ Len(Upto(u, n)) = n
         /\ Upto(u, n) = SubSeq(s, q + 1, q + n)
         /\ After(u, n) = After(s, q + n)
         /\ After(u, n + 1) = After(s, IF q + n + 1 <= Len(s) THEN q + n + 1 ELSE Len(s))
<1> DEFINE L == Len(s)
<1>1. L \in Nat /\ q \in Nat /\ q <= L
  OBVIOUS
<1>2. /\ u \in Seq(C) /\ Len(u) = L - q
      /\ \A i \in 1 .. L - q : u[i] = s[q + i]
  BY <1>1, AfterType
<1>3. /\ n \in 0 .. Len(u)
      /\ \A i \in 1 .. n : u[i] \notin stop
      /\ n < Len(u) => u[n + 1] \in stop
  BY <1>2, BeforeFinds
<1>4. n \in Nat /\ q + n <= L
  <2>1. Len(u) = L - q
    BY <1>2
  <2>2. n \in 0 .. L - q
    BY <1>3, <2>1
  <2> HIDE DEF L
  <2> QED
    BY <1>1, <2>2
<1>5. ASSUME NEW i \in q + 1 .. q + n PROVE s[i] \notin stop
  <2>1. i - q \in 1 .. n /\ i - q \in 1 .. L - q /\ q + (i - q) = i
    BY <1>1, <1>4
  <2> QED
    BY <1>2, <1>3, <2>1
<1>6. q + n < L => s[q + n + 1] \in stop
  <2> SUFFICES ASSUME q + n < L PROVE s[q + n + 1] \in stop
    OBVIOUS
  <2>1. n < Len(u) /\ n + 1 \in 1 .. L - q /\ q + (n + 1) = q + n + 1
    BY <1>1, <1>2, <1>4
  <2> QED
    BY <1>2, <1>3, <2>1
<1>7. /\ Upto(u, n) \in Seq(C) /\ Len(Upto(u, n)) = n
      /\ \A i \in 1 .. n : Upto(u, n)[i] = u[i]
  <2>1. u \in Seq(C) /\ n \in 0 .. Len(u)
    BY <1>2, <1>3
  <2> QED
    BY <2>1, UptoType
<1>8. Upto(u, n) = SubSeq(s, q + 1, q + n)
  <2> DEFINE w == Upto(u, n)
  <2>1. \A i \in 1 .. n : i \in 1 .. L - q
    BY <1>1, <1>4
  <2>2. w \in Seq(C) /\ Len(w) = n /\ \A i \in 1 .. n : w[i] = s[q + i]
    BY <1>2, <1>7, <2>1
  <2> HIDE DEF w
  <2>3. w = SubSeq(s, q + 1, q + Len(w))
    BY <1>1, <1>4, <2>2, PartOf
  <2> QED
    BY <2>2, <2>3 DEF w
<1>9. After(u, n) = After(s, q + n)
  BY <1>1, <1>4, AfterAfter
<1>10. CASE q + n + 1 <= L
  <2>1. n + 1 \in Nat /\ q + (n + 1) <= L /\ q + (n + 1) = q + n + 1
    BY <1>1, <1>4, <1>10
  <2>2. After(u, n + 1) = After(s, q + n + 1)
    BY <1>1, <2>1, AfterAfter
  <2> QED
    BY <1>4, <1>5, <1>6, <1>7, <1>8, <1>9, <1>10, <2>2
<1>11. CASE ~(q + n + 1 <= L)
  <2>1. n + 1 \in Nat /\ ~(n + 1 <= Len(u)) /\ L - L = 0
    BY <1>1, <1>2, <1>4, <1>11
  <2>2. After(u, n + 1) \in Seq(C) /\ Len(After(u, n + 1)) = 0
    BY <1>2, <2>1, AfterType
  <2>3. After(s, L) \in Seq(C) /\ Len(After(s, L)) = 0
    BY <1>1, <2>1, AfterType
  <2>4. After(u, n + 1) = After(s, L)
    BY <2>2, <2>3, EmptyString
  <2> QED
    BY <1>4, <1>5, <1>6, <1>7, <1>8, <1>9, <1>11, <2>4
<1> QED
  BY <1>10, <1>11

-----------------------------------------------------------------------------
(* Numbering places in their order.                                        *)

LEMMA CountedType ==
  ASSUME NEW F, IsFiniteSet(F), NEW n
  PROVE  /\ IsFiniteSet({f \in F : f <= n})
         /\ Counted(F, n) \in Nat
<1>1. IsFiniteSet({f \in F : f <= n})
  BY FS_Subset
<1> QED
  BY <1>1, FS_CardinalityType DEF Counted

\* Each place that is not beyond n has a number up to that of all these places.
LEMMA CountedNumber ==
  ASSUME NEW F \in SUBSET Nat, IsFiniteSet(F), NEW n \in Nat, NEW f \in F, f <= n
  PROVE  Counted(F, f) \in 1 .. Counted(F, n)
<1> DEFINE B == {g \in F : g <= f}
           N == {g \in F : g <= n}
<1>1. IsFiniteSet(N) /\ Counted(F, f) \in Nat /\ Counted(F, n) \in Nat
  BY CountedType
<1>2. B \subseteq N /\ B # {}
  <2>1. \A g \in F : g <= f => g <= n
    OBVIOUS
  <2>2. f \in B
    OBVIOUS
  <2> QED
    BY <2>1, <2>2
<1>3. IsFiniteSet(B) /\ Cardinality(B) <= Cardinality(N)
  <2> HIDE DEF B, N
  <2> QED
    BY <1>1, <1>2, FS_Subset
<1>4. Cardinality(B) # 0
  BY <1>2, <1>3, FS_EmptySet
<1>5. Counted(F, f) = Cardinality(B) /\ Counted(F, n) = Cardinality(N)
  BY DEF Counted
<1> HIDE DEF B, N
<1> QED
  BY <1>1, <1>3, <1>4, <1>5

\* The place that is found next has the next number.
LEMMA CountedNext ==
  ASSUME NEW F \in SUBSET Nat, IsFiniteSet(F), NEW k \in Nat, NEW e \in Nat,
         NEW f \in F, k < f, f <= e,
         \A g \in F : g <= e => g <= k \/ g = f
  PROVE  /\ Counted(F, f) = Counted(F, k) + 1
         /\ Counted(F, e) = Counted(F, k) + 1
<1> DEFINE K == {g \in F : g <= k}
<1>1. f \notin K
  OBVIOUS
<1>2. /\ \A g \in F : g <= f <=> g <= k \/ g = f
      /\ \A g \in F : g <= e <=> g <= k \/ g = f
  OBVIOUS
<1>3. IsFiniteSet(K)
  BY CountedType
<1>4. Cardinality(K \cup {f}) = Cardinality(K) + 1
  BY <1>1, <1>3, FS_AddElement
<1>5. {g \in F : g <= f} = K \cup {f} /\ {g \in F : g <= e} = K \cup {f}
  BY <1>2
<1> QED
  BY <1>4, <1>5 DEF Counted
\* The numbers of two places are different.
LEMMA CountedOnce ==
  ASSUME NEW F \in SUBSET Nat, IsFiniteSet(F), NEW f \in F, NEW g \in F,
         Counted(F, f) = Counted(F, g), f <= g
  PROVE  f = g
<1> DEFINE A == {h \in F : h <= f}
           B == {h \in F : h <= g}
<1>1. f \in Nat /\ g \in Nat
  OBVIOUS
<1>2. A \subseteq B /\ IsFiniteSet(B) /\ g \in B
  <2>1. \A h \in F : h <= f => h <= g
    BY <1>1
  <2>2. g <= g
    BY <1>1
  <2>3. IsFiniteSet(B)
    BY CountedType
  <2> QED
    BY <2>1, <2>2, <2>3
<1>3. Cardinality(A) = Cardinality(B)
  BY DEF Counted
<1>4. A = B
  <2> HIDE DEF A, B
  <2> QED
    BY <1>2, <1>3, FS_Subset
<1>5. g <= f
  BY <1>2, <1>4
<1> QED
  BY <1>1, <1>5

\* Every number up to that of all the places is the number of one.
LEMMA EveryNumber ==
  ASSUME NEW m \in Nat, NEW F \in SUBSET (1 .. m), NEW n \in 1 .. Cardinality(F)
  PROVE  \E f \in F : Counted(F, f) = n
<1> DEFINE N == Cardinality(F)
           c == [f \in F |-> Counted(F, f)]
<1>1. F \in SUBSET Nat /\ IsFiniteSet(F) /\ N \in Nat
  <2>1. 1 \in Int /\ m \in Int /\ 1 .. m \subseteq Nat
    OBVIOUS
  <2>2. IsFiniteSet(1 .. m)
    BY <2>1, FS_Interval
  <2>3. IsFiniteSet(F)
    BY <2>2, FS_Subset
  <2> QED
    BY <2>1, <2>3, FS_CardinalityType
<1>2. Counted(F, m) = N
  <2>1. \A h \in F : h <= m
    OBVIOUS
  <2>2. {h \in F : h <= m} = F
    BY <2>1
  <2> QED
    BY <2>2 DEF Counted
<1>3. \A f \in F : Counted(F, f) \in 1 .. N
  <2>1. \A f \in F : f <= m
    OBVIOUS
  <2> QED
    BY <1>1, <1>2, <2>1, CountedNumber
<1>4. \A f, g \in F : c[f] = c[g] => f = g
  <2> SUFFICES ASSUME NEW f \in F, NEW g \in F, Counted(F, f) = Counted(F, g)
               PROVE  f = g
    OBVIOUS
  <2>1. f <= g \/ g <= f
    BY <1>1
  <2> QED
    BY <1>1, <2>1, CountedOnce
<1>5. c \in Injection(F, 1 .. N)
  BY <1>3, <1>4 DEF Injection, IsInjective
<1>6. IsFiniteSet(1 .. N) /\ Cardinality(1 .. N) = N
  <2>1. 1 \in Int /\ N \in Int /\ (1 > N => N = 0) /\ N - 1 + 1 = N
    BY <1>1
  <2> HIDE DEF N
  <2> QED
    BY <2>1, FS_Interval
<1> HIDE DEF c
<1>7. c \in Surjection(F, 1 .. N)
  BY <1>5, <1>6, FS_Injection
<1>8. \A k \in 1 .. N : \E f \in F : c[f] = k
  BY <1>7 DEF Surjection
<1> QED
  BY <1>8 DEF c
=============================================================================

------------------------------ MODULE DataLemmas ------------------------------
(***************************************************************************)
(* Facts about numbers, finite sets, recursive functions and sequences     *)
(* that the proofs about the components rest on.                           *)
(***************************************************************************)
EXTENDS Integers, Sequences, SequencesExt, FiniteSetsExt,
  SequenceTheorems, FiniteSetTheorems, WellFoundedInduction, TLAPS

-------------------------------------------------------------------------------
(* Induction over an interval, and recursion along it. *)

\* A nonempty set of naturals has a least element: what an induction over sizes uses.
LEMMA LeastNatural ==
  ASSUME NEW T, T \subseteq Nat, T # {}
  PROVE  \E n \in T : \A m \in T : n <= m
<1> DEFINE R == OpToRel(<, Nat)
<1>1. IsWellFoundedOn(R, Nat)
  BY NatLessThanWellFounded
<1>2. \A x, y \in Nat : <<y, x>> \in R <=> y < x
  BY DEF OpToRel
<1> HIDE DEF R
<1>3. PICK n \in T : \A m \in T : ~(<<m, n>> \in R)
  BY <1>1, WFMin
<1>4. \A m \in T : ~(m < n)
  BY <1>2, <1>3, Zenon
<1> QED
  BY <1>4

\* What holds at 0 and goes on from each number to the next holds up to N.
LEMMA UpTo ==
  ASSUME NEW T, NEW N \in Nat, 0 \in T, \A k \in 1 .. N : k - 1 \in T => k \in T
  PROVE  0 .. N \subseteq T
<1> DEFINE Out == {k \in 0 .. N : k \notin T}
<1> SUFFICES ASSUME Out # {} PROVE FALSE
  OBVIOUS
<1>1. PICK n \in Out : \A m \in Out : n <= m
  <2>1. Out \subseteq Nat
    OBVIOUS
  <2> QED
    BY <2>1, LeastNatural
<1>2. n \in 1 .. N
  BY <1>1
<1>3. n - 1 \notin Out
  BY <1>1, <1>2
<1> QED
  BY <1>1, <1>2, <1>3

\* f starts from a and follows the step from each number to the next.
Unrolls(f, a, N, S, step) ==
  f \in [0 .. N -> S] /\ f[0] = a /\ \A k \in 1 .. N : f[k] = step[<<k, f[k - 1]>>]
StepsOf(N, S) == [(1 .. N) \X S -> S]

\* A function that is given by its first value and by a step from each value to the next
\* exists: what a recursive definition over an interval denotes is what it says.
LEMMA Recursion ==
  ASSUME NEW S, NEW a \in S, NEW N \in Nat, NEW step \in StepsOf(N, S)
  PROVE  \E f : Unrolls(f, a, N, S, step)
<1> DEFINE Runs(f, n) == f[0] = a /\ \A k \in 1 .. n : f[k] = step[<<k, f[k - 1]>>]
<1> DEFINE T == {n \in 0 .. N : \E f \in [0 .. n -> S] : Runs(f, n)}
<1>0. step \in [(1 .. N) \X S -> S]
  BY DEF StepsOf
<1>1. 0 \in T
  <2> DEFINE f == [k \in 0 .. 0 |-> a]
  <2>1. f \in [0 .. 0 -> S] /\ Runs(f, 0)
    OBVIOUS
  <2> HIDE DEF f, Runs
  <2> QED
    BY <2>1
<1>2. ASSUME NEW n \in 1 .. N, n - 1 \in T PROVE n \in T
  <2>1. PICK f \in [0 .. n - 1 -> S] : Runs(f, n - 1)
    BY <1>2
  <2> DEFINE g == [k \in 0 .. n |-> IF k = n THEN step[<<n, f[n - 1]>>] ELSE f[k]]
  <2>2. step[<<n, f[n - 1]>>] \in S
    BY <1>0, <2>1
  <2>3. g \in [0 .. n -> S]
    BY <2>1, <2>2
  <2>4. Runs(g, n)
    <3>1. g[0] = a
      BY <2>1
    <3>2. ASSUME NEW k \in 1 .. n PROVE g[k] = step[<<k, g[k - 1]>>]
      <4>1. g[k - 1] = f[k - 1]
        OBVIOUS
      <4>2. CASE k = n
        <5>1. g[k] = step[<<n, f[n - 1]>>]
          BY <4>2
        <5> HIDE DEF g
        <5> QED
          BY <4>1, <4>2, <5>1
      <4>3. CASE k # n
        <5>1. k \in 1 .. n - 1
          BY <4>3
        <5>2. g[k] = f[k]
          BY <4>3
        <5>3. f[k] = step[<<k, f[k - 1]>>]
          BY <2>1, <5>1
        <5> HIDE DEF g
        <5> QED
          BY <4>1, <5>2, <5>3
      <4> QED
        BY <4>2, <4>3
    <3> QED
      BY <3>1, <3>2
  <2> HIDE DEF g, Runs
  <2> QED
    BY <2>3, <2>4
<1>3. N \in T
  <2> HIDE DEF T
  <2>1. 0 .. N \subseteq T
    BY <1>1, <1>2, UpTo
  <2> QED
    BY <2>1
<1> QED
  BY <1>3 DEF Unrolls

-------------------------------------------------------------------------------
(* Finite sets of integers. *)

\* A nonempty finite set of integers has a least element: else one of the smallest subsets
\* without a least element would leave, without one of its members, a smaller one.
LEMMA FiniteHasMin ==
  ASSUME NEW S, S \subseteq Int, IsFiniteSet(S), S # {}
  PROVE  \E a \in S : \A b \in S : a <= b
<1> DEFINE HasLeast(U) == \E a \in U : \A b \in U : a <= b
<1> DEFINE Sizes == {Cardinality(U) : U \in {V \in SUBSET S : V # {} /\ ~HasLeast(V)}}
<1> SUFFICES ASSUME ~HasLeast(S) PROVE FALSE
  OBVIOUS
<1>0. \A U \in SUBSET S : Cardinality(U) \in Nat
  BY FS_Subset, FS_CardinalityType
<1>1. Sizes \subseteq Nat /\ Sizes # {}
  BY <1>0
<1>2. PICK n \in Sizes : \A m \in Sizes : n <= m
  BY <1>1, LeastNatural
<1>3. PICK U \in SUBSET S : U # {} /\ ~HasLeast(U) /\ n = Cardinality(U)
  BY <1>2
<1>4. PICK x \in U : TRUE
  BY <1>3
<1> DEFINE V == U \ {x}
<1>5. IsFiniteSet(U) /\ V \in SUBSET S /\ Cardinality(V) = n - 1 /\ n \in Nat
  BY <1>1, <1>3, FS_Subset, FS_RemoveElement
<1>6. V = {} \/ HasLeast(V)
  <2> SUFFICES ASSUME V # {}, ~HasLeast(V) PROVE FALSE
    OBVIOUS
  <2>1. n - 1 \in Sizes
    BY <1>5
  <2> QED BY <1>2, <1>5, <2>1
<1>7. \A y \in U : y = x \/ y \in V
  OBVIOUS
<1>8. CASE V = {}
  BY <1>3, <1>7, <1>8
<1>9. CASE HasLeast(V)
  <2>1. PICK a \in V : \A b \in V : a <= b
    BY <1>9
  <2>2. CASE a <= x
    BY <1>3, <1>7, <2>1, <2>2
  <2>3. CASE x <= a
    BY <1>3, <1>7, <2>1, <2>3
  <2> QED BY <1>3, <2>1, <2>2, <2>3
<1> QED BY <1>6, <1>8, <1>9

\* And a greatest one, by reflection.
LEMMA FiniteHasMax ==
  ASSUME NEW S, S \subseteq Int, IsFiniteSet(S), S # {}
  PROVE  \E a \in S : \A b \in S : b <= a
<1> DEFINE f == [x \in S |-> 0 - x]
<1> DEFINE N == {f[x] : x \in S}
<1>0. \A x \in S : f[x] = 0 - x /\ f[x] \in Int
  OBVIOUS
<1>1. N \subseteq Int /\ N # {}
  BY <1>0, Zenon
<1>2. IsFiniteSet(N)
  <2>1. f \in [S -> Int]
    OBVIOUS
  <2> HIDE DEF f
  <2>2. f \in Surjection(S, N)
    BY <2>1 DEF Surjection
  <2> QED BY <2>2, FS_Surjection, Zenon DEF ExistsSurjection
<1>3. PICK a \in N : \A b \in N : a <= b
  BY <1>1, <1>2, FiniteHasMin
<1>4. PICK x \in S : a = 0 - x
  BY <1>3
<1>5. \A y \in S : 0 - y \in N
  OBVIOUS
<1>6. \A y \in S : y <= x
  BY <1>3, <1>4, <1>5
<1> QED BY <1>6

\* Min and Max of a finite set bound its members.
LEMMA MinMaxBound ==
  ASSUME NEW S, S \subseteq Int, IsFiniteSet(S), NEW x \in S
  PROVE  /\ Min(S) \in S /\ Max(S) \in S /\ Min(S) \in Int /\ Max(S) \in Int
         /\ Min(S) <= x /\ x <= Max(S)
<1>1. Min(S) \in S /\ \A b \in S : Min(S) <= b
  BY FiniteHasMin DEF Min
<1>2. Max(S) \in S /\ \A b \in S : Max(S) >= b
  <2>1. \E a \in S : \A b \in S : a >= b
    BY FiniteHasMax
  <2> QED BY <2>1 DEF Max
<1> QED BY <1>1, <1>2

\* The least element of a set of indices, and what is below it.
LEMMA MinIndex ==
  ASSUME NEW a \in Int, NEW b \in Int, NEW S, S \subseteq a .. b, S # {}
  PROVE  /\ Min(S) \in S /\ \A i \in S : Min(S) <= i
<1>1. IsFiniteSet(a .. b) /\ S \subseteq Int
  BY FS_Interval
<1>2. IsFiniteSet(S)
  BY <1>1, FS_Subset
<1>3. \E x \in S : \A y \in S : x <= y
  BY <1>1, <1>2, FiniteHasMin
<1> QED BY <1>3 DEF Min

-------------------------------------------------------------------------------
(* Quotients, remainders and squares. *)

\* The integer quotient, for negative dividends too.
LEMMA Quotient ==
  ASSUME NEW x \in Int, NEW d \in Nat \ {0}
  PROVE  x \div d \in Int /\ (x \div d) * d \in Int /\ (x \div d) * d <= x /\ x < (x \div d) * d + d
<1> DEFINE q == x \div d
<1> DEFINE m == x % d
<1>1. q \in Int /\ m \in 0 .. d - 1 /\ x = q * d + m
  BY SMT
<1>2. q * d \in Int
  BY <1>1
<1> HIDE DEF q, m
<1>3. q * d <= x /\ x < q * d + d
  BY <1>1, <1>2
<1> QED BY <1>1, <1>2, <1>3 DEF q

\* It grows with the dividend.
LEMMA QuotientMonotone ==
  ASSUME NEW x \in Int, NEW y \in Int, x <= y, NEW d \in Nat \ {0}
  PROVE  x \div d <= y \div d
<1> DEFINE a == x \div d
<1> DEFINE b == y \div d
<1>1. a \in Int /\ b \in Int /\ a * d \in Int /\ b * d \in Int /\ a * d <= x /\ y < b * d + d
  BY Quotient
<1> HIDE DEF a, b
<1> SUFFICES ASSUME b + 1 <= a PROVE FALSE
  BY <1>1 DEF a, b
<1>2. (b + 1) * d <= a * d
  BY <1>1, SMT
<1>3. (b + 1) * d = b * d + d
  BY <1>1, SMT
<1> QED BY <1>1, <1>2, <1>3

\* A multiple is divided without rest.
LEMMA QuotientOfMultiple ==
  ASSUME NEW q \in Int, NEW n \in Nat \ {0}
  PROVE  (q * n) \div n = q
<1> DEFINE d == (q * n) \div n
<1> DEFINE m == (q * n) % n
<1>1. d \in Int /\ m \in 0 .. n - 1 /\ q * n = d * n + m
  BY SMT
<1> HIDE DEF d, m
<1>2. (q - d) * n = m
  BY <1>1, SMT
<1>3. q - d < 1
  <2> SUFFICES ASSUME q - d >= 1 PROVE FALSE
    BY <1>1
  <2>1. (q - d) * n >= 1 * n
    BY <1>1, SMT
  <2> QED BY <1>1, <1>2, <2>1
<1>4. q - d > -1
  <2> SUFFICES ASSUME q - d <= -1 PROVE FALSE
    BY <1>1
  <2>1. (q - d) * n <= (-1) * n
    BY <1>1, SMT
  <2> QED BY <1>1, <1>2, <2>1
<1>5. d = q
  BY <1>1, <1>3, <1>4
<1> QED BY <1>5 DEF d

\* The remainder of a natural number exists.
LEMMA Remainder ==
  ASSUME NEW a \in Nat, NEW n \in Nat \ {0}
  PROVE  a % n \in 0 .. n - 1 /\ \E q \in Nat : a = q * n + (a % n)
<1>1. a % n \in 0 .. n - 1
  BY SMT
<1>2. a \div n \in Int /\ a = (a \div n) * n + (a % n)
  BY SMT
<1>3. a \div n >= 0
  <2> SUFFICES ASSUME a \div n <= -1 PROVE FALSE
    BY <1>2
  <2>1. (a \div n) * n <= (-1) * n
    BY <1>2, SMT
  <2> QED BY <1>1, <1>2, <2>1, SMT
<1>4. a \div n \in Nat
  BY <1>2, <1>3
<1> QED BY <1>1, <1>2, <1>4, Zenon

\* It is the only one that is less than the modulus.
LEMMA RemainderIs ==
  ASSUME NEW a \in Nat, NEW n \in Nat \ {0}, NEW p \in Int, NEW s \in 0 .. n - 1, a = p * n + s
  PROVE  a % n = s
<1> DEFINE m == a % n
<1>1. m \in 0 .. n - 1
  BY Remainder
<1>2. PICK q \in Nat : a = q * n + m
  BY Remainder
<1> HIDE DEF m
<1>3. q * n + m = p * n + s
  BY <1>2
<1>4. m = s
  BY <1>1, <1>3, SMT
<1> QED BY <1>4 DEF m

\* Multiples of the modulus do not change it.
LEMMA RemainderOfSum ==
  ASSUME NEW a \in Nat, NEW n \in Nat \ {0}, NEW k \in Nat
  PROVE  (a + k * n) % n = a % n
<1> DEFINE m == a % n
<1>1. m \in 0 .. n - 1
  BY Remainder
<1>2. PICK q \in Nat : a = q * n + m
  BY Remainder
<1> HIDE DEF m
<1>3. a + k * n = (k + q) * n + m /\ a + k * n \in Nat /\ k + q \in Int
  BY <1>1, <1>2
<1> QED BY <1>1, <1>3, RemainderIs, Zenon DEF m

\* Numbers that are less than the modulus apart have different ones.
LEMMA NearRemaindersDiffer ==
  ASSUME NEW a \in Nat, NEW n \in Nat \ {0}, NEW d \in 1 .. n - 1
  PROVE  (a + d) % n # a % n
<1> DEFINE m == a % n
<1> DEFINE r == (a + d) % n
<1>1. m \in 0 .. n - 1 /\ r \in 0 .. n - 1
  BY Remainder, a + d \in Nat
<1>2. PICK q \in Nat : a = q * n + m
  BY Remainder
<1>3. PICK p \in Nat : a + d = p * n + r
  BY Remainder, a + d \in Nat
<1> HIDE DEF m, r
<1> SUFFICES ASSUME r = m PROVE FALSE
  BY DEF m, r
<1>4. (p - q) * n = d
  BY <1>1, <1>2, <1>3, SMT
<1>5. p - q >= 1
  BY <1>4, SMT
<1>6. (p - q) * n >= 1 * n
  BY <1>5, SMT
<1> QED BY <1>4, <1>6

\* The root of a smaller square is smaller.
LEMMA SmallerSquare ==
  ASSUME NEW x \in Int, NEW m \in Nat, x * x < m * m
  PROVE  -m < x /\ x < m
<1>1. \A y \in Int : y >= m => y * y >= m * m
  <2> SUFFICES ASSUME NEW y \in Int, y >= m PROVE y * y >= m * m
    OBVIOUS
  <2>1. y * y >= y * m /\ y * m >= m * m
    OBVIOUS
  <2>2. y * y \in Int /\ y * m \in Int /\ m * m \in Int
    OBVIOUS
  <2> QED BY <2>1, <2>2
<1>2. ~(x >= m)
  <2> DEFINE a == x * x
  <2> DEFINE b == m * m
  <2>1. x >= m => a >= b
    BY <1>1
  <2>2. a < b /\ a \in Int /\ b \in Int
    OBVIOUS
  <2> HIDE DEF a, b
  <2> QED BY <2>1, <2>2
<1>3. ~(0 - x >= m)
  <2> DEFINE a == x * x
  <2> DEFINE b == m * m
  <2>1. (0 - x) * (0 - x) = a
    OBVIOUS
  <2>2. 0 - x >= m => a >= b
    BY <1>1, <2>1
  <2>3. a < b /\ a \in Int /\ b \in Int
    OBVIOUS
  <2> HIDE DEF a, b
  <2> QED BY <2>2, <2>3
<1> QED BY <1>2, <1>3

-------------------------------------------------------------------------------
(* Sequences. *)

\* Append element by element.
LEMMA AppendIs ==
  ASSUME NEW S, NEW s \in Seq(S), NEW t \in Seq(S), NEW e \in S,
         Len(t) = Len(s) + 1, \A i \in 1 .. Len(s) : t[i] = s[i], t[Len(s) + 1] = e
  PROVE  t = Append(s, e)
<1>1. /\ Append(s, e) \in Seq(S) /\ Len(Append(s, e)) = Len(s) + 1 /\ Len(s) \in Nat
      /\ \A i \in 1 .. Len(s) : Append(s, e)[i] = s[i]
      /\ Append(s, e)[Len(s) + 1] = e
  BY AppendProperties, LenProperties
<1> QED BY <1>1, SeqEqual

\* And Tail.
LEMMA TailIs ==
  ASSUME NEW S, NEW s \in Seq(S), NEW t \in Seq(S), s # <<>>,
         Len(t) = Len(s) - 1, \A i \in 1 .. Len(t) : t[i] = s[i + 1]
  PROVE  t = Tail(s)
BY HeadTailProperties, SeqEqual

\* The slice of a sequence.
LEMMA SliceIs ==
  ASSUME NEW S, NEW q \in Seq(S), NEW a \in 1 .. Len(q) + 1, NEW b \in a - 1 .. Len(q)
  PROVE  /\ SubSeq(q, a, b) \in Seq(S) /\ Len(SubSeq(q, a, b)) = (b - a) + 1
         /\ \A i \in 1 .. (b - a) + 1 : SubSeq(q, a, b)[i] = q[a + (i - 1)]
<1>1. Len(q) \in Nat /\ \A i \in 1 .. Len(q) : q[i] \in S
  BY LenProperties, ElementOfSeq
<1>2. a \in Int /\ b \in Int /\ a >= 1 /\ b <= Len(q) /\ b >= a - 1
  BY <1>1
<1>3. \A i \in a .. b : q[i] \in S
  BY <1>1, <1>2
<1>4. /\ SubSeq(q, a, b) \in Seq(S)
      /\ Len(SubSeq(q, a, b)) = IF a <= b THEN b - a + 1 ELSE 0
      /\ \A i \in 1 .. b - a + 1 : SubSeq(q, a, b)[i] = q[a + i - 1]
  BY <1>2, <1>3, SubSeqProperties
<1> QED BY <1>2, <1>4

\* What a queue loses at its end and its beginning.
LEMMA RestOfSeq ==
  ASSUME NEW S, NEW q \in Seq(S), NEW k \in 1 .. Len(q)
  PROVE  SubSeq(q, k + 1, Len(q)) \in Seq(S)
<1>1. Len(q) \in Nat /\ \A i \in 1 .. Len(q) : q[i] \in S
  BY LenProperties, ElementOfSeq
<1>2. \A i \in (k + 1) .. Len(q) : q[i] \in S
  BY <1>1
<1>3. k + 1 \in Int /\ Len(q) \in Int
  BY <1>1
<1> QED BY <1>2, <1>3, SubSeqProperties, Zenon

\* The members of a sequence.
LEMMA RangeIs ==
  ASSUME NEW S, NEW q \in Seq(S)
  PROVE  Range(q) = {q[i] : i \in 1 .. Len(q)} /\ Range(q) \subseteq S /\ (q = <<>> => Range(q) = {})
<1>1. DOMAIN q = 1 .. Len(q) /\ \A i \in 1 .. Len(q) : q[i] \in S
  BY LenProperties, ElementOfSeq
<1>2. q = <<>> => Len(q) = 0
  OBVIOUS
<1> QED BY <1>1, <1>2 DEF Range

\* With one more at its end.
LEMMA RangeOfAppend ==
  ASSUME NEW S, NEW q \in Seq(S), NEW x \in S
  PROVE  Range(Append(q, x)) = Range(q) \cup {x}
<1>1. /\ Append(q, x) \in Seq(S) /\ Len(Append(q, x)) = Len(q) + 1 /\ Len(q) \in Nat
      /\ \A i \in 1 .. Len(q) : Append(q, x)[i] = q[i]
      /\ Append(q, x)[Len(q) + 1] = x
  BY AppendProperties, LenProperties
<1>2. \A i \in 1 .. Len(q) + 1 : i \in 1 .. Len(q) \/ i = Len(q) + 1
  BY <1>1
<1>3. /\ Range(q) = {q[i] : i \in 1 .. Len(q)}
      /\ Range(Append(q, x)) = {Append(q, x)[i] : i \in 1 .. Len(q) + 1}
  <2> DEFINE r == Append(q, x)
  <2>1. r \in Seq(S) /\ Len(r) = Len(q) + 1
    BY <1>1
  <2> HIDE DEF r
  <2>2. Range(r) = {r[i] : i \in 1 .. Len(r)}
    BY <2>1, RangeIs
  <2>3. Range(q) = {q[i] : i \in 1 .. Len(q)}
    BY RangeIs
  <2> QED BY <2>1, <2>2, <2>3 DEF r
<1>4. 1 .. Len(q) \subseteq 1 .. Len(q) + 1 /\ Len(q) + 1 \in 1 .. Len(q) + 1
  BY <1>1
<1> QED BY <1>1, <1>2, <1>3, <1>4

\* And of two sequences one after the other.
LEMMA RangeOfConcat ==
  ASSUME NEW S, NEW q \in Seq(S), NEW r \in Seq(S)
  PROVE  Range(q \o r) = Range(q) \cup Range(r)
<1>1. /\ q \o r \in Seq(S) /\ Len(q \o r) = Len(q) + Len(r) /\ Len(q) \in Nat /\ Len(r) \in Nat
      /\ \A i \in 1 .. Len(q) + Len(r) :
           (q \o r)[i] = IF i <= Len(q) THEN q[i] ELSE r[i - Len(q)]
  BY ConcatProperties, LenProperties
<1>2. /\ Range(q) = {q[i] : i \in 1 .. Len(q)} /\ Range(r) = {r[i] : i \in 1 .. Len(r)}
      /\ Range(q \o r) = {(q \o r)[i] : i \in 1 .. Len(q) + Len(r)}
  <2> DEFINE t == q \o r
  <2>1. t \in Seq(S) /\ Len(t) = Len(q) + Len(r)
    BY <1>1
  <2> HIDE DEF t
  <2>2. Range(t) = {t[i] : i \in 1 .. Len(t)}
    BY <2>1, RangeIs
  <2>3. Range(q) = {q[i] : i \in 1 .. Len(q)}
    BY RangeIs
  <2>4. Range(r) = {r[i] : i \in 1 .. Len(r)}
    BY RangeIs
  <2> QED BY <2>1, <2>2, <2>3, <2>4 DEF t
<1>3. \A i \in 1 .. Len(q) : i \in 1 .. Len(q) + Len(r) /\ (q \o r)[i] = q[i]
  BY <1>1
<1>4. \A i \in 1 .. Len(r) :
        i + Len(q) \in 1 .. Len(q) + Len(r) /\ (q \o r)[i + Len(q)] = r[i]
  BY <1>1
<1>5. \A i \in 1 .. Len(q) + Len(r) :
        \/ i \in 1 .. Len(q)
        \/ i - Len(q) \in 1 .. Len(r) /\ (q \o r)[i] = r[i - Len(q)]
  BY <1>1
<1> QED BY <1>2, <1>3, <1>4, <1>5
===============================================================================

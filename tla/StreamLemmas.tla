---------------------------- MODULE StreamLemmas ----------------------------
(***************************************************************************)
(* What FlattenSeq of the community modules computes.  It is a recursive   *)
(* function inside an operator: that the function exists, and that those   *)
(* of two sequences agree as long as the sequences do, is shown by looking *)
(* at the least place where it would fail.                                 *)
(***************************************************************************)
EXTENDS SequencesExt, SequenceTheorems, WellFoundedInduction, TLAPS

(* A non-empty set of numbers has a least one.                             *)
LEMMA LeastNumber ==
    ASSUME NEW T \in SUBSET Nat, T # {}
    PROVE  \E x \in T : \A y \in T : x <= y
<1> DEFINE R == OpToRel(<, Nat)
<1>1. IsWellFoundedOn(R, Nat)
  BY NatLessThanWellFounded
<1>2. \A x \in T, y \in T : <<y, x>> \in R <=> y < x
  BY DEF OpToRel
<1> HIDE DEF R
<1>3. PICK x \in T : \A y \in T : <<y, x>> \notin R
  BY <1>1, WFMin
<1>4. \A y \in T : ~(y < x)
  BY <1>2, <1>3
<1> QED
  BY <1>4

(* f has at i the first i members of s one behind the other, for the first *)
(* n of them.                                                              *)
Joins(s, f, n) == f = [i \in 1..n |-> IF i = 1 THEN s[i] ELSE f[i - 1] \o s[i]]

(* Its value at one place.                                                 *)
LEMMA JoinsAt ==
    ASSUME NEW s, NEW f, NEW n \in Nat, Joins(s, f, n), NEW i \in 1..n
    PROVE  f[i] = IF i = 1 THEN s[i] ELSE f[i - 1] \o s[i]
<1> DEFINE e(j) == IF j = 1 THEN s[j] ELSE f[j - 1] \o s[j]
<1>1. f = [j \in 1..n |-> e(j)]
  BY DEF Joins
<1> HIDE DEF e
<1>2. f[i] = e(i)
  BY <1>1
<1> QED
  BY <1>2 DEF e

(* Such a function exists for every length.                                *)
LEMMA JoinsExists == ASSUME NEW s, NEW n \in Nat PROVE \E f : Joins(s, f, n)
<1> DEFINE T == {k \in Nat : ~ \E f : Joins(s, f, k)}
<1> SUFFICES ASSUME T # {} PROVE FALSE
  OBVIOUS
<1>1. PICK k \in T : \A y \in T : k <= y
  <2>1. T \in SUBSET Nat
    OBVIOUS
  <2> HIDE DEF T
  <2> QED
    BY <2>1, LeastNumber
<1>2. CASE k = 0
  <2>1. Joins(s, [i \in 1..0 |-> s[i]], 0)
    BY DEF Joins
  <2> QED
    BY <1>2, <2>1
<1>3. CASE k # 0
  <2>1. k - 1 \in Nat /\ k - 1 \notin T
    BY <1>1, <1>3
  <2>2. PICK f : Joins(s, f, k - 1)
    BY <2>1
  <2>3. f = [i \in 1..(k - 1) |-> IF i = 1 THEN s[i] ELSE f[i - 1] \o s[i]]
    BY <2>2 DEF Joins
  <2> DEFINE g == [i \in 1..k |-> IF i = k THEN (IF i = 1 THEN s[i] ELSE f[i - 1] \o s[i])
                                  ELSE f[i]]
  <2>4. ASSUME NEW i \in 1..k
        PROVE  g[i] = IF i = 1 THEN s[i] ELSE g[i - 1] \o s[i]
    <3>1. CASE i = k
      BY <3>1
    <3>2. CASE i # k
      <4>1. i \in 1..(k - 1) /\ g[i] = f[i]
        BY <3>2
      <4>2. f[i] = IF i = 1 THEN s[i] ELSE f[i - 1] \o s[i]
        BY <2>3, <4>1
      <4>3. i # 1 => g[i - 1] = f[i - 1]
        BY <3>2
      <4> QED
        BY <4>1, <4>2, <4>3
    <3> QED
      BY <3>1, <3>2
  <2>5. Joins(s, g, k)
    <3>1. g = [i \in 1..k |-> g[i]]
      OBVIOUS
    <3> HIDE DEF g
    <3> QED
      BY <2>4, <3>1 DEF Joins
  <2> QED
    BY <2>5
<1> QED
  BY <1>2, <1>3

(* FlattenSeq is its value at the last member.                             *)
LEMMA FlattenJoins ==
    ASSUME NEW s, Len(s) \in Nat, Len(s) # 0
    PROVE  \E f : Joins(s, f, Len(s)) /\ FlattenSeq(s) = f[Len(s)]
<1> DEFINE f == CHOOSE g : Joins(s, g, Len(s))
<1>1. Joins(s, f, Len(s))
  BY JoinsExists
<1>2. FlattenSeq(s) = f[Len(s)]
  BY DEF FlattenSeq, Joins
<1> QED
  BY <1>1, <1>2

(* Its values are sequences.                                               *)
LEMMA JoinsType ==
    ASSUME NEW S, NEW s \in Seq(Seq(S)), NEW n \in 0..Len(s), NEW f, Joins(s, f, n)
    PROVE  \A i \in 1..n : f[i] \in Seq(S)
<1> DEFINE T == {i \in 1..n : f[i] \notin Seq(S)}
<1> SUFFICES ASSUME T # {} PROVE FALSE
  OBVIOUS
<1>1. PICK k \in T : \A y \in T : k <= y
  <2>1. T \in SUBSET Nat
    OBVIOUS
  <2> HIDE DEF T
  <2> QED
    BY <2>1, LeastNumber
<1>2. f[k] = IF k = 1 THEN s[k] ELSE f[k - 1] \o s[k]
  BY JoinsAt
<1>3. s[k] \in Seq(S)
  BY ElementOfSeq
<1>4. CASE k = 1
  BY <1>2, <1>3, <1>4
<1>5. CASE k # 1
  <2>1. f[k - 1] \in Seq(S)
    BY <1>1, <1>5
  <2> QED
    BY <1>2, <1>3, <1>5, <2>1, ConcatProperties
<1> QED
  BY <1>4, <1>5

Agree(s, t, n) == \A i \in 1..n : s[i] = t[i]

(* Two of them agree where their sequences do.                             *)
LEMMA JoinsAgree ==
    ASSUME NEW s, NEW t, NEW n \in Nat, NEW m \in Nat, NEW f, NEW g,
           Joins(s, f, n), Joins(t, g, m), n <= m, Agree(s, t, n)
    PROVE  Agree(f, g, n)
<1> DEFINE T == {i \in 1..n : f[i] # g[i]}
<1> SUFFICES ASSUME T # {} PROVE FALSE
  BY DEF Agree
<1>1. PICK j \in T : \A y \in T : j <= y
  <2>1. T \in SUBSET Nat
    OBVIOUS
  <2> HIDE DEF T
  <2> QED
    BY <2>1, LeastNumber
<1>2. j \in 1..n /\ j \in 1..m /\ s[j] = t[j]
  BY DEF Agree
<1>2a. f[j] = IF j = 1 THEN s[j] ELSE f[j - 1] \o s[j]
  BY <1>2, JoinsAt
<1>2b. g[j] = IF j = 1 THEN t[j] ELSE g[j - 1] \o t[j]
  BY <1>2, JoinsAt
<1>3. j # 1 => f[j - 1] = g[j - 1]
  BY <1>1
<1> QED
  BY <1>2, <1>2a, <1>2b, <1>3

(* Nothing flattens to nothing.                                            *)
LEMMA FlattenEmpty == FlattenSeq(<<>>) = <<>>
BY DEF FlattenSeq

(* A sequence of sequences flattens to a sequence.                         *)
LEMMA FlattenType ==
    ASSUME NEW S, NEW s \in Seq(Seq(S)) PROVE FlattenSeq(s) \in Seq(S)
<1>1. CASE s = <<>>
  BY <1>1, FlattenEmpty, EmptySeq
<1>2. CASE s # <<>>
  <2>1. Len(s) \in Nat /\ Len(s) # 0
    BY <1>2, EmptySeq
  <2>2. PICK f : Joins(s, f, Len(s)) /\ FlattenSeq(s) = f[Len(s)]
    BY <2>1, FlattenJoins
  <2>3. f[Len(s)] \in Seq(S)
    BY <2>1, <2>2, JoinsType
  <2> QED
    BY <2>2, <2>3
<1> QED
  BY <1>1, <1>2

(* What is appended comes last.                                            *)
LEMMA FlattenAppend ==
    ASSUME NEW S, NEW s \in Seq(Seq(S)), NEW x \in Seq(S)
    PROVE  FlattenSeq(Append(s, x)) = FlattenSeq(s) \o x
<1> DEFINE t == Append(s, x)
           n == Len(s)
<1>1. /\ t \in Seq(Seq(S)) /\ Len(t) = n + 1 /\ n \in Nat
      /\ t[n + 1] = x /\ \A i \in 1..n : t[i] = s[i]
  BY AppendProperties
<1> HIDE DEF t
<1>2. PICK g : Joins(t, g, n + 1) /\ FlattenSeq(t) = g[n + 1]
  BY <1>1, FlattenJoins
<1>3. g[n + 1] = IF n + 1 = 1 THEN t[n + 1] ELSE g[n] \o t[n + 1]
  <2>1. n + 1 \in Nat /\ n + 1 \in 1..(n + 1) /\ n + 1 - 1 = n
    BY <1>1
  <2>2. g[n + 1] = IF n + 1 = 1 THEN t[n + 1] ELSE g[n + 1 - 1] \o t[n + 1]
    BY <1>2, <2>1, JoinsAt
  <2> QED
    BY <2>1, <2>2
<1>4. CASE n = 0
  <2>1. s = <<>>
    BY <1>4, EmptySeq
  <2>2. FlattenSeq(s) \o x = x
    BY <2>1, FlattenEmpty, ConcatEmptySeq
  <2>3. FlattenSeq(t) = x
    BY <1>1, <1>2, <1>3, <1>4
  <2> QED
    BY <2>2, <2>3 DEF t
<1>5. CASE n # 0
  <2>1. PICK f : Joins(s, f, n) /\ FlattenSeq(s) = f[n]
    BY <1>1, <1>5, FlattenJoins
  <2>2. Agree(f, g, n)
    <3>1. n \in Nat /\ Agree(s, t, n)
      BY <1>1 DEF Agree
    <3>2. Joins(s, f, n) /\ Joins(t, g, n + 1)
      BY <1>2, <2>1
    <3> HIDE DEF n
    <3>3. PICK m \in Nat : m = n + 1
      BY <3>1
    <3>4. n <= m /\ Joins(t, g, m)
      BY <3>1, <3>2, <3>3
    <3> QED
      BY <1>1, <3>1, <3>2, <3>4, JoinsAgree
  <2>3. f[n] = g[n]
    <3>1. n \in 1..n
      BY <1>1, <1>5
    <3> HIDE DEF n
    <3> QED
      BY <2>2, <3>1 DEF Agree
  <2>4. n + 1 # 1
    BY <1>1, <1>5
  <2>5. FlattenSeq(t) = FlattenSeq(s) \o x
    BY <1>1, <1>2, <1>3, <2>1, <2>3, <2>4
  <2> QED
    BY <2>5 DEF t
<1> QED
  BY <1>4, <1>5

(* The first k members of s.                                               *)
First(s, k) == SubSeq(s, 1, k)

(* Prefixes of a sequence of sequences.                                    *)
LEMMA FirstFacts ==
    ASSUME NEW S, NEW s \in Seq(S), NEW k \in 0..Len(s)
    PROVE  /\ First(s, k) \in Seq(S)
           /\ Len(First(s, k)) = k
           /\ \A i \in 1..k : First(s, k)[i] = s[i]
<1>1. Len(s) \in Nat /\ \A i \in 1..Len(s) : s[i] \in S
  BY ElementOfSeq, LenProperties
<1>2. \A i \in 1..k : s[i] \in S
  BY <1>1
<1>3. /\ First(s, k) \in Seq(S)
      /\ Len(First(s, k)) = IF 1 <= k THEN k - 1 + 1 ELSE 0
      /\ \A i \in 1 .. k - 1 + 1 : First(s, k)[i] = s[1 + i - 1]
  BY <1>1, <1>2, SubSeqProperties DEF First
<1> QED
  BY <1>1, <1>3

(* One more member adds its bytes.                                         *)
LEMMA FlattenFirst ==
    ASSUME NEW S, NEW s \in Seq(Seq(S)), NEW k \in 1..Len(s)
    PROVE  FlattenSeq(First(s, k)) = FlattenSeq(First(s, k - 1)) \o s[k]
<1>0. Len(s) \in Nat /\ k - 1 \in 0..Len(s) /\ k \in 0..Len(s)
  BY LenProperties
<1>1. s[k] \in Seq(S)
  BY ElementOfSeq
<1>2. First(s, k - 1) \in Seq(Seq(S)) /\ Len(First(s, k - 1)) = k - 1
      /\ \A i \in 1..(k - 1) : First(s, k - 1)[i] = s[i]
  BY <1>0, FirstFacts
<1>3. First(s, k) \in Seq(Seq(S)) /\ Len(First(s, k)) = k
      /\ \A i \in 1..k : First(s, k)[i] = s[i]
  BY <1>0, FirstFacts
<1> DEFINE a == Append(First(s, k - 1), s[k])
<1>4. /\ a \in Seq(Seq(S)) /\ Len(a) = k /\ a[k] = s[k]
      /\ \A i \in 1..(k - 1) : a[i] = First(s, k - 1)[i]
  BY <1>0, <1>1, <1>2, AppendProperties
<1> HIDE DEF a
<1>5. \A i \in 1..k : First(s, k)[i] = a[i]
  <2> TAKE i \in 1..k
  <2>1. CASE i = k
    BY <1>3, <1>4, <2>1
  <2>2. CASE i # k
    <3>1. i \in 1..(k - 1)
      BY <1>0, <2>2
    <3> QED
      BY <1>2, <1>3, <1>4, <3>1
  <2> QED
    BY <2>1, <2>2
<1>6. First(s, k) = a
  BY <1>3, <1>4, <1>5, SeqEqual
<1> QED
  BY <1>1, <1>2, <1>6, FlattenAppend DEF a

(* What the first k members flatten to is how everything begins.           *)
LEMMA FlattenBegins ==
    ASSUME NEW S, NEW s \in Seq(Seq(S)), NEW k \in 0..Len(s)
    PROVE  \E rest \in Seq(S) : FlattenSeq(s) = FlattenSeq(First(s, k)) \o rest
<1> DEFINE n == Len(s)
           Begins(j) == \E rest \in Seq(S) : FlattenSeq(s) = FlattenSeq(First(s, n - j)) \o rest
           T == {j \in 0..n : ~Begins(j)}
<1>0. n \in Nat
  BY LenProperties
<1>1. T = {}
  <2> SUFFICES ASSUME T # {} PROVE FALSE
    OBVIOUS
  <2>1. PICK j \in T : \A y \in T : j <= y
    <3>1. T \in SUBSET Nat
      BY <1>0
    <3> HIDE DEF T
    <3> QED
      BY <3>1, LeastNumber
  <2>2. CASE j = 0
    <3>1. First(s, n) = s
      BY SubSeqFull DEF First
    <3>2. FlattenSeq(s) = FlattenSeq(s) \o <<>> /\ <<>> \in Seq(S)
      BY FlattenType, ConcatEmptySeq
    <3>3. n - j = n
      BY <1>0, <2>2
    <3>4. Begins(j)
      BY <3>1, <3>2, <3>3
    <3> QED
      BY <3>4
  <2>3. CASE j # 0
    <3> DEFINE i == n - j + 1
    <3>1. j - 1 \in 0..n /\ i \in 1..n /\ n - (j - 1) = i /\ i - 1 = n - j
      BY <1>0, <2>3
    <3>1a. Begins(j - 1)
      <4> HIDE DEF Begins
      <4> QED
        BY <1>0, <2>1, <2>3, <3>1
    <3>2. PICK r \in Seq(S) : FlattenSeq(s) = FlattenSeq(First(s, i)) \o r
      BY <3>1, <3>1a
    <3> HIDE DEF i
    <3>3. FlattenSeq(First(s, i)) = FlattenSeq(First(s, n - j)) \o s[i]
      BY <3>1, FlattenFirst
    <3>4. s[i] \in Seq(S)
      BY <3>1, ElementOfSeq
    <3>5. FlattenSeq(First(s, n - j)) \in Seq(S)
      <4>1. n - j \in 0..n
        BY <1>0
      <4> QED
        BY <4>1, FirstFacts, FlattenType
    <3>6. s[i] \o r \in Seq(S)
      BY <3>4, ConcatProperties
    <3>7. FlattenSeq(s) = FlattenSeq(First(s, n - j)) \o (s[i] \o r)
      <4> DEFINE u == FlattenSeq(First(s, n - j))
                 v == s[i]
      <4>1. u \in Seq(S) /\ v \in Seq(S) /\ FlattenSeq(s) = (u \o v) \o r
        BY <3>2, <3>3, <3>4, <3>5
      <4> HIDE DEF u, v, T, n
      <4>2. (u \o v) \o r = u \o (v \o r)
        BY <4>1, ConcatAssociative
      <4>3. FlattenSeq(s) = u \o (v \o r)
        BY <4>1, <4>2
      <4> QED
        BY <4>3 DEF u, v
    <3>8. Begins(j)
      BY <3>6, <3>7
    <3> QED
      BY <3>8
  <2> QED
    BY <2>2, <2>3
<1>2. n - k \in 0..n /\ n - (n - k) = k
  BY <1>0
<1>3. Begins(n - k)
  BY <1>1, <1>2
<1> QED
  BY <1>2, <1>3

(* The n elements behind the first a ones.                                 *)
LEMMA PartFacts ==
    ASSUME NEW S, NEW s \in Seq(S), NEW a \in Nat, NEW n \in Nat, a + n <= Len(s)
    PROVE  LET t == SubSeq(s, a + 1, a + n)
           IN  t \in Seq(S) /\ Len(t) = n /\ \A j \in 1..n : t[j] = s[a + j]
<1>1. Len(s) \in Nat /\ \A i \in 1..Len(s) : s[i] \in S
  BY ElementOfSeq, LenProperties
<1>2. PICK m \in Int, k \in Int : m = a + 1 /\ k = a + n
  OBVIOUS
<1>3. \A i \in m..k : s[i] \in S
  BY <1>1, <1>2
<1>4. /\ SubSeq(s, m, k) \in Seq(S)
      /\ Len(SubSeq(s, m, k)) = IF m <= k THEN k - m + 1 ELSE 0
      /\ \A i \in 1..(k - m + 1) : SubSeq(s, m, k)[i] = s[m + i - 1]
  BY <1>3, SubSeqProperties
<1>5. k - m + 1 = n /\ (m <= k <=> n > 0)
  BY <1>2
<1>6. \A j \in 1..n : m + j - 1 = a + j
  BY <1>2
<1> QED
  BY <1>2, <1>4, <1>5, <1>6

(* Two sequences have the same n elements, behind a and behind b.          *)
SameAt(s, a, t, b, n) == \A j \in 1..n : s[a + j] = t[b + j]

LEMMA SameParts ==
    ASSUME NEW S, NEW s \in Seq(S), NEW t \in Seq(S), NEW a \in Nat, NEW b \in Nat, NEW n \in Nat,
           a + n <= Len(s), b + n <= Len(t), SameAt(s, a, t, b, n)
    PROVE  SubSeq(s, a + 1, a + n) = SubSeq(t, b + 1, b + n)
<1> DEFINE u == SubSeq(s, a + 1, a + n)
           v == SubSeq(t, b + 1, b + n)
<1>1. u \in Seq(S) /\ Len(u) = n /\ \A j \in 1..n : u[j] = s[a + j]
  BY PartFacts
<1>2. v \in Seq(S) /\ Len(v) = n /\ \A j \in 1..n : v[j] = t[b + j]
  BY PartFacts
<1> HIDE DEF u, v
<1>3. \A j \in 1..Len(u) : u[j] = v[j]
  BY <1>1, <1>2 DEF SameAt
<1>4. u = v
  BY <1>1, <1>2, <1>3, SeqEqual
<1> QED
  BY <1>4 DEF u, v

(* Where the bytes of the k-th member are: behind those of the members     *)
(* before it.                                                              *)
LEMMA FlattenMember ==
    ASSUME NEW S, NEW s \in Seq(Seq(S)), NEW k \in 1..Len(s)
    PROVE  LET before == Len(FlattenSeq(First(s, k - 1)))
           IN  /\ before \in Nat
               /\ Len(FlattenSeq(First(s, k))) = before + Len(s[k])
               /\ before + Len(s[k]) <= Len(FlattenSeq(s))
               /\ SameAt(FlattenSeq(s), before, s[k], 0, Len(s[k]))
<1> DEFINE a == FlattenSeq(First(s, k - 1))
           b == FlattenSeq(First(s, k))
<1>0. Len(s) \in Nat /\ k - 1 \in 0..Len(s) /\ k \in 0..Len(s)
  BY LenProperties
<1>1. a \in Seq(S) /\ b \in Seq(S) /\ s[k] \in Seq(S)
  BY <1>0, FirstFacts, FlattenType, ElementOfSeq
<1>2. b = a \o s[k]
  BY FlattenFirst
<1>3. PICK rest \in Seq(S) : FlattenSeq(s) = b \o rest
  BY <1>0, FlattenBegins
<1> HIDE DEF a, b
<1>4. Len(a) \in Nat /\ Len(b) \in Nat /\ Len(s[k]) \in Nat /\ Len(rest) \in Nat
  BY <1>1, LenProperties
<1>5. /\ Len(b) = Len(a) + Len(s[k])
      /\ \A i \in 1..(Len(a) + Len(s[k])) : b[i] = IF i <= Len(a) THEN a[i] ELSE s[k][i - Len(a)]
  BY <1>1, <1>2, ConcatProperties
<1>6. /\ Len(FlattenSeq(s)) = Len(b) + Len(rest)
      /\ \A i \in 1..(Len(b) + Len(rest)) :
            FlattenSeq(s)[i] = IF i <= Len(b) THEN b[i] ELSE rest[i - Len(b)]
  BY <1>1, <1>3, ConcatProperties
<1>7. ASSUME NEW i \in 1..Len(s[k]) PROVE FlattenSeq(s)[Len(a) + i] = s[k][i]
  <2>1. /\ Len(a) + i \in 1..(Len(a) + Len(s[k])) /\ ~(Len(a) + i <= Len(a)) /\ Len(a) + i - Len(a) = i
        /\ Len(a) + i \in 1..(Len(b) + Len(rest)) /\ Len(a) + i <= Len(b)
    BY <1>4, <1>5
  <2>2. b[Len(a) + i] = s[k][i]
    BY <1>5, <2>1
  <2>3. FlattenSeq(s)[Len(a) + i] = b[Len(a) + i]
    BY <1>6, <2>1
  <2> QED
    BY <2>2, <2>3
<1>8. Len(a) + Len(s[k]) <= Len(FlattenSeq(s))
  BY <1>4, <1>5, <1>6
<1>9. SameAt(FlattenSeq(s), Len(a), s[k], 0, Len(s[k]))
  <2>1. ASSUME NEW i \in 1..Len(s[k]) PROVE FlattenSeq(s)[Len(a) + i] = s[k][0 + i]
    <3>1. 0 + i = i
      OBVIOUS
    <3> QED
      BY <1>7, <3>1
  <2> QED
    BY <2>1 DEF SameAt
<1> QED
  BY <1>4, <1>5, <1>8, <1>9 DEF a, b

(* All members are the whole, and none is nothing.                         *)
LEMMA FlattenEnds ==
    ASSUME NEW S, NEW s \in Seq(Seq(S))
    PROVE  First(s, Len(s)) = s /\ FlattenSeq(First(s, 0)) = <<>>
<1>1. First(s, Len(s)) = s
  BY SubSeqFull DEF First
<1>2. First(s, 0) = <<>>
  BY SubSeqEmpty DEF First
<1> QED
  BY <1>1, <1>2, FlattenEmpty
=============================================================================

----------------------------- MODULE ProofLemmas -----------------------------
(***************************************************************************)
(* Facts about numbers and sequences that the proofs of several modules    *)
(* need.  Induction is done by the least counterexample.                   *)
(***************************************************************************)
EXTENDS Naturals, Sequences, FiniteSets, FiniteSetTheorems,
        SequenceTheorems, WellFoundedInduction, TLAPS

\* A set of naturals that has an element has a least one.
LEMMA LeastNatural ==
  ASSUME NEW T, T \subseteq Nat, T # {}
  PROVE  \E x \in T : \A y \in T : x <= y
<1> DEFINE U == {0 .. n : n \in T}
<1>1. IsWellFoundedOn(StrictSubsetOrdering(Nat), FiniteSubsetsOf(Nat))
  BY FS_StrictSubsetOrderingWellFounded
<1>2. U \subseteq FiniteSubsetsOf(Nat) /\ U # {}
  <2>1. ASSUME NEW n \in T PROVE IsFiniteSet(0 .. n) /\ 0 .. n \in SUBSET Nat
    <3>1. n \in Int /\ 0 \in Int
      OBVIOUS
    <3>2. IsFiniteSet(0 .. n)
      BY <3>1, FS_Interval
    <3> QED
      BY <3>1, <3>2
  <2> QED
    BY <2>1 DEF FiniteSubsetsOf
<1>3. PICK u \in U : \A v \in U : <<v, u>> \notin StrictSubsetOrdering(Nat)
  BY <1>1, <1>2, WFMin
<1>4. PICK x \in T : u = 0 .. x
  BY <1>3
<1>5. ASSUME NEW y \in T, y < x PROVE FALSE
  <2>1. <<0 .. y, 0 .. x>> \in StrictSubsetOrdering(Nat)
    BY <1>5 DEF StrictSubsetOrdering
  <2> QED
    BY <1>3, <1>4, <2>1
<1> QED
  BY <1>4, <1>5

LEMMA IntervalSize ==
  ASSUME NEW n \in Nat
  PROVE  IsFiniteSet(1 .. n) /\ Cardinality(1 .. n) = n
<1>1. 1 \in Int /\ n \in Int
  OBVIOUS
<1>2. /\ IsFiniteSet(1 .. n)
      /\ Cardinality(1 .. n) = IF 1 > n THEN 0 ELSE n - 1 + 1
  BY <1>1, FS_Interval
<1> QED
  BY <1>2

\* The first position of an element, 0 if there is none: what SelectInSeq finds.
LEMMA FirstPosition ==
  ASSUME NEW S, NEW s \in Seq(S), NEW x
  PROVE  LET I == {i \in 1 .. Len(s) : s[i] = x}
             u == IF I # {} THEN CHOOSE y \in I : \A z \in I : y =< z ELSE 0
         IN /\ u \in 0 .. Len(s)
            /\ u = 0 => \A i \in 1 .. Len(s) : s[i] # x
            /\ u # 0 => s[u] = x /\ \A i \in 1 .. u - 1 : s[i] # x
<1> DEFINE I == {i \in 1 .. Len(s) : s[i] = x}
           u == IF I # {} THEN CHOOSE y \in I : \A z \in I : y =< z ELSE 0
<1>1. Len(s) \in Nat
  BY LenProperties
<1>2. CASE I = {}
  BY <1>1, <1>2
<1>3. CASE I # {}
  <2>1. I \subseteq Nat
    BY <1>1
  <2>2. \E y \in I : \A z \in I : y =< z
    BY <1>3, <2>1, LeastNatural
  <2>3. u \in I /\ \A z \in I : u =< z
    BY <1>3, <2>2
  <2> HIDE DEF u
  <2>4. u \in 1 .. Len(s) /\ s[u] = x
    BY <2>3
  <2>5. ASSUME NEW i \in 1 .. u - 1 PROVE s[i] # x
    <3>1. i \in 1 .. Len(s) /\ ~ (u =< i)
      BY <1>1, <2>4
    <3> QED
      BY <2>3, <3>1
  <2>6. /\ u \in 0 .. Len(s)
        /\ u = 0 => \A i \in 1 .. Len(s) : s[i] # x
        /\ u # 0 => s[u] = x /\ \A i \in 1 .. u - 1 : s[i] # x
    BY <1>1, <2>4, <2>5
  <2> QED
    BY <2>6 DEF u
<1> QED
  BY <1>2, <1>3

-----------------------------------------------------------------------------
(* Sequences without repetition                                            *)

Elements(s) == {s[i] : i \in 1 .. Len(s)}

\* Nothing is twice in the sequence.
Distinct(s) == \A i, j \in 1 .. Len(s) : s[i] = s[j] => i = j

LEMMA EmptyElements ==
  Elements(<< >>) = {} /\ Distinct(<< >>)
BY DEF Elements, Distinct

\* Cutting a sequence in two.
LEMMA CutElements ==
  ASSUME NEW S, NEW s \in Seq(S), NEW k \in 0 .. Len(s), Distinct(s)
  PROVE  /\ SubSeq(s, 1, k) \in Seq(S) /\ SubSeq(s, k + 1, Len(s)) \in Seq(S)
         /\ Distinct(SubSeq(s, 1, k)) /\ Distinct(SubSeq(s, k + 1, Len(s)))
         /\ Elements(SubSeq(s, 1, k)) \cup Elements(SubSeq(s, k + 1, Len(s)))
              = Elements(s)
         /\ Elements(SubSeq(s, 1, k)) \cap Elements(SubSeq(s, k + 1, Len(s))) = {}
         /\ Len(SubSeq(s, 1, k)) = k
         /\ Len(SubSeq(s, k + 1, Len(s))) = Len(s) - k
<1> DEFINE n == Len(s)
           a == SubSeq(s, 1, k)
           b == SubSeq(s, k + 1, n)
<1>1. n \in Nat /\ k \in Nat /\ k <= n /\ \A i \in 1 .. n : s[i] \in S
  BY LenProperties
<1>2. /\ a \in Seq(S) /\ Len(a) = k
      /\ \A i \in 1 .. k : a[i] = s[i]
  <2>1. \A i \in 1 .. k : s[i] \in S
    BY <1>1
  <2>2. 1 \in Int /\ k \in Int
    BY <1>1
  <2>3. /\ a \in Seq(S) /\ Len(a) = IF 1 <= k THEN k - 1 + 1 ELSE 0
        /\ \A i \in 1 .. k - 1 + 1 : a[i] = s[1 + i - 1]
    BY <2>1, <2>2, SubSeqProperties
  <2> HIDE DEF a
  <2> QED
    BY <1>1, <2>3
<1>3. /\ b \in Seq(S) /\ Len(b) = n - k
      /\ \A i \in 1 .. n - k : b[i] = s[k + i]
  <2>1. \A i \in k + 1 .. n : s[i] \in S
    BY <1>1
  <2>2. k + 1 \in Int /\ n \in Int
    BY <1>1
  <2>3. /\ b \in Seq(S) /\ Len(b) = IF k + 1 <= n THEN n - (k + 1) + 1 ELSE 0
        /\ \A i \in 1 .. n - (k + 1) + 1 : b[i] = s[k + 1 + i - 1]
    BY <2>1, <2>2, SubSeqProperties
  <2> HIDE DEF b
  <2> QED
    BY <1>1, <2>3
<1> HIDE DEF a, b
<1>4. Distinct(a)
  <2>1. \A i \in 1 .. k : i \in 1 .. n
    BY <1>1
  <2> QED
    BY <1>2, <2>1 DEF Distinct
<1>5. Distinct(b)
  <2> SUFFICES ASSUME NEW i \in 1 .. n - k, NEW j \in 1 .. n - k, b[i] = b[j]
               PROVE  i = j
    BY <1>3 DEF Distinct
  <2>1. k + i \in 1 .. n /\ k + j \in 1 .. n
    BY <1>1
  <2>2. k + i = k + j
    BY <1>3, <2>1 DEF Distinct
  <2> QED
    BY <1>1, <2>2
<1>6. ASSUME NEW x \in Elements(a) PROVE \E i \in 1 .. k : x = s[i]
  BY <1>2 DEF Elements
<1>7. ASSUME NEW x \in Elements(b) PROVE \E i \in k + 1 .. n : x = s[i]
  <2>1. PICK i \in 1 .. n - k : x = s[k + i]
    BY <1>3 DEF Elements
  <2>2. k + i \in k + 1 .. n
    BY <1>1
  <2> QED
    BY <2>1, <2>2
<1>8. Elements(a) \cap Elements(b) = {}
  <2> SUFFICES ASSUME NEW x \in Elements(a), x \in Elements(b) PROVE FALSE
    OBVIOUS
  <2>1. PICK i \in 1 .. k, j \in k + 1 .. n : s[i] = s[j]
    BY <1>6, <1>7
  <2>2. i \in 1 .. n /\ j \in 1 .. n /\ i # j
    BY <1>1
  <2> QED
    BY <2>1, <2>2 DEF Distinct
<1>9. ASSUME NEW x \in Elements(s) PROVE x \in Elements(a) \cup Elements(b)
  <2>1. PICK i \in 1 .. n : x = s[i]
    BY DEF Elements
  <2>2. CASE i <= k
    BY <1>1, <1>2, <2>1, <2>2 DEF Elements
  <2>3. CASE ~ (i <= k)
    <3>1. i - k \in 1 .. n - k /\ k + (i - k) = i
      BY <1>1, <2>3
    <3>2. b[i - k] = x
      BY <1>3, <2>1, <3>1
    <3> QED
      BY <1>3, <3>1, <3>2 DEF Elements
  <2> QED
    BY <2>2, <2>3
<1>10. Elements(a) \cup Elements(b) \subseteq Elements(s)
  <2>1. \A i \in 1 .. k : i \in 1 .. n
    BY <1>1
  <2>2. \A i \in k + 1 .. n : i \in 1 .. n
    BY <1>1
  <2> QED
    BY <1>6, <1>7, <2>1, <2>2 DEF Elements
<1> QED
  BY <1>2, <1>3, <1>4, <1>5, <1>8, <1>9, <1>10 DEF a, b

LEMMA AppendElements ==
  ASSUME NEW S, NEW s \in Seq(S), NEW x \in S
  PROVE  /\ Append(s, x) \in Seq(S)
         /\ Elements(Append(s, x)) = Elements(s) \cup {x}
         /\ Distinct(s) /\ x \notin Elements(s) => Distinct(Append(s, x))
<1> DEFINE a == Append(s, x)
<1>1. /\ a \in Seq(S) /\ Len(a) = Len(s) + 1
      /\ \A i \in 1 .. Len(s) : a[i] = s[i]
      /\ a[Len(s) + 1] = x
  BY AppendProperties
<1> HIDE DEF a
<1>2. Len(s) \in Nat
  BY LenProperties
<1>3. /\ \A i \in 1 .. Len(a) : i \in 1 .. Len(s) \/ i = Len(s) + 1
      /\ \A i \in 1 .. Len(s) : i \in 1 .. Len(a)
      /\ Len(s) + 1 \in 1 .. Len(a) /\ Len(s) + 1 \notin 1 .. Len(s)
  BY <1>1, <1>2
<1>4. Elements(a) = Elements(s) \cup {x}
  <2>1. ASSUME NEW y \in Elements(a) PROVE y \in Elements(s) \cup {x}
    BY <1>1, <1>3 DEF Elements
  <2>2. ASSUME NEW y \in Elements(s) \cup {x} PROVE y \in Elements(a)
    BY <1>1, <1>3 DEF Elements
  <2> QED
    BY <2>1, <2>2
<1>5. ASSUME Distinct(s), x \notin Elements(s) PROVE Distinct(a)
  BY <1>1, <1>3, <1>5 DEF Distinct, Elements
<1> QED
  BY <1>1, <1>4, <1>5 DEF a

LEMMA HeadTailElements ==
  ASSUME NEW S, NEW s \in Seq(S), s # << >>
  PROVE  /\ Head(s) \in S /\ Tail(s) \in Seq(S)
         /\ Elements(s) = Elements(Tail(s)) \cup {Head(s)}
         /\ Len(Tail(s)) = Len(s) - 1
         /\ Distinct(s) => Distinct(Tail(s)) /\ Head(s) \notin Elements(Tail(s))
<1> DEFINE t == Tail(s)
<1>1. /\ Head(s) \in S /\ t \in Seq(S) /\ Len(t) = Len(s) - 1
      /\ \A i \in 1 .. Len(t) : t[i] = s[i + 1]
  BY HeadTailProperties
<1>2. Len(s) \in Nat \ {0} /\ Head(s) = s[1]
  BY EmptySeq
<1> HIDE DEF t
<1>3. /\ \A i \in 1 .. Len(t) : i + 1 \in 1 .. Len(s) /\ i + 1 # 1
      /\ \A i \in 1 .. Len(s) : i = 1 \/ (i - 1 \in 1 .. Len(t) /\ (i - 1) + 1 = i)
      /\ 1 \in 1 .. Len(s)
      /\ \A i, j \in 1 .. Len(t) : i + 1 = j + 1 => i = j
  BY <1>1, <1>2
<1>4. \A i \in 1 .. Len(s) : i = 1 \/ (i - 1 \in 1 .. Len(t) /\ t[i - 1] = s[i])
  BY <1>1, <1>3
<1>5. Elements(s) = Elements(t) \cup {Head(s)}
  <2>1. ASSUME NEW y \in Elements(s) PROVE y \in Elements(t) \cup {Head(s)}
    BY <1>2, <1>4 DEF Elements
  <2>2. ASSUME NEW y \in Elements(t) PROVE y \in Elements(s)
    <3>1. PICK i \in 1 .. Len(t) : y = s[i + 1]
      BY <1>1 DEF Elements
    <3> QED
      BY <1>3, <3>1 DEF Elements
  <2>3. Head(s) \in Elements(s)
    BY <1>2, <1>3 DEF Elements
  <2> QED
    BY <2>1, <2>2, <2>3
<1>6. ASSUME Distinct(s) PROVE Distinct(t) /\ Head(s) \notin Elements(t)
  <2>1. \A i, j \in 1 .. Len(t) : t[i] = t[j] => i + 1 = j + 1
    BY <1>1, <1>3, <1>6 DEF Distinct
  <2>2. \A i \in 1 .. Len(t) : t[i] # s[1]
    BY <1>1, <1>3, <1>6 DEF Distinct
  <2> QED
    BY <1>2, <1>3, <2>1, <2>2 DEF Distinct, Elements
<1> QED
  BY <1>1, <1>5, <1>6 DEF t

LEMMA ReversedElements ==
  ASSUME NEW S, NEW s \in Seq(S), NEW r \in Seq(S), Len(r) = Len(s),
         \A i \in 1 .. Len(s) : r[i] = s[(Len(s) - i) + 1]
  PROVE  Elements(r) = Elements(s) /\ (Distinct(s) => Distinct(r))
<1>1. Len(s) \in Nat
  BY LenProperties
<1>2. \A i \in 1 .. Len(s) : /\ (Len(s) - i) + 1 \in 1 .. Len(s)
                             /\ (Len(s) - ((Len(s) - i) + 1)) + 1 = i
  BY <1>1
<1>3. \A i, j \in 1 .. Len(s) : (Len(s) - i) + 1 = (Len(s) - j) + 1 => i = j
  BY <1>1
<1>4. \A i \in 1 .. Len(s) : r[(Len(s) - i) + 1] = s[i]
  BY <1>2
<1>5. Elements(r) = Elements(s)
  <2>1. ASSUME NEW x \in Elements(r) PROVE x \in Elements(s)
    BY <1>2 DEF Elements
  <2>2. ASSUME NEW x \in Elements(s) PROVE x \in Elements(r)
    BY <1>2, <1>4 DEF Elements
  <2> QED
    BY <2>1, <2>2
<1>6. ASSUME Distinct(s), NEW i \in 1 .. Len(r), NEW j \in 1 .. Len(r), r[i] = r[j]
      PROVE  i = j
  <2>1. i \in 1 .. Len(s) /\ j \in 1 .. Len(s)
    BY <1>6
  <2>2. s[(Len(s) - i) + 1] = s[(Len(s) - j) + 1]
    BY <1>6, <2>1
  <2>3. (Len(s) - i) + 1 = (Len(s) - j) + 1
    BY <1>2, <1>6, <2>1, <2>2 DEF Distinct
  <2> QED
    BY <1>3, <2>1, <2>3
<1> QED
  BY <1>5, <1>6 DEF Distinct

\* Taking the element at a position out of a sequence.
LEMMA RemovedElements ==
  ASSUME NEW S, NEW s \in Seq(S), NEW k \in 1 .. Len(s), Distinct(s)
  PROVE  LET r == SubSeq(s, 1, k - 1) \o SubSeq(s, k + 1, Len(s))
         IN /\ r \in Seq(S) /\ Len(r) = Len(s) - 1
            /\ Elements(r) = Elements(s) \ {s[k]}
            /\ Distinct(r)
<1> DEFINE a == SubSeq(s, 1, k - 1)
           b == SubSeq(s, k + 1, Len(s))
           r == a \o b
           n == Len(s)
<1>1. n \in Nat /\ k \in Nat \ {0} /\ k <= n /\ k - 1 \in 0 .. n /\ k \in 0 .. n
  BY LenProperties
<1>2. /\ a \in Seq(S) /\ b \in Seq(S) /\ Len(a) = k - 1 /\ Len(b) = n - k
  <2>1. a \in Seq(S) /\ Len(a) = k - 1
    BY <1>1, CutElements
  <2>2. b \in Seq(S) /\ Len(b) = n - k
    BY <1>1, CutElements
  <2> QED
    BY <2>1, <2>2
<1>3. /\ \A i \in 1 .. k - 1 : a[i] = s[i]
      /\ \A i \in 1 .. n - k : b[i] = s[k + i]
  <2>0. \A i \in 1 .. n : s[i] \in S
    BY LenProperties
  <2>1. \A i \in 1 .. k - 1 : a[i] = s[i]
    <3>1. \A i \in 1 .. k - 1 : s[i] \in S
      BY <1>1, <2>0
    <3>2. 1 \in Int /\ k - 1 \in Int
      BY <1>1
    <3>3. \A i \in 1 .. (k - 1) - 1 + 1 : a[i] = s[1 + i - 1]
      BY <3>1, <3>2, SubSeqProperties
    <3> HIDE DEF a
    <3> QED
      BY <1>1, <3>3
  <2>2. \A i \in 1 .. n - k : b[i] = s[k + i]
    <3>1. \A i \in k + 1 .. n : s[i] \in S
      BY <1>1, <2>0
    <3>2. k + 1 \in Int /\ n \in Int
      BY <1>1
    <3>3. \A i \in 1 .. n - (k + 1) + 1 : b[i] = s[k + 1 + i - 1]
      BY <3>1, <3>2, SubSeqProperties
    <3> HIDE DEF b
    <3> QED
      BY <1>1, <3>3
  <2> QED
    BY <2>1, <2>2
<1> HIDE DEF a, b
<1>4. /\ r \in Seq(S) /\ Len(r) = Len(a) + Len(b)
      /\ \A i \in 1 .. Len(a) + Len(b) : r[i] =
            IF i <= Len(a) THEN a[i] ELSE b[i - Len(a)]
  BY <1>2, ConcatProperties
<1> HIDE DEF r
\* The place in s of the i-th element of r.
<1> DEFINE g(i) == IF i < k THEN i ELSE i + 1
<1>5. Len(r) = n - 1 /\ \A i \in 1 .. n - 1 : r[i] = s[g(i)]
  <2>1. Len(r) = n - 1
    BY <1>1, <1>2, <1>4
  <2>2. ASSUME NEW i \in 1 .. n - 1 PROVE r[i] = s[g(i)]
    <3>1. i \in 1 .. Len(a) + Len(b)
      BY <1>1, <1>2
    <3>2. CASE i < k
      <4>1. i <= Len(a) /\ i \in 1 .. k - 1
        BY <1>1, <1>2, <3>2
      <4> QED
        BY <1>3, <1>4, <3>1, <3>2, <4>1
    <3>3. CASE ~ (i < k)
      <4>1. ~ (i <= Len(a)) /\ i - Len(a) \in 1 .. n - k /\ k + (i - Len(a)) = i + 1
        BY <1>1, <1>2, <3>3
      <4> QED
        BY <1>3, <1>4, <3>1, <3>3, <4>1
    <3> QED
      BY <3>2, <3>3
  <2> QED
    BY <2>1, <2>2
<1>6. /\ \A i \in 1 .. n - 1 : g(i) \in 1 .. n /\ g(i) # k
      /\ \A i, j \in 1 .. n - 1 : g(i) = g(j) => i = j
      /\ \A j \in 1 .. n : j # k => \E i \in 1 .. n - 1 : g(i) = j
  <2>1. \A i \in 1 .. n - 1 : g(i) \in 1 .. n /\ g(i) # k
    BY <1>1
  <2>2. \A i, j \in 1 .. n - 1 : g(i) = g(j) => i = j
    BY <1>1
  <2>3. ASSUME NEW j \in 1 .. n, j # k PROVE \E i \in 1 .. n - 1 : g(i) = j
    <3>1. CASE j < k
      <4>1. j \in 1 .. n - 1 /\ g(j) = j
        BY <1>1, <3>1
      <4> QED
        BY <4>1
    <3>2. CASE ~ (j < k)
      <4>1. j - 1 \in 1 .. n - 1 /\ g(j - 1) = j
        BY <1>1, <2>3, <3>2
      <4> QED
        BY <4>1
    <3> QED
      BY <3>1, <3>2
  <2> QED
    BY <2>1, <2>2, <2>3
<1> HIDE DEF g
<1>7. ASSUME NEW i \in 1 .. Len(r), NEW j \in 1 .. Len(r), r[i] = r[j]
      PROVE  i = j
  <2>1. i \in 1 .. n - 1 /\ j \in 1 .. n - 1
    BY <1>5
  <2>2. s[g(i)] = s[g(j)]
    BY <1>5, <1>7, <2>1
  <2>3. g(i) = g(j)
    BY <1>6, <2>1, <2>2 DEF Distinct
  <2> QED
    BY <1>6, <2>1, <2>3
<1>8. Elements(r) = Elements(s) \ {s[k]}
  <2>1. ASSUME NEW x \in Elements(r) PROVE x \in Elements(s) /\ x # s[k]
    <3>1. PICK i \in 1 .. n - 1 : x = s[g(i)]
      BY <1>5 DEF Elements
    <3> QED
      BY <1>6, <3>1 DEF Elements, Distinct
  <2>2. ASSUME NEW x \in Elements(s), x # s[k] PROVE x \in Elements(r)
    <3>1. PICK j \in 1 .. n : x = s[j]
      BY DEF Elements
    <3>2. PICK i \in 1 .. n - 1 : g(i) = j
      BY <1>6, <2>2, <3>1
    <3> QED
      BY <1>5, <3>1, <3>2 DEF Elements
  <2> QED
    BY <2>1, <2>2
<1> QED
  BY <1>4, <1>5, <1>7, <1>8 DEF r, a, b, Distinct

-----------------------------------------------------------------------------
(* Sets of a family that share nothing and have all of S                   *)

Partition(E, S) ==
  /\ \A a \in DOMAIN E : E[a] \subseteq S
  /\ \A a, b \in DOMAIN E : a # b => E[a] \cap E[b] = {}
  /\ \A t \in S : \E a \in DOMAIN E : t \in E[a]

\* What two of the sets have is shared out between them anew.
LEMMA MovePart ==
  ASSUME NEW E, NEW S, Partition(E, S), NEW a \in DOMAIN E, NEW b \in DOMAIN E,
         a # b, NEW F, DOMAIN F = DOMAIN E,
         F[a] \cup F[b] = E[a] \cup E[b], F[a] \cap F[b] = {},
         \A d \in DOMAIN E \ {a, b} : F[d] = E[d]
  PROVE  Partition(F, S)
<1>1. \A d \in DOMAIN F : F[d] \subseteq S
  BY DEF Partition
<1>2. ASSUME NEW d \in DOMAIN F, NEW e \in DOMAIN F, d # e
      PROVE  F[d] \cap F[e] = {}
  <2>1. CASE d \in {a, b} /\ e \in {a, b}
    BY <1>2, <2>1
  <2>2. CASE d \in {a, b} /\ e \notin {a, b}
    BY <2>2 DEF Partition
  <2>3. CASE d \notin {a, b} /\ e \in {a, b}
    BY <2>3 DEF Partition
  <2>4. CASE d \notin {a, b} /\ e \notin {a, b}
    BY <1>2, <2>4 DEF Partition
  <2> QED
    BY <2>1, <2>2, <2>3, <2>4
<1>3. ASSUME NEW t \in S PROVE \E d \in DOMAIN F : t \in F[d]
  <2>1. PICK e \in DOMAIN E : t \in E[e]
    BY DEF Partition
  <2> QED
    BY <2>1
<1> QED
  BY <1>1, <1>2, <1>3 DEF Partition

\* One of them gets a new element.
LEMMA InsertPart ==
  ASSUME NEW E, NEW S, Partition(E, S), NEW a \in DOMAIN E, NEW t, t \notin S,
         NEW F, DOMAIN F = DOMAIN E, F[a] = E[a] \cup {t},
         \A d \in DOMAIN E \ {a} : F[d] = E[d]
  PROVE  Partition(F, S \cup {t})
BY DEF Partition

\* One of them loses an element, and so does the whole.
LEMMA DeletePart ==
  ASSUME NEW E, NEW S, Partition(E, S), NEW a \in DOMAIN E, NEW t \in E[a],
         NEW F, DOMAIN F = DOMAIN E, F[a] = E[a] \ {t},
         \A d \in DOMAIN E \ {a} : F[d] = E[d]
  PROVE  Partition(F, S \ {t})
BY DEF Partition

\* They are renamed; a name that is not used any more had nothing.
LEMMA RenamePart ==
  ASSUME NEW E, NEW S, Partition(E, S), NEW F, DOMAIN F = DOMAIN E,
         NEW g \in [DOMAIN E -> DOMAIN E],
         \A a, b \in DOMAIN E : g[a] = g[b] => a = b,
         \A a \in DOMAIN E : F[a] = E[g[a]],
         \A b \in DOMAIN E : E[b] # {} => \E a \in DOMAIN E : g[a] = b
  PROVE  Partition(F, S)
<1>1. \A d \in DOMAIN F : F[d] \subseteq S
  BY DEF Partition
<1>2. \A d, e \in DOMAIN F : d # e => F[d] \cap F[e] = {}
  BY DEF Partition
<1>3. ASSUME NEW t \in S PROVE \E d \in DOMAIN F : t \in F[d]
  <2>1. PICK b \in DOMAIN E : t \in E[b]
    BY DEF Partition
  <2>2. PICK a \in DOMAIN E : g[a] = b
    BY <2>1
  <2> QED
    BY <2>1, <2>2
<1> QED
  BY <1>1, <1>2, <1>3 DEF Partition

\* A set that gains one element at most.
LEMMA OneMore ==
  ASSUME NEW S, IsFiniteSet(S), NEW x, NEW T \in SUBSET (S \cup {x})
  PROVE  /\ IsFiniteSet(T) /\ Cardinality(T) <= Cardinality(S) + 1
         /\ Cardinality(T) \in Nat /\ Cardinality(S) \in Nat
<1> DEFINE U == S \cup {x}
<1>1. Cardinality(S) \in Nat
  BY FS_CardinalityType
<1>2. /\ IsFiniteSet(U)
      /\ Cardinality(U) = IF x \in S THEN Cardinality(S) ELSE Cardinality(S) + 1
  BY FS_AddElement
<1>3. T \subseteq U
  OBVIOUS
<1> HIDE DEF U
<1>4. IsFiniteSet(T) /\ Cardinality(T) <= Cardinality(U)
  BY <1>2, <1>3, FS_Subset
<1>5. Cardinality(T) \in Nat
  BY <1>4, FS_CardinalityType
<1> QED
  BY <1>1, <1>2, <1>4, <1>5

-----------------------------------------------------------------------------
(* Families of disjoint sets that need not cover anything                  *)

Apart(E) == \A a, b \in DOMAIN E : a # b => E[a] \cap E[b] = {}

\* Two of the sets share out what they had and what is new to all; the others
\* do not grow.
LEMMA ApartStep ==
  ASSUME NEW E, Apart(E), NEW a \in DOMAIN E, NEW b \in DOMAIN E, NEW N,
         \A d \in DOMAIN E : E[d] \cap N = {},
         NEW F, DOMAIN F = DOMAIN E,
         F[a] \cup F[b] \subseteq E[a] \cup E[b] \cup N,
         a # b => F[a] \cap F[b] = {},
         \A d \in DOMAIN E \ {a, b} : F[d] \subseteq E[d]
  PROVE  Apart(F)
<1> SUFFICES ASSUME NEW d \in DOMAIN E, NEW e \in DOMAIN E, d # e
             PROVE  F[d] \cap F[e] = {}
  BY DEF Apart
<1>1. CASE d \in {a, b} /\ e \in {a, b}
  BY <1>1
<1>2. CASE d \in {a, b} /\ e \notin {a, b}
  BY <1>2 DEF Apart
<1>3. CASE d \notin {a, b} /\ e \in {a, b}
  BY <1>3 DEF Apart
<1>4. CASE d \notin {a, b} /\ e \notin {a, b}
  BY <1>4 DEF Apart
<1> QED
  BY <1>1, <1>2, <1>3, <1>4
=============================================================================

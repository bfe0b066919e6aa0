-------------------------- MODULE SequentialProof --------------------------
(***************************************************************************)
(* Of what runs within one thread: the intersection kernels lose nothing   *)
(* and add nothing, the file streams read back what they wrote, and the    *)
(* join of gquery answers a pattern with its matches.                      *)
(*                                                                         *)
(* The searches and the rows of a block are recursive functions.  That a   *)
(* recursion has the value it should have is shown from a function that    *)
(* satisfies its equation and from the least argument at which another one *)
(* could differ from it, or at which a wrong value could come back:        *)
(* natural numbers are well-founded, and no rule of induction over a       *)
(* formula is needed.                                                      *)
(***************************************************************************)
EXTENDS Sequential, ProofLemmas

-----------------------------------------------------------------------------
(* Searching                                                               *)

\* p is the first position from b on that is not below val, or e.
IsFirst(a, b, e, val, p) ==
  /\ p \in b .. e
  /\ \A k \in b .. p - 1 : At(a, k) < val
  /\ \A k \in p .. e - 1 : At(a, k) >= val

FirstOf(a, b, e, val) == IF b < e THEN b + Below(a, b, e - b, val) ELSE e

LEMMA InList ==
  ASSUME NEW a \in Seq(Int), NonDecreasing(a)
  PROVE  /\ Len(a) \in Nat /\ DOMAIN a = 1 .. Len(a)
         /\ \A k \in 0 .. Len(a) - 1 : At(a, k) \in Int
         /\ \A j, k \in 0 .. Len(a) - 1 : j < k => At(a, j) <= At(a, k)
<1>1. Len(a) \in Nat /\ DOMAIN a = 1 .. Len(a)
  OBVIOUS
<1>2. \A k \in 0 .. Len(a) - 1 : At(a, k) = a[k + 1] /\ k + 1 \in 1 .. Len(a)
  BY <1>1 DEF At
<1>3. \A k \in 1 .. Len(a) : a[k] \in Int
  OBVIOUS
<1>4. \A k \in 0 .. Len(a) - 1 : At(a, k) \in Int
  BY <1>2, <1>3
<1>5. ASSUME NEW j \in 0 .. Len(a) - 1, NEW k \in 0 .. Len(a) - 1, j < k
      PROVE  At(a, j) <= At(a, k)
  <2>1. j + 1 \in 1 .. Len(a) /\ k + 1 \in 1 .. Len(a) /\ j + 1 < k + 1
    BY <1>1, <1>5
  <2>2. a[j + 1] <= a[k + 1]
    BY <2>1, <1>1 DEF NonDecreasing
  <2> QED
    BY <2>2, <1>2
<1> QED
  BY <1>1, <1>4, <1>5

\* What is counted as below val is a prefix of the elements looked at.
LEMMA BelowIsFirst ==
  ASSUME NEW a \in Seq(Int), NonDecreasing(a), NEW b \in Nat, NEW n \in Nat,
         b + n <= Len(a), NEW val \in Int
  PROVE  /\ Below(a, b, n, val) \in 0 .. n
         /\ IsFirst(a, b, b + n, val, b + Below(a, b, n, val))
<1> DEFINE S == {k \in b .. b + n - 1 : At(a, k) < val}
           c == Cardinality(S)
<1>1. /\ \A k \in b .. b + n - 1 : At(a, k) \in Int
      /\ \A j, k \in b .. b + n - 1 : j < k => At(a, j) <= At(a, k)
  <2>1. b .. b + n - 1 \subseteq 0 .. Len(a) - 1
    BY InList
  <2> QED
    BY <2>1, InList
<1>2. /\ IsFiniteSet(b .. b + n - 1) /\ Cardinality(b .. b + n - 1) = n
  <2>1. /\ IsFiniteSet(b .. b + n - 1)
        /\ Cardinality(b .. b + n - 1) =
             IF b > b + n - 1 THEN 0 ELSE (b + n - 1) - b + 1
    BY b \in Int, b + n - 1 \in Int, FS_Interval
  <2> QED
    BY <2>1
<1>3. IsFiniteSet(S) /\ c \in Nat /\ c <= n
  BY <1>2, S \subseteq b .. b + n - 1, FS_Subset, FS_CardinalityType
<1>4. ASSUME NEW k \in S
      PROVE  k < b + c
  <2>1. b .. k \subseteq S
    <3>1. ASSUME NEW j \in b .. k PROVE j \in S
      <4>1. j \in b .. b + n - 1 /\ k \in b .. b + n - 1 /\ At(a, k) < val
        OBVIOUS
      <4>2. j = k \/ j < k
        OBVIOUS
      <4>3. CASE j < k
        <5>1. At(a, j) <= At(a, k) /\ At(a, j) \in Int /\ At(a, k) \in Int
          BY <4>1, <4>3, <1>1
        <5> QED
          BY <5>1, <4>1
      <4> QED
        BY <4>1, <4>2, <4>3
    <3> QED
      BY <3>1
  <2>2. Cardinality(b .. k) = k - b + 1
    BY b \in Int, k \in Int, k >= b, FS_Interval
  <2>3. Cardinality(b .. k) <= c
    BY <2>1, <1>3, FS_Subset
  <2> QED
    BY <2>2, <2>3, <1>3
<1>5. S = b .. b + c - 1
  <2> HIDE DEF c
  <2>1. S \subseteq b .. b + c - 1
    <3>1. ASSUME NEW k \in S PROVE k \in b .. b + c - 1
      <4>1. k \in b .. b + n - 1
        OBVIOUS
      <4> QED
        BY <1>4, <1>3, <4>1
    <3> QED
      BY <3>1
  <2>2. IsFiniteSet(b .. b + c - 1) /\ Cardinality(b .. b + c - 1) = c
    <3> HIDE DEF S
    <3>0. b \in Int /\ b + c - 1 \in Int
      BY <1>3
    <3>1. /\ IsFiniteSet(b .. b + c - 1)
          /\ Cardinality(b .. b + c - 1) =
               IF b > b + c - 1 THEN 0 ELSE (b + c - 1) - b + 1
      BY <3>0, FS_Interval
    <3> QED
      BY <3>1, <1>3
  <2>3. c = Cardinality(S)
    BY DEF c
  <2> HIDE DEF S
  <2> QED
    BY <2>1, <2>2, <2>3, FS_Subset
<1>6. Below(a, b, n, val) = c
  BY DEF Below
<1>7. ASSUME NEW k \in b + c .. b + n - 1 PROVE At(a, k) >= val
  <2>1. k \in b .. b + n - 1 /\ k \notin S
    <3> HIDE DEF S, c
    <3> QED
      BY <1>5, <1>3
  <2> QED
    BY <2>1, <1>1
<1>8. \A k \in b .. b + c - 1 : At(a, k) < val
  BY <1>5
<1> HIDE DEF S, c
<1> QED
  BY <1>6, <1>7, <1>8, <1>3 DEF IsFirst

LEMMA FirstUnique ==
  ASSUME NEW a \in Seq(Int), NonDecreasing(a), NEW b \in Nat, NEW e \in 0 .. Len(a),
         NEW val \in Int, NEW p, NEW q, IsFirst(a, b, e, val, p), IsFirst(a, b, e, val, q)
  PROVE  p = q
<1>1. /\ p \in Int /\ q \in Int /\ b <= p /\ p <= e /\ b <= q /\ q <= e
      /\ Len(a) \in Nat
  BY DEF IsFirst
<1>2. ASSUME NEW x \in b .. e, NEW y \in b .. e, x < y,
             At(a, x) < val, At(a, x) >= val
      PROVE  FALSE
  <2>1. x \in 0 .. Len(a) - 1
    BY <1>1, <1>2
  <2>2. At(a, x) \in Int
    BY <2>1, InList
  <2> QED
    BY <2>2, <1>2
<1>3. CASE p < q
  <2>1. p \in b .. q - 1 /\ p \in p .. e - 1
    BY <1>1, <1>3
  <2> QED
    BY <2>1, <1>1, <1>2, <1>3 DEF IsFirst
<1>4. CASE q < p
  <2>1. q \in b .. p - 1 /\ q \in q .. e - 1
    BY <1>1, <1>4
  <2> QED
    BY <2>1, <1>1, <1>2, <1>4 DEF IsFirst
<1> QED
  BY <1>1, <1>3, <1>4

LEMMA FirstOfIs ==
  ASSUME NEW a \in Seq(Int), NonDecreasing(a), NEW b \in Nat, NEW e \in b .. Len(a),
         NEW val \in Int
  PROVE  IsFirst(a, b, e, val, FirstOf(a, b, e, val))
<1>1. Len(a) \in Nat
  OBVIOUS
<1>2. CASE b < e
  <2>1. e - b \in Nat /\ b + (e - b) = e
    BY <1>2, <1>1
  <2>2. IsFirst(a, b, b + (e - b), val, b + Below(a, b, e - b, val))
    BY <2>1, <1>1, BelowIsFirst
  <2> QED
    BY <2>1, <2>2, <1>2 DEF FirstOf
<1>3. CASE b = e
  BY <1>3, <1>1 DEF FirstOf, IsFirst
<1> QED
  BY <1>1, <1>2, <1>3

\* To be recognised by.
LEMMA FirstOfBy ==
  ASSUME NEW a \in Seq(Int), NonDecreasing(a), NEW b \in Nat, NEW e \in b .. Len(a),
         NEW val \in Int, NEW p, IsFirst(a, b, e, val, p)
  PROVE  FirstOf(a, b, e, val) = p
<1>1. e \in 0 .. Len(a)
  OBVIOUS
<1> QED
  BY <1>1, FirstOfIs, FirstUnique

\* A larger part of a list, if what is added in front is below val.
LEMMA FirstOfBelow ==
  ASSUME NEW a \in Seq(Int), NonDecreasing(a), NEW b \in Nat, NEW e \in 0 .. Len(a),
         NEW val \in Int, NEW c \in b .. e, \A k \in b .. c - 1 : At(a, k) < val
  PROVE  FirstOf(a, b, e, val) = FirstOf(a, c, e, val)
<1>1. /\ Len(a) \in Nat /\ c \in Nat /\ e \in b .. Len(a) /\ e \in c .. Len(a)
  OBVIOUS
<1>2. IsFirst(a, c, e, val, FirstOf(a, c, e, val))
  BY <1>1, FirstOfIs
<1> DEFINE p == FirstOf(a, c, e, val)
<1>3. IsFirst(a, b, e, val, p)
  <2>1. /\ p \in c .. e
        /\ \A k \in c .. p - 1 : At(a, k) < val
        /\ \A k \in p .. e - 1 : At(a, k) >= val
    BY <1>2 DEF IsFirst
  <2> HIDE DEF p
  <2>2. p \in b .. e
    BY <2>1, <1>1
  <2>3. \A k \in b .. p - 1 : k \in b .. c - 1 \/ k \in c .. p - 1
    BY <2>1, <1>1
  <2> QED
    BY <2>1, <2>2, <2>3 DEF IsFirst
<1> QED
  BY <1>1, <1>3, FirstOfBy

\* What w elements tell of a larger part: where its first one is, or that it is
\* behind them.
LEMMA Block ==
  ASSUME NEW a \in Seq(Int), NonDecreasing(a), NEW e \in 0 .. Len(a), NEW val \in Int,
         NEW b \in Nat, NEW w \in Nat, b + w <= e, NEW n, n = Below(a, b, w, val)
  PROVE  /\ n \in 0 .. w
         /\ n < w => FirstOf(a, b, e, val) = b + n
         /\ ~ (n < w) => /\ FirstOf(a, b, e, val) = FirstOf(a, b + w, e, val)
                         /\ \A k \in b .. b + w - 1 : At(a, k) < val
<1>1. Len(a) \in Nat /\ b + w <= Len(a)
  OBVIOUS
<1>2. n \in 0 .. w /\ IsFirst(a, b, b + w, val, b + n)
  BY <1>1, BelowIsFirst
<1>3. CASE n < w
  <2>1. /\ b + n \in b .. e
        /\ \A k \in b .. b + n - 1 : At(a, k) < val
        /\ \A k \in b + n .. b + w - 1 : At(a, k) >= val
    BY <1>1, <1>2 DEF IsFirst
  <2>0. n \in Nat /\ n < w /\ e <= Len(a) /\ b + w <= e /\ e \in Nat
    BY <1>2, <1>3
  <2>2. At(a, b + n) >= val /\ At(a, b + n) \in Int
    <3>1. b + n \in b + n .. b + w - 1 /\ b + n \in 0 .. Len(a) - 1
      BY ONLY <2>0, <1>1, b \in Nat, w \in Nat
    <3> QED
      BY <2>1, <3>1, InList
  <2>4. PICK q : q = b + n
    OBVIOUS
  <2>3. ASSUME NEW k \in b + n .. e - 1 PROVE At(a, k) >= val
    <3>1. /\ k \in 0 .. Len(a) - 1 /\ b + n \in 0 .. Len(a) - 1
          /\ k = b + n \/ b + n < k
      BY ONLY <2>0, <1>1, b \in Nat, w \in Nat, k \in b + n .. e - 1
    <3>2. At(a, k) \in Int /\ (b + n < k => At(a, b + n) <= At(a, k))
      BY <3>1, InList
    <3>3. val \in Int
      OBVIOUS
    <3>4. PICK x, y : x = At(a, q) /\ y = At(a, k)
      OBVIOUS
    <3>5. x >= val /\ x \in Int /\ y \in Int /\ (y = x \/ x <= y)
      BY <3>1, <3>2, <3>4, <2>2, <2>4
    <3> QED
      BY ONLY <3>3, <3>4, <3>5
  <2>5. IsFirst(a, b, e, val, q)
    BY <2>1, <2>3, <2>4, <1>2 DEF IsFirst
  <2>6. e \in b .. Len(a)
    BY <1>1
  <2>7. FirstOf(a, b, e, val) = q
    BY <2>5, <2>6, FirstOfBy
  <2> QED
    BY <2>7, <2>4, <1>2, <1>3
<1>4. CASE ~ (n < w)
  <2>1. n = w
    BY <1>2, <1>4
  <2>2. \A k \in b .. b + w - 1 : At(a, k) < val
    BY <2>1, <1>2 DEF IsFirst
  <2>3. PICK c : c = b + w
    OBVIOUS
  <2>4. c \in b .. e /\ \A k \in b .. c - 1 : At(a, k) < val
    BY <2>2, <2>3
  <2>5. FirstOf(a, b, e, val) = FirstOf(a, c, e, val)
    BY <2>4, FirstOfBelow
  <2> QED
    BY <2>2, <2>3, <2>5, <1>2, <1>4
<1> QED
  BY <1>3, <1>4, <1>2

\* A round of the scan, and the lanes at its end.
LEMMA ScanRound ==
  ASSUME NEW a \in Seq(Int), NonDecreasing(a), NEW e \in 0 .. Len(a), NEW val \in Int,
         NEW b \in Nat
  PROVE  FirstOf(a, b, e, val) =
           IF b + LANES <= e
           THEN LET n == Below(a, b, LANES, val)
                IN IF n < LANES THEN b + n ELSE FirstOf(a, b + LANES, e, val)
           ELSE IF b < e THEN LastLanes(a, b, e, val) ELSE e
<1>1. LANES \in Nat \ {0} /\ Len(a) \in Nat
  BY IntersectionAssumption
<1>2. CASE b + LANES <= e
  <2> DEFINE n == Below(a, b, LANES, val)
  <2>1. /\ n < LANES => FirstOf(a, b, e, val) = b + n
        /\ ~ (n < LANES) => FirstOf(a, b, e, val) = FirstOf(a, b + LANES, e, val)
    BY <1>1, <1>2, Block
  <2> QED
    BY <2>1, <1>2
<1>3. CASE ~ (b + LANES <= e) /\ b < e
  <2>1. e - b \in Nat /\ b + (e - b) = e /\ b + (e - b) <= Len(a)
    BY <1>1, <1>3
  <2> DEFINE n == Below(a, b, e - b, val)
  <2>2. n \in 0 .. e - b
    BY <2>1, BelowIsFirst
  <2>3. LastLanes(a, b, e, val) = b + n
    <3>1. LastLanes(a, b, e, val) = IF n < e - b THEN b + n ELSE e
      BY DEF LastLanes
    <3> HIDE DEF n
    <3> QED
      BY <3>1, <2>2, <2>1
  <2>4. FirstOf(a, b, e, val) = b + n
    BY <1>3 DEF FirstOf
  <2> HIDE DEF n
  <2> QED
    BY <2>3, <2>4, <1>3
<1>4. CASE ~ (b + LANES <= e) /\ ~ (b < e)
  BY <1>4 DEF FirstOf
<1> QED
  BY <1>2, <1>3, <1>4

\* The scan: the recursion defines one function.
LEMMA ScanIs ==
  ASSUME NEW a \in Seq(Int), NonDecreasing(a), NEW e \in 0 .. Len(a), NEW val \in Int,
         NEW beg \in Nat
  PROVE  Scan(a, beg, e, val) = FirstOf(a, beg, e, val)
<1> DEFINE F == [b \in Nat |-> FirstOf(a, b, e, val)]
           R(f) == [b \in Nat |->
                      IF b + LANES <= e
                      THEN LET n == Below(a, b, LANES, val)
                           IN IF n < LANES THEN b + n ELSE f[b + LANES]
                      ELSE IF b < e THEN LastLanes(a, b, e, val) ELSE e]
<1>1. LANES \in Nat \ {0} /\ Len(a) \in Nat /\ e \in Nat
  BY IntersectionAssumption
<1>2. F = R(F)
  <2>1. ASSUME NEW b \in Nat PROVE F[b] = R(F)[b]
    <3>1. b + LANES \in Nat
      BY <1>1
    <3>2. F[b + LANES] = FirstOf(a, b + LANES, e, val)
      BY <3>1
    <3> QED
      BY <3>2, ScanRound
  <2> QED
    BY <2>1
<1>3. ASSUME NEW f, f = R(f), NEW T, T = {m \in Nat : \E b \in Nat : m + b >= e /\ f[b] # F[b]}
      PROVE  T = {}
  <2> SUFFICES ASSUME T # {} PROVE FALSE
    OBVIOUS
  <2>1. PICK m \in T : \A y \in T : m <= y
    BY LeastNatural, <1>3
  <2>2. PICK b \in Nat : m + b >= e /\ f[b] # F[b]
    BY <1>3
  <2>3. f[b] = IF b + LANES <= e
               THEN LET n == Below(a, b, LANES, val)
                    IN IF n < LANES THEN b + n ELSE f[b + LANES]
               ELSE IF b < e THEN LastLanes(a, b, e, val) ELSE e
    BY <1>3
  <2>4. F[b] = IF b + LANES <= e
               THEN LET n == Below(a, b, LANES, val)
                    IN IF n < LANES THEN b + n ELSE F[b + LANES]
               ELSE IF b < e THEN LastLanes(a, b, e, val) ELSE e
    BY <1>2
  <2>5. b + LANES <= e /\ f[b + LANES] # F[b + LANES]
    <3> HIDE DEF F, R
    <3> QED
      BY <2>2, <2>3, <2>4
  <2>6. /\ m - LANES \in Nat /\ b + LANES \in Nat /\ (m - LANES) + (b + LANES) >= e
        /\ m - LANES < m
    BY <2>2, <2>5, <1>1, <1>3
  <2> HIDE DEF F, R
  <2>7. m - LANES \in T
    BY <2>5, <2>6, <1>3
  <2>8. m <= m - LANES
    BY <2>7, <2>1
  <2>9. m \in Nat /\ m - LANES \in Nat
    BY <2>6, <1>3
  <2> QED
    BY <2>8, <2>9, <2>6
<1>4. \A f : f = R(f) => f[beg] = F[beg]
  <2> SUFFICES ASSUME NEW f, f = R(f) PROVE f[beg] = F[beg]
    OBVIOUS
  <2> DEFINE T == {m \in Nat : \E b \in Nat : m + b >= e /\ f[b] # F[b]}
  <2>1. T = {}
    <3> HIDE DEF F, R
    <3> QED
      BY <1>3
  <2>2. e \in Nat /\ e + beg >= e
    BY <1>1
  <2> HIDE DEF F, R
  <2> QED
    BY <2>1, <2>2
<1>5. Scan(a, beg, e, val) = (CHOOSE f : f = R(f))[beg]
  BY DEF Scan
<1> HIDE DEF R
<1> QED
  BY <1>2, <1>4, <1>5

\* The halving and the jumps may stop at any of several elements that are val.
\* p is not below val, or it is e; stepped over is nothing but smaller elements,
\* or further ones that are val where p is too.
IsFound(a, b, e, val, p) ==
  /\ p \in b .. e
  /\ p < e => At(a, p) >= val
  /\ \A k \in b .. p - 1 :
       At(a, k) < val \/ (p < e /\ At(a, k) = val /\ At(a, p) = val)

LEMMA FirstIsFound ==
  ASSUME NEW a \in Seq(Int), NonDecreasing(a), NEW b \in Nat, NEW e \in b .. Len(a),
         NEW val \in Int
  PROVE  IsFound(a, b, e, val, FirstOf(a, b, e, val))
<1>1. PICK p : p = FirstOf(a, b, e, val)
  OBVIOUS
<1>2. /\ p \in b .. e
      /\ \A k \in b .. p - 1 : At(a, k) < val
      /\ \A k \in p .. e - 1 : At(a, k) >= val
  BY <1>1, FirstOfIs DEF IsFirst
<1>3. p < e => p \in p .. e - 1
  BY <1>2
<1> QED
  BY <1>1, <1>2, <1>3 DEF IsFound

\* What one comparison tells, of the part it halves.
LEMMA Halves ==
  ASSUME NEW a \in Seq(Int), NonDecreasing(a), NEW b \in Nat, NEW e \in b .. Len(a),
         NEW val \in Int, NEW m \in b .. e - 1
  PROVE  /\ At(a, m) = val => IsFound(a, b, e, val, m)
         /\ At(a, m) < val => \A p : IsFound(a, m + 1, e, val, p) => IsFound(a, b, e, val, p)
         /\ At(a, m) # val /\ ~ (At(a, m) < val) =>
              \A d \in {m, m + 1} : \A p :
                IsFound(a, b, d, val, p) => IsFound(a, b, e, val, p)
<1>1. /\ Len(a) \in Nat /\ m \in 0 .. Len(a) - 1 /\ At(a, m) \in Int /\ m \in Nat /\ e \in Nat
  BY InList
<1>2. \A k \in b .. m : At(a, k) <= At(a, m) /\ At(a, k) \in Int
  <2>1. \A k \in b .. m : k \in 0 .. Len(a) - 1 /\ (k < m \/ k = m)
    BY <1>1
  <2>2. \A k \in b .. m : At(a, k) \in Int
    BY <2>1, InList
  <2>3. \A k \in b .. m : k < m => At(a, k) <= At(a, m)
    BY <2>1, <1>1, InList
  <2> QED
    BY <2>1, <2>2, <2>3
<1>3. ASSUME At(a, m) = val PROVE IsFound(a, b, e, val, m)
  <2>1. \A k \in b .. m - 1 : k \in b .. m
    BY <1>1
  <2>2. \A k \in b .. m - 1 : At(a, k) < val \/ At(a, k) = val
    BY <2>1, <1>1, <1>2, <1>3
  <2>3. m \in b .. e /\ m < e /\ At(a, m) >= val
    BY <1>1, <1>3
  <2> QED
    BY <2>2, <2>3, <1>3 DEF IsFound
<1>4. ASSUME At(a, m) < val, NEW p, IsFound(a, m + 1, e, val, p)
      PROVE  IsFound(a, b, e, val, p)
  <2>1. /\ p \in m + 1 .. e
        /\ p < e => At(a, p) >= val
        /\ \A k \in m + 1 .. p - 1 :
             At(a, k) < val \/ (p < e /\ At(a, k) = val /\ At(a, p) = val)
    BY <1>4 DEF IsFound
  <2>2. p \in b .. e /\ \A k \in b .. p - 1 : k \in b .. m \/ k \in m + 1 .. p - 1
    BY <2>1, <1>1
  <2>3. \A k \in b .. m : At(a, k) < val
    BY <1>1, <1>2, <1>4
  <2> QED
    BY <2>1, <2>2, <2>3 DEF IsFound
<1>5. ASSUME At(a, m) # val, ~ (At(a, m) < val), NEW d \in {m, m + 1}, NEW p,
             IsFound(a, b, d, val, p)
      PROVE  IsFound(a, b, e, val, p)
  <2>1. At(a, m) > val
    BY <1>1, <1>5
  <2>2. /\ p \in b .. d
        /\ p < d => At(a, p) >= val
        /\ \A k \in b .. p - 1 :
             At(a, k) < val \/ (p < d /\ At(a, k) = val /\ At(a, p) = val)
    BY <1>5 DEF IsFound
  <2>3. p # m + 1
    <3> SUFFICES ASSUME p = m + 1 PROVE FALSE
      OBVIOUS
    <3>1. m \in b .. p - 1 /\ ~ (p < d)
      BY <2>2, <1>1
    <3> QED
      BY <3>1, <2>1, <2>2, <1>1
  <2>4. p \in b .. e /\ (p < d => p < e) /\ (p < d \/ p = m)
    BY <2>2, <2>3, <1>1
  <2>5. p < e => At(a, p) >= val
    BY <2>1, <2>2, <2>4, <1>1
  <2> QED
    BY <2>2, <2>4, <2>5 DEF IsFound
<1> QED
  BY <1>3, <1>4, <1>5

\* A larger part of a list, if what is added in front is below val.
LEMMA FoundBelow ==
  ASSUME NEW a \in Seq(Int), NEW b \in Nat, NEW e \in Nat, NEW val \in Int,
         NEW c \in b .. e, \A k \in b .. c - 1 : At(a, k) < val,
         NEW p, IsFound(a, c, e, val, p)
  PROVE  IsFound(a, b, e, val, p)
<1>1. /\ p \in c .. e
      /\ p < e => At(a, p) >= val
      /\ \A k \in c .. p - 1 : At(a, k) < val \/ (p < e /\ At(a, k) = val /\ At(a, p) = val)
  BY DEF IsFound
<1>2. p \in b .. e /\ \A k \in b .. p - 1 : k \in b .. c - 1 \/ k \in c .. p - 1
  BY <1>1
<1> QED
  BY <1>1, <1>2 DEF IsFound

LEMMA Upwards ==
  ASSUME NEW n \in Nat, NEW S, 0 \in S, \A k \in 1 .. n : k - 1 \in S => k \in S
  PROVE  0 .. n \subseteq S
<1> DEFINE T == {k \in 0 .. n : k \notin S}
<1> SUFFICES ASSUME T # {} PROVE FALSE
  OBVIOUS
<1>1. PICK m \in T : \A k \in T : m <= k
  BY LeastNatural, T \subseteq Nat
<1>2. m # 0 /\ m \in 1 .. n
  BY <1>1
<1>3. m - 1 \in 0 .. n /\ m - 1 < m
  BY <1>2
<1>4. m - 1 \in S
  BY <1>1, <1>3
<1> QED
  BY <1>1, <1>2, <1>4

\* A loop that stops, or goes on from next with something smaller: there is a
\* function that it computes, and whatever the steps take backwards holds of it.
Computes(f, S, Stops, base, next) ==
  f = [o \in S |-> IF o \in Stops THEN base[o] ELSE f[next[o]]]

LEMMA Loop ==
  ASSUME NEW n \in Nat, NEW S, NEW size \in [S -> 0 .. n], NEW Stops, NEW base, NEW next,
         \A o \in S : o \notin Stops => next[o] \in S /\ size[next[o]] < size[o],
         NEW Good, \A o \in S : o \in Stops => <<o, base[o]>> \in Good,
         \A o \in S : o \notin Stops => \A v : <<next[o], v>> \in Good => <<o, v>> \in Good
  PROVE  /\ \E f : Computes(f, S, Stops, base, next)
         /\ \A f : Computes(f, S, Stops, base, next) => \A o \in S : <<o, f[o]>> \in Good
<1> DEFINE Body(f, o) == IF o \in Stops THEN base[o] ELSE f[next[o]]
           Upto(f, m) == \A o \in S : size[o] <= m => f[o] = Body(f, o)
           M == {m \in 0 .. n : \E f : f = [o \in S |-> f[o]] /\ Upto(f, m)}
<1>1. \A o \in S : size[o] \in 0 .. n
  OBVIOUS
<1>2. 0 \in M
  <2>1. PICK f : f = [o \in S |-> base[o]]
    OBVIOUS
  <2>2. f = [o \in S |-> f[o]]
    BY <2>1
  <2>3. ASSUME NEW o \in S, size[o] <= 0 PROVE o \in Stops
    <3> SUFFICES ASSUME o \notin Stops PROVE FALSE
      OBVIOUS
    <3>1. next[o] \in S /\ size[next[o]] < size[o]
      OBVIOUS
    <3>2. size[next[o]] \in 0 .. n /\ size[o] \in 0 .. n
      BY <3>1, <1>1
    <3> QED
      BY <3>1, <3>2, <2>3
  <2>4. Upto(f, 0)
    BY <2>1, <2>3
  <2> HIDE DEF Upto
  <2> QED
    BY <2>2, <2>4
<1>3. ASSUME NEW m \in 1 .. n, m - 1 \in M PROVE m \in M
  <2>1. PICK f : f = [o \in S |-> f[o]] /\ Upto(f, m - 1)
    BY <1>3
  <2>2. PICK g : g = [o \in S |-> IF size[o] = m THEN Body(f, o) ELSE f[o]]
    OBVIOUS
  <2>3. g = [o \in S |-> g[o]]
    BY <2>2
  <2>4. ASSUME NEW o \in S, size[o] <= m PROVE g[o] = Body(g, o)
    <3>1. size[o] \in 0 .. n /\ (size[o] = m \/ size[o] <= m - 1)
      BY <2>4, <1>1
    <3>2. g[o] = Body(f, o)
      BY <3>1, <2>1, <2>2
    <3>3. CASE o \in Stops
      BY <3>2, <3>3
    <3>4. CASE o \notin Stops
      <4>1. next[o] \in S /\ size[next[o]] < size[o]
        BY <3>4
      <4>2. size[next[o]] # m
        BY <4>1, <3>1, <2>4, <1>1
      <4>3. g[next[o]] = f[next[o]]
        BY <4>1, <4>2, <2>2
      <4> QED
        BY <4>3, <3>2, <3>4
    <3> QED
      BY <3>3, <3>4
  <2>5. Upto(g, m)
    BY <2>4
  <2> HIDE DEF Upto
  <2> QED
    BY <2>3, <2>5
<1>4. \E f : Computes(f, S, Stops, base, next)
  <2>1. 0 .. n \subseteq M
    <3> HIDE DEF M
    <3> QED
      BY <1>2, <1>3, Upwards
  <2>2. n \in M
    BY <2>1, n \in 0 .. n
  <2>3. PICK f : f = [o \in S |-> f[o]] /\ Upto(f, n)
    BY <2>2
  <2>4. \A o \in S : f[o] = Body(f, o)
    BY <2>3, <1>1
  <2>5. f = [o \in S |-> Body(f, o)]
    <3> HIDE DEF Body
    <3> QED
      BY <2>3, <2>4
  <2> QED
    BY <2>5 DEF Computes
<1>5. ASSUME NEW f, Computes(f, S, Stops, base, next) PROVE \A o \in S : <<o, f[o]>> \in Good
  <2> DEFINE Bad == {q \in S : <<q, f[q]>> \notin Good}
             T == {m \in Nat : \E q \in Bad : m = size[q]}
  <2> SUFFICES ASSUME Bad # {} PROVE FALSE
    OBVIOUS
  <2>1. T \subseteq Nat /\ T # {}
    <3>1. PICK q \in Bad : q \in S
      OBVIOUS
    <3>2. size[q] \in Nat
      BY <3>1, <1>1
    <3> QED
      BY <3>2
  <2>2. PICK m \in T : \A y \in T : m <= y
    BY <2>1, LeastNatural
  <2>3. PICK o \in S : <<o, f[o]>> \notin Good /\ m = size[o]
    OBVIOUS
  <2>4. f[o] = Body(f, o)
    BY <1>5 DEF Computes
  <2>5. o \notin Stops
    BY <2>3, <2>4
  <2>6. next[o] \in S /\ size[next[o]] < size[o] /\ f[o] = f[next[o]]
    BY <2>4, <2>5
  <2>7. <<next[o], f[next[o]]>> \notin Good
    BY <2>3, <2>5, <2>6
  <2>8. size[next[o]] \in T
    <3>1. next[o] \in Bad /\ size[next[o]] \in Nat
      BY <2>6, <2>7, <1>1
    <3> HIDE DEF Bad
    <3> QED
      BY <3>1
  <2>9. m <= size[next[o]]
    BY <2>2, <2>8
  <2>10. size[next[o]] \in 0 .. n /\ m \in 0 .. n
    BY <2>3, <2>6, <1>1
  <2> QED
    BY <2>3, <2>6, <2>9, <2>10
<1> QED
  BY <1>4, <1>5

LEMMA BinarySearchFinds ==
  ASSUME NEW a \in Seq(Int), NonDecreasing(a), NEW end \in 0 .. Len(a), NEW val \in Int,
         NEW beg \in Nat
  PROVE  /\ BinarySearch(a, beg, end, val) \in 0 .. end
         /\ beg <= end => IsFound(a, beg, end, val, BinarySearch(a, beg, end, val))
<1> DEFINE S == Nat \X (0 .. end)
           mid(o) == (o[1] + o[2]) \div 2
           R(f) == [o \in S |->
                      IF o[2] - o[1] < LINEAR THEN Scan(a, o[1], o[2], val)
                      ELSE IF At(a, mid(o)) = val THEN mid(o)
                      ELSE IF At(a, mid(o)) < val THEN f[<<mid(o) + 1, o[2]>>]
                                                  ELSE f[<<o[1], mid(o)>>]]
           size == [o \in S |-> IF o[1] < o[2] THEN o[2] - o[1] ELSE 0]
           Stops == {o \in S : o[2] - o[1] < LINEAR \/ At(a, mid(o)) = val}
           base == [o \in S |-> IF o[2] - o[1] < LINEAR THEN Scan(a, o[1], o[2], val)
                                                        ELSE mid(o)]
           next == [o \in S |-> IF At(a, mid(o)) < val THEN <<mid(o) + 1, o[2]>>
                                                       ELSE <<o[1], mid(o)>>]
           Fits(o, v) == v \in 0 .. end /\ (o[1] <= o[2] => IsFound(a, o[1], o[2], val, v))
           Good == {q \in S \X (0 .. end) : Fits(q[1], q[2])}
<1>1. LINEAR \in Nat \ {0} /\ Len(a) \in Nat /\ end \in Nat
  BY IntersectionAssumption
<1>2. ASSUME NEW o \in S
      PROVE  /\ o[1] \in Nat /\ o[2] \in 0 .. end /\ o[2] \in Nat /\ o = <<o[1], o[2]>>
             /\ ~ (o[2] - o[1] < LINEAR) => /\ mid(o) \in o[1] .. o[2] - 1
                                            /\ mid(o) \in 0 .. end /\ mid(o) + 1 \in Nat
                                            /\ o[1] < o[2]
  <2>1. PICK b \in Nat, e \in 0 .. end : b = o[1] /\ e = o[2] /\ o = <<b, e>>
    OBVIOUS
  <2>2. ~ (e - b < LINEAR) => /\ (b + e) \div 2 \in b .. e - 1
                              /\ (b + e) \div 2 \in 0 .. end /\ (b + e) \div 2 + 1 \in Nat
                              /\ b < e
    BY <1>1
  <2> QED
    BY <2>1, <2>2, <1>1
<1> HIDE DEF mid
<1>3. \A f : R(f) = [o \in S |-> IF o \in Stops THEN base[o] ELSE f[next[o]]]
  <2> SUFFICES ASSUME NEW f, NEW o \in S
               PROVE  R(f)[o] = IF o \in Stops THEN base[o] ELSE f[next[o]]
    OBVIOUS
  <2>1. R(f)[o] = IF o[2] - o[1] < LINEAR THEN Scan(a, o[1], o[2], val)
                  ELSE IF At(a, mid(o)) = val THEN mid(o)
                  ELSE IF At(a, mid(o)) < val THEN f[<<mid(o) + 1, o[2]>>]
                                              ELSE f[<<o[1], mid(o)>>]
    OBVIOUS
  <2>2. o \in Stops <=> o[2] - o[1] < LINEAR \/ At(a, mid(o)) = val
    OBVIOUS
  <2>3. base[o] = IF o[2] - o[1] < LINEAR THEN Scan(a, o[1], o[2], val) ELSE mid(o)
    OBVIOUS
  <2>4. next[o] = IF At(a, mid(o)) < val THEN <<mid(o) + 1, o[2]>> ELSE <<o[1], mid(o)>>
    OBVIOUS
  <2> HIDE DEF R, Stops, base, next, S
  <2> QED
    BY <2>1, <2>2, <2>3, <2>4
<1>4. size \in [S -> 0 .. end]
  <2>1. \A o \in S : (IF o[1] < o[2] THEN o[2] - o[1] ELSE 0) \in 0 .. end
    BY <1>2
  <2> QED
    BY <2>1
<1>5. ASSUME NEW o \in S, o \notin Stops
      PROVE  /\ next[o] \in S /\ size[next[o]] < size[o]
             /\ \A v : <<next[o], v>> \in Good => <<o, v>> \in Good
  <2>1. PICK b \in Nat, e \in Nat, m \in Nat : b = o[1] /\ e = o[2] /\ m = mid(o)
    <3>1. o[1] \in Nat /\ o[2] \in Nat /\ mid(o) \in Nat
      BY <1>2, <1>5
    <3> QED
      BY <3>1
  <2>2. /\ b \in Nat /\ e \in 0 .. end /\ m \in b .. e - 1 /\ m \in 0 .. end
        /\ m + 1 \in Nat /\ b < e /\ At(a, m) # val
    BY <2>1, <1>2, <1>5
  <2>3. size[o] = e - b
    BY <2>1, <2>2
  <2>4. e \in b .. Len(a)
    BY <2>2, <1>1
  <2>5. CASE At(a, m) < val
    <3>1. next[o] = <<m + 1, e>> /\ <<m + 1, e>> \in S
      BY <2>1, <2>2, <2>5
    <3>2. size[<<m + 1, e>>] = (IF m + 1 < e THEN e - (m + 1) ELSE 0)
      BY <3>1
    <3>3. size[<<m + 1, e>>] < e - b
      <4>1. (IF m + 1 < e THEN e - (m + 1) ELSE 0) < e - b
        BY <2>2
      <4> HIDE DEF size
      <4> QED
        BY <3>2, <4>1
    <3>4. \A v : Fits(<<m + 1, e>>, v) => Fits(o, v)
      <4> SUFFICES ASSUME NEW v, Fits(<<m + 1, e>>, v) PROVE Fits(o, v)
        OBVIOUS
      <4>1. v \in 0 .. end /\ IsFound(a, m + 1, e, val, v)
        BY <2>2
      <4>2. IsFound(a, b, e, val, v)
        BY <4>1, <2>2, <2>4, <2>5, Halves
      <4> QED
        BY <4>1, <4>2, <2>1
    <3>5. \A v : <<<<m + 1, e>>, v>> \in Good => <<o, v>> \in Good
      <4> HIDE DEF Fits, S
      <4> QED
        BY <3>4
    <3> HIDE DEF S, next, size, Good
    <3> QED
      BY <3>1, <3>3, <3>5, <2>3
  <2>6. CASE ~ (At(a, m) < val)
    <3>1. next[o] = <<b, m>> /\ <<b, m>> \in S
      BY <2>1, <2>2, <2>6
    <3>2. size[<<b, m>>] = (IF b < m THEN m - b ELSE 0)
      BY <3>1
    <3>3. size[<<b, m>>] < e - b
      <4>1. (IF b < m THEN m - b ELSE 0) < e - b
        BY <2>2
      <4> HIDE DEF size
      <4> QED
        BY <3>2, <4>1
    <3>4. \A v : Fits(<<b, m>>, v) => Fits(o, v)
      <4> SUFFICES ASSUME NEW v, Fits(<<b, m>>, v) PROVE Fits(o, v)
        OBVIOUS
      <4>1. v \in 0 .. end /\ IsFound(a, b, m, val, v)
        BY <2>2
      <4>2. IsFound(a, b, e, val, v)
        BY <4>1, <2>2, <2>4, <2>6, Halves
      <4> QED
        BY <4>1, <4>2, <2>1
    <3>5. \A v : <<<<b, m>>, v>> \in Good => <<o, v>> \in Good
      <4> HIDE DEF Fits, S
      <4> QED
        BY <3>4
    <3> HIDE DEF S, next, size, Good
    <3> QED
      BY <3>1, <3>3, <3>5, <2>3
  <2> QED
    BY <2>5, <2>6
<1>6. ASSUME NEW o \in S, o \in Stops PROVE <<o, base[o]>> \in Good
  <2>1. PICK b, e, v : b = o[1] /\ e = o[2] /\ v = base[o]
    OBVIOUS
  <2>2. b \in Nat /\ e \in 0 .. end /\ e \in 0 .. Len(a) /\ e \in Nat
    BY <2>1, <1>1, <1>2
  <2>3. CASE e - b < LINEAR
    <3>1. v = FirstOf(a, b, e, val)
      <4>1. v = Scan(a, b, e, val)
        BY <2>1, <2>3
      <4> QED
        BY <4>1, <2>2, ScanIs
    <3>2. b <= e => IsFound(a, b, e, val, v)
      BY <3>1, <2>2, FirstIsFound
    <3>3. v \in 0 .. end
      <4>1. CASE b <= e
        BY <4>1, <3>2, <2>2, <1>1 DEF IsFound
      <4>2. CASE ~ (b <= e)
        <5>1. v = e
          BY <4>2, <3>1, <2>2 DEF FirstOf
        <5> QED
          BY <5>1, <2>2
      <4> QED
        BY <4>1, <4>2
    <3>4. Fits(o, v)
      BY <3>2, <3>3, <2>1
    <3> HIDE DEF Fits, S, base
    <3> QED
      BY <3>3, <3>4, <2>1
  <2>4. CASE ~ (e - b < LINEAR)
    <3>1. /\ v = mid(o) /\ At(a, v) = val /\ v \in b .. e - 1 /\ v \in 0 .. end
      BY <2>1, <2>4, <1>2, <1>6
    <3>2. e \in b .. Len(a)
      BY <3>1, <2>2
    <3>3. IsFound(a, b, e, val, v)
      BY <3>1, <3>2, <2>2, Halves
    <3>4. Fits(o, v)
      BY <3>1, <3>3, <2>1
    <3> HIDE DEF Fits, S, base
    <3> QED
      BY <3>1, <3>4, <2>1
  <2> QED
    BY <2>3, <2>4
<1>7. /\ \E f : f = R(f)
      /\ \A f : f = R(f) => \A o \in S : <<o, f[o]>> \in Good
  <2> HIDE DEF S, size, Stops, base, next, Good, R
  <2>4. end \in Nat
    BY <1>1
  <2>3. /\ \A o \in S : o \notin Stops => next[o] \in S /\ size[next[o]] < size[o]
        /\ \A o \in S : o \in Stops => <<o, base[o]>> \in Good
        /\ \A o \in S : o \notin Stops =>
             \A v : <<next[o], v>> \in Good => <<o, v>> \in Good
    BY <1>5, <1>6
  <2>1. /\ \E f : Computes(f, S, Stops, base, next)
        /\ \A f : Computes(f, S, Stops, base, next) => \A o \in S : <<o, f[o]>> \in Good
    BY ONLY <2>3, <2>4, <1>4, Loop
  <2>2. \A f : Computes(f, S, Stops, base, next) <=> f = R(f)
    BY <1>3 DEF Computes
  <2> QED
    BY <2>1, <2>2
<1>8. BinarySearch(a, beg, end, val) = (CHOOSE f : f = R(f))[<<beg, end>>]
  BY DEF BinarySearch, mid
<1>9. <<beg, end>> \in S
  BY <1>1
<1>10. <<<<beg, end>>, BinarySearch(a, beg, end, val)>> \in Good
  <2> HIDE DEF S, Good, R
  <2> QED
    BY <1>7, <1>8, <1>9
<1>11. Fits(<<beg, end>>, BinarySearch(a, beg, end, val))
  <2> HIDE DEF Fits, S
  <2> QED
    BY <1>10
<1> QED
  BY <1>11

\* The jumps find a position behind the one before the last.
LEMMA GallopFinds ==
  ASSUME NEW a \in Seq(Int), NonDecreasing(a), NEW end \in 0 .. Len(a), NEW val \in Int,
         NEW beg \in Nat, beg + LANES <= end
  PROVE  IsFound(a, beg + (LANES \div 2) + 1, end, val, Gallop(a, beg, end, val))
<1> DEFINE S == Nat \ {0}
           from(j) == beg + (j \div 2) + 1
           R(f) == [j \in S |->
                      IF beg + j >= end THEN BinarySearch(a, from(j), end, val)
                      ELSE IF At(a, beg + j) < val THEN f[2 * j]
                      ELSE IF At(a, beg + j) = val THEN beg + j
                      ELSE BinarySearch(a, from(j), beg + j + 1, val)]
           size == [j \in S |-> IF j < end THEN end - j ELSE 0]
           Stops == {j \in S : beg + j >= end \/ ~ (At(a, beg + j) < val)}
           base == [j \in S |->
                      IF beg + j >= end THEN BinarySearch(a, from(j), end, val)
                      ELSE IF At(a, beg + j) = val THEN beg + j
                      ELSE BinarySearch(a, from(j), beg + j + 1, val)]
           next == [j \in S |-> 2 * j]
           Fits(j, v) == v \in 0 .. end /\ (from(j) <= end => IsFound(a, from(j), end, val, v))
           Good == {q \in S \X (0 .. end) : Fits(q[1], q[2])}
<1>1. LANES \in Nat \ {0} /\ Len(a) \in Nat /\ end \in Nat
  BY IntersectionAssumption
<1>2. ASSUME NEW j \in S
      PROVE  /\ from(j) \in Nat /\ from(j) <= beg + j
             /\ 2 * j \in S /\ from(2 * j) = beg + j + 1
             /\ beg + j \in Nat
  <2>1. j \div 2 \in Nat /\ j \div 2 + 1 <= j /\ (2 * j) \div 2 = j
    OBVIOUS
  <2> QED
    BY <2>1
<1> HIDE DEF from
<1>3. \A f : R(f) = [j \in S |-> IF j \in Stops THEN base[j] ELSE f[next[j]]]
  <2> SUFFICES ASSUME NEW f, NEW j \in S
               PROVE  R(f)[j] = IF j \in Stops THEN base[j] ELSE f[next[j]]
    OBVIOUS
  <2>1. /\ R(f)[j] = IF beg + j >= end THEN BinarySearch(a, from(j), end, val)
                     ELSE IF At(a, beg + j) < val THEN f[2 * j]
                     ELSE IF At(a, beg + j) = val THEN beg + j
                     ELSE BinarySearch(a, from(j), beg + j + 1, val)
        /\ j \in Stops <=> beg + j >= end \/ ~ (At(a, beg + j) < val)
        /\ base[j] = IF beg + j >= end THEN BinarySearch(a, from(j), end, val)
                     ELSE IF At(a, beg + j) = val THEN beg + j
                     ELSE BinarySearch(a, from(j), beg + j + 1, val)
        /\ next[j] = 2 * j
    OBVIOUS
  <2>2. At(a, beg + j) = val => ~ (At(a, beg + j) < val)
    OBVIOUS
  <2> HIDE DEF R, Stops, base, next, S
  <2> QED
    BY <2>1, <2>2
<1>4. size \in [S -> 0 .. end]
  BY <1>1
<1>5. ASSUME NEW j \in S, j \notin Stops
      PROVE  /\ next[j] \in S /\ size[next[j]] < size[j]
             /\ \A v : <<next[j], v>> \in Good => <<j, v>> \in Good
  <2>1. PICK peek, b : peek = beg + j /\ b = from(j)
    OBVIOUS
  <2>2. /\ next[j] = 2 * j /\ 2 * j \in S /\ peek < end /\ At(a, peek) < val
        /\ b \in Nat /\ peek \in b .. end - 1 /\ from(2 * j) = peek + 1 /\ end \in b .. Len(a)
        /\ peek \in Nat
    BY <2>1, <1>1, <1>2, <1>5
  <2>3. size[2 * j] < size[j]
    <3>1. /\ size[2 * j] = IF 2 * j < end THEN end - 2 * j ELSE 0
          /\ size[j] = IF j < end THEN end - j ELSE 0
      BY <2>2
    <3>2. j \in Nat /\ j > 0 /\ j < end
      BY <2>1, <2>2, <1>1
    <3> HIDE DEF size
    <3> QED
      BY <3>1, <3>2, <1>1
  <2>4. \A v : Fits(2 * j, v) => Fits(j, v)
    <3> SUFFICES ASSUME NEW v, Fits(2 * j, v) PROVE Fits(j, v)
      OBVIOUS
    <3>1. v \in 0 .. end /\ IsFound(a, peek + 1, end, val, v)
      BY <2>2, <1>1
    <3>2. IsFound(a, b, end, val, v)
      BY <3>1, <2>2, Halves
    <3> QED
      BY <3>1, <3>2, <2>1
  <2>5. \A v : <<2 * j, v>> \in Good => <<j, v>> \in Good
    <3> HIDE DEF Fits, S
    <3> QED
      BY <2>4
  <2> QED
    BY <2>2, <2>3, <2>5
<1>6. ASSUME NEW j \in S, j \in Stops PROVE <<j, base[j]>> \in Good
  <2>1. PICK peek, b, v : peek = beg + j /\ b = from(j) /\ v = base[j]
    OBVIOUS
  <2>2. peek \in Nat /\ b \in Nat /\ b <= peek /\ end \in 0 .. Len(a)
    BY <2>1, <1>2
  <2>3. Fits(j, v)
    <3>1. CASE peek >= end
      <4>1. v = BinarySearch(a, b, end, val)
        BY <2>1, <3>1
      <4>2. v \in 0 .. end /\ (b <= end => IsFound(a, b, end, val, v))
        BY <4>1, <2>2, BinarySearchFinds
      <4> QED
        BY <4>2, <2>1
    <3>2. CASE ~ (peek >= end)
      <4>1. /\ peek \in b .. end - 1 /\ end \in b .. Len(a) /\ peek \in 0 .. end
            /\ peek + 1 \in 0 .. Len(a) /\ peek + 1 \in 0 .. end /\ b <= peek + 1
        BY <2>2, <3>2, <1>1
      <4>2. ~ (At(a, peek) < val)
        BY <2>1, <3>2, <1>6
      <4>3. CASE At(a, peek) = val
        <5>1. v = peek
          BY <2>1, <3>2, <4>3
        <5>2. IsFound(a, b, end, val, v)
          BY <5>1, <4>1, <4>3, <2>2, Halves
        <5> QED
          BY <5>1, <5>2, <4>1, <2>1
      <4>4. CASE At(a, peek) # val
        <5>1. v = BinarySearch(a, b, peek + 1, val)
          BY <2>1, <3>2, <4>4
        <5>2. PICK d : d = peek + 1
          OBVIOUS
        <5>3. v \in 0 .. d /\ (b <= d => IsFound(a, b, d, val, v))
          BY <5>1, <5>2, <4>1, <2>2, BinarySearchFinds
        <5>4. d \in {peek, peek + 1} /\ IsFound(a, b, d, val, v)
          BY <5>2, <5>3, <4>1
        <5>5. IsFound(a, b, end, val, v)
          BY <5>4, <4>1, <4>2, <4>4, <2>2, Halves
        <5>6. v \in 0 .. end
          BY <5>2, <5>3, <4>1, <1>1
        <5> QED
          BY <5>5, <5>6, <2>1
      <4> QED
        BY <4>3, <4>4
    <3> QED
      BY <3>1, <3>2
  <2>4. v \in 0 .. end
    BY <2>3
  <2> HIDE DEF Fits, S, base
  <2> QED
    BY <2>1, <2>3, <2>4
<1>7. /\ \E f : f = R(f)
      /\ \A f : f = R(f) => \A j \in S : <<j, f[j]>> \in Good
  <2> HIDE DEF S, size, Stops, base, next, Good, R
  <2>4. end \in Nat
    BY <1>1
  <2>3. /\ \A j \in S : j \notin Stops => next[j] \in S /\ size[next[j]] < size[j]
        /\ \A j \in S : j \in Stops => <<j, base[j]>> \in Good
        /\ \A j \in S : j \notin Stops =>
             \A v : <<next[j], v>> \in Good => <<j, v>> \in Good
    BY <1>5, <1>6
  <2>1. /\ \E f : Computes(f, S, Stops, base, next)
        /\ \A f : Computes(f, S, Stops, base, next) => \A j \in S : <<j, f[j]>> \in Good
    BY ONLY <2>3, <2>4, <1>4, Loop
  <2>2. \A f : Computes(f, S, Stops, base, next) <=> f = R(f)
    BY <1>3 DEF Computes
  <2> QED
    BY <2>1, <2>2
<1>8. Gallop(a, beg, end, val) = (CHOOSE f : f = R(f))[LANES]
  BY DEF Gallop, from
<1>9. <<LANES, Gallop(a, beg, end, val)>> \in Good
  <2>1. LANES \in S
    BY <1>1
  <2> HIDE DEF S, Good, R
  <2> QED
    BY <1>7, <1>8, <2>1
<1>10. Fits(LANES, Gallop(a, beg, end, val))
  <2> HIDE DEF Fits, S
  <2> QED
    BY <1>9
<1>11. from(LANES) <= end
  <2>1. from(LANES) <= beg + LANES /\ from(LANES) \in Nat /\ beg + LANES \in Nat
    BY <1>1, <1>2
  <2> QED
    BY <2>1, <1>1
<1>12. IsFound(a, from(LANES), end, val, Gallop(a, beg, end, val))
  BY <1>10, <1>11
<1> QED
  BY <1>12 DEF from

\* Whatever the list, the search steps over nothing but smaller elements, and
\* equal ones before another.
LEMMA GallopingSearchFinds ==
  ASSUME NEW a \in Seq(Int), NonDecreasing(a), NEW end \in 0 .. Len(a), NEW val \in Int,
         NEW beg \in 0 .. end - 1
  PROVE  IsFound(a, beg, end, val, GallopingSearch(a, beg, end, val))
<1>1. LANES \in Nat \ {0} /\ Len(a) \in Nat /\ end \in Nat /\ beg \in Nat
      /\ end \in beg .. Len(a) /\ end - 1 \in 0 .. Len(a) - 1
  BY IntersectionAssumption
<1>2. IsFound(a, beg, end, val, FirstOf(a, beg, end, val))
  BY <1>1, FirstIsFound
<1>3. CASE At(a, end - 1) < val
  <2>1. \A k \in beg .. end - 1 : At(a, k) < val
    <3>1. ASSUME NEW k \in beg .. end - 1 PROVE At(a, k) < val
      <4>1. k \in 0 .. Len(a) - 1 /\ (k = end - 1 \/ k < end - 1)
        BY <1>1
      <4>2. At(a, k) \in Int /\ At(a, end - 1) \in Int
            /\ (k < end - 1 => At(a, k) <= At(a, end - 1))
        BY <4>1, <1>1, InList
      <4> QED
        BY <4>1, <4>2, <1>3
    <3> QED
      BY <3>1
  <2>2. IsFound(a, beg, end, val, end)
    BY <2>1, <1>1 DEF IsFound
  <2> QED
    BY <2>2, <1>3 DEF GallopingSearch
<1>4. CASE ~ (At(a, end - 1) < val)
  <2> DEFINE width == IF end - beg >= LANES THEN LANES ELSE end - beg
  <2>1. PICK w : w = width
    OBVIOUS
  <2>2. PICK n : n = Below(a, beg, w, val)
    OBVIOUS
  <2>3. GallopingSearch(a, beg, end, val) =
          IF n < w THEN beg + n ELSE Gallop(a, beg, end, val)
    BY <2>1, <2>2, <1>4 DEF GallopingSearch
  <2>4. /\ w \in Nat /\ beg + w <= end /\ w <= LANES
        /\ w = LANES \/ beg + w = end
    BY <2>1, <1>1
  <2>5. /\ n < w => FirstOf(a, beg, end, val) = beg + n
        /\ ~ (n < w) => \A k \in beg .. beg + w - 1 : At(a, k) < val
    BY <2>2, <2>4, <1>1, Block
  <2>6. CASE n < w
    BY <2>3, <2>5, <2>6, <1>2
  <2>7. CASE ~ (n < w)
    <3>1. w = LANES
      <4> SUFFICES ASSUME beg + w = end PROVE FALSE
        BY <2>4
      <4>1. end - 1 \in beg .. beg + w - 1
        BY <1>1, <2>4
      <4> QED
        BY <4>1, <2>5, <2>7, <1>4
    <3>2. PICK c : c = beg + (LANES \div 2) + 1
      OBVIOUS
    <3>3. c \in beg .. beg + LANES /\ c \in beg .. end
      <4>1. LANES \div 2 \in Nat /\ LANES \div 2 + 1 <= LANES
        BY <1>1
      <4> QED
        BY <4>1, <3>1, <3>2, <2>4, <1>1
    <3>4. \A k \in beg .. c - 1 : k \in beg .. beg + w - 1
      BY <3>1, <3>3, <1>1
    <3>5. \A k \in beg .. c - 1 : At(a, k) < val
      BY <3>4, <2>5, <2>7
    <3>6. IsFound(a, c, end, val, Gallop(a, beg, end, val))
      BY <3>1, <3>2, <2>4, <1>1, GallopFinds
    <3>7. IsFound(a, beg, end, val, Gallop(a, beg, end, val))
      BY <3>3, <3>5, <3>6, <1>1, FoundBelow
    <3> QED
      BY <3>7, <2>3, <2>7
  <2> QED
    BY <2>6, <2>7
<1> QED
  BY <1>3, <1>4
-----------------------------------------------------------------------------
(* What a block adds to the result                                         *)

\* The order of the lists: strict, if they have no repeated elements.
Up(strict, x, y) == x < y \/ (x = y /\ ~ strict)
Ordered(strict, a) == \A i, j \in DOMAIN a : i < j => Up(strict, a[i], a[j])

LEMMA UpIs ==
  ASSUME NEW strict, NEW x \in Int, NEW y \in Int
  PROVE  (Up(strict, x, y) => x <= y) /\ (x < y => Up(strict, x, y))
BY DEF Up

LEMMA InOrdered ==
  ASSUME NEW strict, NEW a \in Seq(Int), Ordered(strict, a)
  PROVE  /\ NonDecreasing(a)
         /\ Len(a) \in Nat
         /\ \A k \in 0 .. Len(a) - 1 : At(a, k) \in Int
         /\ \A j, k \in 0 .. Len(a) - 1 : j < k => Up(strict, At(a, j), At(a, k))
         /\ \A j, k \in 0 .. Len(a) - 1 : j < k => At(a, j) <= At(a, k)
<1>1. Len(a) \in Nat /\ DOMAIN a = 1 .. Len(a) /\ \A k \in DOMAIN a : a[k] \in Int
  OBVIOUS
<1>2. NonDecreasing(a)
  <2>1. \A j, k \in DOMAIN a : Up(strict, a[j], a[k]) => a[j] <= a[k]
    BY <1>1, UpIs
  <2> QED
    BY <2>1 DEF Ordered, NonDecreasing
<1>3. ASSUME NEW j \in 0 .. Len(a) - 1, NEW k \in 0 .. Len(a) - 1, j < k
      PROVE  Up(strict, At(a, j), At(a, k))
  <2>1. j + 1 \in DOMAIN a /\ k + 1 \in DOMAIN a /\ j + 1 < k + 1
    BY <1>1, <1>3
  <2>2. Up(strict, a[j + 1], a[k + 1])
    BY <2>1 DEF Ordered
  <2>3. At(a, j) = a[j + 1] /\ At(a, k) = a[k + 1]
    BY <1>1 DEF At
  <2> QED
    BY <2>2, <2>3
<1> QED
  BY <1>1, <1>2, <1>3, InList

\* A recursion over 0 .. n with values in a set defines a function.
Follows(g, n, V, v, D) ==
  g \in [0 .. n -> V] /\ g[0] = v /\ \A k \in 1 .. n : g[k] = D[<<g[k - 1], k>>]

LEMMA Recursion ==
  ASSUME NEW n \in Nat, NEW V, NEW v \in V, NEW D \in [V \X (1 .. n) -> V]
  PROVE  \E g : Follows(g, n, V, v, D)
<1> DEFINE Made(m) == \E g \in [0 .. m -> V] :
                        g[0] = v /\ \A k \in 1 .. m : g[k] = D[<<g[k - 1], k>>]
           S == {m \in 0 .. n : Made(m)}
<1>1. 0 \in S
  <2> DEFINE g == [k \in 0 .. 0 |-> v]
  <2>1. g \in [0 .. 0 -> V] /\ g[0] = v /\ \A k \in 1 .. 0 : g[k] = D[<<g[k - 1], k>>]
    OBVIOUS
  <2>2. Made(0)
    <3> HIDE DEF g
    <3> QED
      BY <2>1
  <2> QED
    BY <2>2
<1>2. ASSUME NEW m \in 1 .. n, m - 1 \in S PROVE m \in S
  <2>1. PICK g \in [0 .. m - 1 -> V] :
               g[0] = v /\ \A k \in 1 .. m - 1 : g[k] = D[<<g[k - 1], k>>]
    BY <1>2
  <2> DEFINE f == [k \in 0 .. m |-> IF k = m THEN D[<<g[m - 1], m>>] ELSE g[k]]
  <2>2. g[m - 1] \in V /\ D[<<g[m - 1], m>>] \in V
    <3>1. m - 1 \in 0 .. m - 1
      OBVIOUS
    <3>2. g[m - 1] \in V
      BY <3>1
    <3>3. <<g[m - 1], m>> \in V \X (1 .. n)
      BY <3>2
    <3> QED
      BY <3>2, <3>3
  <2>3. \A k \in 0 .. m : k # m => k \in 0 .. m - 1
    OBVIOUS
  <2>4. f \in [0 .. m -> V] /\ f[0] = v
    BY <2>1, <2>2, <2>3
  <2>5. ASSUME NEW k \in 1 .. m PROVE f[k] = D[<<f[k - 1], k>>]
    <3>1. k \in 0 .. m /\ k - 1 \in 0 .. m /\ k - 1 # m /\ (k # m => k \in 1 .. m - 1)
      OBVIOUS
    <3>2. f[k - 1] = g[k - 1]
      BY <3>1
    <3>3. f[k] = IF k = m THEN D[<<g[m - 1], m>>] ELSE g[k]
      BY <3>1
    <3> HIDE DEF f
    <3> QED
      BY <3>1, <3>2, <3>3, <2>1
  <2>6. Made(m)
    <3> HIDE DEF f
    <3> QED
      BY <2>4, <2>5
  <2> QED
    BY <2>6
<1>3. 0 .. n \subseteq S
  <2> HIDE DEF S
  <2> QED
    BY <1>1, <1>2, Upwards
<1>4. Made(n)
  <2>1. n \in 0 .. n
    OBVIOUS
  <2>2. n \in S
    BY <2>1, <1>3
  <2> QED
    BY <2>2
<1> QED
  BY <1>4 DEF Follows

Part(a, i, n) == {At(a, k) : k \in i .. i + n - 1}

LEMMA HitsAre ==
  ASSUME NEW strict, larray \in Seq(Int), Ordered(strict, larray), rarray \in Seq(Int),
         li \in Nat, ri \in Nat, NEW n \in Nat, NEW m \in Nat, li + n <= lc
  PROVE  /\ Hits(n, m) \in Seq(Int) /\ Ordered(strict, Hits(n, m))
         /\ ToSet(Hits(n, m)) = Part(larray, li, n) \cap Part(rarray, ri, m)
<1> DEFINE hit(k) == \E j \in ri .. ri + m - 1 : At(rarray, j) = At(larray, li + k - 1)
           x(k) == At(larray, li + k - 1)
           R(f) == [k \in 0 .. n |->
                      IF k = 0 THEN <<>>
                      ELSE IF hit(k) THEN Append(f[k - 1], x(k)) ELSE f[k - 1]]
           Good(s, k) == /\ s \in Seq(Int) /\ Ordered(strict, s)
                         /\ ToSet(s) = {x(j) : j \in {i \in 1 .. k : hit(i)}}
<1>1. \A k \in 1 .. n : x(k) \in Int
  <2>1. \A k \in 1 .. n : li + k - 1 \in 0 .. Len(larray) - 1
    BY DEF lc
  <2> QED
    BY <2>1, InOrdered
<1>2. \A j, k \in 1 .. n : j < k => Up(strict, x(j), x(k))
  <2>1. \A j, k \in 1 .. n : j < k =>
           /\ li + j - 1 \in 0 .. Len(larray) - 1 /\ li + k - 1 \in 0 .. Len(larray) - 1
           /\ li + j - 1 < li + k - 1
    BY DEF lc
  <2> QED
    BY <2>1, InOrdered
<1> HIDE DEF x, hit
<1>3. \E f : f = R(f)
  <2> DEFINE V == Seq(Int)
             D == [p \in V \X (1 .. n) |-> IF hit(p[2]) THEN Append(p[1], x(p[2])) ELSE p[1]]
  <2>1. D \in [V \X (1 .. n) -> V]
    <3>1. ASSUME NEW p \in V \X (1 .. n)
          PROVE  (IF hit(p[2]) THEN Append(p[1], x(p[2])) ELSE p[1]) \in V
      <4>1. p[1] \in Seq(Int) /\ p[2] \in 1 .. n
        OBVIOUS
      <4>2. x(p[2]) \in Int
        BY <4>1, <1>1
      <4>3. Append(p[1], x(p[2])) \in Seq(Int)
        BY <4>1, <4>2
      <4> QED
        BY <4>1, <4>3
    <3> HIDE DEF V
    <3> QED
      BY <3>1
  <2>2. <<>> \in V
    OBVIOUS
  <2>3. \A s \in V, k \in 1 .. n : D[<<s, k>>] = IF hit(k) THEN Append(s, x(k)) ELSE s
    OBVIOUS
  <2> HIDE DEF D, V
  <2>7. PICK d : d = D
    OBVIOUS
  <2>8. PICK v : v = <<>>
    OBVIOUS
  <2>9. PICK W : W = V
    OBVIOUS
  <2>10. d \in [W \X (1 .. n) -> W] /\ v \in W
    BY <2>1, <2>2, <2>7, <2>8, <2>9
  <2>4. PICK g \in [0 .. n -> V] : g[0] = <<>> /\ \A k \in 1 .. n : g[k] = D[<<g[k - 1], k>>]
    <3>1. PICK g : Follows(g, n, W, v, d)
      BY <2>10, Recursion
    <3> QED
      BY <3>1, <2>7, <2>8, <2>9 DEF Follows
  <2>5. ASSUME NEW k \in 0 .. n
        PROVE  g[k] = IF k = 0 THEN <<>>
                      ELSE IF hit(k) THEN Append(g[k - 1], x(k)) ELSE g[k - 1]
    <3>1. CASE k = 0
      BY <3>1, <2>4
    <3>2. CASE k # 0
      <4>1. k \in 1 .. n /\ k - 1 \in 0 .. n
        BY <3>2
      <4>2. g[k - 1] \in V /\ g[k] = D[<<g[k - 1], k>>]
        BY <4>1, <2>4
      <4> QED
        BY <4>1, <4>2, <3>2, <2>3
    <3> QED
      BY <3>1, <3>2
  <2>6. g = R(g)
    BY <2>5, <2>4
  <2> QED
    BY <2>6
<1>4. ASSUME NEW f, f = R(f) PROVE Good(f[n], n)
  <2> DEFINE S == {k \in 0 .. n : Good(f[k], k)}
  <2>1. f[0] = <<>> /\ \A k \in 1 .. n : f[k] = IF hit(k) THEN Append(f[k - 1], x(k)) ELSE f[k - 1]
    <3>1. ASSUME NEW k \in 0 .. n
          PROVE  f[k] = IF k = 0 THEN <<>>
                        ELSE IF hit(k) THEN Append(f[k - 1], x(k)) ELSE f[k - 1]
      BY <1>4
    <3>2. 0 \in 0 .. n /\ \A k \in 1 .. n : k \in 0 .. n /\ k # 0
      OBVIOUS
    <3> HIDE DEF R
    <3> QED
      BY <3>1, <3>2
  <2>2. 0 \in S
    <3>1. <<>> \in Seq(Int) /\ Ordered(strict, <<>>) /\ ToSet(<<>>) = {}
      BY DEF Ordered, ToSet
    <3>2. {x(j) : j \in {i \in 1 .. 0 : hit(i)}} = {}
      OBVIOUS
    <3>3. Good(<<>>, 0)
      BY <3>1, <3>2
    <3> HIDE DEF Good
    <3> QED
      BY <3>3, <2>1
  <2>3. ASSUME NEW k \in 1 .. n, k - 1 \in S PROVE k \in S
    <3>1. Good(f[k - 1], k - 1)
      BY <2>3
    <3>2. PICK s : s = f[k - 1]
      OBVIOUS
    <3>3. s \in Seq(Int) /\ Ordered(strict, s) /\ ToSet(s) = {x(j) : j \in {i \in 1 .. k - 1 : hit(i)}}
      BY <3>1, <3>2
    <3>4. CASE ~ hit(k)
      <4>1. f[k] = s
        BY <3>2, <3>4, <2>1
      <4>2. {i \in 1 .. k : hit(i)} = {i \in 1 .. k - 1 : hit(i)}
        BY <3>4
      <4>3. Good(s, k)
        BY <4>2, <3>3
      <4> HIDE DEF Good
      <4> QED
        BY <4>1, <4>3
    <3>5. CASE hit(k)
      <4>1. f[k] = Append(s, x(k))
        BY <3>2, <3>5, <2>1
      <4>2. x(k) \in Int
        BY <1>1
      <4>3. PICK y \in Int : y = x(k)
        BY <4>2
      <4>4. \A i \in 1 .. Len(s) : Up(strict, s[i], y)
        <5>1. ASSUME NEW i \in 1 .. Len(s) PROVE Up(strict, s[i], y)
          <6>1. s[i] \in ToSet(s)
            BY <3>3 DEF ToSet
          <6>2. PICK j \in 1 .. k - 1 : s[i] = x(j)
            BY <6>1, <3>3
          <6>3. j \in 1 .. n /\ j < k
            OBVIOUS
          <6> QED
            BY <6>2, <6>3, <4>3, <1>2
        <5> QED
          BY <5>1
      <4>5. /\ Append(s, y) \in Seq(Int) /\ Len(Append(s, y)) = Len(s) + 1
            /\ \A i \in 1 .. Len(s) : Append(s, y)[i] = s[i]
            /\ Append(s, y)[Len(s) + 1] = y
            /\ Len(s) \in Nat
        BY <3>3
      <4>6. PICK t : t = Append(s, y)
        OBVIOUS
      <4>7. Ordered(strict, t)
        <5>1. ASSUME NEW i \in 1 .. Len(s) + 1, NEW j \in 1 .. Len(s) + 1, i < j
              PROVE  Up(strict, t[i], t[j])
          <6>1. i \in 1 .. Len(s) /\ (j = Len(s) + 1 \/ j \in 1 .. Len(s))
            <7>1. PICK len \in Nat : len = Len(s)
              BY <4>5
            <7>2. i \in 1 .. len + 1 /\ j \in 1 .. len + 1
              BY <7>1
            <7>3. i \in 1 .. len /\ (j = len + 1 \/ j \in 1 .. len)
              BY <7>2, <5>1
            <7> QED
              BY <7>1, <7>3
          <6>2. DOMAIN s = 1 .. Len(s)
            BY <3>3
          <6>3. CASE j = Len(s) + 1
            BY <6>1, <6>3, <4>4, <4>5, <4>6
          <6>4. CASE j \in 1 .. Len(s)
            <7>1. Up(strict, s[i], s[j])
              BY <6>1, <6>2, <6>4, <5>1, <3>3 DEF Ordered
            <7> QED
              BY <7>1, <6>1, <6>4, <4>5, <4>6
          <6> QED
            BY <6>1, <6>3, <6>4
        <5>2. DOMAIN t = 1 .. Len(s) + 1
          BY <4>5, <4>6
        <5> QED
          BY <5>1, <5>2 DEF Ordered
      <4>8. ToSet(t) = ToSet(s) \cup {y}
        <5>1. /\ DOMAIN t = 1 .. Len(s) + 1 /\ DOMAIN s = 1 .. Len(s)
          BY <4>5, <4>6, <3>3
        <5>2. ASSUME NEW i \in 1 .. Len(s) + 1 PROVE t[i] \in ToSet(s) \cup {y}
          <6>1. i \in 1 .. Len(s) \/ i = Len(s) + 1
            BY <4>5
          <6> QED
            BY <6>1, <5>1, <4>5, <4>6 DEF ToSet
        <5>3. ASSUME NEW i \in 1 .. Len(s) PROVE s[i] \in ToSet(t)
          <6>1. i \in 1 .. Len(s) + 1 /\ t[i] = s[i]
            BY <4>5, <4>6
          <6> QED
            BY <6>1, <5>1 DEF ToSet
        <5>4. y \in ToSet(t)
          <6>1. Len(s) + 1 \in 1 .. Len(s) + 1 /\ t[Len(s) + 1] = y
            BY <4>5, <4>6
          <6> QED
            BY <6>1, <5>1 DEF ToSet
        <5> QED
          BY <5>1, <5>2, <5>3, <5>4 DEF ToSet
      <4>9. {i \in 1 .. k : hit(i)} = {i \in 1 .. k - 1 : hit(i)} \cup {k}
        BY <3>5
      <4>10. ToSet(t) = {x(j) : j \in {i \in 1 .. k : hit(i)}}
        BY <4>3, <4>8, <4>9, <3>3
      <4>11. Good(t, k)
        BY <4>5, <4>6, <4>7, <4>10
      <4>12. f[k] = t
        BY <4>1, <4>3, <4>6
      <4> HIDE DEF Good
      <4> QED
        BY <4>11, <4>12
    <3> QED
      BY <3>4, <3>5
  <2>4. 0 .. n \subseteq S
    <3> HIDE DEF S
    <3> QED
      BY <2>2, <2>3, Upwards
  <2>5. n \in S
    <3> HIDE DEF S
    <3> QED
      BY <2>4
  <2> HIDE DEF Good
  <2> QED
    BY <2>5
<1>5. Hits(n, m) = (CHOOSE f : f = R(f))[n]
  BY DEF Hits, hit, x
<1>6. Good(Hits(n, m), n)
  <2> HIDE DEF R, Good
  <2> QED
    BY <1>3, <1>4, <1>5
<1>7. {x(j) : j \in {i \in 1 .. n : hit(i)}} = Part(larray, li, n) \cap Part(rarray, ri, m)
  <2>1. ASSUME NEW j \in 1 .. n, hit(j)
        PROVE  x(j) \in Part(larray, li, n) \cap Part(rarray, ri, m)
    <3>1. li + j - 1 \in li .. li + n - 1
      OBVIOUS
    <3> QED
      BY <2>1, <3>1 DEF x, hit, Part
  <2>2. ASSUME NEW y \in Part(larray, li, n), y \in Part(rarray, ri, m)
        PROVE  \E j \in 1 .. n : hit(j) /\ y = x(j)
    <3>1. PICK k \in li .. li + n - 1 : y = At(larray, k)
      BY DEF Part
    <3>2. PICK i \in ri .. ri + m - 1 : y = At(rarray, i)
      BY <2>2 DEF Part
    <3>3. PICK j \in 1 .. n : li + j - 1 = k
      <4>1. k - li + 1 \in 1 .. n /\ li + (k - li + 1) - 1 = k
        OBVIOUS
      <4> QED
        BY <4>1
    <3>4. y = x(j) /\ hit(j)
      BY <3>1, <3>2, <3>3 DEF x, hit
    <3> QED
      BY <3>4
  <2> QED
    BY <2>1, <2>2
<1> QED
  BY <1>6, <1>7
-----------------------------------------------------------------------------
(* What a move of the cursors keeps                                        *)

\* NothingLost, of a result c and two cursors.
Kept(strict, c, a, i, b, j) ==
  /\ ToSet(c) \cup (Ahead(a, i) \cap Ahead(b, j)) = ToSet(a) \cap ToSet(b)
  /\ \A k \in 1 .. Len(c) - 1 : Up(strict, c[k], c[k + 1])
  /\ \A k \in DOMAIN c : \A x \in Ahead(a, i) \cap Ahead(b, j) : Up(strict, c[k], x)

LEMMA AheadIs ==
  ASSUME NEW a \in Seq(Int), NEW i \in Nat
  PROVE  Ahead(a, i) = {At(a, k) : k \in i .. Len(a) - 1}
<1>1. Len(a) \in Nat
  OBVIOUS
<1>2. ASSUME NEW k \in i + 1 .. Len(a) PROVE \E m \in i .. Len(a) - 1 : At(a, m) = a[k]
  <2>1. k - 1 \in i .. Len(a) - 1 /\ k - 1 < Len(a) /\ (k - 1) + 1 = k
    BY <1>1
  <2> QED
    BY <2>1 DEF At
<1>3. ASSUME NEW m \in i .. Len(a) - 1 PROVE \E k \in i + 1 .. Len(a) : At(a, m) = a[k]
  <2>1. m + 1 \in i + 1 .. Len(a) /\ m < Len(a)
    BY <1>1
  <2> QED
    BY <2>1 DEF At
<1> QED
  BY <1>2, <1>3 DEF Ahead

\* The cursors pass n and m elements or none: the one or the other block is
\* passed only if its last element is not above the other's last.
Passes(a, i, n, i2, b, j, m, j2) ==
  /\ i + n <= Len(a) /\ j + m <= Len(b)
  /\ i2 \in {i, i + n} /\ j2 \in {j, j + m} /\ (i2 = i + n \/ j2 = j + m)
  /\ i2 = i + n => At(a, i + n - 1) <= At(b, j + m - 1)
  /\ j2 = j + m => At(a, i + n - 1) >= At(b, j + m - 1)

LEMMA CursorFacts ==
  ASSUME NEW top \in Nat, NEW i \in Nat, NEW n \in Nat \ {0}, i + n <= top,
         NEW i2 \in {i, i + n}
  PROVE  /\ i2 \in Nat
         /\ i + n - 1 \in 0 .. top - 1
         /\ \A k \in i .. top - 1 : k \in 0 .. top - 1
         /\ \A k \in i2 .. top - 1 : k \in i .. top - 1
         /\ \A k \in i .. i + n - 1 : k \in i .. top - 1
         /\ \A k \in i .. top - 1 : k \in i2 .. top - 1 \/ (i2 = i + n /\ k < i + n)
         /\ i2 = i + n => \A k \in i .. i + n - 1 : \A k2 \in i2 .. top - 1 : k < k2
OBVIOUS

\* What the two blocks have in common goes to the result.
LEMMA Advance ==
  ASSUME NEW strict, NEW a \in Seq(Int), Ordered(strict, a),
         NEW b \in Seq(Int), Ordered(strict, b), NEW i \in Nat, NEW j \in Nat, NEW n \in Nat \ {0}, NEW m \in Nat \ {0},
         NEW i2, NEW j2, Passes(a, i, n, i2, b, j, m, j2),
         NEW c \in Seq(Int), Kept(strict, c, a, i, b, j),
         NEW h \in Seq(Int), Ordered(strict, h), ToSet(h) = Part(a, i, n) \cap Part(b, j, m)
  PROVE  Kept(strict, c \o h, a, i2, b, j2)
<1>21. PICK la \in Nat, lb \in Nat : la = Len(a) /\ lb = Len(b)
  OBVIOUS
<1>0. /\ i2 \in {i, i + n} /\ j2 \in {j, j + m}
      /\ i + n <= la /\ j + m <= lb /\ (i2 = i + n \/ j2 = j + m)
  BY <1>21 DEF Passes
<1>19. /\ i2 \in Nat
       /\ i + n - 1 \in 0 .. la - 1
       /\ \A k \in i .. la - 1 : k \in 0 .. la - 1
       /\ \A k \in i2 .. la - 1 : k \in i .. la - 1
       /\ \A k \in i .. i + n - 1 : k \in i .. la - 1
       /\ \A k \in i .. la - 1 : k \in i2 .. la - 1 \/ (i2 = i + n /\ k < i + n)
       /\ i2 = i + n => \A k \in i .. i + n - 1 : \A k2 \in i2 .. la - 1 : k < k2
  BY <1>0, CursorFacts
<1>20. /\ j2 \in Nat
       /\ j + m - 1 \in 0 .. lb - 1
       /\ \A k \in j .. lb - 1 : k \in 0 .. lb - 1
       /\ \A k \in j2 .. lb - 1 : k \in j .. lb - 1
       /\ \A k \in j .. j + m - 1 : k \in j .. lb - 1
       /\ \A k \in j .. lb - 1 : k \in j2 .. lb - 1 \/ (j2 = j + m /\ k < j + m)
       /\ j2 = j + m => \A k \in j .. j + m - 1 : \A k2 \in j2 .. lb - 1 : k < k2
  BY <1>0, CursorFacts
<1>18. /\ i2 = i + n => At(a, i + n - 1) <= At(b, j + m - 1)
       /\ j2 = j + m => At(a, i + n - 1) >= At(b, j + m - 1)
  BY DEF Passes
<1>1. /\ \A k \in 0 .. la - 1 : At(a, k) \in Int
      /\ \A k \in 0 .. lb - 1 : At(b, k) \in Int
      /\ \A k, y \in 0 .. la - 1 : k < y => Up(strict, At(a, k), At(a, y))
      /\ \A k, y \in 0 .. lb - 1 : k < y => Up(strict, At(b, k), At(b, y))
      /\ \A k, y \in 0 .. la - 1 : k < y => At(a, k) <= At(a, y)
      /\ \A k, y \in 0 .. lb - 1 : k < y => At(b, k) <= At(b, y)
  BY <1>21, InOrdered
<1> DEFINE Old == Ahead(a, i) \cap Ahead(b, j)
           New == Ahead(a, i2) \cap Ahead(b, j2)
           Shared == Part(a, i, n) \cap Part(b, j, m)
<1>2. /\ Ahead(a, i) = {At(a, k) : k \in i .. la - 1}
      /\ Ahead(b, j) = {At(b, k) : k \in j .. lb - 1}
      /\ Ahead(a, i2) = {At(a, k) : k \in i2 .. la - 1}
      /\ Ahead(b, j2) = {At(b, k) : k \in j2 .. lb - 1}
  BY <1>19, <1>20, <1>21, AheadIs
<1>3. /\ i + n - 1 \in 0 .. la - 1 /\ j + m - 1 \in 0 .. lb - 1
      /\ At(a, i + n - 1) \in Int /\ At(b, j + m - 1) \in Int
  BY <1>19, <1>20, <1>1
<1>4. New \subseteq Old /\ Old \subseteq Int
  <2>3. Ahead(a, i2) \subseteq Ahead(a, i) /\ Ahead(b, j2) \subseteq Ahead(b, j)
    BY <1>2, <1>19, <1>20
  <2>4. Ahead(a, i) \subseteq Int
    BY <1>1, <1>2, <1>19
  <2> QED
    BY <2>3, <2>4
<1>5. Shared \subseteq Old
  BY <1>19, <1>20, <1>2 DEF Part
<1>6. ASSUME NEW x \in Old, x \notin New PROVE x \in Shared
  <2>1. PICK k \in i .. la - 1 : x = At(a, k)
    BY <1>2
  <2>2. PICK y \in j .. lb - 1 : x = At(b, y)
    BY <1>2
  <2>3. k \in 0 .. la - 1 /\ y \in 0 .. lb - 1
    BY <1>19, <1>20
  <2>11. At(a, k) \in Int /\ At(b, y) \in Int /\ k \in Int /\ y \in Int
    BY <2>3, <1>1
  <2>4. \/ i2 = i + n /\ k < i + n
        \/ j2 = j + m /\ y < j + m
    <3>1. k \notin i2 .. la - 1 \/ y \notin j2 .. lb - 1
      BY <2>1, <2>2, <1>2, <1>6
    <3> QED
      BY <3>1, <1>19, <1>20
  <2>5. PICK p \in Int : p = i + n - 1
    BY <1>3
  <2>6. PICK q \in Int : q = j + m - 1
    BY <1>3
  <2>7. /\ p \in 0 .. la - 1 /\ q \in 0 .. lb - 1
        /\ At(a, p) \in Int /\ At(b, q) \in Int
        /\ p \in i .. i + n - 1 /\ q \in j .. j + m - 1
    BY <2>5, <2>6, <1>3
  <2>8. /\ p < k => At(a, p) <= At(a, k)
        /\ k < p => At(a, k) <= At(a, p)
        /\ q < y => At(b, q) <= At(b, y)
        /\ y < q => At(b, y) <= At(b, q)
    BY <2>3, <2>7, <1>1
  <2>9. PICK u \in Int, v \in Int : u = At(a, p) /\ v = At(b, q)
    BY <2>7
  <2>10. PICK z \in Int : z = x
    BY <2>1, <2>11
  <2>12. /\ p < k => u <= z
         /\ k < p => z <= u
         /\ q < y => v <= z
         /\ y < q => z <= v
         /\ k = p => z = u
         /\ y = q => z = v
         /\ i2 = i + n => u <= v
         /\ j2 = j + m => u >= v
    <3>1. /\ i2 = i + n => At(a, p) <= At(b, q)
          /\ j2 = j + m => At(a, p) >= At(b, q)
      BY <2>5, <2>6, <1>18
    <3> QED
      BY <3>1, <2>1, <2>2, <2>8, <2>9, <2>10
  \* Its place in the one list is passed; in the other it is within the block, or
  \* equal to the block's last.
  <2>13. (k <= p \/ z = u) /\ (y <= q \/ z = v)
    <3>0. k \in Int /\ y \in Int /\ p \in Int /\ q \in Int
          /\ u \in Int /\ v \in Int /\ z \in Int
      BY <2>11
    <3>1. CASE i2 = i + n /\ k < i + n
      <4>1. k <= p
        BY <3>1, <2>5, <2>11
      <4>2. z <= u /\ u <= v
        BY ONLY <4>1, <3>0, <3>1, <2>12
      <4> QED
        BY ONLY <4>1, <4>2, <3>0, <2>12
    <3>2. CASE j2 = j + m /\ y < j + m
      <4>1. y <= q
        BY <3>2, <2>6, <2>11
      <4>2. z <= v /\ v <= u
        BY ONLY <4>1, <3>0, <3>2, <2>12
      <4> QED
        BY ONLY <4>1, <4>2, <3>0, <2>12
    <3> QED
      BY <2>4, <3>1, <3>2
  <2>14. x \in Part(a, i, n)
    <3>1. CASE k <= p
      <4>1. k \in i .. i + n - 1
        BY <3>1, <2>5, <2>11
      <4> QED
        BY <4>1, <2>1 DEF Part
    <3>2. CASE z = u
      BY <3>2, <2>7, <2>9, <2>10 DEF Part
    <3> QED
      BY <3>1, <3>2, <2>13
  <2>15. x \in Part(b, j, m)
    <3>1. CASE y <= q
      <4>1. y \in j .. j + m - 1
        BY <3>1, <2>6, <2>11
      <4> QED
        BY <4>1, <2>2 DEF Part
    <3>2. CASE z = v
      BY <3>2, <2>7, <2>9, <2>10 DEF Part
    <3> QED
      BY <3>1, <3>2, <2>13
  <2> QED
    BY <2>14, <2>15
<1>7. ASSUME NEW x \in Shared, NEW z \in New PROVE Up(strict, x, z)
  <2>1. PICK k \in i .. i + n - 1 : x = At(a, k)
    BY DEF Part
  <2>2. PICK y \in j .. j + m - 1 : x = At(b, y)
    BY DEF Part
  <2>3. PICK k2 \in i2 .. la - 1 : z = At(a, k2)
    BY <1>2
  <2>4. PICK y2 \in j2 .. lb - 1 : z = At(b, y2)
    BY <1>2
  <2>5. /\ k \in 0 .. la - 1 /\ k2 \in 0 .. la - 1
        /\ y \in 0 .. lb - 1 /\ y2 \in 0 .. lb - 1
        /\ k < k2 \/ y < y2
    BY <1>0, <1>19, <1>20
  <2>6. k < k2 => Up(strict, x, z)
    <3>1. k < k2 => Up(strict, At(a, k), At(a, k2))
      BY <2>5, <1>1
    <3> QED
      BY <3>1, <2>1, <2>3
  <2>7. y < y2 => Up(strict, x, z)
    <3>1. y < y2 => Up(strict, At(b, y), At(b, y2))
      BY <2>5, <1>1
    <3> QED
      BY <3>1, <2>2, <2>4
  <2> QED
    BY <2>5, <2>6, <2>7
<1>8. /\ ToSet(c) \cup Old = ToSet(a) \cap ToSet(b)
      /\ \A k \in 1 .. Len(c) - 1 : Up(strict, c[k], c[k + 1])
      /\ \A k \in DOMAIN c : \A x \in Old : Up(strict, c[k], x)
  BY DEF Kept
<1>9. PICK d : d = c \o h
  OBVIOUS
<1>10. /\ d \in Seq(Int) /\ Len(d) = Len(c) + Len(h)
       /\ Len(c) \in Nat /\ Len(h) \in Nat
       /\ DOMAIN c = 1 .. Len(c) /\ DOMAIN h = 1 .. Len(h)
       /\ DOMAIN d = 1 .. Len(c) + Len(h)
       /\ \A k \in 1 .. Len(c) : d[k] = c[k]
       /\ \A k \in Len(c) + 1 .. Len(c) + Len(h) : d[k] = h[k - Len(c)]
  BY <1>9
<1> HIDE DEF Old, New, Shared
<1>11. \A k \in 1 .. Len(h) : h[k] \in Shared /\ h[k] \in Old /\ h[k] \in Int
  <2>1. \A k \in 1 .. Len(h) : h[k] \in ToSet(h)
    BY <1>10 DEF ToSet
  <2>2. ToSet(h) = Shared
    BY DEF Shared
  <2>3. \A k \in 1 .. Len(h) : h[k] \in Shared /\ h[k] \in Old
    BY <2>1, <2>2, <1>5
  <2> QED
    BY <2>3, <1>4
<1> DEFINE u == Len(c)
           w == Len(h)
<1>17. /\ u \in Nat /\ w \in Nat /\ Len(d) = u + w
       /\ \A k \in 1 .. u + w : k \in 1 .. u \/ (k \in u + 1 .. u + w /\ k - u \in 1 .. w)
       /\ \A k \in 1 .. u : d[k] = c[k]
       /\ \A k \in 1 .. w : /\ u + k \in u + 1 .. u + w /\ u + k \in 1 .. u + w
                            /\ d[u + k] = h[k]
  <2>1. u \in Nat /\ w \in Nat /\ Len(d) = u + w
    BY <1>10
  <2>2. \A k \in u + 1 .. u + w : d[k] = h[k - u]
    BY <1>10
  <2>3. \A k \in 1 .. u : d[k] = c[k]
    BY <1>10
  <2> HIDE DEF u, w
  <2>4. \A k \in 1 .. u + w : k \in 1 .. u \/ (k \in u + 1 .. u + w /\ k - u \in 1 .. w)
    BY <2>1
  <2>5. \A k \in 1 .. w : u + k \in u + 1 .. u + w /\ u + k \in 1 .. u + w /\ (u + k) - u = k
    BY <2>1
  <2>6. \A k \in 1 .. w : d[u + k] = h[k]
    <3>1. ASSUME NEW k \in 1 .. w PROVE d[u + k] = h[k]
      <4>1. PICK q : q = u + k
        OBVIOUS
      <4>2. q \in u + 1 .. u + w /\ q - u = k
        BY <4>1, <2>5
      <4> QED
        BY <4>1, <4>2, <2>2
    <3> QED
      BY <3>1
  <2> QED
    BY <2>1, <2>3, <2>4, <2>5, <2>6
<1>12. ToSet(d) = ToSet(c) \cup Shared
  <2>1. ASSUME NEW k \in 1 .. Len(c) + Len(h) PROVE d[k] \in ToSet(c) \cup Shared
    <3>1. CASE k \in 1 .. Len(c)
      BY <3>1, <1>10 DEF ToSet
    <3>2. CASE k \notin 1 .. Len(c)
      <4>1. k \in Len(c) + 1 .. Len(c) + Len(h) /\ k - Len(c) \in 1 .. Len(h)
        BY <3>2, <1>10
      <4> QED
        BY <4>1, <1>10, <1>11
    <3> QED
      BY <3>1, <3>2
  <2>2. ASSUME NEW k \in 1 .. Len(c) PROVE c[k] \in ToSet(d)
    <3>1. k \in 1 .. Len(c) + Len(h)
      BY <1>10
    <3> QED
      BY <3>1, <1>10 DEF ToSet
  <2>3. ASSUME NEW k \in 1 .. Len(h) PROVE h[k] \in ToSet(d)
    <3>1. PICK q \in 1 .. u + w : d[q] = h[k]
      BY <1>17
    <3> QED
      BY <3>1, <1>10 DEF ToSet
  <2>4. ToSet(h) = Shared
    BY DEF Shared
  <2>5. /\ ToSet(c) = {c[k] : k \in 1 .. Len(c)}
        /\ ToSet(h) = {h[k] : k \in 1 .. Len(h)}
        /\ ToSet(d) = {d[k] : k \in 1 .. Len(c) + Len(h)}
    BY <1>10 DEF ToSet
  <2>6. ToSet(d) \subseteq ToSet(c) \cup Shared
    BY <2>1, <2>5
  <2>7. ToSet(c) \subseteq ToSet(d)
    BY <2>2, <2>5
  <2>8. ToSet(h) \subseteq ToSet(d)
    BY <2>3, <2>5
  <2> QED
    BY <2>4, <2>6, <2>7, <2>8
<1>13. ToSet(d) \cup New = ToSet(a) \cap ToSet(b)
  BY <1>12, <1>8, <1>4, <1>5, <1>6
<1>14. ASSUME NEW k \in 1 .. Len(d) - 1 PROVE Up(strict, d[k], d[k + 1])
  <2>1. /\ u \in Nat /\ w \in Nat /\ k \in 1 .. u + w - 1
    BY <1>17
  <2>2. \A q \in 1 .. w : d[u + q] = h[q]
    BY <1>17
  <2>3. /\ \A q \in 1 .. u - 1 : Up(strict, c[q], c[q + 1])
        /\ \A q \in 1 .. u : \A x \in Old : Up(strict, c[q], x)
    BY <1>8, <1>10
  <2>4. \A q, x \in 1 .. w : q < x => Up(strict, h[q], h[x])
    BY <1>10 DEF Ordered
  <2>5. \A q \in 1 .. u : d[q] = c[q]
    BY <1>17
  <2>6. \A q \in 1 .. w : h[q] \in Old
    BY <1>11
  <2> HIDE DEF u, w
  <2>7. CASE k + 1 <= u
    <3>1. k \in 1 .. u /\ k \in 1 .. u - 1 /\ k + 1 \in 1 .. u
      BY <2>1, <2>7
    <3> QED
      BY <3>1, <2>3, <2>5
  <2>8. CASE k = u
    <3>1. k \in 1 .. u /\ 1 \in 1 .. w
      BY <2>1, <2>8
    <3>2. d[k] = c[k] /\ d[k + 1] = h[1] /\ h[1] \in Old
      BY <3>1, <2>2, <2>5, <2>6, <2>8
    <3> QED
      BY <3>1, <3>2, <2>3
  <2>9. CASE k > u
    <3>1. PICK q : q = k - u
      OBVIOUS
    <3>2. q \in 1 .. w /\ q + 1 \in 1 .. w /\ q < q + 1 /\ k = u + q /\ k + 1 = u + (q + 1)
      BY <3>1, <2>1, <2>9
    <3>3. Up(strict, h[q], h[q + 1])
      BY <3>2, <2>4
    <3>4. d[k] = h[q]
      BY <3>2, <2>2
    <3>5. d[k + 1] = h[q + 1]
      BY <3>2, <2>2
    <3> QED
      BY <3>3, <3>4, <3>5
  <2> QED
    BY <2>7, <2>8, <2>9, <2>1
<1>15. ASSUME NEW k \in DOMAIN d, NEW z \in New PROVE Up(strict, d[k], z)
  <2>1. CASE k \in 1 .. u
    BY <2>1, <1>4, <1>8, <1>10
  <2>2. CASE k \notin 1 .. u
    <3>1. k \in u + 1 .. u + w /\ k - u \in 1 .. w
      BY <2>2, <1>10, <1>17
    <3>2. d[k] = h[k - u] /\ h[k - u] \in Shared
      BY <3>1, <1>10, <1>11
    <3> QED
      BY <3>2, <1>7
  <2> QED
    BY <2>1, <2>2
<1>16. Kept(strict, d, a, i2, b, j2)
  BY <1>13, <1>14, <1>15 DEF Kept, New
<1> QED
  BY <1>16, <1>9
-----------------------------------------------------------------------------
(* The invariant of the kernels                                            *)

Typed ==
  /\ larray \in Lists /\ rarray \in Lists /\ behind \in Behind
  /\ li \in 0 .. lc /\ ri \in 0 .. rc
  /\ cn \in Seq(Int) /\ pc \in Kernels

\* What a round's loop has tested: its vectors are in the lists.
Ready ==
  /\ pc # "done" => li < lc /\ ri < rc
  /\ pc = "one to many" => ri + LANES <= rc
  /\ pc = "blocks" => li + ROWS <= lc /\ ri + COLS <= rc

KernelsInv == Typed /\ Ready /\ NothingLost

LEMMA Widths ==
  /\ LANES \in Nat \ {0} /\ ROWS \in Nat \ {0} /\ COLS \in Nat \ {0}
  /\ RATIO \in Nat \ {0} /\ SKEW \in Nat \ {0}
  /\ \A a \in Lists : a \in Seq(Int) /\ NonDecreasing(a) /\ Len(a) \in Nat
  /\ Behind \subseteq Int
<1>1. /\ LANES \in Nat \ {0} /\ ROWS \in Nat \ {0} /\ LANES % ROWS = 0
      /\ RATIO \in Nat \ {0} /\ SKEW \in Nat \ {0}
      /\ Lists \subseteq Seq(Int) /\ Behind \subseteq Int
      /\ \A a \in Lists : NonDecreasing(a)
  BY IntersectionAssumption
<1>2. COLS \in Nat \ {0}
  <2>1. \A x, y \in Nat \ {0} : x % y = 0 => x \div y \in Nat \ {0}
    OBVIOUS
  <2> QED
    BY <1>1, <2>1 DEF COLS
<1> QED
  BY <1>1, <1>2

LEMMA TypedFacts ==
  ASSUME Typed
  PROVE  /\ larray \in Seq(Int) /\ Ordered(NoRepeats, larray) /\ NonDecreasing(larray)
         /\ rarray \in Seq(Int) /\ Ordered(NoRepeats, rarray) /\ NonDecreasing(rarray)
         /\ lc \in Nat /\ rc \in Nat /\ li \in Nat /\ ri \in Nat /\ li <= lc /\ ri <= rc
         /\ cn \in Seq(Int)
<1>1. /\ larray \in Seq(Int) /\ NonDecreasing(larray)
      /\ rarray \in Seq(Int) /\ NonDecreasing(rarray)
      /\ lc \in Nat /\ rc \in Nat /\ li \in Nat /\ ri \in Nat /\ li <= lc /\ ri <= rc
      /\ cn \in Seq(Int)
  BY Widths DEF Typed, lc, rc
<1>2. ASSUME NEW a \in {larray, rarray} PROVE Ordered(NoRepeats, a)
  <2>1. a \in Seq(Int) /\ NonDecreasing(a) /\ (NoRepeats => Increasing(a))
    BY <1>1 DEF NoRepeats
  <2>2. ASSUME NEW i \in DOMAIN a, NEW j \in DOMAIN a, i < j
        PROVE  Up(NoRepeats, a[i], a[j])
    <3>1. a[i] \in Int /\ a[j] \in Int /\ a[i] <= a[j] /\ (NoRepeats => a[i] < a[j])
      BY <2>1, <2>2 DEF NonDecreasing, Increasing
    <3> QED
      BY <3>1 DEF Up
  <2> QED
    BY <2>2 DEF Ordered
<1> QED
  BY <1>1, <1>2

LEMMA KernelsInit ==
  ASSUME Init
  PROVE  KernelsInv
<1>1. Typed
  <2>1. larray \in Lists /\ rarray \in Lists /\ behind \in Behind
        /\ li = 0 /\ ri = 0 /\ cn = <<>> /\ pc = Kernel
    BY DEF Init
  <2>2. lc \in Nat /\ rc \in Nat
    BY <2>1, Widths DEF lc, rc
  <2>3. pc \in Kernels
    BY <2>1 DEF Kernel, Kernels
  <2>4. cn \in Seq(Int)
    BY <2>1
  <2>5. li \in 0 .. lc /\ ri \in 0 .. rc
    BY <2>1, <2>2
  <2> QED
    BY <2>1, <2>3, <2>4, <2>5 DEF Typed
<1>2. lc \in Nat /\ rc \in Nat /\ larray \in Seq(Int) /\ rarray \in Seq(Int)
  BY <1>1, TypedFacts
<1>3. Ready
  <2>1. li = 0 /\ ri = 0 /\ pc = Kernel
    BY DEF Init
  <2>2. Kernel # "done" => lc # 0 /\ rc # 0
    BY DEF Kernel
  <2>3. Kernel = "one to many" => LANES <= rc
    BY DEF Kernel
  <2>4. Kernel = "blocks" => ROWS <= lc /\ COLS <= rc
    BY DEF Kernel
  <2> HIDE DEF Kernel
  <2>5. LANES \in Nat /\ ROWS \in Nat /\ COLS \in Nat
    BY Widths
  <2>6. pc # "done" => li < lc /\ ri < rc
    BY <2>1, <2>2, <1>2
  <2>7. pc = "one to many" => ri + LANES <= rc
    <3>1. ri + LANES = LANES
      BY <2>1, <2>5
    <3> QED
      BY <2>1, <2>3, <3>1
  <2>8. pc = "blocks" => li + ROWS <= lc /\ ri + COLS <= rc
    BY <2>1, <2>4, <2>5
  <2> QED
    BY <2>6, <2>7, <2>8 DEF Ready
<1>4. NothingLost
  <2>1. Ahead(larray, 0) = ToSet(larray) /\ Ahead(rarray, 0) = ToSet(rarray)
    BY <1>2 DEF Ahead, ToSet
  <2>2. ToSet(<<>>) = {} /\ Len(<<>>) = 0 /\ DOMAIN <<>> = {}
    BY DEF ToSet
  <2>3. cn = <<>> /\ li = 0 /\ ri = 0
    BY DEF Init
  <2> QED
    BY <2>1, <2>2, <2>3 DEF NothingLost, Common
<1> QED
  BY <1>1, <1>3, <1>4 DEF KernelsInv

\* A round that goes on as Advance says.
LEMMA Round ==
  ASSUME KernelsInv, UNCHANGED lists, NEW n \in Nat \ {0}, NEW m \in Nat \ {0},
         Passes(larray, li, n, li', rarray, ri, m, ri'),
         NEW h \in Seq(Int), Ordered(NoRepeats, h),
         ToSet(h) = Part(larray, li, n) \cap Part(rarray, ri, m), cn' = cn \o h,
         Ready', pc' \in Kernels
  PROVE  KernelsInv'
<1> USE DEF Passes
<1>1. Typed /\ NothingLost
  BY DEF KernelsInv
<1>2. /\ larray \in Seq(Int) /\ Ordered(NoRepeats, larray)
      /\ rarray \in Seq(Int) /\ Ordered(NoRepeats, rarray)
      /\ lc \in Nat /\ rc \in Nat /\ li \in Nat /\ ri \in Nat /\ li <= lc /\ ri <= rc
      /\ cn \in Seq(Int)
  BY <1>1, TypedFacts
<1>3. larray' = larray /\ rarray' = rarray /\ behind' = behind /\ lc' = lc /\ rc' = rc
      /\ NoRepeats' = NoRepeats
  BY DEF lists, lc, rc, NoRepeats
<1>4. Typed'
  <2>1. li' \in 0 .. lc /\ ri' \in 0 .. rc
    <3>1. PICK i, j, i2, j2, x, y : /\ i = li /\ j = ri /\ i2 = li' /\ j2 = ri'
                                    /\ x = lc /\ y = rc
      OBVIOUS
    <3>2. /\ i \in Nat /\ j \in Nat /\ x \in Nat /\ y \in Nat /\ i <= x /\ j <= y
          /\ i2 \in {i, i + n} /\ j2 \in {j, j + m} /\ i + n <= x /\ j + m <= y
      BY <3>1, <1>2 DEF lc, rc
    <3>3. i2 \in 0 .. x /\ j2 \in 0 .. y
      BY ONLY <3>2, n \in Nat, m \in Nat
    <3> QED
      BY <3>1, <3>3
  <2>2. cn' \in Seq(Int)
    <3>1. PICK c \in Seq(Int) : c = cn
      BY <1>2
    <3>2. c \o h \in Seq(Int)
      BY ONLY c \in Seq(Int), h \in Seq(Int), ConcatProperties
    <3> QED
      BY <3>1, <3>2
  <2> QED
    BY <2>1, <2>2, <1>1, <1>3 DEF Typed
<1>6. Kept(NoRepeats, cn, larray, li, rarray, ri)
  BY <1>1 DEF NothingLost, Kept, Common, Before, Up
<1>7. Kept(NoRepeats, cn \o h, larray, li', rarray, ri')
  <2>1. PICK a, b, i, j, c, i2, j2 : /\ a = larray /\ b = rarray /\ i = li /\ j = ri
                                     /\ c = cn /\ i2 = li' /\ j2 = ri'
    OBVIOUS
  <2>2. /\ a \in Seq(Int) /\ Ordered(NoRepeats, a) /\ b \in Seq(Int) /\ Ordered(NoRepeats, b)
        /\ i \in Nat /\ j \in Nat /\ c \in Seq(Int) /\ Kept(NoRepeats, c, a, i, b, j)
    BY <1>2, <1>6, <2>1
  <2>3. Passes(a, i, n, i2, b, j, m, j2)
    BY <2>1
  <2>5. ToSet(h) = Part(a, i, n) \cap Part(b, j, m)
    BY <2>1
  <2>7. h \in Seq(Int) /\ Ordered(NoRepeats, h) /\ n \in Nat \ {0} /\ m \in Nat \ {0}
    OBVIOUS
  <2>6. Kept(NoRepeats, c \o h, a, i2, b, j2)
    BY ONLY <2>2, <2>3, <2>5, <2>7, Advance
  <2> QED
    BY <2>1, <2>6
<1>8. NothingLost'
  BY <1>7, <1>3 DEF NothingLost, Kept, Common, Before, Up
<1> QED
  BY <1>4, <1>8 DEF KernelsInv

LEMMA ProceedIs ==
  ASSUME Typed, UNCHANGED lists, NEW round \in Kernels, Proceed(round),
         li' \in Nat, ri' \in Nat,
         round = "one to many" => ri' + LANES <= rc,
         round = "blocks" => li' + ROWS <= lc /\ ri' + COLS <= rc
  PROVE  Ready' /\ pc' \in Kernels
<1>1. lc' = lc /\ rc' = rc /\ lc \in Nat /\ rc \in Nat
  BY TypedFacts DEF lists, lc, rc
<1>2. pc' = IF li' >= lc \/ ri' >= rc THEN "done" ELSE round
  BY DEF Proceed
<1>3. pc' # "done" => li' < lc /\ ri' < rc
  <2>1. PICK x \in Nat, y \in Nat, i \in Nat, j \in Nat :
          x = lc /\ y = rc /\ i = li' /\ j = ri'
    BY <1>1
  <2>2. pc' # "done" => ~ (i >= x \/ j >= y)
    BY <1>2, <2>1
  <2>4. x \in Nat /\ y \in Nat /\ i \in Nat /\ j \in Nat
    OBVIOUS
  <2>3. ~ (i >= x \/ j >= y) => i < x /\ j < y
    BY ONLY <2>4
  <2> QED
    BY <2>1, <2>2, <2>3
<1>4. pc' = "one to many" => ri' + LANES <= rc
  BY <1>2
<1>5. pc' = "blocks" => li' + ROWS <= lc /\ ri' + COLS <= rc
  BY <1>2
<1>6. pc' \in Kernels
  BY <1>2 DEF Kernels
<1> QED
  BY <1>1, <1>3, <1>4, <1>5, <1>6 DEF Ready

LEMMA One ==
  ASSUME NEW a, NEW i \in Nat
  PROVE  Part(a, i, 1) = {At(a, i)} /\ i + 1 - 1 = i
<1>1. i + 1 - 1 = i /\ i .. i + 1 - 1 = {i}
  OBVIOUS
<1> QED
  BY <1>1 DEF Part

LEMMA NoElement ==
  ASSUME NEW strict
  PROVE  /\ <<>> \in Seq(Int) /\ Ordered(strict, <<>>) /\ ToSet(<<>>) = {}
         /\ \A c \in Seq(Int) : c \o <<>> = c
BY DEF Ordered, ToSet

LEMMA Single ==
  ASSUME NEW strict, NEW x \in Int
  PROVE  /\ <<x>> \in Seq(Int) /\ Ordered(strict, <<x>>) /\ ToSet(<<x>>) = {x}
         /\ \A c \in Seq(Int) : Append(c, x) = c \o <<x>>
<1>1. <<x>> \in Seq(Int) /\ DOMAIN <<x>> = {1} /\ <<x>>[1] = x
  OBVIOUS
<1>2. \A c \in Seq(Int) : Append(c, x) = c \o <<x>>
  OBVIOUS
<1> QED
  BY <1>1, <1>2 DEF Ordered, ToSet

\* Where a round finds the cursors.
LEMMA RoundFacts ==
  ASSUME KernelsInv, pc # "done"
  PROVE  /\ Typed /\ Ready
         /\ larray \in Seq(Int) /\ Ordered(NoRepeats, larray) /\ NonDecreasing(larray)
         /\ rarray \in Seq(Int) /\ Ordered(NoRepeats, rarray) /\ NonDecreasing(rarray)
         /\ lc \in Nat /\ rc \in Nat /\ li \in Nat /\ ri \in Nat /\ li < lc /\ ri < rc
         /\ lc = Len(larray) /\ rc = Len(rarray)
         /\ cn \in Seq(Int) /\ l \in Int /\ r \in Int
<1>1. Typed /\ Ready
  BY DEF KernelsInv
<1>2. /\ larray \in Seq(Int) /\ Ordered(NoRepeats, larray) /\ NonDecreasing(larray)
      /\ rarray \in Seq(Int) /\ Ordered(NoRepeats, rarray) /\ NonDecreasing(rarray)
      /\ lc \in Nat /\ rc \in Nat /\ li \in Nat /\ ri \in Nat /\ cn \in Seq(Int)
  BY <1>1, TypedFacts
<1>3. li < lc /\ ri < rc
  BY <1>1 DEF Ready
<1>4. li \in 0 .. Len(larray) - 1 /\ ri \in 0 .. Len(rarray) - 1
  BY <1>2, <1>3 DEF lc, rc
<1>5. l \in Int /\ r \in Int
  BY <1>2, <1>4, InList DEF l, r
<1> QED
  BY <1>1, <1>2, <1>3, <1>5 DEF lc, rc

\* One element of each is looked at.
LEMMA OnePasses ==
  ASSUME KernelsInv, pc # "done", li' \in {li, li + 1}, ri' \in {ri, ri + 1},
         li' = li + 1 \/ ri' = ri + 1, li' = li + 1 => l <= r, ri' = ri + 1 => l >= r
  PROVE  Passes(larray, li, 1, li', rarray, ri, 1, ri')
<1>1. /\ lc = Len(larray) /\ rc = Len(rarray) /\ lc \in Nat /\ rc \in Nat
      /\ li \in Nat /\ ri \in Nat /\ li < lc /\ ri < rc
  BY RoundFacts
<1>2. li + 1 - 1 = li /\ ri + 1 - 1 = ri
  BY <1>1
<1>3. li + 1 <= lc /\ ri + 1 <= rc
  BY <1>1
<1> QED
  BY <1>1, <1>2, <1>3 DEF Passes, l, r

LEMMA MergeKeeps ==
  ASSUME KernelsInv, Merge
  PROVE  KernelsInv'
<1>1. pc # "done" /\ UNCHANGED lists
  BY DEF Merge
<1>2. /\ Typed /\ cn \in Seq(Int) /\ li \in Nat /\ ri \in Nat /\ l \in Int /\ r \in Int
  BY <1>1, RoundFacts
<1>3. Part(larray, li, 1) = {l} /\ Part(rarray, ri, 1) = {r}
  BY <1>2, One DEF l, r
<1>4. Ready' /\ pc' \in Kernels
  <2>1. li' \in Nat /\ ri' \in Nat
    BY <1>2 DEF Merge, Match
  <2>2. Proceed("merge") /\ "merge" \in Kernels
    BY DEF Merge, Kernels
  <2> QED
    BY <1>1, <1>2, <2>1, <2>2, ProceedIs
<1>5. Passes(larray, li, 1, li', rarray, ri, 1, ri')
  <2>1. /\ li' \in {li, li + 1} /\ ri' \in {ri, ri + 1} /\ (li' = li + 1 \/ ri' = ri + 1)
        /\ li' = li + 1 => l <= r
        /\ ri' = ri + 1 => l >= r
    BY <1>2 DEF Merge, Match
  <2> QED
    BY <1>1, <2>1, OnePasses
<1>6. CASE l = r
  <2>0. cn' = Append(cn, l)
    BY <1>2, <1>6 DEF Merge, Match
  <2>1. cn' = cn \o <<l>>
    BY <2>0, <1>2, Single
  <2>2. PICK h : h = <<l>>
    OBVIOUS
  <2>3. /\ h \in Seq(Int) /\ Ordered(NoRepeats, h) /\ cn' = cn \o h
        /\ ToSet(h) = Part(larray, li, 1) \cap Part(rarray, ri, 1)
    BY <1>2, <1>3, <1>6, <2>1, <2>2, Single
  <2> QED
    BY <1>1, <1>4, <1>5, <2>3, Round
<1>7. CASE l # r
  <2>1. cn' = cn
    BY <1>7 DEF Merge
  <2>2. PICK h : h = <<>>
    OBVIOUS
  <2>3. /\ h \in Seq(Int) /\ Ordered(NoRepeats, h) /\ cn' = cn \o h
        /\ ToSet(h) = Part(larray, li, 1) \cap Part(rarray, ri, 1)
    BY <1>2, <1>3, <1>7, <2>1, <2>2, NoElement
  <2> QED
    BY <1>1, <1>4, <1>5, <2>3, Round
<1> QED
  BY <1>6, <1>7

LEMMA GallopLeftKeeps ==
  ASSUME KernelsInv, GallopLeft
  PROVE  KernelsInv'
<1>1. pc # "done" /\ UNCHANGED lists /\ l < r /\ li' = li + 1 /\ ri' = ri /\ cn' = cn
  BY DEF GallopLeft
<1>2. /\ Typed /\ cn \in Seq(Int) /\ li \in Nat /\ ri \in Nat /\ l \in Int /\ r \in Int
  BY <1>1, RoundFacts
<1>3. Part(larray, li, 1) = {l} /\ Part(rarray, ri, 1) = {r}
  BY <1>2, One DEF l, r
<1>4. Ready' /\ pc' \in Kernels
  <2>1. li' \in Nat /\ ri' \in Nat
    BY <1>1, <1>2
  <2>2. Proceed("gallop") /\ "gallop" \in Kernels
    BY DEF GallopLeft, Kernels
  <2> QED
    BY <1>1, <1>2, <2>1, <2>2, ProceedIs
<1>5. Passes(larray, li, 1, li', rarray, ri, 1, ri')
  <2>1. ri # ri + 1 /\ l <= r
    BY <1>1, <1>2
  <2>2. /\ li' \in {li, li + 1} /\ ri' \in {ri, ri + 1} /\ (li' = li + 1 \/ ri' = ri + 1)
        /\ li' = li + 1 => l <= r
        /\ ri' = ri + 1 => l >= r
    BY <1>1, <2>1
  <2> QED
    BY <1>1, <2>2, OnePasses
<1>6. PICK h : h = <<>>
  OBVIOUS
<1>7. /\ h \in Seq(Int) /\ Ordered(NoRepeats, h) /\ cn' = cn \o h
      /\ ToSet(h) = Part(larray, li, 1) \cap Part(rarray, ri, 1)
  BY <1>1, <1>2, <1>3, <1>6, NoElement
<1> QED
  BY <1>1, <1>4, <1>5, <1>7, Round

\* The search's place is passed, with what was found there; what it steps over is
\* below l.
LEMMA GallopRightKeeps ==
  ASSUME KernelsInv, GallopRight
  PROVE  KernelsInv'
<1> DEFINE i == GallopingSearch(rarray, ri, rc, l)
<1>1. /\ pc # "done" /\ UNCHANGED lists /\ l >= r /\ Proceed("gallop")
      /\ IF i < rc /\ At(rarray, i) = l
         THEN li' = li + 1 /\ ri' = i + 1 /\ cn' = Append(cn, l)
         ELSE ri' = i /\ li' = li /\ cn' = cn
  BY DEF GallopRight
<1>2. /\ Typed /\ cn \in Seq(Int) /\ li \in Nat /\ ri \in Nat /\ l \in Int /\ r \in Int
      /\ rarray \in Seq(Int) /\ NonDecreasing(rarray) /\ rc = Len(rarray) /\ rc \in Nat /\ ri < rc
      /\ lc = Len(larray) /\ lc \in Nat /\ li < lc
  BY <1>1, RoundFacts
<1>3. IsFound(rarray, ri, rc, l, i)
  <2>1. PICK a, b, e, v : a = rarray /\ b = ri /\ e = rc /\ v = l
    OBVIOUS
  <2>2. a \in Seq(Int) /\ NonDecreasing(a) /\ e \in 0 .. Len(a) /\ v \in Int /\ b \in 0 .. e - 1
    BY <1>2, <2>1
  <2>3. IsFound(a, b, e, v, GallopingSearch(a, b, e, v))
    BY <2>2, GallopingSearchFinds
  <2> QED
    BY <2>1, <2>3
<1> HIDE DEF i
<1>4. PICK p : p = i
  OBVIOUS
<1>5. /\ p \in ri .. rc /\ p \in Nat
      /\ p < rc => At(rarray, p) >= l
      /\ ~ (p < rc /\ At(rarray, p) = l) => \A k \in ri .. p - 1 : At(rarray, k) < l
  <2>1. /\ p \in ri .. rc
        /\ p < rc => At(rarray, p) >= l
        /\ ~ (p < rc /\ At(rarray, p) = l) => \A k \in ri .. p - 1 : At(rarray, k) < l
    BY <1>3, <1>4 DEF IsFound
  <2> QED
    BY <2>1, <1>2
<1>6. Part(larray, li, 1) = {l} /\ li + 1 - 1 = li /\ At(larray, li) = l
  BY <1>2, One DEF l
<1>7. Ready' /\ pc' \in Kernels
  <2>1. li' \in Nat /\ ri' \in Nat
    <3>1. p + 1 \in Nat /\ li + 1 \in Nat
      BY <1>2, <1>5
    <3>2. li' \in {li, li + 1} /\ ri' \in {p, p + 1}
      BY <1>1, <1>4
    <3> QED
      BY <3>1, <3>2, <1>2, <1>5
  <2>2. "gallop" \in Kernels
    BY DEF Kernels
  <2> QED
    BY <1>1, <1>2, <2>1, <2>2, ProceedIs
<1>8. CASE p < rc /\ At(rarray, p) = l
  <2>1. li' = li + 1 /\ ri' = p + 1 /\ cn' = Append(cn, l)
    BY <1>1, <1>4, <1>8
  <2>2. PICK m \in Nat \ {0} : m = p + 1 - ri
    BY <1>2, <1>5
  <2>3. /\ ri + m = p + 1 /\ ri + m - 1 = p /\ ri + m <= rc /\ li + 1 <= lc
        /\ ri .. ri + m - 1 = (ri .. p - 1) \cup {p}
    BY <2>2, <1>2, <1>5, <1>8
  <2>4. Passes(larray, li, 1, li', rarray, ri, m, ri')
    BY <1>2, <1>6, <1>8, <2>1, <2>3 DEF Passes
  <2>5. {l} = Part(larray, li, 1) \cap Part(rarray, ri, m)
    <3>1. l \in Part(rarray, ri, m)
      BY <1>8, <2>3 DEF Part
    <3> QED
      BY <3>1, <1>6
  <2>6. PICK h : h = <<l>>
    OBVIOUS
  <2>7. /\ h \in Seq(Int) /\ Ordered(NoRepeats, h) /\ cn' = cn \o h
        /\ ToSet(h) = Part(larray, li, 1) \cap Part(rarray, ri, m)
    BY <1>2, <2>1, <2>5, <2>6, Single
  <2> QED
    BY <1>1, <1>7, <2>4, <2>7, Round
<1>9. CASE ~ (p < rc /\ At(rarray, p) = l)
  <2>1. ri' = p /\ li' = li /\ cn' = cn
    BY <1>1, <1>4, <1>9
  <2>2. p # ri
    <3> SUFFICES ASSUME p = ri PROVE FALSE
      OBVIOUS
    <3>1. p < rc /\ At(rarray, p) = r
      BY <1>2 DEF r
    <3>2. r >= l /\ p < rc
      BY <3>1, <1>5
    <3> QED
      BY <3>1, <3>2, <1>1, <1>2, <1>9
  <2>3. PICK m \in Nat \ {0} : m = p - ri
    BY <1>2, <1>5, <2>2
  <2>4. /\ ri + m = p /\ ri + m - 1 = p - 1 /\ ri + m <= rc /\ li + 1 <= lc /\ li # li + 1
        /\ p - 1 \in ri .. p - 1
    BY <2>3, <1>2, <1>5
  <2>5. At(rarray, p - 1) < l /\ At(rarray, p - 1) \in Int
    <3>1. p - 1 \in 0 .. Len(rarray) - 1
      BY <1>2, <1>5, <2>4
    <3> QED
      BY <3>1, <2>4, <1>5, <1>9, <1>2, InList
  <2>6. Passes(larray, li, 1, li', rarray, ri, m, ri')
    <3>1. l >= At(rarray, p - 1)
      BY <2>5, <1>2
    <3> QED
      BY <3>1, <1>2, <1>6, <2>1, <2>4 DEF Passes
  <2>7. {} = Part(larray, li, 1) \cap Part(rarray, ri, m)
    <3>1. ASSUME NEW k \in ri .. ri + m - 1 PROVE At(rarray, k) # l
      <4>1. k \in ri .. p - 1
        BY <2>4
      <4>2. At(rarray, k) < l
        BY <4>1, <1>5, <1>9
      <4>3. k \in 0 .. Len(rarray) - 1
        BY <4>1, <1>2, <1>5
      <4>4. At(rarray, k) \in Int
        BY <4>3, <1>2, InList
      <4> QED
        BY <4>2, <4>4, <1>2
    <3> QED
      BY <3>1, <1>6 DEF Part
  <2>8. PICK h : h = <<>>
    OBVIOUS
  <2>9. /\ h \in Seq(Int) /\ Ordered(NoRepeats, h) /\ cn' = cn \o h
        /\ ToSet(h) = Part(larray, li, 1) \cap Part(rarray, ri, m)
    BY <1>2, <2>1, <2>7, <2>8, NoElement
  <2> QED
    BY <1>1, <1>7, <2>6, <2>9, Round
<1> QED
  BY <1>8, <1>9

LEMMA OneToManyKeeps ==
  ASSUME KernelsInv, OneToMany
  PROVE  KernelsInv'
<1> DEFINE v == At(rarray, ri + LANES - 1)
<1>1. /\ pc # "done" /\ pc = "one to many" /\ UNCHANGED lists /\ cn' = cn \o Hits(1, LANES)
      /\ IF l > v THEN ri' = ri + LANES /\ li' = li ELSE li' = li + 1 /\ ri' = ri
      /\ Proceed(IF ri' + LANES <= rc THEN "one to many" ELSE "merge")
  BY DEF OneToMany
<1>2. /\ Typed /\ cn \in Seq(Int) /\ li \in Nat /\ ri \in Nat /\ l \in Int
      /\ larray \in Seq(Int) /\ Ordered(NoRepeats, larray) /\ NonDecreasing(larray)
      /\ rarray \in Seq(Int) /\ NonDecreasing(rarray) /\ rc = Len(rarray) /\ rc \in Nat /\ ri < rc
      /\ lc = Len(larray) /\ lc \in Nat /\ li < lc
  BY <1>1, RoundFacts
<1>3. LANES \in Nat \ {0} /\ ri + LANES <= rc /\ li + 1 <= lc /\ li + 1 - 1 = li
      /\ li # li + 1 /\ ri # ri + LANES
  <2>1. LANES \in Nat \ {0} /\ ri + LANES <= rc
    BY <1>1, Widths DEF KernelsInv, Ready
  <2> QED
    BY <2>1, <1>2
<1>4. v \in Int
  <2>1. ri + LANES - 1 \in 0 .. Len(rarray) - 1
    BY <1>2, <1>3
  <2> QED
    BY <2>1, <1>2, InList
<1> HIDE DEF v
<1>5. Ready' /\ pc' \in Kernels
  <2>1. li' \in Nat /\ ri' \in Nat
    <3>1. li + 1 \in Nat /\ ri + LANES \in Nat
      BY <1>2, <1>3
    <3>2. (li' = li \/ li' = li + 1) /\ (ri' = ri \/ ri' = ri + LANES)
      BY <1>1
    <3> QED
      BY <3>1, <3>2, <1>2
  <2>2. PICK round : round = IF ri' + LANES <= rc THEN "one to many" ELSE "merge"
    OBVIOUS
  <2>3. /\ Proceed(round) /\ round \in Kernels
        /\ round = "one to many" => ri' + LANES <= rc
        /\ round # "blocks"
    BY <1>1, <2>2 DEF Kernels
  <2> QED
    BY <1>1, <1>2, <2>1, <2>3, ProceedIs
<1>6. Passes(larray, li, 1, li', rarray, ri, LANES, ri')
  <2>1. /\ li' \in {li, li + 1} /\ ri' \in {ri, ri + LANES}
        /\ li' = li + 1 \/ ri' = ri + LANES
    BY <1>1
  <2>4. (~ (l > v) => l <= v) /\ (l > v => l >= v)
    BY <1>2, <1>4
  <2>2. li' = li + 1 => l <= v
    BY <2>4, <1>1, <1>3
  <2>3. ri' = ri + LANES => l >= v
    BY <2>4, <1>1, <1>3
  <2> QED
    BY <2>1, <2>2, <2>3, <1>2, <1>3 DEF Passes, l, v
<1>7. PICK h : h = Hits(1, LANES)
  OBVIOUS
<1>8. /\ h \in Seq(Int) /\ Ordered(NoRepeats, h) /\ cn' = cn \o h
      /\ ToSet(h) = Part(larray, li, 1) \cap Part(rarray, ri, LANES)
  BY <1>1, <1>2, <1>3, <1>7, HitsAre
<1>9. PICK n, m : n = 1 /\ m = LANES
  OBVIOUS
<1>10. /\ n \in Nat \ {0} /\ m \in Nat \ {0} /\ Passes(larray, li, n, li', rarray, ri, m, ri')
       /\ ToSet(h) = Part(larray, li, n) \cap Part(rarray, ri, m)
  BY <1>3, <1>6, <1>8, <1>9
<1> QED
  BY <1>1, <1>5, <1>8, <1>10, Round

LEMMA BlocksKeeps ==
  ASSUME KernelsInv, Blocks
  PROVE  KernelsInv'
<1> DEFINE u == At(larray, li + ROWS - 1)
           v == At(rarray, ri + COLS - 1)
<1>1. /\ pc # "done" /\ pc = "blocks" /\ UNCHANGED lists /\ cn' = cn \o Hits(ROWS, COLS)
      /\ li' = IF u <= v THEN li + ROWS ELSE li
      /\ ri' = IF u >= v THEN ri + COLS ELSE ri
      /\ Proceed(IF li' + ROWS <= lc /\ ri' + COLS <= rc THEN "blocks" ELSE "merge")
  BY DEF Blocks
<1>2. /\ Typed /\ cn \in Seq(Int) /\ li \in Nat /\ ri \in Nat
      /\ larray \in Seq(Int) /\ Ordered(NoRepeats, larray) /\ NonDecreasing(larray)
      /\ rarray \in Seq(Int) /\ NonDecreasing(rarray) /\ rc = Len(rarray) /\ rc \in Nat /\ ri < rc
      /\ lc = Len(larray) /\ lc \in Nat /\ li < lc
  BY <1>1, RoundFacts
<1>3. /\ ROWS \in Nat \ {0} /\ COLS \in Nat \ {0} /\ li + ROWS <= lc /\ ri + COLS <= rc
      /\ li # li + ROWS /\ ri # ri + COLS
  <2>1. ROWS \in Nat \ {0} /\ COLS \in Nat \ {0} /\ li + ROWS <= lc /\ ri + COLS <= rc
    BY <1>1, Widths DEF KernelsInv, Ready
  <2> QED
    BY <2>1, <1>2
<1>4. u \in Int /\ v \in Int
  <2>1. li + ROWS - 1 \in 0 .. Len(larray) - 1 /\ ri + COLS - 1 \in 0 .. Len(rarray) - 1
    BY <1>2, <1>3
  <2> QED
    BY <2>1, <1>2, InList
<1> HIDE DEF u, v
<1>5. Ready' /\ pc' \in Kernels
  <2>1. li' \in Nat /\ ri' \in Nat
    BY <1>1, <1>2, <1>3
  <2>2. PICK round : round = IF li' + ROWS <= lc /\ ri' + COLS <= rc THEN "blocks" ELSE "merge"
    OBVIOUS
  <2>3. /\ Proceed(round) /\ round \in Kernels
        /\ round = "blocks" => li' + ROWS <= lc /\ ri' + COLS <= rc
        /\ round # "one to many"
    BY <1>1, <2>2 DEF Kernels
  <2> QED
    BY <1>1, <1>2, <2>1, <2>3, ProceedIs
<1>6. Passes(larray, li, ROWS, li', rarray, ri, COLS, ri')
  <2>1. /\ li' \in {li, li + ROWS} /\ ri' \in {ri, ri + COLS}
        /\ li' = li + ROWS => u <= v
        /\ ri' = ri + COLS => u >= v
    BY <1>1, <1>3
  <2>2. li' = li + ROWS \/ ri' = ri + COLS
    BY <1>1, <1>4
  <2> QED
    BY <2>1, <2>2, <1>2, <1>3 DEF Passes, u, v
<1>7. PICK h : h = Hits(ROWS, COLS)
  OBVIOUS
<1>8. /\ h \in Seq(Int) /\ Ordered(NoRepeats, h) /\ cn' = cn \o h
      /\ ToSet(h) = Part(larray, li, ROWS) \cap Part(rarray, ri, COLS)
  BY <1>1, <1>2, <1>3, <1>7, HitsAre
<1> QED
  BY <1>1, <1>3, <1>5, <1>6, <1>8, Round

LEMMA KernelsSteps ==
  ASSUME KernelsInv, [Next]_vars
  PROVE  KernelsInv'
<1>1. CASE UNCHANGED vars
  <2>1. /\ larray' = larray /\ rarray' = rarray /\ behind' = behind
        /\ li' = li /\ ri' = ri /\ cn' = cn /\ pc' = pc
    BY <1>1 DEF vars, lists, cursors
  <2>2. Typed' /\ Ready'
    BY <2>1 DEF KernelsInv, Typed, Ready, lc, rc
  <2>3. NothingLost'
    BY <2>1 DEF KernelsInv, NothingLost, Common, Ahead, Before, NoRepeats
  <2> QED
    BY <2>2, <2>3 DEF KernelsInv
<1> QED
  BY <1>1, MergeKeeps, GallopLeftKeeps, GallopRightKeeps, OneToManyKeeps, BlocksKeeps DEF Next

\* The state is what the code takes it for, whatever the lists, the width of a
\* vector and the thresholds between the kernels.
THEOREM KernelsTyped == Spec => []TypeOK
<1>1. KernelsInv => TypeOK
  BY TypedFacts DEF KernelsInv, Typed, TypeOK
<1> QED
  BY <1>1, KernelsInit, KernelsSteps, PTL DEF Spec

\* Whatever the lists, the width of a vector and the thresholds between the
\* kernels: ComputeCandidates neither loses a common element nor adds another, and
\* its result is in order, without a repeated element if the lists have none.
THEOREM IntersectionComplete == Spec => []NothingLost
<1>1. KernelsInv => NothingLost
  BY DEF KernelsInv
<1> QED
  BY <1>1, KernelsInit, KernelsSteps, PTL DEF Spec
-----------------------------------------------------------------------------
(* The file streams: what is written is read back.  Their bytes are places *)
(* in the stream, so a piece of it is known by where it begins.            *)

\* A piece of the stream: the bytes behind f, in order and without a gap.
Run(s, f) == s \in Seq(Nat) /\ \A i \in 1 .. Len(s) : s[i] = f + i
LEMMA RunBytes ==
  ASSUME NEW f \in Nat, NEW n \in Nat
  PROVE  Run(Stream!Bytes(f, n), f) /\ Len(Stream!Bytes(f, n)) = n
BY DEF Run, Stream!Bytes

LEMMA RunUpto ==
  ASSUME NEW s, Run(s, 0)
  PROVE  s = Stream!Upto(Len(s))
BY DEF Run, Stream!Upto

LEMMA RunConcat ==
  ASSUME NEW f \in Nat, NEW s, NEW t, NEW e, e = f + Len(s), Run(s, f), Run(t, e)
  PROVE  Run(s \o t, f) /\ Len(s \o t) = Len(s) + Len(t)
<1>1. /\ s \in Seq(Nat) /\ t \in Seq(Nat) /\ Len(s) \in Nat /\ Len(t) \in Nat
      /\ \A i \in 1 .. Len(s) : s[i] = f + i
      /\ \A i \in 1 .. Len(t) : t[i] = e + i
  BY DEF Run
<1>2. /\ s \o t \in Seq(Nat) /\ Len(s \o t) = Len(s) + Len(t)
      /\ \A i \in 1 .. Len(s) + Len(t) :
           (s \o t)[i] = IF i <= Len(s) THEN s[i] ELSE t[i - Len(s)]
  BY <1>1, ConcatProperties
<1>3. ASSUME NEW i \in 1 .. Len(s) + Len(t) PROVE (s \o t)[i] = f + i
  <2>1. CASE i <= Len(s)
    <3>1. i \in 1 .. Len(s)
      BY <2>1, <1>1
    <3> QED
      BY <3>1, <2>1, <1>1, <1>2
  <2>2. CASE ~ (i <= Len(s))
    <3>1. i - Len(s) \in 1 .. Len(t) /\ e + (i - Len(s)) = f + i
      BY <2>2, <1>1
    <3> QED
      BY <3>1, <2>2, <1>1, <1>2
  <2> QED
    BY <2>1, <2>2
<1> QED
  BY <1>2, <1>3 DEF Run

LEMMA RunCut ==
  ASSUME NEW f \in Nat, NEW s, Run(s, f), NEW p \in Nat, NEW q \in p .. Len(s)
  PROVE  /\ Run(SubSeq(s, p + 1, q), f + p) /\ Len(SubSeq(s, p + 1, q)) = q - p
         /\ \A g : g = f + p => Run(SubSeq(s, p + 1, q), g)
<1>1. s \in Seq(Nat) /\ Len(s) \in Nat /\ q \in Nat /\ p <= q /\ q <= Len(s)
  BY DEF Run
<1>2. \A i \in p + 1 .. q : s[i] \in Nat
  BY <1>1
<1>3. PICK c : c = SubSeq(s, p + 1, q)
  OBVIOUS
<1>4. PICK m \in Int : m = p + 1
  OBVIOUS
<1>5. /\ c \in Seq(Nat) /\ Len(c) = IF m <= q THEN q - m + 1 ELSE 0
      /\ \A i \in 1 .. q - m + 1 : c[i] = s[m + i - 1]
  <2>1. \A i \in m .. q : s[i] \in Nat
    BY <1>2, <1>4
  <2>2. c = SubSeq(s, m, q) /\ q \in Int
    BY <1>1, <1>3, <1>4
  <2>3. /\ SubSeq(s, m, q) \in Seq(Nat) /\ Len(SubSeq(s, m, q)) = IF m <= q THEN q - m + 1 ELSE 0
        /\ \A i \in 1 .. q - m + 1 : SubSeq(s, m, q)[i] = s[m + i - 1]
    BY <2>1, <2>2, SubSeqProperties
  <2> QED
    BY <2>2, <2>3
<1>6. Len(c) = q - p
  BY <1>1, <1>4, <1>5
<1>7. ASSUME NEW i \in 1 .. q - p PROVE c[i] = (f + p) + i
  <2>1. i \in 1 .. q - m + 1 /\ m + i - 1 = p + i /\ p + i \in 1 .. Len(s)
    BY <1>1, <1>4
  <2>2. s[p + i] = f + (p + i)
    BY <2>1 DEF Run
  <2>3. c[i] = s[m + i - 1]
    BY <2>1, <1>5
  <2>4. c[i] = f + (p + i)
    BY <2>1, <2>2, <2>3
  <2>5. f + (p + i) = (f + p) + i
    BY <1>1
  <2> QED
    BY <2>4, <2>5
<1> QED
  BY <1>3, <1>5, <1>6, <1>7 DEF Run

\* Whole buffers leave, as many as it takes for the rest to fit.
LEMMA FlushedIs ==
  ASSUME BUF \in Nat \ {0}, NEW bytes \in Seq(Nat)
  PROVE  /\ Stream!Flushed(bytes) \in 0 .. Len(bytes)
         /\ Len(bytes) - Stream!Flushed(bytes) <= BUF
<1> DEFINE L == Len(bytes)
           F == [n \in Nat |-> IF L - n > BUF THEN n + BUF * ((L - n - 1) \div BUF) ELSE n]
           R(f) == [n \in Nat |-> IF L - n > BUF THEN f[n + BUF] ELSE n]
<1>1. L \in Nat
  OBVIOUS
<1> HIDE DEF L
<1>2. F = R(F)
  <2>1. ASSUME NEW n \in Nat PROVE F[n] = R(F)[n]
    <3>1. n + BUF \in Nat
      OBVIOUS
    <3>2. CASE L - n > BUF
      <4>1. PICK x \in Nat : x = L - (n + BUF) - 1
        BY <1>1, <3>2
      <4>2. L - n - 1 = x + BUF
        BY <4>1, <1>1
      <4>3. (L - n - 1) \div BUF = (x \div BUF) + 1
        BY <4>2
      <4>8. x \div BUF \in Nat
        BY ONLY x \in Nat, BUF \in Nat \ {0}
      <4>4. PICK d \in Nat : d = x \div BUF
        BY <4>8
      <4>5. F[n] = n + BUF * (d + 1)
        BY <3>2, <4>3, <4>4
      <4>6. CASE L - (n + BUF) > BUF
        <5>1. F[n + BUF] = (n + BUF) + BUF * d
          BY <4>6, <4>1, <4>4, <3>1
        <5> QED
          BY <5>1, <4>5, <3>2
      <4>7. CASE ~ (L - (n + BUF) > BUF)
        <5>1. x < BUF
          BY <4>1, <4>7, <1>1
        <5>2. d = 0
          BY <5>1, <4>4
        <5>3. F[n + BUF] = n + BUF
          BY <4>7, <3>1
        <5> QED
          BY <5>2, <5>3, <4>5, <3>2
      <4> QED
        BY <4>6, <4>7
    <3>3. CASE ~ (L - n > BUF)
      BY <3>3
    <3> QED
      BY <3>2, <3>3
  <2> QED
    BY <2>1
<1>3. ASSUME NEW f, f = R(f)
      PROVE  f[0] \in 0 .. L /\ L - f[0] <= BUF
  <2> DEFINE Good(n) == f[n] \in n .. L /\ L - f[n] <= BUF
             T == {m \in Nat : \E n \in Nat : n <= L /\ m = L - n /\ ~ Good(n)}
  <2>0. \A n \in Nat : f[n] = IF L - n > BUF THEN f[n + BUF] ELSE n
    <3> SUFFICES ASSUME NEW n \in Nat PROVE f[n] = IF L - n > BUF THEN f[n + BUF] ELSE n
      OBVIOUS
    <3> QED
      BY <1>3
  <2> HIDE DEF R, F
  <2>1. T = {}
    <3> SUFFICES ASSUME T # {} PROVE FALSE
      OBVIOUS
    <3>1. PICK m \in T : \A y \in T : m <= y
      BY LeastNatural
    <3>2. PICK n \in Nat : n <= L /\ m = L - n /\ ~ Good(n)
      OBVIOUS
    <3>3. CASE L - n > BUF
      <4>1. f[n] = f[n + BUF]
        BY <3>3, <2>0
      <4>2. PICK k \in Nat : k = n + BUF
        OBVIOUS
      <4>3. k <= L /\ L - k \in Nat /\ L - k < m
        BY <3>2, <3>3, <4>2, <1>1
      <4>4. ~ Good(k)
        <5> SUFFICES ASSUME Good(k) PROVE FALSE
          OBVIOUS
        <5>1. f[n] \in n .. L /\ L - f[n] <= BUF
          BY <4>1, <4>2
        <5> QED
          BY <5>1, <3>2
      <4>5. L - k \in T
        BY <4>3, <4>4
      <4> HIDE DEF T, Good
      <4>6. m <= L - k
        BY <4>5, <3>1
      <4> QED
        BY <4>3, <4>6, <3>2, <1>1
    <3>4. CASE ~ (L - n > BUF)
      <4>1. f[n] = n
        BY <3>4, <2>0
      <4> QED
        BY <4>1, <3>2, <3>4, <1>1
    <3> QED
      BY <3>3, <3>4
  <2>2. Good(0)
    <3> SUFFICES ASSUME ~ Good(0) PROVE FALSE
      OBVIOUS
    <3>1. L - 0 \in Nat /\ 0 <= L
      BY <1>1
    <3> HIDE DEF Good
    <3>2. L - 0 \in T
      BY <3>1
    <3> HIDE DEF T
    <3> QED
      BY <3>2, <2>1
  <2> QED
    BY <2>2
<1>4. Stream!Flushed(bytes) = (CHOOSE f : f = R(f))[0]
  BY DEF Stream!Flushed, L
<1>5. Stream!Flushed(bytes) \in 0 .. L /\ L - Stream!Flushed(bytes) <= BUF
  <2> HIDE DEF R, F
  <2> QED
    BY <1>2, <1>3, <1>4
<1> QED
  BY <1>5 DEF L

Size(item) == IF item[1] = "scalar" THEN item[2] ELSE WORD + item[2]
Items == ({"scalar"} \X Scalars) \cup ({"long"} \X Lengths)

\* The end of every item in the stream.
EndsOf(its, ends) ==
  /\ ends \in [0 .. Len(its) -> Nat] /\ ends[0] = 0
  /\ \A k \in 1 .. Len(its) : ends[k] = ends[k - 1] + Size(its[k])
  /\ \A j, k \in 0 .. Len(its) : j < k => ends[j] < ends[k]

\* The items are total bytes, the first k of them pos.
Placed(its, total, k, pos) ==
  \E ends : /\ EndsOf(its, ends) /\ ends[Len(its)] = total
            /\ k \in 0 .. Len(its) /\ ends[k] = pos

Writing(bytes, buf, pos) ==
  Run(buf, Len(bytes)) /\ Len(buf) <= BUF /\ pos = Len(bytes) + Len(buf)

Reading(bytes, buf, bp, off, pos, g) ==
  /\ off \in Nat /\ bp \in 0 .. Len(buf) /\ Len(buf) <= BUF
  /\ Len(buf) <= off /\ off <= Len(bytes) /\ (Len(buf) = BUF \/ off = Len(bytes))
  /\ Run(buf, off - Len(buf)) /\ pos = (off - Len(buf)) + bp
  /\ g \in Seq(Nat) /\ Len(g) <= pos /\ Run(g, pos - Len(g))

\* What is in the file, in membuf and in got, and where: the buffer is a window on
\* the file that is full or reaches its end, and the positions are ends of items.
StreamInv ==
  /\ items \in Seq(Items) /\ Run(file, 0)
  /\ mode \in {"writing", "closed", "reading", "aborted"}
  /\ mode \in {"writing", "closed"} =>
       got = <<>> /\ took = 0 /\ left = 0 /\ Placed(items, totpos, 0, 0)
  /\ mode = "writing" => Writing(file, membuf, totpos)
  /\ mode = "closed" => totpos = Len(file)
  /\ mode = "reading" => /\ Reading(file, membuf, bufpos, offset, totpos, got)
                         /\ left \in Nat /\ Placed(items, Len(file), took, totpos + left)

LEMMA SizesOf ==
  ASSUME Stream!Sizes
  PROVE  /\ BUF \in Nat \ {0} /\ Stream!HALF \in Nat /\ 2 * Stream!HALF <= BUF
         /\ WORD \in 1 .. Stream!HALF /\ Scalars \subseteq 1 .. Stream!HALF
         /\ Lengths \subseteq Nat
<1>1. /\ BUF \in Nat \ {0} /\ Lengths \subseteq Nat
      /\ WORD \in 1 .. Stream!HALF /\ Scalars \subseteq 1 .. Stream!HALF
  BY DEF Stream!Sizes
<1>2. Stream!HALF \in Nat /\ 2 * Stream!HALF <= BUF
  BY <1>1 DEF Stream!HALF
<1> QED
  BY <1>1, <1>2

LEMMA ItemSize ==
  ASSUME Stream!Sizes, NEW item \in Items
  PROVE  Size(item) \in Nat \ {0}
<1>1. CASE item \in {"scalar"} \X Scalars
  BY <1>1, SizesOf DEF Size
<1>2. CASE item \in {"long"} \X Lengths
  <2>1. item[1] = "long" /\ item[2] \in Nat
    BY <1>2, SizesOf
  <2>2. WORD \in Nat \ {0}
    BY SizesOf
  <2> QED
    BY <2>1, <2>2 DEF Size
<1> QED
  BY <1>1, <1>2 DEF Items

LEMMA PlacedMore ==
  ASSUME Stream!Sizes, NEW its \in Seq(Items), NEW total \in Nat, Placed(its, total, 0, 0),
         NEW item \in Items
  PROVE  Placed(Append(its, item), total + Size(item), 0, 0)
<1>1. PICK ends : EndsOf(its, ends) /\ ends[Len(its)] = total
  BY DEF Placed
<1>2. PICK len \in Nat : len = Len(its)
  OBVIOUS
<1>3. PICK new : new = Append(its, item)
  OBVIOUS
<1>4. /\ Len(new) = len + 1 /\ new[len + 1] = item
      /\ \A k \in 1 .. len : new[k] = its[k]
  BY <1>2, <1>3
<1>5. PICK size \in Nat \ {0} : size = Size(item)
  BY ItemSize
<1> DEFINE more == [k \in 0 .. len + 1 |-> IF k = len + 1 THEN total + size ELSE ends[k]]
<1>6. /\ ends \in [0 .. len -> Nat] /\ ends[0] = 0 /\ ends[len] = total
      /\ \A k \in 1 .. len : ends[k] = ends[k - 1] + Size(its[k])
      /\ \A j, k \in 0 .. len : j < k => ends[j] < ends[k]
  BY <1>1, <1>2 DEF EndsOf
<1>7. /\ \A k \in 0 .. len : more[k] = ends[k] /\ more[k] \in Nat
      /\ more[len + 1] = total + size
  <2>1. \A k \in 0 .. len : k \in 0 .. len + 1 /\ k # len + 1
    OBVIOUS
  <2> QED
    BY <2>1, <1>6
<1>8. more \in [0 .. len + 1 -> Nat] /\ more[0] = 0
  <2>1. \A k \in 0 .. len + 1 : k # len + 1 => k \in 0 .. len
    OBVIOUS
  <2>2. 0 \in 0 .. len
    OBVIOUS
  <2> QED
    BY <2>1, <2>2, <1>6, <1>7
<1> HIDE DEF more
<1>9. ASSUME NEW k \in 1 .. len + 1 PROVE more[k] = more[k - 1] + Size(new[k])
  <2>1. CASE k = len + 1
    <3>1. k - 1 = len /\ len \in 0 .. len
      BY <2>1
    <3> QED
      BY <3>1, <2>1, <1>4, <1>5, <1>6, <1>7
  <2>2. CASE k # len + 1
    <3>1. k \in 1 .. len /\ k \in 0 .. len /\ k - 1 \in 0 .. len
      BY <2>2
    <3> QED
      BY <3>1, <1>4, <1>6, <1>7
  <2> QED
    BY <2>1, <2>2
<1>10. ASSUME NEW j \in 0 .. len + 1, NEW k \in 0 .. len + 1, j < k
       PROVE  more[j] < more[k]
  <2>1. j \in 0 .. len
    BY <1>10
  <2>2. CASE k = len + 1
    <3>1. ends[j] \in Nat /\ (j = len \/ (j < len /\ len \in 0 .. len))
      BY <2>1, <1>6
    <3>2. ends[j] <= total
      BY <3>1, <2>1, <1>6
    <3> QED
      BY <3>1, <3>2, <2>1, <2>2, <1>7
  <2>3. CASE k # len + 1
    <3>1. k \in 0 .. len
      BY <2>3
    <3> QED
      BY <3>1, <2>1, <1>6, <1>7, <1>10
  <2> QED
    BY <2>2, <2>3
<1>11. EndsOf(new, more) /\ more[Len(new)] = total + size /\ 0 \in 0 .. Len(new)
  BY <1>4, <1>7, <1>8, <1>9, <1>10 DEF EndsOf
<1>12. Placed(new, total + size, 0, 0)
  BY <1>8, <1>11 DEF Placed
<1> QED
  BY <1>3, <1>5, <1>12

LEMMA WriteOut ==
  ASSUME NEW s, NEW bytes, Run(s, 0), Run(bytes, Len(s)), NEW k \in 0 .. Len(bytes)
  PROVE  Run(s \o SubSeq(bytes, 1, k), 0) /\ Len(s \o SubSeq(bytes, 1, k)) = Len(s) + k
<1>1. Len(s) \in Nat /\ Len(bytes) \in Nat
  BY DEF Run
<1>2. PICK c : c = SubSeq(bytes, 1, k)
  OBVIOUS
<1>3. Run(c, Len(s)) /\ Len(c) = k
  <2>1. PICK z \in Nat : z = 0
    OBVIOUS
  <2>2. k \in z .. Len(bytes) /\ z + 1 = 1 /\ Len(s) + z = Len(s) /\ k - z = k
    BY <2>1, <1>1
  <2>3. Run(SubSeq(bytes, z + 1, k), Len(s) + z) /\ Len(SubSeq(bytes, z + 1, k)) = k - z
    BY <2>2, <1>1, RunCut
  <2> QED
    BY <2>2, <2>3, <1>2
<1>4. PICK f \in Nat : f = 0 /\ f + Len(s) = Len(s)
  BY <1>1
<1>5. Run(s \o c, f) /\ Len(s \o c) = Len(s) + Len(c)
  BY <1>3, <1>4, RunConcat
<1> QED
  BY <1>2, <1>3, <1>4, <1>5

\* A write that was cut short leaves the beginning of what was written.
LEMMA ShortWriteKeeps ==
  ASSUME NEW bytes, Run(file, 0), Run(bytes, Len(file)), items \in Seq(Items),
         Stream!ShortWrite(bytes)
  PROVE  StreamInv'
<1>1. PICK k \in 0 .. Len(bytes) - 1 : file' = file \o SubSeq(bytes, 1, k)
  BY DEF Stream!ShortWrite
<1>2. k \in 0 .. Len(bytes)
  BY DEF Run
<1>3. Run(file', 0)
  <2>1. PICK s : s = file
    OBVIOUS
  <2>2. Run(s \o SubSeq(bytes, 1, k), 0)
    BY <1>2, <2>1, WriteOut
  <2> QED
    BY <1>1, <2>1, <2>2
<1>4. mode' = "aborted" /\ items' = items
  BY DEF Stream!ShortWrite
<1> QED
  BY <1>3, <1>4 DEF StreamInv

LEMMA PutKeeps ==
  ASSUME Stream!Sizes, StreamInv, NEW item \in Items, Stream!Put(item, Size(item))
  PROVE  StreamInv'
<1>1. mode = "writing" /\ UNCHANGED <<bufpos, offset, took, left, got>>
  BY DEF Stream!Put, Stream!reader
<1>2. /\ items \in Seq(Items) /\ Run(file, 0) /\ Writing(file, membuf, totpos)
      /\ got = <<>> /\ took = 0 /\ left = 0 /\ Placed(items, totpos, 0, 0)
  BY <1>1 DEF StreamInv
<1>3. PICK s, m, t, its : s = file /\ m = membuf /\ t = totpos /\ its = items
  OBVIOUS
<1>4. PICK n \in Nat \ {0} : n = Size(item)
  BY ItemSize
<1>5. /\ Run(s, 0) /\ Run(m, Len(s)) /\ Len(m) <= BUF /\ t = Len(s) + Len(m)
      /\ its \in Seq(Items) /\ Placed(its, t, 0, 0)
  BY <1>2, <1>3 DEF Writing
<1>6. Len(s) \in Nat /\ Len(m) \in Nat /\ t \in Nat
  BY <1>5 DEF Run
<1>7. PICK bytes : bytes = m \o Stream!Bytes(t, n)
  OBVIOUS
<1>8. Run(bytes, Len(s)) /\ Len(bytes) = Len(m) + n
  <2>1. PICK b : b = Stream!Bytes(t, n)
    OBVIOUS
  <2>2. Run(b, t) /\ Len(b) = n
    BY <2>1, <1>6, RunBytes
  <2>3. PICK f \in Nat, x \in Nat : f = Len(s) /\ x = Len(m)
    BY <1>6
  <2>4. Run(m, f) /\ t = f + Len(m)
    BY <2>3, <1>5
  <2>5. Run(m \o b, f) /\ Len(m \o b) = Len(m) + Len(b)
    BY ONLY <2>2, <2>4, f \in Nat, RunConcat
  <2> QED
    BY <2>1, <2>2, <2>3, <2>5, <1>7
<1>9. PICK out : out = Stream!Flushed(bytes)
  OBVIOUS
<1>10. out \in 0 .. Len(bytes) /\ Len(bytes) - out <= BUF
  BY <1>8, <1>9, FlushedIs, SizesOf DEF Run
<1>11. \/ /\ file' = s \o SubSeq(bytes, 1, out)
          /\ membuf' = SubSeq(bytes, out + 1, Len(bytes))
          /\ totpos' = t + n /\ items' = Append(its, item) /\ mode' = mode
       \/ Stream!ShortWrite(SubSeq(bytes, 1, out))
  <2>1. bytes = membuf \o Stream!Bytes(totpos, Size(item))
    BY <1>3, <1>4, <1>7
  <2> QED
    BY <2>1, <1>3, <1>4, <1>9 DEF Stream!Put
<1>12. CASE Stream!ShortWrite(SubSeq(bytes, 1, out))
  <2>1. PICK z \in Nat : z = 0
    OBVIOUS
  <2>2. out \in z .. Len(bytes) /\ z + 1 = 1 /\ Len(s) + z = Len(s)
    BY <2>1, <1>6, <1>10
  <2>3. Run(SubSeq(bytes, z + 1, out), Len(s) + z)
    BY <2>2, <1>6, <1>8, RunCut
  <2>4. Run(SubSeq(bytes, 1, out), Len(file))
    BY <2>2, <2>3, <1>3
  <2> QED
    BY <2>4, <1>2, <1>12, ShortWriteKeeps
<1>13. CASE /\ file' = s \o SubSeq(bytes, 1, out)
            /\ membuf' = SubSeq(bytes, out + 1, Len(bytes))
            /\ totpos' = t + n /\ items' = Append(its, item) /\ mode' = mode
  <2>1. PICK f : f = s \o SubSeq(bytes, 1, out)
    OBVIOUS
  <2>2. Run(f, 0) /\ Len(f) = Len(s) + out
    BY <2>1, <1>5, <1>8, <1>10, WriteOut
  <2>3. PICK b : b = SubSeq(bytes, out + 1, Len(bytes))
    OBVIOUS
  <2>4. Len(bytes) \in Nat /\ out \in Nat /\ Len(bytes) \in out .. Len(bytes)
    BY <1>6, <1>8, <1>10
  <2>5. Run(b, Len(s) + out) /\ Len(b) = Len(bytes) - out
    BY <2>3, <2>4, <1>6, <1>8, RunCut
  <2>6. Len(b) <= BUF /\ t + n = Len(f) + Len(b)
    <3>1. t = Len(s) + Len(m)
      BY <1>5
    <3> QED
      BY ONLY <3>1, <2>2, <2>4, <2>5, <1>6, <1>8, <1>10, n \in Nat
  <2>7. Writing(f, b, t + n)
    BY <2>2, <2>5, <2>6 DEF Writing
  <2>8. Placed(Append(its, item), t + n, 0, 0)
    BY <1>4, <1>5, <1>6, PlacedMore
  <2>9. Append(its, item) \in Seq(Items)
    BY <1>5
  <2>10. file' = f /\ membuf' = b /\ got' = <<>> /\ took' = 0 /\ left' = 0 /\ mode' = "writing"
    BY <1>1, <1>2, <1>13, <2>1, <2>3
  <2> QED
    BY <2>2, <2>7, <2>8, <2>9, <2>10, <1>13 DEF StreamInv
<1> QED
  BY <1>11, <1>12, <1>13

LEMMA CloseKeeps ==
  ASSUME StreamInv, Stream!Close
  PROVE  StreamInv'
<1>1. mode = "writing" /\ UNCHANGED <<bufpos, offset, took, left, got>>
  BY DEF Stream!Close, Stream!reader
<1>2. /\ items \in Seq(Items) /\ Run(file, 0) /\ Writing(file, membuf, totpos)
      /\ got = <<>> /\ took = 0 /\ left = 0 /\ Placed(items, totpos, 0, 0)
  BY <1>1 DEF StreamInv
<1>3. Run(membuf, Len(file))
  BY <1>2 DEF Writing
<1>4. CASE Stream!ShortWrite(membuf)
  <2>1. PICK b : b = membuf
    OBVIOUS
  <2> QED
    BY <2>1, <1>2, <1>3, <1>4, ShortWriteKeeps
<1>5. CASE /\ file' = file \o membuf /\ membuf' = <<>>
           /\ mode' = "closed" /\ UNCHANGED <<items, totpos>>
  <2>1. PICK s, m, f : s = file /\ m = membuf /\ f = 0
    OBVIOUS
  <2>2. f \in Nat /\ f + Len(s) = Len(s) /\ Run(s, f) /\ Run(m, f + Len(s))
    BY <1>2, <1>3, <2>1 DEF Run
  <2>3. Run(s \o m, f) /\ Len(s \o m) = Len(s) + Len(m)
    BY <2>2, RunConcat
  <2>4. Run(file', 0) /\ totpos' = Len(file')
    BY <2>1, <2>3, <1>2, <1>5 DEF Writing
  <2> QED
    BY <2>4, <1>1, <1>2, <1>5 DEF StreamInv
<1> QED
  BY <1>4, <1>5 DEF Stream!Close

\* What a fill gives: as much as is left of the file, n bytes at most.
LEMMA FileBytesAre ==
  ASSUME NEW s, s = file, Run(s, 0), NEW from \in 0 .. Len(s), NEW n \in Nat
  PROVE  /\ Run(Stream!FileBytes(from, n), from)
         /\ Len(Stream!FileBytes(from, n)) = IF from + n < Len(s) THEN n ELSE Len(s) - from
<1>1. Len(s) \in Nat /\ from \in Nat
  BY DEF Run
<1>2. PICK to : to = IF from + n < Len(s) THEN from + n ELSE Len(s)
  OBVIOUS
<1>3. to \in from .. Len(s)
  BY <1>1, <1>2
<1>4. Stream!FileBytes(from, n) = SubSeq(s, from + 1, to)
  BY <1>2 DEF Stream!FileBytes, Stream!Least
<1>5. PICK z \in Nat : z = 0
  OBVIOUS
<1>6. Run(SubSeq(s, from + 1, to), z + from) /\ Len(SubSeq(s, from + 1, to)) = to - from
  BY <1>1, <1>3, <1>5, RunCut
<1>7. z + from = from /\ to - from = IF from + n < Len(s) THEN n ELSE Len(s) - from
  BY <1>1, <1>2, <1>5
<1> QED
  BY <1>4, <1>6, <1>7

LEMMA OpenKeeps ==
  ASSUME Stream!Sizes, StreamInv, Stream!Open
  PROVE  StreamInv'
<1>1. /\ mode = "closed" /\ mode' = "reading"
      /\ membuf' = Stream!FileBytes(0, BUF) /\ offset' = Len(membuf')
      /\ bufpos' = 0 /\ totpos' = 0
      /\ UNCHANGED <<items, file, took, left, got>>
  BY DEF Stream!Open
<1>2. /\ items \in Seq(Items) /\ Run(file, 0) /\ totpos = Len(file)
      /\ got = <<>> /\ took = 0 /\ left = 0 /\ Placed(items, totpos, 0, 0)
  BY <1>1 DEF StreamInv
<1>3. PICK s, b : s = file /\ b = Stream!FileBytes(0, BUF)
  OBVIOUS
<1>4. BUF \in Nat \ {0} /\ Len(s) \in Nat /\ Run(s, 0)
  BY <1>2, <1>3, SizesOf DEF Run
<1>5. PICK z \in 0 .. Len(s) : z = 0
  BY <1>4
<1>6. Run(Stream!FileBytes(z, BUF), z)
      /\ Len(Stream!FileBytes(z, BUF)) = IF z + BUF < Len(s) THEN BUF ELSE Len(s) - z
  BY <1>3, <1>4, FileBytesAre
<1>7. Run(b, 0) /\ Len(b) = IF BUF < Len(s) THEN BUF ELSE Len(s)
  BY <1>3, <1>4, <1>5, <1>6
<1>8. Reading(s, b, 0, Len(b), 0, <<>>)
  <2>1. /\ Len(b) \in Nat /\ Len(b) <= BUF /\ Len(b) <= Len(s)
        /\ Len(b) = BUF \/ Len(b) = Len(s)
        /\ Len(b) - Len(b) = 0
    BY <1>4, <1>7
  <2>2. <<>> \in Seq(Nat) /\ Len(<<>>) = 0 /\ Run(<<>>, 0)
    BY DEF Run
  <2>3. 0 \in 0 .. Len(b)
    BY <2>1
  <2> QED
    BY <2>1, <2>2, <2>3, <1>7 DEF Reading
<1>9. 0 + 0 = 0 /\ 0 \in Nat
  OBVIOUS
<1> QED
  BY <1>1, <1>2, <1>3, <1>8, <1>9 DEF StreamInv

\* raw_bytes: in place, or after a refill that keeps what was not read yet.
LEMMA RawBytesKeeps ==
  ASSUME Stream!Sizes, Run(file, 0), Reading(file, membuf, bufpos, offset, totpos, got),
         NEW n \in Nat \ {0}, n <= Stream!HALF, totpos + n <= Len(file), Stream!RawBytes(n)
  PROVE  Reading(file, membuf', bufpos', offset', totpos', got')
<1>1. PICK s, b, bp, off, pos :
        s = file /\ b = membuf /\ bp = bufpos /\ off = offset /\ pos = totpos
  OBVIOUS
<1>2. /\ Run(s, 0) /\ off \in Nat /\ bp \in 0 .. Len(b) /\ Len(b) <= BUF
      /\ Len(b) <= off /\ off <= Len(s) /\ (Len(b) = BUF \/ off = Len(s))
      /\ Run(b, off - Len(b)) /\ pos = (off - Len(b)) + bp
      /\ pos + n <= Len(s)
  BY <1>1 DEF Reading
<1>3. PICK lb, ls : lb = Len(b) /\ ls = Len(s)
  OBVIOUS
<1>4. /\ lb \in Nat /\ ls \in Nat /\ bp \in Nat /\ bp <= lb /\ lb <= BUF /\ lb <= off /\ off <= ls
      /\ lb = BUF \/ off = ls
      /\ pos = (off - lb) + bp /\ pos \in Nat /\ pos + n <= ls /\ off - lb \in Nat
      /\ off \in Nat
  <2>1. lb \in Nat /\ ls \in Nat
    BY <1>2, <1>3 DEF Run
  <2> QED
    BY <2>1, <1>2, <1>3
<1>5. PICK H : H = Stream!HALF
  OBVIOUS
<1>6. BUF \in Nat \ {0} /\ H \in Nat /\ 2 * H <= BUF /\ n <= H
  BY <1>5, SizesOf
<1>7. PICK gap : gap = lb - bp
  OBVIOUS
<1>8. gap \in Nat
  BY ONLY <1>4, <1>7
<1>9. totpos' = pos + n
  BY <1>1 DEF Stream!RawBytes
<1>10. Len(membuf) - bufpos = gap
  BY <1>1, <1>3, <1>7
<1>11. CASE gap >= n
  <2>1. /\ got' = SubSeq(b, bp + 1, bp + n) /\ bufpos' = bp + n
        /\ membuf' = b /\ offset' = off
    BY <1>1, <1>10, <1>11 DEF Stream!RawBytes
  <2>2. PICK q : q = bp + n
    OBVIOUS
  <2>3. /\ q \in bp .. lb /\ q \in 0 .. lb /\ q - bp = n /\ (off - lb) + bp = (pos + n) - n
        /\ pos + n = (off - lb) + q /\ n <= pos + n
    BY ONLY <2>2, <1>4, <1>7, <1>11, n \in Nat \ {0}
  <2>4. PICK g : g = SubSeq(b, bp + 1, q)
    OBVIOUS
  <2>5. Run(g, (off - lb) + bp) /\ Len(g) = q - bp
    BY <2>3, <2>4, <1>2, <1>3, <1>4, RunCut
  <2>6. g \in Seq(Nat) /\ Len(g) <= pos + n /\ Run(g, (pos + n) - Len(g))
    BY <2>3, <2>5 DEF Run
  <2>7. Reading(s, b, q, off, pos + n, g)
    BY <2>3, <2>6, <1>2, <1>3 DEF Reading
  <2> QED
    BY <2>1, <2>2, <2>4, <2>7, <1>1, <1>9
<1>12. CASE ~ (gap >= n)
  <2>1. gap <= bp /\ lb = BUF /\ gap < n /\ gap <= BUF /\ n <= BUF
    BY ONLY <1>4, <1>6, <1>7, <1>8, <1>12, n \in Nat \ {0}
  <2>2. PICK k : k = SubSeq(b, bp + 1, lb)
    OBVIOUS
  <2>3. Stream!KeptGap(gap) = k
    BY <2>1, <2>2, <1>1, <1>3 DEF Stream!KeptGap
  <2>4. Run(k, pos) /\ Len(k) = gap
    <3>1. lb \in bp .. lb /\ (off - lb) + bp = pos /\ lb - bp = gap
      BY <1>4, <1>7
    <3>2. Run(k, (off - lb) + bp) /\ Len(k) = lb - bp
      BY <3>1, <2>2, <1>2, <1>3, <1>4, RunCut
    <3> QED
      BY <3>1, <3>2
  <2>5. PICK m \in Nat : m = BUF - gap
    BY <2>1, <1>6, <1>8
  <2>6. PICK f : f = Stream!FileBytes(off, m)
    OBVIOUS
  <2>7. Run(f, off) /\ Len(f) = IF off + m < ls THEN m ELSE ls - off
    <3>1. off \in 0 .. ls
      BY <1>2, <1>4
    <3> QED
      BY <3>1, <2>6, <1>1, <1>2, <1>3, FileBytesAre
  <2>8. PICK r2 : r2 = k \o f
    OBVIOUS
  <2>9. pos + gap = off
    BY ONLY <1>4, <1>7
  <2>10. Run(r2, pos) /\ Len(r2) = gap + Len(f)
    <3>1. pos + Len(k) = off
      BY <2>4, <2>9
    <3>2. off = pos + Len(k)
      BY <3>1
    <3>3. Run(k, pos) /\ pos \in Nat /\ Run(f, off)
      BY <2>4, <2>7, <1>4
    <3>4. Run(k \o f, pos) /\ Len(k \o f) = Len(k) + Len(f)
      BY ONLY <3>2, <3>3, RunConcat
    <3> QED
      BY <3>4, <2>4, <2>8
  <2>11. PICK w : w = Len(f)
    OBVIOUS
  <2>12. off \in Nat /\ w = IF off + m < ls THEN m ELSE ls - off
    BY <2>7, <2>11, <1>2
  <2>13. /\ w \in Nat /\ gap + w <= BUF /\ n <= gap + w /\ off + w <= ls
         /\ gap + w = BUF \/ off + w = ls
         /\ (off + w) - (gap + w) = pos
         /\ gap + w <= off + w
    BY ONLY <2>12, <2>9, <2>5, <2>1, <1>4, <1>6, <1>8, n \in Nat \ {0}
  <2>14. PICK pad : pad = [i \in 1 .. n |-> 0]
    OBVIOUS
  <2>15. PICK g : g = SubSeq(r2 \o pad, 1, n)
    OBVIOUS
  <2>16. Run(g, pos) /\ Len(g) = n
    <3>1. pad \in Seq(Nat) /\ r2 \in Seq(Nat)
      BY <2>10, <2>14 DEF Run
    <3>2. PICK d : d = r2 \o pad
      OBVIOUS
    <3>3. PICK lr \in Nat, lp \in Nat : lr = Len(r2) /\ lp = Len(pad)
      BY <3>1
    <3>4. /\ d \in Seq(Nat) /\ Len(d) = lr + lp
          /\ \A i \in 1 .. lr + lp : d[i] = IF i <= lr THEN r2[i] ELSE pad[i - lr]
      BY <3>1, <3>2, <3>3, ConcatProperties
    <3>5. lr = gap + w
      BY <3>3, <2>10, <2>11
    <3>6. \A i \in 1 .. n : i \in 1 .. lr + lp /\ i <= lr /\ i \in 1 .. lr
      BY ONLY <3>5, <2>13, <1>8, lr \in Nat, lp \in Nat, n \in Nat
    <3>7. \A i \in 1 .. n : d[i] = pos + i
      BY <3>3, <3>4, <3>6, <2>10 DEF Run
    <3>9. PICK one \in Int : one = 1
      OBVIOUS
    <3>8. \A i \in one .. n : d[i] \in Nat
      BY <3>7, <3>9, <1>4
    <3>12. one \in Int /\ n \in Int /\ g = SubSeq(d, one, n)
      BY <3>2, <3>9, <2>15
    <3>10. /\ g \in Seq(Nat) /\ Len(g) = IF one <= n THEN n - one + 1 ELSE 0
           /\ \A i \in 1 .. n - one + 1 : g[i] = d[one + i - 1]
      BY ONLY <3>8, <3>12, SubSeqProperties
    <3>11. Len(g) = n /\ \A i \in 1 .. n : g[i] = d[i]
      <4>1. one <= n /\ n - one + 1 = n /\ \A i \in 1 .. n : one + i - 1 = i
        BY ONLY <3>9, n \in Nat \ {0}
      <4> QED
        BY <4>1, <3>10
    <3> QED
      BY <3>7, <3>10, <3>11 DEF Run
  <2>17. /\ got' = g /\ bufpos' = n /\ membuf' = r2 /\ offset' = off + w
    <3>1. Stream!FileBytes(offset, BUF - gap) = f
      BY <2>5, <2>6, <1>1
    <3> QED
      BY <3>1, <2>3, <2>8, <2>11, <2>14, <2>15, <1>1, <1>10, <1>12 DEF Stream!RawBytes
  <2>18. Reading(s, r2, n, off + w, pos + n, g)
    <3>1. Len(r2) = gap + w /\ n \in 0 .. gap + w
      BY <2>10, <2>11, <2>13, <1>8
    <3>2. /\ off + w \in Nat /\ pos + n = ((off + w) - (gap + w)) + n /\ n <= pos + n
          /\ (pos + n) - n = pos
      BY ONLY <2>12, <2>13, <1>4, n \in Nat
    <3>3. g \in Seq(Nat)
      BY <2>16 DEF Run
    <3> QED
      BY <3>1, <3>2, <3>3, <2>10, <2>13, <2>16, <1>3 DEF Reading
  <2> QED
    BY <2>17, <2>18, <1>1, <1>9
<1> QED
  BY <1>11, <1>12, <1>8

\* Where the reader is between its items.
LEMMA ReaderFacts ==
  ASSUME Stream!Sizes, StreamInv, mode = "reading"
  PROVE  /\ items \in Seq(Items) /\ Run(file, 0)
         /\ Reading(file, membuf, bufpos, offset, totpos, got)
         /\ left \in Nat /\ took \in 0 .. Len(items) /\ totpos \in Nat /\ Len(file) \in Nat
         /\ Placed(items, Len(file), took, totpos + left)
         /\ totpos + left <= Len(file)
         /\ totpos >= Len(file) <=> took = Len(items) /\ left = 0
<1>1. /\ items \in Seq(Items) /\ Run(file, 0)
      /\ Reading(file, membuf, bufpos, offset, totpos, got)
      /\ left \in Nat /\ Placed(items, Len(file), took, totpos + left)
  BY DEF StreamInv
<1>2. totpos \in Nat
  BY <1>1 DEF Reading, Run
<1>3. PICK ends : /\ EndsOf(items, ends) /\ ends[Len(items)] = Len(file)
                  /\ took \in 0 .. Len(items) /\ ends[took] = totpos + left
  BY <1>1 DEF Placed
<1>11. Len(items) \in Nat /\ Len(file) \in Nat
  BY <1>1 DEF Run
<1>12. PICK k : k = took
  OBVIOUS
<1>4. PICK len \in Nat, total \in Nat :
        len = Len(items) /\ k = took /\ k \in 0 .. len /\ total = Len(file)
  BY <1>3, <1>11, <1>12
<1>5. /\ ends[len] = total /\ ends[k] = totpos + left
      /\ k < len => ends[k] < ends[len]
  BY <1>3, <1>4 DEF EndsOf
<1>6. k = len \/ k < len
  BY <1>4
<1>7. k < len => totpos + left < total
  BY <1>5
<1>8. k = len => totpos + left = total
  BY <1>5
<1>9. PICK t \in Nat, f \in Nat : t = totpos /\ f = left
  BY <1>1, <1>2
<1>10. t + f <= total /\ (t >= total <=> k = len /\ f = 0)
  <2>1. (k < len => t + f < total) /\ (k = len => t + f = total)
    BY <1>7, <1>8, <1>9
  <2> QED
    BY ONLY <2>1, <1>4, t \in Nat, f \in Nat
<1> QED
  BY <1>1, <1>2, <1>3, <1>4, <1>9, <1>10

\* The item that is read next: the file has it.
LEMMA NextItem ==
  ASSUME Stream!Sizes, StreamInv, mode = "reading", left = 0, ~ (totpos >= Len(file))
  PROVE  LET item == items[took + 1]
         IN /\ item \in Items /\ took + 1 \in 0 .. Len(items)
            /\ totpos + Size(item) <= Len(file)
            /\ Placed(items, Len(file), took + 1, totpos + Size(item))
<1>1. /\ items \in Seq(Items) /\ took \in 0 .. Len(items) /\ totpos \in Nat /\ Len(file) \in Nat
      /\ Placed(items, Len(file), took, totpos + left) /\ took # Len(items)
  BY ReaderFacts
<1>2. PICK its \in Seq(Items), len \in Nat, k, total \in Nat, t \in Nat :
        /\ its = items /\ len = Len(items) /\ k = took /\ k \in 0 .. len
        /\ total = Len(file) /\ t = totpos
  BY <1>1
<1>3. PICK ends : /\ EndsOf(its, ends) /\ ends[len] = total /\ ends[k] = t + 0
  BY <1>1, <1>2 DEF Placed
<1>4. PICK j : j = k + 1
  OBVIOUS
<1>5. j \in 1 .. len /\ j \in 0 .. len /\ j - 1 = k /\ (j = len \/ j < len) /\ len \in 0 .. len
  BY <1>1, <1>2, <1>4
<1>6. /\ ends \in [0 .. len -> Nat] /\ ends[j] = ends[j - 1] + Size(its[j])
      /\ \A x, y \in 0 .. len : x < y => ends[x] < ends[y]
  BY <1>2, <1>3, <1>5 DEF EndsOf
<1>7. its[j] \in Items
  BY <1>2, <1>5
<1>8. ends[j] = t + Size(its[j])
  BY <1>3, <1>5, <1>6
<1>9. ends[j] <= total
  <2>1. ends[j] \in Nat /\ (j < len => ends[j] < ends[len])
    BY <1>5, <1>6
  <2> QED
    BY <2>1, <1>3, <1>5
<1>10. Placed(its, total, j, t + Size(its[j]))
  BY <1>2, <1>3, <1>5, <1>8 DEF Placed
<1> QED
  BY <1>2, <1>4, <1>5, <1>7, <1>8, <1>9, <1>10

LEMMA ReadScalarKeeps ==
  ASSUME Stream!Sizes, StreamInv, Stream!ReadScalar
  PROVE  StreamInv'
<1>1. PICK item : item = items[took + 1]
  OBVIOUS
<1>2. /\ mode = "reading" /\ left = 0 /\ ~ (totpos >= Len(file))
      /\ item[1] = "scalar" /\ Stream!RawBytes(item[2]) /\ took' = took + 1
      /\ items' = items /\ file' = file /\ left' = left /\ mode' = mode
  BY <1>1 DEF Stream!ReadScalar, Stream!eof, Stream!Expected
<1>3. /\ item \in Items /\ totpos + Size(item) <= Len(file)
      /\ Placed(items, Len(file), took + 1, totpos + Size(item))
  BY <1>1, <1>2, NextItem
<1>4. PICK n : n = item[2]
  OBVIOUS
<1>5. item[2] \in Scalars
  <2>1. item \notin {"long"} \X Lengths
    BY <1>2
  <2>2. item \in {"scalar"} \X Scalars
    BY <2>1, <1>3 DEF Items
  <2> QED
    BY <2>2
<1>6. n = Size(item) /\ n \in Nat \ {0} /\ n <= Stream!HALF
  BY <1>2, <1>4, <1>5, SizesOf DEF Size
<1>7. /\ items \in Seq(Items) /\ Run(file, 0) /\ totpos \in Nat
      /\ Reading(file, membuf, bufpos, offset, totpos, got)
  BY <1>2, ReaderFacts
<1>8. Reading(file, membuf', bufpos', offset', totpos', got')
  BY <1>2, <1>3, <1>4, <1>6, <1>7, RawBytesKeeps
<1>9. totpos' = totpos + n
  BY <1>2, <1>4 DEF Stream!RawBytes
<1>10. totpos' + left' = totpos + Size(item) /\ left' \in Nat
  <2>1. totpos + n + 0 = totpos + n
    BY <1>6, <1>7
  <2> QED
    BY <2>1, <1>2, <1>6, <1>9
<1> QED
  BY <1>2, <1>3, <1>7, <1>8, <1>10 DEF StreamInv

LEMMA ReadLengthKeeps ==
  ASSUME Stream!Sizes, StreamInv, Stream!ReadLength
  PROVE  StreamInv'
<1>1. PICK item : item = items[took + 1]
  OBVIOUS
<1>2. /\ mode = "reading" /\ left = 0 /\ ~ (totpos >= Len(file))
      /\ item[1] = "long" /\ Stream!RawBytes(WORD) /\ took' = took + 1
      /\ items' = items /\ file' = file /\ left' = item[2] /\ mode' = mode
  BY <1>1 DEF Stream!ReadLength, Stream!eof, Stream!Expected
<1>3. /\ item \in Items /\ totpos + Size(item) <= Len(file)
      /\ Placed(items, Len(file), took + 1, totpos + Size(item))
  BY <1>1, <1>2, NextItem
<1>4. PICK n : n = item[2]
  OBVIOUS
<1>5. item[2] \in Lengths
  <2>1. item \notin {"scalar"} \X Scalars
    BY <1>2
  <2>2. item \in {"long"} \X Lengths
    BY <2>1, <1>3 DEF Items
  <2> QED
    BY <2>2
<1>6. Size(item) = WORD + n /\ n \in Nat /\ WORD \in Nat \ {0} /\ WORD <= Stream!HALF
  BY <1>2, <1>4, <1>5, SizesOf DEF Size
<1>7. /\ items \in Seq(Items) /\ Run(file, 0) /\ totpos \in Nat /\ Len(file) \in Nat
      /\ Reading(file, membuf, bufpos, offset, totpos, got)
  BY <1>2, ReaderFacts
<1>8. totpos + WORD <= Len(file)
  BY <1>3, <1>6, <1>7
<1>9. Reading(file, membuf', bufpos', offset', totpos', got')
  BY <1>2, <1>6, <1>7, <1>8, RawBytesKeeps
<1>10. totpos' = totpos + WORD
  BY <1>2 DEF Stream!RawBytes
<1>11. totpos' + left' = totpos + Size(item) /\ left' \in Nat
  <2>1. (totpos + WORD) + n = totpos + (WORD + n)
    BY <1>6, <1>7
  <2> QED
    BY <2>1, <1>2, <1>4, <1>6, <1>10
<1> QED
  BY <1>2, <1>3, <1>7, <1>9, <1>11 DEF StreamInv

LEMMA ReadPieceKeeps ==
  ASSUME Stream!Sizes, StreamInv, Stream!ReadPiece
  PROVE  StreamInv'
<1>1. PICK n, H : n = Stream!Piece /\ H = Stream!HALF
  OBVIOUS
<1>2. /\ mode = "reading" /\ left > 0 /\ Stream!RawBytes(n) /\ left' = left - n
      /\ items' = items /\ file' = file /\ took' = took /\ mode' = mode
  BY <1>1 DEF Stream!ReadPiece
<1>3. /\ items \in Seq(Items) /\ Run(file, 0) /\ totpos \in Nat /\ Len(file) \in Nat
      /\ Reading(file, membuf, bufpos, offset, totpos, got)
      /\ left \in Nat /\ Placed(items, Len(file), took, totpos + left)
      /\ totpos + left <= Len(file)
  BY <1>2, ReaderFacts
<1>4. n = (IF left < H THEN left ELSE H)
  BY <1>1 DEF Stream!Piece, Stream!Least
<1>5. H \in Nat \ {0}
  BY <1>1, SizesOf
<1>6. n \in Nat \ {0} /\ n <= H /\ totpos + n <= Len(file) /\ left - n \in Nat
      /\ (totpos + n) + (left - n) = totpos + left
  <2>1. PICK t, f, x : t = totpos /\ f = left /\ x = Len(file)
    OBVIOUS
  <2>2. /\ t \in Nat /\ f \in Nat /\ x \in Nat /\ f > 0 /\ t + f <= x
        /\ n = (IF f < H THEN f ELSE H)
    BY <2>1, <1>2, <1>3, <1>4
  <2>3. n \in Nat \ {0} /\ n <= H /\ t + n <= x /\ f - n \in Nat /\ (t + n) + (f - n) = t + f
    BY ONLY <2>2, <1>5
  <2> QED
    BY <2>1, <2>3
<1>7. Reading(file, membuf', bufpos', offset', totpos', got')
  BY <1>1, <1>2, <1>3, <1>6, RawBytesKeeps
<1>8. totpos' = totpos + n
  BY <1>2 DEF Stream!RawBytes
<1>9. totpos' + left' = totpos + left /\ left' \in Nat
  BY <1>2, <1>6, <1>8
<1> QED
  BY <1>2, <1>3, <1>7, <1>9 DEF StreamInv

LEMMA StreamInit ==
  ASSUME Stream!Sizes, Stream!Init
  PROVE  StreamInv
<1>1. /\ items = <<>> /\ file = <<>> /\ membuf = <<>> /\ totpos = 0
      /\ took = 0 /\ left = 0 /\ got = <<>> /\ mode = "writing"
  BY DEF Stream!Init
<1>2. <<>> \in Seq(Items) /\ Run(<<>>, 0) /\ Len(<<>>) = 0
  BY DEF Run
<1>3. Placed(<<>>, 0, 0, 0)
  <2> DEFINE ends == [k \in 0 .. 0 |-> 0]
  <2>1. ends \in [0 .. 0 -> Nat] /\ ends[0] = 0
    OBVIOUS
  <2> HIDE DEF ends
  <2>2. EndsOf(<<>>, ends)
    BY <2>1, <1>2 DEF EndsOf
  <2> QED
    BY <2>1, <2>2, <1>2 DEF Placed
<1>4. Writing(<<>>, <<>>, 0)
  BY <1>2, SizesOf DEF Writing
<1> QED
  BY <1>1, <1>2, <1>3, <1>4 DEF StreamInv

LEMMA StreamSteps ==
  ASSUME Stream!Sizes, StreamInv, [Stream!Next]_(Stream!vars)
  PROVE  StreamInv'
<1>1. CASE UNCHANGED Stream!vars
  BY <1>1 DEF StreamInv, Stream!vars, Stream!reader
<1>2. ASSUME Stream!PutScalar PROVE StreamInv'
  <2>1. PICK n \in Scalars : Stream!Put(<<"scalar", n>>, n)
    BY <1>2 DEF Stream!PutScalar
  <2>2. PICK item : item = <<"scalar", n>>
    OBVIOUS
  <2>3. item \in Items /\ Size(item) = n
    BY <2>2 DEF Items, Size
  <2> QED
    BY <2>1, <2>2, <2>3, PutKeeps
<1>3. ASSUME Stream!PutLong PROVE StreamInv'
  <2>1. PICK n \in Lengths : Stream!Put(<<"long", n>>, WORD + n)
    BY <1>3 DEF Stream!PutLong
  <2>2. PICK item : item = <<"long", n>>
    OBVIOUS
  <2>3. item \in Items /\ Size(item) = WORD + n
    BY <2>2 DEF Items, Size
  <2> QED
    BY <2>1, <2>2, <2>3, PutKeeps
<1> QED
  BY <1>1, <1>2, <1>3, CloseKeeps, OpenKeeps, ReadScalarKeeps, ReadLengthKeeps, ReadPieceKeeps
     DEF Stream!Next

LEMMA StreamInvImplies ==
  ASSUME Stream!Sizes, StreamInv
  PROVE  Stream!WrittenInOrder /\ Stream!ReadBack
<1>1. Run(file, 0)
  BY DEF StreamInv
<1>2. PICK s, m, t : s = file /\ m = membuf /\ t = totpos
  OBVIOUS
<1>3. s = Stream!Upto(Len(s))
  BY <1>1, <1>2, RunUpto
<1>4. ASSUME mode = "writing" PROVE file \o membuf = Stream!Upto(totpos) /\ Len(membuf) <= BUF
  <2>1. Run(m, Len(s)) /\ Len(m) <= BUF /\ t = Len(s) + Len(m) /\ Run(s, 0)
    BY <1>1, <1>2, <1>4 DEF StreamInv, Writing
  <2>2. PICK f \in Nat : f = 0 /\ f + Len(s) = Len(s)
    BY <2>1 DEF Run
  <2>3. Run(s \o m, 0) /\ Len(s \o m) = t
    BY <2>1, <2>2, RunConcat
  <2>4. s \o m = Stream!Upto(Len(s \o m))
    BY <2>3, RunUpto
  <2> QED
    BY <2>1, <2>3, <2>4, <1>2
<1>5. ASSUME mode = "closed" PROVE file = Stream!Upto(totpos)
  BY <1>2, <1>3, <1>5 DEF StreamInv
<1>6. Stream!WrittenInOrder
  BY <1>2, <1>3, <1>4, <1>5 DEF Stream!WrittenInOrder
<1>7. ASSUME mode = "reading"
      PROVE  /\ got = Stream!Bytes(totpos - Len(got), Len(got))
             /\ bufpos <= Len(membuf)
             /\ Stream!eof <=> took = Len(items) /\ left = 0
  <2>1. Reading(file, membuf, bufpos, offset, totpos, got)
    BY <1>7, ReaderFacts
  <2>2. bufpos <= Len(membuf)
    BY <2>1 DEF Reading, Run
  <2>3. PICK g, p : g = got /\ p = totpos - Len(got)
    OBVIOUS
  <2>4. Run(g, p)
    BY <2>1, <2>3 DEF Reading
  <2>5. g = Stream!Bytes(p, Len(g))
    BY <2>4 DEF Run, Stream!Bytes
  <2>6. Stream!eof <=> took = Len(items) /\ left = 0
    BY <1>7, ReaderFacts DEF Stream!eof
  <2> QED
    BY <2>2, <2>3, <2>5, <2>6
<1>8. Stream!ReadBack
  BY <1>7 DEF Stream!ReadBack
<1> QED
  BY <1>6, <1>8

\* Whatever the sizes of the buffer and of what is written, the file and the buffer
\* are the bytes put, in order.
THEOREM StreamWrites == Stream!Spec => []WrittenInOrder
<1>1. Stream!Init => StreamInv
  BY StreamAssumption, StreamInit
<1>2. StreamInv /\ [Stream!Next]_(Stream!vars) => StreamInv'
  BY StreamAssumption, StreamSteps
<1>3. StreamInv => WrittenInOrder
  BY StreamAssumption, StreamInvImplies DEF WrittenInOrder
<1> QED
  BY <1>1, <1>2, <1>3, PTL DEF Stream!Spec

\* And what is read back is what was put, item by item, with the end of the file
\* seen after the last one.
THEOREM StreamReads == Stream!Spec => []ReadBack
<1>1. Stream!Init => StreamInv
  BY StreamAssumption, StreamInit
<1>2. StreamInv /\ [Stream!Next]_(Stream!vars) => StreamInv'
  BY StreamAssumption, StreamSteps
<1>3. StreamInv => ReadBack
  BY StreamAssumption, StreamInvImplies DEF ReadBack
<1> QED
  BY <1>1, <1>2, <1>3, PTL DEF Stream!Spec
-----------------------------------------------------------------------------
(* The query's edges                                                       *)

\* The join's numbers of elements are the usual ones.
LEMMA SameSizes ==
  ASSUME NEW S
  PROVE  /\ Joins!Cardinality(S) = Cardinality(S)
         /\ Joins!IsFiniteSet(S) <=> IsFiniteSet(S)
BY DEF Joins!Cardinality, Cardinality, Joins!IsFiniteSet, IsFiniteSet

\* The places of a sorted finite set hold its elements, each of them somewhere.
LEMMA SortedIs ==
  ASSUME NEW S \in SUBSET Int, IsFiniteSet(S)
  PROVE  /\ Cardinality(S) \in Nat
         /\ Joins!Sorted(S) \in [1 .. Cardinality(S) -> S]
         /\ \A x \in S : \E k \in 1 .. Cardinality(S) : Joins!Sorted(S)[k] = x
<1> DEFINE L == Cardinality(S)
           below(x) == {y \in S : y < x}
           size(x) == Cardinality(below(x))
           rank == [x \in S |-> size(x) + 1]
<1>1. L \in Nat /\ IsFiniteSet(1 .. L) /\ Cardinality(1 .. L) = L
  BY FS_CardinalityType, IntervalSize
<1>2. ASSUME NEW x \in S
      PROVE  IsFiniteSet(below(x)) /\ size(x) \in 0 .. L - 1
  <2>1. below(x) \in SUBSET S /\ x \notin below(x)
    OBVIOUS
  <2> HIDE DEF below
  <2>2. /\ IsFiniteSet(below(x)) /\ size(x) \in Nat /\ size(x) <= L
        /\ L = size(x) => S = below(x)
    BY <2>1, FS_Subset, FS_CardinalityType
  <2>3. size(x) # L
    BY <2>1, <2>2
  <2> HIDE DEF size, L
  <2> QED
    BY <1>1, <2>2, <2>3
<1>3. ASSUME NEW x \in S, NEW z \in S, x < z
      PROVE  size(x) < size(z)
  <2>1. below(x) \in SUBSET below(z)
    <3>1. \A y \in S : y < x => y < z
      BY <1>3
    <3> QED
      BY <3>1
  <2>2. below(x) # below(z)
    <3>1. x \in below(z) /\ x \notin below(x)
      BY <1>3
    <3> HIDE DEF below
    <3> QED
      BY <3>1
  <2>3. IsFiniteSet(below(z))
    BY <1>2
  <2> HIDE DEF below
  <2>4. size(x) <= size(z) /\ (size(z) = size(x) => below(z) = below(x))
    BY <2>1, <2>3, FS_Subset
  <2>5. size(x) \in Nat /\ size(z) \in Nat
    BY <1>1, <1>2
  <2> HIDE DEF size
  <2> QED
    BY <2>2, <2>4, <2>5
<1>4. \A x \in S : size(x) \in Nat /\ size(x) + 1 \in 1 .. L
  <2>1. \A x \in S : size(x) \in 0 .. L - 1
    BY <1>2
  <2> HIDE DEF size, L
  <2> QED
    BY <1>1, <2>1
<1>5. \A x, z \in S : size(x) = size(z) => x = z
  <2>1. \A x, z \in S : x < z => size(x) < size(z)
    BY <1>3
  <2>2. \A x, z \in S : x # z => x < z \/ z < x
    OBVIOUS
  <2> HIDE DEF size
  <2> QED
    BY <1>4, <2>1, <2>2
<1>6. rank \in Injection(S, 1 .. L)
  <2> HIDE DEF size, L
  <2>1. rank \in [S -> 1 .. L]
    BY <1>4
  <2>2. \A x, z \in S : rank[x] = rank[z] => x = z
    BY <1>4, <1>5
  <2> HIDE DEF rank
  <2> QED
    BY <2>1, <2>2 DEF Injection, IsInjective
<1>7. rank \in Surjection(S, 1 .. L)
  BY <1>1, <1>6, FS_Injection
<1>9. Joins!Sorted(S) = [k \in 1 .. L |-> CHOOSE x \in S : size(x) = k - 1]
  <2>1. Joins!Cardinality(S) = L /\ \A x : Joins!Cardinality(below(x)) = size(x)
    BY SameSizes
  <2>2. Joins!Sorted(S) = [k \in 1 .. Joins!Cardinality(S) |->
                             CHOOSE x \in S : Joins!Cardinality(below(x)) = k - 1]
    BY DEF Joins!Sorted
  <2> HIDE DEF size, L, below
  <2> QED
    BY <2>1, <2>2
<1> HIDE DEF size
<1>8. \A k \in 1 .. L : \E x \in S : size(x) = k - 1
  <2> SUFFICES ASSUME NEW k \in 1 .. L PROVE \E x \in S : size(x) = k - 1
    OBVIOUS
  <2>1. PICK x \in S : rank[x] = k
    BY <1>7 DEF Surjection
  <2>2. size(x) + 1 = k /\ size(x) \in Nat
    BY <1>4, <2>1
  <2> QED
    BY <2>2
<1>10. Joins!Sorted(S) \in [1 .. L -> S]
  BY <1>8, <1>9
<1>11. ASSUME NEW x \in S PROVE \E k \in 1 .. L : Joins!Sorted(S)[k] = x
  <2>1. size(x) + 1 \in 1 .. L /\ (size(x) + 1) - 1 = size(x)
    BY <1>4
  <2>2. Joins!Sorted(S)[size(x) + 1] = CHOOSE z \in S : size(z) = size(x)
    BY <1>9, <2>1
  <2>3. (CHOOSE z \in S : size(z) = size(x)) = x
    BY <1>5
  <2> QED
    BY <2>1, <2>2, <2>3
<1> QED
  BY <1>1, <1>10, <1>11

\* The pattern's triples, and the edge that a triple is for the variable i.
Triple(n) == pattern.triples[n]
EdgeAt(i, t) == IF t.s = i THEN [type |-> "OUT", pre |-> t.p, nei |-> t.o]
                           ELSE [type |-> "IN", pre |-> t.p, nei |-> t.s]

LEMMA TriplesOf ==
  ASSUME Joins!Numbered, pattern \in Patterns
  PROVE  /\ pattern.var_num \in Nat
         /\ pattern.triples \in Seq([s : Int, p : Nat, o : Int])
         /\ 1 \in DOMAIN pattern.triples
         /\ (IF Triple(1).s >= 0 THEN Triple(1).s ELSE Triple(1).o) = 0
         /\ \A n \in DOMAIN pattern.triples :
              /\ n \in Nat
              /\ Triple(n).s \in Int /\ Triple(n).p \in Nat /\ Triple(n).o \in Int
              /\ Triple(n).s # Triple(n).o
              /\ Triple(n).s >= 0 \/ Triple(n).o >= 0
              /\ Triple(n).s >= 0 => Triple(n).s \in Joins!Vars(pattern)
              /\ Triple(n).o >= 0 => Triple(n).o \in Joins!Vars(pattern)
<1> DEFINE R == [s : Int, p : Nat, o : Int]
           ts == pattern.triples
<1>1. /\ pattern.var_num \in Nat /\ ts \in Seq(R) /\ ts # << >>
      /\ (IF ts[1].s >= 0 THEN ts[1].s ELSE ts[1].o) = 0
  BY DEF Joins!Numbered
<1>2. \A n \in DOMAIN ts : /\ ts[n].s # ts[n].o /\ (ts[n].s >= 0 \/ ts[n].o >= 0)
                           /\ {ts[n].s, ts[n].o} \cap Nat \subseteq Joins!Vars(pattern)
  BY DEF Joins!Numbered
<1>3. DOMAIN ts = 1 .. Len(ts) /\ Len(ts) \in Nat /\ Len(ts) # 0
      /\ \A n \in DOMAIN ts : ts[n] \in R
  <2> HIDE DEF ts, R
  <2> QED
    BY <1>1, LenProperties, EmptySeq
<1>4. ASSUME NEW n \in DOMAIN ts
      PROVE  ts[n].s \in Int /\ ts[n].p \in Nat /\ ts[n].o \in Int /\ n \in Nat
  <2>1. ts[n] \in R /\ n \in Nat
    BY <1>3
  <2> QED
    BY <2>1
<1>5. 1 \in DOMAIN ts
  BY <1>3
<1> HIDE DEF R
<1>6. ASSUME NEW n \in DOMAIN ts
      PROVE  /\ ts[n].s >= 0 => ts[n].s \in Joins!Vars(pattern)
             /\ ts[n].o >= 0 => ts[n].o \in Joins!Vars(pattern)
  <2>1. PICK a \in Int, b \in Int : a = ts[n].s /\ b = ts[n].o
    BY <1>4
  <2>2. {a, b} \cap Nat \subseteq Joins!Vars(pattern)
    BY <1>2, <2>1
  <2> HIDE DEF ts
  <2> QED
    BY <2>1, <2>2
<1> QED
  BY <1>1, <1>2, <1>4, <1>5, <1>6 DEF Triple, R

\* The triples that i is in.
TriplesWith(i) == {n \in DOMAIN pattern.triples : i \in {Triple(n).s, Triple(n).o}}

LEMMA EdgesAre ==
  ASSUME Joins!Numbered, pattern \in Patterns, NEW i
  PROVE  /\ \E K \in Nat : DOMAIN Joins!Edges(pattern, i) = 1 .. K
         /\ Joins!EdgesOf(i) = {EdgeAt(i, Triple(n)) : n \in TriplesWith(i)}
<1> DEFINE S == TriplesWith(i)
           at == Joins!Sorted(S)
           E == Joins!Edges(pattern, i)
<1>1. S \in SUBSET Int /\ IsFiniteSet(S)
  <2>1. /\ pattern.triples \in Seq([s : Int, p : Nat, o : Int])
        /\ \A n \in DOMAIN pattern.triples : n \in Nat
    BY TriplesOf
  <2>2. DOMAIN pattern.triples = 1 .. Len(pattern.triples) /\ Len(pattern.triples) \in Nat
    BY <2>1, LenProperties
  <2>3. IsFiniteSet(DOMAIN pattern.triples)
    BY <2>2, IntervalSize
  <2>4. S \in SUBSET (DOMAIN pattern.triples)
    BY DEF TriplesWith
  <2>5. IsFiniteSet(S)
    BY <2>3, <2>4, FS_Subset
  <2> QED
    BY <2>1, <2>4, <2>5
<1>2. PICK K \in Nat : /\ at \in [1 .. K -> S]
                      /\ \A x \in S : \E k \in 1 .. K : at[k] = x
  BY <1>1, SortedIs
<1>3. E = [k \in DOMAIN at |-> EdgeAt(i, Triple(at[k]))]
  BY DEF Joins!Edges, EdgeAt, Triple, TriplesWith
<1> HIDE DEF S, at, E
<1>4. DOMAIN E = 1 .. K /\ \A k \in 1 .. K : E[k] = EdgeAt(i, Triple(at[k])) /\ at[k] \in S
  BY <1>2, <1>3
<1>5. Joins!Range(E) = {EdgeAt(i, Triple(n)) : n \in S}
  <2>1. Joins!Range(E) = {E[k] : k \in 1 .. K}
    BY <1>4 DEF Joins!Range
  <2>2. \A k \in 1 .. K : \E n \in S : E[k] = EdgeAt(i, Triple(n))
    BY <1>4
  <2>3. \A n \in S : \E k \in 1 .. K : E[k] = EdgeAt(i, Triple(n))
    BY <1>2, <1>4
  <2> QED
    BY <2>1, <2>2, <2>3
<1> QED
  BY <1>4, <1>5 DEF E, S, Joins!EdgesOf

\* What an edge of a variable tells, and that each triple it is in is one.
LEMMA EdgeFacts ==
  ASSUME Joins!Numbered, pattern \in Patterns, NEW i \in Joins!Vars(pattern)
  PROVE  /\ \A e \in Joins!EdgesOf(i) :
              /\ e.pre \in Nat /\ e.nei \in Int /\ e.type \in {"IN", "OUT"}
              /\ Joins!ToConst(e) \/ e.nei \in Joins!Vars(pattern)
              /\ e.nei # i
              /\ \E n \in DOMAIN pattern.triples : e = EdgeAt(i, Triple(n)) /\ i \in {Triple(n).s, Triple(n).o}
         /\ \A n \in DOMAIN pattern.triples :
              i \in {Triple(n).s, Triple(n).o} => EdgeAt(i, Triple(n)) \in Joins!EdgesOf(i)
<1>1. Joins!EdgesOf(i) = {EdgeAt(i, Triple(n)) : n \in TriplesWith(i)}
  BY EdgesAre
<1>2. ASSUME NEW n \in DOMAIN pattern.triples, i \in {Triple(n).s, Triple(n).o},
             NEW e, e = EdgeAt(i, Triple(n))
      PROVE  /\ e.pre \in Nat /\ e.nei \in Int /\ e.type \in {"IN", "OUT"}
             /\ Joins!ToConst(e) \/ e.nei \in Joins!Vars(pattern)
             /\ e.nei # i
  <2>1. PICK s, p, o : s = Triple(n).s /\ p = Triple(n).p /\ o = Triple(n).o
    OBVIOUS
  <2>2. /\ s \in Int /\ p \in Nat /\ o \in Int /\ s # o
        /\ s >= 0 => s \in Joins!Vars(pattern)
        /\ o >= 0 => o \in Joins!Vars(pattern)
    BY <2>1, TriplesOf
  <2>3. e = IF s = i THEN [type |-> "OUT", pre |-> p, nei |-> o]
                     ELSE [type |-> "IN", pre |-> p, nei |-> s]
    BY <1>2, <2>1 DEF EdgeAt
  <2>4. s = i \/ o = i
    BY <1>2, <2>1
  <2> QED
    BY <2>2, <2>3, <2>4 DEF Joins!ToConst
<1>3. \A n \in DOMAIN pattern.triples : i \in {Triple(n).s, Triple(n).o} <=> n \in TriplesWith(i)
  BY DEF TriplesWith
<1>4. \A n \in TriplesWith(i) : n \in DOMAIN pattern.triples
  BY DEF TriplesWith
<1>5. ASSUME NEW e \in Joins!EdgesOf(i)
      PROVE  /\ e.pre \in Nat /\ e.nei \in Int /\ e.type \in {"IN", "OUT"}
             /\ Joins!ToConst(e) \/ e.nei \in Joins!Vars(pattern)
             /\ e.nei # i
             /\ \E n \in DOMAIN pattern.triples : e = EdgeAt(i, Triple(n)) /\ i \in {Triple(n).s, Triple(n).o}
  <2>1. PICK n \in TriplesWith(i) : e = EdgeAt(i, Triple(n))
    BY <1>1
  <2>2. n \in DOMAIN pattern.triples /\ i \in {Triple(n).s, Triple(n).o}
    BY <1>3, <1>4
  <2>3. /\ e.pre \in Nat /\ e.nei \in Int /\ e.type \in {"IN", "OUT"}
        /\ Joins!ToConst(e) \/ e.nei \in Joins!Vars(pattern)
        /\ e.nei # i
    BY <1>2, <2>1, <2>2
  <2> QED
    BY <2>1, <2>2, <2>3
<1> QED
  BY <1>1, <1>3, <1>5

\* An edge between variables is one of both.
LEMMA BothWays ==
  ASSUME Joins!Numbered, pattern \in Patterns, NEW i \in Joins!Vars(pattern),
         NEW e \in Joins!EdgesOf(i), ~Joins!ToConst(e)
  PROVE  \E f \in Joins!EdgesOf(e.nei) : ~Joins!ToConst(f) /\ f.nei = i
<1>1. PICK n \in DOMAIN pattern.triples : e = EdgeAt(i, Triple(n)) /\ i \in {Triple(n).s, Triple(n).o}
  BY EdgeFacts
<1>2. PICK s, o, j, f : s = Triple(n).s /\ o = Triple(n).o /\ j = e.nei /\ f = EdgeAt(j, Triple(n))
  OBVIOUS
<1>3. s # o /\ i \in {s, o} /\ j = (IF s = i THEN o ELSE s)
  BY <1>1, <1>2, TriplesOf DEF EdgeAt
<1>4. j \in {s, o} /\ f.nei = i
  BY <1>2, <1>3 DEF EdgeAt
<1>5. j \in Joins!Vars(pattern)
  BY <1>2, EdgeFacts
<1>6. f \in Joins!EdgesOf(j)
  BY <1>2, <1>4, <1>5, EdgeFacts
<1>7. ~Joins!ToConst(f)
  BY <1>4 DEF Joins!ToConst, Joins!Vars
<1> QED
  BY <1>2, <1>4, <1>6, <1>7
-----------------------------------------------------------------------------
(* The candidates                                                          *)

\* The graph has the edge e, from a variable's value v to w.
Matched(e, v, w) ==
  IF e.type = "OUT" THEN <<v, e.pre, w>> \in G ELSE <<w, e.pre, v>> \in G

\* The value v has an edge like each edge of i.
Fits(i, v) == \A e \in Joins!EdgesOf(i) : Joins!HasEdge(v, e)

LEMMA GraphFacts ==
  ASSUME Joins!Numbered
  PROVE  /\ \A t \in G : /\ t = <<t[1], t[2], t[3]>> /\ t[2] \in Nat
                         /\ t[1] \in Joins!EntityNodes /\ t[1] \in Joins!Nodes /\ t[3] \in Joins!Nodes
         /\ IsFiniteSet(Joins!Nodes)
<1>1. G \subseteq Nat \X Nat \X Nat /\ IsFiniteSet(G) /\ \A t \in G : Joins!objIDIsEntityID(t[1])
  BY SameSizes DEF Joins!Numbered
<1>2. \A t \in G : t = <<t[1], t[2], t[3]>> /\ t[2] \in Nat
  BY <1>1
<1>3. \A t \in G : {t[1], t[3]} \subseteq Joins!Nodes
  BY DEF Joins!Nodes
<1>4. IsFiniteSet(Joins!Nodes)
  <2> DEFINE ends == [t \in G |-> {t[1], t[3]}]
             E == {{t[1], t[3]} : t \in G}
  <2>1. ends \in Surjection(G, E)
    <3>1. ends \in [G -> E] /\ \A x \in E : \E t \in G : ends[t] = x
      OBVIOUS
    <3> HIDE DEF ends, E
    <3> QED
      BY <3>1 DEF Surjection
  <2>2. IsFiniteSet(E)
    BY <1>1, <2>1, FS_Surjection
  <2>3. \A x \in E : IsFiniteSet(x)
    <3> SUFFICES ASSUME NEW t \in G PROVE IsFiniteSet({t[1], t[3]})
      OBVIOUS
    <3>1. IsFiniteSet({} \cup {t[1]})
      BY FS_EmptySet, FS_AddElement
    <3>2. IsFiniteSet(({} \cup {t[1]}) \cup {t[3]})
      BY <3>1, FS_AddElement
    <3>3. ({} \cup {t[1]}) \cup {t[3]} = {t[1], t[3]}
      OBVIOUS
    <3> QED
      BY <3>2, <3>3
  <2>4. Joins!Nodes = UNION E
    BY DEF Joins!Nodes
  <2> HIDE DEF E
  <2> QED
    BY <2>2, <2>3, <2>4, FS_UNION
<1> QED
  BY <1>1, <1>2, <1>3, <1>4 DEF Joins!EntityNodes

\* A list of the store is the values at the edges to an ID.
LEMMA ListIs ==
  ASSUME Joins!Numbered, NEW e, e.pre \in Nat, NEW v, NEW w
  PROVE  /\ v \in Joins!ListOf(e, w) <=> Matched(e, v, w)
         /\ Matched(e, v, w) => v \in Joins!Nodes /\ w \in Joins!Nodes
         /\ Matched(e, v, w) /\ e.type = "OUT" => v \in Joins!EntityNodes
<1>1. ~(e.pre < 0)
  OBVIOUS
<1>2. v \in Joins!ListOf(e, w) <=>
        IF e.type = "OUT" THEN \E t \in G : t[2] = e.pre /\ t[3] = w /\ t[1] = v
                          ELSE \E t \in G : t[2] = e.pre /\ t[1] = w /\ t[3] = v
  BY <1>1 DEF Joins!ListOf
<1>3. (\E t \in G : t[2] = e.pre /\ t[3] = w /\ t[1] = v) <=> <<v, e.pre, w>> \in G
  <2>1. PICK u : u = <<v, e.pre, w>>
    OBVIOUS
  <2>2. u[1] = v /\ u[2] = e.pre /\ u[3] = w
    BY <2>1
  <2>3. \A t \in G : t[2] = e.pre /\ t[3] = w /\ t[1] = v => t = u
    BY <2>1, GraphFacts
  <2> QED
    BY <2>1, <2>2, <2>3
<1>4. (\E t \in G : t[2] = e.pre /\ t[1] = w /\ t[3] = v) <=> <<w, e.pre, v>> \in G
  <2>1. PICK u : u = <<w, e.pre, v>>
    OBVIOUS
  <2>2. u[3] = v /\ u[2] = e.pre /\ u[1] = w
    BY <2>1
  <2>3. \A t \in G : t[2] = e.pre /\ t[1] = w /\ t[3] = v => t = u
    BY <2>1, GraphFacts
  <2> QED
    BY <2>1, <2>2, <2>3
<1>5. \A t \in G : t[1] \in Joins!Nodes /\ t[3] \in Joins!Nodes /\ t[1] \in Joins!EntityNodes
  BY GraphFacts
<1>6. /\ Matched(e, v, w) => v \in Joins!Nodes /\ w \in Joins!Nodes
      /\ Matched(e, v, w) /\ e.type = "OUT" => v \in Joins!EntityNodes
  BY <1>5 DEF Matched
<1> QED
  BY <1>2, <1>3, <1>4, <1>6 DEF Matched

\* To have an edge like another one is to match it.
LEMMA HasEdgeIs ==
  ASSUME Joins!Numbered, NEW e, e.pre \in Nat, NEW v
  PROVE  Joins!HasEdge(v, e) <=>
           \E w : Matched(e, v, w) /\ (Joins!ToConst(e) => w = Joins!LitID(e.nei))
<1>1. ASSUME NEW w, Matched(e, v, w), Joins!ToConst(e) => w = Joins!LitID(e.nei)
      PROVE  Joins!HasEdge(v, e)
  <2>1. CASE e.type = "OUT"
    <3>1. PICK t \in G : t = <<v, e.pre, w>>
      BY <1>1, <2>1 DEF Matched
    <3>2. t[1] = v /\ t[2] = e.pre /\ t[3] = w
      BY <3>1
    <3> QED
      BY <1>1, <2>1, <3>2 DEF Joins!HasEdge
  <2>2. CASE e.type # "OUT"
    <3>1. PICK t \in G : t = <<w, e.pre, v>>
      BY <1>1, <2>2 DEF Matched
    <3>2. t[3] = v /\ t[2] = e.pre /\ t[1] = w
      BY <3>1
    <3> QED
      BY <1>1, <2>2, <3>2 DEF Joins!HasEdge
  <2> QED
    BY <2>1, <2>2
<1>2. ASSUME Joins!HasEdge(v, e)
      PROVE  \E w : Matched(e, v, w) /\ (Joins!ToConst(e) => w = Joins!LitID(e.nei))
  <2>1. PICK t \in G :
          /\ t[2] = e.pre
          /\ (IF e.type = "OUT" THEN t[1] ELSE t[3]) = v
          /\ Joins!ToConst(e) =>
               (IF e.type = "OUT" THEN t[3] ELSE t[1]) = Joins!LitID(e.nei)
    BY <1>2 DEF Joins!HasEdge
  <2>2. t = <<t[1], t[2], t[3]>>
    BY GraphFacts
  <2>3. CASE e.type = "OUT"
    <3>1. t[1] = v /\ t[2] = e.pre /\ (Joins!ToConst(e) => t[3] = Joins!LitID(e.nei))
      BY <2>1, <2>3
    <3>2. <<v, e.pre, t[3]>> \in G
      BY <2>2, <3>1
    <3>3. Matched(e, v, t[3])
      BY <2>3, <3>2 DEF Matched
    <3> QED
      BY <3>1, <3>3
  <2>4. CASE e.type # "OUT"
    <3>1. t[3] = v /\ t[2] = e.pre /\ (Joins!ToConst(e) => t[1] = Joins!LitID(e.nei))
      BY <2>1, <2>4
    <3>2. <<t[1], e.pre, v>> \in G
      BY <2>2, <3>1
    <3>3. Matched(e, v, t[1])
      BY <2>4, <3>2 DEF Matched
    <3> QED
      BY <3>1, <3>3
  <2> QED
    BY <2>3, <2>4
<1> QED
  BY <1>1, <1>2

\* The entities that the signature tree must return are those that fit.
LEMMA CoveredAre ==
  ASSUME NEW i
  PROVE  Joins!Covered(pattern, i) = {v \in Joins!EntityNodes : Fits(i, v)}
BY DEF Joins!Covered, Fits, Joins!EdgesOf

\* Before the literals come in: entities, all that fit among them.
Retrieved ==
  \A i \in Joins!Vars(pattern) :
    /\ candidates[i] \subseteq Joins!EntityNodes
    /\ \A v \in Joins!EntityNodes : Fits(i, v) => v \in candidates[i]

\* No candidate lacks an edge to a constant.
Filtered ==
  \A i \in Joins!Vars(pattern) : \A v \in candidates[i] :
    \A e \in Joins!Constants(i) : v \in Joins!ListOf(e, Joins!LitID(e.nei))

\* What fits is a candidate, or a literal that the search may come by, unless the
\* variable starves.
Added ==
  \A i \in Joins!Vars(pattern) : ~Joins!Starved(i) =>
    \A v \in Joins!Nodes : Fits(i, v) =>
      v \in candidates[i] \/ (Joins!isFreeLiteralVariable(i) /\ ~Joins!objIDIsEntityID(v))

CandidatesInv ==
  /\ stage \in {"retrieve", "filter_before_join"} => Retrieved
  /\ stage # "retrieve" => Filtered
  /\ stage \notin {"retrieve", "filter_before_join"} => Added

\* What is said of the pattern alone stays.
LEMMA PatternStays ==
  ASSUME pattern' = pattern
  PROVE  \A i :
           /\ Joins!EdgesOf(i)' = Joins!EdgesOf(i)
           /\ Joins!Constants(i)' = Joins!Constants(i)
           /\ Joins!isLiteralVariable(i)' <=> Joins!isLiteralVariable(i)
           /\ Joins!isFreeLiteralVariable(i)' <=> Joins!isFreeLiteralVariable(i)
           /\ Joins!Starved(i)' <=> Joins!Starved(i)
           /\ \A v : Fits(i, v)' <=> Fits(i, v)
<1> SUFFICES ASSUME NEW i
             PROVE  /\ Joins!EdgesOf(i)' = Joins!EdgesOf(i)
                    /\ Joins!Constants(i)' = Joins!Constants(i)
                    /\ Joins!isLiteralVariable(i)' <=> Joins!isLiteralVariable(i)
                    /\ Joins!isFreeLiteralVariable(i)' <=> Joins!isFreeLiteralVariable(i)
                    /\ Joins!Starved(i)' <=> Joins!Starved(i)
                    /\ \A v : Fits(i, v)' <=> Fits(i, v)
  OBVIOUS
<1>1. Joins!EdgesOf(i)' = Joins!EdgesOf(i)
  BY DEF Joins!EdgesOf
<1>2. Joins!Constants(i)' = Joins!Constants(i)
  BY <1>1 DEF Joins!Constants
<1>3. Joins!isLiteralVariable(i)' <=> Joins!isLiteralVariable(i)
  BY <1>1 DEF Joins!isLiteralVariable, Joins!InEdges
<1>4. Joins!isFreeLiteralVariable(i)' <=> Joins!isFreeLiteralVariable(i)
  BY <1>2, <1>3 DEF Joins!isFreeLiteralVariable
<1>5. Joins!Starved(i)' <=> Joins!Starved(i)
  BY <1>1, <1>2, <1>3 DEF Joins!Starved
<1>6. \A v : Fits(i, v)' <=> Fits(i, v)
  BY <1>1 DEF Fits
<1> QED
  BY <1>1, <1>2, <1>3, <1>4, <1>5, <1>6

\* So is what is said of the pattern and the candidates.
LEMMA CandidatesStay ==
  ASSUME pattern' = pattern, candidates' = candidates
  PROVE  (Retrieved' <=> Retrieved) /\ (Filtered' <=> Filtered) /\ (Added' <=> Added)
<1>1. Retrieved' <=> Retrieved
  BY PatternStays DEF Retrieved
<1>2. Filtered' <=> Filtered
  BY PatternStays DEF Filtered
<1>3. Added' <=> Added
  BY PatternStays DEF Added
<1> QED
  BY <1>1, <1>2, <1>3

\* To fit a constant edge is to be in its list.
LEMMA ConstantEdge ==
  ASSUME Joins!Numbered, pattern \in Patterns, NEW i \in Joins!Vars(pattern),
         NEW v, Fits(i, v), NEW e \in Joins!Constants(i)
  PROVE  v \in Joins!ListOf(e, Joins!LitID(e.nei))
<1>1. e \in Joins!EdgesOf(i) /\ Joins!ToConst(e)
  BY DEF Joins!Constants
<1>2. Joins!HasEdge(v, e) /\ e.pre \in Nat
  BY <1>1, EdgeFacts DEF Fits
<1>3. Matched(e, v, Joins!LitID(e.nei))
  BY <1>1, <1>2, HasEdgeIs
<1> QED
  BY <1>2, <1>3, ListIs

LEMMA FilterKeeps ==
  ASSUME Joins!Numbered, pattern \in Patterns, CandidatesInv, Joins!filter_before_join
  PROVE  CandidatesInv'
<1>1. /\ Retrieved /\ pattern' = pattern /\ stage' = "filter_before_join"
      /\ candidates' = [i \in Joins!Vars(pattern) |->
           {v \in candidates[i] : \A e \in Joins!Constants(i) :
              v \in Joins!ListOf(e, Joins!LitID(e.nei))}]
  BY DEF Joins!filter_before_join, CandidatesInv
<1>2. Filtered'
  <2> SUFFICES ASSUME NEW i \in Joins!Vars(pattern), NEW v \in candidates'[i],
                      NEW e \in Joins!Constants(i)
               PROVE  v \in Joins!ListOf(e, Joins!LitID(e.nei))
    BY <1>1, PatternStays DEF Filtered
  <2> QED
    BY <1>1
<1>3. Retrieved'
  <2> SUFFICES ASSUME NEW i \in Joins!Vars(pattern)
               PROVE  /\ candidates'[i] \subseteq Joins!EntityNodes
                      /\ \A v \in Joins!EntityNodes : Fits(i, v) => v \in candidates'[i]
    BY <1>1, PatternStays DEF Retrieved
  <2>1. /\ candidates[i] \subseteq Joins!EntityNodes
        /\ \A v \in Joins!EntityNodes : Fits(i, v) => v \in candidates[i]
    BY <1>1 DEF Retrieved
  <2>2. \A v : Fits(i, v) =>
          \A e \in Joins!Constants(i) : v \in Joins!ListOf(e, Joins!LitID(e.nei))
    BY ConstantEdge
  <2> QED
    BY <1>1, <2>1, <2>2
<1> QED
  BY <1>1, <1>2, <1>3 DEF CandidatesInv

LEMMA AddLiteralKeeps ==
  ASSUME Joins!Numbered, pattern \in Patterns, CandidatesInv, Joins!add_literal_candidate
  PROVE  CandidatesInv'
<1> DEFINE more(i) == IF Joins!isLiteralVariable(i) /\ ~Joins!isFreeLiteralVariable(i)
                        THEN {v \in Joins!Nodes : \A e \in Joins!EdgesOf(i) :
                                v \in Joins!EdgeLiterals(e)}
                        ELSE {}
<1>1. /\ Retrieved /\ Filtered /\ pattern' = pattern /\ stage' = "add_literal_candidate"
      /\ candidates' = [i \in Joins!Vars(pattern) |-> candidates[i] \cup more(i)]
  BY DEF Joins!add_literal_candidate, CandidatesInv
<1>2. ASSUME NEW i
      PROVE  \A v \in more(i) : \A e \in Joins!Constants(i) :
               v \in Joins!ListOf(e, Joins!LitID(e.nei))
  BY DEF Joins!Constants, Joins!EdgeLiterals
<1>3. ASSUME NEW i \in Joins!Vars(pattern), ~Joins!Starved(i), NEW v \in Joins!Nodes, Fits(i, v)
      PROVE  \/ v \in candidates[i] \cup more(i)
             \/ Joins!isFreeLiteralVariable(i) /\ ~Joins!objIDIsEntityID(v)
  <2>1. CASE v \in Joins!EntityNodes
    BY <1>1, <1>3, <2>1 DEF Retrieved
  <2>2. CASE v \notin Joins!EntityNodes
    <3>1. ~Joins!objIDIsEntityID(v)
      BY <2>2 DEF Joins!EntityNodes
    <3>2. ASSUME NEW e \in Joins!EdgesOf(i) PROVE e.type = "IN"
      <4>1. Joins!HasEdge(v, e) /\ e.pre \in Nat /\ e.type \in {"IN", "OUT"}
        BY <1>3, EdgeFacts DEF Fits
      <4>2. PICK w : Matched(e, v, w)
        BY <4>1, HasEdgeIs
      <4>3. e.type # "OUT"
        BY <2>2, <4>1, <4>2, ListIs
      <4> QED
        BY <4>1, <4>3
    <3>3. Joins!isLiteralVariable(i)
      BY <3>2 DEF Joins!isLiteralVariable, Joins!InEdges
    <3>4. CASE Joins!isFreeLiteralVariable(i)
      BY <3>1, <3>4
    <3>5. CASE ~Joins!isFreeLiteralVariable(i)
      <4>1. Joins!Constants(i) = Joins!EdgesOf(i)
        BY <1>3, <3>3, <3>5 DEF Joins!Starved, Joins!isFreeLiteralVariable
      <4>2. \A e \in Joins!EdgesOf(i) : Joins!ToConst(e) /\ v \in Joins!ListOf(e, Joins!LitID(e.nei))
        BY <1>3, <4>1, ConstantEdge DEF Joins!Constants
      <4>3. v \in more(i)
        BY <3>3, <3>5, <4>2 DEF Joins!EdgeLiterals
      <4> QED
        BY <4>3
    <3> QED
      BY <3>4, <3>5
  <2> QED
    BY <2>1, <2>2
<1> HIDE DEF more
<1>4. Filtered'
  <2> SUFFICES ASSUME NEW i \in Joins!Vars(pattern), NEW v \in candidates'[i],
                      NEW e \in Joins!Constants(i)
               PROVE  v \in Joins!ListOf(e, Joins!LitID(e.nei))
    BY <1>1, PatternStays DEF Filtered
  <2>1. v \in candidates[i] \/ v \in more(i)
    BY <1>1
  <2> QED
    BY <1>1, <1>2, <2>1 DEF Filtered
<1>5. Added'
  <2> SUFFICES ASSUME NEW i \in Joins!Vars(pattern), ~Joins!Starved(i),
                      NEW v \in Joins!Nodes, Fits(i, v)
               PROVE  \/ v \in candidates'[i]
                      \/ Joins!isFreeLiteralVariable(i) /\ ~Joins!objIDIsEntityID(v)
    BY <1>1, PatternStays DEF Added
  <2> QED
    BY <1>1, <1>3
<1> QED
  BY <1>1, <1>4, <1>5 DEF CandidatesInv

-----------------------------------------------------------------------------
(* The order of the search                                                 *)

\* The first d variables of an order, the neighbours of each variable, and those that
\* may be any literal.
First(order, d) == {order[k] : k \in 1 .. d}
Links == [j \in Joins!Vars(pattern) |->
            {i \in Joins!Vars(pattern) :
               \E e \in Joins!EdgesOf(j) : ~Joins!ToConst(e) /\ e.nei = i}]
FreeLiterals == {i \in Joins!Vars(pattern) : Joins!isFreeLiteralVariable(i)}

\* The start is an entity's variable or the first, and each variable after it, or
\* still to be visited, is next to one before.
OrderInv ==
  /\ stage \in {"retrieve", "filter_before_join", "add_literal_candidate"}
       => matching_order = << >> /\ cur_depth = 0
  /\ stage = "order" =>
       /\ cur_depth = 0
       /\ matching_order = << >> =>
            Len(var_stack) <= 1 /\ \A k \in 1 .. Len(var_stack) : var_stack[k] \notin FreeLiterals
       /\ matching_order # << >> =>
            \A k \in 1 .. Len(var_stack) :
              Links[var_stack[k]] \cap First(matching_order, Len(matching_order)) # {}
  /\ matching_order # << >> => matching_order[1] \notin FreeLiterals
  /\ \A d \in 2 .. Len(matching_order) :
       Links[matching_order[d]] \cap First(matching_order, d - 1) # {}

JoinTyped ==
  /\ pattern \in Patterns
  /\ stage \in {"retrieve", "filter_before_join", "add_literal_candidate", "order",
                "dfs", "undefined", "done"}
  /\ candidates \in [Joins!Vars(pattern) -> SUBSET Joins!Nodes]
  /\ var_stack \in Seq(Joins!Vars(pattern))
  /\ matching_order \in Seq(Joins!Vars(pattern))
  /\ cur_depth \in Nat

\* There is a first among the variables with the fewest candidates.
LEMMA FirstLeastIs ==
  ASSUME NEW S \in SUBSET Nat, S # {}, NEW size \in [S -> Nat]
  PROVE  Joins!FirstLeast(S, size) \in S
<1> DEFINE T == {size[i] : i \in S}
<1>1. T \in SUBSET Nat /\ T # {}
  OBVIOUS
<1> HIDE DEF T
<1>2. PICK x \in T : \A y \in T : x <= y
  BY <1>1, LeastNatural
<1> DEFINE U == {i \in S : size[i] = x}
<1>3. U \in SUBSET Nat /\ U # {}
  BY <1>2 DEF T
<1> HIDE DEF U
<1>4. PICK u \in U : \A y \in U : u <= y
  BY <1>3, LeastNatural
<1>5. u \in S /\ size[u] = x
  BY <1>4 DEF U
<1>6. ASSUME NEW j \in S PROVE size[u] < size[j] \/ (size[u] = size[j] /\ u <= j)
  <2>1. x <= size[j] /\ size[j] \in Nat /\ x \in Nat
    BY <1>1, <1>2 DEF T
  <2>2. size[j] = x => u <= j
    BY <1>4 DEF U
  <2> QED
    BY <1>5, <2>1, <2>2
<1> QED
  BY <1>5, <1>6 DEF Joins!FirstLeast

\* The search does not start at a variable whose literals come in during the search.
LEMMA StartIs ==
  ASSUME Joins!Numbered, JoinTyped
  PROVE  /\ Joins!getVarID_FirstProcessWhenJoin \in Joins!Vars(pattern)
         /\ Joins!getVarID_FirstProcessWhenJoin \notin FreeLiterals
<1> DEFINE S == {i \in Joins!Vars(pattern) :
                   ~Joins!isLiteralVariable(i) /\ Len(Joins!Edges(pattern, i)) # 1}
           size == [i \in S |-> Joins!Cardinality(candidates[i])]
<1>1. Joins!getVarID_FirstProcessWhenJoin = IF S = {} THEN 0 ELSE Joins!FirstLeast(S, size)
  BY DEF Joins!getVarID_FirstProcessWhenJoin
<1>2. \A i \in S : i \in Joins!Vars(pattern) /\ i \notin FreeLiterals
  BY DEF Joins!isFreeLiteralVariable, FreeLiterals
<1>3. S \in SUBSET Nat
  BY DEF Joins!Vars
<1>4. size \in [S -> Nat]
  <2> SUFFICES ASSUME NEW i \in Joins!Vars(pattern)
               PROVE  Joins!Cardinality(candidates[i]) \in Nat
    OBVIOUS
  <2>1. candidates[i] \in SUBSET Joins!Nodes
    BY DEF JoinTyped
  <2>2. IsFiniteSet(candidates[i])
    BY <2>1, GraphFacts, FS_Subset
  <2> QED
    BY <2>2, FS_CardinalityType, SameSizes
<1> HIDE DEF S, size
<1>5. CASE S # {}
  BY <1>1, <1>2, <1>3, <1>4, <1>5, FirstLeastIs
<1>6. CASE S = {}
  <2>1. PICK t : t = Triple(1)
    OBVIOUS
  <2>2. /\ 1 \in DOMAIN pattern.triples /\ pattern \in Patterns
        /\ (IF t.s >= 0 THEN t.s ELSE t.o) = 0
        /\ t.s \in Int /\ t.o \in Int
        /\ t.s >= 0 => t.s \in Joins!Vars(pattern)
        /\ t.o >= 0 => t.o \in Joins!Vars(pattern)
    BY <2>1, TriplesOf DEF JoinTyped
  <2>3. 0 \in Joins!Vars(pattern) /\ 0 \in {t.s, t.o}
    BY <2>2
  <2>4. EdgeAt(0, t) \in Joins!EdgesOf(0)
    BY <2>1, <2>2, <2>3, EdgeFacts
  <2>5. CASE t.s >= 0
    <3>1. EdgeAt(0, t).type = "OUT"
      BY <2>2, <2>5 DEF EdgeAt
    <3> QED
      BY <1>1, <1>6, <2>3, <2>4, <3>1
         DEF FreeLiterals, Joins!isFreeLiteralVariable, Joins!isLiteralVariable, Joins!InEdges
  <2>6. CASE ~(t.s >= 0)
    <3>1. EdgeAt(0, t).nei = t.s /\ t.s < 0
      BY <2>2, <2>6 DEF EdgeAt
    <3>2. EdgeAt(0, t) \in Joins!Constants(0)
      BY <2>4, <3>1 DEF Joins!Constants, Joins!ToConst
    <3> QED
      BY <1>1, <1>6, <2>3, <3>2 DEF FreeLiterals, Joins!isFreeLiteralVariable
  <2> QED
    BY <2>5, <2>6
<1> QED
  BY <1>5, <1>6

\* What is pushed is next to the variable.
LEMMA UnvisitedAre ==
  ASSUME Joins!Numbered, JoinTyped, NEW i \in Joins!Vars(pattern)
  PROVE  /\ Joins!Unvisited(i) \in Seq(Joins!Vars(pattern))
         /\ \A k \in 1 .. Len(Joins!Unvisited(i)) :
              i \in Links[Joins!Unvisited(i)[k]]
<1> DEFINE E == Joins!Edges(pattern, i)
           S == {k \in DOMAIN E : ~Joins!ToConst(E[k]) /\ E[k].nei \notin Joins!Range(matching_order) \cup {i}}
           at == Joins!Sorted(S)
           new == Joins!Unvisited(i)
<1>1. pattern \in Patterns
  BY DEF JoinTyped
<1>2. PICK K \in Nat : DOMAIN E = 1 .. K
  BY <1>1, EdgesAre
<1>3. new = [n \in DOMAIN at |-> E[at[n]].nei]
  BY DEF Joins!Unvisited
<1>4. S \in SUBSET (1 .. K) /\ \A k \in S : ~Joins!ToConst(E[k])
  BY <1>2
<1>5. \A k \in 1 .. K : E[k] \in Joins!EdgesOf(i)
  BY <1>2 DEF Joins!EdgesOf, Joins!Range
<1> HIDE DEF S, E
<1>6. S \in SUBSET Int /\ IsFiniteSet(S)
  <2>1. IsFiniteSet(1 .. K)
    BY IntervalSize
  <2>2. IsFiniteSet(S)
    BY <1>4, <2>1, FS_Subset
  <2> QED
    BY <1>4, <2>2
<1>7. PICK L \in Nat : at \in [1 .. L -> S]
  BY <1>6, SortedIs
<1> HIDE DEF at, new
<1>8. ASSUME NEW n \in 1 .. L
      PROVE  new[n] \in Joins!Vars(pattern) /\ i \in Links[new[n]]
  <2>1. PICK e : e = E[at[n]]
    OBVIOUS
  <2>2. e \in Joins!EdgesOf(i) /\ ~Joins!ToConst(e) /\ new[n] = e.nei
    BY <1>3, <1>4, <1>5, <1>7, <2>1
  <2>3. new[n] \in Joins!Vars(pattern)
    BY <1>1, <2>2, EdgeFacts
  <2>4. \E f \in Joins!EdgesOf(e.nei) : ~Joins!ToConst(f) /\ f.nei = i
    BY <1>1, <2>2, BothWays
  <2> QED
    BY <2>2, <2>3, <2>4 DEF Links
<1>9. new \in [1 .. L -> Joins!Vars(pattern)]
  BY <1>3, <1>7, <1>8
<1>10. new \in Seq(Joins!Vars(pattern)) /\ Len(new) = L
  BY <1>9
<1> QED
  BY <1>8, <1>10 DEF new

LEMMA LinksStay ==
  ASSUME pattern' = pattern
  PROVE  Links' = Links /\ FreeLiterals' = FreeLiterals
BY PatternStays DEF Links, FreeLiterals

LEMMA PushStartKeeps ==
  ASSUME Joins!Numbered, JoinTyped, OrderInv, Joins!push_start
  PROVE  JoinTyped' /\ OrderInv'
<1> DEFINE start == Joins!getVarID_FirstProcessWhenJoin
<1>1. /\ matching_order = << >> /\ cur_depth = 0 /\ stage' = "order"
      /\ pattern' = pattern /\ candidates' = candidates
      /\ matching_order' = matching_order /\ cur_depth' = cur_depth
      /\ var_stack' = <<start>>
  BY DEF Joins!push_start, OrderInv
<1>2. start \in Joins!Vars(pattern) /\ start \notin FreeLiterals
  BY StartIs
<1>3. Links' = Links /\ FreeLiterals' = FreeLiterals
  BY <1>1, LinksStay
<1> HIDE DEF start
<1>4. JoinTyped'
  BY <1>1, <1>2 DEF JoinTyped
<1>5. Len(matching_order') = 0 /\ Len(var_stack') = 1 /\ var_stack'[1] = start
  BY <1>1
<1>6. OrderInv'
  BY <1>1, <1>2, <1>3, <1>5 DEF OrderInv
<1> QED
  BY <1>4, <1>6

LEMMA VisitKeeps ==
  ASSUME Joins!Numbered, JoinTyped, OrderInv, Joins!visit
  PROVE  JoinTyped' /\ OrderInv'
<1> DEFINE V == Joins!Vars(pattern)
           i == Joins!Last(var_stack)
           front == Joins!Front(var_stack)
           new == Joins!Unvisited(i)
           st == var_stack
           o == matching_order
<1>1. /\ pattern \in Patterns /\ st \in Seq(V) /\ o \in Seq(V) /\ cur_depth = 0
      /\ candidates \in [V -> SUBSET Joins!Nodes]
      /\ o = << >> => Len(st) <= 1 /\ \A k \in 1 .. Len(st) : st[k] \notin FreeLiterals
      /\ o # << >> => \A k \in 1 .. Len(st) : Links[st[k]] \cap First(o, Len(o)) # {}
      /\ o # << >> => o[1] \notin FreeLiterals
      /\ \A d \in 2 .. Len(o) : Links[o[d]] \cap First(o, d - 1) # {}
      /\ stage = "order" /\ st # << >>
  BY DEF JoinTyped, OrderInv, Joins!visit
<1>2. pattern' = pattern /\ candidates' = candidates /\ cur_depth' = cur_depth
  BY DEF Joins!visit
<1>3. Links' = Links /\ FreeLiterals' = FreeLiterals
  BY <1>2, LinksStay
<1>4. CASE Len(o) < pattern.var_num
  <2>1. st' = front \o new /\ o' = Append(o, i) /\ stage' = stage
    BY <1>4 DEF Joins!visit
  <2>2. PICK m \in Nat, n \in Nat : n = Len(st) /\ m = Len(o)
    BY <1>1, LenProperties
  <2>3. n > 0 /\ i = st[n] /\ i \in V
    BY <1>1, <2>2, EmptySeq DEF Joins!Last
  <2>4. /\ front \in Seq(V) /\ Len(front) = n - 1
        /\ \A k \in 1 .. n - 1 : front[k] = st[k]
    <3>1. \A k \in 1 .. n - 1 : st[k] \in V
      BY <1>1, <2>2
    <3>2. 1 \in Int /\ n - 1 \in Int
      BY <2>3
    <3>3. PICK w : w = n - 1
      OBVIOUS
    <3>4. front = SubSeq(st, 1, w)
      BY <2>2, <3>3 DEF Joins!Front
    <3>5. /\ SubSeq(st, 1, w) \in Seq(V) /\ Len(SubSeq(st, 1, w)) = IF 1 <= w THEN w - 1 + 1 ELSE 0
          /\ \A k \in 1 .. w - 1 + 1 : SubSeq(st, 1, w)[k] = st[1 + k - 1]
      BY <3>1, <3>2, <3>3, SubSeqProperties
    <3> HIDE DEF front, st
    <3> QED
      BY <2>3, <3>3, <3>4, <3>5
  <2>5. /\ new \in Seq(V)
        /\ \A k \in 1 .. Len(new) : i \in Links[new[k]]
    BY <2>3, UnvisitedAre
  <2> HIDE DEF front, new, i, st, o
  <2>6. /\ front \o new \in Seq(V) /\ Len(front \o new) = n - 1 + Len(new)
        /\ \A k \in 1 .. n - 1 + Len(new) :
             (front \o new)[k] = IF k <= n - 1 THEN front[k] ELSE new[k - (n - 1)]
    <3>1. /\ front \o new \in Seq(V) /\ Len(front \o new) = Len(front) + Len(new)
          /\ \A k \in 1 .. Len(front) + Len(new) :
               (front \o new)[k] = IF k <= Len(front) THEN front[k] ELSE new[k - Len(front)]
      BY <2>4, <2>5, ConcatProperties
    <3> QED
      BY <2>4, <3>1
  <2>7. /\ Append(o, i) \in Seq(V) /\ Len(Append(o, i)) = m + 1
        /\ \A k \in 1 .. m : Append(o, i)[k] = o[k]
        /\ Append(o, i)[m + 1] = i
    BY <1>1, <2>2, <2>3, AppendProperties
  <2>8. First(o', m + 1) = First(o, m) \cup {i} /\ \A d \in 0 .. m : First(o', d) = First(o, d)
    BY <2>1, <2>2, <2>7 DEF First
  <2>9. ASSUME NEW k \in 1 .. Len(st')
        PROVE  Links[st'[k]] \cap First(o', m + 1) # {}
    <3>1. CASE k <= n - 1
      <4>1. st'[k] = st[k] /\ o # << >>
        BY <1>1, <2>1, <2>2, <2>4, <2>6, <2>9, <3>1
      <4>2. Links[st[k]] \cap First(o, m) # {}
        BY <1>1, <2>2, <2>3, <3>1, <4>1
      <4> QED
        BY <2>8, <4>1, <4>2
    <3>2. CASE ~(k <= n - 1)
      <4>1. st'[k] = new[k - (n - 1)] /\ k - (n - 1) \in 1 .. Len(new)
        BY <2>1, <2>2, <2>3, <2>5, <2>6, <2>9, <3>2, LenProperties
      <4> QED
        BY <2>5, <2>8, <4>1
    <3> QED
      BY <3>1, <3>2
  <2>10. o'[1] \notin FreeLiterals
    <3>1. CASE m = 0
      <4>1. o = << >>
        BY <1>1, <2>2, <3>1, EmptySeq
      <4>2. n <= 1
        BY <1>1, <2>2, <4>1
      <4>3. n = 1
        BY <2>3, <4>2
      <4>4. i \notin FreeLiterals
        BY <1>1, <2>2, <2>3, <4>1, <4>3
      <4> QED
        BY <2>1, <2>7, <3>1, <4>4
    <3>2. CASE m # 0
      <4>1. o # << >> /\ o'[1] = o[1]
        BY <2>1, <2>2, <2>7, <3>2
      <4> QED
        BY <1>1, <4>1
    <3> QED
      BY <3>1, <3>2
  <2>11. ASSUME NEW d \in 2 .. m + 1
         PROVE  Links[o'[d]] \cap First(o', d - 1) # {}
    <3>1. CASE d <= m
      <4>1. Links[o[d]] \cap First(o, d - 1) # {} /\ o'[d] = o[d] /\ First(o', d - 1) = First(o, d - 1)
        BY <1>1, <2>1, <2>2, <2>7, <2>8, <3>1
      <4> QED
        BY <4>1
    <3>2. CASE d = m + 1
      <4>1. o # << >> /\ o'[d] = i /\ First(o', d - 1) = First(o, m)
        BY <2>1, <2>2, <2>7, <2>8, <3>2
      <4>2. Links[st[n]] \cap First(o, m) # {}
        BY <1>1, <2>2, <2>3, <4>1
      <4> QED
        BY <2>3, <4>1, <4>2
    <3> QED
      BY <2>2, <3>1, <3>2
  <2>12. o' # << >> /\ Len(o') = m + 1 /\ o' \in Seq(V) /\ st' \in Seq(V)
    BY <2>1, <2>2, <2>6, <2>7
  <2>13. JoinTyped'
    BY <1>1, <1>2, <2>1, <2>12 DEF JoinTyped, V, st, o
  <2>14. OrderInv'
    BY <1>1, <1>2, <1>3, <2>1, <2>9, <2>10, <2>11, <2>12 DEF OrderInv, st, o
  <2> QED
    BY <2>13, <2>14
<1>5. CASE ~(Len(o) < pattern.var_num)
  <2>1. var_stack' = var_stack /\ matching_order' = matching_order /\ stage' = "undefined"
    BY <1>5 DEF Joins!visit
  <2>2. JoinTyped'
    BY <1>1, <1>2, <2>1 DEF JoinTyped
  <2>3. OrderInv'
    BY <1>1, <1>2, <1>3, <2>1 DEF OrderInv
  <2> QED
    BY <2>2, <2>3
<1> QED
  BY <1>4, <1>5

-----------------------------------------------------------------------------
(* The search                                                              *)

\* What the search holds at a depth: every assignment to the first d variables each
\* value of which is among those that the ones before it leave.
Found(d) ==
  {m \in [First(matching_order, d) -> Joins!Nodes] :
     \A k \in 1 .. d : m[matching_order[k]] \in Joins!LocalCands(k, m)}

Answered ==
  /\ results \subseteq Joins!Homomorphisms
  /\ (\A i \in Joins!Vars(pattern) : ~Joins!Starved(i)) => results = Joins!Homomorphisms

SearchInv ==
  /\ stage = "dfs" =>
       Joins!FitsItsArray /\ cur_depth <= pattern.var_num /\ results = Found(cur_depth)
  /\ stage = "done" => Answered

\* An order that fits its array has each variable once.
LEMMA OrderIs ==
  ASSUME Joins!Numbered, JoinTyped, Joins!FitsItsArray
  PROVE  /\ pattern.var_num \in Nat /\ 0 \in Joins!Vars(pattern) /\ pattern.var_num > 0
         /\ Len(matching_order) = pattern.var_num
         /\ \A k \in 1 .. pattern.var_num : matching_order[k] \in Joins!Vars(pattern)
         /\ \A k, h \in 1 .. pattern.var_num : matching_order[k] = matching_order[h] => k = h
         /\ \A i \in Joins!Vars(pattern) : \E k \in 1 .. pattern.var_num : matching_order[k] = i
<1> DEFINE n == pattern.var_num
           o == matching_order
           V == Joins!Vars(pattern)
<1>1. n \in Nat /\ o \in Seq(V) /\ Len(o) = n /\ Joins!Range(o) = V
  BY TriplesOf DEF JoinTyped, Joins!FitsItsArray
<1>2. V = 0 .. n - 1
  BY DEF Joins!Vars
<1>3. 0 \in V
  BY StartIs, <1>1, <1>2
<1>4. n > 0
  BY <1>1, <1>2, <1>3
<1>5. DOMAIN o = 1 .. n /\ \A k \in 1 .. n : o[k] \in V
  BY <1>1
<1>6. \A i \in V : \E k \in 1 .. n : o[k] = i
  BY <1>1, <1>5 DEF Joins!Range
<1>7. Cardinality(1 .. n) = n /\ IsFiniteSet(1 .. n) /\ Cardinality(V) = n
  <2>1. 0 \in Int /\ n - 1 \in Int
    BY <1>1
  <2>2. Cardinality(0 .. n - 1) = IF 0 > n - 1 THEN 0 ELSE n - 1 - 0 + 1
    BY <2>1, FS_Interval
  <2> HIDE DEF n
  <2>3. Cardinality(0 .. n - 1) = n
    BY <1>1, <1>4, <2>2
  <2> QED
    BY <1>1, <1>2, <2>3, IntervalSize
<1>8. o \in [1 .. n -> V]
  BY <1>1, <1>5
<1> HIDE DEF o, n, V
<1>9. o \in Surjection(1 .. n, V)
  BY <1>6, <1>8 DEF Surjection
<1>10. o \in Injection(1 .. n, V)
  BY <1>7, <1>9, FS_SurjSameCardinalityImpliesInj
<1>11. \A k, h \in 1 .. n : o[k] = o[h] => k = h
  BY <1>10 DEF Injection, IsInjective
<1> QED
  BY <1>1, <1>3, <1>4, <1>5, <1>6, <1>11 DEF o, n, V

\* What a variable may be depends on those before it only, and is in the data.
LEMMA LocalFacts ==
  ASSUME JoinTyped, NEW k \in 1 .. Len(matching_order), NEW m, NEW q,
         \A i \in First(matching_order, k - 1) : m[i] = q[i]
  PROVE  /\ Joins!LocalCands(k, m) = Joins!LocalCands(k, q)
         /\ Joins!LocalCands(k, m) \subseteq Joins!Nodes
<1>1. \A e \in Joins!BN(k) : m[e.nei] = q[e.nei]
  BY DEF Joins!BN, First
<1>2. Joins!LocalCands(k, m) = Joins!LocalCands(k, q)
  <2> DEFINE i == matching_order[k]
             local(a) == {v \in Joins!Nodes : Joins!BN(k) # {} /\
                            \A e \in Joins!BN(k) : v \in Joins!ListOf(e, a[e.nei])}
             cands(a) == IF k = 1 THEN candidates[i]
                         ELSE {v \in local(a) :
                                 \/ v \in candidates[i]
                                 \/ Joins!isFreeLiteralVariable(i) /\ ~Joins!objIDIsEntityID(v)}
  <2>1. Joins!LocalCands(k, m) = cands(m) /\ Joins!LocalCands(k, q) = cands(q)
    BY DEF Joins!LocalCands
  <2>2. local(m) = local(q)
    BY <1>1
  <2> HIDE DEF local
  <2> QED
    BY <2>1, <2>2
<1>3. matching_order[k] \in Joins!Vars(pattern)
  BY DEF JoinTyped
<1>4. Joins!LocalCands(k, m) \subseteq Joins!Nodes
  BY <1>3 DEF Joins!LocalCands, JoinTyped
<1> QED
  BY <1>2, <1>4

LEMMA FoundStays ==
  ASSUME pattern' = pattern, candidates' = candidates, matching_order' = matching_order
  PROVE  \A d : Found(d)' = Found(d)
<1>1. \A k : Joins!BN(k)' = Joins!BN(k)
  BY PatternStays DEF Joins!BN
<1>2. \A k, m : Joins!LocalCands(k, m)' = Joins!LocalCands(k, m)
  <2> SUFFICES ASSUME NEW k, NEW m
               PROVE  Joins!LocalCands(k, m)' = Joins!LocalCands(k, m)
    OBVIOUS
  <2>1. Joins!BN(k)' = Joins!BN(k)
    BY <1>1
  <2>2. \A i : Joins!isFreeLiteralVariable(i)' <=> Joins!isFreeLiteralVariable(i)
    BY PatternStays
  <2> QED
    BY <2>1, <2>2 DEF Joins!LocalCands
<1> QED
  BY <1>2 DEF Found, First

LEMMA StartSearchKeeps ==
  ASSUME Joins!Numbered, JoinTyped, OrderInv, Joins!start_search
  PROVE  SearchInv'
<1>1. /\ stage = "order" /\ cur_depth = 0 /\ cur_depth' = 0 /\ pattern' = pattern
      /\ candidates' = candidates /\ matching_order' = matching_order
  BY DEF Joins!start_search, OrderInv
<1>2. CASE Joins!FitsItsArray
  <2>1. stage' = "dfs" /\ results' = {<< >>}
    BY <1>2 DEF Joins!start_search
  <2>2. Joins!FitsItsArray'
    BY <1>1, <1>2 DEF Joins!FitsItsArray
  <2>3. pattern.var_num \in Nat
    BY TriplesOf DEF JoinTyped
  <2>4. Found(0) = {<< >>}
    <3>1. First(matching_order, 0) = {}
      BY DEF First
    <3>2. \A m : m \in [{} -> Joins!Nodes] <=> m = << >>
      <4>1. {} = 1 .. 0 /\ 0 \in Nat
        OBVIOUS
      <4>2. ASSUME NEW m \in [1 .. 0 -> Joins!Nodes] PROVE m = << >>
        <5>1. m \in Seq(Joins!Nodes) /\ Len(m) = 0
          OBVIOUS
        <5> QED
          BY <5>1, EmptySeq
      <4>3. << >> \in [1 .. 0 -> Joins!Nodes]
        OBVIOUS
      <4> QED
        BY <4>1, <4>2, <4>3
    <3> QED
      BY <3>1, <3>2 DEF Found
  <2>5. results' = Found(cur_depth)'
    BY <1>1, <2>1, <2>4, FoundStays
  <2> QED
    BY <1>1, <2>1, <2>2, <2>3, <2>5 DEF SearchInv
<1>3. CASE ~Joins!FitsItsArray
  <2>1. stage' = "undefined"
    BY <1>3 DEF Joins!start_search
  <2> QED
    BY <2>1 DEF SearchInv
<1> QED
  BY <1>2, <1>3

\* One depth more.
LEMMA FirstMore ==
  ASSUME Joins!Numbered, JoinTyped, Joins!FitsItsArray, NEW d \in Nat, d < pattern.var_num
  PROVE  /\ First(matching_order, d + 1) = First(matching_order, d) \cup {matching_order[d + 1]}
         /\ matching_order[d + 1] \notin First(matching_order, d)
         /\ \A k \in 1 .. d + 1 : First(matching_order, k - 1) \subseteq First(matching_order, d)
         /\ \A k \in 1 .. d : matching_order[k] \in First(matching_order, d)
<1>1. /\ pattern.var_num \in Nat
      /\ \A k, h \in 1 .. pattern.var_num : matching_order[k] = matching_order[h] => k = h
  BY OrderIs
<1> QED
  BY <1>1 DEF First

LEMMA AssignIs ==
  ASSUME Joins!Numbered, JoinTyped, Joins!FitsItsArray, NEW d \in Nat, d < pattern.var_num,
         NEW m \in [First(matching_order, d) -> Joins!Nodes], NEW v \in Joins!Nodes,
         NEW q, q = Joins!Assign(m, d + 1, v)
  PROVE  /\ q \in [First(matching_order, d + 1) -> Joins!Nodes]
         /\ q[matching_order[d + 1]] = v
         /\ \A i \in First(matching_order, d) : q[i] = m[i]
<1>1. /\ First(matching_order, d + 1) = First(matching_order, d) \cup {matching_order[d + 1]}
      /\ matching_order[d + 1] \notin First(matching_order, d)
  BY FirstMore
<1>2. DOMAIN m = First(matching_order, d)
  OBVIOUS
<1>3. q = [i \in First(matching_order, d + 1) |-> IF i = matching_order[d + 1] THEN v ELSE m[i]]
  BY <1>1, <1>2 DEF Joins!Assign
<1> QED
  BY <1>1, <1>3

LEMMA DfsKeeps ==
  ASSUME Joins!Numbered, JoinTyped, SearchInv, Joins!dfs
  PROVE  SearchInv'
<1> DEFINE d == cur_depth
           n == pattern.var_num
           o == matching_order
<1>1. /\ stage = "dfs" /\ Joins!FitsItsArray /\ results = Found(d) /\ d < n
      /\ d \in Nat /\ n \in Nat /\ Len(o) = n
  BY OrderIs DEF Joins!dfs, SearchInv, JoinTyped
<1>2. /\ cur_depth' = d + 1 /\ stage' = stage /\ pattern' = pattern
      /\ candidates' = candidates /\ matching_order' = matching_order
      /\ results' = UNION {{Joins!Assign(m, d + 1, v) : v \in Joins!LocalCands(d + 1, m)} :
                             m \in results}
  BY DEF Joins!dfs
<1>3. d + 1 \in 1 .. n
  BY <1>1
<1>4. /\ First(o, d + 1) = First(o, d) \cup {o[d + 1]}
      /\ o[d + 1] \notin First(o, d)
      /\ \A k \in 1 .. d + 1 : First(o, k - 1) \subseteq First(o, d)
      /\ \A k \in 1 .. d : o[k] \in First(o, d)
  BY <1>1, FirstMore
<1>5. \A q : q \in results' <=>
        \E m \in Found(d) : \E v \in Joins!LocalCands(d + 1, m) : q = Joins!Assign(m, d + 1, v)
  BY <1>1, <1>2
<1>6. ASSUME NEW k \in 1 .. d + 1, NEW m, NEW q, \A i \in First(o, d) : m[i] = q[i]
      PROVE  /\ Joins!LocalCands(k, m) = Joins!LocalCands(k, q)
             /\ Joins!LocalCands(k, m) \subseteq Joins!Nodes
  <2>1. k \in 1 .. Len(o) /\ \A i \in First(o, k - 1) : m[i] = q[i]
    BY <1>1, <1>4, <1>6
  <2> QED
    BY <2>1, LocalFacts
<1>7. ASSUME NEW m \in Found(d), NEW v \in Joins!LocalCands(d + 1, m), NEW q,
             q = Joins!Assign(m, d + 1, v)
      PROVE  q \in Found(d + 1)
  <2>1. /\ m \in [First(o, d) -> Joins!Nodes]
        /\ \A k \in 1 .. d : m[o[k]] \in Joins!LocalCands(k, m)
    BY DEF Found
  <2>2. v \in Joins!Nodes
    BY <1>1, <1>6
  <2>3. /\ q \in [First(o, d + 1) -> Joins!Nodes] /\ q[o[d + 1]] = v
        /\ \A i \in First(o, d) : q[i] = m[i]
    BY <1>1, <1>7, <2>1, <2>2, AssignIs
  <2>4. \A k \in 1 .. d + 1 : Joins!LocalCands(k, q) = Joins!LocalCands(k, m)
    BY <1>6, <2>3
  <2>5. ASSUME NEW k \in 1 .. d + 1 PROVE q[o[k]] \in Joins!LocalCands(k, q)
    <3>1. CASE k = d + 1
      BY <2>3, <2>4, <3>1
    <3>2. CASE k # d + 1
      <4>1. k \in 1 .. d
        BY <1>1, <3>2
      <4> QED
        BY <1>4, <2>1, <2>3, <2>4, <4>1
    <3> QED
      BY <3>1, <3>2
  <2> QED
    BY <2>3, <2>5 DEF Found
<1>8. ASSUME NEW q \in Found(d + 1)
      PROVE  \E m \in Found(d) : \E v \in Joins!LocalCands(d + 1, m) : q = Joins!Assign(m, d + 1, v)
  <2> DEFINE m == [i \in First(o, d) |-> q[i]]
             v == q[o[d + 1]]
  <2>1. /\ q \in [First(o, d + 1) -> Joins!Nodes]
        /\ \A k \in 1 .. d + 1 : q[o[k]] \in Joins!LocalCands(k, q)
    BY DEF Found
  <2>2. m \in [First(o, d) -> Joins!Nodes] /\ \A i \in First(o, d) : m[i] = q[i]
    BY <1>4, <2>1
  <2>3. v \in Joins!Nodes
    BY <1>4, <2>1
  <2> HIDE DEF m
  <2>4. \A k \in 1 .. d + 1 : Joins!LocalCands(k, m) = Joins!LocalCands(k, q)
    BY <1>6, <2>2
  <2>5. v \in Joins!LocalCands(d + 1, m)
    BY <1>1, <2>1, <2>4
  <2>6. \A k \in 1 .. d : k \in 1 .. d + 1
    BY <1>1
  <2>7. m \in Found(d)
    BY <1>4, <2>1, <2>2, <2>4, <2>6 DEF Found
  <2>8. PICK w : w = Joins!Assign(m, d + 1, v)
    OBVIOUS
  <2>9. /\ w \in [First(o, d + 1) -> Joins!Nodes] /\ w[o[d + 1]] = v
        /\ \A i \in First(o, d) : w[i] = m[i]
    BY <1>1, <2>2, <2>3, <2>8, AssignIs
  <2>10. \A i \in First(o, d + 1) : w[i] = q[i]
    BY <1>4, <2>2, <2>9
  <2>11. w = q
    BY <2>1, <2>9, <2>10
  <2> QED
    BY <2>5, <2>7, <2>8, <2>11
<1> HIDE DEF d, n, o
<1>9. results' = Found(d + 1)
  BY <1>5, <1>7, <1>8
<1>10. results' = Found(cur_depth)'
  BY <1>2, <1>9, FoundStays
<1>11. Joins!FitsItsArray'
  BY <1>1, <1>2 DEF Joins!FitsItsArray
<1>12. cur_depth' <= pattern'.var_num
  BY <1>1, <1>2, <1>3 DEF n
<1> QED
  BY <1>1, <1>2, <1>10, <1>11, <1>12 DEF SearchInv

-----------------------------------------------------------------------------
(* What is found                                                           *)

\* The value of a term, and that the n-th triple is in the data.
Term(m, x) == IF x < 0 THEN Joins!LitID(x) ELSE m[x]
Holds(m, n) == <<Term(m, Triple(n).s), Triple(n).p, Term(m, Triple(n).o)>> \in G

LEMMA HomomorphismsAre ==
  Joins!Homomorphisms =
    {m \in [Joins!Vars(pattern) -> Joins!Nodes] : \A n \in DOMAIN pattern.triples : Holds(m, n)}
BY DEF Joins!Homomorphisms, Holds, Term, Triple

\* A triple is in the data when it is from the side of one of its variables.
LEMMA EdgeHolds ==
  ASSUME Joins!Numbered, pattern \in Patterns, NEW i \in Joins!Vars(pattern), NEW m,
         NEW n \in DOMAIN pattern.triples, i \in {Triple(n).s, Triple(n).o},
         NEW e, e = EdgeAt(i, Triple(n))
  PROVE  Holds(m, n) <=> Matched(e, m[i], Term(m, e.nei))
<1>1. PICK s, p, o : s = Triple(n).s /\ p = Triple(n).p /\ o = Triple(n).o
  OBVIOUS
<1>2. s = i \/ o = i
  BY <1>1
<1>3. ~(i < 0)
  BY DEF Joins!Vars
<1>4. Term(m, i) = m[i]
  BY <1>3 DEF Term
<1>5. CASE s = i
  <2>1. e.type = "OUT" /\ e.pre = p /\ e.nei = o
    BY <1>1, <1>5 DEF EdgeAt
  <2> QED
    BY <1>1, <1>4, <1>5, <2>1 DEF Holds, Matched
<1>6. CASE s # i
  <2>1. e.type # "OUT" /\ e.pre = p /\ e.nei = s
    BY <1>1, <1>6 DEF EdgeAt
  <2> QED
    BY <1>1, <1>2, <1>4, <1>6, <2>1 DEF Holds, Matched
<1> QED
  BY <1>5, <1>6

\* Whatever the search finds is a match: of an edge between variables, the later one
\* was looked up; of an edge to a constant, the candidates were.
LEMMA FoundMatches ==
  ASSUME Joins!Numbered, JoinTyped, Joins!FitsItsArray, Filtered
  PROVE  Found(pattern.var_num) \subseteq Joins!Homomorphisms
<1> DEFINE N == pattern.var_num
           o == matching_order
           V == Joins!Vars(pattern)
<1>1. /\ N \in Nat /\ pattern \in Patterns
      /\ \A k \in 1 .. N : o[k] \in V
      /\ \A k, h \in 1 .. N : o[k] = o[h] => k = h
      /\ \A i \in V : \E k \in 1 .. N : o[k] = i
  BY OrderIs DEF JoinTyped
<1>2. First(o, N) = V
  BY <1>1 DEF First
<1> SUFFICES ASSUME NEW m \in Found(N) PROVE m \in Joins!Homomorphisms
  OBVIOUS
<1>3. /\ m \in [V -> Joins!Nodes]
      /\ \A k \in 1 .. N : m[o[k]] \in Joins!LocalCands(k, m)
  BY <1>2 DEF Found
<1>4. ASSUME NEW i \in V, NEW e \in Joins!EdgesOf(i), Joins!ToConst(e)
      PROVE  Matched(e, m[i], Term(m, e.nei))
  <2>1. PICK k \in 1 .. N : o[k] = i
    BY <1>1
  <2>2. e \in Joins!Constants(i)
    BY <1>4 DEF Joins!Constants
  <2>3. ~Joins!isFreeLiteralVariable(i)
    BY <2>2 DEF Joins!isFreeLiteralVariable
  <2>4. m[i] \in Joins!LocalCands(k, m)
    BY <1>3, <2>1
  <2>5. m[i] \in candidates[i]
    BY <2>1, <2>3, <2>4 DEF Joins!LocalCands
  <2>6. m[i] \in Joins!ListOf(e, Joins!LitID(e.nei))
    BY <2>2, <2>5 DEF Filtered
  <2>7. e.pre \in Nat
    BY <1>1, EdgeFacts
  <2>8. Matched(e, m[i], Joins!LitID(e.nei))
    BY <2>6, <2>7, ListIs
  <2> QED
    BY <1>4, <2>8 DEF Term, Joins!ToConst
<1>5. ASSUME NEW k \in 1 .. N, NEW h \in 1 .. N, h < k,
             NEW e \in Joins!EdgesOf(o[k]), e.nei = o[h]
      PROVE  Matched(e, m[o[k]], Term(m, e.nei))
  <2>1. o[h] \in V /\ ~(e.nei < 0)
    BY <1>1, <1>5 DEF Joins!Vars
  <2>2. h \in 1 .. k - 1
    BY <1>1, <1>5
  <2>3. e \in Joins!BN(k)
    BY <1>5, <2>1, <2>2 DEF Joins!BN, Joins!ToConst
  <2>4. m[o[k]] \in Joins!LocalCands(k, m) /\ k # 1
    BY <1>3, <1>5
  <2>5. m[o[k]] \in Joins!ListOf(e, m[e.nei])
    BY <2>3, <2>4 DEF Joins!LocalCands
  <2>6. o[k] \in V
    BY <1>1
  <2>7. e.pre \in Nat
    BY <1>1, <2>6, EdgeFacts
  <2>8. Matched(e, m[o[k]], m[e.nei])
    BY <2>5, <2>7, ListIs
  <2> QED
    BY <2>1, <2>8 DEF Term
<1>6. ASSUME NEW n \in DOMAIN pattern.triples PROVE Holds(m, n)
  <2>1. PICK s, b : s = Triple(n).s /\ b = Triple(n).o
    OBVIOUS
  <2>2. /\ s \in Int /\ b \in Int /\ s # b /\ (s >= 0 \/ b >= 0)
        /\ s >= 0 => s \in V
        /\ b >= 0 => b \in V
    BY <1>1, <2>1, TriplesOf
  <2>3. ASSUME NEW i \in V, i \in {s, b}
        PROVE  /\ EdgeAt(i, Triple(n)) \in Joins!EdgesOf(i)
               /\ EdgeAt(i, Triple(n)).nei = IF s = i THEN b ELSE s
               /\ Matched(EdgeAt(i, Triple(n)), m[i], Term(m, EdgeAt(i, Triple(n)).nei))
                    => Holds(m, n)
    <3>1. i \in {Triple(n).s, Triple(n).o}
      BY <2>1, <2>3
    <3>2. EdgeAt(i, Triple(n)) \in Joins!EdgesOf(i)
      BY <1>1, <3>1, EdgeFacts
    <3>3. EdgeAt(i, Triple(n)).nei = IF s = i THEN b ELSE s
      BY <2>1 DEF EdgeAt
    <3>4. Holds(m, n) <=>
            Matched(EdgeAt(i, Triple(n)), m[i], Term(m, EdgeAt(i, Triple(n)).nei))
      BY <1>1, <3>1, EdgeHolds
    <3> QED
      BY <3>2, <3>3, <3>4
  <2>4. CASE b < 0
    <3>1. s \in V
      BY <2>2, <2>4
    <3>2. PICK e : e = EdgeAt(s, Triple(n))
      OBVIOUS
    <3>3. e \in Joins!EdgesOf(s) /\ e.nei = b
      BY <2>3, <3>1, <3>2
    <3>4. Joins!ToConst(e)
      BY <2>4, <3>3 DEF Joins!ToConst
    <3> QED
      BY <1>4, <2>3, <3>1, <3>2, <3>3, <3>4
  <2>5. CASE s < 0
    <3>1. b \in V
      BY <2>2, <2>5
    <3>2. PICK e : e = EdgeAt(b, Triple(n))
      OBVIOUS
    <3>3. e \in Joins!EdgesOf(b) /\ e.nei = s
      BY <2>2, <2>3, <3>1, <3>2
    <3>4. Joins!ToConst(e)
      BY <2>5, <3>3 DEF Joins!ToConst
    <3> QED
      BY <1>4, <2>3, <3>1, <3>2, <3>3, <3>4
  <2>6. CASE s >= 0 /\ b >= 0
    <3>1. s \in V /\ b \in V
      BY <2>2, <2>6
    <3>2. PICK k \in 1 .. N, h \in 1 .. N : o[k] = s /\ o[h] = b
      BY <1>1, <3>1
    <3>3. k < h \/ h < k
      BY <1>1, <2>2, <3>2
    <3>4. CASE h < k
      <4>1. PICK e : e = EdgeAt(s, Triple(n))
        OBVIOUS
      <4>2. e \in Joins!EdgesOf(o[k]) /\ e.nei = o[h]
        BY <2>3, <3>1, <3>2, <4>1
      <4> QED
        BY <1>5, <2>3, <3>1, <3>2, <3>4, <4>1, <4>2
    <3>5. CASE k < h
      <4>1. PICK e : e = EdgeAt(b, Triple(n))
        OBVIOUS
      <4>2. e \in Joins!EdgesOf(o[h]) /\ e.nei = o[k]
        BY <2>2, <2>3, <3>1, <3>2, <4>1
      <4> QED
        BY <1>5, <2>3, <3>1, <3>2, <3>5, <4>1, <4>2
    <3> QED
      BY <3>3, <3>4, <3>5
  <2> QED
    BY <2>2, <2>4, <2>5, <2>6
<1> QED
  BY <1>3, <1>6, HomomorphismsAre

\* Of a match every edge is in the data.
LEMMA MatchFits ==
  ASSUME Joins!Numbered, pattern \in Patterns, NEW m \in Joins!Homomorphisms,
         NEW i \in Joins!Vars(pattern)
  PROVE  /\ m[i] \in Joins!Nodes
         /\ \A e \in Joins!EdgesOf(i) : Matched(e, m[i], Term(m, e.nei)) /\ e.pre \in Nat
         /\ Fits(i, m[i])
<1>1. m \in [Joins!Vars(pattern) -> Joins!Nodes] /\ \A n \in DOMAIN pattern.triples : Holds(m, n)
  BY HomomorphismsAre
<1>2. ASSUME NEW e \in Joins!EdgesOf(i)
      PROVE  Matched(e, m[i], Term(m, e.nei)) /\ e.pre \in Nat /\ Joins!HasEdge(m[i], e)
  <2>1. PICK n \in DOMAIN pattern.triples :
          e = EdgeAt(i, Triple(n)) /\ i \in {Triple(n).s, Triple(n).o}
    BY EdgeFacts
  <2>2. Matched(e, m[i], Term(m, e.nei))
    BY <1>1, <2>1, EdgeHolds
  <2>3. e.pre \in Nat
    BY EdgeFacts
  <2>4. Joins!ToConst(e) => Term(m, e.nei) = Joins!LitID(e.nei)
    BY DEF Term, Joins!ToConst
  <2> QED
    BY <2>2, <2>3, <2>4, HasEdgeIs
<1> QED
  BY <1>1, <1>2 DEF Fits

\* Every match is found unless a variable starves.
LEMMA MatchesFound ==
  ASSUME Joins!Numbered, JoinTyped, OrderInv, Joins!FitsItsArray, Added,
         \A i \in Joins!Vars(pattern) : ~Joins!Starved(i)
  PROVE  Joins!Homomorphisms \subseteq Found(pattern.var_num)
<1> DEFINE N == pattern.var_num
           o == matching_order
           V == Joins!Vars(pattern)
<1>1. /\ N \in Nat /\ N > 0 /\ pattern \in Patterns /\ Len(o) = N
      /\ \A k \in 1 .. N : o[k] \in V
      /\ \A i \in V : \E k \in 1 .. N : o[k] = i
  BY OrderIs DEF JoinTyped
<1>2. First(o, N) = V
  BY <1>1 DEF First
<1> SUFFICES ASSUME NEW m \in Joins!Homomorphisms PROVE m \in Found(N)
  OBVIOUS
<1>3. m \in [V -> Joins!Nodes]
  BY HomomorphismsAre
<1>4. o # << >>
  BY <1>1
<1>5. ASSUME NEW k \in 1 .. N PROVE m[o[k]] \in Joins!LocalCands(k, m)
  <2>1. PICK i \in V : i = o[k]
    BY <1>1
  <2>2. /\ m[i] \in Joins!Nodes /\ Fits(i, m[i])
        /\ \A e \in Joins!EdgesOf(i) : Matched(e, m[i], Term(m, e.nei)) /\ e.pre \in Nat
    BY <1>1, MatchFits
  <2>3. \/ m[i] \in candidates[i]
        \/ Joins!isFreeLiteralVariable(i) /\ ~Joins!objIDIsEntityID(m[i])
    BY <2>2 DEF Added
  <2>4. CASE k = 1
    <3>1. ~Joins!isFreeLiteralVariable(i)
      BY <1>4, <2>1, <2>4 DEF OrderInv, FreeLiterals
    <3> QED
      BY <2>1, <2>3, <2>4, <3>1 DEF Joins!LocalCands
  <2>5. CASE k # 1
    <3>1. k \in 2 .. Len(o)
      BY <1>1, <2>5
    <3>2. PICK j \in Links[i] : j \in First(o, k - 1)
      BY <2>1, <3>1 DEF OrderInv
    <3>3. PICK e \in Joins!EdgesOf(i) : ~Joins!ToConst(e) /\ e.nei = j
      BY <3>2 DEF Links
    <3>4. Joins!BN(k) # {}
      BY <2>1, <3>2, <3>3 DEF Joins!BN, First
    <3>5. ASSUME NEW f \in Joins!BN(k) PROVE m[i] \in Joins!ListOf(f, m[f.nei])
      <4>1. f \in Joins!EdgesOf(i) /\ ~Joins!ToConst(f)
        BY <2>1 DEF Joins!BN
      <4>2. Term(m, f.nei) = m[f.nei]
        BY <4>1 DEF Term, Joins!ToConst
      <4> QED
        BY <2>2, <4>1, <4>2, ListIs
    <3> QED
      BY <2>1, <2>2, <2>3, <2>5, <3>4, <3>5 DEF Joins!LocalCands
  <2> QED
    BY <2>4, <2>5
<1> QED
  BY <1>2, <1>3, <1>5 DEF Found

LEMMA PreFilterKeeps ==
  ASSUME Joins!Numbered, JoinTyped, CandidatesInv, OrderInv, SearchInv,
         Joins!only_pre_filter_after_join
  PROVE  SearchInv'
<1> DEFINE Passing(m) ==
             \A i \in Joins!Vars(pattern) : \A e \in Joins!Lonely(i) :
               \E t \in G : t[2] = e.pre /\ (IF e.type = "OUT" THEN t[1] ELSE t[3]) = m[i]
<1>1. /\ stage = "dfs" /\ cur_depth = pattern.var_num /\ stage' = "done"
      /\ pattern' = pattern /\ results' = {m \in results : Passing(m)}
  BY DEF Joins!only_pre_filter_after_join
<1>2. /\ Joins!FitsItsArray /\ results = Found(pattern.var_num) /\ Filtered /\ Added
      /\ pattern \in Patterns
  BY <1>1 DEF SearchInv, CandidatesInv, JoinTyped
<1>3. results \subseteq Joins!Homomorphisms
  BY <1>2, FoundMatches
<1>4. ASSUME NEW m \in Joins!Homomorphisms PROVE Passing(m)
  <2> SUFFICES ASSUME NEW i \in Joins!Vars(pattern), NEW e \in Joins!Lonely(i)
               PROVE  \E t \in G : /\ t[2] = e.pre
                                   /\ (IF e.type = "OUT" THEN t[1] ELSE t[3]) = m[i]
    OBVIOUS
  <2>1. e \in Joins!EdgesOf(i)
    BY DEF Joins!Lonely
  <2>2. Joins!HasEdge(m[i], e)
    BY <1>2, <2>1, MatchFits DEF Fits
  <2> QED
    BY <2>2 DEF Joins!HasEdge
<1> HIDE DEF Passing
<1>5. results' \subseteq Joins!Homomorphisms
  BY <1>1, <1>3
<1>6. ASSUME \A i \in Joins!Vars(pattern) : ~Joins!Starved(i)
      PROVE  results' = Joins!Homomorphisms
  <2>1. results = Joins!Homomorphisms
    BY <1>2, <1>3, <1>6, MatchesFound
  <2> QED
    BY <1>1, <1>4, <2>1
<1>7. Joins!Homomorphisms' = Joins!Homomorphisms
  BY <1>1 DEF Joins!Homomorphisms
<1>8. Answered'
  BY <1>1, <1>5, <1>6, <1>7, PatternStays DEF Answered
<1> QED
  BY <1>1, <1>8 DEF SearchInv

-----------------------------------------------------------------------------
(* The join                                                                *)

JoinInv == JoinTyped /\ CandidatesInv /\ OrderInv /\ SearchInv

LEMMA JoinInit ==
  ASSUME Joins!Numbered, Joins!Init
  PROVE  JoinInv
<1>1. PICK more \in SUBSET Joins!EntityNodes :
        candidates = [i \in Joins!Vars(pattern) |-> Joins!Covered(pattern, i) \cup more]
  BY DEF Joins!Init
<1>2. /\ pattern \in Patterns /\ stage = "retrieve"
      /\ var_stack = << >> /\ matching_order = << >> /\ cur_depth = 0
  BY DEF Joins!Init
<1>3. Retrieved
  BY <1>1, CoveredAre DEF Retrieved
<1>4. Joins!EntityNodes \subseteq Joins!Nodes
  BY DEF Joins!EntityNodes
<1>5. candidates \in [Joins!Vars(pattern) -> SUBSET Joins!Nodes]
  <2>1. \A i \in Joins!Vars(pattern) : Joins!Covered(pattern, i) \cup more \in SUBSET Joins!Nodes
    BY <1>4, CoveredAre
  <2> QED
    BY <1>1, <2>1
<1>6. JoinTyped
  BY <1>2, <1>5 DEF JoinTyped
<1>7. CandidatesInv
  BY <1>2, <1>3 DEF CandidatesInv
<1>8. OrderInv
  <2>1. Len(matching_order) = 0
    BY <1>2
  <2> QED
    BY <1>2, <2>1 DEF OrderInv
<1>9. SearchInv
  BY <1>2 DEF SearchInv
<1> QED
  BY <1>6, <1>7, <1>8, <1>9 DEF JoinInv

LEMMA JoinSteps ==
  ASSUME Joins!Numbered, JoinInv, [Joins!Next]_(Joins!vars)
  PROVE  JoinInv'
<1>1. JoinTyped /\ CandidatesInv /\ OrderInv /\ SearchInv /\ pattern \in Patterns
  BY DEF JoinInv, JoinTyped
<1>2. CASE Joins!filter_before_join
  <2>1. /\ pattern' = pattern /\ stage' = "filter_before_join" /\ var_stack' = var_stack
        /\ matching_order' = matching_order /\ cur_depth' = cur_depth /\ stage = "retrieve"
        /\ candidates' = [i \in Joins!Vars(pattern) |->
             {v \in candidates[i] : \A e \in Joins!Constants(i) :
                v \in Joins!ListOf(e, Joins!LitID(e.nei))}]
    BY <1>2 DEF Joins!filter_before_join
  <2>2. JoinTyped'
    BY <1>1, <2>1 DEF JoinTyped
  <2>3. OrderInv'
    BY <1>1, <2>1, LinksStay DEF OrderInv
  <2>4. SearchInv'
    BY <2>1 DEF SearchInv
  <2>5. CandidatesInv'
    BY <1>1, <1>2, FilterKeeps
  <2> QED
    BY <2>2, <2>3, <2>4, <2>5 DEF JoinInv
<1>3. CASE Joins!add_literal_candidate
  <2>1. /\ pattern' = pattern /\ stage' = "add_literal_candidate" /\ var_stack' = var_stack
        /\ matching_order' = matching_order /\ cur_depth' = cur_depth
        /\ stage = "filter_before_join"
        /\ candidates' = [i \in Joins!Vars(pattern) |->
             candidates[i] \cup
               IF Joins!isLiteralVariable(i) /\ ~Joins!isFreeLiteralVariable(i)
                 THEN {v \in Joins!Nodes : \A e \in Joins!EdgesOf(i) : v \in Joins!EdgeLiterals(e)}
                 ELSE {}]
    BY <1>3 DEF Joins!add_literal_candidate
  <2>2. JoinTyped'
    BY <1>1, <2>1 DEF JoinTyped
  <2>3. OrderInv'
    BY <1>1, <2>1, LinksStay DEF OrderInv
  <2>4. SearchInv'
    BY <2>1 DEF SearchInv
  <2>5. CandidatesInv'
    BY <1>1, <1>3, AddLiteralKeeps
  <2> QED
    BY <2>2, <2>3, <2>4, <2>5 DEF JoinInv
<1>4. ASSUME stage \in {"add_literal_candidate", "order", "dfs"},
             stage' \in {"order", "dfs", "undefined", "done"},
             pattern' = pattern, candidates' = candidates
      PROVE  CandidatesInv'
  <2>1. Filtered /\ Added
    BY <1>1, <1>4 DEF CandidatesInv
  <2> QED
    BY <1>4, <2>1, CandidatesStay DEF CandidatesInv
<1>5. CASE Joins!push_start
  <2>1. JoinTyped' /\ OrderInv'
    BY <1>1, <1>5, PushStartKeeps
  <2>2. CandidatesInv' /\ SearchInv'
    BY <1>4, <1>5 DEF Joins!push_start, SearchInv
  <2> QED
    BY <2>1, <2>2 DEF JoinInv
<1>6. CASE Joins!visit
  <2>1. JoinTyped' /\ OrderInv'
    BY <1>1, <1>6, VisitKeeps
  <2>2. /\ stage = "order" /\ stage' \in {"order", "undefined"}
        /\ pattern' = pattern /\ candidates' = candidates
    BY <1>6 DEF Joins!visit
  <2>3. CandidatesInv' /\ SearchInv'
    BY <1>4, <2>2 DEF SearchInv
  <2> QED
    BY <2>1, <2>3 DEF JoinInv
<1>7. CASE Joins!start_search
  <2>1. /\ stage = "order" /\ stage' \in {"dfs", "undefined"}
        /\ pattern' = pattern /\ candidates' = candidates /\ var_stack' = var_stack
        /\ matching_order' = matching_order /\ cur_depth' = cur_depth
    BY <1>7 DEF Joins!start_search
  <2>2. JoinTyped'
    BY <1>1, <2>1 DEF JoinTyped
  <2>3. OrderInv'
    BY <1>1, <2>1, LinksStay DEF OrderInv
  <2>4. CandidatesInv'
    BY <1>4, <2>1
  <2>5. SearchInv'
    BY <1>1, <1>7, StartSearchKeeps
  <2> QED
    BY <2>2, <2>3, <2>4, <2>5 DEF JoinInv
<1>8. CASE Joins!dfs
  <2>1. /\ stage = "dfs" /\ stage' = "dfs" /\ cur_depth' = cur_depth + 1
        /\ pattern' = pattern /\ candidates' = candidates /\ var_stack' = var_stack
        /\ matching_order' = matching_order
    BY <1>8 DEF Joins!dfs
  <2>2. JoinTyped'
    BY <1>1, <2>1 DEF JoinTyped
  <2>3. OrderInv'
    BY <1>1, <2>1, LinksStay DEF OrderInv
  <2>4. CandidatesInv'
    BY <1>4, <2>1
  <2>5. SearchInv'
    BY <1>1, <1>8, DfsKeeps
  <2> QED
    BY <2>2, <2>3, <2>4, <2>5 DEF JoinInv
<1>9. CASE Joins!only_pre_filter_after_join
  <2>1. /\ stage = "dfs" /\ stage' = "done" /\ cur_depth' = cur_depth
        /\ pattern' = pattern /\ candidates' = candidates /\ var_stack' = var_stack
        /\ matching_order' = matching_order
    BY <1>9 DEF Joins!only_pre_filter_after_join
  <2>2. JoinTyped'
    BY <1>1, <2>1 DEF JoinTyped
  <2>3. OrderInv'
    BY <1>1, <2>1, LinksStay DEF OrderInv
  <2>4. CandidatesInv'
    BY <1>4, <2>1
  <2>5. SearchInv'
    BY <1>1, <1>9, PreFilterKeeps
  <2> QED
    BY <2>2, <2>3, <2>4, <2>5 DEF JoinInv
<1>10. CASE UNCHANGED Joins!vars
  <2>1. /\ pattern' = pattern /\ stage' = stage /\ candidates' = candidates
        /\ var_stack' = var_stack /\ matching_order' = matching_order
        /\ cur_depth' = cur_depth /\ results' = results
    BY <1>10 DEF Joins!vars
  <2>2. JoinTyped'
    BY <1>1, <2>1 DEF JoinTyped
  <2>3. CandidatesInv'
    BY <1>1, <2>1, CandidatesStay DEF CandidatesInv
  <2>4. OrderInv'
    BY <1>1, <2>1, LinksStay DEF OrderInv
  <2>5. SearchInv'
    <3>1. Joins!FitsItsArray' <=> Joins!FitsItsArray
      BY <2>1 DEF Joins!FitsItsArray
    <3>2. Joins!Homomorphisms' = Joins!Homomorphisms
      BY <2>1 DEF Joins!Homomorphisms
    <3>3. Answered' <=> Answered
      BY <2>1, <3>2, PatternStays DEF Answered
    <3>4. Found(cur_depth)' = Found(cur_depth)
      BY <2>1, FoundStays
    <3> QED
      BY <1>1, <2>1, <3>1, <3>3, <3>4 DEF SearchInv
  <2> QED
    BY <2>2, <2>3, <2>4, <2>5 DEF JoinInv
<1> QED
  BY <1>2, <1>3, <1>5, <1>6, <1>7, <1>8, <1>9, <1>10 DEF Joins!Next

LEMMA JoinInvImplies ==
  ASSUME JoinInv
  PROVE  AnswersAreTheMatches
<1>1. Joins!TypeOK
  BY DEF JoinInv, JoinTyped, Joins!TypeOK
<1>2. stage = "done" => Answered
  BY DEF JoinInv, SearchInv
<1> QED
  BY <1>1, <1>2 DEF AnswersAreTheMatches, Joins!AnswersAreTheMatches, Answered

\* Whatever the graph and the pattern, and whatever entities the signature tree
\* returns besides those it must: gquery answers a pattern whose search order fits its
\* array with matches in the data, and with all of them unless a literal variable
\* starves.
THEOREM JoinAnswers == Joins!Spec => []AnswersAreTheMatches
<1>1. Joins!Init => JoinInv
  BY JoinAssumption, JoinInit
<1>2. JoinInv /\ [Joins!Next]_(Joins!vars) => JoinInv'
  BY JoinAssumption, JoinSteps
<1>3. JoinInv => AnswersAreTheMatches
  BY JoinInvImplies
<1> QED
  BY <1>1, <1>2, <1>3, PTL DEF Joins!Spec
=============================================================================

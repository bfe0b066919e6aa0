---------------------------- MODULE Intersection ----------------------------
(***************************************************************************)
(* ComputeSetIntersection::ComputeCandidates                               *)
(* (intersection/computesetintersection.cpp) as it is built: HYBRID 0 and  *)
(* SI 0, the AVX2 kernels.  gload counts with it what predicates have in   *)
(* common and the search intersects candidate lists with it.  One step is  *)
(* one round of a kernel's loop.                                           *)
(*                                                                         *)
(* Vector loads may reach behind a list: what they find there is chosen    *)
(* once, in behind.                                                        *)
(***************************************************************************)
EXTENDS Integers, Sequences, FiniteSets, SequencesExt

CONSTANTS
  Lists,    \* the lists it is given
  Behind,   \* what may be in memory behind a list
  LANES,    \* elements of a vector: 8
  ROWS,     \* elements of larray in a block: 2; the block has LANES / ROWS of rarray
  LINEAR,   \* below this the binary search scans: 16
  RATIO,    \* lengths that differ by more than this gallop: 50
  SKEW      \* lengths that differ by more than this compare one to many: 2

COLS == LANES \div ROWS

\* As the indexes list what belongs to a key, an element may be there repeatedly.
NonDecreasing(a) == \A i, j \in DOMAIN a : i < j => a[i] <= a[j]
Increasing(a) == \A i, j \in DOMAIN a : i < j => a[i] < a[j]

ASSUME IntersectionAssumption ==
  /\ Lists \subseteq Seq(Int) /\ Behind \subseteq Int
  /\ \A a \in Lists : NonDecreasing(a)
  /\ {LANES, ROWS, LINEAR, RATIO, SKEW} \subseteq Nat \ {0}
  /\ LANES % ROWS = 0 /\ LINEAR >= LANES

VARIABLES larray, rarray, behind, li, ri, cn, pc

lists == <<larray, rarray, behind>>
cursors == <<li, ri, cn>>
vars == <<lists, cursors, pc>>

lc == Len(larray)
rc == Len(rarray)
At(a, i) == IF i < Len(a) THEN a[i + 1] ELSE behind
l == At(larray, li)
r == At(rarray, ri)
-----------------------------------------------------------------------------
(* Searching                                                               *)

\* cmpgt and popcnt: how many of n elements from i are below val.
Below(a, i, n, val) == Cardinality({k \in i .. i + n - 1 : At(a, k) < val})

\* Less than a vector is left: the lanes behind the end are masked out.
LastLanes(a, b, e, val) ==
  LET n == Below(a, b, e - b, val) IN IF n < e - b THEN b + n ELSE e

Scan(a, beg, e, val) ==
  LET scan[b \in Nat] ==
        IF b + LANES <= e
        THEN LET n == Below(a, b, LANES, val)
             IN IF n < LANES THEN b + n ELSE scan[b + LANES]
        ELSE IF b < e THEN LastLanes(a, b, e, val) ELSE e
  IN scan[beg]

BinarySearch(a, beg, end, val) ==
  LET search[o \in Nat \X (0 .. end)] ==
        LET b == o[1]
            e == o[2]
            mid == (b + e) \div 2
        IN IF e - b < LINEAR THEN Scan(a, b, e, val)
           ELSE IF At(a, mid) = val THEN mid
           ELSE IF At(a, mid) < val THEN search[<<mid + 1, e>>] ELSE search[<<b, mid>>]
  IN search[<<beg, end>>]

\* Doubling jumps until val is passed, then a binary search in the last jump.
Gallop_FromPeek(a, beg, end, val) ==
  LET jump[j \in Nat \ {0}] ==
        LET peek == beg + j
        IN IF peek >= end THEN BinarySearch(a, beg + j, end, val)
           ELSE IF At(a, peek) < val THEN jump[2 * j]
           ELSE IF At(a, peek) = val THEN peek
           ELSE BinarySearch(a, beg + (j \div 2) + 1, peek + 1, val)
  IN jump[LANES]
Gallop(a, beg, end, val) ==
  LET jump[j \in Nat \ {0}] ==
        LET peek == beg + j
        IN IF peek >= end THEN BinarySearch(a, beg + (j \div 2) + 1, end, val)
           ELSE IF At(a, peek) < val THEN jump[2 * j]
           ELSE IF At(a, peek) = val THEN peek
           ELSE BinarySearch(a, beg + (j \div 2) + 1, peek + 1, val)
  IN jump[LANES]

\* A position from beg on that is not below val, or end: the first one, or one of
\* those that hold val.
GallopingSearch_NoCount(a, beg, end, val) ==
  LET width == IF end - beg >= LANES THEN LANES ELSE end - beg
  IN IF At(a, end - 1) < val THEN end
     ELSE IF Below(a, beg, width, val) < width THEN beg ELSE Gallop(a, beg, end, val)
GallopingSearch(a, beg, end, val) ==
  LET width == IF end - beg >= LANES THEN LANES ELSE end - beg
      n == Below(a, beg, width, val)
  IN IF At(a, end - 1) < val THEN end
     ELSE IF n < width THEN beg + n ELSE Gallop(a, beg, end, val)
-----------------------------------------------------------------------------
(* The kernels                                                             *)

Kernel ==
  IF lc = 0 \/ rc = 0 THEN "done"
  ELSE IF lc \div RATIO > rc \/ rc \div RATIO > lc THEN "gallop"
  ELSE IF rc \div lc > SKEW THEN (IF LANES <= rc THEN "one to many" ELSE "merge")
  ELSE IF ROWS <= lc /\ COLS <= rc THEN "blocks" ELSE "merge"

Init ==
  /\ larray \in Lists /\ rarray \in Lists /\ behind \in Behind
  /\ li = 0 /\ ri = 0 /\ cn = <<>>
  /\ pc = Kernel

\* To the next round, to the merge loop, or out, by where the cursors are.
Proceed(round) ==
  pc' = IF li' >= lc \/ ri' >= rc THEN "done" ELSE round

Match == li' = li + 1 /\ ri' = ri + 1 /\ cn' = Append(cn, l)

GallopLeft ==
  /\ pc = "gallop" /\ l < r
  /\ li' = li + 1 /\ UNCHANGED <<ri, cn>>
  /\ Proceed("gallop") /\ UNCHANGED lists
GallopRight ==
  /\ pc = "gallop" /\ l >= r
  /\ LET i == GallopingSearch(rarray, ri, rc, l)
     IN IF i < rc /\ At(rarray, i) = l
        THEN li' = li + 1 /\ ri' = i + 1 /\ cn' = Append(cn, l)
        ELSE ri' = i /\ UNCHANGED <<li, cn>>
  /\ Proceed("gallop") /\ UNCHANGED lists

\* The elements of larray from li on, n of them, that are among m of rarray: a
\* row of the block's comparisons each.
Hits(n, m) ==
  LET hit(k) == \E j \in ri .. ri + m - 1 : At(rarray, j) = At(larray, li + k - 1)
      upto[k \in 0 .. n] ==
        IF k = 0 THEN <<>>
        ELSE IF hit(k) THEN Append(upto[k - 1], At(larray, li + k - 1)) ELSE upto[k - 1]
  IN upto[n]

OneToMany ==
  /\ pc = "one to many"
  /\ cn' = cn \o Hits(1, LANES)
  /\ IF l > At(rarray, ri + LANES - 1) THEN ri' = ri + LANES /\ UNCHANGED li
                                       ELSE li' = li + 1 /\ UNCHANGED ri
  /\ Proceed(IF ri' + LANES <= rc THEN "one to many" ELSE "merge")
  /\ UNCHANGED lists

Blocks ==
  /\ pc = "blocks"
  /\ cn' = cn \o Hits(ROWS, COLS)
  /\ LET u == At(larray, li + ROWS - 1)
         v == At(rarray, ri + COLS - 1)
     IN /\ li' = IF u <= v THEN li + ROWS ELSE li
        /\ ri' = IF u >= v THEN ri + COLS ELSE ri
  /\ Proceed(IF li' + ROWS <= lc /\ ri' + COLS <= rc THEN "blocks" ELSE "merge")
  /\ UNCHANGED lists

Merge ==
  /\ pc = "merge"
  /\ \/ l < r /\ li' = li + 1 /\ UNCHANGED <<ri, cn>>
     \/ l > r /\ ri' = ri + 1 /\ UNCHANGED <<li, cn>>
     \/ l = r /\ Match
  /\ Proceed("merge") /\ UNCHANGED lists

Next == GallopLeft \/ GallopRight \/ OneToMany \/ Blocks \/ Merge

Spec == Init /\ [][Next]_vars /\ WF_vars(Next)
-----------------------------------------------------------------------------
(* Properties                                                              *)

Kernels == {"gallop", "one to many", "blocks", "merge", "done"}
TypeOK == /\ pc \in Kernels /\ behind \in Behind
          /\ {li, ri} \subseteq Nat /\ cn \in Seq(Int)

Common == ToSet(larray) \cap ToSet(rarray)
Ahead(a, i) == {a[k] : k \in i + 1 .. Len(a)}

NoRepeats == Increasing(larray) /\ Increasing(rarray)
Before(x, y) == x < y \/ (x = y /\ ~ NoRepeats)

\* Whatever way the cursors move, a common element is already in the result or
\* still ahead of both of them, and nothing else is in the result: neither a block
\* nor a search may step over an element.  The result is in order, as the next
\* intersection wants its input, and goes on that way: what is ahead of both
\* cursors is above all of it, also where a block was left with some of its
\* elements already in the result.  Without repeated elements in the lists the
\* result has none either.  With them it may have more than both lists: a block
\* adds an element again when only the other cursor went on.
NothingLost ==
  /\ ToSet(cn) \cup (Ahead(larray, li) \cap Ahead(rarray, ri)) = Common
  /\ \A i \in 1 .. Len(cn) - 1 : Before(cn[i], cn[i + 1])
  /\ \A i \in DOMAIN cn : \A x \in Ahead(larray, li) \cap Ahead(rarray, ri) : Before(cn[i], x)

\* The loops end, and only with one list used up: then the result is complete.
Ends == <>(pc = "done" /\ (li >= lc \/ ri >= rc))
=============================================================================

------------------------------ MODULE DfsProof ------------------------------
(***************************************************************************)
(* Proofs about Dfs, for any compers, queries, plans and candidates.       *)
(*                                                                         *)
(* The arrays of a comper outlive its task.  What makes that harmless: the *)
(* marks in visited_arr are the values of the current path, each marked by *)
(* one vertex only (Marks, with the paths' values being distinct), so that *)
(* unmarking the last one never unmarks another; and what a search reads   *)
(* of can_lists, idx and idx_count was set by itself (Lists), but for a    *)
(* task that enters at a predicate variable.                               *)
(*                                                                         *)
(* The second part is about the matches, for queries that are not split at *)
(* a predicate variable (NoSplitPU; the code loses matches there).  A list *)
(* of candidates may repeat an ID, so a match may be found in several      *)
(* ways, one for each choice of the entries that hold its IDs.  Each way   *)
(* to a match of a running query is found, or an extension of one waiting  *)
(* task, or ahead of one comper: on its path behind the index it has       *)
(* reached (Places).  A comper's lists are what its path makes them        *)
(* (Searches), so that a step of it moves a way from one place to another  *)
(* and none from or to nowhere.                                            *)
(***************************************************************************)
EXTENDS Dfs, ProofLemmas

-----------------------------------------------------------------------------
(* The inductive invariant                                                 *)

Types ==
  /\ phase \in [Queries -> {"new", "running", "done"}]
  /\ DOMAIN tasks = Queries /\ DOMAIN found = Queries
  /\ cur_query \in [Compers -> Queries \cup {NoQuery}]
  /\ enter_depth \in [Compers -> Nat]
  /\ cur_depth \in [Compers -> Nat]
  /\ result_var \in [Compers -> Seq(Entries)]
  /\ can_lists \in [Compers -> [Depths -> Seq(Entries)]]
  /\ idx \in [Compers -> [Depths -> Nat]]
  /\ idx_count \in [Compers -> [Depths -> Nat]]
  /\ visited_arr \in [Compers -> SUBSET Values]
  /\ late \in [Compers -> BOOLEAN]
  /\ \A q \in Queries : IsABag(tasks[q]) /\ IsABag(found[q])

\* A partial match: no two of its vertices have the same ID.
IsPath(q, rv) ==
  /\ rv \in Seq(Entries)
  /\ \A i, j \in 0 .. Len(rv) - 1 :
       IsVertex(q, i) /\ IsVertex(q, j) /\ ID(rv[i + 1]) = ID(rv[j + 1]) => i = j

Waiting == \A q \in Queries : \A rv \in BagToSet(tasks[q]) :
             IsPath(q, rv) /\ Len(rv) < Depth(q)

Busy(c) == cur_query[c] # NoQuery

Path(c) == Busy(c) =>
  /\ IsPath(cur_query[c], result_var[c])
  /\ cur_depth[c] = Len(result_var[c])
  /\ cur_depth[c] < Depth(cur_query[c])
  /\ enter_depth[c] <= cur_depth[c]

\* The lists of the depths below 0 are never longer than what was written; that
\* of depth 0, while a task that entered there is searched.
Lists(c) == \A d \in Depths :
  (d > 0 \/ (Busy(c) /\ enter_depth[c] = 0)) =>
    /\ idx[c][d] <= idx_count[c][d]
    /\ idx_count[c][d] <= Len(can_lists[c][d])

Marks(c) == visited_arr[c] = IF Busy(c) THEN VertexValues(cur_query[c], result_var[c])
                             ELSE {}

Good(c) == Path(c) /\ Lists(c) /\ Marks(c)

IInv == Types /\ Waiting /\ \A c \in Compers : Good(c)

-----------------------------------------------------------------------------
(* Facts about depths, paths and bags                                      *)

LEMMA BoundExists ==
  ASSUME NEW S \in SUBSET Nat, IsFiniteSet(S)
  PROVE  \E b \in Nat : \A x \in S : x <= b
<1> DEFINE Bad(R) == R \in SUBSET Nat /\ IsFiniteSet(R) /\ ~ \E b \in Nat : \A x \in R : x <= b
           T == {n \in Nat : \E R \in SUBSET Nat : Bad(R) /\ Cardinality(R) = n}
<1>1. ASSUME T # {} PROVE FALSE
  <2>1. PICK n \in T : \A y \in T : n <= y
    BY <1>1, LeastNatural
  <2>2. PICK R \in SUBSET Nat : Bad(R) /\ Cardinality(R) = n
    BY <2>1
  <2>3. R # {}
    <3>1. CASE R = {}
      <4>1. 0 \in Nat /\ \A x \in R : x <= 0
        BY <3>1
      <4> QED
        BY <2>2, <4>1
    <3> QED
      BY <3>1
  <2>4. PICK x \in R : TRUE
    BY <2>3
  <2>5. /\ IsFiniteSet(R \ {x}) /\ Cardinality(R \ {x}) = n - 1
        /\ n \in Nat /\ n - 1 \in Nat
    <3>1. IsFiniteSet(R) /\ Cardinality(R) = n /\ n \in Nat
      BY <2>1, <2>2
    <3>2. IsFiniteSet(R \ {x}) /\ Cardinality(R \ {x}) = n - 1
      BY <2>4, <3>1, FS_RemoveElement
    <3>3. Cardinality(R \ {x}) \in Nat
      BY <3>2, FS_CardinalityType
    <3> QED
      BY <3>1, <3>2, <3>3
  <2>6. ~ Bad(R \ {x})
    <3>1. ASSUME Bad(R \ {x}) PROVE n - 1 \in T
      BY <2>5, <3>1
    <3> QED
      BY <2>1, <2>5, <3>1
  <2>7. PICK b \in Nat : \A y \in R \ {x} : y <= b
    BY <2>5, <2>6
  <2>8. x \in Nat /\ R \subseteq Nat
    BY <2>4
  <2> DEFINE e == IF x <= b THEN b ELSE x
  <2>9. e \in Nat /\ \A y \in R : y <= e
    BY <2>7, <2>8
  <2> QED
    BY <2>2, <2>9
<1>2. ASSUME Bad(S) PROVE FALSE
  <2>1. Cardinality(S) \in Nat
    BY FS_CardinalityType
  <2> QED
    BY <1>1, <1>2, <2>1
<1> QED
  BY <1>2

LEMMA DepthFits ==
  ASSUME NEW q \in Queries
  PROVE  /\ Depth(q) \in Nat \ {0} /\ Depth(q) <= MaxDepth /\ MaxDepth \in Nat
         /\ \A d \in 0 .. Depth(q) - 1 : d \in Depths
<1> DEFINE D == {Depth(r) : r \in Queries}
<1>1. D \subseteq Nat \ {0} /\ Depth(q) \in D
  BY DfsAssumption
<1>2. IsFiniteSet(D)
  <2> DEFINE f == [r \in Queries |-> Depth(r)]
  <2>1. f \in Surjection(Queries, D)
    BY DEF Surjection
  <2> HIDE DEF f, D
  <2> QED
    BY <2>1, DfsAssumption, FS_Surjection
<1>3. PICK b \in Nat : \A x \in D : x <= b
  BY <1>1, <1>2, BoundExists
<1> DEFINE B == {n \in Nat : \A x \in D : x <= n}
<1>4. PICK n \in B : \A y \in B : n <= y
  <2>1. B \subseteq Nat /\ b \in B
    BY <1>3
  <2> HIDE DEF B
  <2> QED
    BY <2>1, LeastNatural
<1>5. n \in D
  <2>1. ASSUME n \notin D PROVE FALSE
    <3>1. \A x \in D : x <= n - 1
      BY <1>1, <1>4, <2>1
    <3>2. n > 0
      BY <1>1, <1>4
    <3>3. n - 1 \in B
      BY <1>4, <3>1, <3>2
    <3> QED
      BY <1>4, <3>3
  <2> QED
    BY <2>1
<1>6. n \in D /\ \A r \in Queries : Depth(r) <= n
  BY <1>4, <1>5
<1>7. MaxDepth \in D /\ \A r \in Queries : Depth(r) <= MaxDepth
  BY <1>6 DEF MaxDepth
<1>8. /\ Depth(q) \in Nat \ {0} /\ Depth(q) <= MaxDepth /\ MaxDepth \in Nat
  BY <1>1, <1>7
<1> HIDE DEF D, B
<1> QED
  BY <1>8 DEF Depths

LEMMA BaggedIs ==
  ASSUME NEW x
  PROVE  DOMAIN Bagged(x) = {x} /\ Bagged(x)[x] = 1 /\ IsABag(Bagged(x))
         /\ BagToSet(Bagged(x)) = {x}
BY DEF Bagged, SetToBag, IsABag, BagToSet

LEMMA BagGains ==
  ASSUME NEW B, IsABag(B), NEW x
  PROVE  /\ IsABag(B (+) Bagged(x))
         /\ BagToSet(B (+) Bagged(x)) = BagToSet(B) \cup {x}
         /\ Copies(x, B (+) Bagged(x)) = Copies(x, B) + 1
         /\ \A y : y # x => Copies(y, B (+) Bagged(x)) = Copies(y, B)
<1>1. DOMAIN Bagged(x) = {x} /\ Bagged(x)[x] = 1
  BY BaggedIs
<1>2. B (+) Bagged(x) =
        [e \in (DOMAIN B) \cup {x} |->
           (IF e \in DOMAIN B THEN B[e] ELSE 0) + (IF e = x THEN 1 ELSE 0)]
  BY <1>1 DEF (+)
<1>3. \A e \in DOMAIN B : B[e] \in Nat /\ B[e] > 0
  BY DEF IsABag
<1> QED
  BY <1>2, <1>3 DEF IsABag, BagToSet, Copies, BagIn

LEMMA BagLoses ==
  ASSUME NEW B, IsABag(B), NEW x \in BagToSet(B)
  PROVE  /\ IsABag(B (-) Bagged(x))
         /\ BagToSet(B (-) Bagged(x)) \subseteq BagToSet(B)
         /\ Copies(x, B) = 1 => x \notin BagToSet(B (-) Bagged(x))
         /\ \A y : y # x => /\ Copies(y, B (-) Bagged(x)) = Copies(y, B)
                            /\ y \in BagToSet(B (-) Bagged(x)) <=> y \in BagToSet(B)
<1>1. DOMAIN Bagged(x) = {x} /\ Bagged(x)[x] = 1
  BY BaggedIs
<1>2. \A e \in DOMAIN B : B[e] \in Nat /\ B[e] > 0
  BY DEF IsABag
<1>3. B (-) Bagged(x) = [e \in {d \in DOMAIN B : d # x \/ B[d] > 1} |->
                           IF e = x THEN B[e] - 1 ELSE B[e]]
  BY <1>1, <1>2 DEF (-)
<1> QED
  BY <1>2, <1>3 DEF IsABag, BagToSet, Copies, BagIn

\* A partial match and one more value, which no vertex of it has.
LEMMA PathGrows ==
  ASSUME NEW q, NEW rv, IsPath(q, rv), NEW x \in Entries,
         IsVertex(q, Len(rv)) => ID(x) \notin VertexValues(q, rv)
  PROVE  /\ IsPath(q, Append(rv, x)) /\ Len(Append(rv, x)) = Len(rv) + 1
         /\ VertexValues(q, Append(rv, x)) =
              VertexValues(q, rv) \cup (IF IsVertex(q, Len(rv)) THEN {ID(x)} ELSE {})
<1> DEFINE n == Len(rv)
           w == Append(rv, x)
<1>1. rv \in Seq(Entries) /\ n \in Nat
  BY DEF IsPath
<1>2. /\ w \in Seq(Entries) /\ Len(w) = n + 1 /\ w[n + 1] = x
      /\ \A i \in 1 .. n : w[i] = rv[i]
  BY <1>1, AppendProperties
<1>3. \A i \in 0 .. Len(w) - 1 : i \in 0 .. n - 1 \/ i = n
  BY <1>1, <1>2
<1>4. \A i \in 0 .. n - 1 : /\ i \in 0 .. Len(w) - 1 /\ w[i + 1] = rv[i + 1] /\ i # n
                            /\ i \in 0 .. Len(rv) - 1
  BY <1>1, <1>2
<1>5. n \in 0 .. Len(w) - 1
  BY <1>1, <1>2
<1>6. \A i \in 0 .. n - 1 : IsVertex(q, i) => ID(rv[i + 1]) \in VertexValues(q, rv)
  BY DEF VertexValues
<1> HIDE DEF w
<1>7. IsPath(q, w)
  <2> SUFFICES ASSUME NEW i \in 0 .. Len(w) - 1, NEW j \in 0 .. Len(w) - 1,
                      IsVertex(q, i), IsVertex(q, j), ID(w[i + 1]) = ID(w[j + 1])
               PROVE  i = j
    BY <1>2 DEF IsPath
  <2>1. CASE i \in 0 .. n - 1 /\ j \in 0 .. n - 1
    BY <1>4, <2>1 DEF IsPath
  <2>2. CASE i \in 0 .. n - 1 /\ j = n
    BY <1>2, <1>4, <1>6, <2>2
  <2>3. CASE i = n /\ j \in 0 .. n - 1
    BY <1>2, <1>4, <1>6, <2>3
  <2> QED
    BY <1>3, <2>1, <2>2, <2>3
<1>8. VertexValues(q, w) =
        VertexValues(q, rv) \cup (IF IsVertex(q, n) THEN {ID(x)} ELSE {})
  <2>1. ASSUME NEW y \in VertexValues(q, w)
        PROVE  y \in VertexValues(q, rv) \cup (IF IsVertex(q, n) THEN {ID(x)} ELSE {})
    <3>1. PICK e \in 0 .. Len(w) - 1 : IsVertex(q, e) /\ y = ID(w[e + 1])
      BY DEF VertexValues
    <3> QED
      BY <1>2, <1>3, <1>4, <1>6, <3>1
  <2>2. ASSUME NEW y \in VertexValues(q, rv) PROVE y \in VertexValues(q, w)
    <3>1. PICK e \in 0 .. n - 1 : IsVertex(q, e) /\ y = ID(rv[e + 1])
      BY DEF VertexValues
    <3>2. e \in 0 .. Len(w) - 1 /\ y = ID(w[e + 1])
      BY <1>4, <3>1
    <3> QED
      BY <3>1, <3>2 DEF VertexValues
  <2>3. ASSUME IsVertex(q, n) PROVE ID(x) \in VertexValues(q, w)
    BY <1>2, <1>5, <2>3 DEF VertexValues
  <2> QED
    BY <2>1, <2>2, <2>3
<1> QED
  BY <1>2, <1>7, <1>8 DEF w

\* A partial match without its last value.
LEMMA PathShrinks ==
  ASSUME NEW q, NEW rv, IsPath(q, rv), NEW d \in Nat, Len(rv) = d + 1
  PROVE  /\ IsPath(q, SubSeq(rv, 1, d)) /\ Len(SubSeq(rv, 1, d)) = d
         /\ \A i \in 1 .. d : SubSeq(rv, 1, d)[i] = rv[i]
         /\ VertexValues(q, SubSeq(rv, 1, d)) =
              IF IsVertex(q, d) THEN VertexValues(q, rv) \ {ID(rv[d + 1])}
              ELSE VertexValues(q, rv)
<1> DEFINE w == SubSeq(rv, 1, d)
<1>1. rv \in Seq(Entries)
  BY DEF IsPath
<1>2. w \in Seq(Entries) /\ Len(w) = d /\ \A i \in 1 .. d : w[i] = rv[i]
  BY <1>1, SubSeqProperties
<1>3. \A i \in 0 .. d - 1 : /\ i \in 0 .. Len(rv) - 1 /\ w[i + 1] = rv[i + 1] /\ i # d
                            /\ i \in 0 .. Len(w) - 1
  BY <1>2
<1>4. /\ d \in 0 .. Len(rv) - 1
      /\ \A i \in 0 .. Len(rv) - 1 : i = d \/ i \in 0 .. d - 1
      /\ \A i \in 0 .. Len(w) - 1 : i \in 0 .. d - 1
  BY <1>2
<1> HIDE DEF w
<1>5. IsPath(q, w)
  BY <1>2, <1>3, <1>4 DEF IsPath
<1>6. ASSUME NEW y \in VertexValues(q, w)
      PROVE  y \in VertexValues(q, rv) /\ (IsVertex(q, d) => y # ID(rv[d + 1]))
  <2>1. PICK e \in 0 .. Len(w) - 1 : IsVertex(q, e) /\ y = ID(w[e + 1])
    BY DEF VertexValues
  <2>2. e \in 0 .. Len(rv) - 1 /\ y = ID(rv[e + 1]) /\ e # d
    BY <1>3, <1>4, <2>1
  <2>3. y \in VertexValues(q, rv)
    BY <2>1, <2>2 DEF VertexValues
  <2> QED
    BY <1>4, <2>1, <2>2, <2>3 DEF IsPath
<1>7. ASSUME NEW y \in VertexValues(q, rv), ~ IsVertex(q, d) \/ y # ID(rv[d + 1])
      PROVE  y \in VertexValues(q, w)
  <2>1. PICK e \in 0 .. Len(rv) - 1 : IsVertex(q, e) /\ y = ID(rv[e + 1])
    BY DEF VertexValues
  <2>2. e \in 0 .. d - 1
    BY <1>4, <1>7, <2>1
  <2>3. e \in 0 .. Len(w) - 1 /\ y = ID(w[e + 1])
    BY <1>3, <2>1, <2>2
  <2> QED
    BY <2>1, <2>3 DEF VertexValues
<1> QED
  BY <1>2, <1>5, <1>6, <1>7 DEF w

\* What an array holds when a list was written to its front.
LEMMA OverwriteIs ==
  ASSUME NEW old \in Seq(Entries), NEW new \in Seq(Entries)
  PROVE  /\ Overwrite(old, new) \in Seq(Entries)
         /\ Len(Overwrite(old, new)) >= Len(old)
         /\ Len(Overwrite(old, new)) >= Len(new)
         /\ \A k \in 1 .. Len(new) : Overwrite(old, new)[k] = new[k]
<1> DEFINE r == SubSeq(old, Len(new) + 1, Len(old))
<1>1. Len(old) \in Nat /\ Len(new) \in Nat
  OBVIOUS
<1>2. CASE Len(new) + 1 <= Len(old)
  <2>1. Len(new) + 1 \in 1 .. Len(old) + 1 /\ Len(old) \in Len(new) .. Len(old)
    BY <1>1, <1>2
  <2>2. r \in Seq(Entries) /\ Len(r) = Len(old) - Len(new)
    BY <1>1, <2>1, SubSeqProperties
  <2> HIDE DEF r
  <2>3. /\ new \o r \in Seq(Entries) /\ Len(new \o r) = Len(new) + Len(r)
        /\ \A k \in 1 .. Len(new) : (new \o r)[k] = new[k]
    BY <1>1, <2>2, ConcatProperties
  <2> QED
    BY <1>1, <2>2, <2>3 DEF Overwrite, r
<1>3. CASE Len(new) + 1 > Len(old)
  <2>1. r = <<>>
    BY <1>1, <1>3, SubSeqProperties
  <2>2. Overwrite(old, new) = new \o <<>>
    BY <2>1 DEF Overwrite
  <2>3. new \o <<>> = new
    BY ConcatEmptySeq
  <2> QED
    BY <1>1, <1>3, <2>2, <2>3
<1> QED
  BY <1>1, <1>2, <1>3

LEMMA EntryHasID == \A e \in Entries : ID(e) \in Values
BY DEF Entries, ID

\* The entries of a list of candidates: no two have the same place.
LEMMA CandIs ==
  ASSUME NEW q \in Queries, NEW rv \in Seq(Entries), Len(rv) < Depth(q)
  PROVE  /\ CandList(q, rv) \in Seq(Entries)
         /\ \A i, j \in 1 .. Len(CandList(q, rv)) :
              CandList(q, rv)[i] = CandList(q, rv)[j] => i = j
<1> DEFINE ids == IDs(rv)
           list == Cand(q, ids)
<1>1. /\ Len(rv) \in 0 .. Depth(q) - 1 /\ DOMAIN rv = 1 .. Len(rv)
      /\ \A d \in 1 .. Len(rv) : rv[d] \in Entries
  BY DepthFits
<1>3. ids \in [1 .. Len(rv) -> Values]
  BY <1>1, EntryHasID DEF IDs
<1>4. ids \in Prefixes(q)
  BY <1>1, <1>3 DEF Prefixes
<1> HIDE DEF ids
<1>5. list \in Seq(Values) /\ Len(list) <= Capacity /\ Capacity \in Nat
  BY <1>4, PlanAssumption
<1> HIDE DEF list
<1>6. /\ Len(list) \in Nat
      /\ \A k \in 1 .. Len(list) : list[k] \in Values /\ k \in 1 .. Capacity
  BY <1>5
<1>7. CandList(q, rv) = [k \in 1 .. Len(list) |-> <<list[k], k>>]
  BY DEF CandList, ids, list
<1>8. \A k \in 1 .. Len(list) : <<list[k], k>> \in Entries
  BY <1>6 DEF Entries
<1>9. CandList(q, rv) \in Seq(Entries) /\ Len(CandList(q, rv)) = Len(list)
  BY <1>6, <1>7, <1>8
<1>10. \A k \in 1 .. Len(list) : CandList(q, rv)[k][2] = k
  BY <1>7
<1> QED
  BY <1>9, <1>10

-----------------------------------------------------------------------------
(* Every step                                                              *)

\* A comper on a task: its path is one, and its depth is a depth.
LEMMA AtWork ==
  ASSUME IInv, NEW c \in Compers, Busy(c)
  PROVE  /\ cur_query[c] \in Queries
         /\ IsPath(cur_query[c], result_var[c]) /\ result_var[c] \in Seq(Entries)
         /\ cur_depth[c] = Len(result_var[c])
         /\ cur_depth[c] \in 0 .. Depth(cur_query[c]) - 1
         /\ cur_depth[c] \in Depths
         /\ enter_depth[c] \in 0 .. cur_depth[c]
         /\ idx[c][cur_depth[c]] \in Nat
         /\ idx_count[c][cur_depth[c]] \in Nat
         /\ idx[c][cur_depth[c]] <= idx_count[c][cur_depth[c]]
         /\ idx_count[c][cur_depth[c]] <= Len(can_lists[c][cur_depth[c]])
         /\ Len(can_lists[c][cur_depth[c]]) \in Nat
         /\ visited_arr[c] = VertexValues(cur_query[c], result_var[c])
<1>1. /\ cur_query[c] \in Queries /\ result_var[c] \in Seq(Entries)
      /\ cur_depth[c] \in Nat /\ enter_depth[c] \in Nat
  BY DEF IInv, Types, Busy
<1>2. /\ IsPath(cur_query[c], result_var[c])
      /\ cur_depth[c] = Len(result_var[c])
      /\ cur_depth[c] < Depth(cur_query[c])
      /\ enter_depth[c] <= cur_depth[c]
      /\ visited_arr[c] = VertexValues(cur_query[c], result_var[c])
  BY DEF IInv, Good, Path, Marks
<1>3. cur_depth[c] \in 0 .. Depth(cur_query[c]) - 1 /\ cur_depth[c] \in Depths
  BY <1>1, <1>2, DepthFits
<1>4. enter_depth[c] \in 0 .. cur_depth[c]
  BY <1>1, <1>2
<1>5. /\ idx[c][cur_depth[c]] \in Nat /\ idx_count[c][cur_depth[c]] \in Nat
      /\ can_lists[c][cur_depth[c]] \in Seq(Entries)
  BY <1>3 DEF IInv, Types
<1>6. cur_depth[c] > 0 \/ (Busy(c) /\ enter_depth[c] = 0)
  BY <1>1, <1>2
<1>7. /\ idx[c][cur_depth[c]] <= idx_count[c][cur_depth[c]]
      /\ idx_count[c][cur_depth[c]] <= Len(can_lists[c][cur_depth[c]])
  BY <1>3, <1>6 DEF IInv, Good, Lists
<1> QED
  BY <1>1, <1>2, <1>3, <1>4, <1>5, <1>7

\* The candidate it looks at.
LEMMA Looking ==
  ASSUME IInv, NEW c \in Compers, HasCandidate(c)
  PROVE  /\ Busy(c) /\ Candidate(c) \in Entries
         /\ idx[c][cur_depth[c]] + 1 <= idx_count[c][cur_depth[c]]
         /\ Extended(c) \in Seq(Entries) /\ Len(Extended(c)) = cur_depth[c] + 1
         /\ ~ Taken(c) =>
              /\ IsPath(cur_query[c], Extended(c))
              /\ VertexValues(cur_query[c], Extended(c)) = Mark(c, visited_arr[c])
         /\ ~ AtLast(c) => cur_depth[c] + 1 \in 0 .. Depth(cur_query[c]) - 1
<1>1. Busy(c) /\ idx[c][cur_depth[c]] < idx_count[c][cur_depth[c]]
  BY DEF HasCandidate, Busy
<1>2. /\ idx[c][cur_depth[c]] + 1 \in 1 .. Len(can_lists[c][cur_depth[c]])
      /\ idx[c][cur_depth[c]] + 1 <= idx_count[c][cur_depth[c]]
  BY <1>1, AtWork
<1>3. can_lists[c][cur_depth[c]] \in Seq(Entries)
  BY <1>1, AtWork DEF IInv, Types
<1>4. Candidate(c) \in Entries
  BY <1>2, <1>3 DEF Candidate
<1>5. Extended(c) \in Seq(Entries) /\ Len(Extended(c)) = cur_depth[c] + 1
  BY <1>1, <1>4, AtWork, AppendProperties DEF Extended
<1>6. ASSUME ~ Taken(c)
      PROVE  /\ IsPath(cur_query[c], Extended(c))
             /\ VertexValues(cur_query[c], Extended(c)) = Mark(c, visited_arr[c])
  <2> DEFINE q == cur_query[c]
             rv == result_var[c]
             x == Candidate(c)
  <2>1. IsPath(q, rv) /\ cur_depth[c] = Len(rv) /\ visited_arr[c] = VertexValues(q, rv)
    BY <1>1, AtWork
  <2>2. IsVertex(q, Len(rv)) => ID(x) \notin VertexValues(q, rv)
    BY <1>6, <2>1 DEF Taken, AtVertex
  <2>3. Extended(c) = Append(rv, x)
    BY DEF Extended
  <2>4. Mark(c, visited_arr[c]) =
          VertexValues(q, rv) \cup (IF IsVertex(q, Len(rv)) THEN {ID(x)} ELSE {})
    BY <2>1 DEF Mark, AtVertex
  <2> HIDE DEF q, rv, x
  <2>5. /\ IsPath(q, Append(rv, x))
        /\ VertexValues(q, Append(rv, x)) =
             VertexValues(q, rv) \cup (IF IsVertex(q, Len(rv)) THEN {ID(x)} ELSE {})
    BY <1>4, <2>1, <2>2, PathGrows DEF x
  <2>6. IsPath(q, Extended(c)) /\ VertexValues(q, Extended(c)) = Mark(c, visited_arr[c])
    BY <2>3, <2>4, <2>5
  <2> QED
    BY <2>6 DEF q
<1>7. ASSUME ~ AtLast(c) PROVE cur_depth[c] + 1 \in 0 .. Depth(cur_query[c]) - 1
  <2>1. cur_depth[c] # Depth(cur_query[c]) - 1 /\ Depth(cur_query[c]) \in Nat
    BY <1>1, <1>7, AtWork, DepthFits DEF AtLast
  <2> QED
    BY <1>1, <2>1, AtWork
<1> QED
  BY <1>1, <1>2, <1>4, <1>5, <1>6, <1>7

\* What belongs to a comper.
Own(c) == <<cur_query[c], enter_depth[c], cur_depth[c], result_var[c], can_lists[c],
            idx[c], idx_count[c], visited_arr[c]>>

LEMMA OthersStay ==
  ASSUME IInv, NEW d \in Compers, UNCHANGED Own(d)
  PROVE  Good(d)'
BY DEF IInv, Own, Good, Path, Lists, Marks, Busy

\* A comper takes a task.
LEMMA EnterStep ==
  ASSUME IInv, NEW c \in Compers, NEW q \in Queries, Enter(c, q)
  PROVE  IInv'
<1>1. PICK rv \in BagToSet(tasks[q]) :
        LET d == Len(rv)
            cands == CandList(q, rv)
            at == IF IsVertex(q, d) THEN d ELSE 0
        IN
        /\ tasks' = [tasks EXCEPT ![q] = @ (-) Bagged(rv)]
        /\ cur_query' = [cur_query EXCEPT ![c] = q]
        /\ enter_depth' = [enter_depth EXCEPT ![c] = d]
        /\ cur_depth' = [cur_depth EXCEPT ![c] = d]
        /\ result_var' = [result_var EXCEPT ![c] = rv]
        /\ can_lists' = [can_lists EXCEPT ![c][d] = Overwrite(@, cands)]
        /\ idx' = [idx EXCEPT ![c][at] = 0]
        /\ idx_count' = [idx_count EXCEPT ![c][at] = Len(cands)]
        /\ visited_arr' = [visited_arr EXCEPT ![c] = @ \cup VertexValues(q, rv)]
        /\ late' = [late EXCEPT ![c] = FALSE]
  BY DEF Enter
<1> DEFINE d == Len(rv)
           cands == CandList(q, rv)
           at == IF IsVertex(q, d) THEN d ELSE 0
           list == Overwrite(can_lists[c][d], cands)
<1>2. /\ ~ Busy(c) /\ UNCHANGED <<phase, found>>
  BY DEF Enter, Busy
<1>3. /\ IsPath(q, rv) /\ rv \in Seq(Entries) /\ d \in Nat /\ d < Depth(q)
      /\ d \in Depths /\ 0 \in Depths /\ at \in Depths /\ (d = 0 => at = 0)
  <2>1. IsPath(q, rv) /\ Len(rv) < Depth(q)
    BY DEF IInv, Waiting
  <2>2. rv \in Seq(Entries) /\ d \in Nat
    BY <2>1 DEF IsPath
  <2> QED
    BY <2>1, <2>2, DepthFits
<1>4. cands \in Seq(Entries) /\ Len(cands) \in Nat
  BY <1>3, CandIs
<1>5. /\ list \in Seq(Entries) /\ Len(list) \in Nat
      /\ Len(list) >= Len(can_lists[c][d]) /\ Len(list) >= Len(cands)
  <2>1. can_lists[c][d] \in Seq(Entries)
    BY <1>3 DEF IInv, Types
  <2> HIDE DEF cands
  <2> QED
    BY <1>4, <2>1, OverwriteIs
<1>6. /\ IsABag(tasks[q] (-) Bagged(rv))
      /\ BagToSet(tasks[q] (-) Bagged(rv)) \subseteq BagToSet(tasks[q])
  BY BagLoses DEF IInv, Types
<1>7. VertexValues(q, rv) \subseteq Values
  <2>1. \A e \in 0 .. Len(rv) - 1 : rv[e + 1] \in Entries
    BY <1>3
  <2> QED
    BY <2>1, EntryHasID DEF VertexValues
<1>8. /\ tasks' = [tasks EXCEPT ![q] = tasks[q] (-) Bagged(rv)]
      /\ cur_query' = [cur_query EXCEPT ![c] = q]
      /\ enter_depth' = [enter_depth EXCEPT ![c] = d]
      /\ cur_depth' = [cur_depth EXCEPT ![c] = d]
      /\ result_var' = [result_var EXCEPT ![c] = rv]
      /\ can_lists' = [can_lists EXCEPT ![c][d] = list]
      /\ idx' = [idx EXCEPT ![c][at] = 0]
      /\ idx_count' = [idx_count EXCEPT ![c][at] = Len(cands)]
      /\ visited_arr' = [visited_arr EXCEPT ![c] = @ \cup VertexValues(q, rv)]
      /\ late' = [late EXCEPT ![c] = FALSE]
  BY <1>1
<1>9. Types
  BY DEF IInv
<1> HIDE DEF d, cands, at, list
<1>10. Types'
  <2>1. /\ DOMAIN tasks' = Queries /\ DOMAIN found' = Queries
        /\ \A r \in Queries : IsABag(tasks'[r]) /\ IsABag(found'[r])
    BY <1>2, <1>6, <1>8, <1>9 DEF Types
  <2>2. /\ phase' \in [Queries -> {"new", "running", "done"}]
        /\ cur_query' \in [Compers -> Queries \cup {NoQuery}]
        /\ enter_depth' \in [Compers -> Nat] /\ cur_depth' \in [Compers -> Nat]
        /\ result_var' \in [Compers -> Seq(Entries)] /\ late' \in [Compers -> BOOLEAN]
    BY <1>2, <1>3, <1>8, <1>9 DEF Types
  <2>3. can_lists' \in [Compers -> [Depths -> Seq(Entries)]]
    BY <1>5, <1>8, <1>9 DEF Types
  <2>4. /\ idx' \in [Compers -> [Depths -> Nat]]
        /\ idx_count' \in [Compers -> [Depths -> Nat]]
    BY <1>4, <1>8, <1>9 DEF Types
  <2>5. visited_arr' \in [Compers -> SUBSET Values]
    BY <1>7, <1>8, <1>9 DEF Types
  <2> QED
    BY <2>1, <2>2, <2>3, <2>4, <2>5 DEF Types
<1>11. Waiting'
  BY <1>6, <1>8, <1>9 DEF IInv, Waiting, Types
<1>12. ASSUME NEW e \in Compers, e # c PROVE Good(e)'
  <2>1. UNCHANGED Own(e)
    BY <1>8, <1>9, <1>12 DEF Own, Types
  <2> QED
    BY <2>1, OthersStay
<1>13. /\ cur_query'[c] = q /\ enter_depth'[c] = d /\ cur_depth'[c] = d
       /\ result_var'[c] = rv /\ can_lists'[c][d] = list
       /\ \A e \in Depths \ {d} : can_lists'[c][e] = can_lists[c][e]
       /\ idx'[c][at] = 0 /\ idx_count'[c][at] = Len(cands)
       /\ \A e \in Depths \ {at} : /\ idx'[c][e] = idx[c][e]
                                   /\ idx_count'[c][e] = idx_count[c][e]
       /\ visited_arr'[c] = visited_arr[c] \cup VertexValues(q, rv)
  BY <1>3, <1>8, <1>9 DEF Types
<1>14. Path(c)'
  BY <1>3, <1>13 DEF Path, d
<1>15. Marks(c)'
  <2>1. visited_arr[c] = {} /\ q # NoQuery
    BY <1>2, DfsAssumption DEF IInv, Good, Marks
  <2> QED
    BY <1>13, <2>1 DEF Marks, Busy
<1>16. Lists(c)'
  <2> SUFFICES ASSUME NEW e \in Depths, e > 0 \/ d = 0
               PROVE  /\ idx'[c][e] <= idx_count'[c][e]
                      /\ idx_count'[c][e] <= Len(can_lists'[c][e])
    BY <1>13 DEF Lists
  <2>1. e \in Nat /\ idx[c][e] \in Nat /\ idx_count[c][e] \in Nat
        /\ Len(can_lists[c][e]) \in Nat
    <3>1. e \in Nat
      BY DEF Depths
    <3>2. can_lists[c][e] \in Seq(Entries) /\ idx[c][e] \in Nat /\ idx_count[c][e] \in Nat
      BY <1>9 DEF Types
    <3> QED
      BY <3>1, <3>2
  <2>2. CASE e = at
    <3>1. e = d
      BY <1>3, <2>1, <2>2 DEF at
    <3> QED
      BY <1>4, <1>5, <1>13, <2>2, <3>1
  <2>3. CASE e # at
    <3>1. e # 0
      BY <1>3, <2>3
    <3>2. idx[c][e] <= idx_count[c][e] /\ idx_count[c][e] <= Len(can_lists[c][e])
      BY <2>1, <3>1 DEF IInv, Good, Lists
    <3>3. Len(can_lists'[c][e]) >= Len(can_lists[c][e]) /\ Len(can_lists'[c][e]) \in Nat
      BY <1>5, <1>13, <2>1
    <3> QED
      BY <1>13, <2>1, <2>3, <3>2, <3>3
  <2> QED
    BY <2>2, <2>3
<1> QED
  BY <1>10, <1>11, <1>12, <1>14, <1>15, <1>16 DEF IInv, Good

\* It goes on to the next candidate: nothing, a match or a task comes of it.
LEMMA AdvanceStep ==
  ASSUME IInv, NEW c \in Compers, HasCandidate(c), Advance(c),
         UNCHANGED <<phase, cur_query, enter_depth, cur_depth, result_var, can_lists,
                     idx_count, visited_arr, late>>,
         DOMAIN tasks' = Queries, DOMAIN found' = Queries,
         \A q \in Queries : IsABag(tasks'[q]) /\ IsABag(found'[q]),
         Waiting'
  PROVE  IInv'
<1> DEFINE d == cur_depth[c]
<1>1. /\ d \in Depths /\ idx[c][d] \in Nat /\ idx[c][d] + 1 <= idx_count[c][d]
  BY AtWork, Looking
<1>2. Types
  BY DEF IInv
<1>3. idx' = [idx EXCEPT ![c][d] = idx[c][d] + 1]
  BY DEF Advance
<1> HIDE DEF d
<1>4. Types'
  <2>1. idx' \in [Compers -> [Depths -> Nat]]
    <3>1. idx[c][d] + 1 \in Nat
      BY <1>1
    <3> QED
      BY <1>2, <1>3, <3>1 DEF Types
  <2> QED
    BY <1>2, <2>1 DEF Types
<1>5. /\ \A e \in Compers \ {c} : idx'[e] = idx[e]
      /\ \A e \in Depths : \/ idx'[c][e] = idx[c][e]
                           \/ e = d /\ idx'[c][e] = idx[c][d] + 1
  BY <1>1, <1>2, <1>3 DEF Types
<1>6. ASSUME NEW e \in Compers PROVE Good(e)'
  <2>1. CASE e # c
    BY <1>5, <2>1, OthersStay DEF Own
  <2>2. CASE e = c
    BY <1>1, <1>5, <2>2 DEF IInv, Good, Path, Lists, Marks, Busy
  <2> QED
    BY <2>1, <2>2
<1> QED
  BY <1>4, <1>6 DEF IInv

\* It goes down, to the candidates of the next depth.
LEMMA DescendStep ==
  ASSUME IInv, NEW c \in Compers, Descend(c)
  PROVE  IInv'
<1> DEFINE d == cur_depth[c]
           q == cur_query[c]
           w == Extended(c)
           cands == CandList(q, w)
           list == Overwrite(can_lists[c][d + 1], cands)
<1>1. HasCandidate(c) /\ ~ Taken(c) /\ ~ AtLast(c)
  BY DEF Descend
<1>2. /\ visited_arr' = [visited_arr EXCEPT ![c] = Mark(c, @)]
      /\ result_var' = [result_var EXCEPT ![c] = w]
      /\ cur_depth' = [cur_depth EXCEPT ![c] = d + 1]
      /\ can_lists' = [can_lists EXCEPT ![c][d + 1] = list]
      /\ idx' = [idx EXCEPT ![c][d] = @ + 1, ![c][d + 1] = 0]
      /\ idx_count' = [idx_count EXCEPT ![c][d + 1] = Len(cands)]
      /\ UNCHANGED <<phase, tasks, found, cur_query, enter_depth, late>>
  BY DEF Descend
<1>3. /\ Busy(c) /\ q \in Queries /\ d \in Nat /\ d \in Depths
      /\ d + 1 \in 0 .. Depth(q) - 1 /\ d + 1 \in Depths
      /\ enter_depth[c] <= d /\ enter_depth[c] \in Nat
      /\ IsPath(q, w) /\ w \in Seq(Entries) /\ Len(w) = d + 1
      /\ VertexValues(q, w) = Mark(c, visited_arr[c])
      /\ idx[c][d] \in Nat /\ idx[c][d] + 1 <= idx_count[c][d]
  <2>1. /\ Busy(c) /\ d + 1 \in 0 .. Depth(q) - 1
        /\ IsPath(q, w) /\ w \in Seq(Entries) /\ Len(w) = d + 1
        /\ VertexValues(q, w) = Mark(c, visited_arr[c])
        /\ idx[c][d] + 1 <= idx_count[c][d]
    BY <1>1, Looking
  <2>2. /\ q \in Queries /\ d \in Nat /\ d \in Depths /\ enter_depth[c] <= d
        /\ enter_depth[c] \in Nat /\ idx[c][d] \in Nat
    BY <2>1, AtWork
  <2>3. d + 1 \in Depths
    BY <2>1, <2>2, DepthFits
  <2> QED
    BY <2>1, <2>2, <2>3
<1>4. cands \in Seq(Entries) /\ Len(cands) \in Nat
  <2>1. Len(w) < Depth(q)
    BY <1>3, DepthFits
  <2> HIDE DEF w, q
  <2> QED
    BY <1>3, <2>1, CandIs
<1>5. /\ list \in Seq(Entries) /\ Len(list) \in Nat /\ Len(list) >= Len(cands)
  <2>1. can_lists[c][d + 1] \in Seq(Entries)
    BY <1>3 DEF IInv, Types
  <2> HIDE DEF cands
  <2> QED
    BY <1>4, <2>1, OverwriteIs
<1>6. Types
  BY DEF IInv
<1>7. Mark(c, visited_arr[c]) \in SUBSET Values
  BY <1>1, <1>6, Looking, EntryHasID DEF Mark, Types
<1> HIDE DEF d, q, w, cands, list
<1>8. Types'
  <2>1. /\ result_var' \in [Compers -> Seq(Entries)]
        /\ cur_depth' \in [Compers -> Nat]
    BY <1>2, <1>3, <1>6 DEF Types
  <2>2. can_lists' \in [Compers -> [Depths -> Seq(Entries)]]
    BY <1>2, <1>3, <1>5, <1>6 DEF Types
  <2>3. idx_count' \in [Compers -> [Depths -> Nat]]
    BY <1>2, <1>3, <1>4, <1>6 DEF Types
  <2>4. idx' \in [Compers -> [Depths -> Nat]]
    <3>1. idx[c][d] + 1 \in Nat /\ 0 \in Nat
      BY <1>3
    <3> QED
      BY <1>2, <1>3, <1>6, <3>1 DEF Types
  <2>5. visited_arr' \in [Compers -> SUBSET Values]
    BY <1>2, <1>6, <1>7 DEF Types
  <2> QED
    BY <1>2, <1>6, <2>1, <2>2, <2>3, <2>4, <2>5 DEF Types
<1>9. Waiting'
  BY <1>2 DEF IInv, Waiting
<1>10. ASSUME NEW e \in Compers, e # c PROVE Good(e)'
  <2>1. UNCHANGED Own(e)
    BY <1>2, <1>6, <1>10 DEF Own, Types
  <2> QED
    BY <2>1, OthersStay
<1>11. /\ cur_query'[c] = q /\ enter_depth'[c] = enter_depth[c] /\ cur_depth'[c] = d + 1
       /\ result_var'[c] = w /\ can_lists'[c][d + 1] = list
       /\ \A e \in Depths \ {d + 1} : can_lists'[c][e] = can_lists[c][e]
       /\ idx_count'[c][d + 1] = Len(cands)
       /\ \A e \in Depths \ {d + 1} : idx_count'[c][e] = idx_count[c][e]
       /\ visited_arr'[c] = Mark(c, visited_arr[c])
  BY <1>2, <1>3, <1>6 DEF Types, q
<1>12. /\ idx'[c][d + 1] = 0 /\ idx'[c][d] = idx[c][d] + 1
       /\ \A e \in Depths \ {d, d + 1} : idx'[c][e] = idx[c][e]
  <2>1. d # d + 1
    BY <1>3
  <2> QED
    BY <1>2, <1>3, <1>6, <2>1 DEF Types
<1>13. Path(c)'
  <2>1. d + 1 < Depth(q)
    BY <1>3, DepthFits
  <2>2. enter_depth[c] <= d + 1
    BY <1>3
  <2>3. IsPath(cur_query[c], result_var[c])'
    <3>1. IsPath(q, w)
      BY <1>3
    <3> QED
      BY <1>11, <3>1 DEF IsPath
  <2>4. cur_depth'[c] = Len(result_var'[c])
    BY <1>3, <1>11
  <2> QED
    BY <1>11, <2>1, <2>2, <2>3, <2>4 DEF Path
<1>14. Marks(c)'
  <2>1. cur_query'[c] # NoQuery
    <3>1. q # NoQuery
      BY <1>3, DfsAssumption
    <3> QED
      BY <1>11, <3>1
  <2>2. visited_arr'[c] = VertexValues(q, w)
    <3>1. VertexValues(q, w) = Mark(c, visited_arr[c])
      BY <1>3
    <3>2. visited_arr'[c] = Mark(c, visited_arr[c])
      BY <1>11
    <3> QED
      BY <3>1, <3>2, Zenon
  <2>3. VertexValues(cur_query[c], result_var[c])' = VertexValues(q, w)
    BY <1>11 DEF VertexValues
  <2> QED
    BY <2>1, <2>2, <2>3 DEF Marks, Busy
<1>15. Lists(c)'
  <2> SUFFICES ASSUME NEW e \in Depths, e > 0 \/ enter_depth[c] = 0
               PROVE  /\ idx'[c][e] <= idx_count'[c][e]
                      /\ idx_count'[c][e] <= Len(can_lists'[c][e])
    BY <1>11 DEF Lists
  <2>1. e # d + 1 =>
          idx[c][e] <= idx_count[c][e] /\ idx_count[c][e] <= Len(can_lists[c][e])
    BY <1>3 DEF IInv, Good, Lists
  <2>2. CASE e = d + 1
    BY <1>4, <1>5, <1>11, <1>12, <2>2
  <2>3. CASE e = d
    BY <1>3, <1>11, <1>12, <2>1, <2>3
  <2>4. CASE e # d + 1 /\ e # d
    BY <1>11, <1>12, <2>1, <2>4
  <2> QED
    BY <2>2, <2>3, <2>4
<1> QED
  BY <1>8, <1>9, <1>10, <1>13, <1>14, <1>15 DEF IInv, Good

\* It goes back to the depth above.
LEMMA BacktrackStep ==
  ASSUME IInv, NEW c \in Compers, Backtrack(c)
  PROVE  IInv'
<1> DEFINE d == cur_depth[c] - 1
           q == cur_query[c]
           rv == result_var[c]
           w == SubSeq(rv, 1, d)
<1>1. /\ Busy(c) /\ cur_depth[c] > enter_depth[c]
      /\ cur_depth' = [cur_depth EXCEPT ![c] = d]
      /\ result_var' = [result_var EXCEPT ![c] = w]
      /\ visited_arr' = [visited_arr EXCEPT ![c] =
                           IF IsVertex(q, d) THEN @ \ {ID(rv[d + 1])} ELSE @]
      /\ UNCHANGED <<phase, tasks, found, cur_query, enter_depth, can_lists, idx,
                     idx_count, late>>
  BY DEF Backtrack, Busy
<1>2. /\ IsPath(q, rv) /\ d \in Nat /\ Len(rv) = d + 1 /\ d < Depth(q)
      /\ enter_depth[c] <= d /\ visited_arr[c] = VertexValues(q, rv) /\ q \in Queries
  <2>1. /\ IsPath(q, rv) /\ cur_depth[c] = Len(rv) /\ q \in Queries
        /\ cur_depth[c] \in 0 .. Depth(q) - 1 /\ enter_depth[c] \in 0 .. cur_depth[c]
        /\ visited_arr[c] = VertexValues(q, rv)
    BY <1>1, AtWork
  <2>2. Depth(q) \in Nat
    BY <2>1, DepthFits
  <2> QED
    BY <1>1, <2>1, <2>2
<1> HIDE DEF d
<1>3. /\ IsPath(q, w) /\ Len(w) = d /\ w \in Seq(Entries)
      /\ VertexValues(q, w) = IF IsVertex(q, d) THEN VertexValues(q, rv) \ {ID(rv[d + 1])}
                              ELSE VertexValues(q, rv)
  <2> HIDE DEF q, rv
  <2> QED
    BY <1>2, PathShrinks DEF IsPath
<1>4. Types
  BY DEF IInv
<1> HIDE DEF w, q, rv
<1>5. Types'
  BY <1>1, <1>2, <1>3, <1>4 DEF Types
<1>6. Waiting'
  BY <1>1 DEF IInv, Waiting
<1>7. ASSUME NEW e \in Compers, e # c PROVE Good(e)'
  <2>1. UNCHANGED Own(e)
    BY <1>1, <1>4, <1>7 DEF Own, Types
  <2> QED
    BY <2>1, OthersStay
<1>8. /\ cur_query'[c] = q /\ enter_depth'[c] = enter_depth[c] /\ cur_depth'[c] = d
      /\ result_var'[c] = w /\ can_lists'[c] = can_lists[c]
      /\ idx'[c] = idx[c] /\ idx_count'[c] = idx_count[c]
      /\ visited_arr'[c] = VertexValues(q, w)
  BY <1>1, <1>2, <1>3, <1>4 DEF Types, q
<1>9. Path(c)' /\ Marks(c)'
  BY <1>2, <1>3, <1>8, DfsAssumption DEF Path, Marks, Busy
<1>10. Lists(c)'
  BY <1>1, <1>8 DEF IInv, Good, Lists, Busy, q
<1> QED
  BY <1>5, <1>6, <1>7, <1>9, <1>10 DEF IInv, Good

\* It is done with its task.
LEMMA LeaveStep ==
  ASSUME IInv, NEW c \in Compers, Leave(c)
  PROVE  IInv'
<1>1. /\ Busy(c)
      /\ cur_query' = [cur_query EXCEPT ![c] = NoQuery]
      /\ enter_depth' = [enter_depth EXCEPT ![c] = 0]
      /\ cur_depth' = [cur_depth EXCEPT ![c] = 0]
      /\ result_var' = [result_var EXCEPT ![c] = <<>>]
      /\ late' = [late EXCEPT ![c] = FALSE]
      /\ visited_arr' = [visited_arr EXCEPT ![c] =
                           @ \ VertexValues(cur_query[c], result_var[c])]
      /\ UNCHANGED <<phase, tasks, found, can_lists, idx, idx_count>>
  BY DEF Leave, EndTask, Busy
<1>2. Types
  BY DEF IInv
<1>3. Types'
  <2>1. <<>> \in Seq(Entries)
    OBVIOUS
  <2> QED
    BY <1>1, <1>2, <2>1 DEF Types
<1>4. Waiting'
  BY <1>1 DEF IInv, Waiting
<1>5. ASSUME NEW e \in Compers, e # c PROVE Good(e)'
  <2>1. UNCHANGED Own(e)
    BY <1>1, <1>2, <1>5 DEF Own, Types
  <2> QED
    BY <2>1, OthersStay
<1>6. visited_arr[c] = VertexValues(cur_query[c], result_var[c])
  BY <1>1, AtWork
<1>7. cur_query'[c] = NoQuery /\ visited_arr'[c] = {}
  BY <1>1, <1>2, <1>6 DEF Types
<1>8. Good(c)'
  BY <1>1, <1>7 DEF IInv, Good, Path, Lists, Marks, Busy
<1> QED
  BY <1>3, <1>4, <1>5, <1>8 DEF IInv

LEMMA InitIInv ==
  ASSUME Init
  PROVE  IInv
<1>1. IsABag(EmptyBag) /\ BagToSet(EmptyBag) = {}
  BY DEF EmptyBag, SetToBag, IsABag, BagToSet
<1>2. <<>> \in Seq(Entries)
  OBVIOUS
<1>3. Types
  BY <1>1, <1>2 DEF Init, Types
<1>4. Waiting
  BY <1>1 DEF Init, Waiting
<1>5. ASSUME NEW c \in Compers PROVE Good(c)
  <2>1. /\ cur_query[c] = NoQuery /\ visited_arr[c] = {}
        /\ \A d \in Depths : idx[c][d] = 0 /\ idx_count[c][d] = 0 /\ can_lists[c][d] = <<>>
    BY DEF Init
  <2>2. Len(<<>>) = 0
    OBVIOUS
  <2> QED
    BY <2>1, <2>2 DEF Good, Path, Lists, Marks, Busy
<1> QED
  BY <1>3, <1>4, <1>5 DEF IInv

LEMMA NextIInv ==
  ASSUME IInv, [Next]_vars
  PROVE  IInv'
<1> USE DEF IInv
<1>1. Types /\ Waiting /\ \A q \in Queries : IsABag(tasks[q]) /\ IsABag(found[q])
  BY DEF Types
<1>2. ASSUME UNCHANGED search, phase' \in [Queries -> {"new", "running", "done"}],
             DOMAIN tasks' = Queries, UNCHANGED found, Waiting',
             \A q \in Queries : IsABag(tasks'[q])
      PROVE  IInv'
  <2>1. Types'
    BY <1>2 DEF Types, search
  <2>2. \A c \in Compers : Good(c)'
    BY <1>2, OthersStay DEF search, Own
  <2> QED
    BY <1>2, <2>1, <2>2
<1>3. ASSUME UNCHANGED vars PROVE IInv'
  BY <1>1, <1>2, <1>3 DEF vars, Waiting, Types
<1>4. ASSUME NEW q \in Queries, Spawn(q) PROVE IInv'
  <2>1. /\ phase' = [phase EXCEPT ![q] = "running"]
        /\ tasks' = [tasks EXCEPT ![q] = Bagged(<<>>)] /\ UNCHANGED <<found, search>>
    BY <1>4 DEF Spawn
  <2>2. \A r \in Queries : IsABag(tasks'[r])
    BY <1>1, <2>1, BaggedIs DEF Types
  <2>3. IsPath(q, <<>>) /\ Len(<<>>) < Depth(q)
    BY DfsAssumption DEF IsPath
  <2>4. Waiting'
    <3>1. ASSUME NEW r \in Queries, NEW rv \in BagToSet(tasks'[r])
          PROVE  IsPath(r, rv) /\ Len(rv) < Depth(r)
      <4>1. CASE r = q
        <5>1. tasks'[r] = Bagged(<<>>)
          BY <1>1, <2>1, <4>1 DEF Types
        <5>2. rv = <<>>
          BY <5>1, BaggedIs
        <5> QED
          BY <2>3, <4>1, <5>2
      <4>2. CASE r # q
        <5>1. tasks'[r] = tasks[r]
          BY <1>1, <2>1, <4>2 DEF Types
        <5> QED
          BY <1>1, <5>1 DEF Waiting
      <4> QED
        BY <4>1, <4>2
    <3> QED
      BY <3>1 DEF Waiting
  <2> QED
    BY <1>1, <1>2, <2>1, <2>2, <2>4 DEF Types
<1>5. ASSUME NEW q \in Queries, Report(q) PROVE IInv'
  BY <1>1, <1>2, <1>5 DEF Report, Waiting, Types
<1>6. ASSUME NEW c \in Compers, GetLate(c) PROVE IInv'
  <2>1. Types' /\ Waiting'
    BY <1>1, <1>6 DEF GetLate, Types, Waiting
  <2>2. \A d \in Compers : Good(d)'
    BY <1>6, OthersStay DEF GetLate, Own
  <2> QED
    BY <2>1, <2>2
<1>7. ASSUME NEW c \in Compers, SkipTaken(c) PROVE IInv'
  BY <1>1, <1>7, AdvanceStep DEF SkipTaken, Types, Waiting
<1>8. ASSUME NEW c \in Compers, Match(c) PROVE IInv'
  <2>1. /\ HasCandidate(c) /\ Advance(c)
        /\ found' = [found EXCEPT ![cur_query[c]] = @ (+) Bagged(Extended(c))]
        /\ UNCHANGED <<phase, tasks, cur_query, enter_depth, cur_depth, result_var,
                       can_lists, idx_count, visited_arr, late>>
    BY <1>8 DEF Match
  <2>2. PICK q \in Queries : q = cur_query[c]
    BY <2>1, AtWork, Looking
  <2>3. IsABag(found[q] (+) Bagged(Extended(c)))
    BY <1>1, BagGains
  <2>4. DOMAIN found' = Queries /\ \A r \in Queries : IsABag(found'[r])
    BY <1>1, <2>1, <2>2, <2>3 DEF Types
  <2>5. Waiting'
    BY <1>1, <2>1 DEF Waiting
  <2> QED
    BY <1>1, <2>1, <2>4, <2>5, AdvanceStep DEF Types
<1>9. ASSUME NEW c \in Compers, Split(c) PROVE IInv'
  <2> DEFINE w == Extended(c)
  <2>1. /\ HasCandidate(c) /\ ~ Taken(c) /\ ~ AtLast(c) /\ Advance(c)
        /\ tasks' = [tasks EXCEPT ![cur_query[c]] = @ (+) Bagged(w)]
        /\ UNCHANGED <<phase, found, cur_query, enter_depth, cur_depth, result_var,
                       can_lists, idx_count, visited_arr, late>>
    BY <1>9 DEF Split
  <2>2. PICK q \in Queries : q = cur_query[c]
    BY <2>1, AtWork, Looking
  <2>3. IsPath(q, w) /\ Len(w) < Depth(q)
    <3>1. IsPath(q, w) /\ Len(w) \in 0 .. Depth(q) - 1
      BY <2>1, <2>2, Looking
    <3> QED
      BY <3>1, DfsAssumption
  <2> HIDE DEF w
  <2>4. /\ IsABag(tasks[q] (+) Bagged(w))
        /\ BagToSet(tasks[q] (+) Bagged(w)) = BagToSet(tasks[q]) \cup {w}
    BY <1>1, BagGains
  <2>5. /\ DOMAIN tasks' = Queries /\ tasks'[q] = tasks[q] (+) Bagged(w)
        /\ \A r \in Queries \ {q} : tasks'[r] = tasks[r]
    BY <1>1, <2>1, <2>2 DEF Types
  <2>6. \A r \in Queries : IsABag(tasks'[r])
    BY <1>1, <2>4, <2>5
  <2>7. Waiting'
    <3>1. ASSUME NEW r \in Queries, NEW rv \in BagToSet(tasks'[r])
          PROVE  IsPath(r, rv) /\ Len(rv) < Depth(r)
      <4>1. CASE r = q
        BY <1>1, <2>3, <2>4, <2>5, <4>1 DEF Waiting
      <4>2. CASE r # q
        BY <1>1, <2>5, <4>2 DEF Waiting
      <4> QED
        BY <4>1, <4>2
    <3> QED
      BY <3>1 DEF Waiting
  <2> QED
    BY <1>1, <2>1, <2>5, <2>6, <2>7, AdvanceStep DEF Types
<1>10. ASSUME NEW c \in Compers, Comper(c) PROVE IInv'
  BY <1>7, <1>8, <1>9, <1>10, EnterStep, DescendStep, BacktrackStep, LeaveStep
     DEF Comper, Work
<1> QED
  BY <1>3, <1>4, <1>5, <1>6, <1>10 DEF Next

-----------------------------------------------------------------------------
(* What is proved: the marks                                               *)

\* A task that waits is a partial match; the path of a comper is one, with the
\* marks of its vertices and no other; what a comper reads of its lists is there
\* (dfs_iterative_style_HW, app_rdf.h 1165-1662).
THEOREM Invariance == Spec => []IInv
<1>1. Init => IInv
  BY InitIInv
<1>2. IInv /\ [Next]_vars => IInv'
  BY NextIInv
<1> QED
  BY <1>1, <1>2, PTL DEF Spec

\* visited_arr holds the values of the vertices matched so far and, between two
\* tasks, nothing: whichever query the next task is of.
THEOREM MarksAreThePath == Spec => []VisitedIsThePath
<1>1. ASSUME IInv PROVE VisitedIsThePath
  <2>1. Types
    BY <1>1 DEF IInv
  <2>2. ASSUME NEW c \in Compers, cur_query[c] # NoQuery
        PROVE  /\ enter_depth[c] \in 0 .. cur_depth[c]
               /\ cur_depth[c] = Len(result_var[c])
               /\ cur_depth[c] < Depth(cur_query[c])
               /\ \A d \in enter_depth[c] .. cur_depth[c] :
                    /\ idx[c][d] <= idx_count[c][d]
                    /\ idx_count[c][d] <= Len(can_lists[c][d])
    <3>1. Busy(c)
      BY <2>2 DEF Busy
    <3>2. /\ enter_depth[c] \in 0 .. cur_depth[c]
          /\ cur_depth[c] = Len(result_var[c])
          /\ cur_query[c] \in Queries
          /\ cur_depth[c] \in 0 .. Depth(cur_query[c]) - 1
      BY <1>1, <3>1, AtWork
    <3>3. ASSUME NEW d \in enter_depth[c] .. cur_depth[c]
          PROVE  /\ idx[c][d] <= idx_count[c][d]
                 /\ idx_count[c][d] <= Len(can_lists[c][d])
      <4>1. d \in 0 .. Depth(cur_query[c]) - 1
        BY <3>2, DepthFits
      <4>2. d \in Depths /\ (d > 0 \/ enter_depth[c] = 0)
        BY <3>2, <4>1, DepthFits
      <4> QED
        BY <1>1, <3>1, <4>2 DEF IInv, Good, Lists
    <3> QED
      BY <3>2, <3>3, DepthFits
  <2>3. TypeOK
    BY <2>1, <2>2 DEF TypeOK, Types
  <2>4. \A c \in Compers :
          visited_arr[c] = IF cur_query[c] = NoQuery THEN {}
                           ELSE VertexValues(cur_query[c], result_var[c])
    BY <1>1 DEF IInv, Good, Marks, Busy
  <2> QED
    BY <2>3, <2>4 DEF VisitedIsThePath
<1> QED
  BY <1>1, Invariance, PTL

-----------------------------------------------------------------------------
(* Where a way to a match is                                               *)

\* A task that enters behind the first depth, at a predicate variable, finds
\* stale indexes (see Enter): what follows holds of queries that are never
\* split there.
NoSplitPU == \A q \in Slow : \A d \in 1 .. Depth(q) - 1 : IsVertex(q, d)

\* The candidates of depth d, after the first d values.
CandAt(q, rv, d) == CandList(q, SubSeq(rv, 1, d))

\* Every value of a partial match was a candidate.
Possible(q, rv) ==
  \A d \in 0 .. Len(rv) - 1 :
    \E k \in 1 .. Len(CandAt(q, rv, d)) : CandAt(q, rv, d)[k] = rv[d + 1]

Waits(q) == \A rv \in BagToSet(tasks[q]) :
  phase[q] = "running" /\ Possible(q, rv) /\ (Len(rv) > 0 => q \in Slow)

\* A list of the current task is in its array, as long as it is.
Filled(c, d) ==
  /\ idx_count[c][d] = Len(CandAt(cur_query[c], result_var[c], d))
  /\ \A k \in 1 .. idx_count[c][d] :
       can_lists[c][d][k] = CandAt(cur_query[c], result_var[c], d)[k]

\* The value of a depth is the one its index has just passed.
Passed(c, d) == /\ idx[c][d] \in 1 .. idx_count[c][d]
                /\ result_var[c][d + 1] = can_lists[c][d][idx[c][d]]

Searches(c) == Busy(c) =>
  /\ phase[cur_query[c]] = "running"
  /\ late[c] => cur_query[c] \in Slow
  /\ Possible(cur_query[c], result_var[c])
  /\ \A d \in enter_depth[c] .. cur_depth[c] : Filled(c, d)
  /\ \A d \in enter_depth[c] .. cur_depth[c] - 1 : Passed(c, d)

Results(q) ==
  /\ phase[q] = "new" => found[q] = EmptyBag
  /\ phase[q] = "running" => ~ Empty(q) /\ BagToSet(found[q]) \subseteq Ways(q)
  /\ phase[q] = "done" => ~ Empty(q) /\ found[q] = SetToBag(Ways(q))

WaitingFor(q, m) == {rv \in BagToSet(tasks[q]) : Below(rv, m)}
Holders(q, m) == {c \in Compers : cur_query[c] = q /\ HeldBy(c, m)}

OnePlace(q, m) ==
  \/ /\ Copies(m, found[q]) = 1
     /\ WaitingFor(q, m) = {} /\ Holders(q, m) = {}
  \/ /\ Copies(m, found[q]) = 0 /\ Holders(q, m) = {}
     /\ \E rv \in WaitingFor(q, m) :
          WaitingFor(q, m) = {rv} /\ Copies(rv, tasks[q]) = 1
  \/ /\ Copies(m, found[q]) = 0 /\ WaitingFor(q, m) = {}
     /\ \E c \in Holders(q, m) : Holders(q, m) = {c}

Places(q) == phase[q] = "running" => \A m \in Ways(q) : OnePlace(q, m)

JInv == /\ \A q \in Queries : Waits(q) /\ Results(q) /\ Places(q)
        /\ \A c \in Compers : Searches(c)

\* Two partial matches have the same first d values.
Agree(rv, w, d) == \A i \in 1 .. d : rv[i] = w[i]

LEMMA PrefixIs ==
  ASSUME NEW rv \in Seq(Entries), NEW d \in Nat, d <= Len(rv)
  PROVE  /\ SubSeq(rv, 1, d) \in Seq(Entries) /\ Len(SubSeq(rv, 1, d)) = d
         /\ \A i \in 1 .. d : SubSeq(rv, 1, d)[i] = rv[i]
<1>1. \A i \in 1 .. d : rv[i] \in Entries
  OBVIOUS
<1> QED
  BY <1>1, SubSeqProperties

LEMMA SamePrefix ==
  ASSUME NEW rv \in Seq(Entries), NEW w \in Seq(Entries),
         NEW d \in Nat, d <= Len(rv), d <= Len(w), Agree(rv, w, d)
  PROVE  /\ SubSeq(rv, 1, d) = SubSeq(w, 1, d)
         /\ \A q : CandAt(q, rv, d) = CandAt(q, w, d)
<1> DEFINE a == SubSeq(rv, 1, d)
           b == SubSeq(w, 1, d)
<1>1. /\ a \in Seq(Entries) /\ b \in Seq(Entries) /\ Len(a) = Len(b)
      /\ \A i \in 1 .. Len(a) : a[i] = b[i]
  BY PrefixIs DEF Agree
<1> HIDE DEF a, b
<1>2. a = b
  BY <1>1, SeqEqual
<1> QED
  BY <1>2 DEF CandAt, a, b

LEMMA BelowIs ==
  ASSUME NEW rv \in Seq(Entries), NEW m \in Seq(Entries)
  PROVE  Below(rv, m) <=> Len(rv) <= Len(m) /\ Agree(rv, m, Len(rv))
<1> DEFINE n == Len(rv)
<1>1. n \in Nat
  OBVIOUS
<1>2. CASE n <= Len(m)
  <2> DEFINE a == SubSeq(m, 1, n)
  <2>1. a \in Seq(Entries) /\ Len(a) = n /\ \A i \in 1 .. n : a[i] = m[i]
    BY <1>1, <1>2, PrefixIs
  <2> HIDE DEF a
  <2>2. ASSUME Agree(rv, m, n) PROVE a = rv
    BY <2>1, <2>2, SeqEqual DEF Agree
  <2>3. ASSUME a = rv PROVE Agree(rv, m, n)
    BY <2>1, <2>3 DEF Agree
  <2> QED
    BY <1>2, <2>2, <2>3 DEF Below, a
<1> QED
  BY <1>2 DEF Below

\* A match below one more value.
LEMMA BelowNext ==
  ASSUME NEW rv \in Seq(Entries), NEW m \in Seq(Entries), NEW d \in Nat,
         d <= Len(rv), d < Len(m), NEW x \in Entries
  PROVE  Below(Append(SubSeq(rv, 1, d), x), m) <=> Agree(rv, m, d) /\ x = m[d + 1]
<1> DEFINE a == SubSeq(rv, 1, d)
           w == Append(a, x)
<1>1. a \in Seq(Entries) /\ Len(a) = d /\ \A i \in 1 .. d : a[i] = rv[i]
  BY PrefixIs
<1> HIDE DEF a
<1>2. /\ w \in Seq(Entries) /\ Len(w) = d + 1 /\ w[d + 1] = x
      /\ \A i \in 1 .. d : w[i] = a[i]
  BY <1>1, AppendProperties
<1> HIDE DEF w
<1>3. Below(w, m) <=> Agree(w, m, d + 1)
  BY <1>2, BelowIs
<1>4. \A i \in 1 .. d + 1 : i \in 1 .. d \/ i = d + 1
  OBVIOUS
<1>5. \A i \in 1 .. d : i \in 1 .. d + 1
  OBVIOUS
<1>6. d + 1 \in 1 .. d + 1
  OBVIOUS
<1>7. Agree(w, m, d + 1) <=> Agree(rv, m, d) /\ x = m[d + 1]
  BY <1>1, <1>2, <1>4, <1>5, <1>6 DEF Agree
<1> QED
  BY <1>3, <1>7 DEF w, a

LEMMA CandAtIs ==
  ASSUME NEW q \in Queries, NEW rv \in Seq(Entries), NEW d \in Nat,
         d <= Len(rv), d < Depth(q)
  PROVE  /\ CandAt(q, rv, d) \in Seq(Entries) /\ Len(CandAt(q, rv, d)) \in Nat
         /\ \A i, j \in 1 .. Len(CandAt(q, rv, d)) :
              CandAt(q, rv, d)[i] = CandAt(q, rv, d)[j] => i = j
<1> DEFINE a == SubSeq(rv, 1, d)
<1>1. a \in Seq(Entries) /\ Len(a) = d
  BY PrefixIs
<1> HIDE DEF a
<1>2. /\ CandList(q, a) \in Seq(Entries)
      /\ \A i, j \in 1 .. Len(CandList(q, a)) : CandList(q, a)[i] = CandList(q, a)[j] => i = j
  BY <1>1, CandIs
<1> QED
  BY <1>2 DEF CandAt, a

LEMMA WayIs ==
  ASSUME NEW q \in Queries, ~ Empty(q), NEW m \in Ways(q)
  PROVE  /\ m \in Seq(Entries) /\ Len(m) = Depth(q) /\ IsWay(q, m)
         /\ \A d \in 0 .. Depth(q) - 1 :
              \E k \in 1 .. Len(CandAt(q, m, d)) : CandAt(q, m, d)[k] = m[d + 1]
<1>1. m \in [1 .. Depth(q) -> Entries] /\ IsWay(q, m)
  BY PlanAssumption
<1>2. m \in Seq(Entries) /\ Len(m) = Depth(q)
  BY <1>1, DepthFits
<1> QED
  BY <1>1, <1>2 DEF IsWay, CandAt

LEMMA IsAWay ==
  ASSUME NEW q \in Queries, ~ Empty(q), NEW w, IsPath(q, w), Possible(q, w),
         Len(w) = Depth(q)
  PROVE  w \in Ways(q)
<1>1. w \in Seq(Entries) /\ w \in [1 .. Depth(q) -> Entries]
  BY DEF IsPath
<1>2. IsWay(q, w)
  BY DEF IsWay, Possible, CandAt, IsPath
<1> QED
  BY <1>1, <1>2, PlanAssumption

\* The arrays at a depth of the current task.
LEMMA AtDepth ==
  ASSUME IInv, NEW c \in Compers, Busy(c), NEW d \in enter_depth[c] .. cur_depth[c]
  PROVE  /\ d \in Nat /\ d \in Depths /\ d <= Len(result_var[c])
         /\ d < Depth(cur_query[c])
         /\ idx[c][d] \in Nat /\ idx_count[c][d] \in Nat
         /\ idx_count[c][d] <= Len(can_lists[c][d])
         /\ can_lists[c][d] \in Seq(Entries)
         /\ \A k \in 1 .. idx_count[c][d] : can_lists[c][d][k] \in Entries
<1>1. /\ cur_query[c] \in Queries /\ cur_depth[c] = Len(result_var[c])
      /\ cur_depth[c] \in 0 .. Depth(cur_query[c]) - 1
      /\ enter_depth[c] \in 0 .. cur_depth[c]
  BY AtWork
<1>2. /\ d \in Nat /\ d <= Len(result_var[c]) /\ d \in 0 .. Depth(cur_query[c]) - 1
      /\ (d > 0 \/ enter_depth[c] = 0)
  <2>1. Depth(cur_query[c]) \in Nat
    BY <1>1, DepthFits
  <2> QED
    BY <1>1, <2>1
<1>3. d \in Depths /\ d < Depth(cur_query[c])
  BY <1>1, <1>2, DepthFits
<1>4. /\ idx[c][d] \in Nat /\ idx_count[c][d] \in Nat
      /\ can_lists[c][d] \in Seq(Entries)
  BY <1>3 DEF IInv, Types
<1>5. idx_count[c][d] <= Len(can_lists[c][d])
  BY <1>2, <1>3 DEF IInv, Good, Lists
<1>6. \A k \in 1 .. idx_count[c][d] : can_lists[c][d][k] \in Entries
  BY <1>4, <1>5
<1> QED
  BY <1>2, <1>3, <1>4, <1>5, <1>6

\* A comper holds a match at depth d: it agrees with the first d values, and
\* its next value has yet to be looked at.
At(c, d, m) == /\ Agree(result_var[c], m, d)
               /\ \E k \in idx[c][d] + 1 .. idx_count[c][d] : can_lists[c][d][k] = m[d + 1]

HeldAt == \A c \in Compers : \A m \in Seq(Entries) :
  Busy(c) /\ Len(m) = Depth(cur_query[c]) =>
    (HeldBy(c, m) <=> \E d \in enter_depth[c] .. cur_depth[c] : At(c, d, m))

LEMMA HeldIs == IInv => HeldAt
<1> SUFFICES ASSUME IInv, NEW c \in Compers, NEW m \in Seq(Entries),
                    Busy(c), Len(m) = Depth(cur_query[c])
             PROVE  HeldBy(c, m) <=> \E d \in enter_depth[c] .. cur_depth[c] : At(c, d, m)
  BY DEF HeldAt
<1>1. ASSUME NEW d \in enter_depth[c] .. cur_depth[c],
             NEW k \in idx[c][d] + 1 .. idx_count[c][d]
      PROVE  Below(Append(SubSeq(result_var[c], 1, d), can_lists[c][d][k]), m)
               <=> Agree(result_var[c], m, d) /\ can_lists[c][d][k] = m[d + 1]
  <2> DEFINE rv == result_var[c]
             x == can_lists[c][d][k]
  <2>1. /\ d \in Nat /\ d <= Len(rv) /\ d < Len(m) /\ k \in 1 .. idx_count[c][d]
    BY AtDepth
  <2>2. rv \in Seq(Entries) /\ x \in Entries
    BY <2>1, AtDepth, AtWork
  <2> HIDE DEF rv, x
  <2>3. Below(Append(SubSeq(rv, 1, d), x), m) <=> Agree(rv, m, d) /\ x = m[d + 1]
    BY <2>1, <2>2, BelowNext
  <2> QED
    BY <2>3 DEF rv, x
<1> QED
  BY <1>1 DEF HeldBy, At

\* What the lists of a comper say of a match of its query: the next value of a
\* match is in the list, once; one that was not passed is not on the path.
LEMMA ListsLead ==
  ASSUME IInv, JInv, NEW c \in Compers, NEW q \in Queries, Busy(c), cur_query[c] = q,
         NEW m \in Ways(q), NEW d \in enter_depth[c] .. cur_depth[c]
  PROVE  /\ Agree(result_var[c], m, d) =>
              \E k \in 1 .. idx_count[c][d] : can_lists[c][d][k] = m[d + 1]
         /\ \A i, j \in 1 .. idx_count[c][d] :
              can_lists[c][d][i] = can_lists[c][d][j] => i = j
         /\ d < cur_depth[c] /\ At(c, d, m) => result_var[c][d + 1] # m[d + 1]
<1> DEFINE rv == result_var[c]
           L == can_lists[c][d]
           n == idx_count[c][d]
<1>1. /\ ~ Empty(q)
      /\ n = Len(CandAt(q, rv, d)) /\ \A k \in 1 .. n : L[k] = CandAt(q, rv, d)[k]
      /\ d < cur_depth[c] => idx[c][d] \in 1 .. n /\ rv[d + 1] = L[idx[c][d]]
  <2>1. Searches(c) /\ Results(q)
    BY DEF JInv
  <2>2. enter_depth[c] \in Nat /\ cur_depth[c] \in Nat
    BY DEF IInv, Types
  <2>3. d < cur_depth[c] => d \in enter_depth[c] .. cur_depth[c] - 1
    BY <2>2
  <2> QED
    BY <2>1, <2>3 DEF Searches, Results, Filled, Passed
<1>2. /\ d \in Nat /\ d <= Len(rv) /\ d < Depth(q) /\ rv \in Seq(Entries)
      /\ n \in Nat /\ idx[c][d] \in Nat
  BY AtDepth, AtWork
<1>3. /\ m \in Seq(Entries) /\ Len(m) = Depth(q)
      /\ \E k \in 1 .. Len(CandAt(q, m, d)) : CandAt(q, m, d)[k] = m[d + 1]
  <2>1. d \in 0 .. Depth(q) - 1
    BY <1>2, DepthFits
  <2>2. ~ Empty(q)
    BY <1>1
  <2> QED
    BY <2>1, <2>2, WayIs
<1> HIDE DEF rv, L, n
<1>4. ASSUME Agree(rv, m, d) PROVE \E k \in 1 .. n : L[k] = m[d + 1]
  <2>1. CandAt(q, rv, d) = CandAt(q, m, d)
    BY <1>2, <1>3, <1>4, SamePrefix
  <2>2. PICK k \in 1 .. Len(CandAt(q, m, d)) : CandAt(q, m, d)[k] = m[d + 1]
    BY <1>3
  <2>3. k \in 1 .. n /\ L[k] = CandAt(q, rv, d)[k]
    BY <1>1, <2>1
  <2> QED
    BY <2>1, <2>2, <2>3
<1>5. \A i, j \in 1 .. n : L[i] = L[j] => i = j
  BY <1>1, <1>2, CandAtIs
<1>6. ASSUME d < cur_depth[c], NEW k \in idx[c][d] + 1 .. n, L[k] = m[d + 1]
      PROVE  rv[d + 1] # m[d + 1]
  <2>1. k \in 1 .. n /\ k # idx[c][d]
    BY <1>2
  <2> QED
    BY <1>1, <1>5, <1>6, <2>1
<1> QED
  BY <1>4, <1>5, <1>6 DEF At, rv, L, n

\* The partial match with the candidate looked at.
LEMMA ExtendedIs ==
  ASSUME IInv, JInv, NEW c \in Compers, NEW q \in Queries, HasCandidate(c),
         cur_query[c] = q
  PROVE  /\ Possible(q, Extended(c))
         /\ Extended(c)[cur_depth[c] + 1] = Candidate(c)
         /\ \A i \in 1 .. cur_depth[c] : Extended(c)[i] = result_var[c][i]
         /\ \A d \in 0 .. cur_depth[c] :
              CandAt(q, Extended(c), d) = CandAt(q, result_var[c], d)
         /\ \A m \in Seq(Entries) : Len(m) = Depth(q) =>
              (Below(Extended(c), m) <=> /\ Agree(result_var[c], m, cur_depth[c])
                                         /\ Candidate(c) = m[cur_depth[c] + 1])
<1> DEFINE rv == result_var[c]
           x == Candidate(c)
           n == cur_depth[c]
           w == Extended(c)
<1>1. /\ Busy(c) /\ x \in Entries /\ w \in Seq(Entries) /\ Len(w) = n + 1
      /\ idx[c][n] + 1 <= idx_count[c][n]
  BY Looking
<1>2. /\ rv \in Seq(Entries) /\ n = Len(rv) /\ n \in Nat /\ n < Depth(q)
      /\ n \in enter_depth[c] .. n /\ idx[c][n] \in Nat /\ idx_count[c][n] \in Nat
  <2>1. /\ rv \in Seq(Entries) /\ n = Len(rv) /\ n \in 0 .. Depth(q) - 1
        /\ enter_depth[c] \in 0 .. n /\ idx[c][n] \in Nat /\ idx_count[c][n] \in Nat
    BY <1>1, AtWork
  <2> QED
    BY <2>1, DepthFits
<1>3. w = Append(rv, x)
  BY DEF Extended
<1>4. /\ Filled(c, n) /\ Possible(q, rv)
      /\ x = can_lists[c][n][idx[c][n] + 1]
  BY <1>1, <1>2 DEF JInv, Searches, Candidate
<1>5. idx[c][n] + 1 \in 1 .. idx_count[c][n]
  BY <1>1, <1>2
<1>6. idx[c][n] + 1 \in 1 .. Len(CandAt(q, rv, n)) /\ CandAt(q, rv, n)[idx[c][n] + 1] = x
  BY <1>4, <1>5 DEF Filled
<1> HIDE DEF rv, x, n, w
<1>7. w[n + 1] = x /\ \A i \in 1 .. n : w[i] = rv[i]
  BY <1>1, <1>2, <1>3, AppendProperties
<1>8. ASSUME NEW d \in 0 .. n PROVE CandAt(q, w, d) = CandAt(q, rv, d)
  <2>1. Agree(w, rv, d) /\ d \in Nat /\ d <= Len(rv) /\ d <= Len(w)
    BY <1>1, <1>2, <1>7 DEF Agree
  <2> QED
    BY <1>1, <1>2, <2>1, SamePrefix
<1>9. Possible(q, w)
  <2>1. ASSUME NEW d \in 0 .. Len(w) - 1
        PROVE  \E k \in 1 .. Len(CandAt(q, w, d)) : CandAt(q, w, d)[k] = w[d + 1]
    <3>1. CASE d = n
      <4>1. CandAt(q, w, d) = CandAt(q, rv, n) /\ w[d + 1] = x
        BY <1>2, <1>7, <1>8, <3>1
      <4> QED
        BY <1>6, <4>1
    <3>2. CASE d # n
      <4>1. d \in 0 .. Len(rv) - 1 /\ d \in 0 .. n /\ d + 1 \in 1 .. n
        BY <1>1, <1>2, <3>2
      <4>2. PICK k \in 1 .. Len(CandAt(q, rv, d)) : CandAt(q, rv, d)[k] = rv[d + 1]
        BY <1>4, <4>1 DEF Possible
      <4>3. CandAt(q, w, d) = CandAt(q, rv, d) /\ w[d + 1] = rv[d + 1]
        BY <1>7, <1>8, <4>1
      <4> QED
        BY <4>2, <4>3
    <3> QED
      BY <3>1, <3>2
  <2> QED
    BY <2>1 DEF Possible
<1>10. ASSUME NEW m \in Seq(Entries), Len(m) = Depth(q)
       PROVE  Below(w, m) <=> Agree(rv, m, n) /\ x = m[n + 1]
  <2>1. SubSeq(rv, 1, n) = rv
    BY <1>2, SubSeqFull
  <2>2. Below(Append(SubSeq(rv, 1, n), x), m) <=> Agree(rv, m, n) /\ x = m[n + 1]
    BY <1>1, <1>2, <1>10, BelowNext
  <2> QED
    BY <1>3, <2>1, <2>2
<1> QED
  BY <1>7, <1>8, <1>9, <1>10 DEF rv, x, n, w

\* To go on to the next candidate is to give up what is below this one.
LEMMA GivesUp ==
  ASSUME IInv, IInv', JInv, NEW c \in Compers, NEW q \in Queries, HasCandidate(c),
         cur_query[c] = q, Advance(c),
         UNCHANGED <<cur_query, enter_depth, cur_depth, result_var, can_lists, idx_count>>,
         NEW m \in Ways(q)
  PROVE  /\ Below(Extended(c), m) => HeldBy(c, m)
         /\ HeldBy(c, m)' <=> HeldBy(c, m) /\ ~ Below(Extended(c), m)
<1> DEFINE rv == result_var[c]
           n == cur_depth[c]
           L == can_lists[c][n]
           i == idx[c][n]
           Then(d) == /\ Agree(rv, m, d)
                      /\ \E k \in idx'[c][d] + 1 .. idx_count[c][d] :
                           can_lists[c][d][k] = m[d + 1]
<1>1. /\ Busy(c) /\ i + 1 <= idx_count[c][n]
      /\ n \in Nat /\ enter_depth[c] \in 0 .. n /\ n \in Depths
      /\ i \in Nat /\ idx_count[c][n] \in Nat
      /\ n \in enter_depth[c] .. n /\ Candidate(c) = L[i + 1]
  <2>1. Busy(c) /\ i + 1 <= idx_count[c][n]
    BY Looking
  <2>2. /\ n \in 0 .. Depth(q) - 1 /\ enter_depth[c] \in 0 .. n /\ n \in Depths
        /\ i \in Nat /\ idx_count[c][n] \in Nat
    BY <2>1, AtWork
  <2> QED
    BY <2>1, <2>2 DEF Candidate
<1>2. m \in Seq(Entries) /\ Len(m) = Depth(q)
  <2>1. ~ Empty(q)
    BY <1>1 DEF JInv, Searches, Results
  <2> QED
    BY <2>1, WayIs
<1>3. HeldBy(c, m) <=> \E d \in enter_depth[c] .. n : At(c, d, m)
  BY <1>1, <1>2, HeldIs DEF HeldAt
<1>4. HeldBy(c, m)' <=> \E d \in enter_depth[c] .. n : Then(d)
  <2>1. HeldAt'
    BY HeldIs, PTL
  <2>2. Busy(c)' /\ cur_query'[c] = q /\ enter_depth'[c] = enter_depth[c] /\ cur_depth'[c] = n
    BY <1>1 DEF Busy
  <2>3. HeldBy(c, m)' <=> (\E d \in enter_depth[c] .. cur_depth[c] : At(c, d, m))'
    BY <1>2, <2>1, <2>2 DEF HeldAt
  <2> QED
    BY <2>2, <2>3 DEF At, Agree
<1>5. Below(Extended(c), m) <=> Agree(rv, m, n) /\ L[i + 1] = m[n + 1]
  BY <1>1, <1>2, ExtendedIs
<1>6. /\ idx'[c][n] = i + 1 /\ \A d \in Depths \ {n} : idx'[c][d] = idx[c][d]
      /\ result_var'[c] = rv /\ can_lists'[c] = can_lists[c] /\ idx_count'[c] = idx_count[c]
  BY <1>1 DEF IInv, Types, Advance
<1>7. \A d \in enter_depth[c] .. n : d # n => (Then(d) <=> At(c, d, m))
  <2>1. \A d \in enter_depth[c] .. n : d \in Depths
    BY <1>1, AtDepth
  <2> QED
    BY <1>6, <2>1 DEF At
<1> HIDE DEF rv, L, i, n, Then
<1>8. Then(n) <=>
        Agree(rv, m, n) /\ \E k \in i + 2 .. idx_count[c][n] : L[k] = m[n + 1]
  <2>1. i + 1 + 1 = i + 2
    BY <1>1
  <2> QED
    BY <1>6, <2>1 DEF Then, rv, L, n
<1>9. At(c, n, m) <=>
        Agree(rv, m, n) /\ \E k \in i + 1 .. idx_count[c][n] : L[k] = m[n + 1]
  BY DEF At, rv, L, i, n
<1>10. /\ Then(n) => At(c, n, m)
       /\ At(c, n, m) => Then(n) \/ Below(Extended(c), m)
       /\ Below(Extended(c), m) => At(c, n, m)
  <2>1. \A k \in i + 1 .. idx_count[c][n] : k = i + 1 \/ k \in i + 2 .. idx_count[c][n]
    BY <1>1
  <2>2. \A k \in i + 2 .. idx_count[c][n] : k \in i + 1 .. idx_count[c][n]
    BY <1>1
  <2>3. i + 1 \in i + 1 .. idx_count[c][n]
    BY <1>1
  <2> QED
    BY <1>5, <1>8, <1>9, <2>1, <2>2, <2>3
<1>11. ASSUME Below(Extended(c), m) PROVE \A d \in enter_depth[c] .. n : ~ Then(d)
  <2>1. Agree(rv, m, n) /\ L[i + 1] = m[n + 1]
    BY <1>5, <1>11
  <2>2. \A k \in i + 2 .. idx_count[c][n] : k \in 1 .. idx_count[c][n] /\ k # i + 1
    BY <1>1
  <2>3. i + 1 \in 1 .. idx_count[c][n]
    BY <1>1
  <2>4. \A j, k \in 1 .. idx_count[c][n] : L[j] = L[k] => j = k
    BY <1>1, ListsLead DEF n, L
  <2>5. ~ Then(n)
    BY <1>8, <2>1, <2>2, <2>3, <2>4
  <2>6. ASSUME NEW d \in enter_depth[c] .. n, d # n PROVE ~ At(c, d, m)
    <3>1. d < n /\ d + 1 \in 1 .. n
      BY <1>1, <2>6
    <3>2. rv[d + 1] = m[d + 1]
      BY <2>1, <3>1 DEF Agree
    <3> QED
      BY <1>1, <3>1, <3>2, ListsLead DEF n, rv
  <2> QED
    BY <1>7, <2>5, <2>6
<1> QED
  BY <1>1, <1>3, <1>4, <1>7, <1>10, <1>11

LEMMA SamePlace ==
  ASSUME NEW q \in Queries, NEW m, OnePlace(q, m),
         Copies(m, found'[q]) = Copies(m, found[q]),
         WaitingFor(q, m)' = WaitingFor(q, m),
         \A rv \in WaitingFor(q, m) : Copies(rv, tasks'[q]) = Copies(rv, tasks[q]),
         Holders(q, m)' = Holders(q, m)
  PROVE  OnePlace(q, m)'
<1> DEFINE W == WaitingFor(q, m)
           H == Holders(q, m)
<1>1. \/ Copies(m, found[q]) = 1 /\ W = {} /\ H = {}
      \/ /\ Copies(m, found[q]) = 0 /\ H = {}
         /\ \E rv \in W : W = {rv} /\ Copies(rv, tasks[q]) = 1
      \/ Copies(m, found[q]) = 0 /\ W = {} /\ \E c \in H : H = {c}
  BY DEF OnePlace
<1> HIDE DEF W, H
<1>2. \/ Copies(m, found'[q]) = 1 /\ W = {} /\ H = {}
      \/ /\ Copies(m, found'[q]) = 0 /\ H = {}
         /\ \E rv \in W : W = {rv} /\ Copies(rv, tasks'[q]) = 1
      \/ Copies(m, found'[q]) = 0 /\ W = {} /\ \E c \in H : H = {c}
  BY <1>1 DEF W
<1>3. WaitingFor(q, m)' = W /\ Holders(q, m)' = H
  BY DEF W, H
<1>4. \/ Copies(m, found'[q]) = 1 /\ WaitingFor(q, m)' = {} /\ Holders(q, m)' = {}
      \/ /\ Copies(m, found'[q]) = 0 /\ Holders(q, m)' = {}
         /\ \E rv \in WaitingFor(q, m)' :
              WaitingFor(q, m)' = {rv} /\ Copies(rv, tasks'[q]) = 1
      \/ /\ Copies(m, found'[q]) = 0 /\ WaitingFor(q, m)' = {}
         /\ \E c \in Holders(q, m)' : Holders(q, m)' = {c}
  BY <1>2, <1>3
<1> QED
  BY <1>4 DEF OnePlace, Copies, BagIn

\* A step of a comper leaves what the others hold, and what they search.
LEMMA OtherHolders ==
  ASSUME NEW c \in Compers, \A e \in Compers \ {c} : UNCHANGED Own(e),
         NEW q \in Queries, NEW m
  PROVE  \A e \in Compers \ {c} : e \in Holders(q, m)' <=> e \in Holders(q, m)
BY DEF Holders, HeldBy, Own

LEMMA OtherSearches ==
  ASSUME JInv, NEW e \in Compers, UNCHANGED Own(e), UNCHANGED late[e],
         Busy(e) => phase'[cur_query[e]] = phase[cur_query[e]]
  PROVE  Searches(e)'
<1>1. /\ Searches(e) /\ cur_query'[e] = cur_query[e] /\ enter_depth'[e] = enter_depth[e]
      /\ cur_depth'[e] = cur_depth[e] /\ result_var'[e] = result_var[e]
      /\ can_lists'[e] = can_lists[e] /\ idx'[e] = idx[e]
      /\ idx_count'[e] = idx_count[e] /\ late'[e] = late[e]
  BY DEF JInv, Own
<1> QED
  BY <1>1 DEF Searches, Busy, Filled, Passed, Possible, CandAt

\* A step that keeps the tasks, the matches found and what its comper holds.
LEMMA QuietStep ==
  ASSUME IInv, JInv, NEW c \in Compers, UNCHANGED <<phase, tasks, found>>,
         \A e \in Compers \ {c} : UNCHANGED Own(e) /\ UNCHANGED late[e],
         \A q \in Queries : \A m \in Ways(q) : phase[q] = "running" =>
           (cur_query'[c] = q /\ HeldBy(c, m)' <=> cur_query[c] = q /\ HeldBy(c, m)),
         Searches(c)'
  PROVE  JInv'
<1>1. ASSUME NEW q \in Queries PROVE Waits(q)' /\ Results(q)'
  BY DEF JInv, Waits, Results, Possible, CandAt
<1>2. ASSUME NEW e \in Compers PROVE Searches(e)'
  <2>1. CASE e # c
    BY <2>1, OtherSearches
  <2> QED
    BY <2>1
<1>3. ASSUME NEW q \in Queries, phase[q] = "running", NEW m \in Ways(q)
      PROVE  OnePlace(q, m)'
  <2>1. OnePlace(q, m)
    BY <1>3 DEF JInv, Places
  <2>2. Holders(q, m)' = Holders(q, m)
    <3>1. c \in Holders(q, m)' <=> c \in Holders(q, m)
      BY <1>3 DEF Holders, HeldBy
    <3>2. \A e \in Compers \ {c} : e \in Holders(q, m)' <=> e \in Holders(q, m)
      BY OtherHolders
    <3>3. Holders(q, m) \subseteq Compers /\ Holders(q, m)' \subseteq Compers
      BY DEF Holders
    <3> QED
      BY <3>1, <3>2, <3>3
  <2>3. WaitingFor(q, m)' = WaitingFor(q, m)
    BY DEF WaitingFor, Below
  <2> QED
    BY <2>1, <2>2, <2>3, SamePlace
<1> QED
  BY <1>1, <1>2, <1>3 DEF JInv, Places

\* To go on to the next candidate keeps what is behind.
LEMMA GoesOn ==
  ASSUME IInv, JInv, NEW c \in Compers, HasCandidate(c), Advance(c),
         UNCHANGED <<phase, cur_query, enter_depth, cur_depth, result_var, can_lists,
                     idx_count, visited_arr, late>>
  PROVE  /\ \A e \in Compers \ {c} : UNCHANGED Own(e) /\ UNCHANGED late[e]
         /\ Searches(c)'
<1>1. /\ Busy(c) /\ cur_depth[c] \in Nat /\ cur_depth[c] \in Depths
      /\ enter_depth[c] \in 0 .. cur_depth[c]
  <2>1. Busy(c)
    BY Looking
  <2> QED
    BY <2>1, AtWork
<1>2. /\ \A e \in Compers \ {c} : idx'[e] = idx[e]
      /\ \A d \in Depths \ {cur_depth[c]} : idx'[c][d] = idx[c][d]
  BY DEF Advance, IInv, Types
<1>3. Searches(c)
  BY DEF JInv
<1>4. ASSUME NEW d \in enter_depth[c] .. cur_depth[c] - 1 PROVE Passed(c, d)'
  <2>1. d # cur_depth[c] /\ d \in enter_depth[c] .. cur_depth[c]
    BY <1>1
  <2>2. d \in Depths
    BY <1>1, <2>1, AtDepth
  <2>3. Passed(c, d)
    BY <1>1, <1>3 DEF Searches
  <2> QED
    BY <1>2, <2>1, <2>2, <2>3 DEF Passed
<1>5. \A d \in enter_depth[c] .. cur_depth[c] - 1 :
        /\ idx'[c][d] \in 1 .. idx_count'[c][d]
        /\ result_var'[c][d + 1] = can_lists'[c][d][idx'[c][d]]
  BY <1>4 DEF Passed
<1>6. Searches(c)'
  <2>1. phase'[cur_query'[c]] = "running" /\ (late'[c] => cur_query'[c] \in Slow)
    BY <1>1, <1>3 DEF Searches
  <2>2. Possible(cur_query[c], result_var[c])'
    BY <1>1, <1>3 DEF Searches, Possible, CandAt
  <2>3. \A d \in enter_depth'[c] .. cur_depth'[c] :
          /\ idx_count'[c][d] = Len(CandAt(cur_query[c], result_var[c], d))
          /\ \A k \in 1 .. idx_count'[c][d] :
               can_lists'[c][d][k] = CandAt(cur_query[c], result_var[c], d)[k]
    BY <1>1, <1>3 DEF Searches, Filled
  <2> QED
    BY <1>5, <2>1, <2>2, <2>3 DEF Searches, Filled, Passed, CandAt
<1> QED
  BY <1>2, <1>6 DEF Own

LEMMA SkipTakenKeeps ==
  ASSUME IInv, IInv', JInv, NEW c \in Compers, SkipTaken(c)
  PROVE  JInv'
<1>1. /\ HasCandidate(c) /\ Taken(c) /\ Advance(c)
      /\ UNCHANGED <<phase, tasks, found, cur_query, enter_depth, cur_depth, result_var,
                     can_lists, idx_count, visited_arr, late>>
  BY DEF SkipTaken
<1>2. /\ \A e \in Compers \ {c} : UNCHANGED Own(e) /\ UNCHANGED late[e]
      /\ Searches(c)'
  BY <1>1, GoesOn
<1>3. ASSUME NEW q \in Queries, NEW m \in Ways(q), cur_query[c] = q
      PROVE  HeldBy(c, m)' <=> HeldBy(c, m)
  <2> DEFINE rv == result_var[c]
             n == cur_depth[c]
  <2>1. /\ Busy(c) /\ n = Len(rv) /\ n \in 0 .. Depth(q) - 1
        /\ visited_arr[c] = VertexValues(q, rv)
    <3>1. Busy(c)
      BY <1>1, Looking
    <3> QED
      BY <1>3, <3>1, AtWork
  <2>2. m \in Seq(Entries) /\ Len(m) = Depth(q) /\ IsWay(q, m)
    <3>1. ~ Empty(q)
      BY <1>3, <2>1 DEF JInv, Searches, Results
    <3> QED
      BY <3>1, WayIs
  <2>3. IsVertex(q, n) /\ ID(Candidate(c)) \in VertexValues(q, rv)
    BY <1>1, <1>3, <2>1 DEF Taken, AtVertex
  <2>4. PICK i \in 0 .. n - 1 : IsVertex(q, i) /\ ID(Candidate(c)) = ID(rv[i + 1])
    BY <2>1, <2>3 DEF VertexValues
  <2>5. ~ Below(Extended(c), m)
    <3>1. ASSUME Agree(rv, m, n), Candidate(c) = m[n + 1] PROVE FALSE
      <4>1. i + 1 \in 1 .. n /\ i # n /\ i \in 0 .. Depth(q) - 1
        BY <2>1, <2>4, DepthFits
      <4>2. ID(m[i + 1]) = ID(m[n + 1])
        BY <2>4, <3>1, <4>1 DEF Agree
      <4> QED
        BY <2>1, <2>2, <2>3, <2>4, <4>1, <4>2 DEF IsWay
    <3> QED
      BY <1>1, <1>3, <2>2, <3>1, ExtendedIs
  <2> QED
    BY <1>1, <1>3, <2>5, GivesUp
<1>4. ASSUME NEW q \in Queries, NEW m \in Ways(q)
      PROVE  cur_query'[c] = q /\ HeldBy(c, m)' <=> cur_query[c] = q /\ HeldBy(c, m)
  BY <1>1, <1>3
<1> QED
  BY <1>1, <1>2, <1>4, QuietStep

\* A match is found: it was the comper's, and is the comper's no more.
LEMMA MatchKeeps ==
  ASSUME IInv, IInv', JInv, NEW c \in Compers, Match(c)
  PROVE  JInv' /\ \E q \in Queries : /\ phase[q] = "running"
                                     /\ Extended(c) \in Ways(q) \ BagToSet(found[q])
                                     /\ found' = [found EXCEPT ![q] = @ (+) Bagged(Extended(c))]
<1>0. PICK w : w = Extended(c)
  OBVIOUS
<1>1. /\ HasCandidate(c) /\ ~ Taken(c) /\ AtLast(c) /\ Advance(c)
      /\ found' = [found EXCEPT ![cur_query[c]] = @ (+) Bagged(w)]
      /\ UNCHANGED <<phase, tasks, cur_query, enter_depth, cur_depth, result_var,
                     can_lists, idx_count, visited_arr, late>>
  BY <1>0 DEF Match
<1>2. /\ \A e \in Compers \ {c} : UNCHANGED Own(e) /\ UNCHANGED late[e]
      /\ Searches(c)'
  BY <1>1, GoesOn
<1>3. PICK q \in Queries : q = cur_query[c] /\ Busy(c)
  BY <1>1, AtWork, Looking
<1>4. /\ found'[q] = found[q] (+) Bagged(w)
      /\ \A r \in Queries \ {q} : found'[r] = found[r]
  BY <1>1, <1>3 DEF IInv, Types
<1>5. phase[q] = "running" /\ ~ Empty(q)
  BY <1>3 DEF JInv, Searches, Results
<1>6. IsPath(q, w) /\ Possible(q, w) /\ w \in Seq(Entries) /\ Len(w) = Depth(q)
  <2>1. /\ IsPath(q, w) /\ w \in Seq(Entries) /\ Len(w) = cur_depth[c] + 1
    BY <1>0, <1>1, <1>3, Looking
  <2>2. cur_depth[c] = Depth(q) - 1 /\ Depth(q) \in Nat
    BY <1>1, <1>3, DepthFits DEF AtLast
  <2>3. Possible(q, w)
    BY <1>0, <1>1, <1>3, ExtendedIs
  <2> QED
    BY <2>1, <2>2, <2>3
<1>7. w \in Ways(q)
  BY <1>5, <1>6, IsAWay
<1>8. \A m \in Ways(q) : m \in Seq(Entries) /\ Len(m) = Depth(q)
  BY <1>5, WayIs
<1>9. IsABag(found[q])
  BY DEF IInv, Types
<1>10. \A m \in Ways(q) : Below(w, m) <=> m = w
  <2>1. ASSUME NEW m \in Ways(q), Below(w, m) PROVE m = w
    <3>1. Agree(w, m, Len(w)) /\ Len(w) = Len(m) /\ m \in Seq(Entries)
      BY <1>6, <1>8, <2>1, BelowIs
    <3>2. \A i \in 1 .. Len(w) : w[i] = m[i]
      BY <3>1 DEF Agree
    <3> QED
      BY <1>6, <3>1, <3>2, SeqEqual
  <2>2. Below(w, w)
    <3>1. Agree(w, w, Len(w)) /\ Len(w) <= Len(w)
      BY <1>6, DepthFits DEF Agree
    <3> QED
      BY <1>6, <3>1, BelowIs
  <2> QED
    BY <2>1, <2>2
<1>11. ASSUME NEW m \in Ways(q)
       PROVE  /\ Below(w, m) => HeldBy(c, m)
              /\ HeldBy(c, m)' <=> HeldBy(c, m) /\ ~ Below(w, m)
  BY <1>0, <1>1, <1>3, GivesUp
<1>12. HeldBy(c, w) /\ ~ HeldBy(c, w)'
  BY <1>7, <1>10, <1>11
<1>13. ASSUME NEW m \in Ways(q), m # w PROVE HeldBy(c, m)' <=> HeldBy(c, m)
  BY <1>10, <1>11, <1>13
<1>14. /\ Copies(w, found[q]) = 0 /\ WaitingFor(q, w) = {} /\ Holders(q, w) = {c}
  <2>1. OnePlace(q, w)
    BY <1>5, <1>7 DEF JInv, Places
  <2>2. c \in Holders(q, w)
    BY <1>3, <1>12 DEF Holders
  <2> QED
    BY <2>1, <2>2 DEF OnePlace
<1>15. w \notin BagToSet(found[q])
  <2>1. Copies(w, found[q]) = 0
    BY <1>14
  <2> QED
    BY <1>9, <2>1 DEF Copies, BagIn, BagToSet, IsABag
<1>16. OnePlace(q, w)'
  <2>1. Copies(w, found'[q]) = 1
    <3>1. Copies(w, found[q] (+) Bagged(w)) = Copies(w, found[q]) + 1
      BY <1>9, BagGains
    <3> QED
      BY <1>4, <1>14, <3>1
  <2>2. WaitingFor(q, w)' = {}
    BY <1>1, <1>14 DEF WaitingFor, Below
  <2>3. Holders(q, w)' = {}
    <3>1. c \notin Holders(q, w)'
      BY <1>12 DEF Holders
    <3>2. \A e \in Compers \ {c} : e \in Holders(q, w)' <=> e \in Holders(q, w)
      BY <1>2, OtherHolders
    <3>3. Holders(q, w)' \subseteq Compers
      BY DEF Holders
    <3> QED
      BY <1>14, <3>1, <3>2, <3>3
  <2> QED
    BY <2>1, <2>2, <2>3 DEF OnePlace, Copies, BagIn
<1>17. ASSUME NEW r \in Queries, phase[r] = "running", NEW m \in Ways(r),
              r # q \/ m # w
       PROVE  OnePlace(r, m)'
  <2>1. OnePlace(r, m)
    BY <1>17 DEF JInv, Places
  <2>2. Holders(r, m)' = Holders(r, m)
    <3>1. c \in Holders(r, m)' <=> c \in Holders(r, m)
      <4>1. CASE r = q
        <5>1. HeldBy(c, m)' <=> HeldBy(c, m)
          BY <1>13, <1>17, <4>1
        <5> QED
          BY <1>1, <5>1 DEF Holders
      <4>2. CASE r # q
        BY <1>1, <1>3, <4>2 DEF Holders
      <4> QED
        BY <4>1, <4>2
    <3>2. \A e \in Compers \ {c} : e \in Holders(r, m)' <=> e \in Holders(r, m)
      BY <1>2, OtherHolders
    <3>3. Holders(r, m) \subseteq Compers /\ Holders(r, m)' \subseteq Compers
      BY DEF Holders
    <3> QED
      BY <3>1, <3>2, <3>3
  <2>3. WaitingFor(r, m)' = WaitingFor(r, m)
    BY <1>1 DEF WaitingFor, Below
  <2>4. Copies(m, found'[r]) = Copies(m, found[r])
    <3>1. CASE r # q
      BY <1>4, <3>1
    <3>2. CASE r = q
      <4>1. Copies(m, found[q] (+) Bagged(w)) = Copies(m, found[q])
        BY <1>9, <1>17, <3>2, BagGains
      <4> QED
        BY <1>4, <3>2, <4>1
    <3> QED
      BY <3>1, <3>2
  <2> QED
    BY <1>1, <2>1, <2>2, <2>3, <2>4, SamePlace
<1>18. ASSUME NEW r \in Queries PROVE Waits(r)' /\ Results(r)' /\ Places(r)'
  <2>1. Waits(r)'
    BY <1>1 DEF JInv, Waits, Possible, CandAt
  <2>2. Results(r)'
    <3>1. CASE r # q
      BY <1>1, <1>4, <3>1 DEF JInv, Results
    <3>2. CASE r = q
      <4>1. BagToSet(found[q] (+) Bagged(w)) = BagToSet(found[q]) \cup {w}
        BY <1>9, BagGains
      <4>2. BagToSet(found[q]) \subseteq Ways(q)
        BY <1>5 DEF JInv, Results
      <4> QED
        BY <1>1, <1>4, <1>5, <1>7, <3>2, <4>1, <4>2 DEF Results
    <3> QED
      BY <3>1, <3>2
  <2>3. ASSUME phase[r] = "running", NEW m \in Ways(r) PROVE OnePlace(r, m)'
    BY <1>16, <1>17, <2>3
  <2> QED
    BY <1>1, <2>1, <2>2, <2>3 DEF Places
<1>19. ASSUME NEW e \in Compers PROVE Searches(e)'
  BY <1>1, <1>2, OtherSearches
<1> QED
  BY <1>0, <1>1, <1>3, <1>5, <1>7, <1>15, <1>18, <1>19 DEF JInv

\* What is below the candidate goes from the comper to a new task.
LEMMA SplitKeeps ==
  ASSUME IInv, IInv', JInv, NEW c \in Compers, Split(c)
  PROVE  JInv'
<1>0. PICK w : w = Extended(c)
  OBVIOUS
<1>1. /\ HasCandidate(c) /\ Advance(c) /\ late[c]
      /\ tasks' = [tasks EXCEPT ![cur_query[c]] = @ (+) Bagged(w)]
      /\ UNCHANGED <<phase, found, cur_query, enter_depth, cur_depth, result_var,
                     can_lists, idx_count, visited_arr, late>>
  BY <1>0 DEF Split
<1>2. /\ \A e \in Compers \ {c} : UNCHANGED Own(e) /\ UNCHANGED late[e]
      /\ Searches(c)'
  BY <1>1, GoesOn
<1>3. PICK q \in Queries : q = cur_query[c] /\ Busy(c)
  BY <1>1, AtWork, Looking
<1>4. /\ tasks'[q] = tasks[q] (+) Bagged(w)
      /\ \A r \in Queries \ {q} : tasks'[r] = tasks[r]
  BY <1>1, <1>3 DEF IInv, Types
<1>5. phase[q] = "running" /\ q \in Slow
  BY <1>1, <1>3 DEF JInv, Searches
<1>6. Possible(q, w)
  BY <1>0, <1>1, <1>3, ExtendedIs
<1>7. IsABag(tasks[q])
  BY DEF IInv, Types
<1>8. /\ BagToSet(tasks'[q]) = BagToSet(tasks[q]) \cup {w}
      /\ Copies(w, tasks'[q]) = Copies(w, tasks[q]) + 1
      /\ \A rv : rv # w => Copies(rv, tasks'[q]) = Copies(rv, tasks[q])
  BY <1>4, <1>7, BagGains
<1>9. ASSUME NEW m \in Ways(q)
      PROVE  /\ Below(w, m) => HeldBy(c, m)
             /\ HeldBy(c, m)' <=> HeldBy(c, m) /\ ~ Below(w, m)
  BY <1>0, <1>1, <1>3, GivesUp
<1>10. ASSUME NEW r \in Queries, NEW m
       PROVE  /\ \A e \in Compers \ {c} : e \in Holders(r, m)' <=> e \in Holders(r, m)
              /\ Holders(r, m) \subseteq Compers /\ Holders(r, m)' \subseteq Compers
  <2>1. \A e \in Compers \ {c} : e \in Holders(r, m)' <=> e \in Holders(r, m)
    BY <1>2, OtherHolders
  <2> QED
    BY <2>1 DEF Holders
<1>11. ASSUME NEW m \in Ways(q), Below(w, m) PROVE OnePlace(q, m)'
  <2>1. HeldBy(c, m) /\ ~ HeldBy(c, m)'
    BY <1>9, <1>11
  <2>2. /\ Copies(m, found[q]) = 0 /\ WaitingFor(q, m) = {} /\ Holders(q, m) = {c}
    <3>1. OnePlace(q, m)
      BY <1>5 DEF JInv, Places
    <3>2. c \in Holders(q, m)
      BY <1>3, <2>1 DEF Holders
    <3> QED
      BY <3>1, <3>2 DEF OnePlace
  <2>3. w \notin BagToSet(tasks[q])
    BY <1>11, <2>2 DEF WaitingFor
  <2>4. Copies(w, tasks'[q]) = 1
    <3>1. Copies(w, tasks[q]) = 0
      BY <2>3 DEF Copies, BagIn, BagToSet
    <3> QED
      BY <1>8, <3>1
  <2>5. WaitingFor(q, m)' = {w}
    BY <1>8, <1>11, <2>2 DEF WaitingFor, Below
  <2>6. Holders(q, m)' = {}
    <3>1. c \notin Holders(q, m)'
      BY <2>1 DEF Holders
    <3> QED
      BY <1>10, <2>2, <3>1
  <2>7. Copies(m, found'[q]) = 0
    BY <1>1, <2>2
  <2> QED
    BY <2>4, <2>5, <2>6, <2>7 DEF OnePlace, Copies, BagIn
<1>12. ASSUME NEW r \in Queries, phase[r] = "running", NEW m \in Ways(r),
              r # q \/ ~ Below(w, m)
       PROVE  OnePlace(r, m)'
  <2>1. OnePlace(r, m)
    BY <1>12 DEF JInv, Places
  <2>2. Holders(r, m)' = Holders(r, m)
    <3>1. c \in Holders(r, m)' <=> c \in Holders(r, m)
      <4>1. CASE r = q
        <5>1. HeldBy(c, m)' <=> HeldBy(c, m)
          BY <1>9, <1>12, <4>1
        <5> QED
          BY <1>1, <5>1 DEF Holders
      <4>2. CASE r # q
        BY <1>1, <1>3, <4>2 DEF Holders
      <4> QED
        BY <4>1, <4>2
    <3> QED
      BY <1>10, <3>1
  <2>3. /\ WaitingFor(r, m)' = WaitingFor(r, m)
        /\ \A rv \in WaitingFor(r, m) : Copies(rv, tasks'[r]) = Copies(rv, tasks[r])
    <3>1. CASE r # q
      BY <1>4, <3>1 DEF WaitingFor, Below
    <3>2. CASE r = q
      BY <1>8, <1>12, <3>2 DEF WaitingFor, Below
    <3> QED
      BY <3>1, <3>2
  <2> QED
    BY <1>1, <2>1, <2>2, <2>3, SamePlace
<1>13. ASSUME NEW r \in Queries PROVE Waits(r)' /\ Results(r)' /\ Places(r)'
  <2>1. Waits(r)'
    <3>1. CASE r # q
      BY <1>1, <1>4, <3>1 DEF JInv, Waits, Possible, CandAt
    <3>2. CASE r = q
      <4>1. ASSUME NEW rv \in BagToSet(tasks'[q])
            PROVE  Possible(q, rv) /\ (Len(rv) > 0 => q \in Slow)
        BY <1>5, <1>6, <1>8 DEF JInv, Waits
      <4> QED
        BY <1>1, <1>5, <3>2, <4>1 DEF Waits, Possible, CandAt
    <3> QED
      BY <3>1, <3>2
  <2>2. Results(r)'
    BY <1>1 DEF JInv, Results
  <2>3. ASSUME phase[r] = "running", NEW m \in Ways(r) PROVE OnePlace(r, m)'
    BY <1>11, <1>12, <2>3
  <2> QED
    BY <1>1, <2>1, <2>2, <2>3 DEF Places
<1>14. ASSUME NEW e \in Compers PROVE Searches(e)'
  BY <1>1, <1>2, OtherSearches
<1> QED
  BY <1>13, <1>14 DEF JInv

\* No candidate is left at the current depth: the comper holds nothing there.
LEMMA NothingHere ==
  ASSUME IInv, NEW c \in Compers, Busy(c), ~ HasCandidate(c), NEW m
  PROVE  ~ At(c, cur_depth[c], m)
<1>1. /\ ~ (idx[c][cur_depth[c]] < idx_count[c][cur_depth[c]])
      /\ idx[c][cur_depth[c]] \in Nat /\ idx_count[c][cur_depth[c]] \in Nat
  BY AtWork DEF HasCandidate, Busy
<1>2. ~ \E k \in idx[c][cur_depth[c]] + 1 .. idx_count[c][cur_depth[c]] : TRUE
  BY <1>1
<1> QED
  BY <1>2 DEF At

\* A shorter path is as possible.
LEMMA ShorterPossible ==
  ASSUME NEW q, NEW rv \in Seq(Entries), NEW n \in Nat, n <= Len(rv), Possible(q, rv)
  PROVE  /\ SubSeq(rv, 1, n) \in Seq(Entries) /\ Possible(q, SubSeq(rv, 1, n))
         /\ \A i \in 1 .. n : SubSeq(rv, 1, n)[i] = rv[i]
         /\ \A d \in 0 .. n : CandAt(q, SubSeq(rv, 1, n), d) = CandAt(q, rv, d)
<1> DEFINE w == SubSeq(rv, 1, n)
<1>1. w \in Seq(Entries) /\ Len(w) = n /\ \A i \in 1 .. n : w[i] = rv[i]
  BY PrefixIs
<1> HIDE DEF w
<1>2. ASSUME NEW d \in 0 .. n PROVE CandAt(q, w, d) = CandAt(q, rv, d)
  <2>1. d \in Nat /\ d <= Len(w) /\ d <= Len(rv) /\ Agree(w, rv, d)
    BY <1>1 DEF Agree
  <2>2. SubSeq(w, 1, d) = SubSeq(rv, 1, d)
    BY <1>1, <2>1, SamePrefix
  <2> QED
    BY <2>2 DEF CandAt
<1>3. ASSUME NEW d \in 0 .. Len(w) - 1
      PROVE  \E k \in 1 .. Len(CandAt(q, w, d)) : CandAt(q, w, d)[k] = w[d + 1]
  <2>1. d \in 0 .. n /\ d \in 0 .. Len(rv) - 1 /\ d + 1 \in 1 .. n
    BY <1>1
  <2>2. PICK k \in 1 .. Len(CandAt(q, rv, d)) : CandAt(q, rv, d)[k] = rv[d + 1]
    BY <2>1 DEF Possible
  <2>3. CandAt(q, w, d) = CandAt(q, rv, d) /\ w[d + 1] = rv[d + 1]
    BY <1>1, <1>2, <2>1
  <2> QED
    BY <2>2, <2>3
<1> QED
  BY <1>1, <1>2, <1>3 DEF Possible, w

LEMMA BacktrackKeeps ==
  ASSUME IInv, IInv', JInv, NEW c \in Compers, Backtrack(c)
  PROVE  JInv'
<1> DEFINE d == cur_depth[c] - 1
           rv == result_var[c]
           w == SubSeq(rv, 1, d)
           from == enter_depth[c]
<1>1. /\ Busy(c) /\ ~ HasCandidate(c) /\ cur_depth[c] > enter_depth[c]
      /\ cur_depth' = [cur_depth EXCEPT ![c] = d]
      /\ result_var' = [result_var EXCEPT ![c] = w]
      /\ \A e \in Compers \ {c} : visited_arr'[e] = visited_arr[e]
      /\ UNCHANGED <<phase, tasks, found, cur_query, enter_depth, can_lists, idx,
                     idx_count, late>>
  BY DEF Backtrack, Busy, IInv, Types
<1>2. PICK q \in Queries : q = cur_query[c]
  BY <1>1, AtWork
<1>3. /\ rv \in Seq(Entries) /\ d \in Nat /\ Len(rv) = d + 1 /\ cur_depth[c] = d + 1
      /\ from \in 0 .. d
  <2>1. rv \in Seq(Entries) /\ cur_depth[c] = Len(rv) /\ from \in 0 .. cur_depth[c]
    BY <1>1, AtWork
  <2> QED
    BY <1>1, <2>1
<1>4. Searches(c)
  BY DEF JInv
<1>5. /\ w \in Seq(Entries) /\ Possible(q, w)
      /\ \A i \in 1 .. d : w[i] = rv[i]
      /\ \A e \in 0 .. d : CandAt(q, w, e) = CandAt(q, rv, e)
  <2>1. d <= Len(rv) /\ Possible(q, rv)
    BY <1>1, <1>2, <1>3, <1>4 DEF Searches
  <2> HIDE DEF d, rv
  <2> QED
    BY <1>3, <2>1, ShorterPossible
<1>6. /\ cur_query'[c] = q /\ enter_depth'[c] = from /\ cur_depth'[c] = d
      /\ result_var'[c] = w /\ can_lists'[c] = can_lists[c]
      /\ idx'[c] = idx[c] /\ idx_count'[c] = idx_count[c] /\ Busy(c)'
  BY <1>1, <1>2 DEF IInv, Types, Busy
<1>7. \A e \in from .. cur_depth[c] : e = d + 1 \/ e \in from .. d
  BY <1>3
<1>8. \A e \in from .. d : /\ e \in from .. cur_depth[c] /\ e \in 0 .. d
                           /\ e \in from .. cur_depth[c] - 1
  BY <1>3
<1>9. ASSUME NEW m \in Ways(q) PROVE HeldBy(c, m)' <=> HeldBy(c, m)
  <2> DEFINE Then(e) == /\ Agree(w, m, e)
                        /\ \E k \in idx[c][e] + 1 .. idx_count[c][e] :
                             can_lists[c][e][k] = m[e + 1]
  <2>1. m \in Seq(Entries) /\ Len(m) = Depth(q)
    <3>1. ~ Empty(q)
      BY <1>1, <1>2 DEF JInv, Searches, Results
    <3> QED
      BY <3>1, WayIs
  <2>2. HeldBy(c, m) <=> \E e \in from .. cur_depth[c] : At(c, e, m)
    BY <1>1, <1>2, <2>1, HeldIs DEF HeldAt
  <2>3. HeldBy(c, m)' <=> \E e \in from .. d : Then(e)
    <3>1. HeldAt'
      BY HeldIs, PTL
    <3>2. HeldBy(c, m)' <=> (\E e \in enter_depth[c] .. cur_depth[c] : At(c, e, m))'
      BY <1>6, <2>1, <3>1 DEF HeldAt
    <3> QED
      BY <1>6, <3>2 DEF At, Agree
  <2>4. \A e \in from .. d : Then(e) <=> At(c, e, m)
    <3>1. \A e \in from .. d : Agree(w, m, e) <=> Agree(rv, m, e)
      <4>1. \A e \in from .. d : \A i \in 1 .. e : i \in 1 .. d
        BY <1>3
      <4> QED
        BY <1>5, <4>1 DEF Agree
    <3> QED
      BY <3>1 DEF At
  <2> HIDE DEF Then
  <2>5. ~ At(c, d + 1, m)
    BY <1>1, <1>3, NothingHere
  <2> HIDE DEF d, from
  <2> QED
    BY <1>7, <1>8, <2>2, <2>3, <2>4, <2>5
<1>10. Searches(c)'
  <2>1. phase'[cur_query'[c]] = "running" /\ (late'[c] => cur_query'[c] \in Slow)
    BY <1>1, <1>4 DEF Searches
  <2>2. Possible(cur_query[c], result_var[c])'
    BY <1>5, <1>6 DEF Possible, CandAt
  <2>3. ASSUME NEW e \in from .. d PROVE Filled(c, e)'
    <3>1. Filled(c, e)
      BY <1>1, <1>4, <1>8 DEF Searches
    <3>2. CandAt(q, w, e) = CandAt(q, rv, e)
      BY <1>5, <1>8
    <3>3. CandAt(cur_query[c], result_var[c], e)' = CandAt(cur_query[c], rv, e)
      BY <1>2, <1>6, <3>2 DEF CandAt
    <3> QED
      BY <1>6, <3>1, <3>3 DEF Filled
  <2>4. ASSUME NEW e \in from .. d - 1 PROVE Passed(c, e)'
    <3>1. e \in from .. cur_depth[c] - 1 /\ e + 1 \in 1 .. d
      BY <1>3
    <3>2. Passed(c, e)
      BY <1>1, <1>4, <3>1 DEF Searches
    <3>3. w[e + 1] = rv[e + 1]
      BY <1>5, <3>1
    <3> QED
      BY <1>6, <3>2, <3>3 DEF Passed
  <2>5. \A e \in from .. d : Filled(c, e)'
    BY <2>3
  <2>6. \A e \in from .. d - 1 : Passed(c, e)'
    BY <2>4
  <2> HIDE DEF d, from
  <2> QED
    BY <1>6, <2>1, <2>2, <2>5, <2>6 DEF Searches, Filled, Passed, CandAt
<1>11. \A e \in Compers \ {c} : UNCHANGED Own(e) /\ UNCHANGED late[e]
  BY <1>1 DEF Own, IInv, Types
<1>12. ASSUME NEW r \in Queries, NEW m \in Ways(r)
       PROVE  cur_query'[c] = r /\ HeldBy(c, m)' <=> cur_query[c] = r /\ HeldBy(c, m)
  BY <1>2, <1>6, <1>9
<1> QED
  BY <1>1, <1>10, <1>11, <1>12, QuietStep

\* The task a comper is done with had nothing left.
LEMMA LeaveKeeps ==
  ASSUME IInv, JInv, NEW c \in Compers, Leave(c)
  PROVE  JInv'
<1>1. /\ Busy(c) /\ ~ HasCandidate(c) /\ cur_depth[c] = enter_depth[c]
      /\ cur_query' = [cur_query EXCEPT ![c] = NoQuery]
      /\ enter_depth' = [enter_depth EXCEPT ![c] = 0]
      /\ cur_depth' = [cur_depth EXCEPT ![c] = 0]
      /\ result_var' = [result_var EXCEPT ![c] = <<>>]
      /\ late' = [late EXCEPT ![c] = FALSE]
      /\ \A e \in Compers \ {c} : visited_arr'[e] = visited_arr[e]
      /\ UNCHANGED <<phase, tasks, found, can_lists, idx, idx_count>>
  BY DEF Leave, EndTask, Busy, IInv, Types
<1>2. PICK q \in Queries : q = cur_query[c]
  BY <1>1, AtWork
<1>3. cur_query'[c] = NoQuery /\ NoQuery \notin Queries
  BY <1>1, DfsAssumption DEF IInv, Types
<1>4. \A e \in Compers \ {c} : UNCHANGED Own(e) /\ UNCHANGED late[e]
  BY <1>1 DEF Own, IInv, Types
<1>5. ASSUME NEW m \in Ways(q) PROVE ~ HeldBy(c, m)
  <2>1. m \in Seq(Entries) /\ Len(m) = Depth(q)
    <3>1. ~ Empty(q)
      BY <1>1, <1>2 DEF JInv, Searches, Results
    <3> QED
      BY <3>1, WayIs
  <2>2. HeldBy(c, m) <=> \E e \in enter_depth[c] .. cur_depth[c] : At(c, e, m)
    BY <1>1, <1>2, <2>1, HeldIs DEF HeldAt
  <2>3. \A e \in enter_depth[c] .. cur_depth[c] : e = cur_depth[c]
    <3>1. cur_depth[c] \in Nat
      BY DEF IInv, Types
    <3> QED
      BY <1>1, <3>1
  <2>4. ~ At(c, cur_depth[c], m)
    BY <1>1, NothingHere
  <2> QED
    BY <2>2, <2>3, <2>4
<1>6. ASSUME NEW r \in Queries, NEW m \in Ways(r)
      PROVE  cur_query'[c] = r /\ HeldBy(c, m)' <=> cur_query[c] = r /\ HeldBy(c, m)
  BY <1>2, <1>3, <1>5
<1>7. Searches(c)'
  BY <1>3 DEF Searches, Busy
<1> QED
  BY <1>1, <1>4, <1>6, <1>7, QuietStep

LEMMA GetLateKeeps ==
  ASSUME IInv, JInv, NEW c \in Compers, GetLate(c)
  PROVE  JInv'
<1>1. /\ cur_query[c] \in Slow
      /\ late' = [late EXCEPT ![c] = TRUE]
      /\ UNCHANGED <<phase, tasks, found, cur_query, enter_depth, cur_depth,
                     result_var, can_lists, idx, idx_count, visited_arr>>
  BY DEF GetLate
<1>2. \A e \in Compers \ {c} : UNCHANGED Own(e) /\ UNCHANGED late[e]
  BY <1>1 DEF Own, IInv, Types
<1>3. ASSUME NEW r \in Queries, NEW m \in Ways(r)
      PROVE  cur_query'[c] = r /\ HeldBy(c, m)' <=> cur_query[c] = r /\ HeldBy(c, m)
  BY <1>1 DEF HeldBy, Below
<1>4. Searches(c)'
  <2>1. Searches(c)
    BY DEF JInv
  <2> QED
    BY <1>1, <2>1 DEF Searches, Busy, Filled, Passed, Possible, CandAt
<1> QED
  BY <1>1, <1>2, <1>3, <1>4, QuietStep

\* The root task is above every match.
LEMMA SpawnKeeps ==
  ASSUME IInv, JInv, NEW q \in Queries, Spawn(q)
  PROVE  JInv'
<1>1. /\ phase[q] = "new" /\ ~ Empty(q)
      /\ phase' = [phase EXCEPT ![q] = "running"]
      /\ tasks' = [tasks EXCEPT ![q] = Bagged(<<>>)]
      /\ UNCHANGED <<found, search>>
  BY DEF Spawn
<1>2. /\ phase'[q] = "running" /\ \A r \in Queries \ {q} : phase'[r] = phase[r]
      /\ tasks'[q] = Bagged(<<>>) /\ \A r \in Queries \ {q} : tasks'[r] = tasks[r]
  BY <1>1 DEF IInv, Types
<1>3. BagToSet(tasks'[q]) = {<<>>} /\ Copies(<<>>, tasks'[q]) = 1
  BY <1>2, BaggedIs DEF Copies, BagIn
<1>4. found[q] = EmptyBag /\ BagToSet(found[q]) = {} /\ \A m : Copies(m, found[q]) = 0
  <2>1. found[q] = EmptyBag
    BY <1>1 DEF JInv, Results
  <2> QED
    BY <2>1 DEF EmptyBag, SetToBag, BagToSet, Copies, BagIn
<1>5. \A e \in Compers : cur_query[e] # q
  BY <1>1, DfsAssumption DEF JInv, Searches, Busy
<1>6. ASSUME NEW r \in Queries PROVE Waits(r)' /\ Results(r)'
  <2>1. CASE r = q
    <3>1. Possible(q, <<>>) /\ ~ Len(<<>>) > 0
      BY DEF Possible
    <3>2. Waits(r)'
      BY <1>2, <1>3, <2>1, <3>1 DEF Waits, Possible, CandAt
    <3> QED
      BY <1>1, <1>2, <1>4, <2>1, <3>2 DEF Results
  <2>2. CASE r # q
    BY <1>1, <1>2, <2>2 DEF JInv, Waits, Results, Possible, CandAt
  <2> QED
    BY <2>1, <2>2
<1>7. ASSUME NEW r \in Queries, NEW m PROVE Holders(r, m)' = Holders(r, m)
  BY <1>1 DEF Holders, HeldBy, Below, search
<1>8. ASSUME NEW m \in Ways(q) PROVE OnePlace(q, m)'
  <2>1. Below(<<>>, m)
    <3>1. m \in Seq(Entries)
      BY <1>1, WayIs
    <3>2. <<>> \in Seq(Entries) /\ Len(<<>>) = 0 /\ Len(m) \in Nat
      BY <3>1
    <3>3. SubSeq(m, 1, 0) = <<>>
      BY SubSeqEmpty
    <3> QED
      BY <3>2, <3>3 DEF Below
  <2>2. WaitingFor(q, m)' = {<<>>}
    BY <1>3, <2>1 DEF WaitingFor, Below
  <2>3. Holders(q, m)' = {}
    BY <1>5, <1>7 DEF Holders
  <2>4. Copies(m, found'[q]) = 0
    BY <1>1, <1>4
  <2> QED
    BY <1>3, <2>2, <2>3, <2>4 DEF OnePlace, Copies, BagIn
<1>9. ASSUME NEW r \in Queries, r # q, phase[r] = "running", NEW m \in Ways(r)
      PROVE  OnePlace(r, m)'
  <2>1. OnePlace(r, m)
    BY <1>9 DEF JInv, Places
  <2>2. WaitingFor(r, m)' = WaitingFor(r, m)
    BY <1>2, <1>9 DEF WaitingFor, Below
  <2>3. Holders(r, m)' = Holders(r, m)
    BY <1>7
  <2> QED
    BY <1>1, <1>2, <1>9, <2>1, <2>2, <2>3, SamePlace
<1>10. ASSUME NEW r \in Queries PROVE Places(r)'
  BY <1>2, <1>8, <1>9 DEF Places
<1>11. ASSUME NEW e \in Compers PROVE Searches(e)'
  <2>1. UNCHANGED Own(e) /\ UNCHANGED late[e]
    BY <1>1 DEF search, Own
  <2>2. Busy(e) => cur_query[e] \in Queries
    BY AtWork
  <2> QED
    BY <1>2, <1>5, <2>1, <2>2, OtherSearches
<1> QED
  BY <1>6, <1>10, <1>11 DEF JInv

\* A query with no task left has taken every way to a match, once.
LEMMA ReportKeeps ==
  ASSUME IInv, JInv, NEW q \in Queries, Report(q)
  PROVE  JInv' /\ found[q] = SetToBag(Ways(q))
<1>1. /\ phase[q] = "running" /\ tasks[q] = EmptyBag
      /\ \A c \in Compers : cur_query[c] # q
      /\ phase' = [phase EXCEPT ![q] = "done"]
      /\ UNCHANGED <<tasks, found, search>>
  BY DEF Report
<1>2. phase'[q] = "done" /\ \A r \in Queries \ {q} : phase'[r] = phase[r]
  BY <1>1 DEF IInv, Types
<1>3. BagToSet(tasks[q]) = {}
  BY <1>1 DEF EmptyBag, SetToBag, BagToSet
<1>4. found[q] = SetToBag(Ways(q))
  <2>1. IsABag(found[q]) /\ BagToSet(found[q]) \subseteq Ways(q)
    BY <1>1 DEF IInv, Types, JInv, Results
  <2>2. \A m \in Ways(q) : Copies(m, found[q]) = 1
    BY <1>1, <1>3 DEF JInv, Places, OnePlace, WaitingFor, Holders
  <2>3. DOMAIN found[q] = Ways(q) /\ \A m \in Ways(q) : found[q][m] = 1
    BY <2>1, <2>2 DEF Copies, BagIn, BagToSet
  <2> QED
    BY <2>1, <2>3 DEF SetToBag, IsABag
<1>5. ASSUME NEW r \in Queries PROVE Waits(r)' /\ Results(r)'
  <2>1. CASE r = q
    BY <1>1, <1>2, <1>3, <1>4, <2>1 DEF JInv, Waits, Results
  <2>2. CASE r # q
    BY <1>1, <1>2, <2>2 DEF JInv, Waits, Results, Possible, CandAt
  <2> QED
    BY <2>1, <2>2
<1>6. ASSUME NEW r \in Queries, r # q, phase[r] = "running", NEW m \in Ways(r)
      PROVE  OnePlace(r, m)'
  <2>1. OnePlace(r, m)
    BY <1>6 DEF JInv, Places
  <2>2. Holders(r, m)' = Holders(r, m)
    BY <1>1 DEF Holders, HeldBy, Below, search
  <2>3. WaitingFor(r, m)' = WaitingFor(r, m)
    BY <1>1 DEF WaitingFor, Below
  <2> QED
    BY <1>1, <2>1, <2>2, <2>3, SamePlace
<1>7. ASSUME NEW r \in Queries PROVE Places(r)'
  BY <1>2, <1>6 DEF Places
<1>8. ASSUME NEW e \in Compers PROVE Searches(e)'
  <2>1. UNCHANGED Own(e) /\ UNCHANGED late[e]
    BY <1>1 DEF search, Own
  <2>2. Busy(e) => cur_query[e] \in Queries
    BY AtWork
  <2> QED
    BY <1>1, <1>2, <2>1, <2>2, OtherSearches
<1> QED
  BY <1>4, <1>5, <1>7, <1>8 DEF JInv

\* What is below the candidate is held at the next depth instead.
LEMMA DescendKeeps ==
  ASSUME IInv, IInv', JInv, NEW c \in Compers, Descend(c)
  PROVE  JInv'
<1>0. PICK w : w = Extended(c)
  OBVIOUS
<1> DEFINE n == cur_depth[c]
           rv == result_var[c]
           from == enter_depth[c]
           i == idx[c][n]
           L == can_lists[c][n]
           list == Overwrite(can_lists[c][n + 1], CandList(cur_query[c], w))
<1>1. /\ HasCandidate(c) /\ ~ Taken(c) /\ ~ AtLast(c)
      /\ result_var' = [result_var EXCEPT ![c] = w]
      /\ cur_depth' = [cur_depth EXCEPT ![c] = n + 1]
      /\ can_lists' = [can_lists EXCEPT ![c][n + 1] = list]
      /\ idx' = [idx EXCEPT ![c][n] = @ + 1, ![c][n + 1] = 0]
      /\ idx_count' = [idx_count EXCEPT ![c][n + 1] = Len(CandList(cur_query[c], w))]
      /\ \A e \in Compers \ {c} : visited_arr'[e] = visited_arr[e]
      /\ UNCHANGED <<phase, tasks, found, cur_query, enter_depth, late>>
  BY <1>0 DEF Descend, IInv, Types
<1>2. PICK q \in Queries : q = cur_query[c] /\ Busy(c)
  BY <1>1, AtWork, Looking
<1>3. /\ rv \in Seq(Entries) /\ n \in Nat /\ n = Len(rv) /\ n + 1 < Depth(q)
      /\ from \in 0 .. n /\ i \in Nat /\ idx_count[c][n] \in Nat /\ i + 1 <= idx_count[c][n]
      /\ n \in Depths /\ n + 1 \in Depths /\ n \in from .. n
      /\ w \in Seq(Entries) /\ Len(w) = n + 1
  <2>1. /\ rv \in Seq(Entries) /\ n = Len(rv) /\ n \in 0 .. Depth(q) - 1 /\ n \in Depths
        /\ from \in 0 .. n /\ i \in Nat /\ idx_count[c][n] \in Nat
    BY <1>2, AtWork
  <2>2. /\ i + 1 <= idx_count[c][n] /\ w \in Seq(Entries) /\ Len(w) = n + 1
        /\ n + 1 \in 0 .. Depth(q) - 1
    BY <1>0, <1>1, <1>2, Looking
  <2> QED
    BY <2>1, <2>2, DepthFits
<1>4. /\ Possible(q, w) /\ w[n + 1] = Candidate(c) /\ Candidate(c) = L[i + 1]
      /\ \A j \in 1 .. n : w[j] = rv[j]
      /\ \A d \in 0 .. n : CandAt(q, w, d) = CandAt(q, rv, d)
      /\ \A m \in Seq(Entries) : Len(m) = Depth(q) =>
           (Below(w, m) <=> Agree(rv, m, n) /\ Candidate(c) = m[n + 1])
  BY <1>0, <1>1, <1>2, ExtendedIs DEF Candidate
<1>5. CandAt(q, w, n + 1) = CandList(q, w)
  BY <1>3, SubSeqFull DEF CandAt
<1>6. CandList(q, w) \in Seq(Entries) /\ Len(CandList(q, w)) \in Nat
      /\ \A k \in 1 .. Len(CandList(q, w)) : list[k] = CandList(q, w)[k]
  <2>1. CandList(q, w) \in Seq(Entries)
    BY <1>3, CandIs
  <2>2. can_lists[c][n + 1] \in Seq(Entries)
    BY <1>3 DEF IInv, Types
  <2> QED
    BY <1>2, <2>1, <2>2, OverwriteIs
<1>7. /\ cur_query'[c] = q /\ enter_depth'[c] = from /\ cur_depth'[c] = n + 1
      /\ result_var'[c] = w /\ can_lists'[c][n + 1] = list
      /\ \A e \in Depths \ {n + 1} : can_lists'[c][e] = can_lists[c][e]
      /\ idx_count'[c][n + 1] = Len(CandList(q, w))
      /\ \A e \in Depths \ {n + 1} : idx_count'[c][e] = idx_count[c][e]
  BY <1>1, <1>2, <1>3 DEF IInv, Types
<1>8. /\ idx'[c][n + 1] = 0 /\ idx'[c][n] = i + 1
      /\ \A e \in Depths \ {n, n + 1} : idx'[c][e] = idx[c][e]
  <2>1. n # n + 1
    BY <1>3
  <2> QED
    BY <1>1, <1>3, <2>1 DEF IInv, Types
<1>9. \A e \in Compers \ {c} : UNCHANGED Own(e) /\ UNCHANGED late[e]
  BY <1>1 DEF Own, IInv, Types
<1>10. Searches(c)
  BY DEF JInv
<1>11. \A e \in from .. n : /\ e \in Depths /\ e # n + 1 /\ e \in 0 .. n
                            /\ (e # n => e \in from .. n - 1 /\ e + 1 \in 1 .. n)
  <2>1. \A e \in from .. n : e \in Depths
    BY <1>2, AtDepth
  <2> QED
    BY <1>3, <2>1
<1> HIDE DEF n, rv, from, i, L, list
<1>12. ASSUME NEW m \in Ways(q) PROVE HeldBy(c, m)' <=> HeldBy(c, m)
  <2> DEFINE Then(e) == /\ Agree(w, m, e)
                        /\ \E k \in idx'[c][e] + 1 .. idx_count'[c][e] :
                             can_lists'[c][e][k] = m[e + 1]
  <2>1. ~ Empty(q)
    BY <1>2 DEF JInv, Searches, Results
  <2>2. m \in Seq(Entries) /\ Len(m) = Depth(q)
    BY <2>1, WayIs
  <2>3. HeldBy(c, m) <=> \E e \in from .. n : At(c, e, m)
    BY <1>2, <2>2, HeldIs DEF HeldAt, from, n
  <2>4. HeldBy(c, m)' <=> \E e \in from .. n + 1 : Then(e)
    <3>1. HeldAt'
      BY HeldIs, PTL
    <3>2. Busy(c)'
      BY <1>1, <1>2 DEF Busy
    <3>3. HeldBy(c, m)' <=> (\E e \in enter_depth[c] .. cur_depth[c] : At(c, e, m))'
      BY <1>7, <2>2, <3>1, <3>2 DEF HeldAt
    <3> QED
      BY <1>7, <3>3 DEF At, Agree
  <2>5. ASSUME NEW e \in from .. n, e # n PROVE Then(e) <=> At(c, e, m)
    <3>1. Agree(w, m, e) <=> Agree(rv, m, e)
      <4>1. \A j \in 1 .. e : j \in 1 .. n
        BY <1>3, <1>11
      <4> QED
        BY <1>4, <4>1 DEF Agree
    <3>2. /\ idx'[c][e] = idx[c][e] /\ idx_count'[c][e] = idx_count[c][e]
          /\ can_lists'[c][e] = can_lists[c][e]
      BY <1>7, <1>8, <1>11, <2>5
    <3> QED
      BY <3>1, <3>2 DEF At, rv
  <2>6. Then(n) <=> Agree(rv, m, n) /\ \E k \in i + 2 .. idx_count[c][n] : L[k] = m[n + 1]
    <3>1. Agree(w, m, n) <=> Agree(rv, m, n)
      BY <1>4 DEF Agree
    <3>2. idx_count'[c][n] = idx_count[c][n] /\ can_lists'[c][n] = L
      BY <1>3, <1>7, <1>11 DEF L
    <3>3. i + 1 + 1 = i + 2
      BY <1>3
    <3> QED
      BY <1>8, <3>1, <3>2, <3>3
  <2>7. At(c, n, m) <=>
          Agree(rv, m, n) /\ \E k \in i + 1 .. idx_count[c][n] : L[k] = m[n + 1]
    BY DEF At, rv, i, L
  <2>8. Then(n + 1) <=> Below(w, m)
    <3>1. Below(w, m) <=> Agree(w, m, n + 1)
      BY <1>3, <2>2, BelowIs
    <3>2. ASSUME Agree(w, m, n + 1)
          PROVE  \E k \in 1 .. Len(CandList(q, w)) : list[k] = m[n + 1 + 1]
      <4>1. SubSeq(w, 1, n + 1) = SubSeq(m, 1, n + 1)
        BY <1>3, <2>2, <3>2, SamePrefix
      <4>2. CandAt(q, m, n + 1) = CandList(q, w)
        BY <1>5, <4>1 DEF CandAt
      <4>3. n + 1 \in 0 .. Depth(q) - 1
        BY <1>3, DepthFits
      <4>4. PICK k \in 1 .. Len(CandList(q, w)) : CandList(q, w)[k] = m[n + 1 + 1]
        BY <2>1, <4>2, <4>3, WayIs
      <4> QED
        BY <1>6, <4>4
    <3>3. 0 + 1 = 1
      OBVIOUS
    <3>4. \A k : k \in idx'[c][n + 1] + 1 .. idx_count'[c][n + 1]
                   <=> k \in 1 .. Len(CandList(q, w))
      BY <1>7, <1>8, <3>3
    <3>5. can_lists'[c][n + 1] = list
      BY <1>7
    <3> QED
      BY <3>1, <3>2, <3>4, <3>5
  <2>9. Below(w, m) <=> Agree(rv, m, n) /\ L[i + 1] = m[n + 1]
    BY <1>4, <2>2
  <2>10. At(c, n, m) <=> Then(n) \/ Then(n + 1)
    <3>1. \A k \in i + 1 .. idx_count[c][n] : k = i + 1 \/ k \in i + 2 .. idx_count[c][n]
      BY <1>3
    <3>2. \A k \in i + 2 .. idx_count[c][n] : k \in i + 1 .. idx_count[c][n]
      BY <1>3
    <3>3. i + 1 \in i + 1 .. idx_count[c][n]
      BY <1>3
    <3> HIDE DEF Then
    <3> QED
      BY <2>6, <2>7, <2>8, <2>9, <3>1, <3>2, <3>3
  <2> HIDE DEF Then
  <2>11. \A e \in from .. n + 1 : e = n + 1 \/ e = n \/ (e \in from .. n /\ e # n)
    BY <1>3
  <2>12. /\ n + 1 \in from .. n + 1 /\ n \in from .. n + 1
         /\ \A e \in from .. n : e \in from .. n + 1
    BY <1>3
  <2> QED
    BY <1>3, <2>3, <2>4, <2>5, <2>10, <2>11, <2>12
<1>13. Searches(c)'
  <2>1. phase'[cur_query'[c]] = "running" /\ (late'[c] => cur_query'[c] \in Slow)
    BY <1>1, <1>2, <1>10 DEF Searches
  <2>2. Possible(cur_query[c], result_var[c])'
    BY <1>4, <1>7 DEF Possible, CandAt
  <2>3. ASSUME NEW e \in from .. n + 1
        PROVE  /\ idx_count'[c][e] = Len(CandAt(q, w, e))
               /\ \A k \in 1 .. idx_count'[c][e] : can_lists'[c][e][k] = CandAt(q, w, e)[k]
    <3>1. CASE e = n + 1
      BY <1>5, <1>6, <1>7, <3>1
    <3>2. CASE e # n + 1
      <4>1. e \in from .. n
        BY <1>3, <3>2
      <4>2. Filled(c, e)
        BY <1>2, <1>10, <4>1 DEF Searches, from, n
      <4>3. /\ CandAt(q, w, e) = CandAt(q, rv, e) /\ idx_count'[c][e] = idx_count[c][e]
            /\ can_lists'[c][e] = can_lists[c][e]
        BY <1>4, <1>7, <1>11, <4>1
      <4> QED
        BY <1>2, <4>2, <4>3 DEF Filled, rv
    <3> QED
      BY <3>1, <3>2
  <2>4. ASSUME NEW e \in from .. n
        PROVE  /\ idx'[c][e] \in 1 .. idx_count'[c][e]
               /\ w[e + 1] = can_lists'[c][e][idx'[c][e]]
    <3>1. idx_count'[c][e] = idx_count[c][e] /\ can_lists'[c][e] = can_lists[c][e]
      BY <1>7, <1>11
    <3>2. CASE e = n
      BY <1>3, <1>4, <1>8, <3>1, <3>2 DEF L
    <3>3. CASE e # n
      <4>1. Passed(c, e)
        BY <1>2, <1>10, <1>11, <3>3 DEF Searches, from, n
      <4>2. idx'[c][e] = idx[c][e] /\ w[e + 1] = rv[e + 1]
        BY <1>4, <1>8, <1>11, <3>3
      <4> QED
        BY <3>1, <4>1, <4>2 DEF Passed, rv
    <3> QED
      BY <3>2, <3>3
  <2>5. n + 1 - 1 = n
    BY <1>3
  <2>6. \A e \in from .. n + 1 : Filled(c, e)'
    BY <1>7, <2>3 DEF Filled, CandAt
  <2>7. (\A e \in enter_depth[c] .. cur_depth[c] : Filled(c, e))'
    BY <1>7, <2>6
  <2>8. (\A e \in enter_depth[c] .. cur_depth[c] - 1 : Passed(c, e))'
    <3>1. \A e \in enter_depth'[c] .. cur_depth'[c] - 1 : e \in from .. n
      BY <1>3, <1>7, <2>5
    <3> QED
      BY <1>7, <2>4, <3>1 DEF Passed
  <2> QED
    BY <2>1, <2>2, <2>7, <2>8 DEF Searches
<1>14. ASSUME NEW r \in Queries, NEW m \in Ways(r)
       PROVE  cur_query'[c] = r /\ HeldBy(c, m)' <=> cur_query[c] = r /\ HeldBy(c, m)
  BY <1>2, <1>7, <1>12
<1> QED
  BY <1>1, <1>9, <1>13, <1>14, QuietStep

\* What is below the task goes from the queues to the comper.
LEMMA EnterKeeps ==
  ASSUME NoSplitPU, IInv, IInv', JInv, NEW c \in Compers, NEW q \in Queries, Enter(c, q)
  PROVE  JInv'
<1>1. PICK rv \in BagToSet(tasks[q]) :
        LET d == Len(rv)
            cands == CandList(q, rv)
            at == IF IsVertex(q, d) THEN d ELSE 0
        IN
        /\ tasks' = [tasks EXCEPT ![q] = @ (-) Bagged(rv)]
        /\ cur_query' = [cur_query EXCEPT ![c] = q]
        /\ enter_depth' = [enter_depth EXCEPT ![c] = d]
        /\ cur_depth' = [cur_depth EXCEPT ![c] = d]
        /\ result_var' = [result_var EXCEPT ![c] = rv]
        /\ can_lists' = [can_lists EXCEPT ![c][d] = Overwrite(@, cands)]
        /\ idx' = [idx EXCEPT ![c][at] = 0]
        /\ idx_count' = [idx_count EXCEPT ![c][at] = Len(cands)]
        /\ visited_arr' = [visited_arr EXCEPT ![c] = @ \cup VertexValues(q, rv)]
        /\ late' = [late EXCEPT ![c] = FALSE]
  BY DEF Enter
<1> DEFINE d == Len(rv)
           cands == CandList(q, rv)
           list == Overwrite(can_lists[c][d], cands)
<1>2. /\ cur_query[c] = NoQuery /\ NoQuery \notin Queries /\ UNCHANGED <<phase, found>>
  BY DfsAssumption DEF Enter
<1>3. /\ phase[q] = "running" /\ Possible(q, rv) /\ (d > 0 => q \in Slow) /\ ~ Empty(q)
  BY DEF JInv, Waits, Results
<1>4. rv \in Seq(Entries) /\ d \in Nat /\ d < Depth(q) /\ d \in Depths
  <2>1. IsPath(q, rv) /\ Len(rv) < Depth(q)
    BY DEF IInv, Waiting
  <2>2. rv \in Seq(Entries) /\ d \in Nat
    BY <2>1 DEF IsPath
  <2> QED
    BY <2>1, <2>2, DepthFits
<1>5. (IF IsVertex(q, d) THEN d ELSE 0) = d
  <2>1. CASE d = 0
    BY <2>1
  <2>2. CASE d # 0
    <3>1. q \in Slow /\ d \in 1 .. Depth(q) - 1
      BY <1>3, <1>4, <2>2, DepthFits
    <3> QED
      BY <3>1 DEF NoSplitPU
  <2> QED
    BY <2>1, <2>2
<1>6. cands \in Seq(Entries) /\ Len(cands) \in Nat
      /\ \A k \in 1 .. Len(cands) : list[k] = cands[k]
  <2>1. can_lists[c][d] \in Seq(Entries) /\ cands \in Seq(Entries)
    BY <1>4, CandIs DEF IInv, Types
  <2> HIDE DEF cands
  <2> QED
    BY <2>1, OverwriteIs
<1>7. /\ tasks'[q] = tasks[q] (-) Bagged(rv)
      /\ \A r \in Queries \ {q} : tasks'[r] = tasks[r]
  BY <1>1 DEF IInv, Types
<1>8. /\ cur_query'[c] = q /\ enter_depth'[c] = d /\ cur_depth'[c] = d
      /\ result_var'[c] = rv /\ can_lists'[c][d] = list
      /\ idx'[c][d] = 0 /\ idx_count'[c][d] = Len(cands) /\ late'[c] = FALSE
  BY <1>1, <1>4, <1>5 DEF IInv, Types
<1>9. \A e \in Compers \ {c} : UNCHANGED Own(e) /\ UNCHANGED late[e]
  BY <1>1 DEF Own, IInv, Types
<1>10. CandAt(q, rv, d) = cands
  BY <1>4, SubSeqFull DEF CandAt
<1> HIDE DEF d, cands, list
<1>11. Busy(c)'
  BY <1>2, <1>8 DEF Busy
<1>12. /\ BagToSet(tasks'[q]) \subseteq BagToSet(tasks[q])
       /\ Copies(rv, tasks[q]) = 1 => rv \notin BagToSet(tasks'[q])
       /\ \A w : w # rv => /\ Copies(w, tasks'[q]) = Copies(w, tasks[q])
                           /\ w \in BagToSet(tasks'[q]) <=> w \in BagToSet(tasks[q])
  <2>1. IsABag(tasks[q])
    BY DEF IInv, Types
  <2> QED
    BY <1>7, <2>1, BagLoses
<1>13. ASSUME NEW m \in Ways(q) PROVE HeldBy(c, m)' <=> Below(rv, m)
  <2>1. m \in Seq(Entries) /\ Len(m) = Depth(q)
    BY <1>3, WayIs
  <2>2. HeldAt'
    BY HeldIs, PTL
  <2>3. HeldBy(c, m)' <=> (\E e \in enter_depth[c] .. cur_depth[c] : At(c, e, m))'
    BY <1>8, <1>11, <2>1, <2>2 DEF HeldAt
  <2>4. \A e : e \in d .. d <=> e = d
    BY <1>4
  <2>5. HeldBy(c, m)' <=> At(c, d, m)'
    BY <1>8, <2>3, <2>4 DEF At, Agree
  <2>6. \A k : k \in 0 + 1 .. Len(cands) <=> k \in 1 .. Len(cands)
    OBVIOUS
  <2>7. At(c, d, m)' <=>
          Agree(rv, m, d) /\ \E k \in 1 .. Len(cands) : list[k] = m[d + 1]
    BY <1>8, <2>6 DEF At, Agree
  <2>8. ASSUME Agree(rv, m, d) PROVE \E k \in 1 .. Len(cands) : list[k] = m[d + 1]
    <3>1. CandAt(q, m, d) = cands
      <4>1. SubSeq(rv, 1, d) = SubSeq(m, 1, d)
        BY <1>4, <2>1, <2>8, SamePrefix DEF d
      <4> QED
        BY <1>10, <4>1 DEF CandAt
    <3>2. d \in 0 .. Depth(q) - 1
      BY <1>4, DepthFits
    <3>3. PICK k \in 1 .. Len(cands) : cands[k] = m[d + 1]
      BY <1>3, <3>1, <3>2, WayIs
    <3> QED
      BY <1>6, <3>3
  <2>9. Below(rv, m) <=> Agree(rv, m, d)
    <3>1. Len(rv) <= Len(m)
      BY <1>4, <2>1, DepthFits DEF d
    <3> QED
      BY <1>4, <2>1, <3>1, BelowIs DEF d
  <2> QED
    BY <2>5, <2>7, <2>8, <2>9
<1>14. ASSUME NEW r \in Queries, NEW m
       PROVE  /\ \A e \in Compers \ {c} : e \in Holders(r, m)' <=> e \in Holders(r, m)
              /\ Holders(r, m) \subseteq Compers /\ Holders(r, m)' \subseteq Compers
              /\ c \notin Holders(r, m)
  <2>1. \A e \in Compers \ {c} : e \in Holders(r, m)' <=> e \in Holders(r, m)
    BY <1>9, OtherHolders
  <2> QED
    BY <1>2, <2>1 DEF Holders
<1>15. ASSUME NEW m \in Ways(q), Below(rv, m) PROVE OnePlace(q, m)'
  <2>1. /\ Copies(m, found[q]) = 0 /\ Holders(q, m) = {}
        /\ WaitingFor(q, m) = {rv} /\ Copies(rv, tasks[q]) = 1
    <3>1. OnePlace(q, m)
      BY <1>3 DEF JInv, Places
    <3>2. rv \in WaitingFor(q, m)
      BY <1>15 DEF WaitingFor
    <3> QED
      BY <3>1, <3>2 DEF OnePlace
  <2>2. WaitingFor(q, m)' = {}
    BY <1>12, <2>1 DEF WaitingFor, Below
  <2>3. Holders(q, m)' = {c}
    <3>1. c \in Holders(q, m)'
      <4>1. HeldBy(c, m)'
        BY <1>13, <1>15
      <4> QED
        BY <1>8, <4>1 DEF Holders
    <3> QED
      BY <1>14, <2>1, <3>1
  <2>4. Copies(m, found'[q]) = 0
    BY <1>2, <2>1
  <2>5. c \in Holders(q, m)'
    BY <2>3
  <2> QED
    BY <2>2, <2>3, <2>4, <2>5 DEF OnePlace, Copies, BagIn
<1>16. ASSUME NEW r \in Queries, phase[r] = "running", NEW m \in Ways(r),
              r # q \/ ~ Below(rv, m)
       PROVE  OnePlace(r, m)'
  <2>1. OnePlace(r, m)
    BY <1>16 DEF JInv, Places
  <2>2. Holders(r, m)' = Holders(r, m)
    <3>1. c \notin Holders(r, m)'
      <4>1. CASE r = q
        <5>1. ~ HeldBy(c, m)'
          BY <1>13, <1>16, <4>1
        <5> QED
          BY <5>1 DEF Holders
      <4>2. CASE r # q
        BY <1>8, <4>2 DEF Holders
      <4> QED
        BY <4>1, <4>2
    <3> QED
      BY <1>14, <3>1
  <2>3. /\ WaitingFor(r, m)' = WaitingFor(r, m)
        /\ \A w \in WaitingFor(r, m) : Copies(w, tasks'[r]) = Copies(w, tasks[r])
    <3>1. CASE r # q
      BY <1>7, <3>1 DEF WaitingFor, Below
    <3>2. CASE r = q
      BY <1>12, <1>16, <3>2 DEF WaitingFor, Below
    <3> QED
      BY <3>1, <3>2
  <2> QED
    BY <1>2, <2>1, <2>2, <2>3, SamePlace
<1>17. ASSUME NEW r \in Queries PROVE Waits(r)' /\ Results(r)' /\ Places(r)'
  <2>1. Waits(r)'
    <3>1. CASE r # q
      BY <1>2, <1>7, <3>1 DEF JInv, Waits, Possible, CandAt
    <3>2. CASE r = q
      BY <1>2, <1>12, <3>2 DEF JInv, Waits, Possible, CandAt
    <3> QED
      BY <3>1, <3>2
  <2>2. Results(r)'
    BY <1>2 DEF JInv, Results
  <2>3. ASSUME phase[r] = "running", NEW m \in Ways(r) PROVE OnePlace(r, m)'
    BY <1>15, <1>16, <2>3
  <2> QED
    BY <1>2, <2>1, <2>2, <2>3 DEF Places
<1>18. Searches(c)'
  <2>1. phase'[cur_query'[c]] = "running" /\ (late'[c] => cur_query'[c] \in Slow)
    BY <1>2, <1>3, <1>8
  <2>2. Possible(cur_query[c], result_var[c])'
    BY <1>3, <1>8 DEF Possible, CandAt
  <2>3. Filled(c, d)'
    BY <1>6, <1>8, <1>10 DEF Filled, CandAt
  <2>4. \A e : (e \in d .. d <=> e = d) /\ ~ e \in d .. d - 1
    BY <1>4
  <2>5. (\A e \in enter_depth[c] .. cur_depth[c] : Filled(c, e))'
    BY <1>8, <2>3, <2>4 DEF Filled, CandAt
  <2>6. (\A e \in enter_depth[c] .. cur_depth[c] - 1 : Passed(c, e))'
    BY <1>8, <2>4
  <2> QED
    BY <2>1, <2>2, <2>5, <2>6 DEF Searches
<1>19. ASSUME NEW e \in Compers PROVE Searches(e)'
  <2>1. CASE e # c
    BY <1>2, <1>9, <2>1, OtherSearches
  <2>2. CASE e = c
    BY <1>18, <2>2
  <2> QED
    BY <2>1, <2>2
<1> QED
  BY <1>17, <1>19 DEF JInv

LEMMA InitJInv ==
  ASSUME Init
  PROVE  JInv
<1>1. BagToSet(EmptyBag) = {}
  BY DEF EmptyBag, SetToBag, BagToSet
<1>2. ASSUME NEW q \in Queries PROVE Waits(q) /\ Results(q) /\ Places(q)
  BY <1>1 DEF Init, Waits, Results, Places
<1>3. ASSUME NEW c \in Compers PROVE Searches(c)
  BY DEF Init, Searches, Busy
<1> QED
  BY <1>2, <1>3 DEF JInv

LEMMA NextJInv ==
  ASSUME NoSplitPU, IInv, IInv', JInv, [Next]_vars
  PROVE  JInv'
<1>1. ASSUME UNCHANGED vars PROVE JInv'
  <2>1. ASSUME NEW q \in Queries PROVE Waits(q)' /\ Results(q)'
    BY <1>1 DEF vars, JInv, Waits, Results, Possible, CandAt
  <2>2. ASSUME NEW q \in Queries PROVE Places(q)'
    <3>1. ASSUME phase[q] = "running", NEW m \in Ways(q) PROVE OnePlace(q, m)'
      <4>1. OnePlace(q, m)
        BY <3>1 DEF JInv, Places
      <4>2. Holders(q, m)' = Holders(q, m) /\ WaitingFor(q, m)' = WaitingFor(q, m)
        BY <1>1 DEF vars, search, Holders, HeldBy, WaitingFor, Below
      <4> QED
        BY <1>1, <4>1, <4>2, SamePlace DEF vars
    <3> QED
      BY <1>1, <3>1 DEF vars, Places
  <2>3. ASSUME NEW c \in Compers PROVE Searches(c)'
    BY <1>1, OtherSearches DEF vars, search, Own
  <2> QED
    BY <2>1, <2>2, <2>3 DEF JInv
<1>2. ASSUME NEW c \in Compers, Comper(c) PROVE JInv'
  BY <1>2, EnterKeeps, SkipTakenKeeps, MatchKeeps, DescendKeeps, SplitKeeps,
     BacktrackKeeps, LeaveKeeps DEF Comper, Work
<1> QED
  BY <1>1, <1>2, SpawnKeeps, ReportKeeps, GetLateKeeps DEF Next

-----------------------------------------------------------------------------
(* What is proved: the ways to the matches                                 *)

\* No way to a match is lost and none is taken twice, however the compers split the
\* search (add_task and its callers, app_rdf.h 1165-1662), whatever IDs the lists
\* repeat: each way to a match of a running query is found, below one waiting task
\* or with one comper.
THEOREM NoWayLostOrRepeated ==
  ASSUME NoSplitPU
  PROVE  Spec => [](IInv /\ JInv)
<1>1. Init => IInv /\ JInv
  BY InitIInv, InitJInv
<1>2. IInv /\ JInv /\ [Next]_vars => (IInv /\ JInv)'
  BY NoSplitPU, NextIInv, NextJInv
<1> QED
  BY <1>1, <1>2, PTL DEF Spec

\* The same, counted.
THEOREM OnePlacePerWay ==
  ASSUME NoSplitPU
  PROVE  Spec => []EachWayAtOnePlace
<1>1. ASSUME IInv, JInv PROVE EachWayAtOnePlace
  <2> SUFFICES ASSUME NEW q \in Queries, phase[q] = "running", NEW m \in Ways(q)
               PROVE  /\ \A rv \in WaitingFor(q, m) : Copies(rv, tasks[q]) = 1
                      /\ Copies(m, found[q]) + Cardinality(WaitingFor(q, m))
                           + Cardinality(Holders(q, m)) = 1
    BY DEF EachWayAtOnePlace, WaitingFor, Holders
  <2>1. OnePlace(q, m)
    BY <1>1 DEF JInv, Places
  <2>2. Cardinality({}) = 0 /\ \A x : Cardinality({x}) = 1
    BY FS_EmptySet, FS_Singleton
  <2>3. CASE /\ Copies(m, found[q]) = 1
             /\ WaitingFor(q, m) = {} /\ Holders(q, m) = {}
    BY <2>2, <2>3
  <2>4. CASE /\ Copies(m, found[q]) = 0 /\ Holders(q, m) = {}
             /\ \E rv \in WaitingFor(q, m) :
                  WaitingFor(q, m) = {rv} /\ Copies(rv, tasks[q]) = 1
    BY <2>2, <2>4
  <2>5. CASE /\ Copies(m, found[q]) = 0 /\ WaitingFor(q, m) = {}
             /\ \E c \in Holders(q, m) : Holders(q, m) = {c}
    <3>1. PICK c \in Holders(q, m) : Holders(q, m) = {c}
      BY <2>5
    <3>2. Cardinality(Holders(q, m)) = 1
      BY <2>2, <3>1
    <3> QED
      BY <2>2, <2>5, <3>2
  <2> QED
    BY <2>1, <2>3, <2>4, <2>5 DEF OnePlace
<1> QED
  BY <1>1, NoWayLostOrRepeated, NoSplitPU, PTL

\* What a query is reported with is its matches, each as often as there are ways to
\* find it (README.md 84).
THEOREM ReportsTheAnswer ==
  ASSUME NoSplitPU
  PROVE  Spec => []ReportedIsComplete
<1>1. ASSUME IInv, JInv PROVE ReportedIsComplete
  <2> SUFFICES ASSUME NEW q \in Queries, phase[q] = "done"
               PROVE  /\ found[q] = SetToBag(Ways(q))
                      /\ {IDs(m) : m \in BagToSet(found[q])} = Answers(q)
    BY DEF ReportedIsComplete
  <2>1. ~ Empty(q) /\ found[q] = SetToBag(Ways(q))
    BY <1>1 DEF JInv, Results
  <2>2. BagToSet(SetToBag(Ways(q))) = Ways(q)
    BY DEF BagToSet, SetToBag
  <2>3. Answers(q) = {IDs(m) : m \in Ways(q)}
    BY <2>1, PlanAssumption
  <2> QED
    BY <2>1, <2>2, <2>3
<1> QED
  BY <1>1, NoWayLostOrRepeated, NoSplitPU, PTL

\* The search implements Enumeration.
LEMMA StepEnumerates ==
  ASSUME NoSplitPU, IInv, IInv', JInv, [Next]_vars
  PROVE  [E!Next]_E!vars
<1> DEFINE done == {q \in Queries : phase[q] = "done"}
<1>1. ASSUME UNCHANGED <<phase, found>> PROVE UNCHANGED E!vars
  BY <1>1 DEF E!vars
<1>2. ASSUME NEW q \in Queries, Spawn(q) PROVE UNCHANGED E!vars
  <2>1. phase[q] = "new" /\ phase' = [phase EXCEPT ![q] = "running"] /\ UNCHANGED found
    BY <1>2 DEF Spawn
  <2>2. \A r \in Queries : phase'[r] = "done" <=> phase[r] = "done"
    BY <2>1 DEF IInv, Types
  <2> QED
    BY <2>1, <2>2 DEF E!vars
<1>3. ASSUME NEW q \in Queries, Report(q) PROVE E!Next
  <2>1. phase[q] = "running" /\ phase' = [phase EXCEPT ![q] = "done"] /\ UNCHANGED found
    BY <1>3 DEF Report
  <2>2. found[q] = SetToBag(Ways(q))
    BY <1>3, ReportKeeps
  <2>3. q \notin done /\ done' = done \cup {q}
    BY <2>1 DEF IInv, Types
  <2>4. E!Report(q)
    BY <2>1, <2>2, <2>3 DEF E!Report, E!SetToBag, SetToBag
  <2> QED
    BY <2>4 DEF E!Next
<1>4. ASSUME NEW c \in Compers, Match(c) PROVE E!Next
  <2>1. PICK q \in Queries :
          /\ phase[q] = "running" /\ Extended(c) \in Ways(q) \ BagToSet(found[q])
          /\ found' = [found EXCEPT ![q] = @ (+) Bagged(Extended(c))]
    BY <1>4, MatchKeeps
  <2>2. UNCHANGED phase
    BY <1>4 DEF Match
  <2>3. q \notin done /\ done' = done
    BY <2>1, <2>2
  <2>4. E!Find(q)
    BY <2>1, <2>3 DEF E!Find, Bagged, E!SetToBag, SetToBag, E!BagToSet, BagToSet, E!(+), (+)
  <2> QED
    BY <2>4 DEF E!Next
<1>5. ASSUME NEW c \in Compers, Comper(c) \/ GetLate(c), ~ Match(c)
      PROVE  UNCHANGED <<phase, found>>
  BY <1>5 DEF Comper, Work, Enter, SkipTaken, Descend, Split, Backtrack, Leave, GetLate
<1> QED
  BY <1>1, <1>2, <1>3, <1>4, <1>5 DEF Next, vars

\* The answer of a query grows by one result at a time, each a way to a match that
\* it does not have yet, never by what is none, and is reported when it has all.
THEOREM SearchEnumerates ==
  ASSUME NoSplitPU
  PROVE  Spec => ImplementsEnumeration
<1>1. Init => E!Init
  BY DEF Init, E!Init, EmptyBag, SetToBag, E!EmptyBag, E!SetToBag
<1>2. NoSplitPU
  OBVIOUS
<1>3. IInv /\ JInv /\ (IInv /\ JInv)' /\ [Next]_vars => [E!Next]_E!vars
  BY <1>2, StepEnumerates
<1> QED
  BY <1>1, <1>3, NoWayLostOrRepeated, NoSplitPU, PTL
     DEF Spec, ImplementsEnumeration, E!Spec
=============================================================================

----------------------------- MODULE StoreProof -----------------------------
(***************************************************************************)
(* Proofs about the store.                                                 *)
(*                                                                         *)
(* A process that loaded it has the files of one finished build            *)
(* (LoadIsTheBuild), however gload, its deaths and restarts and the loads  *)
(* interleave.  That is about the two orders in which files are visited:   *)
(* gload closes every file, the info file last of all and after every      *)
(* other file's last write; a load reads the info file first.  So as long  *)
(* as no gload ran over a store with an info file, that file is whole only *)
(* when the build it names is finished and nothing is being written        *)
(* (Fresh), and everything read after it is of that build.                 *)
(*                                                                         *)
(* The lists it works on tell the triples of the data (IndexesAgree).      *)
(* Sorting first: ranks are a permutation, so the sorted triples are those *)
(* of the data in order, and equal keys are neighbours.  Then the loops    *)
(* that cut the sorted triples into lists: a run of equal keys is what is  *)
(* stored, whole and under its own key.  Then the dictionaries: names get  *)
(* IDs once and keep them as the tables grow.  Then insertion, which keeps *)
(* the order and adds the triple to each of the six maps.  What the six    *)
(* maps have in common, a set of triples that each tells (StoreOf), is the *)
(* invariant of the data.                                                  *)
(*                                                                         *)
(* What a server plans with is of the same data (StatisticsMatch): in      *)
(* triples sorted by predicate and value, a value that does not repeat the *)
(* one before it is new; the lists lie one behind the other where their    *)
(* lengths say; and the number that two lists share bounds what any set of *)
(* lists with these two shares.                                            *)
(***************************************************************************)
EXTENDS Store, ProofLemmas

N == Len(BuildScript)

\* The files that gload writes.
Written_files == {"signature", "p2s", "p2o", "preStatDict", "IntersectDict", "info"}
                 \cup {FlushedFiles[k] : k \in 1 .. 12}
Entries == {"open", "close"} \X Written_files
-----------------------------------------------------------------------------
(* The two orders                                                          *)

\* KVstore::flush: the twelve maps, each opened and closed.
LEMMA FlushIs ==
  /\ Flush \in Seq(Entries) /\ Len(Flush) = 24
  /\ \A k \in 1 .. 12 : /\ Flush[2 * k - 1] = <<"open", FlushedFiles[k]>>
                        /\ Flush[2 * k] = <<"close", FlushedFiles[k]>>
<1>1. Len(FlushedFiles) = 12
  BY DEF FlushedFiles
<1>2. \A i \in 1 .. 24 : (i + 1) \div 2 \in 1 .. 12
  OBVIOUS
<1>3. \A i \in 1 .. 24 :
        <<IF i % 2 = 1 THEN "open" ELSE "close", FlushedFiles[(i + 1) \div 2]>> \in Entries
  BY <1>1, <1>2 DEF Entries, Written_files
<1>4. Flush = [i \in 1 .. 24 |->
                 <<IF i % 2 = 1 THEN "open" ELSE "close", FlushedFiles[(i + 1) \div 2]>>]
  BY <1>1 DEF Flush
<1>5. Flush \in [1 .. 24 -> Entries]
  BY <1>3, <1>4
<1>6. Flush \in Seq(Entries) /\ Len(Flush) = 24
  <2>1. Flush \in Seq(Entries)
    BY <1>5, SeqDef
  <2>2. DOMAIN Flush = 1 .. 24 /\ Flush \in Seq(Entries)
    BY <1>5, <2>1
  <2>3. DOMAIN Flush = 1 .. Len(Flush) /\ Len(Flush) \in Nat
    BY <2>1, LenProperties
  <2> QED
    BY <2>1, <2>2, <2>3
<1>7. ASSUME NEW k \in 1 .. 12
      PROVE  /\ Flush[2 * k - 1] = <<"open", FlushedFiles[k]>>
             /\ Flush[2 * k] = <<"close", FlushedFiles[k]>>
  <2>1. /\ 2 * k - 1 \in 1 .. 24 /\ (2 * k - 1) % 2 = 1 /\ (2 * k - 1 + 1) \div 2 = k
        /\ 2 * k \in 1 .. 24 /\ (2 * k) % 2 # 1 /\ (2 * k + 1) \div 2 = k
    OBVIOUS
  <2> QED
    BY <1>4, <2>1
<1> QED
  BY <1>6, <1>7

\* encodeRDF_new and the rest of Database::build: the whole order.
LEMMA BuildScriptIs ==
  /\ N = 36
  /\ BuildScript[1] = <<"open", "signature">> /\ BuildScript[2] = <<"close", "signature">>
  /\ \A k \in 1 .. 12 : /\ BuildScript[2 * k + 1] = <<"open", FlushedFiles[k]>>
                        /\ BuildScript[2 * k + 2] = <<"close", FlushedFiles[k]>>
  /\ BuildScript[27] = <<"open", "p2s">> /\ BuildScript[28] = <<"open", "p2o">>
  /\ BuildScript[29] = <<"open", "preStatDict">> /\ BuildScript[30] = <<"close", "preStatDict">>
  /\ BuildScript[31] = <<"close", "p2s">> /\ BuildScript[32] = <<"close", "p2o">>
  /\ BuildScript[33] = <<"open", "IntersectDict">> /\ BuildScript[34] = <<"close", "IntersectDict">>
  /\ BuildScript[35] = <<"open", "info">> /\ BuildScript[36] = <<"close", "info">>
<1> DEFINE a == Write("signature")
           b == <<<<"open", "p2s">>, <<"open", "p2o">>>>
           c == Write("preStatDict")
           d == <<<<"close", "p2s">>, <<"close", "p2o">>>>
           e == Write("IntersectDict")
           f == Write("info")
           s1 == a \o Flush
           s2 == s1 \o b
           s3 == s2 \o c
           s4 == s3 \o d
           s5 == s4 \o e
           s6 == s5 \o f
<1>1. BuildScript = s6
  BY DEF BuildScript
<1>2. /\ a \in Seq(Entries) /\ Len(a) = 2
      /\ a[1] = <<"open", "signature">> /\ a[2] = <<"close", "signature">>
  BY DEF Write, Entries, Written_files
<1>3. /\ b \in Seq(Entries) /\ Len(b) = 2
      /\ b[1] = <<"open", "p2s">> /\ b[2] = <<"open", "p2o">>
  BY DEF Entries, Written_files
<1>4. /\ c \in Seq(Entries) /\ Len(c) = 2
      /\ c[1] = <<"open", "preStatDict">> /\ c[2] = <<"close", "preStatDict">>
  BY DEF Write, Entries, Written_files
<1>5. /\ d \in Seq(Entries) /\ Len(d) = 2
      /\ d[1] = <<"close", "p2s">> /\ d[2] = <<"close", "p2o">>
  BY DEF Entries, Written_files
<1>6. /\ e \in Seq(Entries) /\ Len(e) = 2
      /\ e[1] = <<"open", "IntersectDict">> /\ e[2] = <<"close", "IntersectDict">>
  BY DEF Write, Entries, Written_files
<1>7. /\ f \in Seq(Entries) /\ Len(f) = 2
      /\ f[1] = <<"open", "info">> /\ f[2] = <<"close", "info">>
  BY DEF Write, Entries, Written_files
<1> HIDE DEF a, b, c, d, e, f
<1>8. /\ s1 \in Seq(Entries) /\ Len(s1) = 26
      /\ \A i \in 1 .. 26 : s1[i] = IF i <= 2 THEN a[i] ELSE Flush[i - 2]
  <2>1. /\ a \in Seq(Entries) /\ Flush \in Seq(Entries)
        /\ Len(a) = 2 /\ Len(Flush) = 24
    BY <1>2, FlushIs
  <2>2. s1 \in Seq(Entries) /\ Len(s1) = Len(a) + Len(Flush)
    BY <2>1, ConcatProperties
  <2>3. \A i \in 1 .. Len(a) + Len(Flush) :
          s1[i] = IF i <= Len(a) THEN a[i] ELSE Flush[i - Len(a)]
    BY <2>1, ConcatProperties
  <2>4. Len(a) + Len(Flush) = 26
    BY <2>1
  <2> HIDE DEF s1
  <2> QED
    BY <2>1, <2>2, <2>3, <2>4
<1> HIDE DEF s1
<1>9. /\ s2 \in Seq(Entries) /\ Len(s2) = 28
      /\ \A i \in 1 .. 28 : s2[i] = IF i <= 26 THEN s1[i] ELSE b[i - 26]
  <2>1. /\ s1 \in Seq(Entries) /\ b \in Seq(Entries)
        /\ Len(s1) = 26 /\ Len(b) = 2
    BY <1>3, <1>8
  <2>2. s2 \in Seq(Entries) /\ Len(s2) = Len(s1) + Len(b)
    BY <2>1, ConcatProperties
  <2>3. \A i \in 1 .. Len(s1) + Len(b) :
          s2[i] = IF i <= Len(s1) THEN s1[i] ELSE b[i - Len(s1)]
    BY <2>1, ConcatProperties
  <2>4. Len(s1) + Len(b) = 28
    BY <2>1
  <2> HIDE DEF s2
  <2> QED
    BY <2>1, <2>2, <2>3, <2>4
<1> HIDE DEF s2
<1>10. /\ s3 \in Seq(Entries) /\ Len(s3) = 30
       /\ \A i \in 1 .. 30 : s3[i] = IF i <= 28 THEN s2[i] ELSE c[i - 28]
  <2>1. /\ s2 \in Seq(Entries) /\ c \in Seq(Entries)
        /\ Len(s2) = 28 /\ Len(c) = 2
    BY <1>4, <1>9
  <2>2. s3 \in Seq(Entries) /\ Len(s3) = Len(s2) + Len(c)
    BY <2>1, ConcatProperties
  <2>3. \A i \in 1 .. Len(s2) + Len(c) :
          s3[i] = IF i <= Len(s2) THEN s2[i] ELSE c[i - Len(s2)]
    BY <2>1, ConcatProperties
  <2>4. Len(s2) + Len(c) = 30
    BY <2>1
  <2> HIDE DEF s3
  <2> QED
    BY <2>1, <2>2, <2>3, <2>4
<1> HIDE DEF s3
<1>11. /\ s4 \in Seq(Entries) /\ Len(s4) = 32
       /\ \A i \in 1 .. 32 : s4[i] = IF i <= 30 THEN s3[i] ELSE d[i - 30]
  <2>1. /\ s3 \in Seq(Entries) /\ d \in Seq(Entries)
        /\ Len(s3) = 30 /\ Len(d) = 2
    BY <1>5, <1>10
  <2>2. s4 \in Seq(Entries) /\ Len(s4) = Len(s3) + Len(d)
    BY <2>1, ConcatProperties
  <2>3. \A i \in 1 .. Len(s3) + Len(d) :
          s4[i] = IF i <= Len(s3) THEN s3[i] ELSE d[i - Len(s3)]
    BY <2>1, ConcatProperties
  <2>4. Len(s3) + Len(d) = 32
    BY <2>1
  <2> HIDE DEF s4
  <2> QED
    BY <2>1, <2>2, <2>3, <2>4
<1> HIDE DEF s4
<1>12. /\ s5 \in Seq(Entries) /\ Len(s5) = 34
       /\ \A i \in 1 .. 34 : s5[i] = IF i <= 32 THEN s4[i] ELSE e[i - 32]
  <2>1. /\ s4 \in Seq(Entries) /\ e \in Seq(Entries)
        /\ Len(s4) = 32 /\ Len(e) = 2
    BY <1>6, <1>11
  <2>2. s5 \in Seq(Entries) /\ Len(s5) = Len(s4) + Len(e)
    BY <2>1, ConcatProperties
  <2>3. \A i \in 1 .. Len(s4) + Len(e) :
          s5[i] = IF i <= Len(s4) THEN s4[i] ELSE e[i - Len(s4)]
    BY <2>1, ConcatProperties
  <2>4. Len(s4) + Len(e) = 34
    BY <2>1
  <2> HIDE DEF s5
  <2> QED
    BY <2>1, <2>2, <2>3, <2>4
<1> HIDE DEF s5
<1>13. /\ s6 \in Seq(Entries) /\ Len(s6) = 36
       /\ \A i \in 1 .. 36 : s6[i] = IF i <= 34 THEN s5[i] ELSE f[i - 34]
  <2>1. /\ s5 \in Seq(Entries) /\ f \in Seq(Entries)
        /\ Len(s5) = 34 /\ Len(f) = 2
    BY <1>7, <1>12
  <2>2. s6 \in Seq(Entries) /\ Len(s6) = Len(s5) + Len(f)
    BY <2>1, ConcatProperties
  <2>3. \A i \in 1 .. Len(s5) + Len(f) :
          s6[i] = IF i <= Len(s5) THEN s5[i] ELSE f[i - Len(s5)]
    BY <2>1, ConcatProperties
  <2>4. Len(s5) + Len(f) = 36
    BY <2>1
  <2> HIDE DEF s6
  <2> QED
    BY <2>1, <2>2, <2>3, <2>4
<1> HIDE DEF s6
<1>14. \A i \in 1 .. 32 : s6[i] = s4[i]
  <2> TAKE i \in 1 .. 32
  <2>1. i \in 1 .. 36 /\ i \in 1 .. 34 /\ i <= 34 /\ i <= 32
    OBVIOUS
  <2>2. s6[i] = s5[i]
    BY <2>1, <1>13
  <2>3. s5[i] = s4[i]
    BY <2>1, <1>12
  <2> QED
    BY <2>2, <2>3
<1>15. \A i \in 1 .. 28 : s4[i] = s2[i]
  <2> TAKE i \in 1 .. 28
  <2>1. i \in 1 .. 32 /\ i \in 1 .. 30 /\ i <= 30 /\ i <= 28
    OBVIOUS
  <2>2. s4[i] = s3[i]
    BY <2>1, <1>11
  <2>3. s3[i] = s2[i]
    BY <2>1, <1>10
  <2> QED
    BY <2>2, <2>3
<1>16. \A i \in 1 .. 26 : s6[i] = s1[i]
  <2> TAKE i \in 1 .. 26
  <2>1. i \in 1 .. 32 /\ i \in 1 .. 28 /\ i <= 26
    OBVIOUS
  <2>2. s6[i] = s4[i] /\ s4[i] = s2[i]
    BY <2>1, <1>14, <1>15
  <2>3. s2[i] = s1[i]
    BY <2>1, <1>9
  <2> QED
    BY <2>2, <2>3
<1>17. s6[27] = b[1] /\ s6[28] = b[2]
  <2>1. s6[27] = s2[27] /\ s6[28] = s2[28]
    BY <1>14, <1>15
  <2>2. s2[27] = b[1] /\ s2[28] = b[2]
    BY <1>9
  <2> QED
    BY <2>1, <2>2
<1>18. s6[29] = c[1] /\ s6[30] = c[2] /\ s6[31] = d[1] /\ s6[32] = d[2]
  <2>1. /\ s6[29] = s4[29] /\ s6[30] = s4[30] /\ s6[31] = s4[31] /\ s6[32] = s4[32]
    BY <1>14
  <2>2. s4[29] = s3[29] /\ s4[30] = s3[30] /\ s4[31] = d[1] /\ s4[32] = d[2]
    BY <1>11
  <2>3. s3[29] = c[1] /\ s3[30] = c[2]
    BY <1>10
  <2> QED
    BY <2>1, <2>2, <2>3
<1>19. s6[33] = e[1] /\ s6[34] = e[2]
  <2>1. s6[33] = s5[33] /\ s6[34] = s5[34]
    BY <1>13
  <2>2. s5[33] = e[1] /\ s5[34] = e[2]
    BY <1>12
  <2> QED
    BY <2>1, <2>2
<1>20. s6[35] = f[1] /\ s6[36] = f[2]
  BY <1>13
<1>21. s6[1] = a[1] /\ s6[2] = a[2]
  <2>1. s6[1] = s1[1] /\ s6[2] = s1[2]
    BY <1>16
  <2>2. s1[1] = a[1] /\ s1[2] = a[2]
    BY <1>8
  <2> QED
    BY <2>1, <2>2
<1>22. ASSUME NEW k \in 1 .. 12
       PROVE  /\ s6[2 * k + 1] = <<"open", FlushedFiles[k]>>
              /\ s6[2 * k + 2] = <<"close", FlushedFiles[k]>>
  <2>1. /\ 2 * k + 1 \in 1 .. 26 /\ ~(2 * k + 1 <= 2) /\ 2 * k + 1 - 2 = 2 * k - 1
        /\ 2 * k + 2 \in 1 .. 26 /\ ~(2 * k + 2 <= 2) /\ 2 * k + 2 - 2 = 2 * k
    OBVIOUS
  <2>2. s6[2 * k + 1] = s1[2 * k + 1] /\ s6[2 * k + 2] = s1[2 * k + 2]
    BY <1>16, <2>1
  <2>3. \A j \in 3 .. 26 : s1[j] = Flush[j - 2]
    <3> TAKE j \in 3 .. 26
    <3>1. j \in 1 .. 26 /\ ~(j <= 2)
      OBVIOUS
    <3> QED
      BY <1>8, <3>1
  <2>4. PICK j \in 3 .. 26, l \in 3 .. 26 : j = 2 * k + 1 /\ l = 2 * k + 2
    OBVIOUS
  <2>5. s1[j] = Flush[j - 2] /\ s1[l] = Flush[l - 2]
    BY <2>3
  <2>6. j - 2 = 2 * k - 1 /\ l - 2 = 2 * k
    BY <2>4
  <2>7. s6[j] = Flush[2 * k - 1] /\ s6[l] = Flush[2 * k]
    BY <2>2, <2>4, <2>5, <2>6
  <2> QED
    BY <2>4, <2>7, FlushIs
<1>23. N = 36
  BY <1>1, <1>13 DEF N
<1>24. /\ BuildScript[1] = a[1] /\ BuildScript[2] = a[2]
       /\ \A k \in 1 .. 12 : /\ BuildScript[2 * k + 1] = <<"open", FlushedFiles[k]>>
                             /\ BuildScript[2 * k + 2] = <<"close", FlushedFiles[k]>>
  BY <1>1, <1>21, <1>22
<1>25. /\ BuildScript[27] = b[1] /\ BuildScript[28] = b[2]
       /\ BuildScript[29] = c[1] /\ BuildScript[30] = c[2]
       /\ BuildScript[31] = d[1] /\ BuildScript[32] = d[2]
       /\ BuildScript[33] = e[1] /\ BuildScript[34] = e[2]
       /\ BuildScript[35] = f[1] /\ BuildScript[36] = f[2]
  BY <1>1, <1>20, <1>17, <1>18, <1>19
<1> QED
  BY <1>2, <1>3, <1>4, <1>5, <1>6, <1>7, <1>23, <1>24, <1>25

\* Database::load: the info file first, then files that gload writes.
LEMMA LoadScriptIs ==
  /\ LoadScript \in Seq(Written_files) /\ Len(LoadScript) = 18
  /\ LoadScript[1] = "info"
  /\ \A k \in 2 .. 18 : LoadScript[k] # "info"
  /\ \A k \in 1 .. 18 : LoadScript[k] \in Written_files
<1> DEFINE a == <<"info">>
           b == <<"signature", "preStatDict", "p2s", "p2o", "IntersectDict">>
           s1 == a \o MapFiles
           s2 == s1 \o b
<1>1. LoadScript = s2
  BY DEF LoadScript
<1>2. MapFiles = FlushedFiles
  BY DEF MapFiles, FlushedFiles
<1>3. /\ Len(FlushedFiles) = 12
      /\ \A k \in 1 .. 12 : FlushedFiles[k] # "info"
  BY DEF FlushedFiles
<1>4. a \in Seq(Written_files) /\ Len(a) = 1 /\ a[1] = "info"
  BY DEF Written_files
<1>5. MapFiles \in Seq(Written_files) /\ Len(MapFiles) = 12
  <2>1. \A k \in 1 .. 12 : FlushedFiles[k] \in Written_files
    BY DEF Written_files
  <2>2. FlushedFiles = [k \in 1 .. 12 |-> FlushedFiles[k]]
    BY DEF FlushedFiles
  <2>3. FlushedFiles \in [1 .. 12 -> Written_files]
    BY <2>1, <2>2
  <2> QED
    BY <1>2, <1>3, <2>3, SeqDef
<1>6. /\ b \in Seq(Written_files) /\ Len(b) = 5
      /\ \A k \in 1 .. 5 : b[k] # "info"
  BY DEF Written_files
<1> HIDE DEF a, b
<1>7. /\ s1 \in Seq(Written_files) /\ Len(s1) = 13
      /\ \A i \in 1 .. 13 : s1[i] = IF i <= 1 THEN a[i] ELSE MapFiles[i - 1]
  <2>1. s1 \in Seq(Written_files) /\ Len(s1) = Len(a) + Len(MapFiles)
    BY <1>4, <1>5, ConcatProperties
  <2>2. \A i \in 1 .. Len(a) + Len(MapFiles) :
          s1[i] = IF i <= Len(a) THEN a[i] ELSE MapFiles[i - Len(a)]
    BY <1>4, <1>5, ConcatProperties
  <2>3. Len(a) + Len(MapFiles) = 13
    BY <1>4, <1>5
  <2> HIDE DEF s1
  <2> QED
    BY <1>4, <2>1, <2>2, <2>3
<1> HIDE DEF s1
<1>8. /\ s2 \in Seq(Written_files) /\ Len(s2) = 18
      /\ \A i \in 1 .. 18 : s2[i] = IF i <= 13 THEN s1[i] ELSE b[i - 13]
  <2>1. s2 \in Seq(Written_files) /\ Len(s2) = Len(s1) + Len(b)
    BY <1>6, <1>7, ConcatProperties
  <2>2. \A i \in 1 .. Len(s1) + Len(b) :
          s2[i] = IF i <= Len(s1) THEN s1[i] ELSE b[i - Len(s1)]
    BY <1>6, <1>7, ConcatProperties
  <2>3. Len(s1) + Len(b) = 18
    BY <1>6, <1>7
  <2> HIDE DEF s2
  <2> QED
    BY <1>7, <2>1, <2>2, <2>3
<1> HIDE DEF s2
<1>9. s2[1] = "info"
  BY <1>4, <1>7, <1>8
<1>10. ASSUME NEW k \in 2 .. 18 PROVE s2[k] # "info"
  <2>1. CASE k <= 13
    <3>2. k \in 1 .. 18 /\ k \in 1 .. 13 /\ ~ (k <= 1) /\ k - 1 \in 1 .. 12
      BY <2>1
    <3>3. s2[k] = s1[k]
      BY <3>2, <1>8, <2>1
    <3>4. s1[k] = MapFiles[k - 1]
      BY <3>2, <1>7
    <3>1. s2[k] = MapFiles[k - 1] /\ k - 1 \in 1 .. 12
      BY <3>2, <3>3, <3>4
    <3> QED
      BY <1>2, <1>3, <3>1
  <2>2. CASE k > 13
    <3>2. k \in 1 .. 18 /\ ~ (k <= 13) /\ k - 13 \in 1 .. 5
      BY <2>2
    <3>3. s2[k] = b[k - 13]
      BY <3>2, <1>8
    <3>1. s2[k] = b[k - 13] /\ k - 13 \in 1 .. 5
      BY <3>2, <3>3
    <3> QED
      BY <1>6, <3>1
  <2> QED
    BY <2>1, <2>2
<1>11. \A k \in 1 .. 18 : s2[k] \in Written_files
  <2>1. \A k \in 1 .. Len(s2) : s2[k] \in Written_files
    BY <1>8, ElementOfSeq
  <2> QED
    BY <1>8, <2>1
<1> QED
  BY <1>1, <1>8, <1>9, <1>10, <1>11

\* What a load reads is among what gload writes.
LEMMA FilesAre == "info" \in Files /\ Files \subseteq Written_files
<1>1. DOMAIN LoadScript = 1 .. 18
  BY LoadScriptIs, LenProperties
<1>2. Files = {LoadScript[k] : k \in 1 .. 18}
  BY <1>1 DEF Files, Range
<1> QED
  BY <1>2, LoadScriptIs

\* The steps of a build in turn: no entry but the last two is the info file's,
\* and whatever is opened is closed later.
LEMMA BuildOrder ==
  /\ N = 36
  /\ BuildScript[35] = <<"open", "info">> /\ BuildScript[36] = <<"close", "info">>
  /\ \A i \in 1 .. 34 : BuildScript[i][2] # "info"
  /\ \A i \in 1 .. 36 : BuildScript[i][1] = "open" =>
        \E j \in i + 1 .. 36 : BuildScript[j][2] = BuildScript[i][2]
  /\ \A x \in Files : \E i \in 1 .. 36 : BuildScript[i][2] = x
<1>1. \A k \in 1 .. 12 : FlushedFiles[k] # "info"
  BY DEF FlushedFiles
<1>2. \A i \in 3 .. 26 : \E k \in 1 .. 12 : i = 2 * k + 1 \/ i = 2 * k + 2
  <2> TAKE i \in 3 .. 26
  <2>1. (i - 1) \div 2 \in 1 .. 12
        /\ (i = 2 * ((i - 1) \div 2) + 1 \/ i = 2 * ((i - 1) \div 2) + 2)
    OBVIOUS
  <2> QED
    BY <2>1
<1>3. ASSUME NEW i \in 1 .. 34 PROVE BuildScript[i][2] # "info"
  <2>1. CASE i \in 3 .. 26
    BY <1>1, <1>2, <2>1, BuildScriptIs
  <2>2. CASE i \in {1, 2, 27, 28, 29, 30, 31, 32, 33, 34}
    BY <2>2, BuildScriptIs
  <2> QED
    BY <2>1, <2>2
<1>4. ASSUME NEW i \in 1 .. 36, BuildScript[i][1] = "open"
      PROVE  \E j \in i + 1 .. 36 : BuildScript[j][2] = BuildScript[i][2]
  <2>1. CASE i \in 3 .. 26
    <3>1. PICK k \in 1 .. 12 : i = 2 * k + 1 \/ i = 2 * k + 2
      BY <1>2, <2>1
    <3>2. i = 2 * k + 1 /\ 2 * k + 2 \in i + 1 .. 36
      BY <1>4, <3>1, BuildScriptIs
    <3> QED
      BY <3>2, BuildScriptIs
  <2>2. CASE i = 1
    BY <2>2, BuildScriptIs
  <2>3. CASE i \in {27, 28}
    <3>1. i + 4 \in i + 1 .. 36 /\ BuildScript[i + 4][2] = BuildScript[i][2]
      BY <2>3, BuildScriptIs
    <3> QED
      BY <3>1
  <2>4. CASE i \in {29, 33, 35}
    <3>1. i + 1 \in i + 1 .. 36 /\ BuildScript[i + 1][2] = BuildScript[i][2]
      BY <2>4, BuildScriptIs
    <3> QED
      BY <3>1
  <2>5. CASE i \in {2, 30, 31, 32, 34, 36}
    BY <1>4, <2>5, BuildScriptIs
  <2> QED
    BY <2>1, <2>2, <2>3, <2>4, <2>5
<1>5. ASSUME NEW x \in Written_files PROVE \E i \in 1 .. 36 : BuildScript[i][2] = x
  <2>1. CASE \E k \in 1 .. 12 : x = FlushedFiles[k]
    <3>1. PICK k \in 1 .. 12 : x = FlushedFiles[k]
      BY <2>1
    <3>2. 2 * k + 1 \in 1 .. 36 /\ BuildScript[2 * k + 1][2] = x
      BY <3>1, BuildScriptIs
    <3> QED
      BY <3>2
  <2>2. CASE x \in {"signature", "p2s", "p2o", "preStatDict", "IntersectDict", "info"}
    <3>1. \E i \in {1, 27, 28, 29, 33, 35} : BuildScript[i][2] = x
      BY <2>2, BuildScriptIs
    <3> QED
      BY <3>1
  <2> QED
    BY <2>1, <2>2 DEF Written_files
<1> QED
  BY <1>3, <1>4, <1>5, FilesAre, BuildScriptIs
-----------------------------------------------------------------------------
(* The invariant                                                           *)

Counters ==
  /\ inputs \in Inputs
  /\ builds \in Nat /\ builds <= Len(inputs)
  /\ gload \in Nat /\ gload <= N
  /\ at \in Nat /\ at <= 18
  /\ inserted \in Nat /\ inserted <= MaxInserts
Tags ==
  /\ disk \in [Files -> {Missing, Partial} \cup 1 .. builds]
  /\ build \in {Missing, Partial} \cup 1 .. builds
Process == phase \in {"down", "serve", "serve nothing", "insert", "undefined"} \cup Loading
Flags == mixed \in BOOLEAN /\ exposed \in BOOLEAN

\* Where the process that loads is: a load that has not begun has read nothing,
\* one that has ended well has read a file.
Reading ==
  /\ at = 0 => build = Missing /\ ~mixed
  /\ phase = "down" => at = 0
  /\ phase \in Loading => at < 18
  /\ phase \in {"serve", "insert"} => at > 0

\* What the running gload has put behind it is of its own build.
Put ==
  gload > 0 =>
    /\ builds > 0
    /\ \A x \in Files : (\A i \in gload .. N : BuildScript[i][2] # x) => disk[x] = builds

\* Nothing but the finished build has a whole info file, and it is written to no
\* more; what a process has read is of it.
Fresh ==
  ~exposed =>
    /\ disk["info"] \notin {Missing, Partial} =>
         gload = 0 /\ \A x \in Files : disk[x] = disk["info"]
    /\ gload > 0 /\ disk["info"] # Missing => gload = N
    /\ at > 0 => build = disk["info"] /\ build \in 1 .. builds /\ ~mixed

IInv == Counters /\ Tags /\ Process /\ Flags /\ Reading /\ Put /\ Fresh

\* What the constants give.
LEMMA ConstantsAre ==
  /\ N = 36 /\ Len(LoadScript) = 18 /\ LoadScript[1] = "info"
  /\ \A k \in 2 .. 18 : LoadScript[k] # "info"
  /\ \A k \in 1 .. 18 : LoadScript[k] \in Files
  /\ "info" \in Files /\ Missing # Partial /\ MaxInserts \in Nat
  /\ Missing \notin Nat /\ Partial \notin Nat
<1>1. DOMAIN LoadScript = 1 .. 18
  BY LoadScriptIs, LenProperties
<1>2. \A k \in 1 .. 18 : LoadScript[k] \in Files
  BY <1>1 DEF Files, Range
<1> QED
  BY <1>2, LoadScriptIs, BuildOrder, FilesAre, StoreAssumption

\* The data of the runs: triples whose entities have IDs below the literals'.
LEMMA InputsAre ==
  ASSUME NEW runs \in Inputs
  PROVE  /\ Len(runs) \in Nat
         /\ \A i \in 1 .. Len(runs) : /\ runs[i] \in Seq(Statements)
                                     /\ 2 * Len(runs[i]) <= LITERAL_FIRST_ID
<1>1. /\ runs \in Seq(Seq(Statements))
      /\ \A i \in DOMAIN runs : 2 * Len(runs[i]) <= LITERAL_FIRST_ID
  BY StoreAssumption
<1>2. Len(runs) \in Nat /\ DOMAIN runs = 1 .. Len(runs)
  BY <1>1, LenProperties
<1>3. \A i \in 1 .. Len(runs) : runs[i] \in Seq(Statements)
  BY <1>1, <1>2, ElementOfSeq
<1> QED
  BY <1>1, <1>2, <1>3

\* Nothing is built, written or read at the start.
THEOREM InitIInv == Init => IInv
<1> SUFFICES ASSUME Init PROVE IInv
  OBVIOUS
<1> USE DEF Init
<1>1. Len(inputs) \in Nat /\ N \in Nat /\ MaxInserts \in Nat
  BY InputsAre, ConstantsAre
<1>2. Counters
  BY <1>1 DEF Counters
<1>3. disk \in [Files -> {Missing, Partial} \cup 1 .. builds]
  OBVIOUS
<1>4. build \in {Missing, Partial} \cup 1 .. builds
  OBVIOUS
<1>5. Process /\ Flags
  BY DEF Process, Flags
<1>6. Reading /\ Put
  BY DEF Reading, Put, Loading
<1>7. Fresh
  BY ConstantsAre DEF Fresh
<1> QED
  BY <1>2, <1>3, <1>4, <1>5, <1>6, <1>7 DEF IInv, Tags

\* A step of the process that loads, when it ends.
LEMMA DownIInv ==
  ASSUME IInv, UNCHANGED <<inputs, store, exposed>>, Down
  PROVE  IInv'
<1> USE DEF IInv, Down, store
<1>1. Counters'
  BY ConstantsAre DEF Counters
<1>2. disk' \in [Files -> {Missing, Partial} \cup 1 .. builds']
  BY DEF Tags
<1>3. build' \in {Missing, Partial} \cup 1 .. builds'
  OBVIOUS
<1>4. Process' /\ Flags'
  BY DEF Process, Flags
<1>5. Reading'
  BY DEF Reading, Loading
<1>6. Put'
  BY DEF Put
<1>7. Fresh'
  BY DEF Fresh
<1> QED
  BY <1>1, <1>2, <1>3, <1>4, <1>5, <1>6, <1>7 DEF Tags

\* A step of it that reads nothing.
LEMMA PhaseIInv ==
  ASSUME IInv, UNCHANGED <<inputs, store, exposed, reading>>,
         inserted' \in Nat, inserted' <= MaxInserts,
         phase' \in {"down", "serve", "serve nothing", "insert", "undefined"} \cup Loading,
         phase' = "down" => at = 0,
         phase' \in Loading => at < 18,
         phase' \in {"serve", "insert"} => at > 0
  PROVE  IInv'
<1> USE DEF IInv, store, reading
<1>1. Counters'
  BY DEF Counters
<1>2. Tags'
  BY DEF Tags
<1>3. Process' /\ Flags'
  BY DEF Process, Flags
<1>4. Reading'
  BY DEF Reading
<1>5. Put'
  BY DEF Put
<1>6. Fresh'
  BY DEF Fresh
<1> QED
  BY <1>1, <1>2, <1>3, <1>4, <1>5, <1>6

\* gload begins: in a fresh store nothing has been read yet.
LEMMA BuildStartIInv ==
  ASSUME IInv, BuildStart
  PROVE  IInv'
<1>1. /\ gload = 0 /\ builds < Len(inputs) /\ builds' = builds + 1 /\ gload' = 1
      /\ exposed' = (exposed \/ disk["info"] # Missing)
      /\ UNCHANGED <<inputs, disk, starts, phase, at, build, mixed, inserted>>
  BY DEF BuildStart, loader, reading
<1>2. Counters'
  BY <1>1, InputsAre, ConstantsAre DEF IInv, Counters
<1>3. {Missing, Partial} \cup 1 .. builds \subseteq {Missing, Partial} \cup 1 .. builds'
  BY <1>1 DEF IInv, Counters
<1>4. disk' \in [Files -> {Missing, Partial} \cup 1 .. builds']
  BY <1>1, <1>3 DEF IInv, Tags
<1>5. build' \in {Missing, Partial} \cup 1 .. builds'
  BY <1>1, <1>3 DEF IInv, Tags
<1>6. Process' /\ Flags' /\ Reading'
  BY <1>1 DEF IInv, Process, Flags, Reading
<1>7. Put'
  <2>1. \A x \in Files : ~\A i \in 1 .. N : BuildScript[i][2] # x
    BY BuildOrder
  <2>2. builds' > 0
    BY <1>1 DEF IInv, Counters
  <2> QED
    BY <1>1, <2>1, <2>2 DEF Put
<1>8. Fresh'
  <2> SUFFICES ASSUME ~exposed' PROVE Fresh'
    BY DEF Fresh
  <2>1. ~exposed /\ disk["info"] = Missing /\ disk'["info"] = Missing
    BY <1>1
  <2>2. at = 0
    <3>1. at > 0 => build = disk["info"] /\ build \in 1 .. builds
      BY <2>1 DEF IInv, Fresh
    <3>2. Missing \notin 1 .. builds
      BY ConstantsAre
    <3> QED
      BY <2>1, <3>1, <3>2 DEF IInv, Counters
  <2> QED
    BY <1>1, <2>1, <2>2 DEF Fresh
<1> QED
  BY <1>2, <1>4, <1>5, <1>6, <1>7, <1>8 DEF IInv, Tags

\* gload dies: what it wrote stays.
LEMMA BuildDiesIInv ==
  ASSUME IInv, BuildDies
  PROVE  IInv'
<1>1. gload' = 0 /\ UNCHANGED <<inputs, disk, builds, starts, phase, at, build, mixed, inserted, exposed>>
  BY DEF BuildDies, loader, reading
<1>2. Counters'
  BY <1>1, ConstantsAre DEF IInv, Counters
<1>3. Tags' /\ Process' /\ Flags' /\ Reading'
  BY <1>1 DEF IInv, Tags, Process, Flags, Reading
<1>4. Put'
  BY <1>1 DEF Put
<1>5. Fresh'
  BY <1>1 DEF IInv, Fresh
<1> QED
  BY <1>2, <1>3, <1>4, <1>5 DEF IInv

\* A file is opened or closed: the info file only when all others are closed.
LEMMA BuildStepIInv ==
  ASSUME IInv, BuildStep
  PROVE  IInv'
<1> DEFINE op == BuildScript[gload][1]
           x == BuildScript[gload][2]
<1>1. /\ gload > 0 /\ gload' = IF gload = N THEN 0 ELSE gload + 1
      /\ UNCHANGED <<inputs, builds, starts, phase, at, build, mixed, inserted, exposed>>
  BY DEF BuildStep, loader, reading, N
<1>2. /\ gload \in Nat /\ gload <= 36 /\ N = 36
      /\ builds \in Nat /\ builds > 0 /\ builds \in 1 .. builds
      /\ gload' \in Nat /\ gload' <= 36
  BY <1>1, ConstantsAre DEF IInv, Counters, Put
<1>3. disk' = [disk EXCEPT ![x] = IF op = "open" THEN Partial ELSE builds]
  BY DEF BuildStep
<1>16. /\ BuildScript[35] = <<"open", "info">> /\ BuildScript[36] = <<"close", "info">>
       /\ \A i \in 1 .. 36 : BuildScript[i][1] = "open" =>
             \E j \in i + 1 .. 36 : BuildScript[j][2] = BuildScript[i][2]
  BY BuildOrder
<1>17. gload \in 1 .. 36
  BY <1>1, <1>2
<1>4. op = "open" => \E j \in gload + 1 .. N : BuildScript[j][2] = x
  BY <1>2, <1>16, <1>17
<1>5. gload = N => op # "open" /\ x = "info"
  <2>1. gload = N => BuildScript[gload] = <<"close", "info">>
    BY <1>2, <1>16
  <2> QED
    BY <2>1
<1>6. gload = 35 => op = "open" /\ x = "info"
  <2>1. gload = 35 => BuildScript[gload] = <<"open", "info">>
    BY <1>16
  <2> QED
    BY <2>1
<1>7. gload < 35 => x # "info"
  <2>1. gload < 35 => gload \in 1 .. 34
    BY <1>1, <1>2
  <2> QED
    BY <2>1, BuildOrder
<1>8. \A y \in Files : disk'[y] = IF y # x THEN disk[y]
                                  ELSE IF op = "open" THEN Partial ELSE builds
  BY <1>3 DEF IInv, Tags
<1>9. \A i \in gload .. N : i = gload \/ i \in gload + 1 .. N
  BY <1>2
<1>10. \A y \in Files : (\A i \in gload .. N : BuildScript[i][2] # y) => disk[y] = builds
  BY <1>1 DEF IInv, Put
<1>11. Counters'
  BY <1>1, <1>2 DEF IInv, Counters
<1>12. Tags'
  BY <1>1, <1>2, <1>3 DEF IInv, Tags
<1>13. Process' /\ Flags' /\ Reading'
  BY <1>1 DEF IInv, Process, Flags, Reading
<1>14. Put'
  <2> SUFFICES ASSUME gload' > 0, NEW y \in Files,
                      \A i \in gload' .. N : BuildScript[i][2] # y
               PROVE  disk'[y] = builds
    BY <1>1, <1>2 DEF Put
  <2>1. gload' = gload + 1
    BY <1>1
  <2>2. CASE y = x
    BY <1>4, <1>8, <2>1, <2>2
  <2>3. CASE y # x
    <3>1. \A i \in gload .. N : BuildScript[i][2] # y
      BY <1>9, <2>1, <2>3
    <3> QED
      BY <1>8, <1>10, <2>3, <3>1
  <2> QED
    BY <2>2, <2>3
<1>15. Fresh'
  <2> SUFFICES ASSUME ~exposed PROVE Fresh'
    BY <1>1 DEF Fresh
  <2>1. /\ disk["info"] \in {Missing, Partial}
        /\ disk["info"] # Missing => gload = N
        /\ at > 0 => build = disk["info"] /\ build \in 1 .. builds
    BY <1>1 DEF IInv, Fresh
  <2>2. at = 0 /\ at' = 0
    <3>1. Missing \notin 1 .. builds /\ Partial \notin 1 .. builds
      BY ConstantsAre
    <3> QED
      BY <1>1, <2>1, <3>1 DEF IInv, Counters
  <2> HIDE DEF x, op
  <2>3. CASE gload = N
    <3>1. ASSUME NEW y \in Files PROVE disk'[y] = builds
      <4>1. CASE y = "info"
        BY <1>5, <1>8, <2>3, <4>1
      <4>2. CASE y # "info"
        <5>1. \A i \in gload .. N : BuildScript[i][2] # y
          <6>1. gload .. N = {N}
            BY <1>2, <2>3
          <6>2. BuildScript[N][2] # y
            <7>1. BuildScript[N] = <<"close", "info">>
              BY <1>2, <1>16
            <7>2. BuildScript[N][2] = "info"
              BY <7>1
            <7> QED
              BY <4>2, <7>2
          <6> QED
            BY <6>1, <6>2
        <5> QED
          BY <1>5, <1>8, <1>10, <2>3, <4>2, <5>1
      <4> QED
        BY <4>1, <4>2
    <3>2. disk'["info"] = builds /\ gload' = 0
      BY <1>1, <2>3, <3>1, ConstantsAre
    <3> QED
      BY <2>2, <3>1, <3>2 DEF Fresh
  <2>4. CASE gload = 35
    <3>1. disk'["info"] = Partial /\ gload' = N
      BY <1>1, <1>2, <1>6, <1>8, <2>4, ConstantsAre
    <3> QED
      BY <2>2, <3>1 DEF Fresh
  <2>5. CASE gload < 35
    <3>1. disk'["info"] = Missing
      BY <1>2, <1>7, <1>8, <2>1, <2>5, ConstantsAre
    <3> QED
      BY <2>2, <3>1 DEF Fresh
  <2> QED
    BY <1>2, <2>3, <2>4, <2>5
<1> QED
  BY <1>11, <1>12, <1>13, <1>14, <1>15 DEF IInv

\* A file that is there is read.
LEMMA ReadsIInv ==
  ASSUME IInv, phase \in Loading, NEW x \in Files, x = "info" <=> at = 0,
         disk[x] # Missing, Reads(disk[x]),
         UNCHANGED <<inputs, store>>,
         exposed' = (exposed \/ (x = "info" /\ disk[x] = Partial))
  PROVE  IInv'
<1>1. /\ at' = at + 1
      /\ build' = IF at = 0 THEN disk[x] ELSE build
      /\ mixed' = (mixed \/ disk[x] = Partial \/ (at > 0 /\ disk[x] # build))
      /\ UNCHANGED <<inputs, inserted, disk, builds, gload>>
  BY DEF Reads, store
<1>2. at \in Nat /\ at < 18 /\ at' \in Nat /\ at' > 0 /\ at' <= 18
  BY <1>1 DEF IInv, Counters, Reading
<1>3. IF at' < 18 THEN phase' = phase
                  ELSE phase' \in {"undefined", "serve", "insert"}
  BY ConstantsAre DEF Reads
<1>4. disk[x] \in {Missing, Partial} \cup 1 .. builds
  BY DEF IInv, Tags
<1>5. Counters'
  BY <1>1, <1>2 DEF IInv, Counters
<1>6. Tags'
  BY <1>1, <1>4 DEF IInv, Tags
<1>7. Flags'
  BY <1>1 DEF Flags
<1>8. phase' \in {"down", "serve", "serve nothing", "insert", "undefined"} \cup Loading
  BY <1>3
<1>9. Process'
  BY <1>8 DEF Process
<1>10. Reading'
  <2>1. phase' \in Loading => at' < 18
    <3>1. at' = 18 \/ at' < 18
      BY <1>2
    <3> QED
      BY <1>3, <3>1 DEF Loading
  <2>2. phase' # "down"
    <3>1. phase' = phase \/ phase' \in {"undefined", "serve", "insert"}
      BY <1>3
    <3>2. phase # "down"
      BY DEF Loading
    <3> QED
      BY <3>1, <3>2
  <2>3. at' # 0
    BY <1>2
  <2> QED
    BY <1>2, <2>1, <2>2, <2>3 DEF Reading
<1>11. Put'
  BY <1>1 DEF IInv, Put
<1>12. Fresh'
  <2> SUFFICES ASSUME ~exposed' PROVE Fresh'
    BY DEF Fresh
  <2>1. ~exposed
    OBVIOUS
  <2>2. /\ disk["info"] \notin {Missing, Partial} =>
             gload = 0 /\ \A y \in Files : disk[y] = disk["info"]
        /\ gload > 0 /\ disk["info"] # Missing => gload = N
        /\ at > 0 => build = disk["info"] /\ build \in 1 .. builds /\ ~mixed
    BY <2>1 DEF IInv, Fresh
  <2>3. build' = disk["info"] /\ build' \in 1 .. builds /\ ~mixed'
    <3>1. CASE at = 0
      <4>1. x = "info" /\ disk[x] # Partial /\ ~mixed
        BY <3>1 DEF IInv, Reading
      <4>2. disk["info"] \in 1 .. builds /\ build' = disk["info"] /\ builds' = builds
        BY <1>1, <1>4, <3>1, <4>1
      <4>3. ~mixed'
        <5>1. ~(at > 0)
          BY <3>1
        <5> QED
          BY <1>1, <4>1, <5>1, Zenon
      <4> QED
        BY <4>2, <4>3
    <3>2. CASE at > 0
      <4>1. build = disk["info"] /\ build \in 1 .. builds /\ ~mixed
        BY <2>2, <3>2
      <4>2. disk["info"] \notin {Missing, Partial}
        BY <4>1, ConstantsAre
      <4>3. disk[x] = build /\ disk[x] # Partial
        BY <2>2, <4>1, <4>2
      <4> QED
        BY <1>1, <3>2, <4>1, <4>3
    <3> QED
      BY <1>2, <3>1, <3>2
  <2> QED
    BY <1>1, <2>2, <2>3 DEF Fresh
<1> QED
  BY <1>5, <1>6, <1>7, <1>9, <1>10, <1>11, <1>12 DEF IInv

\* No step of gload or of a loader breaks the orders of writing and of reading.
THEOREM NextIInv == IInv /\ [Next]_vars => IInv'
<1> SUFFICES ASSUME IInv, [Next]_vars PROVE IInv'
  OBVIOUS
<1>0. inserted \in Nat /\ inserted <= MaxInserts /\ MaxInserts \in Nat /\ at \in Nat
  BY ConstantsAre DEF IInv, Counters
<1>1. CASE BuildStart
  BY <1>1, BuildStartIInv
<1>2. CASE BuildStep
  BY <1>2, BuildStepIInv
<1>3. CASE BuildDies
  BY <1>3, BuildDiesIInv
<1>4. CASE \E ph \in Loading : LoadStart(ph)
  <2>1. PICK ph \in Loading : LoadStart(ph)
    BY <1>4
  <2>2. /\ UNCHANGED <<inputs, store, exposed, reading, inserted>>
        /\ phase = "down" /\ phase' \in Loading
    BY <2>1 DEF LoadStart
  <2>3. at = 0
    BY <2>2 DEF IInv, Reading
  <2>4. phase' \notin {"down", "serve", "insert"}
    BY <2>2 DEF Loading
  <2> QED
    BY <1>0, <2>2, <2>3, <2>4, PhaseIInv
<1>5. CASE LoadStep
  <2> DEFINE x == LoadScript[at + 1]
  <2>1. /\ phase \in Loading
        /\ UNCHANGED <<inputs, store>>
        /\ exposed' = (exposed \/ (x = "info" /\ disk[x] = Partial))
        /\ \/ disk[x] = Missing /\ x = "info" /\ Gives_up
           \/ disk[x] = Missing /\ x # "info" /\ Down
           \/ disk[x] # Missing /\ Reads(disk[x])
    BY <1>5 DEF LoadStep
  <2>2. x \in Files /\ (x = "info" <=> at = 0)
    <3>1. at < 18 /\ at + 1 \in 1 .. 18 /\ (at # 0 => at + 1 \in 2 .. 18)
      BY <1>0, <2>1 DEF IInv, Reading
    <3> QED
      BY <3>1, ConstantsAre
  <2> HIDE DEF x
  <2>3. CASE disk[x] = Missing /\ x = "info" /\ Gives_up
    <3>1. /\ UNCHANGED <<reading, inserted>> /\ phase' \in {"down", "serve nothing"}
      BY <2>3 DEF Gives_up
    <3>2. UNCHANGED exposed /\ at = 0
      BY <2>1, <2>2, <2>3, ConstantsAre DEF IInv, Flags
    <3>3. phase' \notin Loading
      BY <3>1 DEF Loading
    <3> QED
      BY <1>0, <2>1, <3>1, <3>2, <3>3, PhaseIInv
  <2>4. CASE disk[x] = Missing /\ x # "info" /\ Down
    <3>1. UNCHANGED exposed
      BY <2>1, <2>4 DEF IInv, Flags
    <3> QED
      BY <2>1, <2>4, <3>1, DownIInv
  <2>5. CASE disk[x] # Missing /\ Reads(disk[x])
    BY <2>1, <2>2, <2>5, ReadsIInv
  <2> QED
    BY <2>1, <2>3, <2>4, <2>5
<1>6. CASE LoaderDies \/ saveTree
  BY <1>6, DownIInv DEF LoaderDies, saveTree
<1>7. CASE \E t \in Inserts : insertTriple(t)
  <2>1. PICK t \in Inserts : insertTriple(t)
    BY <1>7
  <2>2. phase = "insert" /\ inserted < MaxInserts /\ UNCHANGED <<inputs, store, exposed>>
    BY <2>1 DEF insertTriple
  <2>3. \/ Down
        \/ /\ UNCHANGED reading /\ phase' \in {"insert", "undefined"}
           /\ inserted' \in {inserted, inserted + 1}
    BY <2>1, <2>2 DEF insertTriple
  <2>4. CASE Down
    BY <2>2, <2>4, DownIInv
  <2>5. CASE /\ UNCHANGED reading /\ phase' \in {"insert", "undefined"}
             /\ inserted' \in {inserted, inserted + 1}
    <3>1. inserted' \in Nat /\ inserted' <= MaxInserts
      BY <1>0, <2>2, <2>5
    <3>2. at > 0
      BY <2>2 DEF IInv, Reading
    <3>3. phase' \notin Loading /\ phase' # "down"
      BY <2>5 DEF Loading
    <3> QED
      BY <2>2, <2>5, <3>1, <3>2, <3>3, PhaseIInv
  <2> QED
    BY <2>3, <2>4, <2>5
<1>8. CASE UNCHANGED vars
  <2>0. UNCHANGED <<disk, gload, inputs, builds, starts, phase, at, build, mixed, inserted, exposed>>
    BY <1>8 DEF vars, store, loader, reading
  <2>1. Counters' /\ Tags'
    BY <2>0 DEF IInv, Counters, Tags
  <2>2. Process' /\ Flags' /\ Reading'
    BY <2>0 DEF IInv, Process, Flags, Reading
  <2>3. Put'
    BY <2>0 DEF IInv, Put
  <2>4. Fresh'
    BY <2>0 DEF IInv, Fresh
  <2> QED
    BY <2>1, <2>2, <2>3, <2>4 DEF IInv
<1> QED
  BY <1>1, <1>2, <1>3, <1>4, <1>5, <1>6, <1>7, <1>8 DEF Next

\* The invariant holds throughout.
THEOREM Invariance == Spec => []IInv
  BY InitIInv, NextIInv, PTL DEF Spec

\* A process that loaded the store has the files of one finished build, never a
\* mixture of two or a part of one, unless gload was run over a store with an
\* info file or the load met that file half written: however often gload and the
\* loaders die, and wherever.
THEOREM LoadsOneBuild == Spec => []LoadIsTheBuild
<1>1. IInv => LoadIsTheBuild
  <2> SUFFICES ASSUME IInv PROVE LoadIsTheBuild
    OBVIOUS
  <2>1. N = Len(BuildScript) /\ N = 36 /\ Len(LoadScript) = 18 /\ Len(inputs) \in Nat
    BY InputsAre, ConstantsAre DEF N, IInv, Counters
  <2>2. builds \in 0 .. Len(inputs) /\ gload \in 0 .. Len(BuildScript)
    BY <2>1 DEF IInv, Counters
  <2>3. at \in 0 .. Len(LoadScript) /\ inserted <= MaxInserts
    BY <2>1 DEF IInv, Counters
  <2>4. TypeOK
    BY <2>2, <2>3 DEF TypeOK, IInv, Tags, Process
  <2>5. ~exposed => ~mixed /\ (phase \in {"serve", "insert"} => build \in 1 .. builds)
    <3>1. at > 0 \/ at = 0
      BY DEF IInv, Counters
    <3> QED
      BY <3>1 DEF IInv, Reading, Fresh
  <2> QED
    BY <2>4, <2>5 DEF LoadIsTheBuild
<1> QED
  BY <1>1, Invariance, PTL
-----------------------------------------------------------------------------
(* Sorting                                                                 *)

\* smaller orders the places K.
Orders(smaller, K) ==
  /\ smaller \in [K -> SUBSET K]
  /\ \A n \in K : n \notin smaller[n]
  /\ \A m, n \in K : m # n => m \in smaller[n] \/ n \in smaller[m]
  /\ \A l, m, n \in K : l \in smaller[m] /\ m \in smaller[n] => l \in smaller[n]

\* p leads from the places of a sorted sequence, L of them, to those of the unsorted
\* elements.
Arranges(p, smaller, K, L) ==
  /\ p \in [1 .. L -> K]
  /\ \A n \in K : \E r \in 1 .. L : p[r] = n
  /\ \A q, r \in 1 .. L : q < r => p[q] \in smaller[p[r]]

\* s is xs rearranged that way.
SortedThrough(p, s, xs, smaller, K, L) ==
  Arranges(p, smaller, K, L) /\ s = [r \in 1 .. L |-> xs[p[r]]]

\* The numbers of places before each place are a permutation that sorts.
LEMMA RankSorts ==
  ASSUME NEW K, IsFiniteSet(K), NEW L, L = Cardinality(K), NEW xs, DOMAIN xs = K,
         NEW smaller, Orders(smaller, K)
  PROVE  \E p : SortedThrough(p, ByRank(xs, smaller), xs, smaller, K, L)
<1> DEFINE size(n) == Cardinality(smaller[n])
           rank == [n \in K |-> size(n) + 1]
           p == [r \in 1 .. L |-> CHOOSE n \in K : size(n) = r - 1]
<1>1. /\ smaller \in [K -> SUBSET K]
      /\ \A n \in K : n \notin smaller[n]
      /\ \A m, n \in K : m # n => m \in smaller[n] \/ n \in smaller[m]
      /\ \A l, m, n \in K : l \in smaller[m] /\ m \in smaller[n] => l \in smaller[n]
  BY DEF Orders
<1>2. L \in Nat /\ IsFiniteSet(1 .. L) /\ Cardinality(1 .. L) = L
  BY FS_CardinalityType, IntervalSize
<1>3. ASSUME NEW n \in K
      PROVE  IsFiniteSet(smaller[n]) /\ size(n) \in 0 .. L - 1
  <2>1. smaller[n] \in SUBSET K /\ n \notin smaller[n]
    BY <1>1
  <2>2. IsFiniteSet(smaller[n]) /\ size(n) \in Nat /\ size(n) <= L /\ (L = size(n) => K = smaller[n])
    BY <2>1, FS_Subset, FS_CardinalityType
  <2>3. size(n) # L
    BY <2>1, <2>2
  <2> HIDE DEF size
  <2>4. size(n) \in 0 .. L - 1
    BY <1>2, <2>2, <2>3
  <2> QED
    BY <2>2, <2>4
<1>4. ASSUME NEW m \in K, NEW n \in K, m \in smaller[n]
      PROVE  size(m) < size(n)
  <2>1. smaller[m] \in SUBSET smaller[n]
    BY <1>1, <1>4
  <2>2. smaller[m] # smaller[n]
    BY <1>1, <1>4
  <2>3. size(m) <= size(n) /\ (size(n) = size(m) => smaller[n] = smaller[m])
    BY <1>3, <2>1, FS_Subset
  <2>4. size(m) # size(n)
    BY <2>2, <2>3
  <2>5. size(m) \in Nat /\ size(n) \in Nat
    BY <1>2, <1>3
  <2> HIDE DEF size
  <2> QED
    BY <2>3, <2>4, <2>5
<1>5. \A m, n \in K : size(m) = size(n) => m = n
  <2>1. \A m \in K : size(m) \in Nat
    BY <1>2, <1>3
  <2> HIDE DEF size
  <2> QED
    BY <1>1, <1>4, <2>1
<1>6. rank \in Injection(K, 1 .. L)
  <2>1. \A n \in K : size(n) \in 0 .. L - 1
    BY <1>3
  <2> HIDE DEF size
  <2>2. rank \in [K -> 1 .. L]
    BY <1>2, <2>1
  <2>3. \A m, n \in K : rank[m] = rank[n] => m = n
    BY <1>2, <1>5, <2>1
  <2> HIDE DEF rank
  <2> QED
    BY <2>2, <2>3 DEF Injection, IsInjective
<1>7. rank \in Surjection(K, 1 .. L)
  BY <1>2, <1>6, FS_Injection
<1>8. ASSUME NEW r \in 1 .. L
      PROVE  p[r] \in K /\ size(p[r]) = r - 1
  <2>1. PICK n \in K : rank[n] = r
    BY <1>7 DEF Surjection
  <2>2. size(n) \in Nat
    BY <1>2, <1>3
  <2> HIDE DEF size
  <2>3. size(n) = r - 1
    BY <2>1, <2>2
  <2> QED
    BY <2>3
<1> HIDE DEF size
<1>9. p \in [1 .. L -> K]
  BY <1>8
<1>10. ASSUME NEW n \in K
       PROVE  \E r \in 1 .. L : p[r] = n
  <2>1. size(n) + 1 \in 1 .. L /\ (size(n) + 1) - 1 = size(n)
    BY <1>2, <1>3
  <2>2. p[size(n) + 1] = n
    BY <1>5, <1>8, <2>1
  <2> QED
    BY <2>1, <2>2
<1>11. ASSUME NEW q \in 1 .. L, NEW r \in 1 .. L, q < r
       PROVE  p[q] \in smaller[p[r]]
  <2>1. size(p[q]) = q - 1 /\ size(p[r]) = r - 1 /\ p[q] \in K /\ p[r] \in K
    BY <1>8
  <2>2. p[q] # p[r] /\ ~(size(p[r]) < size(p[q]))
    BY <1>2, <2>1, <1>11
  <2> QED
    BY <1>1, <1>4, <2>1, <2>2
<1>12. Arranges(p, smaller, K, L)
  BY <1>9, <1>10, <1>11 DEF Arranges
<1>13. ByRank(xs, smaller) = [r \in 1 .. L |-> xs[p[r]]]
  BY DEF ByRank, size
<1> QED
  BY <1>12, <1>13 DEF SortedThrough

IDTriples == Nat \X Nat \X Nat

\* The three positions, in some order.
Positions(i, j, k) == i \in 1 .. 3 /\ j \in 1 .. 3 /\ k \in 1 .. 3 /\ {i, j, k} = 1 .. 3

\* The three positions, in whatever order, make the triple.
LEMMA TripleParts ==
  ASSUME NEW a \in IDTriples, NEW b \in IDTriples, NEW i, NEW j, NEW k, Positions(i, j, k)
  PROVE  /\ a[i] \in Nat /\ a[j] \in Nat /\ a[k] \in Nat
         /\ a[i] = b[i] /\ a[j] = b[j] /\ a[k] = b[k] => a = b
<1>1. \A n \in 1 .. 3 : a[n] \in Nat
  BY DEF IDTriples
<1>2. a[1] = b[1] /\ a[2] = b[2] /\ a[3] = b[3] => a = b
  BY DEF IDTriples
<1>3. \A n \in 1 .. 3 : n = i \/ n = j \/ n = k
  BY DEF Positions
<1>4. a[i] = b[i] /\ a[j] = b[j] /\ a[k] = b[k] => \A n \in 1 .. 3 : a[n] = b[n]
  BY <1>3
<1>5. 1 \in 1 .. 3 /\ 2 \in 1 .. 3 /\ 3 \in 1 .. 3
  OBVIOUS
<1>6. a[i] = b[i] /\ a[j] = b[j] /\ a[k] = b[k] => a = b
  BY <1>2, <1>4, <1>5
<1> QED
  BY <1>1, <1>6 DEF Positions

\* The comparisons of qsort order the places, equal tuples by their places.
LEMMA BeforeOrders ==
  ASSUME NEW i, NEW j, NEW k, Positions(i, j, k),
         NEW a \in IDTriples, NEW b \in IDTriples, NEW c \in IDTriples
  PROVE  /\ ~Before(a, a, i, j, k)
         /\ a = b \/ Before(a, b, i, j, k) \/ Before(b, a, i, j, k)
         /\ Before(a, b, i, j, k) => ~Before(b, a, i, j, k)
         /\ Before(a, b, i, j, k) /\ Before(b, c, i, j, k) => Before(a, c, i, j, k)
<1>1. PICK x, y, z : x = a[i] /\ y = a[j] /\ z = a[k]
  OBVIOUS
<1>2. PICK u, v, w : u = b[i] /\ v = b[j] /\ w = b[k]
  OBVIOUS
<1>3. PICK o, p, q : o = c[i] /\ p = c[j] /\ q = c[k]
  OBVIOUS
<1>4. /\ x \in Nat /\ y \in Nat /\ z \in Nat /\ u \in Nat /\ v \in Nat /\ w \in Nat
      /\ o \in Nat /\ p \in Nat /\ q \in Nat
  BY <1>1, <1>2, <1>3, TripleParts
<1>5. x = u /\ y = v /\ z = w => a = b
  <2>1. a[i] = b[i] /\ a[j] = b[j] /\ a[k] = b[k] => a = b
    BY TripleParts
  <2> QED
    BY ONLY <1>1, <1>2, <2>1
<1>6. /\ Before(a, a, i, j, k) <=> x < x \/ (x = x /\ y < y) \/ (x = x /\ y = y /\ z < z)
      /\ Before(a, b, i, j, k) <=> x < u \/ (x = u /\ y < v) \/ (x = u /\ y = v /\ z < w)
      /\ Before(b, a, i, j, k) <=> u < x \/ (u = x /\ v < y) \/ (u = x /\ v = y /\ w < z)
      /\ Before(b, c, i, j, k) <=> u < o \/ (u = o /\ v < p) \/ (u = o /\ v = p /\ w < q)
      /\ Before(a, c, i, j, k) <=> x < o \/ (x = o /\ y < p) \/ (x = o /\ y = p /\ z < q)
  BY <1>1, <1>2, <1>3 DEF Before
<1>7. ~Before(a, a, i, j, k)
  BY ONLY <1>4, <1>6
<1>8. a = b \/ Before(a, b, i, j, k) \/ Before(b, a, i, j, k)
  BY ONLY <1>4, <1>5, <1>6
<1>9. Before(a, b, i, j, k) => ~Before(b, a, i, j, k)
  BY ONLY <1>4, <1>6
<1>10. Before(a, b, i, j, k) /\ Before(b, c, i, j, k) => Before(a, c, i, j, k)
  BY ONLY <1>4, <1>6
<1> QED
  BY <1>7, <1>8, <1>9, <1>10

\* What a sort leaves of xs besides its order.
SameElements(s, xs, S, L) ==
  s \in Seq(S) /\ Len(s) = L /\ DOMAIN s = 1 .. L /\ ToSet(s) = {xs[n] : n \in DOMAIN xs}

\* A permutation of the places loses no element.
LEMMA Rearranged ==
  ASSUME NEW S, NEW K, NEW L \in Nat, NEW xs \in [K -> S], NEW p, NEW smaller,
         Arranges(p, smaller, K, L)
  PROVE  SameElements([r \in 1 .. L |-> xs[p[r]]], xs, S, L)
<1> DEFINE s == [r \in 1 .. L |-> xs[p[r]]]
<1>1. p \in [1 .. L -> K] /\ \A n \in K : \E r \in 1 .. L : p[r] = n
  BY DEF Arranges
<1>2. s \in [1 .. L -> S]
  BY <1>1
<1>3. s \in Seq(S) /\ Len(s) = L /\ DOMAIN s = 1 .. L
  <2>1. s \in Seq(S)
    BY <1>2, SeqDef
  <2>2. DOMAIN s = 1 .. L
    BY <1>2
  <2>3. DOMAIN s = 1 .. Len(s) /\ Len(s) \in Nat
    BY <2>1, LenProperties
  <2> HIDE DEF s
  <2> QED
    BY <2>1, <2>2, <2>3
<1>4. ASSUME NEW x PROVE x \in ToSet(s) <=> \E n \in K : x = xs[n]
  <2>1. ASSUME NEW r \in 1 .. L, x = s[r] PROVE \E n \in K : x = xs[n]
    BY <1>1, <2>1
  <2>2. ASSUME NEW n \in K, x = xs[n] PROVE \E r \in 1 .. L : x = s[r]
    BY <1>1, <2>2
  <2> HIDE DEF s
  <2> QED
    BY <1>3, <2>1, <2>2 DEF ToSet
<1>5. ToSet(s) = {xs[n] : n \in DOMAIN xs}
  <2> HIDE DEF s
  <2> QED
    BY <1>4
<1> HIDE DEF s
<1>6. SameElements(s, xs, S, L)
  BY <1>3, <1>5 DEF SameElements
<1> QED
  BY <1>6 DEF s

\* qsort with one of the comparisons of triples.
LEMMA SortedBySorts ==
  ASSUME NEW tuples \in Seq(IDTriples), NEW i, NEW j, NEW k, Positions(i, j, k)
  PROVE  LET s == SortedBy(tuples, i, j, k)
         IN  /\ SameElements(s, tuples, IDTriples, Len(tuples))
             /\ \A q, r \in 1 .. Len(s) : q < r => s[q] = s[r] \/ Before(s[q], s[r], i, j, k)
<1> DEFINE L == Len(tuples)
           smaller == [n \in DOMAIN tuples |->
                         {m \in DOMAIN tuples : \/ Before(tuples[m], tuples[n], i, j, k)
                                                \/ tuples[m] = tuples[n] /\ m < n}]
<1>1. L \in Nat /\ DOMAIN tuples = 1 .. L /\ \A n \in 1 .. L : tuples[n] \in IDTriples
  BY LenProperties, ElementOfSeq
<1> HIDE DEF L
<1>2. \A m, n \in 1 .. L : 
        m \in smaller[n] <=> (Before(tuples[m], tuples[n], i, j, k)
                              \/ (tuples[m] = tuples[n] /\ m < n))
  BY <1>1
<1>3. smaller \in [1 .. L -> SUBSET (1 .. L)]
  BY <1>1
<1> HIDE DEF smaller
<1>4. ASSUME NEW n \in 1 .. L PROVE n \notin smaller[n]
  BY <1>1, <1>2, BeforeOrders
<1>5. ASSUME NEW m \in 1 .. L, NEW n \in 1 .. L, m # n
      PROVE  m \in smaller[n] \/ n \in smaller[m]
  <2>1. m < n \/ n < m
    BY <1>1, <1>5
  <2>2. \/ tuples[m] = tuples[n] \/ Before(tuples[m], tuples[n], i, j, k)
        \/ Before(tuples[n], tuples[m], i, j, k)
    BY <1>1, BeforeOrders
  <2> QED
    BY <1>2, <2>1, <2>2
<1>6. ASSUME NEW l \in 1 .. L, NEW m \in 1 .. L, NEW n \in 1 .. L, l \in smaller[m], m \in smaller[n]
      PROVE  l \in smaller[n]
  <2>1. l < m /\ m < n => l < n
    BY <1>1
  <2>2. Before(tuples[l], tuples[m], i, j, k) /\ Before(tuples[m], tuples[n], i, j, k)
          => Before(tuples[l], tuples[n], i, j, k)
    BY <1>1, BeforeOrders
  <2> QED
    BY <1>2, <1>6, <2>1, <2>2
<1>7. Orders(smaller, 1 .. L)
  BY <1>3, <1>4, <1>5, <1>6 DEF Orders
<1>8. PICK p : SortedThrough(p, ByRank(tuples, smaller), tuples, smaller, 1 .. L, L)
  BY <1>1, <1>7, IntervalSize, RankSorts
<1>9. SortedBy(tuples, i, j, k) = [r \in 1 .. L |-> tuples[p[r]]]
  BY <1>8 DEF SortedBy, smaller, SortedThrough
<1>10. SameElements(SortedBy(tuples, i, j, k), tuples, IDTriples, L)
  <2>1. tuples \in [1 .. L -> IDTriples]
    BY <1>1
  <2> QED
    BY <1>1, <1>8, <1>9, <2>1, Rearranged DEF SortedThrough
<1>11. Len(SortedBy(tuples, i, j, k)) = L
  BY <1>10 DEF SameElements
<1>12. ASSUME NEW q \in 1 .. L, NEW r \in 1 .. L, q < r
       PROVE  \/ tuples[p[q]] = tuples[p[r]]
              \/ Before(tuples[p[q]], tuples[p[r]], i, j, k)
  <2>1. p[q] \in smaller[p[r]] /\ p[q] \in 1 .. L /\ p[r] \in 1 .. L
    BY <1>8, <1>12 DEF Arranges, SortedThrough
  <2> QED
    BY <1>2, <2>1
<1> QED
  BY <1>9, <1>10, <1>11, <1>12 DEF L

\* And with the comparison of numbers, at any places.
LEMMA SortedIDsSorts ==
  ASSUME NEW K \in SUBSET Nat, IsFiniteSet(K), NEW L, L = Cardinality(K), NEW xs \in [K -> Nat]
  PROVE  LET s == SortedIDs(xs)
         IN  /\ SameElements(s, xs, Nat, L)
             /\ \A q, r \in 1 .. L : q < r => s[q] <= s[r]
             /\ (\A m, n \in K : xs[m] = xs[n] => m = n)
                  => \A q, r \in 1 .. L : q < r => s[q] < s[r]
<1> DEFINE smaller == [n \in DOMAIN xs |->
                         {m \in DOMAIN xs : xs[m] < xs[n] \/ (xs[m] = xs[n] /\ m < n)}]
<1>1. L \in Nat /\ DOMAIN xs = K /\ (\A n \in K : xs[n] \in Nat) /\ \A n \in K : n \in Nat
  BY FS_CardinalityType
<1>2. \A m, n \in K : m \in smaller[n] <=> xs[m] < xs[n] \/ (xs[m] = xs[n] /\ m < n)
  BY <1>1
<1>3. smaller \in [K -> SUBSET K]
  BY <1>1
<1> HIDE DEF smaller
<1>4. /\ \A n \in K : n \notin smaller[n]
      /\ \A m, n \in K : m # n => m \in smaller[n] \/ n \in smaller[m]
      /\ \A l, m, n \in K : l \in smaller[m] /\ m \in smaller[n] => l \in smaller[n]
  BY <1>1, <1>2
<1>5. Orders(smaller, K)
  BY <1>3, <1>4 DEF Orders
<1>6. PICK p : SortedThrough(p, ByRank(xs, smaller), xs, smaller, K, L)
  BY <1>1, <1>5, RankSorts
<1>7. SortedIDs(xs) = [r \in 1 .. L |-> xs[p[r]]]
  BY <1>6 DEF SortedIDs, smaller, SortedThrough
<1>8. SameElements(SortedIDs(xs), xs, Nat, L)
  <2>1. Arranges(p, smaller, K, L) /\ xs \in [K -> Nat] /\ L \in Nat
    BY <1>1, <1>6 DEF SortedThrough
  <2>2. SameElements([r \in 1 .. L |-> xs[p[r]]], xs, Nat, L)
    BY <2>1, Rearranged
  <2> QED
    BY <1>7, <2>2
<1>9. ASSUME NEW q \in 1 .. L, NEW r \in 1 .. L, q < r
      PROVE  /\ p[q] \in K /\ p[r] \in K /\ xs[p[q]] <= xs[p[r]]
             /\ xs[p[q]] < xs[p[r]] \/ (xs[p[q]] = xs[p[r]] /\ p[q] # p[r])
  <2>1. p[q] \in smaller[p[r]] /\ p[q] \in K /\ p[r] \in K
    BY <1>6, <1>9 DEF Arranges, SortedThrough
  <2>2. xs[p[q]] < xs[p[r]] \/ (xs[p[q]] = xs[p[r]] /\ p[q] < p[r])
    BY <1>2, <2>1
  <2>3. xs[p[q]] \in Nat /\ xs[p[r]] \in Nat /\ p[q] \in Nat /\ p[r] \in Nat
    BY <1>1, <2>1
  <2> QED
    BY <2>1, <2>2, <2>3
<1>10. (\A m, n \in K : xs[m] = xs[n] => m = n)
         => \A q, r \in 1 .. L : q < r => xs[p[q]] < xs[p[r]]
  <2> SUFFICES ASSUME \A m, n \in K : xs[m] = xs[n] => m = n,
                      NEW q \in 1 .. L, NEW r \in 1 .. L, q < r
               PROVE  xs[p[q]] < xs[p[r]]
    OBVIOUS
  <2>1. /\ p[q] \in K /\ p[r] \in K
        /\ xs[p[q]] < xs[p[r]] \/ (xs[p[q]] = xs[p[r]] /\ p[q] # p[r])
    BY <1>9
  <2> QED
    BY <2>1
<1> QED
  BY <1>7, <1>8, <1>9, <1>10
-----------------------------------------------------------------------------
(* The loops that store a list for each key                                *)

\* A set of numbers up to n that is not empty has a greatest one.
LEMMA GreatestNatural ==
  ASSUME NEW L \in Nat, NEW S \in SUBSET (0 .. L), S # {}
  PROVE  Max(S) \in S /\ \A y \in S : y <= Max(S)
<1> DEFINE T == {L - x : x \in S}
<1>1. T \subseteq Nat /\ T # {}
  <2>1. ASSUME NEW x \in S PROVE L - x \in Nat
    <3>1. x \in 0 .. L
      OBVIOUS
    <3> QED
      BY <3>1
  <2> QED
    BY <2>1
<1>2. PICK u \in T : \A v \in T : u <= v
  BY <1>1, LeastNatural
<1>3. PICK x \in S : u = L - x
  BY <1>2
<1>4. ASSUME NEW y \in S PROVE x >= y
  <2>1. L - y \in T /\ u <= L - y
    BY <1>2
  <2>2. x \in 0 .. L /\ y \in 0 .. L
    OBVIOUS
  <2> QED
    BY <1>3, <2>1, <2>2
<1>5. \E z \in S : \A y \in S : z >= y
  BY <1>4
<1>6. Max(S) \in S /\ \A y \in S : Max(S) >= y
  BY <1>5 DEF Max
<1>7. ASSUME NEW y \in S PROVE y <= Max(S)
  <2>1. y \in 0 .. L /\ Max(S) \in 0 .. L /\ Max(S) >= y
    BY <1>6
  <2> QED
    BY <2>1
<1> QED
  BY <1>6, <1>7

\* Equal keys are neighbours.
Gathered(tuples, key) ==
  \A i, m, j \in 1 .. Len(tuples) :
    i < m /\ m < j /\ Part(tuples[i], key) = Part(tuples[j], key)
      => Part(tuples[m], key) = Part(tuples[i], key)

\* list has the values of the tuples f to e, and these are the ones with key k.
RunOf(list, tuples, key, val, k, f, e) ==
  /\ f \in 1 .. e /\ e \in 1 .. Len(tuples)
  /\ list = [n \in 1 .. e - f + 1 |-> Part(tuples[f + n - 1], val)]
  /\ \A i \in 1 .. Len(tuples) : Part(tuples[i], key) = k <=> i \in f .. e

\* The loops that cut sorted tuples into lists: the list of a key is the stretch
\* of its tuples.
LEMMA RunsAre ==
  ASSUME NEW S, NEW tuples \in Seq(S), NEW key, NEW val, Gathered(tuples, key)
  PROVE  /\ DOMAIN Runs(tuples, key, val) = {Part(t, key) : t \in ToSet(tuples)}
         /\ \A k \in DOMAIN Runs(tuples, key, val) :
              \E f, e : RunOf(Runs(tuples, key, val)[k], tuples, key, val, k, f, e)
<1> DEFINE L == Len(tuples)
           KeyOf(i) == Part(tuples[i], key)
           Ends == {i \in DOMAIN tuples : i = L \/ KeyOf(i) # KeyOf(i + 1)}
           First(e) == 1 + Max({0} \cup {i \in Ends : i < e})
           End(k) == Max({i \in Ends : KeyOf(i) = k})
<1>1. L \in Nat /\ DOMAIN tuples = 1 .. L
  BY LenProperties
<1>2. Runs(tuples, key, val) =
        [k \in {KeyOf(i) : i \in Ends} |->
          [n \in 1 .. End(k) - First(End(k)) + 1 |-> Part(tuples[First(End(k)) + n - 1], val)]]
  BY DEF Runs
<1>3. \A i, m, j \in 1 .. L : i < m /\ m < j /\ KeyOf(i) = KeyOf(j) => KeyOf(m) = KeyOf(i)
  BY DEF Gathered
<1>4. \A i : i \in Ends <=> i \in 1 .. L /\ (i = L \/ KeyOf(i) # KeyOf(i + 1))
  BY <1>1
<1> HIDE DEF L, KeyOf, Ends
<1>5. ASSUME NEW i \in 1 .. L
      PROVE  \E e \in Ends : i <= e /\ KeyOf(e) = KeyOf(i)
  <2> DEFINE T == {j \in i .. L : KeyOf(j) = KeyOf(i)}
  <2>1. T \in SUBSET (0 .. L) /\ i \in T
    BY <1>1
  <2>2. Max(T) \in T /\ \A y \in T : y <= Max(T)
    BY <1>1, <2>1, GreatestNatural
  <2>3. PICK e : e = Max(T)
    OBVIOUS
  <2>4. e \in i .. L /\ KeyOf(e) = KeyOf(i)
    BY <2>2, <2>3
  <2>5. e = L \/ KeyOf(e + 1) # KeyOf(i)
    <3>1. CASE e + 1 \in T
      BY <2>2, <2>3, <2>4, <3>1, <1>1
    <3>2. CASE e + 1 \notin T
      BY <2>4, <3>2, <1>1
    <3> QED
      BY <3>1, <3>2
  <2>6. e \in Ends
    BY <1>1, <1>4, <2>4, <2>5
  <2> QED
    BY <2>4, <2>6
<1>6. {KeyOf(i) : i \in Ends} = {Part(t, key) : t \in ToSet(tuples)}
  <2>1. {Part(t, key) : t \in ToSet(tuples)} = {KeyOf(i) : i \in 1 .. L}
    BY <1>1 DEF ToSet, KeyOf
  <2>2. \A i \in 1 .. L : \E e \in Ends : KeyOf(e) = KeyOf(i)
    BY <1>5
  <2>3. Ends \subseteq 1 .. L
    BY <1>4
  <2>4. {KeyOf(i) : i \in Ends} = {KeyOf(i) : i \in 1 .. L}
    BY <2>2, <2>3
  <2> QED
    BY <2>1, <2>4
<1>7. ASSUME NEW k \in {KeyOf(i) : i \in Ends}
      PROVE  RunOf(Runs(tuples, key, val)[k], tuples, key, val, k, First(End(k)), End(k))
  <2> DEFINE K == {i \in Ends : KeyOf(i) = k}
  <2>1. K \in SUBSET (0 .. L) /\ K # {}
    BY <1>1, <1>4
  <2>2. PICK e : e = End(k)
    OBVIOUS
  <2>3. e \in K /\ \A y \in K : y <= e
    BY <1>1, <2>1, <2>2, GreatestNatural
  <2>4. e \in Ends /\ e \in 1 .. L /\ KeyOf(e) = k
    BY <1>4, <2>3
  <2> DEFINE B == {0} \cup {i \in Ends : i < e}
  <2>5. B \in SUBSET (0 .. L) /\ B # {}
    BY <1>1, <1>4
  <2>6. PICK b : b = Max(B)
    OBVIOUS
  <2>7. b \in B /\ \A y \in B : y <= b
    BY <1>1, <2>5, <2>6, GreatestNatural
  <2>8. First(End(k)) = 1 + b
    BY <2>2, <2>6
  <2>9. b \in 0 .. e - 1 /\ (b # 0 => b \in Ends)
    BY <1>1, <2>4, <2>5, <2>7
  <2> HIDE DEF B, K
  <2>10. ASSUME NEW i \in 1 .. L, KeyOf(i) = k PROVE i \in 1 + b .. e
    <3>1. i <= e
      <4>1. PICK x \in Ends : i <= x /\ KeyOf(x) = KeyOf(i)
        BY <1>5
      <4>2. x \in K /\ x \in 1 .. L
        BY <4>1, <2>10, <1>4 DEF K
      <4>3. x <= e
        BY <4>2, <2>3
      <4> QED
        BY <4>1, <4>2, <4>3, <2>4, <1>1
    <3>2. ASSUME i <= b PROVE FALSE
      <4>1. b \in Ends /\ b \in 1 .. L /\ b < e /\ b + 1 \in 1 .. L /\ b + 1 <= e
        BY <1>1, <1>4, <2>4, <2>9, <3>2
      <4>2. KeyOf(b) # KeyOf(b + 1)
        BY <1>1, <1>4, <2>4, <4>1
      <4>3. KeyOf(b) = k
        <5>1. CASE i = b
          BY <2>10, <5>1
        <5>2. CASE i # b
          <6>1. i < b
            BY <3>2, <5>2, <4>1
          <6> QED
            BY <1>3, <2>4, <2>10, <4>1, <6>1
        <5> QED
          BY <5>1, <5>2
      <4>4. KeyOf(b + 1) = k
        <5>1. CASE b + 1 = e
          BY <2>4, <5>1
        <5>2. CASE b + 1 # e
          <6>1. i < b + 1 /\ b + 1 < e
            BY <3>2, <5>2, <4>1, <2>4
          <6> QED
            BY <1>3, <2>4, <2>10, <4>1, <6>1
        <5> QED
          BY <5>1, <5>2
      <4> QED
        BY <4>2, <4>3, <4>4
    <3> QED
      BY <3>1, <3>2, <2>9, <2>4, <1>1
  <2>11. ASSUME NEW i \in 1 + b .. e PROVE KeyOf(i) = k
    <3>1. i \in 1 .. L
      BY <2>4, <2>9, <1>1
    <3>2. PICK x \in Ends : i <= x /\ KeyOf(x) = KeyOf(i)
      BY <1>5, <3>1
    <3>3. x \in 1 .. L
      BY <1>4
    <3>4. CASE x < e
      <4>1. x \in B
        BY <3>4 DEF B
      <4>2. x <= b
        BY <4>1, <2>7
      <4> QED
        BY <3>2, <3>3, <4>2, <2>9, <2>4, <1>1
    <3>5. CASE x = e
      BY <2>4, <3>2, <3>5
    <3>6. CASE e < x
      <4>1. i = e \/ i < e
        BY <2>4, <3>1
      <4>2. CASE i = e
        BY <2>4, <4>2
      <4>3. CASE i < e
        <5>1. KeyOf(e) = KeyOf(i)
          BY <1>3, <2>4, <3>1, <3>2, <3>3, <3>6, <4>3
        <5> QED
          BY <5>1, <2>4
      <4> QED
        BY <4>1, <4>2, <4>3
    <3> QED
      BY <3>3, <3>4, <3>5, <3>6, <2>4, <1>1
  <2>12. Runs(tuples, key, val)[k] = [n \in 1 .. e - (1 + b) + 1 |-> Part(tuples[(1 + b) + n - 1], val)]
    BY <1>2, <2>2, <2>8
  <2>13. \A i \in 1 .. L : KeyOf(i) = k <=> i \in 1 + b .. e
    BY <2>10, <2>11
  <2>14. 1 + b \in 1 .. e /\ e \in 1 .. L
    BY <2>4, <2>9
  <2>15. First(End(k)) = 1 + b /\ End(k) = e
    BY <2>2, <2>8
  <2> HIDE DEF First, End
  <2> QED
    BY <2>12, <2>13, <2>14, <2>15 DEF RunOf, L, KeyOf
<1>8. DOMAIN Runs(tuples, key, val) = {KeyOf(i) : i \in Ends}
  BY <1>2
<1> HIDE DEF First, End
<1> QED
  BY <1>6, <1>7, <1>8
-----------------------------------------------------------------------------
\* Part, of one position and of two.
LEMMA PartOne ==
  ASSUME NEW t, NEW a
  PROVE  Part(t, <<a>>) = t[a]
<1>1. Len(<<a>>) = 1 /\ <<a>>[1] = a
  OBVIOUS
<1> QED
  BY <1>1 DEF Part

\* Two positions of a tuple.
LEMMA PartTwo ==
  ASSUME NEW t, NEW a, NEW b
  PROVE  Part(t, <<a, b>>) = <<t[a], t[b]>>
<1>1. Len(<<a, b>>) = 2 /\ DOMAIN <<a, b>> = 1 .. 2
  OBVIOUS
<1>2. [n \in 1 .. 2 |-> t[<<a, b>>[n]]] = <<t[a], t[b]>>
  OBVIOUS
<1> QED
  BY <1>1, <1>2 DEF Part

\* The lists of an index are sequences of members of V.
Lists(index, V) == \A k \in DOMAIN index : index[k] \in Seq(V)

\* The lists cut from tuples whose keys are gathered tell the tuples.
LEMMA RunsTell ==
  ASSUME NEW S, NEW tuples \in Seq(S), NEW key, NEW val, Gathered(tuples, key),
         NEW V, \A t \in S : Part(t, val) \in V
  PROVE  /\ Tells(Runs(tuples, key, val), ToSet(tuples), key, val)
         /\ Lists(Runs(tuples, key, val), V)
<1>1. PICK R : R = Runs(tuples, key, val)
  OBVIOUS
<1>2. Len(tuples) \in Nat /\ DOMAIN tuples = 1 .. Len(tuples)
      /\ \A i \in 1 .. Len(tuples) : tuples[i] \in S
  BY LenProperties, ElementOfSeq
<1>3. ASSUME NEW k \in DOMAIN R
      PROVE  R[k] \in Seq(V) /\ ToSet(R[k]) = ValuesOf(ToSet(tuples), key, val, k)
  <2>1. PICK f, e : RunOf(R[k], tuples, key, val, k, f, e)
    BY <1>1, <1>3, RunsAre
  <2>2. f \in 1 .. e /\ e \in 1 .. Len(tuples)
    BY <2>1 DEF RunOf
  <2>3. R[k] = [n \in 1 .. e - f + 1 |-> Part(tuples[f + n - 1], val)]
    BY <2>1 DEF RunOf
  <2>4. \A i \in 1 .. Len(tuples) : Part(tuples[i], key) = k <=> i \in f .. e
    BY <2>1 DEF RunOf
  <2>5. \A n \in 1 .. e - f + 1 : f + n - 1 \in f .. e /\ f + n - 1 \in 1 .. Len(tuples)
    BY <1>2, <2>2
  <2>6. \A i \in f .. e : i - f + 1 \in 1 .. e - f + 1 /\ f + (i - f + 1) - 1 = i
    BY <1>2, <2>2
  <2>7. R[k] \in [1 .. e - f + 1 -> V] /\ e - f + 1 \in Nat
    <3>1. e - f + 1 \in Nat
      BY <1>2, <2>2
    <3>2. \A n \in 1 .. e - f + 1 : Part(tuples[f + n - 1], val) \in V
      BY <1>2, <2>5
    <3> QED
      BY <2>3, <3>1, <3>2
  <2>8. R[k] \in Seq(V)
    BY <2>7, SeqDef
  <2>9. DOMAIN R[k] = 1 .. e - f + 1
    BY <2>3
  <2>10. ASSUME NEW x \in ToSet(R[k]) PROVE x \in ValuesOf(ToSet(tuples), key, val, k)
    <3>1. PICK n \in 1 .. e - f + 1 : x = R[k][n]
      BY <2>9 DEF ToSet
    <3>2. x = Part(tuples[f + n - 1], val) /\ f + n - 1 \in f .. e /\ f + n - 1 \in 1 .. Len(tuples)
      BY <2>3, <2>5, <3>1
    <3>3. Part(tuples[f + n - 1], key) = k
      BY <2>4, <3>2
    <3>4. tuples[f + n - 1] \in ToSet(tuples)
      BY <1>2, <3>2 DEF ToSet
    <3> QED
      BY <3>2, <3>3, <3>4 DEF ValuesOf
  <2>11. ASSUME NEW x \in ValuesOf(ToSet(tuples), key, val, k) PROVE x \in ToSet(R[k])
    <3>1. PICK i \in 1 .. Len(tuples) : Part(tuples[i], key) = k /\ x = Part(tuples[i], val)
      BY <1>2 DEF ValuesOf, ToSet
    <3>2. i \in f .. e
      BY <2>4, <3>1
    <3>3. i - f + 1 \in 1 .. e - f + 1 /\ f + (i - f + 1) - 1 = i
      BY <2>6, <3>2
    <3>4. R[k][i - f + 1] = x
      BY <2>3, <3>1, <3>3
    <3> QED
      BY <2>9, <3>3, <3>4 DEF ToSet
  <2>12. ToSet(R[k]) = ValuesOf(ToSet(tuples), key, val, k)
    BY <2>10, <2>11
  <2> QED
    BY <2>8, <2>12
<1>4. DOMAIN R = {Part(t, key) : t \in ToSet(tuples)}
  BY <1>1, RunsAre
<1> QED
  BY <1>1, <1>3, <1>4 DEF Tells, Lists

\* Two neighbours in a list come from two neighbours among the tuples.
LEMMA RunsNeighbours ==
  ASSUME NEW S, NEW tuples \in Seq(S), NEW key, NEW val, Gathered(tuples, key),
         NEW R, R = Runs(tuples, key, val), NEW k \in DOMAIN R,
         Len(R[k]) \in Nat, DOMAIN R[k] = 1 .. Len(R[k]), NEW n \in 1 .. Len(R[k]) - 1
  PROVE  \E q \in 1 .. Len(tuples) - 1 :
           /\ R[k][n] = Part(tuples[q], val) /\ R[k][n + 1] = Part(tuples[q + 1], val)
           /\ Part(tuples[q], key) = Part(tuples[q + 1], key)
<1>1. PICK f, e : RunOf(R[k], tuples, key, val, k, f, e)
  BY RunsAre
<1>2. f \in 1 .. e /\ e \in 1 .. Len(tuples) /\ Len(tuples) \in Nat
  BY <1>1, LenProperties DEF RunOf
<1>3. R[k] = [m \in 1 .. e - f + 1 |-> Part(tuples[f + m - 1], val)]
  BY <1>1 DEF RunOf
<1>4. 1 .. Len(R[k]) = 1 .. e - f + 1
  BY <1>3
<1>5. Len(R[k]) = e - f + 1
  BY <1>2, <1>4
<1>6. /\ n \in 1 .. e - f + 1 /\ n + 1 \in 1 .. e - f + 1
      /\ f + n - 1 \in 1 .. Len(tuples) - 1 /\ f + (n + 1) - 1 = (f + n - 1) + 1
      /\ f + n - 1 \in f .. e /\ (f + n - 1) + 1 \in f .. e
      /\ f + n - 1 \in 1 .. Len(tuples) /\ (f + n - 1) + 1 \in 1 .. Len(tuples)
  BY <1>2, <1>5
<1>7. R[k][n] = Part(tuples[f + n - 1], val) /\ R[k][n + 1] = Part(tuples[(f + n - 1) + 1], val)
  <2>1. R[k][n + 1] = Part(tuples[f + (n + 1) - 1], val)
    BY <1>3, <1>6
  <2> QED
    BY <1>3, <1>6, <2>1
<1>8. Part(tuples[f + n - 1], key) = k /\ Part(tuples[(f + n - 1) + 1], key) = k
  BY <1>1, <1>6 DEF RunOf
<1> QED
  BY <1>6, <1>7, <1>8

\* In a sorted sequence equal keys are neighbours.
LEMMA SortedGathers ==
  ASSUME NEW s \in Seq(IDTriples), NEW i, NEW j, NEW k, Positions(i, j, k),
         \A q, r \in 1 .. Len(s) : q < r => s[q] = s[r] \/ Before(s[q], s[r], i, j, k)
  PROVE  Gathered(s, <<i>>) /\ Gathered(s, <<i, j>>)
<1>1. ASSUME NEW l \in 1 .. Len(s), NEW m \in 1 .. Len(s), NEW n \in 1 .. Len(s), l < m, m < n
      PROVE  /\ s[l][i] = s[n][i] => s[m][i] = s[l][i]
             /\ s[l][i] = s[n][i] /\ s[l][j] = s[n][j] => s[m][i] = s[l][i] /\ s[m][j] = s[l][j]
  <2>1. s[l] \in IDTriples /\ s[m] \in IDTriples /\ s[n] \in IDTriples
    BY ElementOfSeq
  <2>2. /\ s[l] = s[m] \/ Before(s[l], s[m], i, j, k)
        /\ s[m] = s[n] \/ Before(s[m], s[n], i, j, k)
    BY <1>1
  <2>3. PICK x, y : x = s[l][i] /\ y = s[l][j]
    OBVIOUS
  <2>4. PICK u, v : u = s[m][i] /\ v = s[m][j]
    OBVIOUS
  <2>5. PICK o, p : o = s[n][i] /\ p = s[n][j]
    OBVIOUS
  <2>6. x \in Nat /\ y \in Nat /\ u \in Nat /\ v \in Nat /\ o \in Nat /\ p \in Nat
    BY <2>1, <2>3, <2>4, <2>5, TripleParts
  <2>7. /\ x < u \/ (x = u /\ (y < v \/ y = v))
        /\ u < o \/ (u = o /\ (v < p \/ v = p))
    BY <2>2, <2>3, <2>4, <2>5 DEF Before
  <2>8. (x = o => u = x) /\ (x = o /\ y = p => u = x /\ v = y)
    BY ONLY <2>6, <2>7
  <2> QED
    BY <2>3, <2>4, <2>5, <2>8
<1>2. Gathered(s, <<i>>)
  <2>1. \A n \in 1 .. Len(s) : Part(s[n], <<i>>) = s[n][i]
    BY PartOne
  <2> QED
    BY <1>1, <2>1 DEF Gathered
<1>3. ASSUME NEW l \in 1 .. Len(s), NEW m \in 1 .. Len(s), NEW n \in 1 .. Len(s), l < m, m < n,
             Part(s[l], <<i, j>>) = Part(s[n], <<i, j>>)
      PROVE  Part(s[m], <<i, j>>) = Part(s[l], <<i, j>>)
  <2>1. Part(s[l], <<i, j>>) = <<s[l][i], s[l][j]>>
    BY PartTwo
  <2>2. Part(s[n], <<i, j>>) = <<s[n][i], s[n][j]>>
    BY PartTwo
  <2>3. Part(s[m], <<i, j>>) = <<s[m][i], s[m][j]>>
    BY PartTwo
  <2>4. s[l][i] = s[n][i] /\ s[l][j] = s[n][j]
    BY <1>3, <2>1, <2>2
  <2>5. s[m][i] = s[l][i] /\ s[m][j] = s[l][j]
    BY <1>1, <1>3, <2>4
  <2> QED
    BY <2>1, <2>3, <2>5
<1>4. Gathered(s, <<i, j>>)
  BY <1>3 DEF Gathered
<1> QED
  BY <1>2, <1>4
-----------------------------------------------------------------------------
IDPairs == Nat \X Nat

\* An index over the triples: it tells the values of each key, in order.
NumberIndex(index, triples, key, val) ==
  Tells(index, triples, key, val) /\ Lists(index, Nat) /\ Ordered(index, Less)
PairIndex(index, triples, key, val) ==
  Tells(index, triples, key, val) /\ Lists(index, IDPairs) /\ Ordered(index, LessPair)

\* A sequence of triples that is sorted by three positions.
SortedAs(s, tuples, i, j, k) ==
  /\ s \in Seq(IDTriples) /\ ToSet(s) = ToSet(tuples)
  /\ \A q, r \in 1 .. Len(s) : q < r => s[q] = s[r] \/ Before(s[q], s[r], i, j, k)

\* So one of qsort's results is its argument, sorted.
LEMMA SortedByIs ==
  ASSUME NEW tuples \in Seq(IDTriples), NEW i, NEW j, NEW k, Positions(i, j, k)
  PROVE  SortedAs(SortedBy(tuples, i, j, k), tuples, i, j, k)
<1>1. PICK s : s = SortedBy(tuples, i, j, k)
  OBVIOUS
<1>2. /\ SameElements(s, tuples, IDTriples, Len(tuples))
      /\ \A q, r \in 1 .. Len(s) : q < r => s[q] = s[r] \/ Before(s[q], s[r], i, j, k)
  BY <1>1, SortedBySorts
<1>3. s \in Seq(IDTriples) /\ ToSet(s) = ToSet(tuples)
  BY <1>2 DEF SameElements, ToSet
<1> QED
  BY <1>1, <1>2, <1>3 DEF SortedAs

\* Neighbours of sorted triples are in order.
LEMMA NextSorted ==
  ASSUME NEW s, NEW tuples, NEW i, NEW j, NEW k, Positions(i, j, k),
         SortedAs(s, tuples, i, j, k), NEW q \in 1 .. Len(s) - 1
  PROVE  /\ s[q] \in IDTriples /\ s[q + 1] \in IDTriples
         /\ ~Before(s[q + 1], s[q], i, j, k)
<1>1. s \in Seq(IDTriples) /\ Len(s) \in Nat
  BY LenProperties DEF SortedAs
<1>2. q \in 1 .. Len(s) /\ q + 1 \in 1 .. Len(s) /\ q < q + 1
  BY <1>1
<1>3. s[q] \in IDTriples /\ s[q + 1] \in IDTriples
  BY <1>1, <1>2, ElementOfSeq
<1>4. s[q] = s[q + 1] \/ Before(s[q], s[q + 1], i, j, k)
  BY <1>2 DEF SortedAs
<1> QED
  BY <1>3, <1>4, BeforeOrders

\* sp2o and op2s: the lists by two positions.
LEMMA PairKeyIndex ==
  ASSUME NEW s, NEW tuples, NEW i, NEW j, NEW k, Positions(i, j, k), SortedAs(s, tuples, i, j, k)
  PROVE  NumberIndex(Runs(s, <<i, j>>, <<k>>), ToSet(tuples), <<i, j>>, <<k>>)
<1>1. s \in Seq(IDTriples) /\ ToSet(s) = ToSet(tuples) /\ Len(s) \in Nat
  BY LenProperties DEF SortedAs
<1>2. Gathered(s, <<i, j>>)
  BY <1>1, SortedGathers DEF SortedAs
<1>3. \A t \in IDTriples : Part(t, <<k>>) \in Nat
  BY PartOne, TripleParts
<1>4. PICK R : R = Runs(s, <<i, j>>, <<k>>)
  OBVIOUS
<1>5. Tells(R, ToSet(tuples), <<i, j>>, <<k>>) /\ Lists(R, Nat)
  BY <1>1, <1>2, <1>3, <1>4, RunsTell
<1>6. ASSUME NEW x \in DOMAIN R, NEW n \in 1 .. Len(R[x]) - 1
      PROVE  ~(R[x][n + 1] < R[x][n])
  <2>1. Len(R[x]) \in Nat /\ DOMAIN R[x] = 1 .. Len(R[x])
    BY <1>5, LenProperties DEF Lists
  <2>2. PICK q \in 1 .. Len(s) - 1 :
          /\ R[x][n] = Part(s[q], <<k>>) /\ R[x][n + 1] = Part(s[q + 1], <<k>>)
          /\ Part(s[q], <<i, j>>) = Part(s[q + 1], <<i, j>>)
    BY <1>1, <1>2, <1>4, <2>1, RunsNeighbours
  <2>3. s[q] \in IDTriples /\ s[q + 1] \in IDTriples /\ ~Before(s[q + 1], s[q], i, j, k)
    BY NextSorted
  <2>4. Part(s[q], <<i, j>>) = <<s[q][i], s[q][j]>>
    BY PartTwo
  <2>5. Part(s[q + 1], <<i, j>>) = <<s[q + 1][i], s[q + 1][j]>>
    BY PartTwo
  <2>6. s[q][i] = s[q + 1][i] /\ s[q][j] = s[q + 1][j]
    BY <2>2, <2>4, <2>5
  <2>7. R[x][n] = s[q][k] /\ R[x][n + 1] = s[q + 1][k]
    BY <2>2, PartOne
  <2> QED
    BY <2>3, <2>6, <2>7 DEF Before
<1>7. Ordered(R, Less)
  BY <1>6 DEF Ordered, Less
<1> QED
  BY <1>4, <1>5, <1>7 DEF NumberIndex

\* s2po and o2ps: the lists of pairs.
LEMMA PairListIndex ==
  ASSUME NEW s, NEW tuples, NEW i, NEW j, NEW k, Positions(i, j, k), SortedAs(s, tuples, i, j, k)
  PROVE  PairIndex(Runs(s, <<i>>, <<j, k>>), ToSet(tuples), <<i>>, <<j, k>>)
<1>1. s \in Seq(IDTriples) /\ ToSet(s) = ToSet(tuples) /\ Len(s) \in Nat
  BY LenProperties DEF SortedAs
<1>2. Gathered(s, <<i>>)
  BY <1>1, SortedGathers DEF SortedAs
<1>3. ASSUME NEW t \in IDTriples PROVE Part(t, <<j, k>>) \in IDPairs
  <2>1. Part(t, <<j, k>>) = <<t[j], t[k]>>
    BY PartTwo
  <2>2. t[j] \in Nat /\ t[k] \in Nat
    BY TripleParts
  <2> QED
    BY <2>1, <2>2 DEF IDPairs
<1>4. PICK R : R = Runs(s, <<i>>, <<j, k>>)
  OBVIOUS
<1>5. Tells(R, ToSet(tuples), <<i>>, <<j, k>>) /\ Lists(R, IDPairs)
  BY <1>1, <1>2, <1>3, <1>4, RunsTell
<1>6. ASSUME NEW x \in DOMAIN R, NEW n \in 1 .. Len(R[x]) - 1
      PROVE  ~LessPair(R[x][n + 1], R[x][n])
  <2>1. Len(R[x]) \in Nat /\ DOMAIN R[x] = 1 .. Len(R[x])
    BY <1>5, LenProperties DEF Lists
  <2>2. PICK q \in 1 .. Len(s) - 1 :
          /\ R[x][n] = Part(s[q], <<j, k>>) /\ R[x][n + 1] = Part(s[q + 1], <<j, k>>)
          /\ Part(s[q], <<i>>) = Part(s[q + 1], <<i>>)
    BY <1>1, <1>2, <1>4, <2>1, RunsNeighbours
  <2>3. s[q] \in IDTriples /\ s[q + 1] \in IDTriples /\ ~Before(s[q + 1], s[q], i, j, k)
    BY NextSorted
  <2>4. R[x][n] = <<s[q][j], s[q][k]>>
    BY <2>2, PartTwo
  <2>5. R[x][n + 1] = <<s[q + 1][j], s[q + 1][k]>>
    BY <2>2, PartTwo
  <2>6. s[q][i] = s[q + 1][i]
    BY <2>2, PartOne
  <2>7. /\ R[x][n][1] = s[q][j] /\ R[x][n][2] = s[q][k]
        /\ R[x][n + 1][1] = s[q + 1][j] /\ R[x][n + 1][2] = s[q + 1][k]
    BY <2>4, <2>5
  <2> QED
    BY <2>3, <2>6, <2>7 DEF Before, LessPair
<1>7. Ordered(R, LessPair)
  BY <1>6 DEF Ordered
<1> QED
  BY <1>4, <1>5, <1>7 DEF PairIndex

\* s2o and o2s: the lists that are sorted once more.
LEMMA SortedListIndex ==
  ASSUME NEW s, NEW tuples, NEW i, NEW j, NEW k, Positions(i, j, k), SortedAs(s, tuples, i, j, k)
  PROVE  NumberIndex(EachSorted(Runs(s, <<i>>, <<k>>)), ToSet(tuples), <<i>>, <<k>>)
<1>1. s \in Seq(IDTriples) /\ ToSet(s) = ToSet(tuples) /\ Len(s) \in Nat
  BY LenProperties DEF SortedAs
<1>2. Gathered(s, <<i>>)
  BY <1>1, SortedGathers DEF SortedAs
<1>3. \A t \in IDTriples : Part(t, <<k>>) \in Nat
  BY PartOne, TripleParts
<1>4. PICK R : R = Runs(s, <<i>>, <<k>>)
  OBVIOUS
<1>5. Tells(R, ToSet(tuples), <<i>>, <<k>>) /\ Lists(R, Nat)
  BY <1>1, <1>2, <1>3, <1>4, RunsTell
<1>6. PICK Q : Q = EachSorted(R)
  OBVIOUS
<1>7. DOMAIN Q = DOMAIN R /\ \A x \in DOMAIN R : Q[x] = SortedIDs(R[x])
  BY <1>6 DEF EachSorted
<1>8. ASSUME NEW x \in DOMAIN R
      PROVE  /\ Q[x] \in Seq(Nat) /\ ToSet(Q[x]) = ToSet(R[x])
             /\ \A m \in 1 .. Len(Q[x]) - 1 : ~(Q[x][m + 1] < Q[x][m])
  <2>1. R[x] \in Seq(Nat)
    BY <1>5 DEF Lists
  <2>2. /\ Q[x] \in Seq(Nat) /\ ToSet(Q[x]) = ToSet(R[x])
        /\ \A m, n \in 1 .. Len(Q[x]) : m < n => Q[x][m] <= Q[x][n]
    <3>1. PICK L : L = Len(R[x])
      OBVIOUS
    <3>2. L \in Nat /\ DOMAIN R[x] = 1 .. L /\ R[x] \in [1 .. L -> Nat]
      BY <2>1, <3>1, LenProperties
    <3>3. IsFiniteSet(1 .. L) /\ L = Cardinality(1 .. L) /\ 1 .. L \in SUBSET Nat
      BY <3>2, IntervalSize
    <3>4. /\ SameElements(Q[x], R[x], Nat, L)
          /\ \A m, n \in 1 .. L : m < n => Q[x][m] <= Q[x][n]
      BY <1>7, <3>2, <3>3, SortedIDsSorts
    <3> QED
      BY <3>4 DEF SameElements, ToSet
  <2>3. Q[x] \in Seq(Nat) /\ ToSet(Q[x]) = ToSet(R[x])
    BY <2>2
  <2>4. ASSUME NEW m \in 1 .. Len(Q[x]) - 1 PROVE ~(Q[x][m + 1] < Q[x][m])
    <3>1. Len(Q[x]) \in Nat
      BY <2>3, LenProperties
    <3>2. m \in 1 .. Len(Q[x]) /\ m + 1 \in 1 .. Len(Q[x]) /\ m < m + 1
      BY <3>1
    <3>3. Q[x][m] \in Nat /\ Q[x][m + 1] \in Nat
      BY <2>3, <3>2, ElementOfSeq
    <3>4. Q[x][m] <= Q[x][m + 1]
      BY <2>2, <3>2
    <3> QED
      BY <3>3, <3>4
  <2> QED
    BY <2>3, <2>4
<1>9. Tells(Q, ToSet(tuples), <<i>>, <<k>>)
  BY <1>5, <1>7, <1>8 DEF Tells
<1>10. Lists(Q, Nat) /\ Ordered(Q, Less)
  BY <1>7, <1>8 DEF Lists, Ordered, Less
<1> QED
  BY <1>4, <1>6, <1>9, <1>10 DEF NumberIndex

\* s2o_sp2o_s2po and o2s_op2s_o2ps: the six lists tell the triples.
LEMMA SixIndexes ==
  ASSUME NEW tuples \in Seq(IDTriples)
  PROVE  /\ NumberIndex(SubIndexes(tuples).sp2o, ToSet(tuples), <<1, 2>>, <<3>>)
         /\ NumberIndex(SubIndexes(tuples).s2o, ToSet(tuples), <<1>>, <<3>>)
         /\ PairIndex(SubIndexes(tuples).s2po, ToSet(tuples), <<1>>, <<2, 3>>)
         /\ NumberIndex(ObjIndexes(tuples).op2s, ToSet(tuples), <<3, 2>>, <<1>>)
         /\ NumberIndex(ObjIndexes(tuples).o2s, ToSet(tuples), <<3>>, <<1>>)
         /\ PairIndex(ObjIndexes(tuples).o2ps, ToSet(tuples), <<3>>, <<2, 1>>)
<1>1. Positions(1, 2, 3) /\ Positions(3, 2, 1)
  BY DEF Positions
<1>2. PICK spo, ops : spo = SortedBy(tuples, 1, 2, 3) /\ ops = SortedBy(tuples, 3, 2, 1)
  OBVIOUS
<1>3. SortedAs(spo, tuples, 1, 2, 3)
  BY <1>1, <1>2, SortedByIs
<1>4. SortedAs(ops, tuples, 3, 2, 1)
  BY <1>1, <1>2, SortedByIs
<1>5. /\ SubIndexes(tuples).sp2o = Runs(spo, <<1, 2>>, <<3>>)
      /\ SubIndexes(tuples).s2o = EachSorted(Runs(spo, <<1>>, <<3>>))
      /\ SubIndexes(tuples).s2po = Runs(spo, <<1>>, <<2, 3>>)
  BY <1>2 DEF SubIndexes
<1>6. /\ ObjIndexes(tuples).op2s = Runs(ops, <<3, 2>>, <<1>>)
      /\ ObjIndexes(tuples).o2s = EachSorted(Runs(ops, <<3>>, <<1>>))
      /\ ObjIndexes(tuples).o2ps = Runs(ops, <<3>>, <<2, 1>>)
  BY <1>2 DEF ObjIndexes
<1>7. NumberIndex(SubIndexes(tuples).sp2o, ToSet(tuples), <<1, 2>>, <<3>>)
  BY <1>1, <1>3, <1>5, PairKeyIndex
<1>8. NumberIndex(SubIndexes(tuples).s2o, ToSet(tuples), <<1>>, <<3>>)
  BY <1>1, <1>3, <1>5, SortedListIndex
<1>9. PairIndex(SubIndexes(tuples).s2po, ToSet(tuples), <<1>>, <<2, 3>>)
  BY <1>1, <1>3, <1>5, PairListIndex
<1>10. NumberIndex(ObjIndexes(tuples).op2s, ToSet(tuples), <<3, 2>>, <<1>>)
  BY <1>1, <1>4, <1>6, PairKeyIndex
<1>11. NumberIndex(ObjIndexes(tuples).o2s, ToSet(tuples), <<3>>, <<1>>)
  BY <1>1, <1>4, <1>6, SortedListIndex
<1>12. PairIndex(ObjIndexes(tuples).o2ps, ToSet(tuples), <<3>>, <<2, 1>>)
  BY <1>1, <1>4, <1>6, PairListIndex
<1> QED
  BY <1>7, <1>8, <1>9, <1>10, <1>11, <1>12
-----------------------------------------------------------------------------
(* Encoding                                                                *)

\* A table of names, none of them twice.
Table(table) == table \in Seq(STRING) /\ IsInjective(table)
\* bigger has the names of the other one in their places.
Continues(table, bigger) ==
  Len(table) <= Len(bigger) /\ \A n \in 1 .. Len(table) : bigger[n] = table[n]

\* What a table is.
LEMMA TableFacts ==
  ASSUME NEW table, Table(table)
  PROVE  /\ table \in Seq(STRING) /\ Len(table) \in Nat /\ DOMAIN table = 1 .. Len(table)
         /\ \A n \in 1 .. Len(table) : table[n] \in STRING
         /\ \A m, n \in 1 .. Len(table) : table[m] = table[n] => m = n
         /\ ToSet(table) = {table[n] : n \in 1 .. Len(table)}
<1>1. table \in Seq(STRING) /\ IsInjective(table)
  BY DEF Table
<1>2. Len(table) \in Nat /\ DOMAIN table = 1 .. Len(table)
  BY <1>1, LenProperties
<1> QED
  BY <1>1, <1>2, ElementOfSeq DEF IsInjective, ToSet

\* getIDByEntity and its like: the ID of a name, -1 if it has none.
LEMMA IDOfIs ==
  ASSUME NEW table, Table(table), NEW x
  PROVE  /\ IDOf(table, x) \in -1 .. Len(table) - 1
         /\ IDOf(table, x) = -1 <=> x \notin ToSet(table)
         /\ IDOf(table, x) # -1 =>
              IDOf(table, x) \in 0 .. Len(table) - 1 /\ table[IDOf(table, x) + 1] = x
<1> DEFINE u == SelectInSeq(table, LAMBDA y : y = x)
<1>1. table \in Seq(STRING) /\ Len(table) \in Nat
  BY TableFacts
<1>2. /\ u \in 0 .. Len(table)
      /\ u = 0 => \A i \in 1 .. Len(table) : table[i] # x
      /\ u # 0 => table[u] = x
  BY <1>1, FirstPosition DEF SelectInSeq, Min
<1>3. IDOf(table, x) = u - 1
  BY DEF IDOf
<1> HIDE DEF u
<1>4. u \in 1 .. Len(table) \/ u = 0
  BY <1>1, <1>2
<1>5. u # 0 => x \in ToSet(table)
  BY <1>1, <1>2, <1>4, TableFacts
<1>6. u = 0 => x \notin ToSet(table)
  BY <1>2, TableFacts
<1>7. u # 0 => u - 1 # -1 /\ (u - 1) + 1 = u /\ u - 1 \in 0 .. Len(table) - 1
  BY <1>1, <1>2
<1>8. u - 1 \in -1 .. Len(table) - 1 /\ (u = 0 => u - 1 = -1)
  BY <1>1, <1>2
<1> QED
  BY <1>2, <1>3, <1>5, <1>6, <1>7, <1>8

\* A name is added at the end, once.
LEMMA InternKeeps ==
  ASSUME NEW table, Table(table), NEW x \in STRING
  PROVE  /\ Table(Intern(table, x)) /\ Continues(table, Intern(table, x))
         /\ ToSet(Intern(table, x)) = ToSet(table) \cup {x}
         /\ Len(Intern(table, x)) <= Len(table) + 1
<1>1. /\ table \in Seq(STRING) /\ Len(table) \in Nat /\ DOMAIN table = 1 .. Len(table)
      /\ \A n \in 1 .. Len(table) : table[n] \in STRING
      /\ \A m, n \in 1 .. Len(table) : table[m] = table[n] => m = n
      /\ ToSet(table) = {table[n] : n \in 1 .. Len(table)}
  BY TableFacts
<1>2. CASE x \in ToSet(table)
  <2>1. Intern(table, x) = table
    BY <1>2, IDOfIs DEF Intern
  <2>2. Continues(table, table) /\ Len(table) <= Len(table) + 1
    BY <1>1 DEF Continues
  <2> QED
    BY <1>2, <2>1, <2>2
<1>3. CASE x \notin ToSet(table)
  <2>1. Intern(table, x) = Append(table, x)
    BY <1>3, IDOfIs DEF Intern
  <2>2. PICK r : r = Append(table, x)
    OBVIOUS
  <2>3. /\ r \in Seq(STRING) /\ Len(r) = Len(table) + 1
        /\ \A n \in 1 .. Len(table) : r[n] = table[n]
        /\ r[Len(table) + 1] = x
    <3>1. PICK S : S = STRING
      OBVIOUS
    <3>2. table \in Seq(S) /\ x \in S
      BY <1>1, <3>1
    <3>3. r \in Seq(S) /\ Len(r) = Len(table) + 1
      BY ONLY <2>2, <3>2, AppendProperties
    <3>4. /\ \A n \in 1 .. Len(table) : r[n] = table[n]
          /\ r[Len(table) + 1] = x
      <4>1. /\ Append(table, x) \in Seq(S)
            /\ Append(table, x) # << >>
            /\ Len(Append(table, x)) = Len(table) + 1
            /\ \A n \in 1 .. Len(table) : Append(table, x)[n] = table[n]
            /\ Append(table, x)[Len(table) + 1] = x
        BY ONLY <3>2, AppendProperties, Zenon
      <4> QED
        BY ONLY <2>2, <4>1, Zenon
    <3> QED
      BY <3>1, <3>3, <3>4
  <2>4. DOMAIN r = 1 .. Len(table) + 1
    BY <2>3, LenProperties
  <2>5. \A n \in 1 .. Len(table) + 1 : n \in 1 .. Len(table) \/ n = Len(table) + 1
    BY <1>1
  <2>6. ASSUME NEW m \in 1 .. Len(table) + 1, NEW n \in 1 .. Len(table) + 1, r[m] = r[n]
        PROVE  m = n
    <3>1. \A q \in 1 .. Len(table) : r[q] # x
      BY <1>1, <1>3, <2>3
    <3>2. CASE m \in 1 .. Len(table) /\ n \in 1 .. Len(table)
      BY <1>1, <2>3, <2>6, <3>2
    <3>3. CASE m = Len(table) + 1 /\ n \in 1 .. Len(table)
      BY <2>3, <2>6, <3>1, <3>3
    <3>4. CASE m \in 1 .. Len(table) /\ n = Len(table) + 1
      BY <2>3, <2>6, <3>1, <3>4
    <3>5. CASE m = Len(table) + 1 /\ n = Len(table) + 1
      BY <3>5
    <3> QED
      BY <2>5, <3>2, <3>3, <3>4, <3>5
  <2>7. Table(r)
    BY <2>3, <2>4, <2>6 DEF Table, IsInjective
  <2>8. Len(table) + 1 \in 1 .. Len(table) + 1 /\ 1 .. Len(table) \subseteq 1 .. Len(table) + 1
    BY <1>1
  <2>9. ToSet(r) = ToSet(table) \cup {x}
    <3>1. ToSet(r) = {r[n] : n \in 1 .. Len(table) + 1}
      BY <2>4 DEF ToSet
    <3>2. ASSUME NEW y \in ToSet(r) PROVE y \in ToSet(table) \cup {x}
      <4>1. PICK n \in 1 .. Len(table) + 1 : y = r[n]
        BY <3>1
      <4>2. CASE n \in 1 .. Len(table)
        BY <1>1, <2>3, <4>1, <4>2
      <4>3. CASE n = Len(table) + 1
        BY <2>3, <4>1, <4>3
      <4> QED
        BY <2>5, <4>2, <4>3
    <3>3. ASSUME NEW y \in ToSet(table) \cup {x} PROVE y \in ToSet(r)
      <4>1. CASE y = x
        BY <2>3, <2>8, <3>1, <4>1
      <4>2. CASE y \in ToSet(table)
        <5>1. PICK n \in 1 .. Len(table) : y = table[n]
          BY <1>1, <4>2
        <5>2. y = r[n] /\ n \in 1 .. Len(table) + 1
          BY <2>3, <2>8, <5>1
        <5> QED
          BY <3>1, <5>2
      <4> QED
        BY <4>1, <4>2
    <3> QED
      BY <3>2, <3>3
  <2>10. Continues(table, r) /\ Len(r) <= Len(table) + 1
    BY <1>1, <2>3 DEF Continues
  <2> QED
    BY <2>1, <2>2, <2>7, <2>9, <2>10
<1> QED
  BY <1>2, <1>3

\* The three tables, entities and literals apart.
Tables(d) ==
  /\ d = [entity |-> d.entity, predicate |-> d.predicate, literal |-> d.literal]
  /\ Table(d.entity) /\ Table(d.predicate) /\ Table(d.literal)
  /\ \A x \in ToSet(d.entity) : x \notin Literals
  /\ ToSet(d.literal) \subseteq Literals
Grows(d, e) ==
  /\ Continues(d.entity, e.entity) /\ Continues(d.predicate, e.predicate)
  /\ Continues(d.literal, e.literal)
\* The names of a triple have IDs.
Knows(d, t) ==
  /\ t[1] \in ToSet(d.entity) /\ t[2] \in ToSet(d.predicate)
  /\ IsEntity(t[3]) => t[3] \in ToSet(d.entity)
  /\ ~IsEntity(t[3]) => t[3] \in ToSet(d.literal)

\* What a triple is.
LEMMA StatementParts ==
  ASSUME NEW t \in Statements
  PROVE  /\ t[1] \in STRING /\ t[2] \in STRING /\ t[3] \in STRING
         /\ IsEntity(t[1]) /\ t = <<t[1], t[2], t[3]>>
BY DEF Statements

\* A table that has grown twice has grown.
LEMMA ContinuesTransitive ==
  ASSUME NEW a, NEW b, NEW c, Table(a), Table(b), Table(c), Continues(a, b), Continues(b, c)
  PROVE  Continues(a, c)
<1>1. Len(a) \in Nat /\ Len(b) \in Nat /\ Len(c) \in Nat
  BY TableFacts
<1> QED
  BY <1>1 DEF Continues

\* The names of a triple get IDs, two entities at most, and no name loses its own.
LEMMA AddNamesKeeps ==
  ASSUME NEW d, Tables(d), NEW t \in Statements
  PROVE  /\ Tables(AddNames(d, t)) /\ Grows(d, AddNames(d, t)) /\ Knows(AddNames(d, t), t)
         /\ Len(AddNames(d, t).entity) <= Len(d.entity) + 2
<1>1. PICK e : e = AddNames(d, t)
  OBVIOUS
<1>2. PICK sub : sub = Intern(d.entity, t[1])
  OBVIOUS
<1>3. /\ t[1] \in STRING /\ t[2] \in STRING /\ t[3] \in STRING /\ IsEntity(t[1])
  BY StatementParts
<1>4. e = [entity |-> IF IsEntity(t[3]) THEN Intern(sub, t[3]) ELSE sub,
           predicate |-> Intern(d.predicate, t[2]),
           literal |-> IF IsEntity(t[3]) THEN d.literal ELSE Intern(d.literal, t[3])]
  BY <1>1, <1>2 DEF AddNames
<1>5. /\ Table(sub) /\ Continues(d.entity, sub) /\ ToSet(sub) = ToSet(d.entity) \cup {t[1]}
      /\ Len(sub) <= Len(d.entity) + 1
  BY <1>2, <1>3, InternKeeps DEF Tables
<1>6. /\ Len(sub) \in Nat /\ Len(d.entity) \in Nat /\ Len(d.literal) \in Nat
  BY <1>5, TableFacts DEF Tables
<1>7. /\ Table(e.predicate) /\ Continues(d.predicate, e.predicate)
      /\ ToSet(e.predicate) = ToSet(d.predicate) \cup {t[2]}
  BY <1>3, <1>4, InternKeeps DEF Tables
<1>8. CASE IsEntity(t[3])
  <2>1. e.entity = Intern(sub, t[3]) /\ e.literal = d.literal
    BY <1>4, <1>8
  <2>2. /\ Table(e.entity) /\ Continues(sub, e.entity) /\ ToSet(e.entity) = ToSet(sub) \cup {t[3]}
        /\ Len(e.entity) <= Len(sub) + 1
    BY <2>1, <1>3, <1>5, InternKeeps
  <2>3. Continues(d.entity, e.entity)
    BY <2>2, <1>5, ContinuesTransitive DEF Tables
  <2>4. Continues(d.literal, e.literal)
    BY <2>1, <1>6 DEF Continues
  <2>5. Len(e.entity) \in Nat
    BY <2>2, TableFacts
  <2>6. Len(e.entity) <= Len(d.entity) + 2
    BY <2>2, <2>5, <1>5, <1>6
  <2>7. Knows(e, t)
    BY <1>5, <1>7, <1>8, <2>2 DEF Knows
  <2>8. Table(e.literal) /\ ToSet(e.literal) \subseteq Literals
    BY <2>1 DEF Tables
  <2>9. \A x \in ToSet(e.entity) : x \notin Literals
    BY <1>3, <1>5, <1>8, <2>2 DEF Tables, IsEntity
  <2> QED
    BY <1>1, <1>4, <1>7, <2>2, <2>3, <2>4, <2>6, <2>7, <2>8, <2>9 DEF Tables, Grows
<1>9. CASE ~IsEntity(t[3])
  <2>1. e.entity = sub /\ e.literal = Intern(d.literal, t[3])
    BY <1>4, <1>9
  <2>2. /\ Table(e.literal) /\ Continues(d.literal, e.literal)
        /\ ToSet(e.literal) = ToSet(d.literal) \cup {t[3]}
    <3>1. Table(d.literal) /\ t[3] \in STRING
      BY <1>3 DEF Tables
    <3> QED
      BY <2>1, <3>1, InternKeeps
  <2>3. Len(e.entity) <= Len(d.entity) + 2
    BY <2>1, <1>5, <1>6
  <2>4. Knows(e, t)
    BY <1>5, <1>7, <1>9, <2>1, <2>2 DEF Knows
  <2>5. ToSet(e.literal) \subseteq Literals
    BY <1>9, <2>2 DEF Tables, IsEntity
  <2>6. \A x \in ToSet(e.entity) : x \notin Literals
    BY <1>3, <1>5, <2>1 DEF Tables, IsEntity
  <2>7. Table(e.entity) /\ Continues(d.entity, e.entity)
    BY <1>5, <2>1
  <2> QED
    BY <1>1, <1>4, <1>7, <2>2, <2>3, <2>4, <2>5, <2>6, <2>7 DEF Tables, Grows
<1> QED
  BY <1>8, <1>9

\* A name that has an ID keeps one as the tables grow.
LEMMA KnowsStays ==
  ASSUME NEW d, NEW e, Tables(d), Tables(e), Grows(d, e), NEW t, Knows(d, t)
  PROVE  Knows(e, t)
<1>1. ASSUME NEW a, NEW b, Table(a), Table(b), Continues(a, b), NEW x \in ToSet(a)
      PROVE  x \in ToSet(b)
  <2>1. PICK n \in 1 .. Len(a) : x = a[n]
    BY <1>1, TableFacts
  <2>2. n \in 1 .. Len(b) /\ b[n] = x
    <3>1. Len(a) \in Nat /\ Len(b) \in Nat /\ Len(a) <= Len(b)
      BY <1>1, TableFacts DEF Continues
    <3> QED
      BY <1>1, <2>1, <3>1 DEF Continues
  <2> QED
    BY <1>1, <2>2, TableFacts
<1> QED
  BY <1>1 DEF Tables, Grows, Knows
-----------------------------------------------------------------------------
\* g numbers the names of the first m triples, one triple after the other.
Numbers(g, rdf, m) ==
  g = [n \in 0 .. m |-> IF n = 0 THEN NoNames ELSE AddNames(g[n - 1], rdf[n])]

\* The tables after each triple, as the recursion of Dictionaries has them: there is
\* such a function.
LEMMA NumbersExist ==
  ASSUME NEW rdf, NEW L \in Nat
  PROVE  \E g : Numbers(g, rdf, L)
<1> DEFINE Missed == {m \in 0 .. L : ~\E g : Numbers(g, rdf, m)}
<1>1. ASSUME Missed # {} PROVE FALSE
  <2>1. PICK m \in Missed : \A y \in Missed : m <= y
    <3>1. Missed \subseteq Nat
      OBVIOUS
    <3> HIDE DEF Missed
    <3> QED
      BY <1>1, <3>1, LeastNatural
  <2>2. m \in 0 .. L /\ ~\E g : Numbers(g, rdf, m)
    OBVIOUS
  <2>3. CASE m = 0
    <3> DEFINE g == [n \in 0 .. 0 |-> NoNames]
    <3>1. g = [n \in 0 .. 0 |-> IF n = 0 THEN NoNames ELSE AddNames(g[n - 1], rdf[n])]
      OBVIOUS
    <3> HIDE DEF g
    <3>2. Numbers(g, rdf, 0)
      BY <3>1 DEF Numbers
    <3> QED
      BY <2>2, <2>3, <3>2
  <2>4. CASE m # 0
    <3>1. m - 1 \in 0 .. L /\ m - 1 \notin Missed
      <4>1. m - 1 \in 0 .. L /\ ~(m <= m - 1)
        BY <2>2, <2>4
      <4> QED
        BY <2>1, <4>1
    <3>2. PICK g : Numbers(g, rdf, m - 1)
      BY <3>1
    <3> DEFINE h == [n \in 0 .. m |-> IF n = m THEN AddNames(g[m - 1], rdf[m]) ELSE g[n]]
    <3>3. ASSUME NEW n \in 0 .. m
          PROVE  h[n] = IF n = 0 THEN NoNames ELSE AddNames(h[n - 1], rdf[n])
      <4>1. \A k \in 0 .. m - 1 :
              g[k] = IF k = 0 THEN NoNames ELSE AddNames(g[k - 1], rdf[k])
        BY <3>2 DEF Numbers
      <4>2. CASE n = m
        <5>1. m - 1 \in 0 .. m /\ m - 1 # m
          BY <2>2, <2>4
        <5>2. h[m - 1] = g[m - 1] /\ h[m] = AddNames(g[m - 1], rdf[m])
          BY <5>1, <2>2
        <5> QED
          BY <4>2, <5>2, <2>4
      <4>3. CASE n # m /\ n = 0
        <5>1. h[n] = g[n] /\ n \in 0 .. m - 1
          BY <4>3, <2>2
        <5> QED
          BY <4>1, <4>3, <5>1
      <4>4. CASE n # m /\ n # 0
        <5>1. n \in 0 .. m - 1 /\ n - 1 \in 0 .. m /\ n - 1 # m
          BY <4>4, <2>2
        <5>2. h[n] = g[n] /\ h[n - 1] = g[n - 1]
          BY <4>4, <5>1
        <5>3. g[n] = AddNames(g[n - 1], rdf[n])
          BY <4>1, <4>4, <5>1
        <5> QED
          BY <4>4, <5>2, <5>3
      <4> QED
        BY <4>2, <4>3, <4>4
    <3>4. h = [n \in 0 .. m |-> h[n]]
      OBVIOUS
    <3> HIDE DEF h
    <3>5. h = [n \in 0 .. m |-> IF n = 0 THEN NoNames ELSE AddNames(h[n - 1], rdf[n])]
      BY <3>3, <3>4
    <3>6. Numbers(h, rdf, m)
      BY <3>5 DEF Numbers
    <3> QED
      BY <2>2, <3>6
  <2> QED
    BY <2>3, <2>4
<1>2. L \in 0 .. L /\ L \notin Missed
  BY <1>1
<1> QED
  BY <1>2

\* After the first n triples.
Numbered(d, rdf, n) ==
  Tables(d) /\ Len(d.entity) <= 2 * n /\ \A i \in 1 .. n : Knows(d, rdf[i])

\* The empty tables.
LEMMA NoNamesTables == Tables(NoNames) /\ Len(NoNames.entity) = 0
<1>1. NoNames = [entity |-> <<>>, predicate |-> <<>>, literal |-> <<>>]
  BY DEF NoNames
<1>2. NoNames.entity = <<>> /\ NoNames.predicate = <<>> /\ NoNames.literal = <<>>
  BY <1>1
<1>3. Table(<<>>) /\ ToSet(<<>>) = {}
  BY DEF Table, IsInjective, ToSet
<1> QED
  BY <1>1, <1>2, <1>3 DEF Tables

\* The tables once all triples are read: all names have IDs, and the entities are two
\* a triple at most.
LEMMA DictionariesAre ==
  ASSUME NEW rdf \in Seq(Statements)
  PROVE  Numbered(Dictionaries(rdf), rdf, Len(rdf))
<1> DEFINE L == Len(rdf)
           after == CHOOSE g : Numbers(g, rdf, L)
<1>1. L \in Nat /\ \A n \in 1 .. L : rdf[n] \in Statements
  BY LenProperties, ElementOfSeq
<1>2. Dictionaries(rdf) = after[L]
  BY DEF Dictionaries, Numbers
<1> HIDE DEF L
<1>3. Numbers(after, rdf, L)
  BY <1>1, NumbersExist
<1> HIDE DEF after
<1>4. \A n \in 0 .. L : after[n] = IF n = 0 THEN NoNames ELSE AddNames(after[n - 1], rdf[n])
  BY <1>3 DEF Numbers
<1> DEFINE Wrong == {n \in 0 .. L : ~Numbered(after[n], rdf, n)}
<1>5. ASSUME Wrong # {} PROVE FALSE
  <2>1. PICK n \in Wrong : \A y \in Wrong : n <= y
    <3>1. Wrong \subseteq Nat
      OBVIOUS
    <3> HIDE DEF Wrong
    <3> QED
      BY <1>5, <3>1, LeastNatural
  <2>2. n \in 0 .. L /\ ~Numbered(after[n], rdf, n)
    OBVIOUS
  <2>3. CASE n = 0
    <3>1. after[n] = NoNames
      BY <1>4, <2>2, <2>3
    <3>2. Len(NoNames.entity) <= 2 * n
      BY <2>3, NoNamesTables
    <3>3. \A i \in 1 .. n : FALSE
      BY <2>3
    <3> QED
      BY <2>2, <3>1, <3>2, <3>3, NoNamesTables DEF Numbered
  <2>4. CASE n # 0
    <3>1. n - 1 \in 0 .. L /\ n \in 1 .. L /\ ~(n <= n - 1)
      BY <1>1, <2>2, <2>4
    <3>2. Numbered(after[n - 1], rdf, n - 1)
      BY <2>1, <3>1
    <3>3. PICK d, e : d = after[n - 1] /\ e = after[n]
      OBVIOUS
    <3>4. e = AddNames(d, rdf[n])
      BY <1>4, <2>2, <2>4, <3>3
    <3>5. Tables(d) /\ Len(d.entity) <= 2 * (n - 1) /\ \A i \in 1 .. n - 1 : Knows(d, rdf[i])
      BY <3>2, <3>3 DEF Numbered
    <3>6. rdf[n] \in Statements
      BY <1>1, <3>1
    <3>7. /\ Tables(e) /\ Grows(d, e) /\ Knows(e, rdf[n])
          /\ Len(e.entity) <= Len(d.entity) + 2
      BY <3>4, <3>5, <3>6, AddNamesKeeps
    <3>8. Len(e.entity) \in Nat /\ Len(d.entity) \in Nat
      <4>1. Table(e.entity) /\ Table(d.entity)
        BY <3>5, <3>7 DEF Tables
      <4> QED
        BY <4>1, TableFacts
    <3>9. Len(e.entity) <= 2 * n
      BY <3>1, <3>5, <3>7, <3>8
    <3>10. ASSUME NEW i \in 1 .. n PROVE Knows(e, rdf[i])
      <4>1. i = n \/ i \in 1 .. n - 1
        BY <3>1
      <4> QED
        BY <4>1, <3>5, <3>7, KnowsStays
    <3> QED
      BY <2>2, <3>3, <3>7, <3>9, <3>10 DEF Numbered
  <2> QED
    BY <2>3, <2>4
<1>6. L \in 0 .. L /\ L \notin Wrong
  BY <1>1, <1>5
<1> QED
  BY <1>2, <1>6 DEF L

\* The IDs that the tables give to the objects.
ObjectIDs(d) ==
  0 .. Len(d.entity) - 1
  \cup LITERAL_FIRST_ID .. LITERAL_FIRST_ID + Len(d.literal) - 1
IDsOf(d) == (0 .. Len(d.entity) - 1) \X (0 .. Len(d.predicate) - 1) \X ObjectIDs(d)

\* The names that a triple of IDs has.
Spelled(d, t) == <<d.entity[t[1] + 1], d.predicate[t[2] + 1],
                   IF t[3] < LITERAL_FIRST_ID THEN d.entity[t[3] + 1]
                   ELSE d.literal[t[3] - LITERAL_FIRST_ID + 1]>>

\* As long as entities have IDs below the literals', a triple has the IDs of its
\* names.
LEMMA IDsAre ==
  ASSUME NEW d, Tables(d), Len(d.entity) <= LITERAL_FIRST_ID, NEW t \in Statements, Knows(d, t)
  PROVE  /\ IDs(d, t) \in IDsOf(d) /\ Spelled(d, IDs(d, t)) = t
         /\ IDs(d, t)[3] >= LITERAL_FIRST_ID <=> t[3] \in Literals
<1>1. PICK a, b, c : a = IDOf(d.entity, t[1]) /\ b = IDOf(d.predicate, t[2]) /\ c = ObjID(d, t[3])
  OBVIOUS
<1>2. IDs(d, t) = <<a, b, c>>
  BY <1>1 DEF IDs
<1>3. Table(d.entity) /\ Table(d.predicate) /\ Table(d.literal)
  BY DEF Tables
<1>4. PICK m, n : m = Len(d.entity) /\ n = Len(d.literal)
  OBVIOUS
<1>5. m \in Nat /\ n \in Nat /\ m <= LITERAL_FIRST_ID /\ LITERAL_FIRST_ID \in Nat
  BY <1>3, <1>4, TableFacts, TripleListsAssumption
<1>6. a \in 0 .. m - 1 /\ d.entity[a + 1] = t[1]
  BY <1>1, <1>3, <1>4, IDOfIs DEF Knows
<1>7. b \in 0 .. Len(d.predicate) - 1 /\ d.predicate[b + 1] = t[2]
  BY <1>1, <1>3, IDOfIs DEF Knows
<1>8. /\ c \in ObjectIDs(d) /\ (c >= LITERAL_FIRST_ID <=> t[3] \in Literals)
      /\ t[3] = IF c < LITERAL_FIRST_ID THEN d.entity[c + 1] ELSE d.literal[c - LITERAL_FIRST_ID + 1]
  <2>1. CASE IsEntity(t[3])
    <3>1. c = IDOf(d.entity, t[3]) /\ t[3] \in ToSet(d.entity)
      BY <1>1, <2>1 DEF ObjID, Knows
    <3>2. c \in 0 .. m - 1 /\ d.entity[c + 1] = t[3]
      BY <1>3, <1>4, <3>1, IDOfIs
    <3>3. c < LITERAL_FIRST_ID /\ ~(c >= LITERAL_FIRST_ID)
      BY <1>5, <3>2
    <3> QED
      BY <1>4, <2>1, <3>2, <3>3 DEF ObjectIDs, IsEntity
  <2>2. CASE ~IsEntity(t[3])
    <3>1. PICK l : l = IDOf(d.literal, t[3])
      OBVIOUS
    <3>2. c = LITERAL_FIRST_ID + l /\ t[3] \in ToSet(d.literal)
      BY <1>1, <2>2, <3>1 DEF ObjID, Knows
    <3>3. l \in 0 .. n - 1 /\ d.literal[l + 1] = t[3]
      BY <1>3, <1>4, <3>1, <3>2, IDOfIs
    <3>4. /\ c >= LITERAL_FIRST_ID /\ ~(c < LITERAL_FIRST_ID) /\ c - LITERAL_FIRST_ID = l
          /\ c \in LITERAL_FIRST_ID .. LITERAL_FIRST_ID + n - 1
      BY <1>5, <3>2, <3>3
    <3>5. c \in ObjectIDs(d)
      BY <1>4, <3>4 DEF ObjectIDs
    <3> QED
      BY <2>2, <3>3, <3>4, <3>5 DEF IsEntity
  <2> QED
    BY <2>1, <2>2
<1>9. <<a, b, c>> \in IDsOf(d)
  BY <1>4, <1>6, <1>7, <1>8 DEF IDsOf
<1>10. t = <<t[1], t[2], t[3]>>
  BY StatementParts
<1>11. Spelled(d, <<a, b, c>>) = t
  BY <1>6, <1>7, <1>8, <1>10 DEF Spelled
<1> QED
  BY <1>2, <1>8, <1>9, <1>11
-----------------------------------------------------------------------------
(* Insertion into a list                                                   *)

\* A set of places that has the place before each of its own is a beginning.
LEMMA Beginning ==
  ASSUME NEW L \in Nat, NEW S \in SUBSET (1 .. L), \A i \in 1 .. L - 1 : i + 1 \in S => i \in S
  PROVE  Cardinality(S) \in 0 .. L /\ S = 1 .. Cardinality(S)
<1>1. \E c \in 0 .. L : S = 1 .. c
  <2>1. CASE S = {}
    <3>1. S = 1 .. 0 /\ 0 \in 0 .. L
      BY <2>1
    <3> QED
      BY <3>1
  <2>2. CASE S # {}
    <3>1. S \in SUBSET (0 .. L)
      OBVIOUS
    <3>2. PICK m : m = Max(S)
      OBVIOUS
    <3>3. m \in S /\ \A y \in S : y <= m
      BY <2>2, <3>1, <3>2, GreatestNatural
    <3>4. m \in 1 .. L
      BY <3>3
    <3> DEFINE Gaps == {y \in 1 .. m : y \notin S}
    <3>5. ASSUME Gaps # {} PROVE FALSE
      <4>1. Gaps \in SUBSET (0 .. L)
        BY <3>4
      <4>2. PICK y : y = Max(Gaps)
        OBVIOUS
      <4>3. y \in Gaps /\ \A z \in Gaps : z <= y
        BY <3>5, <4>1, <4>2, GreatestNatural
      <4>4. y \in 1 .. m /\ y \notin S /\ y # m
        BY <3>3, <4>3
      <4>5. y + 1 \in 1 .. m /\ y \in 1 .. L - 1 /\ ~(y + 1 <= y)
        BY <3>4, <4>4
      <4>6. y + 1 \notin Gaps
        BY <4>3, <4>5
      <4>7. y + 1 \in S
        BY <4>5, <4>6
      <4> QED
        BY <4>4, <4>5, <4>7
    <3>6. ASSUME NEW i \in 1 .. m PROVE i \in S
      BY <3>5
    <3>7. ASSUME NEW i \in S PROVE i \in 1 .. m
      <4>1. i \in 1 .. L /\ i <= m
        BY <3>3
      <4> QED
        BY <3>4, <4>1
    <3>8. S = 1 .. m
      BY <3>6, <3>7
    <3>9. m \in 0 .. L
      BY <3>4
    <3> QED
      BY <3>8, <3>9
  <2> QED
    BY <2>1, <2>2
<1>2. PICK c \in 0 .. L : S = 1 .. c
  BY <1>1
<1>3. c \in Nat
  BY <1>2
<1>4. Cardinality(1 .. c) = c
  BY <1>3, IntervalSize
<1> QED
  BY <1>2, <1>4

\* What a list is with an element put in.
LEMMA InsertAtIs ==
  ASSUME NEW V, NEW xs \in Seq(V), NEW x \in V, NEW c \in 0 .. Len(xs)
  PROVE  /\ InsertAt(xs, c + 1, x) \in Seq(V) /\ Len(InsertAt(xs, c + 1, x)) = Len(xs) + 1
         /\ \A n \in 1 .. Len(xs) + 1 :
              InsertAt(xs, c + 1, x)[n] =
                IF n <= c THEN xs[n] ELSE IF n = c + 1 THEN x ELSE xs[n - 1]
<1>1. PICK L : L = Len(xs)
  OBVIOUS
<1>2. L \in Nat /\ c \in 0 .. L
  BY <1>1, LenProperties
<1>3. PICK a, b : a = SubSeq(xs, 1, c) /\ b = SubSeq(xs, c + 1, L)
  OBVIOUS
<1>4. a \in Seq(V) /\ Len(a) = c /\ \A n \in 1 .. c : a[n] = xs[n]
  <2>1. 1 \in 1 .. L + 1 /\ c \in 1 - 1 .. L
    BY <1>2
  <2>2. a \in Seq(V) /\ Len(a) = (IF 1 <= c THEN c - 1 + 1 ELSE 0) /\ \A n \in 1 .. c - 1 + 1 : a[n] = xs[1 + n - 1]
    BY <1>1, <1>2, <1>3, <2>1, SubSeqProperties
  <2> QED
    BY <1>2, <2>2
<1>5. b \in Seq(V) /\ Len(b) = L - c /\ \A n \in 1 .. L - c : b[n] = xs[c + n]
  <2>1. c + 1 \in 1 .. L + 1 /\ L \in (c + 1) - 1 .. L
    BY <1>2
  <2>2. /\ b \in Seq(V) /\ Len(b) = (IF c + 1 <= L THEN L - (c + 1) + 1 ELSE 0)
        /\ \A n \in 1 .. L - (c + 1) + 1 : b[n] = xs[(c + 1) + n - 1]
    BY <1>1, <1>2, <1>3, <2>1, SubSeqProperties
  <2>3. \A n \in 1 .. L - c : n \in 1 .. L - (c + 1) + 1 /\ (c + 1) + n - 1 = c + n
    BY <1>2
  <2>4. Len(b) = L - c
    BY <1>2, <2>2
  <2> QED
    BY <2>2, <2>3, <2>4
<1>6. <<x>> \in Seq(V) /\ Len(<<x>>) = 1 /\ <<x>>[1] = x
  OBVIOUS
<1>7. PICK ax : ax = a \o <<x>>
  OBVIOUS
<1>8. /\ ax \in Seq(V) /\ Len(ax) = c + 1
      /\ \A n \in 1 .. c + 1 : ax[n] = IF n <= c THEN a[n] ELSE <<x>>[n - c]
  BY <1>2, <1>4, <1>6, <1>7, ConcatProperties
<1>9. PICK r : r = ax \o b
  OBVIOUS
<1>10. /\ r \in Seq(V) /\ Len(r) = c + 1 + (L - c)
       /\ \A n \in 1 .. c + 1 + (L - c) : r[n] = IF n <= c + 1 THEN ax[n] ELSE b[n - (c + 1)]
  <2>1. /\ r \in Seq(V) /\ Len(r) = Len(ax) + Len(b)
        /\ \A n \in 1 .. Len(ax) + Len(b) : r[n] = IF n <= Len(ax) THEN ax[n] ELSE b[n - Len(ax)]
    BY <1>5, <1>8, <1>9, ConcatProperties
  <2> QED
    BY <2>1, <1>5, <1>8
<1>11. c + 1 + (L - c) = L + 1 /\ (c + 1) - 1 = c
  BY <1>2
<1>12. InsertAt(xs, c + 1, x) = r
  BY <1>1, <1>3, <1>7, <1>9, <1>11 DEF InsertAt
<1>13. ASSUME NEW n \in 1 .. L + 1
       PROVE  r[n] = IF n <= c THEN xs[n] ELSE IF n = c + 1 THEN x ELSE xs[n - 1]
  <2>1. CASE n <= c
    <3>1. n \in 1 .. c /\ n \in 1 .. c + 1 /\ n <= c + 1
      BY <1>2, <2>1
    <3> QED
      BY <1>4, <1>8, <1>10, <1>11, <2>1, <3>1
  <2>2. CASE n = c + 1
    <3>1. ~(n <= c) /\ n - c = 1 /\ n \in 1 .. c + 1 /\ n <= c + 1
      BY <1>2, <2>2
    <3> QED
      BY <1>6, <1>8, <1>10, <1>11, <2>2, <3>1
  <2>3. CASE n > c + 1
    <3>1. ~(n <= c) /\ n # c + 1 /\ ~(n <= c + 1) /\ n - (c + 1) \in 1 .. L - c
          /\ c + (n - (c + 1)) = n - 1
      BY <1>2, <2>3
    <3>2. r[n] = b[n - (c + 1)]
      BY <1>10, <1>11, <3>1
    <3>3. b[n - (c + 1)] = xs[n - 1]
      BY <1>5, <3>1
    <3> QED
      BY <3>1, <3>2, <3>3
  <2> QED
    BY <1>2, <2>1, <2>2, <2>3
<1> QED
  BY <1>1, <1>10, <1>11, <1>12, <1>13

\* r is xs with x in its place: the places before it are smaller's.
PutInPlace(r, xs, x, smaller) ==
  \E c \in 0 .. Len(xs) :
    /\ smaller = 1 .. c /\ Len(r) = Len(xs) + 1
    /\ \A n \in 1 .. Len(xs) + 1 :
         r[n] = IF n <= c THEN xs[n] ELSE IF n = c + 1 THEN x ELSE xs[n - 1]

\* InsertedAfter puts an element in its place, unless it is there already.
LEMMA InsertedIs ==
  ASSUME NEW V, NEW xs \in Seq(V), NEW x \in V, NEW smaller \in SUBSET (1 .. Len(xs)),
         \A i \in 1 .. Len(xs) - 1 : i + 1 \in smaller => i \in smaller,
         NEW r, r = InsertedAfter(xs, x, smaller)
  PROVE  /\ r \in Seq(V) /\ ToSet(r) = ToSet(xs) \cup {x}
         /\ r = xs \/ PutInPlace(r, xs, x, smaller)
<1>1. Len(xs) \in Nat /\ DOMAIN xs = 1 .. Len(xs)
  BY LenProperties
<1>2. CASE x \in ToSet(xs)
  <2>1. r = xs
    BY <1>2 DEF InsertedAfter
  <2> QED
    BY <1>2, <2>1
<1>3. CASE x \notin ToSet(xs)
  <2>1. PICK c : c = Cardinality(smaller)
    OBVIOUS
  <2>2. c \in 0 .. Len(xs) /\ smaller = 1 .. c
    BY <1>1, <2>1, Beginning
  <2>3. r = InsertAt(xs, c + 1, x)
    BY <1>3, <2>1 DEF InsertedAfter
  <2>4. /\ r \in Seq(V) /\ Len(r) = Len(xs) + 1
        /\ \A n \in 1 .. Len(xs) + 1 :
             r[n] = IF n <= c THEN xs[n] ELSE IF n = c + 1 THEN x ELSE xs[n - 1]
    <3>1. c \in 0 .. Len(xs)
      BY <2>2
    <3>2. /\ InsertAt(xs, c + 1, x) \in Seq(V) /\ Len(InsertAt(xs, c + 1, x)) = Len(xs) + 1
          /\ \A n \in 1 .. Len(xs) + 1 :
               InsertAt(xs, c + 1, x)[n] =
                 IF n <= c THEN xs[n] ELSE IF n = c + 1 THEN x ELSE xs[n - 1]
      BY <3>1, InsertAtIs
    <3> QED
      BY <2>3, <3>2
  <2>5. DOMAIN r = 1 .. Len(xs) + 1
    BY <2>4, LenProperties
  <2>6. ASSUME NEW y \in ToSet(r) PROVE y \in ToSet(xs) \cup {x}
    <3>1. PICK n \in 1 .. Len(xs) + 1 : y = r[n]
      BY <2>5 DEF ToSet
    <3>2. n <= c => n \in 1 .. Len(xs)
      BY <1>1, <2>2
    <3>3. ~(n <= c) /\ n # c + 1 => n - 1 \in 1 .. Len(xs)
      BY <1>1, <2>2
    <3> QED
      BY <1>1, <2>4, <3>1, <3>2, <3>3 DEF ToSet
  <2>7. ASSUME NEW y \in ToSet(xs) \cup {x} PROVE y \in ToSet(r)
    <3>1. CASE y = x
      <4>1. c + 1 \in 1 .. Len(xs) + 1 /\ ~(c + 1 <= c)
        BY <1>1, <2>2
      <4>2. r[c + 1] = x
        BY <2>4, <4>1
      <4> QED
        BY <3>1, <4>1, <4>2, <2>5 DEF ToSet
    <3>2. CASE y \in ToSet(xs)
      <4>1. PICK n \in 1 .. Len(xs) : y = xs[n]
        BY <1>1, <3>2 DEF ToSet
      <4>2. CASE n <= c
        <5>1. n \in 1 .. Len(xs) + 1
          BY <1>1
        <5>2. r[n] = y
          BY <2>4, <4>1, <4>2, <5>1
        <5> QED
          BY <2>5, <5>1, <5>2 DEF ToSet
      <4>3. CASE ~(n <= c)
        <5>1. n + 1 \in 1 .. Len(xs) + 1 /\ ~(n + 1 <= c) /\ n + 1 # c + 1 /\ (n + 1) - 1 = n
          BY <1>1, <2>2, <4>3
        <5>2. r[n + 1] = y
          BY <2>4, <4>1, <5>1
        <5> QED
          BY <2>5, <5>1, <5>2 DEF ToSet
      <4> QED
        BY <4>2, <4>3
    <3> QED
      BY <3>1, <3>2
  <2>8. ToSet(r) = ToSet(xs) \cup {x}
    BY <2>6, <2>7
  <2>9. PutInPlace(r, xs, x, smaller)
    BY <2>2, <2>4 DEF PutInPlace
  <2> QED
    BY <2>4, <2>8, <2>9
<1> QED
  BY <1>2, <1>3

\* The order of numbers, as insert_x needs it.
LEMMA LessOrders ==
  ASSUME NEW a \in Nat, NEW b \in Nat, NEW c \in Nat
  PROVE  /\ Less(a, b) => ~Less(b, a)
         /\ Less(b, c) /\ ~Less(b, a) => Less(a, c)
BY DEF Less

\* The order of pairs, as insert_xy needs it.
LEMMA LessPairOrders ==
  ASSUME NEW a \in IDPairs, NEW b \in IDPairs, NEW c \in IDPairs
  PROVE  /\ LessPair(a, b) => ~LessPair(b, a)
         /\ LessPair(b, c) /\ ~LessPair(b, a) => LessPair(a, c)
<1>1. /\ a[1] \in Nat /\ a[2] \in Nat /\ b[1] \in Nat /\ b[2] \in Nat /\ c[1] \in Nat /\ c[2] \in Nat
  BY DEF IDPairs
<1> QED
  BY <1>1 DEF LessPair

\* KVstore::insert_x keeps a list in order.
LEMMA InsertNumber ==
  ASSUME NEW xs \in Seq(Nat), NEW x \in Nat,
         \A i \in 1 .. Len(xs) - 1 : ~Less(xs[i + 1], xs[i]),
         NEW r, r = insert_x(xs, x)
  PROVE  /\ r \in Seq(Nat) /\ ToSet(r) = ToSet(xs) \cup {x}
         /\ \A i \in 1 .. Len(r) - 1 : ~Less(r[i + 1], r[i])
<1> DEFINE smaller == {i \in DOMAIN xs : Less(xs[i], x)}
<1>1. Len(xs) \in Nat /\ DOMAIN xs = 1 .. Len(xs) /\ \A n \in 1 .. Len(xs) : xs[n] \in Nat
  BY LenProperties, ElementOfSeq
<1>2. \A i : i \in smaller <=> i \in 1 .. Len(xs) /\ Less(xs[i], x)
  BY <1>1
<1>3. r = InsertedAfter(xs, x, smaller)
  BY DEF insert_x
<1> HIDE DEF smaller
<1>4. ASSUME NEW i \in 1 .. Len(xs) - 1, i + 1 \in smaller PROVE i \in smaller
  <2>1. i \in 1 .. Len(xs) /\ i + 1 \in 1 .. Len(xs)
    BY <1>1
  <2>2. Less(xs[i + 1], x) /\ ~Less(xs[i + 1], xs[i])
    BY <1>2, <1>4
  <2>3. Less(xs[i], x)
    BY <1>1, <2>1, <2>2, LessOrders
  <2> QED
    BY <1>2, <2>1, <2>3
<1>5. smaller \in SUBSET (1 .. Len(xs))
  BY <1>2
<1>6. /\ r \in Seq(Nat) /\ ToSet(r) = ToSet(xs) \cup {x}
      /\ r = xs \/ PutInPlace(r, xs, x, smaller)
  BY <1>3, <1>4, <1>5, InsertedIs
<1>7. CASE r = xs
  BY <1>6, <1>7
<1>8. CASE PutInPlace(r, xs, x, smaller)
  <2>1. PICK c \in 0 .. Len(xs) :
          /\ smaller = 1 .. c /\ Len(r) = Len(xs) + 1
          /\ \A n \in 1 .. Len(xs) + 1 :
               r[n] = IF n <= c THEN xs[n] ELSE IF n = c + 1 THEN x ELSE xs[n - 1]
    BY <1>8 DEF PutInPlace
  <2>2. ASSUME NEW n \in 1 .. Len(r) - 1 PROVE ~Less(r[n + 1], r[n])
    <3>1. n \in 1 .. Len(xs) /\ n \in 1 .. Len(xs) + 1 /\ n + 1 \in 1 .. Len(xs) + 1 /\ (n + 1) - 1 = n
      BY <1>1, <2>1
    <3>2. CASE n + 1 <= c
      <4>1. n <= c /\ n \in 1 .. Len(xs) - 1
        BY <1>1, <2>1, <3>1, <3>2
      <4>2. r[n] = xs[n] /\ r[n + 1] = xs[n + 1]
        BY <2>1, <3>1, <3>2, <4>1
      <4> QED
        BY <4>1, <4>2
    <3>3. CASE n = c
      <4>1. n <= c /\ ~(n + 1 <= c) /\ n + 1 = c + 1
        BY <3>1, <3>3
      <4>2. r[n] = xs[n] /\ r[n + 1] = x
        BY <2>1, <3>1, <4>1
      <4>3. Less(xs[n], x)
        BY <1>2, <2>1, <3>1, <3>3
      <4>4. ~Less(x, xs[n])
        BY <1>1, <3>1, <4>3, LessOrders
      <4> QED
        BY <4>2, <4>4
    <3>4. CASE n = c + 1
      <4>1. ~(n <= c) /\ ~(n + 1 <= c) /\ n + 1 # c + 1
        BY <2>1, <3>1, <3>4
      <4>2. r[n] = x /\ r[n + 1] = xs[n]
        BY <2>1, <3>1, <3>4, <4>1
      <4>3. n \notin smaller
        BY <2>1, <3>4
      <4>4. ~Less(xs[n], x)
        BY <1>2, <3>1, <4>3
      <4> QED
        BY <4>2, <4>4
    <3>5. CASE n > c + 1
      <4>1. /\ ~(n <= c) /\ ~(n + 1 <= c) /\ n # c + 1 /\ n + 1 # c + 1
            /\ n - 1 \in 1 .. Len(xs) - 1 /\ (n - 1) + 1 = n
        BY <1>1, <2>1, <3>1, <3>5
      <4>2. r[n] = xs[n - 1] /\ r[n + 1] = xs[n]
        BY <2>1, <3>1, <4>1
      <4>3. ~Less(xs[(n - 1) + 1], xs[n - 1])
        BY <4>1
      <4> QED
        BY <4>1, <4>2, <4>3
    <3> QED
      BY <2>1, <3>1, <3>2, <3>3, <3>4, <3>5
  <2> QED
    BY <1>6, <2>2
<1> QED
  BY <1>6, <1>7, <1>8

\* KVstore::insert_xy keeps a list in order.
LEMMA InsertPair ==
  ASSUME NEW xs \in Seq(IDPairs), NEW x \in IDPairs,
         \A i \in 1 .. Len(xs) - 1 : ~LessPair(xs[i + 1], xs[i]),
         NEW r, r = insert_xy(xs, x)
  PROVE  /\ r \in Seq(IDPairs) /\ ToSet(r) = ToSet(xs) \cup {x}
         /\ \A i \in 1 .. Len(r) - 1 : ~LessPair(r[i + 1], r[i])
<1> DEFINE smaller == {i \in DOMAIN xs : LessPair(xs[i], x)}
<1>1. Len(xs) \in Nat /\ DOMAIN xs = 1 .. Len(xs) /\ \A n \in 1 .. Len(xs) : xs[n] \in IDPairs
  BY LenProperties, ElementOfSeq
<1>2. \A i : i \in smaller <=> i \in 1 .. Len(xs) /\ LessPair(xs[i], x)
  BY <1>1
<1>3. r = InsertedAfter(xs, x, smaller)
  BY DEF insert_xy
<1> HIDE DEF smaller
<1>4. ASSUME NEW i \in 1 .. Len(xs) - 1, i + 1 \in smaller PROVE i \in smaller
  <2>1. i \in 1 .. Len(xs) /\ i + 1 \in 1 .. Len(xs)
    BY <1>1
  <2>2. LessPair(xs[i + 1], x) /\ ~LessPair(xs[i + 1], xs[i])
    BY <1>2, <1>4
  <2>3. LessPair(xs[i], x)
    BY <1>1, <2>1, <2>2, LessPairOrders
  <2> QED
    BY <1>2, <2>1, <2>3
<1>5. smaller \in SUBSET (1 .. Len(xs))
  BY <1>2
<1>6. /\ r \in Seq(IDPairs) /\ ToSet(r) = ToSet(xs) \cup {x}
      /\ r = xs \/ PutInPlace(r, xs, x, smaller)
  BY <1>3, <1>4, <1>5, InsertedIs
<1>7. CASE r = xs
  BY <1>6, <1>7
<1>8. CASE PutInPlace(r, xs, x, smaller)
  <2>1. PICK c \in 0 .. Len(xs) :
          /\ smaller = 1 .. c /\ Len(r) = Len(xs) + 1
          /\ \A n \in 1 .. Len(xs) + 1 :
               r[n] = IF n <= c THEN xs[n] ELSE IF n = c + 1 THEN x ELSE xs[n - 1]
    BY <1>8 DEF PutInPlace
  <2>2. ASSUME NEW n \in 1 .. Len(r) - 1 PROVE ~LessPair(r[n + 1], r[n])
    <3>1. n \in 1 .. Len(xs) /\ n \in 1 .. Len(xs) + 1 /\ n + 1 \in 1 .. Len(xs) + 1 /\ (n + 1) - 1 = n
      BY <1>1, <2>1
    <3>2. CASE n + 1 <= c
      <4>1. n <= c /\ n \in 1 .. Len(xs) - 1
        BY <1>1, <2>1, <3>1, <3>2
      <4>2. r[n] = xs[n] /\ r[n + 1] = xs[n + 1]
        BY <2>1, <3>1, <3>2, <4>1
      <4> QED
        BY <4>1, <4>2
    <3>3. CASE n = c
      <4>1. n <= c /\ ~(n + 1 <= c) /\ n + 1 = c + 1
        BY <3>1, <3>3
      <4>2. r[n] = xs[n] /\ r[n + 1] = x
        BY <2>1, <3>1, <4>1
      <4>3. LessPair(xs[n], x)
        BY <1>2, <2>1, <3>1, <3>3
      <4>4. ~LessPair(x, xs[n])
        BY <1>1, <3>1, <4>3, LessPairOrders
      <4> QED
        BY <4>2, <4>4
    <3>4. CASE n = c + 1
      <4>1. ~(n <= c) /\ ~(n + 1 <= c) /\ n + 1 # c + 1
        BY <2>1, <3>1, <3>4
      <4>2. r[n] = x /\ r[n + 1] = xs[n]
        BY <2>1, <3>1, <3>4, <4>1
      <4>3. n \notin smaller
        BY <2>1, <3>4
      <4>4. ~LessPair(xs[n], x)
        BY <1>2, <3>1, <4>3
      <4> QED
        BY <4>2, <4>4
    <3>5. CASE n > c + 1
      <4>1. /\ ~(n <= c) /\ ~(n + 1 <= c) /\ n # c + 1 /\ n + 1 # c + 1
            /\ n - 1 \in 1 .. Len(xs) - 1 /\ (n - 1) + 1 = n
        BY <1>1, <2>1, <3>1, <3>5
      <4>2. r[n] = xs[n - 1] /\ r[n + 1] = xs[n]
        BY <2>1, <3>1, <4>1
      <4>3. ~LessPair(xs[(n - 1) + 1], xs[n - 1])
        BY <4>1
      <4> QED
        BY <4>1, <4>2, <4>3
    <3> QED
      BY <2>1, <3>1, <3>2, <3>3, <3>4, <3>5
  <2> QED
    BY <1>6, <2>2
<1> QED
  BY <1>6, <1>7, <1>8

\* An index that gets a triple's value under the triple's key tells one triple more.
LEMMA PutNumber ==
  ASSUME NEW index, NEW triples \in SUBSET IDTriples, NEW key, NEW val,
         NumberIndex(index, triples, key, val), NEW t \in IDTriples, NEW k, k = Part(t, key),
         NEW x \in Nat, x = Part(t, val)
  PROVE  NumberIndex(PutX(index, k, x), triples \cup {t}, key, val)
<1>1. /\ Tells(index, triples, key, val) /\ Lists(index, Nat) /\ Ordered(index, Less)
  BY DEF NumberIndex
<1>2. PICK old, new : old = ListOf(index, k) /\ new = insert_x(old, x)
  OBVIOUS
<1>3. PICK I : I = PutX(index, k, x)
  OBVIOUS
<1>4. /\ DOMAIN I = DOMAIN index \cup {k} /\ I[k] = new
      /\ \A j \in DOMAIN index : j # k => I[j] = index[j]
  BY <1>2, <1>3 DEF PutX, Stored
<1>5. DOMAIN index = {Part(u, key) : u \in triples}
  BY <1>1 DEF Tells
<1>6. /\ old \in Seq(Nat) /\ ToSet(old) = ValuesOf(triples, key, val, k)
      /\ \A i \in 1 .. Len(old) - 1 : ~Less(old[i + 1], old[i])
  <2>1. CASE k \in DOMAIN index
    <3>1. old = index[k]
      BY <1>2, <2>1 DEF ListOf
    <3> QED
      BY <1>1, <2>1, <3>1 DEF Tells, Lists, Ordered
  <2>2. CASE k \notin DOMAIN index
    <3>1. old = <<>>
      BY <1>2, <2>2 DEF ListOf
    <3>2. ValuesOf(triples, key, val, k) = {} /\ ToSet(<<>>) = {}
      BY <1>5, <2>2 DEF ValuesOf, ToSet
    <3>3. <<>> \in Seq(Nat) /\ \A i \in 1 .. Len(<<>>) - 1 : FALSE
      OBVIOUS
    <3> QED
      BY <3>1, <3>2, <3>3
  <2> QED
    BY <2>1, <2>2
<1>7. /\ new \in Seq(Nat) /\ ToSet(new) = ValuesOf(triples, key, val, k) \cup {x}
      /\ \A i \in 1 .. Len(new) - 1 : ~Less(new[i + 1], new[i])
  <2>1. x \in Nat /\ new = insert_x(old, x)
    BY <1>2
  <2>2. /\ new \in Seq(Nat) /\ ToSet(new) = ToSet(old) \cup {x}
        /\ \A i \in 1 .. Len(new) - 1 : ~Less(new[i + 1], new[i])
    BY <2>1, <1>6, InsertNumber
  <2> QED
    BY <2>2, <1>6
<1>8. DOMAIN I = {Part(u, key) : u \in triples \cup {t}}
  BY <1>4, <1>5
<1>9. ValuesOf(triples \cup {t}, key, val, k) = ValuesOf(triples, key, val, k) \cup {x}
  BY DEF ValuesOf
<1>10. \A j : j # k => ValuesOf(triples \cup {t}, key, val, j) = ValuesOf(triples, key, val, j)
  BY DEF ValuesOf
<1>11. ASSUME NEW j \in DOMAIN I
       PROVE  /\ I[j] \in Seq(Nat) /\ ToSet(I[j]) = ValuesOf(triples \cup {t}, key, val, j)
              /\ \A i \in 1 .. Len(I[j]) - 1 : ~Less(I[j][i + 1], I[j][i])
  <2>1. CASE j = k
    BY <1>4, <1>7, <1>9, <2>1
  <2>2. CASE j # k
    <3>1. j \in DOMAIN index /\ I[j] = index[j]
      BY <1>4, <2>2
    <3> QED
      BY <1>1, <1>10, <2>2, <3>1 DEF Tells, Lists, Ordered
  <2> QED
    BY <2>1, <2>2
<1>12. Tells(I, triples \cup {t}, key, val)
  BY <1>8, <1>11 DEF Tells
<1>13. Lists(I, Nat) /\ Ordered(I, Less)
  BY <1>11 DEF Lists, Ordered
<1> QED
  BY <1>3, <1>12, <1>13 DEF NumberIndex

\* So does an index of pairs.
LEMMA PutPair ==
  ASSUME NEW index, NEW triples \in SUBSET IDTriples, NEW key, NEW val,
         PairIndex(index, triples, key, val), NEW t \in IDTriples, NEW k, k = Part(t, key),
         NEW x \in IDPairs, x = Part(t, val)
  PROVE  PairIndex(PutXY(index, k, x), triples \cup {t}, key, val)
<1>1. /\ Tells(index, triples, key, val) /\ Lists(index, IDPairs) /\ Ordered(index, LessPair)
  BY DEF PairIndex
<1>2. PICK old, new : old = ListOf(index, k) /\ new = insert_xy(old, x)
  OBVIOUS
<1>3. PICK I : I = PutXY(index, k, x)
  OBVIOUS
<1>4. /\ DOMAIN I = DOMAIN index \cup {k} /\ I[k] = new
      /\ \A j \in DOMAIN index : j # k => I[j] = index[j]
  BY <1>2, <1>3 DEF PutXY, Stored
<1>5. DOMAIN index = {Part(u, key) : u \in triples}
  BY <1>1 DEF Tells
<1>6. /\ old \in Seq(IDPairs) /\ ToSet(old) = ValuesOf(triples, key, val, k)
      /\ \A i \in 1 .. Len(old) - 1 : ~LessPair(old[i + 1], old[i])
  <2>1. CASE k \in DOMAIN index
    <3>1. old = index[k]
      BY <1>2, <2>1 DEF ListOf
    <3> QED
      BY <1>1, <2>1, <3>1 DEF Tells, Lists, Ordered
  <2>2. CASE k \notin DOMAIN index
    <3>1. old = <<>>
      BY <1>2, <2>2 DEF ListOf
    <3>2. ValuesOf(triples, key, val, k) = {} /\ ToSet(<<>>) = {}
      BY <1>5, <2>2 DEF ValuesOf, ToSet
    <3>3. <<>> \in Seq(IDPairs) /\ \A i \in 1 .. Len(<<>>) - 1 : FALSE
      OBVIOUS
    <3> QED
      BY <3>1, <3>2, <3>3
  <2> QED
    BY <2>1, <2>2
<1>7. /\ new \in Seq(IDPairs) /\ ToSet(new) = ValuesOf(triples, key, val, k) \cup {x}
      /\ \A i \in 1 .. Len(new) - 1 : ~LessPair(new[i + 1], new[i])
  BY <1>2, <1>6, InsertPair
<1>8. DOMAIN I = {Part(u, key) : u \in triples \cup {t}}
  BY <1>4, <1>5
<1>9. ValuesOf(triples \cup {t}, key, val, k) = ValuesOf(triples, key, val, k) \cup {x}
  BY DEF ValuesOf
<1>10. \A j : j # k => ValuesOf(triples \cup {t}, key, val, j) = ValuesOf(triples, key, val, j)
  BY DEF ValuesOf
<1>11. ASSUME NEW j \in DOMAIN I
       PROVE  /\ I[j] \in Seq(IDPairs) /\ ToSet(I[j]) = ValuesOf(triples \cup {t}, key, val, j)
              /\ \A i \in 1 .. Len(I[j]) - 1 : ~LessPair(I[j][i + 1], I[j][i])
  <2>1. CASE j = k
    BY <1>4, <1>7, <1>9, <2>1
  <2>2. CASE j # k
    <3>1. j \in DOMAIN index /\ I[j] = index[j]
      BY <1>4, <2>2
    <3> QED
      BY <1>1, <1>10, <2>2, <3>1 DEF Tells, Lists, Ordered
  <2> QED
    BY <2>1, <2>2
<1>12. Tells(I, triples \cup {t}, key, val)
  BY <1>8, <1>11 DEF Tells
<1>13. Lists(I, IDPairs) /\ Ordered(I, LessPair)
  BY <1>11 DEF Lists, Ordered
<1> QED
  BY <1>3, <1>12, <1>13 DEF PairIndex
-----------------------------------------------------------------------------
(* A store                                                                 *)

Fields == {"entity2id", "id2entity", "predicate2id", "id2predicate", "literal2id", "id2literal",
           "sp2o", "op2s", "s2o", "o2s", "s2po", "o2ps", "info"}

\* The names of a store, by ID.
NamesOf(D) == [entity |-> D.id2entity, predicate |-> D.id2predicate, literal |-> D.id2literal]
NamesAgree(D) == /\ D.entity2id = D.id2entity /\ D.predicate2id = D.id2predicate
                 /\ D.literal2id = D.id2literal
                 /\ Tables(NamesOf(D)) /\ Len(D.id2entity) <= LITERAL_FIRST_ID

\* D is a store of the triples T of IDs.
StoreOf(D, T) ==
  /\ Fields \subseteq DOMAIN D /\ NamesAgree(D) /\ T \in SUBSET IDsOf(NamesOf(D))
  /\ NumberIndex(D.sp2o, T, <<1, 2>>, <<3>>) /\ NumberIndex(D.op2s, T, <<3, 2>>, <<1>>)
  /\ NumberIndex(D.s2o, T, <<1>>, <<3>>) /\ NumberIndex(D.o2s, T, <<3>>, <<1>>)
  /\ PairIndex(D.s2po, T, <<1>>, <<2, 3>>) /\ PairIndex(D.o2ps, T, <<3>>, <<2, 1>>)

\* The names of a triple of IDs, by the tables.
LEMMA NamesAre ==
  ASSUME NEW D
  PROVE  /\ NamesOf(D).entity = D.id2entity /\ NamesOf(D).predicate = D.id2predicate
         /\ NamesOf(D).literal = D.id2literal
         /\ \A t : NameOf(D, t) = Spelled(NamesOf(D), t)
BY DEF NamesOf, NameOf, Spelled

\* What a triple of IDs is: its object is an entity's ID or a literal's.
LEMMA IDsOfAre ==
  ASSUME NEW d, Tables(d), NEW t \in IDsOf(d)
  PROVE  /\ t \in IDTriples /\ t = <<t[1], t[2], t[3]>>
         /\ t[1] \in 0 .. Len(d.entity) - 1 /\ t[2] \in 0 .. Len(d.predicate) - 1
         /\ \/ t[3] \in 0 .. Len(d.entity) - 1
            \/ t[3] \in LITERAL_FIRST_ID .. LITERAL_FIRST_ID + Len(d.literal) - 1
<1>1. /\ t = <<t[1], t[2], t[3]>>
      /\ t[1] \in 0 .. Len(d.entity) - 1 /\ t[2] \in 0 .. Len(d.predicate) - 1
      /\ t[3] \in ObjectIDs(d)
  BY DEF IDsOf
<1>2. /\ Len(d.entity) \in Nat /\ Len(d.predicate) \in Nat /\ Len(d.literal) \in Nat
      /\ LITERAL_FIRST_ID \in Nat
  BY TableFacts, TripleListsAssumption DEF Tables
<1>3. \/ t[3] \in 0 .. Len(d.entity) - 1
      \/ t[3] \in LITERAL_FIRST_ID .. LITERAL_FIRST_ID + Len(d.literal) - 1
  BY <1>1 DEF ObjectIDs
<1>4. t[1] \in Nat /\ t[2] \in Nat /\ t[3] \in Nat
  BY <1>1, <1>2, <1>3
<1>5. t \in IDTriples
  BY <1>1, <1>4 DEF IDTriples
<1> QED
  BY <1>1, <1>3, <1>5

\* The map from subject and predicate tells the triples.
LEMMA ListedIs ==
  ASSUME NEW D, NEW T, StoreOf(D, T)
  PROVE  Listed(D) = T
<1>1. /\ DOMAIN D.sp2o = {Part(t, <<1, 2>>) : t \in T}
      /\ \A k \in DOMAIN D.sp2o : ToSet(D.sp2o[k]) = ValuesOf(T, <<1, 2>>, <<3>>, k)
  BY DEF StoreOf, NumberIndex, Tells
<1>2. ASSUME NEW t \in T
      PROVE  t = <<t[1], t[2], t[3]>> /\ Part(t, <<1, 2>>) = <<t[1], t[2]>> /\ Part(t, <<3>>) = t[3]
  <2>1. Tables(NamesOf(D)) /\ t \in IDsOf(NamesOf(D))
    BY DEF StoreOf, NamesAgree
  <2>2. t = <<t[1], t[2], t[3]>>
    BY <2>1, IDsOfAre
  <2>3. Part(t, <<1, 2>>) = <<t[1], t[2]>>
    BY PartTwo
  <2>4. Part(t, <<3>>) = t[3]
    BY PartOne
  <2> QED
    BY <2>2, <2>3, <2>4
<1>3. ASSUME NEW x \in Listed(D) PROVE x \in T
  <2>1. PICK sp \in DOMAIN D.sp2o : \E o \in ToSet(D.sp2o[sp]) : x = <<sp[1], sp[2], o>>
    BY DEF Listed
  <2>2. PICK o \in ToSet(D.sp2o[sp]) : x = <<sp[1], sp[2], o>>
    BY <2>1
  <2>3. o \in ValuesOf(T, <<1, 2>>, <<3>>, sp)
    BY <1>1, <2>2
  <2>4. PICK t \in T : Part(t, <<1, 2>>) = sp /\ o = Part(t, <<3>>)
    BY <2>3 DEF ValuesOf
  <2>5. sp = <<t[1], t[2]>> /\ o = t[3] /\ t = <<t[1], t[2], t[3]>>
    BY <1>2, <2>4
  <2> QED
    BY <2>2, <2>5
<1>4. ASSUME NEW t \in T PROVE t \in Listed(D)
  <2>1. PICK sp : sp = Part(t, <<1, 2>>)
    OBVIOUS
  <2>2. sp = <<t[1], t[2]>> /\ sp \in DOMAIN D.sp2o
    BY <1>1, <1>2, <2>1
  <2>3. t[3] \in ValuesOf(T, <<1, 2>>, <<3>>, sp)
    BY <1>2, <2>1 DEF ValuesOf
  <2>4. t[3] \in ToSet(D.sp2o[sp]) /\ t = <<sp[1], sp[2], t[3]>>
    BY <1>1, <1>2, <2>2, <2>3
  <2> QED
    BY <2>2, <2>4 DEF Listed
<1> QED
  BY <1>3, <1>4

\* A store whose six maps each tell the same triples agrees.
LEMMA StoreAgrees ==
  ASSUME NEW D, NEW T, StoreOf(D, T)
  PROVE  Agrees(D)
<1>1. Listed(D) = T
  BY ListedIs
<1>2. \A d \in {D.id2entity, D.id2predicate, D.id2literal} : IsInjective(d)
  <2>1. Tables(NamesOf(D))
    BY DEF StoreOf, NamesAgree
  <2>2. Table(D.id2entity) /\ Table(D.id2predicate) /\ Table(D.id2literal)
    BY <2>1, NamesAre DEF Tables
  <2> QED
    BY <2>2 DEF Table
<1>3. ASSUME NEW t \in T
      PROVE  t[3] >= LITERAL_FIRST_ID <=> NameOf(D, t)[3] \in Literals
  <2>1. PICK d : d = NamesOf(D)
    OBVIOUS
  <2>2. Tables(d) /\ t \in IDsOf(d) /\ Len(d.entity) <= LITERAL_FIRST_ID
    BY <2>1, NamesAre DEF StoreOf, NamesAgree
  <2>3. PICK c : c = t[3]
    OBVIOUS
  <2>4. NameOf(D, t)[3] = IF c < LITERAL_FIRST_ID THEN d.entity[c + 1]
                          ELSE d.literal[c - LITERAL_FIRST_ID + 1]
    <3>1. NameOf(D, t) = Spelled(d, t)
      BY <2>1, NamesAre
    <3>2. Spelled(d, t)[3] = IF c < LITERAL_FIRST_ID THEN d.entity[c + 1]
                             ELSE d.literal[c - LITERAL_FIRST_ID + 1]
      BY <2>3 DEF Spelled
    <3> QED
      BY <3>1, <3>2
  <2>5. Table(d.entity) /\ Table(d.literal)
    BY <2>2 DEF Tables
  <2>6. PICK m, n : m = Len(d.entity) /\ n = Len(d.literal)
    OBVIOUS
  <2>7. m \in Nat /\ n \in Nat /\ LITERAL_FIRST_ID \in Nat /\ m <= LITERAL_FIRST_ID
    BY <2>2, <2>5, <2>6, TableFacts, TripleListsAssumption
  <2>8. c \in 0 .. m - 1 \/ c \in LITERAL_FIRST_ID .. LITERAL_FIRST_ID + n - 1
    BY <2>2, <2>3, <2>6, IDsOfAre
  <2>9. CASE c \in 0 .. m - 1
    <3>1. c < LITERAL_FIRST_ID /\ ~(c >= LITERAL_FIRST_ID) /\ c + 1 \in 1 .. m
      BY <2>7, <2>9
    <3>2. d.entity[c + 1] \in ToSet(d.entity)
      BY <2>5, <2>6, <3>1, TableFacts
    <3>3. d.entity[c + 1] \notin Literals
      BY <2>2, <3>2 DEF Tables
    <3> QED
      BY <2>3, <2>4, <3>1, <3>3
  <2>10. CASE c \in LITERAL_FIRST_ID .. LITERAL_FIRST_ID + n - 1
    <3>1. c >= LITERAL_FIRST_ID /\ ~(c < LITERAL_FIRST_ID) /\ c - LITERAL_FIRST_ID + 1 \in 1 .. n
      BY <2>7, <2>10
    <3>2. d.literal[c - LITERAL_FIRST_ID + 1] \in ToSet(d.literal)
      BY <2>5, <2>6, <3>1, TableFacts
    <3>3. d.literal[c - LITERAL_FIRST_ID + 1] \in Literals
      BY <2>2, <3>2 DEF Tables
    <3> QED
      BY <2>3, <2>4, <3>1, <3>3
  <2> QED
    BY <2>8, <2>9, <2>10
<1>4. /\ Tells(D.op2s, T, <<3, 2>>, <<1>>) /\ Tells(D.s2o, T, <<1>>, <<3>>)
      /\ Tells(D.o2s, T, <<3>>, <<1>>) /\ Tells(D.s2po, T, <<1>>, <<2, 3>>)
      /\ Tells(D.o2ps, T, <<3>>, <<2, 1>>)
  BY DEF StoreOf, NumberIndex, PairIndex
<1>5. /\ Ordered(D.sp2o, Less) /\ Ordered(D.op2s, Less) /\ Ordered(D.s2o, Less)
      /\ Ordered(D.o2s, Less) /\ Ordered(D.s2po, LessPair) /\ Ordered(D.o2ps, LessPair)
  BY DEF StoreOf, NumberIndex, PairIndex
<1> QED
  BY <1>1, <1>2, <1>3, <1>4, <1>5 DEF Agrees

\* encodeRDF_new: every triple gets IDs of the tables, and the six maps tell them.
LEMMA TuplesAre ==
  ASSUME NEW rdf \in Seq(Statements), 2 * Len(rdf) <= LITERAL_FIRST_ID,
         NEW d, d = Dictionaries(rdf),
         NEW tuples, tuples = [i \in DOMAIN rdf |-> IDs(d, rdf[i])]
  PROVE  /\ Tables(d) /\ tuples \in Seq(IDTriples)
         /\ StoreOf(Image(rdf), ToSet(tuples))
         /\ {NameOf(Image(rdf), t) : t \in ToSet(tuples)} = ToSet(rdf)
<1>1. Len(rdf) \in Nat /\ DOMAIN rdf = 1 .. Len(rdf) /\ \A i \in 1 .. Len(rdf) : rdf[i] \in Statements
  BY LenProperties, ElementOfSeq
<1>2. Tables(d) /\ Len(d.entity) <= 2 * Len(rdf) /\ \A i \in 1 .. Len(rdf) : Knows(d, rdf[i])
  BY DictionariesAre DEF Numbered
<1>3. Len(d.entity) <= LITERAL_FIRST_ID
  <2>1. Len(d.entity) \in Nat /\ LITERAL_FIRST_ID \in Nat
    BY <1>2, TableFacts, TripleListsAssumption DEF Tables
  <2> QED
    BY <1>1, <1>2, <2>1
<1>4. \A i \in 1 .. Len(rdf) : /\ tuples[i] \in IDsOf(d) /\ Spelled(d, tuples[i]) = rdf[i]
                               /\ tuples[i] \in IDTriples
  BY <1>1, <1>2, <1>3, IDsAre, IDsOfAre
<1>5. tuples \in Seq(IDTriples) /\ DOMAIN tuples = 1 .. Len(rdf)
  <2>1. tuples \in [1 .. Len(rdf) -> IDTriples]
    BY <1>1, <1>4
  <2> QED
    BY <1>1, <2>1, SeqDef
<1>6. PICK T : T = ToSet(tuples)
  OBVIOUS
<1>7. T = {tuples[i] : i \in 1 .. Len(rdf)} /\ ToSet(rdf) = {rdf[i] : i \in 1 .. Len(rdf)}
  BY <1>1, <1>5, <1>6 DEF ToSet
<1>8. PICK D : D = Image(rdf)
  OBVIOUS
<1>9. /\ Fields \subseteq DOMAIN D
       /\ D.entity2id = d.entity /\ D.id2entity = d.entity
       /\ D.literal2id = d.literal /\ D.id2literal = d.literal
       /\ D.predicate2id = d.predicate /\ D.id2predicate = d.predicate
       /\ D.o2s = ObjIndexes(tuples).o2s /\ D.s2o = SubIndexes(tuples).s2o
       /\ D.op2s = ObjIndexes(tuples).op2s /\ D.sp2o = SubIndexes(tuples).sp2o
       /\ D.s2po = SubIndexes(tuples).s2po /\ D.o2ps = ObjIndexes(tuples).o2ps
  BY <1>8 DEF Image, Fields
<1>10. NamesOf(D) = d
  BY <1>2, <1>9 DEF NamesOf, Tables
<1>11. NamesAgree(D)
  BY <1>2, <1>3, <1>9, <1>10 DEF NamesAgree
<1>12. StoreOf(D, T)
  <2>1. T \in SUBSET IDsOf(NamesOf(D))
    BY <1>4, <1>7, <1>10
  <2> QED
    BY <2>1, <1>5, <1>6, <1>9, <1>11, SixIndexes DEF StoreOf
<1>13. {NameOf(D, t) : t \in T} = ToSet(rdf)
  <2>1. \A t : NameOf(D, t) = Spelled(d, t)
    BY <1>10, NamesAre
  <2>2. \A i \in 1 .. Len(rdf) : NameOf(D, tuples[i]) = rdf[i]
    BY <1>4, <2>1
  <2> QED
    BY ONLY <1>7, <2>2
<1> QED
  BY <1>2, <1>5, <1>6, <1>8, <1>12, <1>13

\* Database::build: the files hold the data.
LEMMA ImageIs ==
  ASSUME NEW rdf \in Seq(Statements), 2 * Len(rdf) <= LITERAL_FIRST_ID
  PROVE  \E T : /\ StoreOf(Image(rdf), T)
                /\ {NameOf(Image(rdf), t) : t \in T} = ToSet(rdf)
<1>1. PICK d : d = Dictionaries(rdf)
  OBVIOUS
<1>2. PICK tuples : tuples = [i \in DOMAIN rdf |-> IDs(d, rdf[i])]
  OBVIOUS
<1> QED
  BY <1>1, <1>2, TuplesAre
-----------------------------------------------------------------------------
(* Insertion                                                               *)

\* Every one of the six maps gets the triple, and nothing else changes.
LEMMA UpdateIs ==
  ASSUME NEW D, Fields \subseteq DOMAIN D, NEW s, NEW p, NEW o,
         NEW U, U = updateTupleslist_insert(D, s, p, o)
  PROVE  /\ DOMAIN U = DOMAIN D
         /\ U.sp2o = PutX(D.sp2o, <<s, p>>, o) /\ U.op2s = PutX(D.op2s, <<o, p>>, s)
         /\ U.s2o = PutX(D.s2o, s, o) /\ U.o2s = PutX(D.o2s, o, s)
         /\ U.s2po = PutXY(D.s2po, s, <<p, o>>) /\ U.o2ps = PutXY(D.o2ps, o, <<p, s>>)
         /\ U.entity2id = D.entity2id /\ U.id2entity = D.id2entity
         /\ U.predicate2id = D.predicate2id /\ U.id2predicate = D.id2predicate
         /\ U.literal2id = D.literal2id /\ U.id2literal = D.id2literal
<1>1. \A f \in Fields : f \in DOMAIN D
  OBVIOUS
<1> QED
  BY <1>1 DEF updateTupleslist_insert, Fields

\* Named sets the six tables, and none of the maps.
LEMMA NamedIs ==
  ASSUME Fields \subseteq DOMAIN db, NEW d, NEW U, U = Named(d)
  PROVE  /\ DOMAIN U = DOMAIN db
         /\ U.sp2o = db.sp2o /\ U.op2s = db.op2s /\ U.s2o = db.s2o /\ U.o2s = db.o2s
         /\ U.s2po = db.s2po /\ U.o2ps = db.o2ps
         /\ U.entity2id = d.entity /\ U.id2entity = d.entity
         /\ U.predicate2id = d.predicate /\ U.id2predicate = d.predicate
         /\ U.literal2id = d.literal /\ U.id2literal = d.literal
<1>1. \A f \in Fields : f \in DOMAIN db
  OBVIOUS
<1> QED
  BY <1>1 DEF Named, Fields

\* What a store says stays so when the tables grow.
LEMMA StaysSpelled ==
  ASSUME NEW d, NEW e, Tables(d), Tables(e), Grows(d, e), d.entity = e.entity,
         Len(d.entity) <= LITERAL_FIRST_ID, NEW u \in IDsOf(d)
  PROVE  u \in IDsOf(e) /\ Spelled(e, u) = Spelled(d, u)
<1>1. /\ u \in IDTriples /\ u = <<u[1], u[2], u[3]>>
      /\ u[1] \in 0 .. Len(d.entity) - 1 /\ u[2] \in 0 .. Len(d.predicate) - 1
      /\ \/ u[3] \in 0 .. Len(d.entity) - 1
         \/ u[3] \in LITERAL_FIRST_ID .. LITERAL_FIRST_ID + Len(d.literal) - 1
  BY IDsOfAre
<1>2. PICK m, n, nn, l, ll : /\ m = Len(d.entity) /\ n = Len(d.predicate) /\ nn = Len(e.predicate)
                             /\ l = Len(d.literal) /\ ll = Len(e.literal)
  OBVIOUS
<1>3. /\ m \in Nat /\ n \in Nat /\ nn \in Nat /\ l \in Nat /\ ll \in Nat
      /\ LITERAL_FIRST_ID \in Nat /\ m <= LITERAL_FIRST_ID
  BY <1>2, TableFacts, TripleListsAssumption DEF Tables
<1>4. /\ n <= nn /\ \A i \in 1 .. n : e.predicate[i] = d.predicate[i]
      /\ l <= ll /\ \A i \in 1 .. l : e.literal[i] = d.literal[i]
  BY <1>2 DEF Grows, Continues
<1>5. PICK p, o : p = u[2] /\ o = u[3]
  OBVIOUS
<1>6. p \in 0 .. n - 1 /\ p \in 0 .. nn - 1 /\ p + 1 \in 1 .. n
  <2>1. n \in Nat /\ nn \in Nat /\ n <= nn /\ p \in 0 .. n - 1
    BY <1>1, <1>2, <1>3, <1>4, <1>5
  <2> QED
    BY ONLY <2>1
<1>7. e.predicate[p + 1] = d.predicate[p + 1]
  BY <1>4, <1>6
<1>8. o \in 0 .. m - 1 \/ o \in LITERAL_FIRST_ID .. LITERAL_FIRST_ID + l - 1
  BY <1>1, <1>2, <1>5
<1>9. o \in 0 .. m - 1 \/ o \in LITERAL_FIRST_ID .. LITERAL_FIRST_ID + ll - 1
  BY <1>3, <1>4, <1>8
<1>10. ~(o < LITERAL_FIRST_ID) => e.literal[o - LITERAL_FIRST_ID + 1] = d.literal[o - LITERAL_FIRST_ID + 1]
  <2>1. ~(o < LITERAL_FIRST_ID) => o - LITERAL_FIRST_ID + 1 \in 1 .. l
    BY <1>3, <1>8
  <2> QED
    BY <1>4, <2>1
<1>11. u[3] \in ObjectIDs(e)
  BY <1>2, <1>5, <1>9 DEF ObjectIDs
<1>12. u \in IDsOf(e)
  BY <1>1, <1>2, <1>5, <1>6, <1>11 DEF IDsOf
<1>13. Spelled(e, u) = Spelled(d, u)
  BY <1>5, <1>7, <1>10 DEF Spelled
<1> QED
  BY <1>12, <1>13

\* Database::insertTriple of a triple whose names are known or new, but for a new
\* entity: the store is then of one more triple.
LEMMA InsertionIs ==
  ASSUME NEW T, StoreOf(db, T), NEW t \in Statements,
         NEW d, d = AddNames(names, t), d.entity = names.entity,
         NEW ids, ids = IDs(d, t),
         NEW U, U = updateTupleslist_insert(Named(d), ids[1], ids[2], ids[3])
  PROVE  /\ StoreOf(U, T \cup {ids})
         /\ \A u \in T : NameOf(U, u) = NameOf(db, u)
         /\ NameOf(U, ids) = t
<1>1. PICK b : b = NamesOf(db)
  OBVIOUS
<1>2. /\ Fields \subseteq DOMAIN db /\ NamesAgree(db) /\ T \in SUBSET IDsOf(b)
      /\ NumberIndex(db.sp2o, T, <<1, 2>>, <<3>>) /\ NumberIndex(db.op2s, T, <<3, 2>>, <<1>>)
      /\ NumberIndex(db.s2o, T, <<1>>, <<3>>) /\ NumberIndex(db.o2s, T, <<3>>, <<1>>)
      /\ PairIndex(db.s2po, T, <<1>>, <<2, 3>>) /\ PairIndex(db.o2ps, T, <<3>>, <<2, 1>>)
  BY <1>1 DEF StoreOf
<1>3. names = b
  BY <1>1, <1>2 DEF names, NamesOf, NamesAgree
<1>4. Tables(b) /\ Len(b.entity) <= LITERAL_FIRST_ID
  BY <1>1, <1>2, NamesAre DEF NamesAgree
<1>5. Tables(d) /\ Grows(b, d) /\ Knows(d, t) /\ d.entity = b.entity
  BY <1>3, <1>4, AddNamesKeeps
<1>6. Len(d.entity) <= LITERAL_FIRST_ID
  BY <1>4, <1>5
<1>7. ids \in IDsOf(d) /\ Spelled(d, ids) = t
  BY <1>5, <1>6, IDsAre
<1>8. ids \in IDTriples
  BY <1>5, <1>7, IDsOfAre
<1>9. \A u \in T : u \in IDsOf(d) /\ Spelled(d, u) = Spelled(b, u)
  BY <1>2, <1>4, <1>5, StaysSpelled
<1>10. PICK M : M = Named(d)
  OBVIOUS
<1>11. /\ DOMAIN M = DOMAIN db
       /\ M.sp2o = db.sp2o /\ M.op2s = db.op2s /\ M.s2o = db.s2o /\ M.o2s = db.o2s
       /\ M.s2po = db.s2po /\ M.o2ps = db.o2ps
       /\ M.entity2id = d.entity /\ M.id2entity = d.entity
       /\ M.predicate2id = d.predicate /\ M.id2predicate = d.predicate
       /\ M.literal2id = d.literal /\ M.id2literal = d.literal
  BY <1>2, <1>10, NamedIs
<1>12. PICK s, p, o : s = ids[1] /\ p = ids[2] /\ o = ids[3]
  OBVIOUS
<1>13. U = updateTupleslist_insert(M, s, p, o) /\ Fields \subseteq DOMAIN M
  BY <1>2, <1>10, <1>11, <1>12
<1>14. /\ DOMAIN U = DOMAIN M
       /\ U.sp2o = PutX(M.sp2o, <<s, p>>, o) /\ U.op2s = PutX(M.op2s, <<o, p>>, s)
       /\ U.s2o = PutX(M.s2o, s, o) /\ U.o2s = PutX(M.o2s, o, s)
       /\ U.s2po = PutXY(M.s2po, s, <<p, o>>) /\ U.o2ps = PutXY(M.o2ps, o, <<p, s>>)
       /\ U.entity2id = M.entity2id /\ U.id2entity = M.id2entity
       /\ U.predicate2id = M.predicate2id /\ U.id2predicate = M.id2predicate
       /\ U.literal2id = M.literal2id /\ U.id2literal = M.id2literal
  BY <1>13, UpdateIs
<1>15. NamesOf(U) = d
  BY <1>5, <1>11, <1>14 DEF NamesOf, Tables
<1>16. NamesAgree(U)
  BY <1>5, <1>6, <1>11, <1>14, <1>15 DEF NamesAgree
<1>17. T \cup {ids} \in SUBSET IDsOf(NamesOf(U))
  BY <1>7, <1>9, <1>15
<1>18. T \in SUBSET IDTriples
  BY <1>5, <1>9, IDsOfAre
<1>19. s \in Nat /\ p \in Nat /\ o \in Nat /\ <<p, o>> \in IDPairs /\ <<p, s>> \in IDPairs
  BY <1>8, <1>12 DEF IDTriples, IDPairs
<1>20. /\ Part(ids, <<1>>) = s /\ Part(ids, <<3>>) = o
  BY <1>12, PartOne
<1>21. /\ Part(ids, <<1, 2>>) = <<s, p>> /\ Part(ids, <<3, 2>>) = <<o, p>>
       /\ Part(ids, <<2, 3>>) = <<p, o>> /\ Part(ids, <<2, 1>>) = <<p, s>>
  BY <1>12, PartTwo
<1>22. NumberIndex(U.sp2o, T \cup {ids}, <<1, 2>>, <<3>>)
  <2>1. U.sp2o = PutX(db.sp2o, <<s, p>>, o) /\ NumberIndex(db.sp2o, T, <<1, 2>>, <<3>>)
    BY <1>2, <1>11, <1>14
  <2> QED
    BY <2>1, <1>8, <1>18, <1>19, <1>20, <1>21, PutNumber
<1>23. NumberIndex(U.op2s, T \cup {ids}, <<3, 2>>, <<1>>)
  <2>1. U.op2s = PutX(db.op2s, <<o, p>>, s) /\ NumberIndex(db.op2s, T, <<3, 2>>, <<1>>)
    BY <1>2, <1>11, <1>14
  <2> QED
    BY <2>1, <1>8, <1>18, <1>19, <1>20, <1>21, PutNumber
<1>24. NumberIndex(U.s2o, T \cup {ids}, <<1>>, <<3>>)
  <2>1. U.s2o = PutX(db.s2o, s, o) /\ NumberIndex(db.s2o, T, <<1>>, <<3>>)
    BY <1>2, <1>11, <1>14
  <2> QED
    BY <2>1, <1>8, <1>18, <1>19, <1>20, PutNumber
<1>25. NumberIndex(U.o2s, T \cup {ids}, <<3>>, <<1>>)
  <2>1. U.o2s = PutX(db.o2s, o, s) /\ NumberIndex(db.o2s, T, <<3>>, <<1>>)
    BY <1>2, <1>11, <1>14
  <2> QED
    BY <2>1, <1>8, <1>18, <1>19, <1>20, PutNumber
<1>26. PairIndex(U.s2po, T \cup {ids}, <<1>>, <<2, 3>>)
  <2>1. U.s2po = PutXY(db.s2po, s, <<p, o>>) /\ PairIndex(db.s2po, T, <<1>>, <<2, 3>>)
    BY <1>2, <1>11, <1>14
  <2> QED
    BY <2>1, <1>8, <1>18, <1>19, <1>20, <1>21, PutPair
<1>27. PairIndex(U.o2ps, T \cup {ids}, <<3>>, <<2, 1>>)
  <2>1. U.o2ps = PutXY(db.o2ps, o, <<p, s>>) /\ PairIndex(db.o2ps, T, <<3>>, <<2, 1>>)
    BY <1>2, <1>11, <1>14
  <2> QED
    BY <2>1, <1>8, <1>18, <1>19, <1>20, <1>21, PutPair
<1>28. StoreOf(U, T \cup {ids})
  <2>1. Fields \subseteq DOMAIN U
    BY <1>13, <1>14
  <2> QED
    BY <2>1, <1>16, <1>17, <1>22, <1>23, <1>24, <1>25, <1>26, <1>27 DEF StoreOf
<1>29. \A u : NameOf(U, u) = Spelled(d, u)
  BY <1>15, NamesAre
<1>30. \A u : NameOf(db, u) = Spelled(b, u)
  BY <1>1, NamesAre
<1> QED
  BY <1>7, <1>9, <1>28, <1>29, <1>30
-----------------------------------------------------------------------------
(* The lists of the predicates                                             *)

\* In triples sorted by predicate and then by the position pos, what lies between
\* two places with the same predicate and value has it too.
LEMMA BetweenSame ==
  ASSUME NEW s, NEW tuples, NEW pos, NEW k, Positions(2, pos, k), SortedAs(s, tuples, 2, pos, k),
         NEW i \in 1 .. Len(s), NEW m \in 1 .. Len(s), NEW j \in 1 .. Len(s),
         i <= m, m <= j, s[i][2] = s[j][2], s[i][pos] = s[j][pos]
  PROVE  s[m][2] = s[j][2] /\ s[m][pos] = s[j][pos]
<1>1. s \in Seq(IDTriples) /\ Len(s) \in Nat
  BY LenProperties DEF SortedAs
<1>2. s[i] \in IDTriples /\ s[m] \in IDTriples /\ s[j] \in IDTriples
  BY <1>1, ElementOfSeq
<1>3. s[i] = s[m] \/ Before(s[i], s[m], 2, pos, k)
  <2>1. i = m \/ i < m
    BY <1>1
  <2> QED
    BY <2>1 DEF SortedAs
<1>4. s[m] = s[j] \/ Before(s[m], s[j], 2, pos, k)
  <2>1. m = j \/ m < j
    BY <1>1
  <2> QED
    BY <2>1 DEF SortedAs
<1>5. PICK a, b, c, d, e, f : /\ a = s[i][2] /\ b = s[m][2] /\ c = s[j][2]
                              /\ d = s[i][pos] /\ e = s[m][pos] /\ f = s[j][pos]
  OBVIOUS
<1>6. a \in Nat /\ b \in Nat /\ c \in Nat /\ d \in Nat /\ e \in Nat /\ f \in Nat
  BY <1>2, <1>5, TripleParts
<1>7. a < b \/ (a = b /\ d <= e)
  BY <1>3, <1>5, <1>6 DEF Before
<1>8. b < c \/ (b = c /\ e <= f)
  BY <1>4, <1>5, <1>6 DEF Before
<1>9. a = c /\ d = f
  BY <1>5
<1>10. b = c /\ e = f
  BY ONLY <1>6, <1>7, <1>8, <1>9
<1> QED
  BY <1>5, <1>10

\* p2s_p2o: the list of a predicate is that of its subjects or objects.
LEMMA PreListIs ==
  ASSUME NEW s, NEW tuples, NEW pos, NEW k, Positions(2, pos, k), SortedAs(s, tuples, 2, pos, k),
         NEW p
  PROVE  /\ PreList(s, p, pos) \in Seq(Nat)
         /\ Enumerates(PreList(s, p, pos), ValuesWith(ToSet(tuples), p, pos))
<1>1. s \in Seq(IDTriples) /\ Len(s) \in Nat /\ DOMAIN s = 1 .. Len(s) /\ ToSet(s) = ToSet(tuples)
  BY LenProperties DEF SortedAs
<1>2. \A i \in 1 .. Len(s) : s[i] \in IDTriples /\ s[i][2] \in Nat /\ s[i][pos] \in Nat
  BY <1>1, ElementOfSeq, TripleParts
<1>3. PICK K : K = Kept(s, p, pos)
  OBVIOUS
<1>4. \A i : i \in K <=> /\ i \in 1 .. Len(s) /\ s[i][2] = p
                         /\ i = 1 \/ s[i - 1][2] # p \/ s[i - 1][pos] # s[i][pos]
  BY <1>1, <1>3 DEF Kept
<1>5. PICK xs : xs = [i \in K |-> s[i][pos]]
  OBVIOUS
<1>6. K \in SUBSET Nat /\ IsFiniteSet(K) /\ xs \in [K -> Nat]
  <2>1. K \in SUBSET (1 .. Len(s))
    BY <1>4
  <2>2. IsFiniteSet(1 .. Len(s))
    BY <1>1, IntervalSize
  <2>3. IsFiniteSet(K)
    BY <2>1, <2>2, FS_Subset
  <2>4. xs \in [K -> Nat]
    BY <1>2, <1>5, <2>1
  <2> QED
    BY <2>1, <2>3, <2>4
<1>7. ASSUME NEW m \in K, NEW n \in K, xs[m] = xs[n], m < n PROVE FALSE
  <2>1. /\ m \in 1 .. Len(s) /\ n \in 1 .. Len(s) /\ s[m][2] = p /\ s[n][2] = p
        /\ s[m][pos] = s[n][pos]
    BY <1>4, <1>5, <1>7
  <2>2. n - 1 \in 1 .. Len(s) /\ m <= n - 1 /\ n - 1 <= n /\ n # 1
    BY <1>1, <1>7, <2>1
  <2>3. s[n - 1][2] = s[n][2] /\ s[n - 1][pos] = s[n][pos]
    BY <2>1, <2>2, BetweenSame
  <2> QED
    BY <1>4, <2>1, <2>2, <2>3
<1>8. \A m, n \in K : xs[m] = xs[n] => m = n
  <2>1. \A m, n \in K : m \in Nat /\ n \in Nat
    BY <1>6
  <2>2. \A m, n \in K : m < n \/ n < m \/ m = n
    BY <2>1
  <2> QED
    BY <1>7, <2>2
<1>9. PICK list : list = PreList(s, p, pos)
  OBVIOUS
<1>10. list = SortedIDs(xs)
  BY <1>3, <1>5, <1>9 DEF PreList
<1>11. PICK L : L = Cardinality(K)
  OBVIOUS
<1>12. /\ SameElements(list, xs, Nat, L)
       /\ \A q, r \in 1 .. L : q < r => list[q] < list[r]
  BY <1>6, <1>8, <1>10, <1>11, SortedIDsSorts
<1>13. list \in Seq(Nat) /\ Len(list) = L /\ ToSet(list) = {xs[n] : n \in K}
  BY <1>6, <1>12 DEF SameElements
<1>14. \A i \in 1 .. Len(list) - 1 : Less(list[i], list[i + 1])
  <2>1. L \in Nat
    BY <1>13, LenProperties
  <2>2. \A i \in 1 .. L - 1 : i \in 1 .. L /\ i + 1 \in 1 .. L /\ i < i + 1
    BY <2>1
  <2> QED
    BY <1>12, <1>13, <2>2 DEF Less
<1>15. ASSUME NEW v \in ToSet(list) PROVE v \in ValuesWith(ToSet(tuples), p, pos)
  <2>1. PICK n \in K : v = xs[n]
    BY <1>13
  <2>2. n \in 1 .. Len(s) /\ s[n][2] = p /\ v = s[n][pos]
    BY <1>4, <1>5, <2>1
  <2>3. s[n] \in ToSet(tuples)
    BY <1>1, <2>2 DEF ToSet
  <2> QED
    BY <2>2, <2>3 DEF ValuesWith
<1>16. ASSUME NEW v \in ValuesWith(ToSet(tuples), p, pos) PROVE v \in ToSet(list)
  <2>1. PICK t \in ToSet(tuples) : t[2] = p /\ v = t[pos]
    BY DEF ValuesWith
  <2>2. PICK n \in 1 .. Len(s) : s[n] = t
    BY <1>1, <2>1 DEF ToSet
  <2> DEFINE Places == {i \in 1 .. Len(s) : s[i][2] = p /\ s[i][pos] = v}
  <2>3. n \in Places
    BY <2>1, <2>2
  <2>4. PICK m \in Places : \A y \in Places : m <= y
    <3>1. Places \subseteq Nat
      OBVIOUS
    <3> HIDE DEF Places
    <3> QED
      BY <2>3, <3>1, LeastNatural
  <2>5. m \in 1 .. Len(s) /\ s[m][2] = p /\ s[m][pos] = v
    OBVIOUS
  <2>6. m # 1 => m - 1 \notin Places /\ m - 1 \in 1 .. Len(s)
    <3>1. m # 1 => ~(m <= m - 1) /\ m - 1 \in 1 .. Len(s)
      BY <1>1, <2>5
    <3> QED
      BY <2>4, <3>1
  <2>7. m # 1 => s[m - 1][2] # p \/ s[m - 1][pos] # s[m][pos]
    BY <2>5, <2>6
  <2>8. m \in K /\ xs[m] = v
    BY <1>4, <1>5, <2>5, <2>7
  <2> QED
    BY <1>13, <2>8
<1>17. ToSet(list) = ValuesWith(ToSet(tuples), p, pos)
  BY <1>15, <1>16
<1> QED
  BY <1>9, <1>13, <1>14, <1>17 DEF Enumerates
-----------------------------------------------------------------------------
(* One list behind the other                                               *)

\* g has the first lists, up to m of them, joined.
Joins(g, lists, m) == g = [n \in 0 .. m |-> IF n = 0 THEN <<>> ELSE g[n - 1] \o lists[n]]

\* Joined: there is such a function for any lists.
LEMMA JoinsExist ==
  ASSUME NEW lists, NEW L \in Nat
  PROVE  \E g : Joins(g, lists, L)
<1> DEFINE Missed == {m \in 0 .. L : ~\E g : Joins(g, lists, m)}
<1>1. ASSUME Missed # {} PROVE FALSE
  <2>1. PICK m \in Missed : \A y \in Missed : m <= y
    <3>1. Missed \subseteq Nat
      OBVIOUS
    <3> HIDE DEF Missed
    <3> QED
      BY <1>1, <3>1, LeastNatural
  <2>2. m \in 0 .. L /\ ~\E g : Joins(g, lists, m)
    OBVIOUS
  <2>3. CASE m = 0
    <3> DEFINE g == [n \in 0 .. 0 |-> <<>>]
    <3>1. g = [n \in 0 .. 0 |-> IF n = 0 THEN <<>> ELSE g[n - 1] \o lists[n]]
      OBVIOUS
    <3> HIDE DEF g
    <3>2. Joins(g, lists, 0)
      BY <3>1 DEF Joins
    <3> QED
      BY <2>2, <2>3, <3>2
  <2>4. CASE m # 0
    <3>1. m - 1 \in 0 .. L /\ m - 1 \notin Missed
      <4>1. m - 1 \in 0 .. L /\ ~(m <= m - 1)
        BY <2>2, <2>4
      <4> QED
        BY <2>1, <4>1
    <3>2. PICK g : Joins(g, lists, m - 1)
      BY <3>1
    <3> DEFINE h == [n \in 0 .. m |-> IF n = m THEN g[m - 1] \o lists[m] ELSE g[n]]
    <3>3. ASSUME NEW n \in 0 .. m
          PROVE  h[n] = IF n = 0 THEN <<>> ELSE h[n - 1] \o lists[n]
      <4>1. \A k \in 0 .. m - 1 :
              g[k] = IF k = 0 THEN <<>> ELSE g[k - 1] \o lists[k]
        BY <3>2 DEF Joins
      <4>2. CASE n = m
        <5>1. m - 1 \in 0 .. m /\ m - 1 # m /\ m \in 0 .. m
          BY <2>2, <2>4
        <5>2. h[m - 1] = g[m - 1]
          BY <5>1
        <5>3. h[m] = g[m - 1] \o lists[m]
          BY <5>1
        <5> QED
          BY <4>2, <5>2, <5>3, <2>4
      <4>3. CASE n # m /\ n = 0
        <5>1. h[n] = g[n] /\ n \in 0 .. m - 1
          BY <4>3, <2>2
        <5> QED
          BY <4>1, <4>3, <5>1
      <4>4. CASE n # m /\ n # 0
        <5>1. n \in 0 .. m - 1 /\ n - 1 \in 0 .. m /\ n - 1 # m
          BY <4>4, <2>2
        <5>2. h[n] = g[n] /\ h[n - 1] = g[n - 1]
          BY <4>4, <5>1
        <5>3. g[n] = g[n - 1] \o lists[n]
          BY <4>1, <4>4, <5>1
        <5> QED
          BY <4>4, <5>2, <5>3
      <4> QED
        BY <4>2, <4>3, <4>4
    <3>4. h = [n \in 0 .. m |-> h[n]]
      OBVIOUS
    <3> HIDE DEF h
    <3>5. h = [n \in 0 .. m |-> IF n = 0 THEN <<>> ELSE h[n - 1] \o lists[n]]
      BY <3>3, <3>4
    <3>6. Joins(h, lists, m)
      BY <3>5 DEF Joins
    <3> QED
      BY <2>2, <3>6
  <2> QED
    BY <2>3, <2>4
<1>2. L \in 0 .. L /\ L \notin Missed
  BY <1>1
<1> QED
  BY <1>2

\* Joined adds list after list.
LEMMA JoinedIs ==
  ASSUME NEW lists, Len(lists) \in Nat
  PROVE  /\ Joined(lists, 0) = <<>>
         /\ \A n \in 1 .. Len(lists) : Joined(lists, n) = Joined(lists, n - 1) \o lists[n]
<1> DEFINE L == Len(lists)
           G == CHOOSE g : g = [m \in 0 .. L |-> IF m = 0 THEN <<>> ELSE g[m - 1] \o lists[m]]
<1>1. PICK g : Joins(g, lists, L)
  BY JoinsExist
<1>2. g = [m \in 0 .. L |-> IF m = 0 THEN <<>> ELSE g[m - 1] \o lists[m]]
  BY <1>1 DEF Joins
<1>3. G = [m \in 0 .. L |-> IF m = 0 THEN <<>> ELSE G[m - 1] \o lists[m]]
  BY <1>2
<1>4. \A n : Joined(lists, n) = G[n]
  BY DEF Joined
<1> HIDE DEF G
<1>5. G[0] = <<>>
  <2>1. 0 \in 0 .. L
    OBVIOUS
  <2> QED
    BY <1>3, <2>1
<1>6. ASSUME NEW n \in 1 .. L PROVE G[n] = G[n - 1] \o lists[n]
  <2>1. n \in 0 .. L /\ n # 0
    OBVIOUS
  <2> QED
    BY <1>3, <2>1
<1> QED
  BY <1>4, <1>5, <1>6

\* Lists of numbers join to a list of numbers.
LEMMA JoinedTyped ==
  ASSUME NEW lists \in Seq(Seq(Nat)), NEW n \in 0 .. Len(lists)
  PROVE  Joined(lists, n) \in Seq(Nat)
<1>1. /\ Len(lists) \in Nat /\ DOMAIN lists = 1 .. Len(lists)
      /\ \A m \in 1 .. Len(lists) : lists[m] \in Seq(Nat)
  BY LenProperties, ElementOfSeq
<1> DEFINE Wrong == {m \in 0 .. Len(lists) : Joined(lists, m) \notin Seq(Nat)}
<1>2. ASSUME Wrong # {} PROVE FALSE
  <2>1. PICK m \in Wrong : \A y \in Wrong : m <= y
    <3>1. Wrong \subseteq Nat
      BY <1>1
    <3> HIDE DEF Wrong
    <3> QED
      BY <1>2, <3>1, LeastNatural
  <2>2. m \in 0 .. Len(lists) /\ Joined(lists, m) \notin Seq(Nat)
    OBVIOUS
  <2>3. <<>> \in Seq(Nat)
    OBVIOUS
  <2>4. m # 0
    BY <1>1, <2>2, <2>3, JoinedIs
  <2>5. m - 1 \in 0 .. Len(lists) /\ ~(m <= m - 1) /\ m \in 1 .. Len(lists)
    BY <1>1, <2>2, <2>4
  <2>6. Joined(lists, m - 1) \in Seq(Nat)
    BY <2>1, <2>5
  <2>7. Joined(lists, m) = Joined(lists, m - 1) \o lists[m]
    BY <1>1, <2>5, JoinedIs
  <2>8. lists[m] \in Seq(Nat)
    BY <1>1, <2>5
  <2> QED
    BY <2>2, <2>6, <2>7, <2>8, ConcatProperties
<1> QED
  BY <1>2

\* j has the list l from place b on.
Has(j, l, b) ==
  /\ b \in Nat /\ b + Len(l) <= Len(j)
  /\ \A i \in 1 .. Len(l) : j[b + i] = l[i]

\* What a list has, it has with more behind it.
LEMMA HasGrows ==
  ASSUME NEW j \in Seq(Nat), NEW l \in Seq(Nat), NEW b, Has(j, l, b), NEW more \in Seq(Nat)
  PROVE  Has(j \o more, l, b)
<1>1. PICK r, a, c : r = j \o more /\ a = Len(j) /\ c = Len(more)
  OBVIOUS
<1>2. a \in Nat /\ c \in Nat /\ Len(l) \in Nat /\ b \in Nat /\ b + Len(l) <= a
  BY <1>1, LenProperties DEF Has
<1>3. /\ Len(r) = a + c /\ \A i \in 1 .. a + c : r[i] = IF i <= a THEN j[i] ELSE more[i - a]
  BY <1>1, ConcatProperties
<1>4. ASSUME NEW i \in 1 .. Len(l) PROVE r[b + i] = l[i]
  <2>1. b + i \in 1 .. a + c /\ b + i <= a
    BY <1>2
  <2> QED
    BY <1>3, <2>1 DEF Has
<1>5. b + Len(l) <= Len(r)
  BY <1>2, <1>3
<1> QED
  BY <1>1, <1>2, <1>4, <1>5 DEF Has

\* And it has what was put behind it.
LEMMA HasLast ==
  ASSUME NEW j \in Seq(Nat), NEW l \in Seq(Nat)
  PROVE  Has(j \o l, l, Len(j))
<1>1. PICK r, a, c : r = j \o l /\ a = Len(j) /\ c = Len(l)
  OBVIOUS
<1>2. a \in Nat /\ c \in Nat
  BY <1>1, LenProperties
<1>3. /\ Len(r) = a + c /\ \A i \in 1 .. a + c : r[i] = IF i <= a THEN j[i] ELSE l[i - a]
  BY <1>1, ConcatProperties
<1>4. ASSUME NEW i \in 1 .. c PROVE r[a + i] = l[i]
  <2>1. a + i \in 1 .. a + c /\ ~(a + i <= a) /\ (a + i) - a = i
    BY <1>2
  <2> QED
    BY <1>3, <2>1
<1> QED
  BY <1>1, <1>2, <1>3, <1>4 DEF Has

\* Each list is where preStatDict says.
LEMMA JoinedHas ==
  ASSUME NEW lists \in Seq(Seq(Nat)), NEW p \in 1 .. Len(lists), NEW n \in p .. Len(lists)
  PROVE  Has(Joined(lists, n), lists[p], StartOf(lists, p))
<1>1. /\ Len(lists) \in Nat /\ DOMAIN lists = 1 .. Len(lists)
      /\ \A m \in 1 .. Len(lists) : lists[m] \in Seq(Nat)
  BY LenProperties, ElementOfSeq
<1> DEFINE Wrong == {m \in p .. Len(lists) : ~Has(Joined(lists, m), lists[p], StartOf(lists, p))}
<1>2. ASSUME Wrong # {} PROVE FALSE
  <2>1. PICK m \in Wrong : \A y \in Wrong : m <= y
    <3>1. Wrong \subseteq Nat
      BY <1>1
    <3> HIDE DEF Wrong
    <3> QED
      BY <1>2, <3>1, LeastNatural
  <2>2. m \in p .. Len(lists) /\ ~Has(Joined(lists, m), lists[p], StartOf(lists, p))
    OBVIOUS
  <2>3. /\ m \in 1 .. Len(lists) /\ m - 1 \in 0 .. Len(lists) /\ ~(m <= m - 1)
        /\ m # p => m - 1 \in p .. Len(lists)
    BY <1>1, <2>2
  <2>4. /\ Joined(lists, m) = Joined(lists, m - 1) \o lists[m] /\ lists[m] \in Seq(Nat)
        /\ Joined(lists, m - 1) \in Seq(Nat)
    BY <1>1, <2>3, JoinedIs, JoinedTyped
  <2>5. CASE m = p
    BY <2>2, <2>4, <2>5, HasLast DEF StartOf
  <2>6. CASE m # p
    <3>1. Has(Joined(lists, m - 1), lists[p], StartOf(lists, p))
      BY <2>1, <2>3, <2>6
    <3>2. lists[p] \in Seq(Nat)
      BY <1>1
    <3> QED
      BY <2>2, <2>4, <3>1, <3>2, HasGrows
  <2> QED
    BY <2>5, <2>6
<1> QED
  BY <1>2

\* The slice that the planner takes is the list.
LEMMA SliceIs ==
  ASSUME NEW j \in Seq(Nat), NEW l \in Seq(Nat), NEW b, Has(j, l, b)
  PROVE  SubSeq(j, b + 1, b + Len(l)) = l
<1>1. PICK r, c : r = SubSeq(j, b + 1, b + Len(l)) /\ c = Len(l)
  OBVIOUS
<1>2. /\ b \in Nat /\ c \in Nat /\ Len(j) \in Nat /\ b + c <= Len(j)
      /\ \A i \in 1 .. c : j[b + i] = l[i]
  BY <1>1, LenProperties DEF Has
<1>3. PICK m, n : m = b + 1 /\ n = b + c
  OBVIOUS
<1>4. /\ m \in Int /\ n \in Int /\ (m <= n => n - m + 1 = c) /\ (~(m <= n) => c = 0)
      /\ n - m + 1 = c /\ \A i \in 1 .. c : m + i - 1 = b + i
  <2>1. b \in Nat /\ c \in Nat
    BY <1>2
  <2>2. m \in Int /\ n \in Int /\ n - m + 1 = c
    BY ONLY <2>1, <1>3
  <2>3. (m <= n => n - m + 1 = c) /\ (~(m <= n) => c = 0)
    BY ONLY <2>1, <1>3
  <2>4. \A i \in 1 .. c : m + i - 1 = b + i
    BY ONLY <2>1, <1>3
  <2> QED
    BY <2>2, <2>3, <2>4
<1>5. \A i \in m .. n : j[i] \in Nat
  <2>1. \A i \in m .. n : i \in 1 .. Len(j)
    BY ONLY <1>2, <1>3
  <2> QED
    BY <2>1, ElementOfSeq
<1>6. /\ SubSeq(j, m, n) \in Seq(Nat)
      /\ Len(SubSeq(j, m, n)) = IF m <= n THEN n - m + 1 ELSE 0
      /\ \A i \in 1 .. n - m + 1 : SubSeq(j, m, n)[i] = j[m + i - 1]
  BY <1>4, <1>5, SubSeqProperties
<1>7. r = SubSeq(j, m, n)
  BY <1>1, <1>3
<1>8. r \in Seq(Nat) /\ Len(r) = c
  BY <1>4, <1>6, <1>7
<1>9. \A i \in 1 .. c : r[i] = l[i]
  BY <1>2, <1>4, <1>6, <1>7
<1>10. r = l
  BY <1>1, <1>8, <1>9, SeqEqual
<1> QED
  BY <1>1, <1>10
-----------------------------------------------------------------------------
(* The statistics of a build                                               *)

\* The lists of n predicates, of the values that the triples T have at pos.
ListsOf(lists, T, n, pos) ==
  /\ lists \in Seq(Seq(Nat)) /\ Len(lists) = n /\ DOMAIN lists = 1 .. n
  /\ \A p \in 1 .. n : Enumerates(lists[p], ValuesWith(T, p - 1, pos))

\* p2s_p2o: the lists of all predicates.
LEMMA PreListsAre ==
  ASSUME NEW tuples \in Seq(IDTriples), NEW n \in Nat, NEW pos, NEW k, Positions(2, pos, k)
  PROVE  ListsOf(PreLists(tuples, n, pos, 2, pos, k), ToSet(tuples), n, pos)
<1>1. PICK s : s = SortedBy(tuples, 2, pos, k)
  OBVIOUS
<1>2. SortedAs(s, tuples, 2, pos, k)
  BY <1>1, SortedByIs
<1>3. PICK lists : lists = PreLists(tuples, n, pos, 2, pos, k)
  OBVIOUS
<1>4. lists = [p \in 1 .. n |-> PreList(s, p - 1, pos)]
  BY <1>1, <1>3 DEF PreLists
<1>5. \A p \in 1 .. n : /\ lists[p] \in Seq(Nat)
                        /\ Enumerates(lists[p], ValuesWith(ToSet(tuples), p - 1, pos))
  <2>1. ASSUME NEW p \in 1 .. n
        PROVE  /\ PreList(s, p - 1, pos) \in Seq(Nat)
               /\ Enumerates(PreList(s, p - 1, pos), ValuesWith(ToSet(tuples), p - 1, pos))
    BY <1>2, PreListIs
  <2> QED
    BY <1>4, <2>1
<1>6. lists \in [1 .. n -> Seq(Nat)]
  BY <1>4, <1>5
<1>7. lists \in Seq(Seq(Nat)) /\ Len(lists) = n /\ DOMAIN lists = 1 .. n
  <2>1. lists \in Seq(Seq(Nat))
    BY <1>6, SeqDef
  <2>2. DOMAIN lists = 1 .. n
    BY <1>4
  <2>3. DOMAIN lists = 1 .. Len(lists) /\ Len(lists) \in Nat
    BY <2>1, LenProperties
  <2> QED
    BY <2>1, <2>2, <2>3
<1> QED
  BY <1>3, <1>5, <1>7 DEF ListsOf

\* D has the statistics of these lists.
StatisticsOf(D, subs, objs, n) ==
  /\ n \in Nat /\ ListsOf(subs, Listed(D), n, 1) /\ ListsOf(objs, Listed(D), n, 3)
  /\ D.p2s = Joined(subs, n) /\ D.p2o = Joined(objs, n)
  /\ D.preStatDict = preStatDict(subs, objs) /\ D.IntersectDict = IntersectDict(subs, objs)

\* Database::build: the files hold the statistics of the data.
LEMMA StatisticsAre ==
  ASSUME NEW rdf \in Seq(Statements), 2 * Len(rdf) <= LITERAL_FIRST_ID
  PROVE  \E subs, objs, n : StatisticsOf(Image(rdf), subs, objs, n)
<1>1. Len(rdf) \in Nat /\ DOMAIN rdf = 1 .. Len(rdf) /\ \A i \in 1 .. Len(rdf) : rdf[i] \in Statements
  BY LenProperties, ElementOfSeq
<1>2. PICK d : d = Dictionaries(rdf)
  OBVIOUS
<1>3. PICK tuples : tuples = [i \in DOMAIN rdf |-> IDs(d, rdf[i])]
  OBVIOUS
<1>4. /\ tuples \in Seq(IDTriples) /\ StoreOf(Image(rdf), ToSet(tuples))
      /\ Tables(d)
  BY <1>2, <1>3, TuplesAre
<1>5. PICK n : n = Len(d.predicate)
  OBVIOUS
<1>6. n \in Nat
  BY <1>4, <1>5, TableFacts DEF Tables
<1>7. PICK subs, objs : /\ subs = PreLists(tuples, n, 1, 2, 1, 3)
                        /\ objs = PreLists(tuples, n, 3, 2, 3, 1)
  OBVIOUS
<1>8. PICK D : D = Image(rdf)
  OBVIOUS
<1>9. /\ D.p2s = Joined(subs, n) /\ D.p2o = Joined(objs, n)
      /\ D.preStatDict = preStatDict(subs, objs) /\ D.IntersectDict = IntersectDict(subs, objs)
  BY <1>2, <1>3, <1>5, <1>7, <1>8 DEF Image
<1>10. Listed(D) = ToSet(tuples)
  BY <1>4, <1>8, ListedIs
<1>11. Positions(2, 1, 3) /\ Positions(2, 3, 1)
  BY DEF Positions
<1>12. ListsOf(subs, ToSet(tuples), n, 1) /\ ListsOf(objs, ToSet(tuples), n, 3)
  BY <1>4, <1>6, <1>7, <1>11, PreListsAre
<1> QED
  BY <1>6, <1>8, <1>9, <1>10, <1>12 DEF StatisticsOf

\* Where a predicate's slice begins and how long it is.
LEMMA SliceOf ==
  ASSUME NEW lists, NEW T, NEW n \in Nat, NEW pos, ListsOf(lists, T, n, pos), NEW p \in 1 .. n
  PROVE  SubSeq(Joined(lists, n), StartOf(lists, p) + 1, StartOf(lists, p) + Len(lists[p])) = lists[p]
<1>1. lists \in Seq(Seq(Nat)) /\ Len(lists) = n /\ lists[p] \in Seq(Nat)
  BY ElementOfSeq DEF ListsOf
<1>2. p \in 1 .. Len(lists) /\ n \in p .. Len(lists) /\ n \in 0 .. Len(lists)
  BY <1>1
<1>3. Joined(lists, n) \in Seq(Nat)
  BY <1>1, <1>2, JoinedTyped
<1>4. Has(Joined(lists, n), lists[p], StartOf(lists, p))
  BY <1>1, <1>2, JoinedHas
<1> QED
  BY <1>1, <1>3, <1>4, SliceIs

\* The planner's slices are the lists of the predicate.
LEMMA SlicesAre ==
  ASSUME NEW D, NEW subs, NEW objs, NEW n, StatisticsOf(D, subs, objs, n), NEW p \in 1 .. n
  PROVE  LET stat == D.preStatDict[p]
         IN  /\ SubSeq(D.p2s, stat[1] + 1, stat[1] + stat[2]) = subs[p]
             /\ SubSeq(D.p2o, stat[3] + 1, stat[3] + stat[4]) = objs[p]
<1>1. /\ n \in Nat /\ ListsOf(subs, Listed(D), n, 1) /\ ListsOf(objs, Listed(D), n, 3)
      /\ D.p2s = Joined(subs, n) /\ D.p2o = Joined(objs, n)
      /\ D.preStatDict = preStatDict(subs, objs)
  BY DEF StatisticsOf
<1>2. PICK stat : stat = D.preStatDict[p]
  OBVIOUS
<1>3. stat = <<StartOf(subs, p), Len(subs[p]), StartOf(objs, p), Len(objs[p])>>
  BY <1>1, <1>2 DEF preStatDict, ListsOf
<1>4. /\ stat[1] = StartOf(subs, p) /\ stat[2] = Len(subs[p])
      /\ stat[3] = StartOf(objs, p) /\ stat[4] = Len(objs[p])
  BY <1>3
<1>5. SubSeq(D.p2s, stat[1] + 1, stat[1] + stat[2]) = subs[p]
  BY <1>1, <1>4, SliceOf
<1>6. SubSeq(D.p2o, stat[3] + 1, stat[3] + stat[4]) = objs[p]
  BY <1>1, <1>4, SliceOf
<1> QED
  BY <1>2, <1>5, <1>6

\* A list is no shorter than any set of its values.
LEMMA ListBounds ==
  ASSUME NEW l \in Seq(Nat), NEW C \in SUBSET ToSet(l)
  PROVE  /\ IsFiniteSet(ToSet(l)) /\ IsFiniteSet(C)
         /\ Len(l) \in Nat /\ Cardinality(C) <= Len(l)
<1>1. Len(l) \in Nat /\ DOMAIN l = 1 .. Len(l)
  BY LenProperties
<1>2. PICK L : L = Len(l)
  OBVIOUS
<1>3. IsFiniteSet(1 .. L) /\ Cardinality(1 .. L) = L /\ L \in Nat
  BY <1>1, <1>2, IntervalSize
<1>4. PICK S : S = ToSet(l)
  OBVIOUS
<1>5. S = {l[i] : i \in 1 .. L}
  BY <1>1, <1>2, <1>4 DEF ToSet
<1> DEFINE f == [i \in 1 .. L |-> l[i]]
<1>6. f \in Surjection(1 .. L, S)
  <2>1. f \in [1 .. L -> S]
    BY <1>5
  <2>2. \A x \in S : \E i \in 1 .. L : f[i] = x
    BY <1>5
  <2> HIDE DEF f
  <2> QED
    BY <2>1, <2>2 DEF Surjection
<1> HIDE DEF f
<1>7. IsFiniteSet(S) /\ Cardinality(S) <= L
  BY <1>3, <1>6, FS_Surjection
<1>8. C \in SUBSET S
  BY <1>4
<1>9. IsFiniteSet(C) /\ Cardinality(C) <= Cardinality(S)
  BY <1>7, <1>8, FS_Subset
<1>10. Cardinality(C) \in Nat /\ Cardinality(S) \in Nat
  BY <1>7, <1>9, FS_CardinalityType
<1> QED
  BY <1>2, <1>3, <1>4, <1>7, <1>9, <1>10

\* Two lists share no fewer values than any set in both has.
LEMMA CommonBounds ==
  ASSUME NEW l \in Seq(Nat), NEW m \in Seq(Nat), NEW C, C \subseteq ToSet(l), C \subseteq ToSet(m)
  PROVE  /\ Common(l, m) \in Nat /\ Common(m, l) = Common(l, m)
         /\ Cardinality(C) <= Common(l, m)
<1>1. PICK S : S = ToSet(l) \cap ToSet(m)
  OBVIOUS
<1>2. S \in SUBSET ToSet(l) /\ C \in SUBSET S
  BY <1>1
<1>3. IsFiniteSet(S)
  BY <1>2, ListBounds
<1>4. Cardinality(C) <= Cardinality(S) /\ Cardinality(S) \in Nat
  BY <1>2, <1>3, FS_Subset, FS_CardinalityType
<1>5. S = ToSet(m) \cap ToSet(l)
  BY <1>1
<1> QED
  BY <1>1, <1>4, <1>5 DEF Common

\* The values that all the lists of a variable's predicates have: as a subject of
\* those outs, as an object of those ins.
Joint(x, subs, objs, outs, ins) ==
  {v \in x : /\ \A p \in outs : v \in ToSet(subs[p])
             /\ \A p \in ins : v \in ToSet(objs[p])}
\* The number y bounds the joint values of one of the lists.
Bounds(y, subs, objs, outs, ins) ==
  /\ y \in Nat
  /\ \E x \in {ToSet(subs[p]) : p \in outs} \cup {ToSet(objs[p]) : p \in ins} :
       Cardinality(Joint(x, subs, objs, outs, ins)) <= y

\* What is enough for it: a set that has the joint values, and y its bound.
LEMMA BoundsBy ==
  ASSUME NEW subs, NEW objs, NEW outs, NEW ins, NEW y \in Nat,
         NEW x \in {ToSet(subs[p]) : p \in outs} \cup {ToSet(objs[p]) : p \in ins},
         Cardinality(Joint(x, subs, objs, outs, ins)) <= y
  PROVE  Bounds(y, subs, objs, outs, ins)
BY DEF Bounds

\* IntersectDict at the places where the planner looks.
LEMMA DictIs ==
  ASSUME NEW subs, NEW objs, NEW n, DOMAIN subs = 1 .. n, n \in Nat,
         NEW a \in 1 .. n, NEW b \in 1 .. n
  PROVE  LET dict == IntersectDict(subs, objs)
         IN  /\ a < b => dict["same"][a][b] = Common(subs[a], subs[b])
             /\ a < b => dict["mixed"][a][b] = Common(subs[a], objs[b])
             /\ a > b => dict["same"][a][b] = Common(objs[b], objs[a])
             /\ a > b => dict["mixed"][a][b] = Common(objs[b], subs[a])
<1>1. a < b => ~(a = b)
  OBVIOUS
<1>2. a > b => ~(a = b) /\ ~(a < b)
  OBVIOUS
<1>3. PICK dict : dict = IntersectDict(subs, objs)
  OBVIOUS
<1>4. /\ a < b => dict["same"][a][b] = Common(subs[a], subs[b])
      /\ a < b => dict["mixed"][a][b] = Common(subs[a], objs[b])
  BY <1>1, <1>3 DEF IntersectDict
<1>5. /\ a > b => dict["same"][a][b] = Common(objs[b], objs[a])
      /\ a > b => dict["mixed"][a][b] = Common(objs[b], subs[a])
  BY <1>2, <1>3 DEF IntersectDict
<1> QED
  BY <1>3, <1>4, <1>5

\* The lists of a store's predicates and the statistics of each.
LEMMA EntriesAre ==
  ASSUME NEW D, NEW subs, NEW objs, NEW n, StatisticsOf(D, subs, objs, n)
  PROVE  /\ n \in Nat /\ DOMAIN subs = 1 .. n /\ DOMAIN D.preStatDict = 1 .. n
         /\ \A p \in 1 .. n : /\ subs[p] \in Seq(Nat) /\ objs[p] \in Seq(Nat)
                              /\ D.preStatDict[p][2] = Len(subs[p])
                              /\ D.preStatDict[p][4] = Len(objs[p])
                              /\ Enumerates(subs[p], ValuesWith(Listed(D), p - 1, 1))
                              /\ Enumerates(objs[p], ValuesWith(Listed(D), p - 1, 3))
<1>1. n \in Nat /\ ListsOf(subs, Listed(D), n, 1) /\ ListsOf(objs, Listed(D), n, 3)
  BY DEF StatisticsOf
<1>2. /\ DOMAIN subs = 1 .. n /\ Len(subs) = n /\ Len(objs) = n
      /\ subs \in Seq(Seq(Nat)) /\ objs \in Seq(Seq(Nat))
  BY <1>1 DEF ListsOf
<1>3. \A p \in 1 .. n : subs[p] \in Seq(Nat) /\ objs[p] \in Seq(Nat)
  BY <1>2, ElementOfSeq
<1>4. PICK stat : stat = D.preStatDict
  OBVIOUS
<1>5. stat = [p \in 1 .. n |-> <<StartOf(subs, p), Len(subs[p]), StartOf(objs, p), Len(objs[p])>>]
  BY <1>2, <1>4 DEF StatisticsOf, preStatDict
<1>6. DOMAIN stat = 1 .. n /\ \A p \in 1 .. n : stat[p][2] = Len(subs[p]) /\ stat[p][4] = Len(objs[p])
  BY <1>5
<1>7. \A p \in 1 .. n : /\ Enumerates(subs[p], ValuesWith(Listed(D), p - 1, 1))
                        /\ Enumerates(objs[p], ValuesWith(Listed(D), p - 1, 3))
  BY <1>1 DEF ListsOf
<1> QED
  BY <1>1, <1>2, <1>3, <1>4, <1>6, <1>7

\* One predicate: its list bounds the variable's candidates.
LEMMA OneBounds ==
  ASSUME NEW subs, NEW objs, NEW outs, NEW ins
  PROVE  /\ \A p \in outs : subs[p] \in Seq(Nat) => Bounds(Len(subs[p]), subs, objs, outs, ins)
         /\ \A p \in ins : objs[p] \in Seq(Nat) => Bounds(Len(objs[p]), subs, objs, outs, ins)
<1>1. ASSUME NEW l \in Seq(Nat), 
             ToSet(l) \in {ToSet(subs[p]) : p \in outs} \cup {ToSet(objs[p]) : p \in ins}
      PROVE  Bounds(Len(l), subs, objs, outs, ins)
  <2>1. PICK C : C = Joint(ToSet(l), subs, objs, outs, ins)
    OBVIOUS
  <2>2. C \in SUBSET ToSet(l)
    BY <2>1 DEF Joint
  <2>3. Len(l) \in Nat /\ Cardinality(C) <= Len(l)
    BY <2>2, ListBounds
  <2> QED
    BY <1>1, <2>1, <2>3, BoundsBy
<1>2. \A p \in outs : subs[p] \in Seq(Nat) => Bounds(Len(subs[p]), subs, objs, outs, ins)
  BY <1>1
<1>3. \A p \in ins : objs[p] \in Seq(Nat) => Bounds(Len(objs[p]), subs, objs, outs, ins)
  BY <1>1
<1> QED
  BY <1>2, <1>3

\* A pair of predicates: what their lists share bounds them.
LEMMA PairBounds ==
  ASSUME NEW subs, NEW objs, NEW outs, NEW ins, NEW l \in Seq(Nat), NEW m \in Seq(Nat),
         ToSet(l) \in {ToSet(subs[p]) : p \in outs} \cup {ToSet(objs[p]) : p \in ins},
         Joint(ToSet(l), subs, objs, outs, ins) \subseteq ToSet(m)
  PROVE  Bounds(Common(l, m), subs, objs, outs, ins)
<1>1. PICK C : C = Joint(ToSet(l), subs, objs, outs, ins)
  OBVIOUS
<1>2. C \subseteq ToSet(l) /\ C \subseteq ToSet(m)
  BY <1>1 DEF Joint
<1>3. Common(l, m) \in Nat /\ Cardinality(C) <= Common(l, m)
  BY <1>2, CommonBounds
<1> QED
  BY <1>1, <1>3, BoundsBy

\* ComputeCandidates: the order of two lists does not matter.
LEMMA CommonSymmetric == \A l, m : Common(l, m) = Common(m, l)
<1>1. \A l, m : ToSet(l) \cap ToSet(m) = ToSet(m) \cap ToSet(l)
  OBVIOUS
<1> QED
  BY <1>1 DEF Common

\* Every number that approximate_cands takes the least of is a bound.
LEMMA EstimatesBound ==
  ASSUME NEW D, NEW subs, NEW objs, NEW n, StatisticsOf(D, subs, objs, n),
         NEW outs \in SUBSET (1 .. n), NEW ins \in SUBSET (1 .. n), outs \cap ins = {}
  PROVE  /\ \A a, b \in outs :
              Bounds(IF a = b THEN D.preStatDict[a][2]
                     ELSE D.IntersectDict["same"][IF a < b THEN a ELSE b][IF a < b THEN b ELSE a],
                     subs, objs, outs, ins)
         /\ \A a, b \in ins :
              Bounds(IF a = b THEN D.preStatDict[a][4]
                     ELSE D.IntersectDict["same"][IF a < b THEN b ELSE a][IF a < b THEN a ELSE b],
                     subs, objs, outs, ins)
         /\ \A a \in outs, b \in ins :
              Bounds(D.IntersectDict["mixed"][a][b], subs, objs, outs, ins)
<1>1. /\ n \in Nat /\ DOMAIN subs = 1 .. n
      /\ \A p \in 1 .. n : /\ subs[p] \in Seq(Nat) /\ objs[p] \in Seq(Nat)
                           /\ D.preStatDict[p][2] = Len(subs[p])
                           /\ D.preStatDict[p][4] = Len(objs[p])
  BY EntriesAre
<1>2. PICK dict : dict = D.IntersectDict
  OBVIOUS
<1>3. \A a, b \in 1 .. n :
        /\ a < b => dict["same"][a][b] = Common(subs[a], subs[b])
        /\ a < b => dict["mixed"][a][b] = Common(subs[a], objs[b])
        /\ a > b => dict["same"][a][b] = Common(objs[b], objs[a])
        /\ a > b => dict["mixed"][a][b] = Common(objs[b], subs[a])
  <2>1. dict = IntersectDict(subs, objs)
    BY <1>2 DEF StatisticsOf
  <2>2. ASSUME NEW a \in 1 .. n, NEW b \in 1 .. n
        PROVE  /\ a < b => IntersectDict(subs, objs)["same"][a][b] = Common(subs[a], subs[b])
               /\ a < b => IntersectDict(subs, objs)["mixed"][a][b] = Common(subs[a], objs[b])
               /\ a > b => IntersectDict(subs, objs)["same"][a][b] = Common(objs[b], objs[a])
               /\ a > b => IntersectDict(subs, objs)["mixed"][a][b] = Common(objs[b], subs[a])
    <3>1. n \in Nat /\ DOMAIN subs = 1 .. n
      BY <1>1
    <3> QED
      BY <3>1, DictIs
  <2> QED
    BY <2>1, <2>2
<1>4. \A a, b \in 1 .. n : a # b => a < b \/ b < a
  BY <1>1
<1>5. ASSUME NEW a \in outs, NEW b \in outs, a # b
      PROVE  Bounds(Common(subs[a], subs[b]), subs, objs, outs, ins)
  <2>1. Joint(ToSet(subs[a]), subs, objs, outs, ins) \subseteq ToSet(subs[b])
    BY DEF Joint
  <2> QED
    BY <1>1, <2>1, PairBounds
<1>6. ASSUME NEW a \in ins, NEW b \in ins, a # b
      PROVE  Bounds(Common(objs[a], objs[b]), subs, objs, outs, ins)
  <2>1. Joint(ToSet(objs[a]), subs, objs, outs, ins) \subseteq ToSet(objs[b])
    BY DEF Joint
  <2> QED
    BY <1>1, <2>1, PairBounds
<1>7. ASSUME NEW a \in outs, NEW b \in ins
      PROVE  Bounds(Common(subs[a], objs[b]), subs, objs, outs, ins)
  <2>1. Joint(ToSet(subs[a]), subs, objs, outs, ins) \subseteq ToSet(objs[b])
    BY DEF Joint
  <2> QED
    BY <1>1, <2>1, PairBounds
<1>8. ASSUME NEW a \in outs, NEW b \in outs
      PROVE  Bounds(IF a = b THEN D.preStatDict[a][2]
                    ELSE dict["same"][IF a < b THEN a ELSE b][IF a < b THEN b ELSE a],
                    subs, objs, outs, ins)
  <2>1. CASE a = b
    <3>1. D.preStatDict[a][2] = Len(subs[a]) /\ subs[a] \in Seq(Nat)
      BY <1>1
    <3>2. Bounds(Len(subs[a]), subs, objs, outs, ins)
      BY <3>1, OneBounds
    <3> QED
      BY <2>1, <3>1, <3>2
  <2>2. CASE a # b /\ a < b
    BY <1>3, <1>5, <2>2
  <2>3. CASE a # b /\ b < a
    <3>1. ~(a < b) /\ b # a
      BY <1>1, <2>3
    <3>2. dict["same"][b][a] = Common(subs[b], subs[a])
      BY <1>3, <2>3
    <3> QED
      BY <1>5, <3>1, <3>2
  <2> QED
    BY <1>4, <2>1, <2>2, <2>3
<1>9. ASSUME NEW a \in ins, NEW b \in ins
      PROVE  Bounds(IF a = b THEN D.preStatDict[a][4]
                    ELSE dict["same"][IF a < b THEN b ELSE a][IF a < b THEN a ELSE b],
                    subs, objs, outs, ins)
  <2>1. CASE a = b
    <3>1. D.preStatDict[a][4] = Len(objs[a]) /\ objs[a] \in Seq(Nat)
      BY <1>1
    <3>2. Bounds(Len(objs[a]), subs, objs, outs, ins)
      BY <3>1, OneBounds
    <3> QED
      BY <2>1, <3>1, <3>2
  <2>2. CASE a # b /\ a < b
    <3>1. b > a
      BY <1>1, <2>2
    <3>2. dict["same"][b][a] = Common(objs[a], objs[b])
      BY <1>3, <3>1
    <3> QED
      BY <1>6, <2>2, <3>2
  <2>3. CASE a # b /\ b < a
    <3>1. ~(a < b) /\ b # a /\ a > b
      BY <1>1, <2>3
    <3>2. dict["same"][a][b] = Common(objs[b], objs[a])
      BY <1>3, <3>1
    <3> QED
      BY <1>6, <3>1, <3>2
  <2> QED
    BY <1>4, <2>1, <2>2, <2>3
<1>10. ASSUME NEW a \in outs, NEW b \in ins
       PROVE  Bounds(dict["mixed"][a][b], subs, objs, outs, ins)
  <2>1. a # b
    OBVIOUS
  <2>2. CASE a < b
    BY <1>3, <1>7, <2>2
  <2>3. CASE b < a
    <3>1. a > b
      BY <1>1, <2>3
    <3>2. dict["mixed"][a][b] = Common(objs[b], subs[a])
      BY <1>3, <3>1
    <3> QED
      BY <1>7, <3>2, CommonSymmetric
  <2> QED
    BY <1>4, <2>1, <2>2, <2>3
<1> QED
  BY <1>2, <1>8, <1>9, <1>10

\* The least of such numbers is one of them.
LEMMA LeastIsOne ==
  ASSUME NEW E, E \subseteq Nat, E # {}
  PROVE  Min(E) \in E
<1>1. \E x \in E : \A y \in E : x <= y
  BY LeastNatural
<1> QED
  BY <1>1 DEF Min

\* task_spawn: so the estimate is a bound.
LEMMA EstimateIs ==
  ASSUME NEW subs, NEW objs, NEW n, StatisticsOf(db, subs, objs, n),
         NEW outs \in SUBSET (1 .. n), NEW ins \in SUBSET (1 .. n),
         outs \cap ins = {}, outs \cup ins # {}
  PROVE  Bounds(approximate_cands(outs, ins), subs, objs, outs, ins)
<1> DEFINE A == {IF a = b THEN db.preStatDict[a][4]
                 ELSE db.IntersectDict["same"][IF a < b THEN b ELSE a][IF a < b THEN a ELSE b]
                 : a, b \in ins}
           B == {IF a = b THEN db.preStatDict[a][2]
                 ELSE db.IntersectDict["same"][IF a < b THEN a ELSE b][IF a < b THEN b ELSE a]
                 : a, b \in outs}
           C == {db.IntersectDict["mixed"][a][b] : a \in outs, b \in ins}
<1>1. approximate_cands(outs, ins) = Min(A \cup B \cup C)
  BY DEF approximate_cands
<1>2. /\ \A y \in A : Bounds(y, subs, objs, outs, ins)
      /\ \A y \in B : Bounds(y, subs, objs, outs, ins)
      /\ \A y \in C : Bounds(y, subs, objs, outs, ins)
  <2>1. \A y \in A : \E a, b \in ins :
          y = IF a = b THEN db.preStatDict[a][4]
              ELSE db.IntersectDict["same"][IF a < b THEN b ELSE a][IF a < b THEN a ELSE b]
    OBVIOUS
  <2>2. \A y \in B : \E a, b \in outs :
          y = IF a = b THEN db.preStatDict[a][2]
              ELSE db.IntersectDict["same"][IF a < b THEN a ELSE b][IF a < b THEN b ELSE a]
    OBVIOUS
  <2>3. \A y \in C : \E a \in outs, b \in ins : y = db.IntersectDict["mixed"][a][b]
    OBVIOUS
  <2> HIDE DEF A, B, C
  <2>4. ASSUME NEW y \in A PROVE Bounds(y, subs, objs, outs, ins)
    <3>1. PICK a, b \in ins :
            y = IF a = b THEN db.preStatDict[a][4]
                ELSE db.IntersectDict["same"][IF a < b THEN b ELSE a][IF a < b THEN a ELSE b]
      BY <2>1
    <3> QED
      BY <3>1, EstimatesBound
  <2>5. ASSUME NEW y \in B PROVE Bounds(y, subs, objs, outs, ins)
    <3>1. PICK a, b \in outs :
            y = IF a = b THEN db.preStatDict[a][2]
                ELSE db.IntersectDict["same"][IF a < b THEN a ELSE b][IF a < b THEN b ELSE a]
      BY <2>2
    <3> QED
      BY <3>1, EstimatesBound
  <2>6. ASSUME NEW y \in C PROVE Bounds(y, subs, objs, outs, ins)
    <3>1. PICK a \in outs, b \in ins : y = db.IntersectDict["mixed"][a][b]
      BY <2>3
    <3> QED
      BY <3>1, EstimatesBound
  <2> QED
    BY <2>4, <2>5, <2>6
<1>3. A \cup B # {}
  <2>1. ASSUME NEW p \in ins PROVE db.preStatDict[p][4] \in A
    <3>1. db.preStatDict[p][4]
            = IF p = p THEN db.preStatDict[p][4]
              ELSE db.IntersectDict["same"][IF p < p THEN p ELSE p][IF p < p THEN p ELSE p]
      OBVIOUS
    <3> QED
      BY <3>1
  <2>2. ASSUME NEW p \in outs PROVE db.preStatDict[p][2] \in B
    <3>1. db.preStatDict[p][2]
            = IF p = p THEN db.preStatDict[p][2]
              ELSE db.IntersectDict["same"][IF p < p THEN p ELSE p][IF p < p THEN p ELSE p]
      OBVIOUS
    <3> QED
      BY <3>1
  <2> HIDE DEF A, B
  <2> QED
    BY <2>1, <2>2
<1> HIDE DEF A, B, C
<1>4. \A y \in A \cup B \cup C : Bounds(y, subs, objs, outs, ins)
  BY <1>2
<1>5. A \cup B \cup C \subseteq Nat /\ A \cup B \cup C # {}
  BY <1>3, <1>4 DEF Bounds
<1> QED
  BY <1>1, <1>4, <1>5, LeastIsOne

\* What a server computes from the statistics of a build.
LEMMA StatisticsGiveTheMatch ==
  ASSUME NEW subs, NEW objs, NEW n, StatisticsOf(db, subs, objs, n)
  PROVE  StatisticsMatch
<1> DEFINE S(p) == ValuesWith(Listed(db), p - 1, 1)
           O(p) == ValuesWith(Listed(db), p - 1, 3)
<1>1. /\ n \in Nat /\ DOMAIN db.preStatDict = 1 .. n
      /\ \A p \in 1 .. n : /\ Enumerates(subs[p], S(p)) /\ Enumerates(objs[p], O(p))
                           /\ ToSet(subs[p]) = S(p) /\ ToSet(objs[p]) = O(p)
  BY EntriesAre DEF Enumerates
<1>2. ASSUME NEW p \in 1 .. n
      PROVE  Enumerates(SubjectsOf(p), S(p)) /\ Enumerates(ObjectsOf(p), O(p))
  <2>1. SubjectsOf(p) = subs[p] /\ ObjectsOf(p) = objs[p]
    BY SlicesAre DEF SubjectsOf, ObjectsOf
  <2> QED
    BY <1>1, <2>1
<1> HIDE DEF S, O
<1>3. ASSUME NEW outs \in SUBSET (1 .. n), NEW ins \in SUBSET (1 .. n),
             outs \cap ins = {}, outs \cup ins # {}
      PROVE  \E x \in {S(p) : p \in outs} \cup {O(p) : p \in ins} :
               Cardinality({v \in x : /\ \A p \in outs : v \in S(p)
                                      /\ \A p \in ins : v \in O(p)})
                 <= approximate_cands(outs, ins)
  <2>1. PICK y : y = approximate_cands(outs, ins)
    OBVIOUS
  <2>2. Bounds(y, subs, objs, outs, ins)
    BY <1>3, <2>1, EstimateIs
  <2>3. PICK x \in {ToSet(subs[p]) : p \in outs} \cup {ToSet(objs[p]) : p \in ins} :
          Cardinality(Joint(x, subs, objs, outs, ins)) <= y
    BY <2>2 DEF Bounds
  <2>4. x \in {S(p) : p \in outs} \cup {O(p) : p \in ins}
    BY <1>1
  <2>5. Joint(x, subs, objs, outs, ins) = {v \in x : /\ \A p \in outs : v \in S(p)
                                                     /\ \A p \in ins : v \in O(p)}
    BY <1>1 DEF Joint
  <2> QED
    BY <2>1, <2>3, <2>4, <2>5
<1> QED
  BY <1>1, <1>2, <1>3 DEF StatisticsMatch, S, O
-----------------------------------------------------------------------------
(* The data                                                                *)

\* The triples of D are those of the data rdf, or those and inserted ones.
Holds(D, rdf, n) ==
  /\ StoreOf(D, Listed(D))
  /\ ToSet(rdf) \subseteq {NameOf(D, t) : t \in Listed(D)}
  /\ n = 0 => {NameOf(D, t) : t \in Listed(D)} = ToSet(rdf)

\* Nothing is inserted but by an insertion.
Uninserted == phase \notin {"insert", "undefined"} => inserted = 0
Data ==
  phase \in {"serve", "insert"} =>
    build \in 1 .. builds /\ Holds(db, inputs[build], inserted)
Served == phase = "serve" => \E subs, objs, n : StatisticsOf(db, subs, objs, n)
DataInv == Uninserted /\ Data /\ Served

\* A step of gload, of another process's load, or of none.
LEMMA ElsewhereKeepsData ==
  ASSUME IInv, DataInv, UNCHANGED <<inputs, phase, build, db, inserted>>,
         builds' \in {builds, builds + 1}
  PROVE  DataInv'
<1>1. Uninserted'
  BY DEF DataInv, Uninserted
<1>2. build \in 1 .. builds => build \in 1 .. builds'
  BY DEF IInv, Counters
<1>3. Data' /\ Served'
  BY <1>2 DEF DataInv, Data, Served
<1> QED
  BY <1>1, <1>3 DEF DataInv

\* A step that leaves no store to speak of.
LEMMA NoStoreKeepsData ==
  ASSUME phase' \notin {"serve", "insert"}, phase' = "undefined" \/ inserted' = 0
  PROVE  DataInv'
BY DEF DataInv, Uninserted, Data, Served

\* Database::load, up to its last file.
LEMMA ReadsKeepsData ==
  ASSUME IInv, DataInv, phase \in Loading, NEW x \in Files, disk[x] # Missing,
         Reads(disk[x]), UNCHANGED <<inputs, builds>>
  PROVE  DataInv'
<1>1. inserted = 0 /\ inserted' = 0
  BY DEF DataInv, Uninserted, Loading, Reads
<1>2. /\ at' = at + 1
      /\ build' = IF at = 0 THEN disk[x] ELSE build
      /\ mixed' = (mixed \/ disk[x] = Partial \/ (at > 0 /\ disk[x] # build))
      /\ IF at' < 18 THEN UNCHANGED <<phase, db>>
         ELSE IF mixed' THEN phase' = "undefined" /\ UNCHANGED db
         ELSE /\ phase' = IF phase = "load to serve" THEN "serve" ELSE "insert"
              /\ db' = Image(inputs[build])
  BY ConstantsAre DEF Reads
<1>3. phase \notin {"serve", "insert", "undefined"}
  BY DEF Loading
<1>4. CASE at' < 18
  BY <1>1, <1>2, <1>3, <1>4, NoStoreKeepsData
<1>5. CASE ~(at' < 18) /\ mixed'
  BY <1>1, <1>2, <1>5, NoStoreKeepsData
<1>6. CASE ~(at' < 18) /\ ~mixed'
  <2>1. at > 0 /\ at # 0
    <3>1. at \in Nat /\ at' = at + 1 /\ ~(at' < 18)
      BY <1>2, <1>6 DEF IInv, Counters
    <3> QED
      BY ONLY <3>1
  <2>2. build' = build
    BY <1>2, <2>1
  <2>3. disk[x] = build /\ disk[x] # Partial
    BY <1>2, <1>6, <2>1, Zenon
  <2>4. disk[x] \in {Missing, Partial} \cup 1 .. builds
    BY DEF IInv, Tags
  <2>5. build \in 1 .. builds
    BY <2>3, <2>4
  <2>6. build \in 1 .. Len(inputs) /\ inputs \in Inputs
    BY <2>5, InputsAre DEF IInv, Counters
  <2>7. PICK rdf : rdf = inputs[build]
    OBVIOUS
  <2>8. rdf \in Seq(Statements) /\ 2 * Len(rdf) <= LITERAL_FIRST_ID
    BY <2>6, <2>7, InputsAre
  <2>9. PICK T : /\ StoreOf(Image(rdf), T)
                 /\ {NameOf(Image(rdf), t) : t \in T} = ToSet(rdf)
    BY <2>8, ImageIs
  <2>10. Listed(Image(rdf)) = T
    BY <2>9, ListedIs
  <2>11. Holds(Image(rdf), rdf, 0)
    BY <2>9, <2>10 DEF Holds
  <2>12. db' = Image(rdf) /\ inputs'[build'] = rdf /\ build' \in 1 .. builds'
    BY <1>2, <1>6, <2>2, <2>5, <2>7
  <2>13. Data'
    BY <1>1, <2>11, <2>12 DEF Data
  <2>14. Uninserted'
    BY <1>1 DEF Uninserted
  <2>15. \E subs, objs, n : StatisticsOf(Image(rdf), subs, objs, n)
    BY <2>8, StatisticsAre
  <2>16. Served'
    BY <2>12, <2>15 DEF Served
  <2> QED
    BY <2>13, <2>14, <2>16 DEF DataInv
<1> QED
  BY <1>4, <1>5, <1>6

\* Database::insertTriple.
LEMMA InsertKeepsData ==
  ASSUME IInv, DataInv, NEW t \in Inserts, insertTriple(t)
  PROVE  DataInv'
<1>1. PICK d, ids : d = AddNames(names, t) /\ ids = IDs(d, t)
  OBVIOUS
<1>2. PICK sp, op : sp = <<ids[1], ids[2]>> /\ op = <<ids[3], ids[2]>>
  OBVIOUS
<1>3. /\ phase = "insert" /\ UNCHANGED <<inputs, builds>>
      /\ \/ phase' = "undefined"
         \/ inserted' = inserted + 1 /\ UNCHANGED <<phase, build, db>>
         \/ Down
         \/ /\ d.entity = names.entity
            /\ db' = updateTupleslist_insert(Named(d), ids[1], ids[2], ids[3])
            /\ inserted' = inserted + 1 /\ UNCHANGED <<phase, build>>
  BY <1>1, <1>2 DEF insertTriple, store, reading
<1>4. /\ build \in 1 .. builds /\ Holds(db, inputs[build], inserted) /\ inserted \in Nat
  BY <1>3 DEF IInv, Counters, DataInv, Data
<1>5. t \in Statements
  BY StoreAssumption
<1>6. CASE phase' = "undefined"
  BY <1>6, NoStoreKeepsData
<1>7. CASE inserted' = inserted + 1 /\ UNCHANGED <<phase, build, db>>
  <2>1. inserted' # 0
    BY <1>4, <1>7
  <2>2. Holds(db, inputs[build], inserted')
    BY <1>4, <2>1 DEF Holds
  <2>3. Data'
    BY <1>3, <1>4, <1>7, <2>2 DEF Data
  <2>4. Uninserted'
    BY <1>3, <1>7 DEF Uninserted
  <2>5. Served'
    BY <1>3, <1>7 DEF Served
  <2> QED
    BY <2>3, <2>4, <2>5 DEF DataInv
<1>8. CASE Down
  <2>1. phase' = "down" /\ inserted' = 0
    BY <1>8 DEF Down
  <2> QED
    BY <2>1, NoStoreKeepsData
<1>9. CASE /\ d.entity = names.entity
           /\ db' = updateTupleslist_insert(Named(d), ids[1], ids[2], ids[3])
           /\ inserted' = inserted + 1 /\ UNCHANGED <<phase, build>>
  <2>1. PICK U : U = updateTupleslist_insert(Named(d), ids[1], ids[2], ids[3])
    OBVIOUS
  <2>2. PICK T : T = Listed(db)
    OBVIOUS
  <2>3. StoreOf(db, T) /\ ToSet(inputs[build]) \subseteq {NameOf(db, u) : u \in T}
    BY <1>4, <2>2 DEF Holds
  <2>4. /\ StoreOf(U, T \cup {ids})
        /\ \A u \in T : NameOf(U, u) = NameOf(db, u)
    BY <1>1, <1>5, <1>9, <2>1, <2>3, InsertionIs
  <2>5. Listed(U) = T \cup {ids}
    BY <2>4, ListedIs
  <2>6. ToSet(inputs[build]) \subseteq {NameOf(U, u) : u \in T \cup {ids}}
    BY <2>3, <2>4
  <2>7. inserted' # 0
    BY <1>4, <1>9
  <2>8. Holds(U, inputs[build], inserted')
    BY <2>4, <2>5, <2>6, <2>7 DEF Holds
  <2>9. Data'
    BY <1>3, <1>4, <1>9, <2>1, <2>8 DEF Data
  <2>10. Uninserted'
    BY <1>3, <1>9 DEF Uninserted
  <2>11. Served'
    BY <1>3, <1>9 DEF Served
  <2> QED
    BY <2>9, <2>10, <2>11 DEF DataInv
<1> QED
  BY <1>3, <1>6, <1>7, <1>8, <1>9

\* Every step leaves the loader with the data of its build, or with none.
THEOREM NextDataInv == IInv /\ DataInv /\ [Next]_vars => DataInv'
<1> SUFFICES ASSUME IInv, DataInv, [Next]_vars PROVE DataInv'
  OBVIOUS
<1>1. CASE BuildStart
  BY <1>1, ElsewhereKeepsData DEF BuildStart, loader, reading
<1>2. CASE BuildStep \/ BuildDies
  BY <1>2, ElsewhereKeepsData DEF BuildStep, BuildDies, loader, reading
<1>3. CASE \E ph \in Loading : LoadStart(ph)
  <2>1. phase = "down" /\ phase' \in Loading /\ inserted' = inserted
    BY <1>3 DEF LoadStart
  <2>2. inserted' = 0 /\ phase' \notin {"serve", "insert"}
    BY <2>1 DEF Loading, DataInv, Uninserted
  <2> QED
    BY <2>2, NoStoreKeepsData
<1>4. CASE LoadStep
  <2> DEFINE x == LoadScript[at + 1]
  <2>1. /\ phase \in Loading /\ UNCHANGED <<inputs, builds>>
        /\ \/ Gives_up
           \/ Down
           \/ disk[x] # Missing /\ Reads(disk[x])
    BY <1>4 DEF LoadStep, store
  <2>2. x \in Files
    <3>1. at \in Nat /\ at < 18
      BY <2>1 DEF IInv, Counters, Reading
    <3>2. at + 1 \in 1 .. 18
      BY <3>1
    <3> QED
      BY <3>2, ConstantsAre
  <2> HIDE DEF x
  <2>3. CASE Gives_up
    <3>1. phase' \in {"serve nothing", "down"} /\ inserted' = inserted
      BY <2>3 DEF Gives_up
    <3>2. inserted = 0
      BY <2>1 DEF Loading, DataInv, Uninserted
    <3> QED
      BY <3>1, <3>2, NoStoreKeepsData
  <2>4. CASE Down
    BY <2>4, NoStoreKeepsData DEF Down
  <2>5. CASE disk[x] # Missing /\ Reads(disk[x])
    BY <2>1, <2>2, <2>5, ReadsKeepsData
  <2> QED
    BY <2>1, <2>3, <2>4, <2>5
<1>5. CASE LoaderDies \/ saveTree
  BY <1>5, NoStoreKeepsData DEF LoaderDies, saveTree, Down
<1>6. CASE \E t \in Inserts : insertTriple(t)
  BY <1>6, InsertKeepsData
<1>7. CASE UNCHANGED vars
  BY <1>7, ElsewhereKeepsData DEF vars, store, loader, reading
<1> QED
  BY <1>1, <1>2, <1>3, <1>4, <1>5, <1>6, <1>7 DEF Next

\* However the store came about, by a build or by insertions after it, and however
\* gload and the loaders died before: the six lists say the same, the triples of
\* the data, each list in the order that the searches take for granted.
THEOREM ListsAgree == Spec => []IndexesAgree
<1>1. Init => DataInv
  BY DEF Init, DataInv, Uninserted, Data, Served
<1>2. DataInv => IndexesAgree
  BY StoreAgrees DEF DataInv, Data, Holds, IndexesAgree
<1> QED
  BY <1>1, <1>2, InitIInv, NextIInv, NextDataInv, PTL DEF Spec

\* And the statistics are those of the data: the slices of a predicate are its
\* subjects and its objects, and the planner's estimate for a variable is never below
\* the vertices that have all of the variable's predicates.
THEOREM EstimatesAreSafe == Spec => []StatisticsMatch
<1>1. Init => DataInv
  BY DEF Init, DataInv, Uninserted, Data, Served
<1>2. DataInv => StatisticsMatch
  <2>1. phase # "serve" => StatisticsMatch
    BY DEF StatisticsMatch
  <2> QED
    BY <2>1, StatisticsGiveTheMatch DEF DataInv, Served
<1> QED
  BY <1>1, <1>2, InitIInv, NextIInv, NextDataInv, PTL DEF Spec
=============================================================================

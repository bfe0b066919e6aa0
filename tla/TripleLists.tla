---------------------------- MODULE TripleLists ----------------------------
(***************************************************************************)
(* What a store holds: the files that gload makes of RDF data              *)
(* (Database::build, encodeRDF_new) and the changes an insertion makes to  *)
(* the lists among them (Database::insertTriple,                           *)
(* KVstore::updateTupleslist_insert).                                      *)
(*                                                                         *)
(* RDF data is a sequence of triples of names, duplicates included; the    *)
(* parser tells the literals from the entities.  A dictionary is the       *)
(* sequence of its names: the IDs of entities and predicates count from 0, *)
(* those of literals from LITERAL_FIRST_ID.  An index is a function from   *)
(* its keys to lists.                                                      *)
(***************************************************************************)
EXTENDS Integers, Sequences, FiniteSets, SequencesExt

CONSTANTS Literals, LITERAL_FIRST_ID

ASSUME TripleListsAssumption == LITERAL_FIRST_ID \in Nat

IsEntity(o) == o \notin Literals

\* RDF's triples: a literal is an object only.
Statements == {t \in STRING \X STRING \X STRING : IsEntity(t[1])}
-----------------------------------------------------------------------------
(* Encoding                                                                *)

\* The ID a dictionary gives a name: -1 if none.
IDOf(names, x) == SelectInSeq(names, LAMBDA y : y = x) - 1
Intern(names, x) == IF IDOf(names, x) = -1 THEN Append(names, x) ELSE names

NoNames == [entity |-> <<>>, predicate |-> <<>>, literal |-> <<>>]
\* A subject is numbered before the object of its triple.
AddNames(d, t) ==
  LET sub == Intern(d.entity, t[1]) IN
  [entity |-> IF IsEntity(t[3]) THEN Intern(sub, t[3]) ELSE sub,
   predicate |-> Intern(d.predicate, t[2]),
   literal |-> IF IsEntity(t[3]) THEN d.literal ELSE Intern(d.literal, t[3])]

\* The tables once all triples of rdf have been read.
Dictionaries(rdf) ==
  LET after[n \in 0 .. Len(rdf)] == IF n = 0 THEN NoNames ELSE AddNames(after[n - 1], rdf[n])
  IN after[Len(rdf)]

ObjID(d, o) == IF IsEntity(o) THEN IDOf(d.entity, o)
                              ELSE LITERAL_FIRST_ID + IDOf(d.literal, o)
IDs(d, t) == <<IDOf(d.entity, t[1]), IDOf(d.predicate, t[2]), ObjID(d, t[3])>>
-----------------------------------------------------------------------------
(* Lists                                                                   *)

\* qsort's comparisons: by the three positions named, in turn.
Before(a, b, i, j, k) == \/ a[i] < b[i]
                         \/ a[i] = b[i] /\ a[j] < b[j]
                         \/ a[i] = b[i] /\ a[j] = b[j] /\ a[k] < b[k]
\* qsort: the elements of xs, whatever their places, in the order in which
\* smaller[n] are the places before place n; of equal elements, which nothing tells
\* apart, the earlier one comes first.
ByRank(xs, smaller) ==
  [r \in 1 .. Cardinality(DOMAIN xs) |->
     xs[CHOOSE n \in DOMAIN xs : Cardinality(smaller[n]) = r - 1]]
SortedBy(tuples, i, j, k) ==
  ByRank(tuples, [n \in DOMAIN tuples |->
    {m \in DOMAIN tuples : \/ Before(tuples[m], tuples[n], i, j, k)
                           \/ tuples[m] = tuples[n] /\ m < n}])
SortedIDs(xs) ==
  ByRank(xs, [n \in DOMAIN xs |->
    {m \in DOMAIN xs : xs[m] < xs[n] \/ (xs[m] = xs[n] /\ m < n)}])

\* Some positions of a tuple: an ID, or a pair of IDs.
Part(t, ps) == IF Len(ps) = 1 THEN t[ps[1]] ELSE [n \in DOMAIN ps |-> t[ps[n]]]

\* The loops of s2o_sp2o_s2po and o2s_op2s_o2ps: a list is stored when the next
\* tuple has another key; a key that comes again would override it.
Runs(tuples, key, val) ==
  LET KeyOf(i) == Part(tuples[i], key)
      Ends == {i \in DOMAIN tuples : i = Len(tuples) \/ KeyOf(i) # KeyOf(i + 1)}
      First(e) == 1 + Max({0} \cup {i \in Ends : i < e})
      End(k) == Max({i \in Ends : KeyOf(i) = k})
  IN [k \in {KeyOf(i) : i \in Ends} |->
        [n \in 1 .. End(k) - First(End(k)) + 1 |-> Part(tuples[First(End(k)) + n - 1], val)]]

EachSorted(index) == [k \in DOMAIN index |-> SortedIDs(index[k])]

SubIndexes(tuples) ==
  LET spo == SortedBy(tuples, 1, 2, 3)
  IN  [sp2o |-> Runs(spo, <<1, 2>>, <<3>>),
       s2o |-> EachSorted(Runs(spo, <<1>>, <<3>>)),
       s2po |-> Runs(spo, <<1>>, <<2, 3>>)]
ObjIndexes(tuples) ==
  LET ops == SortedBy(tuples, 3, 2, 1)
  IN  [op2s |-> Runs(ops, <<3, 2>>, <<1>>),
       o2s |-> EachSorted(Runs(ops, <<3>>, <<1>>)),
       o2ps |-> Runs(ops, <<3>>, <<2, 1>>)]

\* p2s_p2o: the list of a predicate leaves out a value that repeats the one
\* before it, in an order where equal values of a predicate are neighbours.
Kept(sorted, p, pos) ==
  {i \in DOMAIN sorted : /\ sorted[i][2] = p
                         /\ \/ i = 1 \/ sorted[i - 1][2] # p
                            \/ sorted[i - 1][pos] # sorted[i][pos]}
PreList(sorted, p, pos) == SortedIDs([i \in Kept(sorted, p, pos) |-> sorted[i][pos]])

\* The lists of the first n predicates, one behind the other.
Joined(lists, n) ==
  LET upto[m \in 0 .. Len(lists)] == IF m = 0 THEN <<>> ELSE upto[m - 1] \o lists[m]
  IN upto[n]
PreLists(tuples, n, pos, i, j, k) ==
  LET sorted == SortedBy(tuples, i, j, k)
  IN [p \in 1 .. n |-> PreList(sorted, p - 1, pos)]

\* preStatDict: start and length of each predicate's two lists.
StartOf(lists, p) == Len(Joined(lists, p - 1))
preStatDict(subs, objs) ==
  [p \in DOMAIN subs |-> <<StartOf(subs, p), Len(subs[p]), StartOf(objs, p), Len(objs[p])>>]

\* ComputeCandidates on sorted lists; module Intersection looks inside.
Common(xs, ys) == Cardinality(ToSet(xs) \cap ToSet(ys))

IntersectDict_Swapped(subs, objs) ==
  [which \in {"same", "mixed"} |-> [a \in DOMAIN subs |-> [b \in DOMAIN subs |->
    CASE a = b -> 0
      [] a < b -> IF which = "same" THEN Common(subs[a], subs[b]) ELSE Common(objs[a], subs[b])
      [] a > b -> IF which = "same" THEN Common(objs[b], objs[a]) ELSE Common(subs[b], objs[a])]]]
\* IntersectDict: for i < j, at (i, j) and (j, i) of its two halves.
IntersectDict(subs, objs) ==
  [which \in {"same", "mixed"} |-> [a \in DOMAIN subs |-> [b \in DOMAIN subs |->
    CASE a = b -> 0
      [] a < b -> IF which = "same" THEN Common(subs[a], subs[b]) ELSE Common(subs[a], objs[b])
      [] a > b -> IF which = "same" THEN Common(objs[b], objs[a]) ELSE Common(objs[b], subs[a])]]]
-----------------------------------------------------------------------------
(* The files of a build                                                    *)

Image(rdf) ==
  LET d == Dictionaries(rdf)
      tuples == [i \in DOMAIN rdf |-> IDs(d, rdf[i])]
      n == Len(d.predicate)
      bySub == SubIndexes(tuples)
      byObj == ObjIndexes(tuples)
      subs == PreLists(tuples, n, 1, 2, 1, 3)
      objs == PreLists(tuples, n, 3, 2, 3, 1)
  IN [signature |-> Len(d.entity),
      entity2id |-> d.entity, id2entity |-> d.entity,
      literal2id |-> d.literal, id2literal |-> d.literal,
      predicate2id |-> d.predicate, id2predicate |-> d.predicate,
      o2s |-> byObj.o2s, s2o |-> bySub.s2o, op2s |-> byObj.op2s,
      sp2o |-> bySub.sp2o, s2po |-> bySub.s2po, o2ps |-> byObj.o2ps,
      p2s |-> Joined(subs, n), p2o |-> Joined(objs, n),
      preStatDict |-> preStatDict(subs, objs),
      IntersectDict |-> IntersectDict(subs, objs),
      info |-> [triples_num |-> Len(rdf), entity_num |-> Len(d.entity),
                pre_num |-> n, literal_num |-> Len(d.literal)]]
-----------------------------------------------------------------------------
(* Insertion into a list                                                   *)

Less(x, y) == x < y
LessPair(x, y) == x[1] < y[1] \/ (x[1] = y[1] /\ x[2] < y[2])

\* In order, and only if it is not there; smaller are the places before it.
InsertedAfter(xs, x, smaller) ==
  IF x \in ToSet(xs) THEN xs ELSE InsertAt(xs, Cardinality(smaller) + 1, x)
insert_x(xs, x) == InsertedAfter(xs, x, {i \in DOMAIN xs : Less(xs[i], x)})
insert_xy(xs, x) == InsertedAfter(xs, x, {i \in DOMAIN xs : LessPair(xs[i], x)})

ListOf(index, k) == IF k \in DOMAIN index THEN index[k] ELSE <<>>
Stored(index, k, list) == [j \in DOMAIN index \cup {k} |-> IF j = k THEN list ELSE index[j]]
PutX(index, k, x) == Stored(index, k, insert_x(ListOf(index, k), x))
PutXY(index, k, x) == Stored(index, k, insert_xy(ListOf(index, k), x))

updateTupleslist_insert_NoO2s(db, s, p, o) ==
  [db EXCEPT !.sp2o = PutX(@, <<s, p>>, o), !.op2s = PutX(@, <<o, p>>, s),
             !.s2po = PutXY(@, s, <<p, o>>), !.o2ps = PutXY(@, o, <<p, s>>),
             !.s2o = PutX(@, s, o)]
updateTupleslist_insert(db, s, p, o) ==
  [db EXCEPT !.sp2o = PutX(@, <<s, p>>, o), !.op2s = PutX(@, <<o, p>>, s),
             !.s2po = PutXY(@, s, <<p, o>>), !.o2ps = PutXY(@, o, <<p, s>>),
             !.s2o = PutX(@, s, o), !.o2s = PutX(@, o, s)]
-----------------------------------------------------------------------------
(* What the lists of a store say                                           *)

\* The triples of a store, by its map from subject and predicate to objects.
Listed(db) == UNION {{<<sp[1], sp[2], o>> : o \in ToSet(db.sp2o[sp])} : sp \in DOMAIN db.sp2o}

NameOf(db, t) == <<db.id2entity[t[1] + 1], db.id2predicate[t[2] + 1],
                   IF t[3] < LITERAL_FIRST_ID THEN db.id2entity[t[3] + 1]
                   ELSE db.id2literal[t[3] - LITERAL_FIRST_ID + 1]>>

\* The index has a list for each key that a triple has, of the values that occur
\* with it; and its lists are in order.
ValuesOf(triples, key, val, k) == {Part(t, val) : t \in {u \in triples : Part(u, key) = k}}
Tells(index, triples, key, val) ==
  /\ DOMAIN index = {Part(t, key) : t \in triples}
  /\ \A k \in DOMAIN index : ToSet(index[k]) = ValuesOf(triples, key, val, k)
\* The values of the predicate with the ID p, and a list of a set, in order.
ValuesWith(triples, p, pos) == {t[pos] : t \in {u \in triples : u[2] = p}}
Enumerates(list, S) ==
  ToSet(list) = S /\ \A i \in 1 .. Len(list) - 1 : Less(list[i], list[i + 1])
Ordered(index, LT(_, _)) == \A k \in DOMAIN index : \A i \in 1 .. Len(index[k]) - 1 :
                              ~LT(index[k][i + 1], index[k][i])

\* The data of a store: no two names share an ID, no literal has an entity's, and
\* the six lists say the same, each key's list in order.
Agrees(db) ==
  /\ \A d \in {db.id2entity, db.id2predicate, db.id2literal} : IsInjective(d)
  /\ \A t \in Listed(db) : t[3] >= LITERAL_FIRST_ID <=> NameOf(db, t)[3] \in Literals
  /\ Tells(db.op2s, Listed(db), <<3, 2>>, <<1>>)
  /\ Tells(db.s2o, Listed(db), <<1>>, <<3>>) /\ Tells(db.o2s, Listed(db), <<3>>, <<1>>)
  /\ Tells(db.s2po, Listed(db), <<1>>, <<2, 3>>)
  /\ Tells(db.o2ps, Listed(db), <<3>>, <<2, 1>>)
  /\ Ordered(db.sp2o, Less) /\ Ordered(db.op2s, Less)
  /\ Ordered(db.s2o, Less) /\ Ordered(db.o2s, Less)
  /\ Ordered(db.s2po, LessPair) /\ Ordered(db.o2ps, LessPair)
=============================================================================

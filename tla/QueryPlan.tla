----------------------------- MODULE QueryPlan -----------------------------
(***************************************************************************)
(* What task_spawn of app_rdf/app_rdf.h prepares before a query runs: the  *)
(* matching order of the query's variables and predicate variables, the    *)
(* constant and backward neighbours of each, and the candidates of the     *)
(* start vertex; and the candidates a search computes at one depth.        *)
(*                                                                         *)
(* The data D are a sequence of triples <<s, p, o>> of IDs, in which one   *)
(* may occur several times.  A query is a record: var_num, its variables   *)
(* being 0 .. var_num - 1, and triples, a sequence of [s, p, o].  A        *)
(* subject or object is a variable or a constant Const(id); a predicate is *)
(* an ID or, below 0, a predicate variable (PU).  PUs keep their names     *)
(* here, where the code numbers them -10, -11, ...                         *)
(***************************************************************************)
EXTENDS Integers, Sequences, FiniteSets, SequencesExt, FiniteSetsExt

Const(id) == - (id + 1)
LitID(nei) == - nei - 1
Vars(Q) == 0 .. Q.var_num - 1
PUs(Q) == {Q.triples[n].p : n \in DOMAIN Q.triples} \cap {p \in Int : p < 0}

-----------------------------------------------------------------------------
(* The lists of the key-value store, sorted: a neighbour is listed as      *)
(* often as the data repeat its triple, but each predicate, and each       *)
(* subject or object of a predicate, once                                  *)

Sorted(S) == [k \in 1 .. Cardinality(S) |->
                CHOOSE x \in S : Cardinality({y \in S : y < x}) = k - 1]

Subjects(D, p) == {t[1] : t \in {u \in Range(D) : u[2] = p}}
Objects(D, p) == {t[3] : t \in {u \in Range(D) : u[2] = p}}

\* getsubIDlistByobjID(preID) for an edge that leaves the variable,
\* getobjIDlistBysubID(preID) for one that enters it; any predicate if p < 0.
Neighbours(D, type, id, p) ==
  LET near(t) == IF type = "OUT" THEN t[3] ELSE t[1]
      far(t) == IF type = "OUT" THEN t[1] ELSE t[3]
      T == SelectSeq(D, LAMBDA t : near(t) = id /\ (p < 0 \/ t[2] = p))
  IN  SortSeq([k \in DOMAIN T |-> far(T[k])], <)

\* The predicates between id and anything, from id's side or towards id.
Predicates(D, type, id) ==
  Sorted({t[2] : t \in {u \in Range(D) : IF type = "OUT" THEN u[3] = id
                                                         ELSE u[1] = id}})

\* The merge of two sorted lists: an ID that both hold is left as often as in
\* the one that holds it less often.
Intersect(l, r) ==
  LET times(list, x) == Cardinality({k \in DOMAIN list : list[k] = x})
      rank(k) == Cardinality({j \in 1 .. k : l[j] = l[k]})
      kept == SelectSeq([k \in DOMAIN l |-> k],
                        LAMBDA k : rank(k) <= times(r, l[k]))
  IN  [k \in DOMAIN kept |-> l[kept[k]]]

-----------------------------------------------------------------------------
(* BasicQuery: the edges of a variable, in the order of the triples        *)

Edges(Q, i) ==
  LET at == Sorted({n \in DOMAIN Q.triples :
                      i \in {Q.triples[n].s, Q.triples[n].o}})
      edge(t) == IF t.s = i THEN [type |-> "OUT", pre |-> t.p, nei |-> t.o]
                            ELSE [type |-> "IN", pre |-> t.p, nei |-> t.s]
  IN  [k \in DOMAIN at |-> edge(Q.triples[at[k]])]

ToConst(e) == e.nei < 0
constBN(Q, i) == SelectSeq(Edges(Q, i), ToConst)
light_query_node(Q, i) == constBN(Q, i) # <<>>

\* The sequence of the constant edges of one PU.
preConst(Q, pu) ==
  FlattenSeq([k \in 1 .. Q.var_num |->
    SelectSeq(constBN(Q, k - 1), LAMBDA e : e.pre = pu)])

ConstList(D, e) == Neighbours(D, e.type, LitID(e.nei), e.pre)

\* "NO RESULT FOR THIS QUERY": a constant edge that no triple matches.
NoResult(D, Q) ==
  \E i \in Vars(Q) : \E k \in DOMAIN constBN(Q, i) :
     ConstList(D, constBN(Q, i)[k]) = <<>>

\* The PU between two variables; edges of two light nodes are not recorded.
PairPUs(Q, i, j) ==
  IF light_query_node(Q, i) /\ light_query_node(Q, j) THEN {}
  ELSE {e.pre : e \in {f \in Range(Edges(Q, i)) : f.nei = j /\ f.pre < 0}}

-----------------------------------------------------------------------------
(* The estimate of a variable's candidates                                 *)

PresOf(Q, i, type) ==
  {e.pre : e \in {f \in Range(Edges(Q, i)) :
                     f.type = type /\ ~ ToConst(f) /\ f.pre >= 0}}

\* The assertion that no predicate both enters and leaves a heavy node.
NoPreInAndOut(Q) ==
  \A i \in Vars(Q) : light_query_node(Q, i)
                       \/ PresOf(Q, i, "IN") \cap PresOf(Q, i, "OUT") = {}

PairSizes(S, T) == {Cardinality(pair[1] \cap pair[2]) : pair \in S \X T}

HeavySizes(ins, outs) ==
  UNION {PairSizes(ins, ins), PairSizes(outs, outs), PairSizes(outs, ins)}

LeastSize(sizes, default) ==
  IF sizes = {} \/ Min(sizes) = 0 THEN default ELSE Min(sizes)

approximate_cands(D, Q, i, default) ==
  LeastSize(IF light_query_node(Q, i)
              THEN {Len(ConstList(D, e)) : e \in Range(constBN(Q, i))}
              ELSE HeavySizes({Objects(D, p) : p \in PresOf(Q, i, "IN")},
                              {Subjects(D, p) : p \in PresOf(Q, i, "OUT")}),
            default)

-----------------------------------------------------------------------------
(* The matching order                                                      *)

\* The first in ID order among those with the fewest candidates.
FirstLeast(S, size) ==
  CHOOSE i \in S : \A j \in S :
    size[i] < size[j] \/ (size[i] = size[j] /\ i <= j)

Fewest(D, Q, S, default) ==
  FirstLeast(S, [i \in S |-> approximate_cands(D, Q, i, default)])

\* PUs to put behind vertex i: those between i and variables still to come.
NewPUs(Q, st, i) ==
  FoldLeft(LAMBDA pus, j :
             pus \o SetToSeq(PairPUs(Q, i, j) \ (Range(st.order) \cup Range(pus))),
           <<>>, Sorted(Vars(Q) \ (Range(st.order) \cup {i})))

Extend(Q, st, i, pus) ==
  [order |-> st.order \o <<i>> \o pus,
   adjacent |-> st.adjacent \cup
                {e.nei : e \in {f \in Range(Edges(Q, i)) : ~ ToConst(f)}},
   anchor |-> [pu \in DOMAIN st.anchor \cup Range(pus) |->
                 IF pu \in Range(pus) THEN i ELSE st.anchor[pu]]]

AddVertex(Q, st, i) == Extend(Q, st, i, NewPUs(Q, st, i))

\* Constant PUs first, in any order (they are keys of an unordered_map), then
\* the start vertex, then always the adjacent vertex with fewest candidates.
Order(D, Q, first, default) ==
  LET linked == {i \in Vars(Q) :
                   Range(first) \cap {e.pre : e \in Range(constBN(Q, i))} # {}}
      start == Fewest(D, Q, IF first = <<>> THEN Vars(Q) ELSE linked, default)
      st0 == AddVertex(Q, [order |-> first, adjacent |-> linked,
                           anchor |-> <<>>], start)
      more(st, k) ==
        AddVertex(Q, st, Fewest(D, Q, st.adjacent \ Range(st.order), default))
  IN  FoldLeft(more, st0, [k \in 1 .. Q.var_num - 1 |-> k])

ConstPUs(Q) == {pu \in PUs(Q) : preConst(Q, pu) # <<>>}

-----------------------------------------------------------------------------
(* Candidates of the start vertex                                          *)

StartLists(D, Q, i) ==
  IF light_query_node(Q, i)
    THEN [k \in DOMAIN constBN(Q, i) |-> ConstList(D, constBN(Q, i)[k])]
    ELSE LET ins == Sorted(PresOf(Q, i, "IN"))
             outs == Sorted(PresOf(Q, i, "OUT"))
         IN  [k \in DOMAIN ins |-> Sorted(Objects(D, ins[k]))]
               \o [k \in DOMAIN outs |-> Sorted(Subjects(D, outs[k]))]

\* An empty list is taken for one not yet started: the next one is added.
Narrow(cans, list) == IF cans = <<>> THEN list ELSE Intersect(cans, list)

StartCandidates(D, Q, i) == FoldLeft(Narrow, <<>>, StartLists(D, Q, i))

-----------------------------------------------------------------------------
(* The plan and what a search reads from it                                *)

generateBN(Q, order) ==
  LET before(d) == {order[k] : k \in 1 .. d - 1}
  IN  [d \in DOMAIN order |->
         IF order[d] < 0 THEN <<>>
         ELSE SelectSeq(Edges(Q, order[d]),
                        LAMBDA e : ~ ToConst(e) /\ e.nei \in before(d))]

PlanFrom(D, Q, first, st) ==
  LET type(pu) == Last(SelectSeq(Edges(Q, st.anchor[pu]),
                                 LAMBDA e : e.pre = pu)).type
  IN  [order |-> st.order,
       bn |-> generateBN(Q, st.order),
       constBN |-> [i \in Vars(Q) |-> constBN(Q, i)],
       preConst |-> [pu \in ConstPUs(Q) |-> preConst(Q, pu)],
       edge_node_anchor |-> [pu \in DOMAIN st.anchor |->
                               [var |-> st.anchor[pu], type |-> type(pu)]],
       start |-> IF first = <<>> THEN StartCandidates(D, Q, st.order[1])
                                 ELSE <<>>]

Plan(D, Q, first, default) == PlanFrom(D, Q, first, Order(D, Q, first, default))

\* The intersection of a sequence of lists, the first one being copied, as
\* ComputeCandidates makes it of lists of fewer than four IDs: it merges them.
\* A block of longer ones can leave a repeated ID more often than the merge does;
\* that every kernel comes to the same IDs is the subject of Intersection.
IntersectAll(lists) == FoldLeft(Intersect, Head(lists), Tail(lists))

\* The candidates at the depth after a partial match: can_lists[cur_depth].
Candidates(D, plan, matched) ==
  LET slot == plan.order[Len(matched) + 1]
      value(s) == matched[CHOOSE d \in DOMAIN matched : plan.order[d] = s]
      list(e) == Neighbours(D, e.type,
                            IF ToConst(e) THEN LitID(e.nei) ELSE value(e.nei),
                            IF e.pre < 0 THEN value(e.pre) ELSE e.pre)
      edges == plan.constBN[slot] \o plan.bn[Len(matched) + 1]
      constEdges == plan.preConst[slot]
      anchor == plan.edge_node_anchor[slot]
      opposite == IF anchor.type = "OUT" THEN "IN" ELSE "OUT"
  IN  IF slot \in DOMAIN plan.preConst
        THEN IntersectAll([k \in DOMAIN constEdges |->
               Predicates(D, constEdges[k].type, LitID(constEdges[k].nei))])
      ELSE IF slot < 0 THEN Predicates(D, opposite, value(anchor.var))
      ELSE IF matched = <<>> THEN plan.start
      ELSE IntersectAll([k \in DOMAIN edges |-> list(edges[k])])

-----------------------------------------------------------------------------
(* Which queries the plan is right for                                     *)

\* A variable reachable from the others through edges between variables.
Connected(Q) ==
  LET linked(S) == S \cup {j \in Vars(Q) : \E i \in S :
                              \E e \in Range(Edges(Q, i)) : e.nei = j}
  IN  FoldLeft(LAMBDA S, k : linked(S), {0}, [k \in 1 .. Q.var_num |-> k]) = Vars(Q)

\* The queries task_spawn prepares without undefined behaviour: variables are
\* connected (next_vertex is uninitialised otherwise), a PU has one constant
\* edge (the second writes past preConst) and a variable one constant PU and
\* two variables one PU (varIDvarID2preID keeps one), none between two light
\* nodes (it is not recorded), the start vertex has a list to start from.
Supported(D, Q, default) ==
  /\ Connected(Q)
  /\ NoPreInAndOut(Q)
  /\ \A pu \in PUs(Q) : Len(preConst(Q, pu)) <= 1
  /\ \A i \in Vars(Q) :
        Len(SelectSeq(constBN(Q, i), LAMBDA e : e.pre < 0)) <= 1
  /\ \A i \in Vars(Q), j \in Vars(Q) :
        LET pus == SelectSeq(Edges(Q, i), LAMBDA e : e.pre < 0 /\ e.nei = j)
        IN  Len(pus) <= 1 /\ Cardinality(PairPUs(Q, i, j)) = Len(pus)
  /\ ConstPUs(Q) = {} =>
        LET lists == StartLists(D, Q, Fewest(D, Q, Vars(Q), default))
            upto(k) == FoldLeft(Narrow, <<>>, SubSeq(lists, 1, k))
        IN  lists # <<>> /\ \A k \in 1 .. Len(lists) - 1 : upto(k) # <<>>

\* What a query asks for: every assignment of distinct IDs to its variables
\* and predicates to its PUs that maps each of its triples to the graph.
Matches(D, Q, plan) ==
  LET data == Range(D)
      V == UNION {{t[1], t[3]} : t \in data}
      P == {t[2] : t \in data}
      n == Len(plan.order)
      value(m, s) == m[CHOOSE d \in 1 .. n : plan.order[d] = s]
      term(m, x) == IF x < 0 THEN LitID(x) ELSE value(m, x)
      pre(m, p) == IF p < 0 THEN value(m, p) ELSE p
  IN  {m \in [1 .. n -> V \cup P] :
         /\ \A d \in 1 .. n : m[d] \in IF plan.order[d] < 0 THEN P ELSE V
         /\ \A d, e \in 1 .. n : d < e /\ plan.order[d] >= 0 /\ plan.order[e] >= 0
                                   => m[d] # m[e]
         /\ \A k \in DOMAIN Q.triples :
              LET t == Q.triples[k] IN
              <<term(m, t.s), pre(m, t.p), term(m, t.o)>> \in data}
=============================================================================

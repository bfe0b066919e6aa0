----------------------------- MODULE GroupPlan -----------------------------
(***************************************************************************)
(* How gquery puts together the answers to a query with UNION, OPTIONAL    *)
(* and FILTER (Database::query): genQueryVec of Parser/DBparser.cpp takes  *)
(* the group apart into basic queries, which are answered one by one,      *)
(* genEvaPlan walks the group again and writes a plan for a stack machine, *)
(* and doEvaPlan runs it; one step is one element of the plan.             *)
(*                                                                         *)
(* A group is [bgp, unions, optionals, filters]: its triples that have     *)
(* variables, by the name of their basic graph pattern, None if it has no  *)
(* such triple; sequences of branches; groups; and filters.  A table is    *)
(* [var, res]: variables and rows of IDs, -1 where nothing is bound.       *)
(***************************************************************************)
EXTENDS Integers, Sequences, FiniteSets, SequencesExt

CONSTANTS
  Groups,      \* the groups of the queries
  Answer,      \* the table that answers a basic graph pattern
  None,
  Text,        \* what getFilterStr makes of an ID, as a number in string order
  Projections  \* the variables after SELECT, in order

VARIABLES
  group,      \* the group of the query
  query_vec,  \* its basic queries, in order
  evaPlan,    \* elements <<type, pointer>>: r, j, u, l, f
  next,       \* the element doEvaPlan is at
  evaStack,   \* tables, the top last
  exact,      \* no merge met an unbound or missing variable it compares
  answer,     \* the rows of the result set
  phase

vars == <<group, query_vec, evaPlan, next, evaStack, exact, answer, phase>>

Unbound == -1
NoText == -2   \* a string of answer that is never assigned
hasVar(pg) == pg.bgp # None
-----------------------------------------------------------------------------
(* The two walks over the group                                            *)

RECURSIVE genQueryVec(_)
genQueryVec(pg) ==
  LET all(pgs) == FlattenSeq([i \in DOMAIN pgs |-> genQueryVec(pgs[i])])
  IN  (IF hasVar(pg) THEN <<pg.bgp>> ELSE <<>>) \o all(FlattenSeq(pg.unions)) \o all(pg.optionals)

\* p is [plan, id]: the elements so far and nextid.
Add(p, type, pointer) == [p EXCEPT !.plan = Append(@, <<type, pointer>>)]
AddIf(c, p, type) == IF c THEN Add(p, type, None) ELSE p

RECURSIVE genEvaPlan(_, _)
genEvaPlan(pg, p) ==
  LET own == IF hasVar(pg) THEN [Add(p, "r", p.id) EXCEPT !.id = p.id + 1] ELSE p
      \* The first branch that adds a table has nothing to be united with.
      branch(q, b) ==
        LET r == genEvaPlan(b, q.p)
        IN  [p |-> AddIf(q.any /\ r.id # q.p.id, r, "u"), any |-> q.any \/ r.id # q.p.id]
      union(q, bs) ==
        LET r == FoldLeft(branch, [p |-> q, any |-> FALSE], bs).p
        IN  AddIf(q.id # p.id /\ q.id # r.id, r, "j")
      optional(q, o) == LET r == genEvaPlan(o, q) IN AddIf(r.id # q.id, r, "l")
      filter(q, f) == Add(q, "f", f)
  IN  FoldLeft(filter,
               FoldLeft(optional, FoldLeft(union, own, pg.unions), pg.optionals),
               pg.filters)
-----------------------------------------------------------------------------
(* Merging tables                                                          *)

PlaceOf(s, x) == CHOOSE i \in DOMAIN s : s[i] = x
Shared(a, b) == Range(a.var) \cap Range(b.var)

\* mapVarVec: the columns of b that a lacks come behind those of a.
NewColumns(a, b) == SelectSeq([k \in DOMAIN b.var |-> k], LAMBDA k : b.var[k] \notin Range(a.var))
MergedVar(a, b) == a.var \o [k \in DOMAIN NewColumns(a, b) |-> b.var[NewColumns(a, b)[k]]]

Match(a, b, x, y) == \A v \in Shared(a, b) : x[PlaceOf(a.var, v)] = y[PlaceOf(b.var, v)]
Glue(a, b, x, y) == x \o [k \in DOMAIN NewColumns(a, b) |-> y[NewColumns(a, b)[k]]]
Partners(a, b, x) ==
  LET ys == SelectSeq(b.res, LAMBDA y : Match(a, b, x, y))
  IN  [k \in DOMAIN ys |-> Glue(a, b, x, ys[k])]
EachRow(a, rows(_)) == FlattenSeq([i \in DOMAIN a.res |-> rows(a.res[i])])

\* Tables without a common variable: the result stays empty.
mergeJoin(a, b) ==
  IF Shared(a, b) = {} THEN [var |-> <<>>, res |-> <<>>]
  ELSE [var |-> MergedVar(a, b), res |-> EachRow(a, LAMBDA x : Partners(a, b, x))]

Spread(var, c, row) ==
  [k \in DOMAIN var |-> IF var[k] \in Range(c.var) THEN row[PlaceOf(c.var, var[k])] ELSE Unbound]
mergeUnion(a, b) ==
  LET var == MergedVar(a, b)
  IN  [var |-> var, res |-> [i \in DOMAIN a.res |-> Spread(var, a, a.res[i])]
                             \o [i \in DOMAIN b.res |-> Spread(var, b, b.res[i])]]

\* Faulty variant: rows without a partner are dropped.
mergeLeftOuterJoin_Inner(a, b) ==
  [var |-> MergedVar(a, b), res |-> EachRow(a, LAMBDA x : Partners(a, b, x))]
mergeLeftOuterJoin(a, b) ==
  LET alone(x) == <<Spread(MergedVar(a, b), a, x)>>
      rows(x) == IF Partners(a, b, x) = <<>> THEN alone(x) ELSE Partners(a, b, x)
  IN  [var |-> MergedVar(a, b), res |-> EachRow(a, rows)]

\* A filter is <<"not", f>>, <<"and" or "or", f, g>> or a comparison of two
\* arguments, each <<"var", name>> or <<"text", number>>.  dict finds column 0
\* for a variable that the table lacks.
Column(a, v) == IF v \in Range(a.var) THEN PlaceOf(a.var, v) ELSE 1
getFilterStr(a, row, arg) == IF arg[1] = "var" THEN Text[row[Column(a, arg[2])]] ELSE arg[2]

RECURSIVE matchFilter(_, _, _)
matchFilter(a, row, f) ==
  LET is(k) == matchFilter(a, row, f[k])
      str(k) == getFilterStr(a, row, f[k])
  IN  CASE f[1] = "not" -> ~ is(2)
        [] f[1] = "and" -> is(2) /\ is(3)
        [] f[1] = "or" -> is(2) \/ is(3)
        [] f[1] = "=" -> str(2) = str(3)
        [] f[1] = "!=" -> str(2) # str(3)
        [] f[1] = "<" -> str(2) < str(3)
        [] f[1] = "<=" -> str(2) <= str(3)
        [] f[1] = ">" -> str(2) > str(3)
        [] f[1] = ">=" -> str(2) >= str(3)

doFilter(a, f) == [var |-> a.var, res |-> SelectSeq(a.res, LAMBDA row : matchFilter(a, row, f))]
-----------------------------------------------------------------------------
(* The steps                                                               *)

Init ==
  /\ group \in Groups
  /\ query_vec = <<>> /\ evaPlan = <<>> /\ next = 1 /\ evaStack = <<>>
  /\ exact = TRUE /\ answer = <<>> /\ phase = "parsed"

\* The query is taken apart, and its plan made once its parts are answered.
Plan ==
  /\ phase = "parsed" /\ phase' = "planned"
  /\ query_vec' = genQueryVec(group)
  /\ evaPlan' = genEvaPlan(group, [plan |-> <<>>, id |-> 0]).plan
  /\ UNCHANGED <<group, next, evaStack, exact, answer>>

Top(k) == evaStack[Len(evaStack) + 1 - k]
Element(types, pops) ==
  /\ phase = "planned" /\ next <= Len(evaPlan) /\ evaPlan[next][1] \in types
  /\ Len(evaStack) >= pops
  /\ next' = next + 1
  /\ UNCHANGED <<group, query_vec, evaPlan, answer, phase>>
Replace(pops, table) ==
  evaStack' = Append(SubSeq(evaStack, 1, Len(evaStack) - pops), table)

\* Every row has a value for v.
Bound(a, v) ==
  v \in Range(a.var) /\ \A i \in DOMAIN a.res : a.res[i][PlaceOf(a.var, v)] # Unbound

PushResult ==
  /\ Element({"r"}, 0)
  /\ Replace(0, Answer[query_vec[evaPlan[next][2] + 1]])
  /\ UNCHANGED exact

Merge ==
  /\ Element({"j", "u", "l"}, 2)
  /\ LET a == Top(2)
         b == Top(1)
         type == evaPlan[next][1]
     IN  /\ Replace(2, CASE type = "j" -> mergeJoin(a, b)
                         [] type = "u" -> mergeUnion(a, b)
                         [] type = "l" -> mergeLeftOuterJoin(a, b))
         /\ exact' = (exact /\ (type = "u" \/
              /\ \A v \in Shared(a, b) : Bound(a, v) /\ Bound(b, v)
              /\ type = "j" => Shared(a, b) # {}))

RECURSIVE VarsOf(_)
VarsOf(f) == CASE f[1] = "var" -> {f[2]}
               [] f[1] = "text" -> {}
               [] OTHER -> UNION {VarsOf(f[k]) : k \in 2 .. Len(f)}
Filter ==
  /\ Element({"f"}, 1)
  /\ Replace(1, doFilter(Top(1), evaPlan[next][2]))
  /\ exact' = (exact /\ \A v \in VarsOf(evaPlan[next][2]) : Bound(Top(1), v))

\* top and pop of an empty stack.
Underflow ==
  /\ phase = "planned" /\ phase' = "undefined"
  /\ Len(evaStack) < IF next > Len(evaPlan) THEN 1
                     ELSE CASE evaPlan[next][1] = "r" -> 0
                            [] evaPlan[next][1] = "f" -> 1
                            [] OTHER -> 2
  /\ UNCHANGED <<group, query_vec, evaPlan, next, evaStack, exact, answer>>

Projected(a, row) ==
  [k \in DOMAIN Projections |->
     IF Projections[k] \in Range(a.var) THEN row[PlaceOf(a.var, Projections[k])] ELSE NoText]

getFinalResult ==
  /\ phase = "planned" /\ next > Len(evaPlan) /\ evaStack # <<>>
  /\ answer' = [i \in DOMAIN Top(1).res |-> Projected(Top(1), Top(1).res[i])]
  /\ evaStack' = Front(evaStack) /\ phase' = "done"
  /\ UNCHANGED <<group, query_vec, evaPlan, next, exact>>

Next == Plan \/ PushResult \/ Merge \/ Filter \/ Underflow \/ getFinalResult

Spec == Init /\ [][Next]_vars
-----------------------------------------------------------------------------
(* What SPARQL says a group's answers are: sequences of partial functions  *)

Rows(a) ==
  [i \in DOMAIN a.res |->
     [v \in {w \in Range(a.var) : a.res[i][PlaceOf(a.var, w)] # Unbound} |->
        a.res[i][PlaceOf(a.var, v)]]]
Compatible(m, n) == \A v \in DOMAIN m \cap DOMAIN n : m[v] = n[v]
Both(m, n) == [v \in DOMAIN m \cup DOMAIN n |-> IF v \in DOMAIN m THEN m[v] ELSE n[v]]
With(m, ns) ==
  LET cs == SelectSeq(ns, LAMBDA n : Compatible(m, n))
  IN  [k \in DOMAIN cs |-> Both(m, cs[k])]
Join(ms, ns) == FlattenSeq([i \in DOMAIN ms |-> With(ms[i], ns)])
LeftJoin(ms, ns) ==
  FlattenSeq([i \in DOMAIN ms |-> IF With(ms[i], ns) = <<>> THEN <<ms[i]>> ELSE With(ms[i], ns)])

RECURSIVE Satisfies(_, _)
Satisfies(m, f) ==
  LET text(k) == IF f[k][1] = "var" THEN Text[m[f[k][2]]] ELSE f[k][2]
  IN  CASE f[1] = "not" -> ~ Satisfies(m, f[2])
        [] f[1] = "and" -> Satisfies(m, f[2]) /\ Satisfies(m, f[3])
        [] f[1] = "or" -> Satisfies(m, f[2]) \/ Satisfies(m, f[3])
        [] f[1] = "=" -> text(2) = text(3)
        [] f[1] = "!=" -> text(2) # text(3)
        [] f[1] = "<" -> text(2) < text(3)
        [] f[1] = "<=" -> text(2) <= text(3)
        [] f[1] = ">" -> text(2) > text(3)
        [] f[1] = ">=" -> text(2) >= text(3)

RECURSIVE Solutions(_)
Solutions(pg) ==
  LET own == IF hasVar(pg) THEN Rows(Answer[pg.bgp]) ELSE << <<>> >>
      joined == FoldLeft(LAMBDA ms, bs : Join(ms, FlattenSeq([k \in DOMAIN bs |-> Solutions(bs[k])])),
                         own, pg.unions)
      extended == FoldLeft(LAMBDA ms, o : LeftJoin(ms, Solutions(o)), joined, pg.optionals)
  IN  SelectSeq(extended, LAMBDA m : \A k \in DOMAIN pg.filters : Satisfies(m, pg.filters[k]))
-----------------------------------------------------------------------------
(* Properties                                                              *)

\* A group that always has a table before something is merged or filtered: it
\* has variables of its own or a union, all of whose branches are such groups.
RECURSIVE Grounded(_)
Grounded(pg) ==
  /\ hasVar(pg) \/ pg.unions # <<>>
  /\ \A b \in Range(FlattenSeq(pg.unions)) \cup Range(pg.optionals) : Grounded(b)

Selected(m) ==
  [k \in DOMAIN Projections |-> IF Projections[k] \in DOMAIN m THEN m[Projections[k]] ELSE Unbound]
Blank(row) == [k \in DOMAIN row |-> IF row[k] = NoText THEN Unbound ELSE row[k]]
Times(s, x) == Cardinality({i \in DOMAIN s : s[i] = x})

\* Though the basic queries are numbered by one walk over the group and read by
\* another, the plan that genEvaPlan writes for doEvaPlan never takes a table that
\* is not there nor leaves one, and the result set is what SPARQL gives for the
\* group, each row as often, as long as no merge compares an unbound variable or
\* joins tables that have nothing in common.
AnswersTheGroup ==
  Grounded(group) =>
    /\ phase # "undefined"
    /\ phase = "done" =>
         /\ evaStack = <<>>
         /\ exact =>
              LET rows == [i \in DOMAIN answer |-> Blank(answer[i])]
                  right == [i \in DOMAIN Solutions(group) |-> Selected(Solutions(group)[i])]
              IN  Len(rows) = Len(right)
                  /\ \A row \in Range(rows) : Times(rows, row) = Times(right, row)
=============================================================================

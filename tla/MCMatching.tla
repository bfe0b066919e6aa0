---------------------------- MODULE MCMatching ----------------------------
(***************************************************************************)
(* Instances for TLC that put QueryPlan and Dfs together: a small data     *)
(* graph and queries of every shape the planner distinguishes.             *)
(***************************************************************************)
EXTENDS Dfs, Integers, TLC

QP == INSTANCE QueryPlan

T(s, p, o) == [s |-> s, p |-> p, o |-> o]
K(id) == QP!Const(id)
Q(n, triples) == [var_num |-> n, triples |-> triples]

\* Vertices 0 .. 3, predicates 0 .. 1: cycles, a shared object, two predicates
\* between the same vertices, and two triples that are repeated.
Triples == <<<<0, 0, 1>>, <<0, 0, 2>>, <<1, 0, 2>>, <<2, 0, 0>>, <<0, 0, 3>>,
             <<0, 1, 1>>, <<1, 1, 3>>, <<2, 1, 3>>, <<3, 1, 0>>>>
Graph == Triples \o <<<<2, 0, 0>>, <<3, 1, 0>>>>

QueryOf(q) ==
  CASE q = "star" -> Q(3, <<T(0, 0, 1), T(0, 1, 2)>>)
    [] q = "triangle" -> Q(3, <<T(0, 0, 1), T(1, 1, 2), T(0, 0, 2)>>)
    [] q = "const" -> Q(2, <<T(0, 0, 1), T(1, 1, K(1))>>)
    [] q = "consts" -> Q(2, <<T(K(2), 0, 0), T(K(3), 1, 0), T(0, 0, 1)>>)
    [] q = "constPUs" -> Q(2, <<T(0, -1, K(1)), T(0, 0, 1), T(1, -2, K(3))>>)
    [] q = "PU" -> Q(3, <<T(0, 1, 1), T(1, -1, 2)>>)
    [] q = "PUpath" -> Q(2, <<T(0, 0, 1), T(1, -1, 0)>>)
    [] q = "sharedPU" -> Q(3, <<T(0, 1, 1), T(1, -1, 2), T(0, -1, 2)>>)
    [] q = "none" -> Q(1, <<T(0, 1, K(2))>>)

\* f, in a form of which TLC evaluates every value once; likewise list \o <<>>.
Listed(f) == f @@ <<>>

PlanFor(D, q) ==
  QP!Plan(D, QueryOf(q), QP!SetToSeq(QP!ConstPUs(QueryOf(q))), Capacity)
PlanOf == Listed([q \in Queries |-> PlanFor(Graph, q)])
AnswersOf == Listed([q \in Queries |->
  {m : m \in QP!Matches(Graph, QueryOf(q), PlanOf[q])}])
EmptyOf == Listed([q \in Queries |-> QP!NoResult(Graph, QueryOf(q))])

Terms == UNION {{t[1], t[2], t[3]} : t \in QP!Range(Graph)}
CandOf == Listed([q \in Queries |->
  Listed([ids \in Prefixes(q) |-> QP!Candidates(Graph, PlanOf[q], ids) \o <<>>])])
WaysOf == Listed([q \in Queries |->
  {m : m \in {w \in [1 .. Depth(q) -> Entries] : IsWay(q, w)}}])

\* The parameters of Dfs.
MCDepth(q) == Len(PlanOf[q].order)
MCIsVertex(q, d) == PlanOf[q].order[d + 1] >= 0
MCCand(q, ids) == CandOf[q][ids]
MCEmpty(q) == EmptyOf[q]
MCAnswers(q) == AnswersOf[q]
MCWays(q) == WaysOf[q]

ASSUME \A q \in Queries : QP!Supported(Graph, QueryOf(q), Capacity)

\* Two compers split a query of three variables, and take the tasks of another
\* between its tasks; or one comper meets a query of every shape that task_spawn
\* tells apart.
CONSTANTS Splitting, Shapes, First   \* First: the comper that is alone
ASSUME Splitting \cap Shapes = {} /\ Queries = Splitting \cup Shapes /\ First \in Compers

\* Some matches are found in several ways, but none is when each triple occurs
\* once: then no list repeats an ID.
ASSUME Shapes # {} =>
         \E q \in Queries : Cardinality(WaysOf[q]) > Cardinality(AnswersOf[q])
ASSUME \A q \in Queries : \A ids \in Prefixes(q) :
         QP!IsInjective(QP!Candidates(Triples, PlanFor(Triples, q), ids))

\* Lists that the kernels merge: see IntersectAll.
ASSUME \A type \in {"IN", "OUT"}, id \in Terms, p \in Terms :
         Len(QP!Neighbours(Graph, type, id, p)) < 4

VARIABLE batch   \* the queries that arrive
MCInit == Init /\ batch \in {Splitting, Shapes}
MCNext ==
  /\ Next /\ UNCHANGED batch
  /\ \A q \in Queries \ batch : phase'[q] = "new"
  /\ batch = Shapes => \A c \in Compers \ {First} : cur_query'[c] = NoQuery

\* FairSpec, for the second batch.
ShapesProgress(A) == batch = Shapes /\ A
MCSpec == /\ MCInit /\ [][MCNext]_<<vars, batch>>
          /\ \A q \in Shapes : WF_vars(ShapesProgress(Report(q)))
          /\ WF_vars(ShapesProgress(Comper(First)))

\* Each of these queries, once it has a task, is reported: the search of every
\* shape comes to its end, through taken values, empty lists and predicates.
EveryShapeReported == \A q \in Shapes : phase[q] = "running" ~> phase[q] = "done"
=============================================================================

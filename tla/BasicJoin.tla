----------------------------- MODULE BasicJoin -----------------------------
(***************************************************************************)
(* How gquery answers one basic graph pattern (Database::join): the        *)
(* candidates that the signature tree returned are filtered by the         *)
(* constants of the pattern, the literals that the tree does not hold are  *)
(* added, and a depth-first search joins the variables, before invalid and *)
(* repeated answers are removed.                                           *)
(*                                                                         *)
(* The graph G is the set of the data's triples, a pattern Q a query of    *)
(* QueryPlan.  An ID from LITERAL_FIRST_ID on is a literal's.  Lists of    *)
(* IDs stand as sets: an ID that a list of the store repeats gives the     *)
(* same answers again, and repeated answers are removed.                   *)
(***************************************************************************)
EXTENDS QueryPlan

CONSTANTS G, Patterns, LITERAL_FIRST_ID

VARIABLES
  pattern,    \* the pattern that is answered
  stage,      \* what was done last
  candidates, \* candidate_list: a set of IDs for each variable
  var_stack,  \* the variables to visit, the next one last
  matching_order, \* the variables in the order in which they were visited
  cur_depth,  \* how many of them the search has given a value
  results     \* result_list: assignments of IDs to these

vars == <<pattern, stage, candidates, var_stack, matching_order, cur_depth, results>>

objIDIsEntityID(id) == id < LITERAL_FIRST_ID

\* Only entities are subjects, and predicates are constants.  A triple has a variable,
\* and not the same at both ends, an edge that the search does not check; variables
\* are numbered as they come, as genQueryVec names them.
Numbered ==
  /\ IsFiniteSet(G) /\ G \subseteq Nat \X Nat \X Nat
  /\ \A t \in G : objIDIsEntityID(t[1])
  /\ \A Q \in Patterns :
       /\ Q.var_num \in Nat
       /\ Q.triples \in Seq([s : Int, p : Nat, o : Int]) \ {<<>>}
       /\ \A n \in DOMAIN Q.triples : LET t == Q.triples[n] IN
            /\ t.s # t.o /\ (t.s >= 0 \/ t.o >= 0)
            /\ {t.s, t.o} \cap Nat \subseteq Vars(Q)
       /\ LET t == Q.triples[1] IN (IF t.s >= 0 THEN t.s ELSE t.o) = 0

Nodes == UNION {{t[1], t[3]} : t \in G}
EntityNodes == {v \in Nodes : objIDIsEntityID(v)}

EdgesOf(i) == Range(Edges(pattern, i))
InEdges(i) == {e \in EdgesOf(i) : e.type = "IN"}
\* The IDs that the store's list for e and the ID at its other end holds.
ListOf(e, id) ==
  {IF e.type = "OUT" THEN t[1] ELSE t[3] :
     t \in {u \in G : u[2] = e.pre /\ (IF e.type = "OUT" THEN u[3] ELSE u[1]) = id}}
Constants(i) == {e \in EdgesOf(i) : ToConst(e)}

\* A variable that may be a literal: no edge leaves it.
isLiteralVariable(i) == InEdges(i) = EdgesOf(i)
isFreeLiteralVariable(i) == isLiteralVariable(i) /\ Constants(i) = {}

-----------------------------------------------------------------------------
(* The steps of join                                                       *)

\* The entity has an edge like e, and to the constant if e has one.
HasEdge(v, e) ==
  \E t \in G :
    /\ t[2] = e.pre
    /\ (IF e.type = "OUT" THEN t[1] ELSE t[3]) = v
    /\ ToConst(e) => (IF e.type = "OUT" THEN t[3] ELSE t[1]) = LitID(e.nei)

\* What the signature of an entity tells: which predicates enter and leave it,
\* and to which constants; some other entities look the same.
Covered(Q, i) == {v \in EntityNodes : \A e \in Range(Edges(Q, i)) : HasEdge(v, e)}

Init ==
  /\ pattern \in Patterns
  /\ stage = "retrieve"
  /\ \E more \in SUBSET EntityNodes :
       candidates = [i \in Vars(pattern) |-> Covered(pattern, i) \cup more]
  /\ var_stack = <<>> /\ matching_order = <<>> /\ cur_depth = 0
  /\ results = {}

\* literal_edge_filter of each variable: its neighbours that are constants.
filter_before_join ==
  /\ stage = "retrieve" /\ stage' = "filter_before_join"
  /\ candidates' = [i \in Vars(pattern) |->
       {v \in candidates[i] : \A e \in Constants(i) : v \in ListOf(e, LitID(e.nei))}]
  /\ UNCHANGED <<pattern, var_stack, matching_order, cur_depth, results>>

\* The objects of a constant subject; nothing, if the subject is a variable.
EdgeLiterals(e) == IF ToConst(e) THEN ListOf(e, LitID(e.nei)) ELSE {}

add_literal_candidate ==
  /\ stage = "filter_before_join" /\ stage' = "add_literal_candidate"
  /\ candidates' = [i \in Vars(pattern) |->
       candidates[i] \cup
         IF isLiteralVariable(i) /\ ~ isFreeLiteralVariable(i)
           THEN {v \in Nodes : \A e \in EdgesOf(i) : v \in EdgeLiterals(e)}
           ELSE {}]
  /\ UNCHANGED <<pattern, var_stack, matching_order, cur_depth, results>>

\* The start of the search: the variable with the fewest candidates that has an
\* edge of its own and more than one edge, or else the first.
getVarID_FirstProcessWhenJoin ==
  LET S == {i \in Vars(pattern) : ~ isLiteralVariable(i) /\ Len(Edges(pattern, i)) # 1}
  IN  IF S = {} THEN 0
      ELSE FirstLeast(S, [i \in S |-> Cardinality(candidates[i])])

\* join_basic_dfs_style begins with the start.
push_start ==
  /\ stage = "add_literal_candidate" /\ stage' = "order"
  /\ var_stack' = <<getVarID_FirstProcessWhenJoin>>
  /\ UNCHANGED <<pattern, candidates, matching_order, cur_depth, results>>

\* The neighbours of i that are not visited yet, in the order of its edges.
Unvisited(i) ==
  LET edges == Edges(pattern, i)
      at == Sorted({k \in DOMAIN edges : /\ ~ ToConst(edges[k])
                                         /\ edges[k].nei \notin Range(matching_order) \cup {i}})
  IN  [n \in DOMAIN at |-> edges[at[n]].nei]

\* A round of the loop over var_stack: a variable that is not visited yet is
\* pushed, maybe more than once; the array has room for each to be visited once.
visit ==
  /\ stage = "order" /\ var_stack # <<>>
  /\ LET i == Last(var_stack)
     IN  IF Len(matching_order) < pattern.var_num
           THEN /\ var_stack' = Front(var_stack) \o Unvisited(i)
                /\ matching_order' = Append(matching_order, i)
                /\ UNCHANGED stage
           ELSE stage' = "undefined" /\ UNCHANGED <<var_stack, matching_order>>
  /\ UNCHANGED <<pattern, candidates, cur_depth, results>>

\* generateBN: the edges of the variable at a depth to those before it.
BN(d) ==
  {e \in EdgesOf(matching_order[d]) :
     ~ ToConst(e) /\ e.nei \in {matching_order[k] : k \in 1 .. d - 1}}

\* Faulty variant: only candidates the tree knows.
LocalCands_NoLiterals(d, m) ==
  LET i == matching_order[d]
  IN  {v \in candidates[i] : \A e \in BN(d) : v \in ListOf(e, m[e.nei])}

\* The values that the variable at a depth may take after those before it.
LocalCands(d, m) ==
  LET i == matching_order[d]
      local == {v \in Nodes : BN(d) # {} /\ \A e \in BN(d) : v \in ListOf(e, m[e.nei])}
  IN  IF d = 1 THEN candidates[i]
      ELSE {v \in local : \/ v \in candidates[i]
                          \/ isFreeLiteralVariable(i) /\ ~ objIDIsEntityID(v)}

\* The order fills its array of var_num places: neither is a variable visited
\* twice, as on a cycle, nor is one left out.
FitsItsArray ==
  Len(matching_order) = pattern.var_num /\ Range(matching_order) = Vars(pattern)

\* m with a value for the variable at depth d.
Assign(m, d, v) == [i \in DOMAIN m \cup {matching_order[d]} |->
                      IF i = matching_order[d] THEN v ELSE m[i]]

start_search ==
  /\ stage = "order" /\ var_stack = <<>>
  /\ IF FitsItsArray THEN stage' = "dfs" /\ results' = {<<>>}
                     ELSE stage' = "undefined" /\ UNCHANGED results
  /\ UNCHANGED <<pattern, candidates, var_stack, matching_order, cur_depth>>

\* All branches of a depth at a time.
dfs ==
  /\ stage = "dfs" /\ cur_depth < pattern.var_num
  /\ cur_depth' = cur_depth + 1
  /\ results' = UNION {{Assign(m, cur_depth + 1, v) : v \in LocalCands(cur_depth + 1, m)} :
                         m \in results}
  /\ UNCHANGED <<pattern, stage, candidates, var_stack, matching_order>>

\* The edges of a variable to a variable that occurs nowhere else.
Lonely(i) == {e \in EdgesOf(i) : ~ ToConst(e) /\ Len(Edges(pattern, e.nei)) = 1}

\* Answers that lack the predicate of such an edge are marked, and removed with
\* the repeated ones (dupRemoval_invalidRemoval).
only_pre_filter_after_join ==
  /\ stage = "dfs" /\ cur_depth = pattern.var_num /\ stage' = "done"
  /\ results' = {m \in results : \A i \in Vars(pattern) : \A e \in Lonely(i) :
                   \E t \in G : t[2] = e.pre /\ (IF e.type = "OUT" THEN t[1] ELSE t[3]) = m[i]}
  /\ UNCHANGED <<pattern, candidates, var_stack, matching_order, cur_depth>>

Next == \/ filter_before_join \/ add_literal_candidate
        \/ push_start \/ visit \/ start_search \/ dfs
        \/ only_pre_filter_after_join

Spec == Init /\ [][Next]_vars
-----------------------------------------------------------------------------
(* Properties                                                              *)

Homomorphisms ==
  {m \in [Vars(pattern) -> Nodes] : \A n \in DOMAIN pattern.triples :
     LET t == pattern.triples[n]
         term(x) == IF x < 0 THEN LitID(x) ELSE m[x]
     IN  <<term(t.s), t.p, term(t.o)>> \in G}

\* A literal variable between a constant and another variable gets no literal
\* candidate at all: the empty list of the one edge is intersected with the other.
Starved(i) == isLiteralVariable(i) /\ Constants(i) # {} /\ Constants(i) # EdgesOf(i)

TypeOK == /\ pattern \in Patterns
          /\ stage \in {"retrieve", "filter_before_join", "add_literal_candidate",
                        "order", "dfs", "undefined", "done"}
          /\ \A i \in Vars(pattern) : candidates[i] \subseteq Nodes

\* Whatever other entities the signature tree takes for candidates, whichever
\* variable the search starts with, and though literals come in at three places:
\* gquery answers a pattern whose variables form a tree with matches in the data,
\* each of them once, and with all unless a literal variable starves
\* (Database::join).  (The types come with it.)
AnswersAreTheMatches ==
  /\ TypeOK
  /\ stage = "done" =>
       /\ results \subseteq Homomorphisms
       /\ (\A i \in Vars(pattern) : ~ Starved(i)) => results = Homomorphisms
=============================================================================

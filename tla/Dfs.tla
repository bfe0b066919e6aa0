-------------------------------- MODULE Dfs --------------------------------
(***************************************************************************)
(* The search of app_rdf/app_rdf.h: dfs_iterative_style_HW, run by compers *)
(* on the tasks of several queries.                                        *)
(*                                                                         *)
(* A task is a partial match: the values of the first depths of the        *)
(* matching order.  A comper extends it depth by depth, keeping the        *)
(* candidates of each depth in can_lists and its place in them in idx and  *)
(* idx_count, and marks in visited_arr the values its vertices have.  Once *)
(* it has worked longer than TIME_THRESHOLD it goes no deeper: it leaves   *)
(* each candidate of its depth to a new task.  All these arrays belong to  *)
(* the comper and outlive the task, so that what a task leaves behind, the *)
(* next one, maybe of another query, finds.                                *)
(*                                                                         *)
(* Which comper takes which task when is left open (Scheduler settles it), *)
(* and that a query is reported when it has no task left is what TaskProg  *)
(* establishes.  result_var is kept up to cur_depth: what lies behind is   *)
(* written before it is read.  The data and the plan of a query are        *)
(* parameters: see QueryPlan.                                              *)
(*                                                                         *)
(* A list of candidates may hold an ID more than once, as the lists of the *)
(* store do when a triple is repeated in the data, and the search visits   *)
(* every entry.  An entry is an ID and its place in its list.  The places  *)
(* tell apart, in the model, the ways to find the same match; the code     *)
(* keeps and compares the IDs only.                                        *)
(***************************************************************************)
EXTENDS Naturals, Sequences, FiniteSets, Bags

CONSTANTS
  Compers, Queries,
  Values,            \* the IDs of the data
  Capacity,          \* elements of an array of can_lists: entity_num + literal_num
  Depth(_),          \* var_num + pre_var_num of a query
  IsVertex(_, _),    \* is the query's matching_order[d] a vertex, not a PU?
  Cand(_, _),        \* the list of candidates of a query after some IDs
  Empty(_),          \* queries that task_spawn gives no task
  Slow,              \* queries whose tasks may exceed TIME_THRESHOLD
  Answers(_),        \* the matches of a query, as IDs
  Ways(_),           \* the ways to find them, as entries
  NoQuery

ASSUME DfsAssumption ==
  /\ IsFiniteSet(Queries)
  /\ NoQuery \notin Queries
  /\ Slow \subseteq Queries
  /\ \A q \in Queries : Depth(q) \in Nat \ {0}

Entries == Values \X (1 .. Capacity)
ID(entry) == entry[1]
IDs(rv) == [d \in DOMAIN rv |-> ID(rv[d])]

\* The entries of the list of candidates after a partial match.
CandList(q, rv) ==
  LET ids == Cand(q, IDs(rv)) IN [k \in 1 .. Len(ids) |-> <<ids[k], k>>]

\* The partial matches that leave something to find.
Prefixes(q) == UNION {[1 .. n -> Values] : n \in 0 .. Depth(q) - 1}

\* A full match is made of candidates, and no two vertices share an ID.
IsWay(q, m) ==
  /\ \A d \in 0 .. Depth(q) - 1 :
       \E k \in 1 .. Len(CandList(q, SubSeq(m, 1, d))) :
          CandList(q, SubSeq(m, 1, d))[k] = m[d + 1]
  /\ \A i, j \in {d \in 0 .. Depth(q) - 1 : IsVertex(q, d)} :
       ID(m[i + 1]) = ID(m[j + 1]) => i = j

\* The lists fit into the arrays, and lead to the matches and to nothing else,
\* but to a match in several ways where they repeat its IDs.
ASSUME PlanAssumption ==
  /\ Capacity \in Nat
  /\ \A q \in Queries :
       /\ \A ids \in Prefixes(q) :
            Cand(q, ids) \in Seq(Values) /\ Len(Cand(q, ids)) <= Capacity
       /\ Ways(q) = {m \in [1 .. Depth(q) -> Entries] : IsWay(q, m)}
       /\ ~ Empty(q) => Answers(q) = {IDs(m) : m \in Ways(q)}

VARIABLES
  phase,       \* of a query: "new", "running" or "done"
  tasks,       \* of a query: the bag of partial matches waiting in its queues
  found,       \* of a query: its p_result_list, a bag of matches
  \* Of a comper
  cur_query,   \* the query of its task, or NoQuery
  enter_depth, \* the depth its task starts at
  cur_depth, result_var, can_lists, idx, idx_count, visited_arr,
  late         \* has countElaspedTime passed TIME_THRESHOLD?

search == <<cur_query, enter_depth, cur_depth, result_var, can_lists, idx,
            idx_count, visited_arr, late>>
vars == <<phase, tasks, found, search>>

MaxDepth == CHOOSE n \in {Depth(q) : q \in Queries} :
              \A q \in Queries : Depth(q) <= n
Depths == 0 .. MaxDepth - 1

\* idx and idx_count have no initial value in the code; a search sets those of
\* its depths before it reads them (but see Enter).
Init ==
  /\ phase = [q \in Queries |-> "new"]
  /\ tasks = [q \in Queries |-> EmptyBag]
  /\ found = [q \in Queries |-> EmptyBag]
  /\ cur_query = [c \in Compers |-> NoQuery]
  /\ enter_depth = [c \in Compers |-> 0]
  /\ cur_depth = [c \in Compers |-> 0]
  /\ result_var = [c \in Compers |-> <<>>]
  /\ can_lists = [c \in Compers |-> [d \in Depths |-> <<>>]]
  /\ idx = [c \in Compers |-> [d \in Depths |-> 0]]
  /\ idx_count = [c \in Compers |-> [d \in Depths |-> 0]]
  /\ visited_arr = [c \in Compers |-> {}]
  /\ late = [c \in Compers |-> FALSE]

\* The values the vertices among the first depths have.
VertexValues(q, rv) == {ID(rv[d + 1]) : d \in {e \in 0 .. Len(rv) - 1 : IsVertex(q, e)}}

\* memcpy to the front of an array: what was behind stays.
Overwrite(old, new) == new \o SubSeq(old, Len(new) + 1, Len(old))

Bagged(x) == SetToBag({x})

\* task_spawn: the root task, unless a constant edge has no match.
Spawn(q) ==
  /\ phase[q] = "new"
  /\ ~ Empty(q)
  /\ phase' = [phase EXCEPT ![q] = "running"]
  /\ tasks' = [tasks EXCEPT ![q] = Bagged(<<>>)]
  /\ UNCHANGED <<found, search>>

\* compute: a task enters the search at its depth.  At a PU's depth other
\* than 0 the code sets idx[0] and idx_count[0], not those of the depth.
Enter(c, q) ==
  /\ cur_query[c] = NoQuery
  /\ \E rv \in BagToSet(tasks[q]) :
       LET d == Len(rv)
           cands == CandList(q, rv)
           at == IF IsVertex(q, d) THEN d ELSE 0
       IN
       /\ tasks' = [tasks EXCEPT ![q] = @ (-) Bagged(rv)]
       /\ cur_query' = [cur_query EXCEPT ![c] = q]
       /\ enter_depth' = [enter_depth EXCEPT ![c] = d]
       /\ cur_depth' = [cur_depth EXCEPT ![c] = d]
       /\ result_var' = [result_var EXCEPT ![c] = rv]
       /\ can_lists' = [can_lists EXCEPT ![c][d] = Overwrite(@, cands)]
       /\ idx' = [idx EXCEPT ![c][at] = 0]
       /\ idx_count' = [idx_count EXCEPT ![c][at] = Len(cands)]
       /\ visited_arr' = [visited_arr EXCEPT ![c] = @ \cup VertexValues(q, rv)]
       /\ late' = [late EXCEPT ![c] = FALSE]
  /\ UNCHANGED <<phase, found>>

\* Time passes.
GetLate(c) ==
  /\ cur_query[c] \in Slow
  /\ ~ late[c]
  /\ late' = [late EXCEPT ![c] = TRUE]
  /\ UNCHANGED <<phase, tasks, found, cur_query, enter_depth, cur_depth,
                 result_var, can_lists, idx, idx_count, visited_arr>>

-----------------------------------------------------------------------------
(* The loop over the candidates of cur_depth                               *)

HasCandidate(c) == /\ cur_query[c] # NoQuery
                   /\ idx[c][cur_depth[c]] < idx_count[c][cur_depth[c]]
Candidate(c) == can_lists[c][cur_depth[c]][idx[c][cur_depth[c]] + 1]
AtVertex(c) == IsVertex(cur_query[c], cur_depth[c])
Taken(c) == AtVertex(c) /\ ID(Candidate(c)) \in visited_arr[c]
AtLast(c) == cur_depth[c] = Depth(cur_query[c]) - 1
Extended(c) == Append(result_var[c], Candidate(c))
Advance(c) == idx' = [idx EXCEPT ![c][cur_depth[c]] = @ + 1]
Mark(c, S) == IF AtVertex(c) THEN S \cup {ID(Candidate(c))} ELSE S

\* Faulty variant: the index is not advanced.
SkipTaken_Stays(c) ==
  /\ HasCandidate(c)
  /\ Taken(c)
  /\ UNCHANGED vars

\* get_visited_arr: another vertex of the match has this value.
SkipTaken(c) ==
  /\ HasCandidate(c)
  /\ Taken(c)
  /\ Advance(c)
  /\ UNCHANGED <<phase, tasks, found, cur_query, enter_depth, cur_depth,
                 result_var, can_lists, idx_count, visited_arr, late>>

\* The last depth: a match.  The value is marked and unmarked again.
Match(c) ==
  /\ HasCandidate(c)
  /\ ~ Taken(c)
  /\ AtLast(c)
  /\ Advance(c)
  /\ found' = [found EXCEPT ![cur_query[c]] = @ (+) Bagged(Extended(c))]
  /\ UNCHANGED <<phase, tasks, cur_query, enter_depth, cur_depth, result_var,
                 can_lists, idx_count, visited_arr, late>>

\* Before the last depth, in time: the value is marked, and the candidates of
\* the next depth are listed from the first.
Descend(c) ==
  LET d == cur_depth[c]
      cands == CandList(cur_query[c], Extended(c))
  IN
  /\ HasCandidate(c)
  /\ ~ Taken(c)
  /\ ~ AtLast(c)
  /\ ~ late[c]
  /\ visited_arr' = [visited_arr EXCEPT ![c] = Mark(c, @)]
  /\ result_var' = [result_var EXCEPT ![c] = Extended(c)]
  /\ cur_depth' = [cur_depth EXCEPT ![c] = d + 1]
  /\ can_lists' = [can_lists EXCEPT ![c][d + 1] = Overwrite(@, cands)]
  /\ idx' = [idx EXCEPT ![c][d] = @ + 1, ![c][d + 1] = 0]
  /\ idx_count' = [idx_count EXCEPT ![c][d + 1] = Len(cands)]
  /\ UNCHANGED <<phase, tasks, found, cur_query, enter_depth, late>>

\* Faulty variant: the task is created without its own value.
Split_OldPrefix(c) ==
  /\ HasCandidate(c)
  /\ ~ Taken(c)
  /\ ~ AtLast(c)
  /\ late[c]
  /\ Advance(c)
  /\ tasks' = [tasks EXCEPT ![cur_query[c]] = @ (+) Bagged(result_var[c])]
  /\ UNCHANGED <<phase, found, cur_query, enter_depth, cur_depth, result_var,
                 can_lists, idx_count, visited_arr, late>>

\* add_task: the candidate's subtree is left to a new task.  It is marked and
\* unmarked again.
Split(c) ==
  /\ HasCandidate(c)
  /\ ~ Taken(c)
  /\ ~ AtLast(c)
  /\ late[c]
  /\ Advance(c)
  /\ tasks' = [tasks EXCEPT ![cur_query[c]] = @ (+) Bagged(Extended(c))]
  /\ UNCHANGED <<phase, found, cur_query, enter_depth, cur_depth, result_var,
                 can_lists, idx_count, visited_arr, late>>

\* Faulty variant: the value of the depth above is not unmarked.
Backtrack_LeavesMark(c) ==
  LET d == cur_depth[c] - 1 IN
  /\ cur_query[c] # NoQuery
  /\ ~ HasCandidate(c)
  /\ cur_depth[c] > enter_depth[c]
  /\ cur_depth' = [cur_depth EXCEPT ![c] = d]
  /\ result_var' = [result_var EXCEPT ![c] = SubSeq(@, 1, d)]
  /\ UNCHANGED <<phase, tasks, found, cur_query, enter_depth, can_lists, idx,
                 idx_count, visited_arr, late>>

\* No candidate left: back to the depth above, whose value is unmarked.
Backtrack(c) ==
  LET d == cur_depth[c] - 1 IN
  /\ cur_query[c] # NoQuery
  /\ ~ HasCandidate(c)
  /\ cur_depth[c] > enter_depth[c]
  /\ cur_depth' = [cur_depth EXCEPT ![c] = d]
  /\ result_var' = [result_var EXCEPT ![c] = SubSeq(@, 1, d)]
  /\ visited_arr' = [visited_arr EXCEPT ![c] =
                       IF IsVertex(cur_query[c], d)
                         THEN @ \ {ID(result_var[c][d + 1])} ELSE @]
  /\ UNCHANGED <<phase, tasks, found, cur_query, enter_depth, can_lists, idx,
                 idx_count, late>>

\* The task and the local variables of its search are gone.
EndTask(c) ==
  /\ cur_query' = [cur_query EXCEPT ![c] = NoQuery]
  /\ enter_depth' = [enter_depth EXCEPT ![c] = 0]
  /\ cur_depth' = [cur_depth EXCEPT ![c] = 0]
  /\ result_var' = [result_var EXCEPT ![c] = <<>>]
  /\ late' = [late EXCEPT ![c] = FALSE]

\* Faulty variant: the values the task came with stay marked.
Leave_KeepsMarks(c) ==
  /\ cur_query[c] # NoQuery
  /\ ~ HasCandidate(c)
  /\ cur_depth[c] = enter_depth[c]
  /\ EndTask(c)
  /\ UNCHANGED <<phase, tasks, found, can_lists, idx, idx_count, visited_arr>>

\* No candidate left at the depth the task entered at: the values it came with
\* are unmarked and the task is done.
Leave(c) ==
  /\ cur_query[c] # NoQuery
  /\ ~ HasCandidate(c)
  /\ cur_depth[c] = enter_depth[c]
  /\ EndTask(c)
  /\ visited_arr' = [visited_arr EXCEPT ![c] =
                       @ \ VertexValues(cur_query[c], result_var[c])]
  /\ UNCHANGED <<phase, tasks, found, can_lists, idx, idx_count>>

\* postprocess, when the last task of the query is done.
Report(q) ==
  /\ phase[q] = "running"
  /\ tasks[q] = EmptyBag
  /\ \A c \in Compers : cur_query[c] # q
  /\ phase' = [phase EXCEPT ![q] = "done"]
  /\ UNCHANGED <<tasks, found, search>>

-----------------------------------------------------------------------------

Work(c) == \/ SkipTaken(c) \/ Match(c) \/ Descend(c) \/ Split(c)
           \/ Backtrack(c) \/ Leave(c)

Comper(c) == (\E q \in Queries : Enter(c, q)) \/ Work(c)

Next == \/ \E q \in Queries : Spawn(q) \/ Report(q)
        \/ \E c \in Compers : Comper(c) \/ GetLate(c)

Spec == Init /\ [][Next]_vars

\* Threads run; time need not pass.
FairSpec == /\ Spec
            /\ \A q \in Queries : WF_vars(Spawn(q)) /\ WF_vars(Report(q))
            /\ \A c \in Compers : WF_vars(Comper(c))

-----------------------------------------------------------------------------
(* Properties                                                              *)

\* Depths stay in the matching order and indexes in what was written.
TypeOK ==
  /\ phase \in [Queries -> {"new", "running", "done"}]
  /\ \A q \in Queries : IsABag(tasks[q]) /\ IsABag(found[q])
  /\ cur_query \in [Compers -> Queries \cup {NoQuery}]
  /\ \A c \in Compers : cur_query[c] # NoQuery =>
       /\ enter_depth[c] \in 0 .. cur_depth[c]
       /\ cur_depth[c] = Len(result_var[c])
       /\ cur_depth[c] < Depth(cur_query[c])
       /\ \A d \in enter_depth[c] .. cur_depth[c] :
            /\ idx[c][d] <= idx_count[c][d]
            /\ idx_count[c][d] <= Len(can_lists[c][d])

\* visited_arr marks exactly the values of the vertices matched so far, each
\* once, and nothing between tasks: a mark left behind would hide matches of
\* whichever task the comper takes next (app_rdf.h 1421-1662).  (The types come
\* with it.)
VisitedIsThePath ==
  /\ TypeOK
  /\ \A c \in Compers :
       visited_arr[c] = IF cur_query[c] = NoQuery THEN {}
                        ELSE VertexValues(cur_query[c], result_var[c])

\* What a comper still holds: the ways to a match below the candidates it has yet
\* to look at, at each depth of its task.
Below(rv, m) == Len(rv) <= Len(m) /\ SubSeq(m, 1, Len(rv)) = rv

Copies(x, B) == IF BagIn(x, B) THEN B[x] ELSE 0

HeldBy(c, m) ==
  \E d \in enter_depth[c] .. cur_depth[c] :
    \E k \in idx[c][d] + 1 .. idx_count[c][d] :
      Below(Append(SubSeq(result_var[c], 1, d), can_lists[c][d][k]), m)

\* However the search is split, each way to find a match of a running query is at
\* one place: found, below a waiting task or below an unread candidate of a comper.
EachWayAtOnePlace ==
  \A q \in {r \in Queries : phase[r] = "running"} : \A m \in Ways(q) :
    LET waiting == {rv \in BagToSet(tasks[q]) : Below(rv, m)}
        holders == {c \in Compers : cur_query[c] = q /\ HeldBy(c, m)}
    IN  /\ \A rv \in waiting : Copies(rv, tasks[q]) = 1
        /\ Copies(m, found[q]) + Cardinality(waiting) + Cardinality(holders) = 1

\* A query is reported with its matches, with predicate variables too (README.md
\* 84), each as often as there are ways to find it.
ReportedIsComplete ==
  \A q \in Queries : phase[q] = "done" =>
    /\ found[q] = SetToBag(Ways(q))
    /\ {IDs(m) : m \in BagToSet(found[q])} = Answers(q)

\* The search takes each way to a match of a query once, whichever tasks take it,
\* no other, and all of them before the query is reported.
E == INSTANCE Enumeration WITH
       answer <- found, reported <- {q \in Queries : phase[q] = "done"}
ImplementsEnumeration == E!Spec
=============================================================================

-------------------------- MODULE QueryCompletion --------------------------
(***************************************************************************)
(* What the task framework of T-RDF promises to whoever submits a query,   *)
(* without saying how: a query is spawned as at most one root task, an     *)
(* unfinished task may split off further tasks of its query, every task    *)
(* is computed once, and the query is reported done at most once and only  *)
(* when every task ever created for it has been computed.                  *)
(*                                                                         *)
(* TaskProg implements this specification with one progress object per    *)
(* task and no global count.                                               *)
(***************************************************************************)
CONSTANTS Queries, Tasks

VARIABLES issued,    \* issued[q]: the tasks created for query q so far
          finished,  \* the tasks whose computation is over
          done       \* the queries reported done

vars == <<issued, finished, done>>

Init == /\ issued = [q \in Queries |-> {}]
        /\ finished = {}
        /\ done = {}

IsFresh(t) == \A q \in Queries : t \notin issued[q]

\* The query gets its root task.
Root(q, t) == /\ issued[q] = {}
              /\ q \notin done
              /\ IsFresh(t)
              /\ issued' = [issued EXCEPT ![q] = {t}]
              /\ UNCHANGED <<finished, done>>

\* Task t, not finished yet, hands part of its work to a new task u.
Split(q, t, u) == /\ t \in issued[q] \ finished
                  /\ IsFresh(u)
                  /\ issued' = [issued EXCEPT ![q] = @ \cup {u}]
                  /\ UNCHANGED <<finished, done>>

Finish(q, t) == /\ t \in issued[q] \ finished
                /\ finished' = finished \cup {t}
                /\ UNCHANGED <<issued, done>>

\* The query's owner is told once; nothing of it is left to compute.
Report(q) == /\ q \notin done
             /\ issued[q] # {}
             /\ issued[q] \subseteq finished
             /\ done' = done \cup {q}
             /\ UNCHANGED <<issued, finished>>

Next == \E q \in Queries :
            \/ Report(q)
            \/ \E t \in Tasks : \/ Root(q, t)
                                \/ Finish(q, t)
                                \/ \E u \in Tasks : Split(q, t, u)

Spec == Init /\ [][Next]_vars
=============================================================================

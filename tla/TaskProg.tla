------------------------------ MODULE TaskProg ------------------------------
(***************************************************************************)
(* The task progress table of system/TaskProgMap.h and the protocol of     *)
(* system/comperOL.h that uses it to find out when a query is over.        *)
(*                                                                         *)
(* Every task has a progress object (task_prog) that counts the children   *)
(* the task has split off and that are not settled yet.  A comper that     *)
(* ends a computation marks the task's object completed; whoever brings a  *)
(* completed object to count zero erases it and decrements the count of    *)
(* its parent, and so on up to the root, whose removal ends the query.     *)
(*                                                                         *)
(* This module leaves the queues out: a task that waits in Qreg, in a      *)
(* spill file or in a comper's collector is simply in `pending'.           *)
(* Scheduler implements this module with the queues and the locks.         *)
(*                                                                         *)
(* The critical sections under prog_lock and under a bucket's lock are one *)
(* action each; everything between two of them is interleaved.  t_counter  *)
(* is an atomic<int>: the increment in add_task needs no lock to be one    *)
(* step.  A task id is never used twice (the 2^32 ids of a comper's seqno  *)
(* are not exhausted), so the fields of an erased object keep their last   *)
(* value here: parent_tid[prog[c]] and query_id[prog[c]] stand for the     *)
(* locals parent_id and query_id, which backtrack() reads before it        *)
(* deletes the object.  NoDanglingProg is about all other looks at one.    *)
(***************************************************************************)
EXTENDS Naturals, FiniteSets

CONSTANTS Compers, Queries, Tasks,
          NoTask,   \* the parent_tid of a root task, -1 in the code
          NoQuery   \* a query id that was never assigned

ASSUME NoTaskAssumption == NoTask \notin Tasks

VARIABLES
  qstate,      \* where each query is: see QueryStates
  prog_map,    \* global_prog_map: the ids that have a progress object
  parent_tid,  \* task_prog fields
  query_id,
  t_counter,
  completed,
  pending,     \* tasks created and not yet picked up by a comper
  pc,          \* what each comper is doing
  cur_tid,     \* the comper's current task
  cur_qid,     \* the comper's current query
  prog,        \* local of backtrack(): the object being erased
  add_root_task_tag,  \* the comper's flag: a task added now has no parent
  \* History variables: no action's guard reads them but for fresh ids
  born,        \* the tasks ever created
  settled,     \* the tasks whose parent has been told (the root: query gone)
  anc          \* anc[t]: the proper ancestors of task t

progVars == <<prog_map, parent_tid, query_id, t_counter, completed>>
comperVars == <<pc, cur_tid, cur_qid, prog, add_root_task_tag>>
history == <<born, settled, anc>>
vars == <<qstate, progVars, pending, comperVars, history>>

QueryStates == {"waiting",   \* in query_que, or not received yet
                "spawning",  \* a comper runs task_spawn for it
                "active",    \* its task_container is in activeQ_list
                "done"}      \* removed from activeQ_list, notification sent

PCs == {"free", "spawn", "compute", "erase", "get", "dec", "finish"}

-----------------------------------------------------------------------------
Init ==
  /\ qstate = [q \in Queries |-> "waiting"]
  /\ prog_map = {}
  /\ parent_tid = [t \in Tasks |-> NoTask]
  /\ query_id = [t \in Tasks |-> NoQuery]
  /\ t_counter = [t \in Tasks |-> 0]
  /\ completed = [t \in Tasks |-> FALSE]
  /\ pending = {}
  /\ pc = [c \in Compers |-> "free"]
  /\ cur_tid = [c \in Compers |-> NoTask]
  /\ cur_qid = [c \in Compers |-> NoQuery]
  /\ prog = [c \in Compers |-> NoTask]
  /\ add_root_task_tag = [c \in Compers |-> FALSE]
  /\ born = {}
  /\ settled = {}
  /\ anc = [t \in Tasks |-> {}]

-----------------------------------------------------------------------------
(* Spawning: get_and_process_tasks takes a query from query_que.           *)

\* The comper has a new task_container and calls task_spawn, with
\* add_root_task_tag set.
StartSpawn(c, q) ==
  /\ pc[c] = "free"
  /\ qstate[q] = "waiting"
  /\ qstate' = [qstate EXCEPT ![q] = "spawning"]
  /\ cur_qid' = [cur_qid EXCEPT ![c] = q]
  /\ add_root_task_tag' = [add_root_task_tag EXCEPT ![c] = TRUE]
  /\ pc' = [pc EXCEPT ![c] = "spawn"]
  /\ UNCHANGED <<progVars, pending, cur_tid, prog, history>>

\* A new progress object, and the push of its task.
NewTask(q, t, p, as) ==
  /\ t \notin born
  /\ born' = born \cup {t}
  /\ parent_tid' = [parent_tid EXCEPT ![t] = p]
  /\ query_id' = [query_id EXCEPT ![t] = q]
  /\ completed' = [completed EXCEPT ![t] = FALSE]
  /\ prog_map' = prog_map \cup {t}
  /\ pending' = pending \cup {t}
  /\ anc' = [anc EXCEPT ![t] = as]

\* add_task: with the flag set the task is a root; otherwise it is a child of
\* the comper's current task, counted before it is pushed.
add_task(c, t) ==
  \/ /\ add_root_task_tag[c]
     /\ NewTask(cur_qid[c], t, NoTask, {})
     /\ t_counter' = [t_counter EXCEPT ![t] = 0]
  \/ /\ ~ add_root_task_tag[c]
     /\ NewTask(cur_qid[c], t, cur_tid[c], anc[cur_tid[c]] \cup {cur_tid[c]})
     /\ t_counter' = [t_counter EXCEPT ![t] = 0, ![cur_tid[c]] = @ + 1]

\* task_spawn of the RDF application adds one root task; on its early
\* returns ("NO RESULT FOR THIS QUERY") it adds none.
HasRoot(q) == \E t \in born : query_id[t] = q /\ parent_tid[t] = NoTask

AddRootTask(c, t) ==
  /\ pc[c] = "spawn"
  /\ ~ HasRoot(cur_qid[c])
  /\ add_task(c, t)
  /\ UNCHANGED <<qstate, comperVars, settled>>

\* Faulty variant: the flag stays set, so that the comper's next split makes
\* a task without a parent.
EndSpawn_TagLeftSet(c) ==
  /\ pc[c] = "spawn"
  /\ qstate' = [qstate EXCEPT ![cur_qid[c]] = "active"]
  /\ pc' = [pc EXCEPT ![c] = "free"]
  /\ UNCHANGED <<progVars, pending, cur_tid, cur_qid, prog, add_root_task_tag,
                 history>>

\* activeQ_list.push_back(tc); only now can a comper see the root task.
EndSpawn(c) ==
  /\ pc[c] = "spawn"
  /\ qstate' = [qstate EXCEPT ![cur_qid[c]] = "active"]
  /\ add_root_task_tag' = [add_root_task_tag EXCEPT ![c] = FALSE]
  /\ pc' = [pc EXCEPT ![c] = "free"]
  /\ UNCHANGED <<progVars, pending, cur_tid, cur_qid, prog, history>>

-----------------------------------------------------------------------------
(* Computing a task and splitting it.                                      *)

Take(c, t) ==
  /\ pc[c] = "free"
  /\ t \in pending
  /\ qstate[query_id[t]] = "active"
  /\ pending' = pending \ {t}
  /\ cur_tid' = [cur_tid EXCEPT ![c] = t]
  /\ cur_qid' = [cur_qid EXCEPT ![c] = query_id[t]]
  /\ pc' = [pc EXCEPT ![c] = "compute"]
  /\ UNCHANGED <<qstate, progVars, prog, add_root_task_tag, history>>

\* Faulty variant for the mutation checks: the parent forgets to count.
AddTask_Uncounted(c, t) ==
  /\ pc[c] = "compute"
  /\ NewTask(cur_qid[c], t, cur_tid[c], anc[cur_tid[c]] \cup {cur_tid[c]})
  /\ t_counter' = [t_counter EXCEPT ![t] = 0]
  /\ UNCHANGED <<qstate, comperVars, settled>>

\* add_task from inside compute().
AddTask(c, t) ==
  /\ pc[c] = "compute"
  /\ add_task(c, t)
  /\ UNCHANGED <<qstate, comperVars, settled>>

-----------------------------------------------------------------------------
(* backtrack(task->prog), called when compute() returns.                   *)

\* Faulty variant: the task is taken for settled whatever its children do.
Complete_IgnoresChildren(c) ==
  /\ pc[c] = "compute"
  /\ completed' = [completed EXCEPT ![cur_tid[c]] = TRUE]
  /\ prog' = [prog EXCEPT ![c] = cur_tid[c]]
  /\ pc' = [pc EXCEPT ![c] = "erase"]
  /\ UNCHANGED <<qstate, prog_map, parent_tid, query_id, t_counter, pending,
                 cur_tid, cur_qid, add_root_task_tag, history>>

\* Under prog_lock: set completed and look at the count.
Complete(c) ==
  /\ pc[c] = "compute"
  /\ completed' = [completed EXCEPT ![cur_tid[c]] = TRUE]
  /\ IF t_counter[cur_tid[c]] = 0
       THEN /\ prog' = [prog EXCEPT ![c] = cur_tid[c]]
            /\ pc' = [pc EXCEPT ![c] = "erase"]
       ELSE /\ pc' = [pc EXCEPT ![c] = "free"]
            /\ UNCHANGED prog
  /\ UNCHANGED <<qstate, prog_map, parent_tid, query_id, t_counter, pending,
                 cur_tid, cur_qid, add_root_task_tag, history>>

\* The head of the while(flag) loop: read parent_tid, erase, delete; at a root
\* the flag is set for postprocess.
Erase(c) ==
  /\ pc[c] = "erase"
  /\ prog_map' = prog_map \ {prog[c]}
  /\ IF parent_tid[prog[c]] = NoTask
       THEN /\ pc' = [pc EXCEPT ![c] = "finish"]
            /\ add_root_task_tag' = [add_root_task_tag EXCEPT ![c] = TRUE]
       ELSE /\ pc' = [pc EXCEPT ![c] = "get"]
            /\ UNCHANGED add_root_task_tag
  /\ UNCHANGED <<qstate, parent_tid, query_id, t_counter, completed, pending,
                 cur_tid, cur_qid, prog, history>>

\* prog = global_prog_map->get(parent_id), which asserts that it is there.
GetParent(c) ==
  /\ pc[c] = "get"
  /\ pc' = [pc EXCEPT ![c] = "dec"]
  /\ UNCHANGED <<qstate, progVars, pending, cur_tid, cur_qid, prog,
                 add_root_task_tag, history>>

\* Under the parent's prog_lock: t_counter--, then what to do next.
SettleInParent(c, flag) ==
  LET p == parent_tid[prog[c]]
  IN /\ pc[c] = "dec"
     /\ t_counter' = [t_counter EXCEPT ![p] = @ - 1]
     /\ settled' = settled \cup {prog[c]}
     /\ prog' = [prog EXCEPT ![c] = IF flag THEN p ELSE NoTask]
     /\ pc' = [pc EXCEPT ![c] = IF flag THEN "erase" ELSE "free"]
     /\ UNCHANGED <<qstate, prog_map, parent_tid, query_id, completed, pending,
                    cur_tid, cur_qid, add_root_task_tag, born, anc>>

\* Faulty variants: the parent may still be computing; children remain; the
\* count is read before it is decremented.
DecParent_IgnoresCompleted(c) ==
  LET p == parent_tid[prog[c]] IN SettleInParent(c, t_counter[p] = 1)
DecParent_IgnoresCount(c) ==
  LET p == parent_tid[prog[c]] IN SettleInParent(c, completed[p])
DecParent_StaleCount(c) ==
  LET p == parent_tid[prog[c]]
  IN SettleInParent(c, completed[p] /\ t_counter[p] = 0)

\* The comper erases the parent if it is completed and has no child left.
DecParent(c) ==
  LET p == parent_tid[prog[c]]
  IN SettleInParent(c, completed[p] /\ t_counter[p] = 1)

\* parent_id == -1: under the write lock of activeQ_list, close the files,
\* delete the container, drop the query from the list and notify the client.
FinishQuery(c) ==
  /\ pc[c] = "finish"
  /\ qstate' = [qstate EXCEPT ![query_id[prog[c]]] = "done"]
  /\ settled' = settled \cup {prog[c]}
  /\ prog' = [prog EXCEPT ![c] = NoTask]
  /\ add_root_task_tag' = [add_root_task_tag EXCEPT ![c] = FALSE]
  /\ pc' = [pc EXCEPT ![c] = "free"]
  /\ UNCHANGED <<progVars, pending, cur_tid, cur_qid, born, anc>>

-----------------------------------------------------------------------------
Comper(c) ==
  \/ \E q \in Queries : StartSpawn(c, q)
  \/ \E t \in Tasks : AddRootTask(c, t) \/ Take(c, t) \/ AddTask(c, t)
  \/ EndSpawn(c)
  \/ Complete(c)
  \/ Erase(c)
  \/ GetParent(c)
  \/ DecParent(c)
  \/ FinishQuery(c)

Next == \E c \in Compers : Comper(c)

Spec == Init /\ [][Next]_vars
-----------------------------------------------------------------------------
(* Properties                                                              *)

TypeOK ==
  /\ qstate \in [Queries -> QueryStates]
  /\ prog_map \subseteq Tasks
  /\ parent_tid \in [Tasks -> Tasks \cup {NoTask}]
  /\ query_id \in [Tasks -> Queries \cup {NoQuery}]
  /\ t_counter \in [Tasks -> Nat]
  /\ completed \in [Tasks -> BOOLEAN]
  /\ pending \subseteq Tasks
  /\ pc \in [Compers -> PCs]
  /\ cur_tid \in [Compers -> Tasks \cup {NoTask}]
  /\ cur_qid \in [Compers -> Queries \cup {NoQuery}]
  /\ prog \in [Compers -> Tasks \cup {NoTask}]
  /\ add_root_task_tag \in [Compers -> BOOLEAN]
  /\ born \subseteq Tasks
  /\ settled \subseteq Tasks
  /\ anc \in [Tasks -> SUBSET Tasks]

Kids(t) == {u \in born \ settled : parent_tid[u] = t}

\* The count of a live progress object is the number of children whose
\* completion the parent has not been told: it is incremented by the parent
\* without a lock and decremented by the children under it.
CounterExact == \A t \in prog_map : t_counter[t] = Cardinality(Kids(t))

\* A query leaves activeQ_list, and its client is notified, only when every
\* task ever created for it has been computed and has no progress object any
\* more; and no comper computes a task of a query whose container is deleted.
NoEarlyFinish ==
  /\ \A t \in born : qstate[query_id[t]] = "done" =>
        t \in settled /\ completed[t] /\ t \notin pending /\ t \notin prog_map
  /\ \A c \in Compers : pc[c] = "compute" => qstate[cur_qid[c]] = "active"

\* A progress object is looked up or dereferenced only while it is in the
\* table: the assertions of TaskProgMap::get and erase hold, and so does
\* the assertion in backtrack() that the query is still in activeQ_list.
NoDanglingProg ==
  /\ pending \subseteq prog_map      \* a spilled task finds its object again
  /\ \A c \in Compers :
       /\ pc[c] = "compute" => cur_tid[c] \in prog_map
       /\ pc[c] = "erase" => prog[c] \in prog_map
       /\ pc[c] \in {"get", "dec"} => parent_tid[prog[c]] \in prog_map
       /\ pc[c] = "finish" => qstate[query_id[prog[c]]] = "active"

\* Of the comper that completes a task and those that settle its children,
\* one only goes on to erase its object.
EraseOnce ==
  \A c, d \in Compers :
     /\ c # d
     /\ pc[c] \in {"erase", "get", "dec", "finish"}
     /\ pc[d] \in {"erase", "get", "dec", "finish"}
     => prog[c] # prog[d]

\* ... and one always does: when nothing waits and no comper is at work, the
\* table is empty, as its destructor asserts, and every query that had a
\* task is done.
NothingLeft ==
  (pending = {} /\ \A c \in Compers : pc[c] = "free") =>
     /\ prog_map = {}
     /\ \A t \in born : qstate[query_id[t]] = "done"

\* The protocol implements the promise of QueryCompletion.
Completion ==
  INSTANCE QueryCompletion WITH
    issued   <- [q \in Queries |-> {t \in born : query_id[t] = q}],
    finished <- {t \in born : completed[t]},
    done     <- {q \in Queries : qstate[q] = "done"}

ImplementsCompletion == Completion!Spec
=============================================================================

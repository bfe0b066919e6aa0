---------------------------- MODULE TaskProgProof ----------------------------
(***************************************************************************)
(* Proofs about TaskProg, for any sets of compers, queries and tasks.      *)
(*                                                                         *)
(* The argument: a task that is not settled has a live parent (Family),    *)
(* the count of a live object is the number of its unsettled children      *)
(* (Counters), so an object is erased only when it has none, by one comper *)
(* (Backtracking), and then no unsettled task has it among its ancestors   *)
(* (Ancestors).  The root of a query is an ancestor of all its tasks       *)
(* (Roots); so when the root goes nothing is left.                         *)
(***************************************************************************)
EXTENDS TaskProg, FiniteSetTheorems, TLAPS

BT == {"erase", "get", "dec", "finish"}

-----------------------------------------------------------------------------
(* The inductive invariant                                                 *)

Membership ==
  /\ IsFiniteSet(born)
  /\ prog_map \subseteq born
  /\ pending \subseteq prog_map
  /\ settled \subseteq born
  /\ settled \cap prog_map = {}
  /\ \A t \in settled : completed[t]
  /\ \A t \in pending : ~ completed[t]

\* Every task has a query; a task not settled has a live parent of the same
\* query, if any.
Family ==
  /\ \A t \in born : /\ query_id[t] \in Queries
                     /\ parent_tid[t] \in born \cup {NoTask}
  /\ \A t \in born \ settled :
        parent_tid[t] # NoTask =>
          /\ parent_tid[t] \in prog_map
          /\ query_id[parent_tid[t]] = query_id[t]

Counters == CounterExact

\* A comper computes a live task of its own, of a query in the list.
Computing ==
  /\ \A c \in Compers : pc[c] = "compute" =>
        /\ cur_tid[c] \in prog_map \ pending
        /\ ~ completed[cur_tid[c]]
        /\ cur_qid[c] = query_id[cur_tid[c]]
        /\ qstate[cur_qid[c]] = "active"
  /\ \A c, d \in Compers :
        c # d /\ pc[c] = "compute" /\ pc[d] = "compute" => cur_tid[c] # cur_tid[d]

\* What a comper in the loop of backtrack() holds.
Backtracking ==
  /\ \A c \in Compers : pc[c] \in BT =>
        /\ prog[c] \in born \ settled
        /\ completed[prog[c]]
        /\ qstate[query_id[prog[c]]] = "active"
        /\ pc[c] = "erase" => prog[c] \in prog_map /\ Kids(prog[c]) = {}
        /\ pc[c] # "erase" => prog[c] \notin prog_map
        /\ pc[c] \in {"get", "dec"} => parent_tid[prog[c]] # NoTask
        /\ pc[c] = "finish" => parent_tid[prog[c]] = NoTask
  /\ EraseOnce

\* The ancestors of an unsettled task are all live, and each of them is the
\* parent of the task or of another of its ancestors.
Ancestors ==
  /\ \A t \in born \ settled : anc[t] \subseteq prog_map
  /\ \A t \in born : \A a \in anc[t] :
        \E k \in anc[t] \cup {t} : k \in born /\ parent_tid[k] = a

\* Every task descends from the only root of its query.
Roots ==
  /\ \A t \in born : \E r \in anc[t] \cup {t} :
        r \in born /\ parent_tid[r] = NoTask /\ query_id[r] = query_id[t]
  /\ \A r, s \in born :
        /\ parent_tid[r] = NoTask /\ parent_tid[s] = NoTask
        /\ query_id[r] = query_id[s]
        => r = s
  /\ \A r \in born :
        /\ parent_tid[r] = NoTask
        /\ qstate[query_id[r]] = "done"
        => r \in settled

\* A comper in task_spawn has a query of its own that is not listed yet.  Its
\* flag is set there and while it removes a root, and nowhere else.
Spawning ==
  /\ \A c \in Compers : pc[c] = "spawn" =>
        cur_qid[c] \in Queries /\ qstate[cur_qid[c]] = "spawning"
  /\ \A c, d \in Compers :
        c # d /\ pc[c] = "spawn" /\ pc[d] = "spawn" => cur_qid[c] # cur_qid[d]
  /\ \A c \in Compers : add_root_task_tag[c] <=> pc[c] \in {"spawn", "finish"}

IInv == /\ TypeOK /\ Membership /\ Family /\ Counters /\ Computing
        /\ Backtracking /\ Ancestors /\ Roots /\ Spawning

-----------------------------------------------------------------------------
(* Facts about a state that satisfies the invariant                        *)

LEMMA KidsFinite ==
  ASSUME Membership, NEW t
  PROVE  IsFiniteSet(Kids(t)) /\ Cardinality(Kids(t)) \in Nat
<1>1. Kids(t) \subseteq born
  BY DEF Kids
<1> QED
  BY <1>1, FS_Subset, FS_CardinalityType DEF Membership

\* A child that is about to tell its parent is one of the parent's kids, and
\* after that one kid less is left, none if the count was one.
LEMMA KidsOfParent ==
  ASSUME IInv, NEW c \in Compers, pc[c] \in {"get", "dec"}
  PROVE  LET p == parent_tid[prog[c]]
         IN /\ p \in prog_map
            /\ prog[c] \in Kids(p)
            /\ t_counter[p] \in Nat \ {0}
            /\ IsFiniteSet(Kids(p) \ {prog[c]})
            /\ Cardinality(Kids(p) \ {prog[c]}) = t_counter[p] - 1
            /\ t_counter[p] = 1 => Kids(p) \ {prog[c]} = {}
<1> DEFINE p == parent_tid[prog[c]]
<1>1. prog[c] \in born \ settled /\ p # NoTask
  BY DEF IInv, Backtracking, BT
<1>2. p \in prog_map
  BY <1>1 DEF IInv, Family
<1>3. prog[c] \in Kids(p)
  BY <1>1 DEF Kids
<1>4. IsFiniteSet(Kids(p)) /\ Cardinality(Kids(p)) \in Nat
  BY KidsFinite DEF IInv
<1>5. t_counter[p] = Cardinality(Kids(p))
  BY <1>2 DEF IInv, Counters, CounterExact
<1>6. /\ IsFiniteSet(Kids(p) \ {prog[c]})
      /\ Cardinality(Kids(p) \ {prog[c]}) = Cardinality(Kids(p)) - 1
  BY <1>3, <1>4, FS_RemoveElement
<1>7. Cardinality(Kids(p) \ {prog[c]}) \in Nat
  BY <1>6, FS_CardinalityType
<1>8. t_counter[p] = 1 => Kids(p) \ {prog[c]} = {}
  BY <1>4, <1>5, <1>6, FS_EmptySet
<1> QED
  BY <1>2, <1>3, <1>4, <1>5, <1>6, <1>7, <1>8

\* The root of a query that is about to be removed is the only task of the
\* query that is not settled.
LEMMA OnlyRootLeft ==
  ASSUME IInv, NEW c \in Compers, pc[c] = "finish",
         NEW t \in born \ settled, query_id[t] = query_id[prog[c]]
  PROVE  t = prog[c]
<1>1. /\ prog[c] \in born /\ parent_tid[prog[c]] = NoTask
      /\ prog[c] \notin prog_map
  BY DEF IInv, Backtracking, BT
<1>2. PICK r \in anc[t] \cup {t} :
        r \in born /\ parent_tid[r] = NoTask /\ query_id[r] = query_id[t]
  BY DEF IInv, Roots
<1>3. r = prog[c]
  BY <1>1, <1>2 DEF IInv, Roots
<1>4. r \notin anc[t]
  BY <1>1, <1>3 DEF IInv, Ancestors
<1> QED
  BY <1>2, <1>3, <1>4

\* No unsettled task descends from an object without unsettled children.
LEMMA NoDescendants ==
  ASSUME IInv, NEW x \in born, Kids(x) = {}, NEW t \in born \ settled
  PROVE  x \notin anc[t]
<1> SUFFICES ASSUME x \in anc[t] PROVE FALSE
  OBVIOUS
<1>1. PICK k \in anc[t] \cup {t} : k \in born /\ parent_tid[k] = x
  BY DEF IInv, Ancestors
<1>2. k \in born \ settled
  BY <1>1 DEF IInv, Ancestors, Membership
<1> QED
  BY <1>1, <1>2 DEF Kids
-----------------------------------------------------------------------------
(* Each action preserves the invariant                                     *)

\* What add_task does where the flag is set, and where it is not.
AddsRoot(c, t) ==
  /\ pc[c] = "spawn"
  /\ ~ HasRoot(cur_qid[c])
  /\ NewTask(cur_qid[c], t, NoTask, {})
  /\ t_counter' = [t_counter EXCEPT ![t] = 0]
  /\ UNCHANGED <<qstate, comperVars, settled>>

AddsChild(c, t) ==
  /\ pc[c] = "compute"
  /\ NewTask(cur_qid[c], t, cur_tid[c], anc[cur_tid[c]] \cup {cur_tid[c]})
  /\ t_counter' = [t_counter EXCEPT ![t] = 0, ![cur_tid[c]] = @ + 1]
  /\ UNCHANGED <<qstate, comperVars, settled>>

\* A task added by task_spawn has no parent, one added by compute() has: the
\* flag is right whenever add_task looks at it.
LEMMA FlagIsRight ==
  ASSUME IInv, NEW c \in Compers, NEW t \in Tasks
  PROVE  /\ AddRootTask(c, t) => AddsRoot(c, t)
         /\ AddTask(c, t) => AddsChild(c, t)
<1>1. pc[c] = "spawn" => add_root_task_tag[c]
  BY DEF IInv, Spawning
<1>2. pc[c] = "compute" => ~ add_root_task_tag[c]
  BY DEF IInv, Spawning
<1>3. ASSUME AddRootTask(c, t) PROVE AddsRoot(c, t)
  BY <1>1, <1>3 DEF AddRootTask, add_task, AddsRoot
<1>4. ASSUME AddTask(c, t) PROVE AddsChild(c, t)
  BY <1>2, <1>4 DEF AddTask, add_task, AddsChild
<1> QED
  BY <1>3, <1>4

LEMMA StartSpawnStep ==
  ASSUME IInv, NEW c \in Compers, NEW q \in Queries, StartSpawn(c, q)
  PROVE  IInv'
<1> USE DEF IInv, TypeOK, StartSpawn, progVars, history
<1>1. TypeOK'
  BY DEF QueryStates, PCs
<1>2. Membership' /\ Family' /\ Ancestors' /\ Roots'
  BY DEF Membership, Family, Ancestors, Roots
<1>3. Counters'
  BY DEF Counters, CounterExact, Kids
<1>4. Computing'
  BY DEF Computing
<1>5. Backtracking'
  BY DEF Backtracking, EraseOnce, BT, Kids
<1>6. Spawning'
  BY DEF Spawning
<1> QED
  BY <1>1, <1>2, <1>3, <1>4, <1>5, <1>6

LEMMA AddRootTaskStep ==
  ASSUME IInv, NEW c \in Compers, NEW t \in Tasks, AddsRoot(c, t)
  PROVE  IInv'
<1> USE DEF IInv, TypeOK, AddsRoot, NewTask, comperVars
<1>1. TypeOK'
  BY DEF Spawning
<1>2. /\ t \notin born /\ t \notin settled /\ t \notin prog_map
      /\ cur_qid[c] \in Queries /\ qstate[cur_qid[c]] = "spawning"
      /\ NoTask \notin Tasks
  BY NoTaskAssumption DEF Membership, Spawning
<1>3. Membership'
  BY <1>2, FS_AddElement DEF Membership
<1>4. Family'
  BY <1>2 DEF Family, Membership
<1>5. \A x \in Tasks : Kids(x)' = Kids(x)
  BY <1>2 DEF Kids
<1>6. Kids(t) = {}
  BY <1>2 DEF Kids, Family
<1>7. Counters'
  <2>1. Cardinality(Kids(t)) = 0
    BY <1>6, FS_EmptySet
  <2> QED
    BY <1>2, <1>5, <2>1 DEF Counters, CounterExact
<1>8. Computing'
  BY <1>2 DEF Computing, Membership
<1>9. Backtracking'
  BY <1>2, <1>5 DEF Backtracking, EraseOnce, BT
<1>10. Ancestors'
  BY <1>2 DEF Ancestors, Membership
<1>11. Roots'
  BY <1>2 DEF Roots, HasRoot
<1>12. Spawning'
  BY DEF Spawning
<1> QED
  BY <1>1, <1>3, <1>4, <1>7, <1>8, <1>9, <1>10, <1>11, <1>12

LEMMA EndSpawnStep ==
  ASSUME IInv, NEW c \in Compers, EndSpawn(c)
  PROVE  IInv'
<1> USE DEF IInv, TypeOK, EndSpawn, progVars, history
<1>1. TypeOK'
  BY DEF QueryStates, PCs
<1>2. Membership' /\ Family' /\ Ancestors' /\ Roots'
  BY DEF Membership, Family, Ancestors, Roots
<1>3. Counters'
  BY DEF Counters, CounterExact, Kids
<1>4. Computing'
  BY DEF Computing, Spawning
<1>5. Backtracking'
  BY DEF Backtracking, EraseOnce, BT, Kids
<1>6. Spawning'
  BY DEF Spawning
<1> QED
  BY <1>1, <1>2, <1>3, <1>4, <1>5, <1>6

LEMMA TakeStep ==
  ASSUME IInv, NEW c \in Compers, NEW t \in Tasks, Take(c, t)
  PROVE  IInv'
<1> USE DEF IInv, TypeOK, Take, progVars, history
<1>1. TypeOK'
  BY DEF PCs
<1>2. Membership' /\ Family' /\ Ancestors' /\ Roots'
  BY DEF Membership, Family, Ancestors, Roots
<1>3. Counters'
  BY DEF Counters, CounterExact, Kids
<1>4. Computing'
  BY DEF Computing, Membership
<1>5. Backtracking'
  BY DEF Backtracking, EraseOnce, BT, Kids
<1>6. Spawning'
  BY DEF Spawning
<1> QED
  BY <1>1, <1>2, <1>3, <1>4, <1>5, <1>6

LEMMA AddTaskStep ==
  ASSUME IInv, NEW c \in Compers, NEW t \in Tasks, AddsChild(c, t)
  PROVE  IInv'
<1> DEFINE p == cur_tid[c]
<1> USE DEF IInv, TypeOK, AddsChild, NewTask, comperVars
<1>1. /\ t \notin born /\ t \notin settled /\ t \notin prog_map
      /\ p \in prog_map /\ p \in born /\ p \in Tasks /\ p \notin settled
      /\ p # t /\ ~ completed[p] /\ NoTask \notin Tasks
      /\ query_id[p] \in Queries
      /\ cur_qid[c] = query_id[p] /\ qstate[query_id[p]] = "active"
  BY NoTaskAssumption DEF Membership, Computing, Family
<1>2. TypeOK'
  BY <1>1
<1>3. Membership'
  BY <1>1, FS_AddElement DEF Membership
<1>4. Family'
  BY <1>1 DEF Family, Membership
<1>5. \A x \in Tasks \ {p} : Kids(x)' = Kids(x)
  BY <1>1 DEF Kids
<1>6. Kids(p)' = Kids(p) \cup {t} /\ t \notin Kids(p)
  BY <1>1 DEF Kids
<1>7. Counters'
  <2>1. Cardinality(Kids(p) \cup {t}) = Cardinality(Kids(p)) + 1
    BY <1>6, KidsFinite, FS_AddElement
  <2>2. Kids(t) = {}
    BY <1>1 DEF Kids, Family
  <2>3. Cardinality(Kids(t)) = 0
    BY <2>2, FS_EmptySet
  <2>4. t_counter[p] = Cardinality(Kids(p))
    BY <1>1 DEF Counters, CounterExact
  <2>5. t_counter'[t] = 0 /\ t_counter'[p] = t_counter[p] + 1
    BY <1>1
  <2>6. \A x \in prog_map \ {p} : t_counter'[x] = Cardinality(Kids(x)')
    BY <1>1, <1>5 DEF Counters, CounterExact
  <2>7. t_counter'[t] = Cardinality(Kids(t)')
    BY <1>1, <1>5, <2>3, <2>5
  <2>8. t_counter'[p] = Cardinality(Kids(p)')
    BY <1>6, <2>1, <2>4, <2>5
  <2> QED
    BY <2>6, <2>7, <2>8 DEF Counters, CounterExact
<1>8. Computing'
  BY <1>1 DEF Computing, Membership
<1>9. Backtracking'
  BY <1>1, <1>5 DEF Backtracking, EraseOnce, BT
<1>10. Ancestors'
  <2>1. \A u \in born' \ settled' : anc'[u] \subseteq prog_map'
    BY <1>1 DEF Ancestors
  <2>2. \A a \in anc'[t] :
           \E k \in anc'[t] \cup {t} : k \in born' /\ parent_tid'[k] = a
    <3> TAKE a \in anc'[t]
    <3>1. CASE a = p
      BY <3>1, <1>1
    <3>2. CASE a \in anc[p]
      <4>1. PICK k \in anc[p] \cup {p} : k \in born /\ parent_tid[k] = a
        BY <3>2, <1>1 DEF Ancestors
      <4>2. k # t /\ k \in anc'[t] /\ parent_tid'[k] = a
        BY <4>1, <1>1
      <4> QED
        BY <4>1, <4>2
    <3> QED
      BY <3>1, <3>2, <1>1
  <2>3. \A u \in born : \A a \in anc'[u] :
           \E k \in anc'[u] \cup {u} : k \in born' /\ parent_tid'[k] = a
    BY <1>1 DEF Ancestors
  <2> QED
    BY <2>1, <2>2, <2>3 DEF Ancestors
<1>11. Roots'
  <2>1. \E r \in anc'[t] \cup {t} :
           /\ r \in born' /\ parent_tid'[r] = NoTask
           /\ query_id'[r] = query_id'[t]
    <3>1. PICK r \in anc[p] \cup {p} :
             r \in born /\ parent_tid[r] = NoTask /\ query_id[r] = query_id[p]
      BY <1>1 DEF Roots
    <3>2. r # t /\ r \in anc'[t]
      BY <3>1, <1>1
    <3> QED
      BY <3>1, <3>2, <1>1
  <2>2. \A u \in born : \E r \in anc'[u] \cup {u} :
           /\ r \in born' /\ parent_tid'[r] = NoTask
           /\ query_id'[r] = query_id'[u]
    BY <1>1 DEF Roots
  <2> QED
    BY <1>1, <2>1, <2>2 DEF Roots
<1>12. Spawning'
  BY DEF Spawning
<1> QED
  BY <1>2, <1>3, <1>4, <1>7, <1>8, <1>9, <1>10, <1>11, <1>12

LEMMA CompleteStep ==
  ASSUME IInv, NEW c \in Compers, Complete(c)
  PROVE  IInv'
<1> DEFINE t == cur_tid[c]
<1> USE DEF IInv, TypeOK, Complete, history
<1>1. /\ t \in prog_map \ pending /\ t \in born \ settled /\ t \in Tasks
      /\ ~ completed[t] /\ qstate[query_id[t]] = "active"
  BY DEF Membership, Computing
<1>2. TypeOK'
  BY <1>1 DEF PCs
<1>3. Membership' /\ Family' /\ Ancestors' /\ Roots'
  BY <1>1 DEF Membership, Family, Ancestors, Roots
<1>4. \A x : Kids(x)' = Kids(x)
  BY DEF Kids
<1>5. Counters'
  BY <1>4 DEF Counters, CounterExact
<1>6. Computing'
  BY <1>1 DEF Computing
<1>7. Backtracking'
  <2>1. \A d \in Compers : pc[d] \in BT => prog[d] # t
    BY <1>1 DEF Backtracking
  <2>2. t_counter[t] = 0 => Kids(t) = {}
    BY <1>1, KidsFinite, FS_EmptySet DEF Counters, CounterExact
  <2> QED
    BY <1>1, <1>4, <2>1, <2>2 DEF Backtracking, EraseOnce, BT
<1>8. Spawning'
  BY DEF Spawning
<1> QED
  BY <1>2, <1>3, <1>5, <1>6, <1>7, <1>8

LEMMA EraseStep ==
  ASSUME IInv, NEW c \in Compers, Erase(c)
  PROVE  IInv'
<1> DEFINE t == prog[c]
<1> USE DEF IInv, TypeOK, Erase, history
<1>1. /\ t \in prog_map /\ t \in born \ settled /\ t \in Tasks
      /\ completed[t] /\ Kids(t) = {} /\ qstate[query_id[t]] = "active"
  BY DEF Backtracking, BT
<1>2. TypeOK'
  BY <1>1 DEF PCs
<1>3. Membership'
  BY <1>1 DEF Membership
<1>4. Family'
  BY <1>1 DEF Family, Kids
<1>5. \A x : Kids(x)' = Kids(x)
  BY DEF Kids
<1>6. Counters'
  BY <1>5 DEF Counters, CounterExact
<1>7. Computing'
  BY <1>1 DEF Computing
<1>8. Backtracking'
  BY <1>1, <1>5 DEF Backtracking, EraseOnce, BT
<1>9. Ancestors'
  <2>1. \A u \in born \ settled : t \notin anc[u]
    BY <1>1, NoDescendants
  <2> QED
    BY <2>1 DEF Ancestors
<1>10. Roots' /\ Spawning'
  BY DEF Roots, Spawning
<1> QED
  BY <1>2, <1>3, <1>4, <1>6, <1>7, <1>8, <1>9, <1>10

LEMMA GetParentStep ==
  ASSUME IInv, NEW c \in Compers, GetParent(c)
  PROVE  IInv'
<1> USE DEF IInv, TypeOK, GetParent, progVars, history
<1>1. TypeOK'
  BY DEF PCs
<1>2. Membership' /\ Family' /\ Ancestors' /\ Roots'
  BY DEF Membership, Family, Ancestors, Roots
<1>3. Counters'
  BY DEF Counters, CounterExact, Kids
<1>4. Computing'
  BY DEF Computing
<1>5. Backtracking'
  BY DEF Backtracking, EraseOnce, BT, Kids
<1>6. Spawning'
  BY DEF Spawning
<1> QED
  BY <1>1, <1>2, <1>3, <1>4, <1>5, <1>6

LEMMA DecParentStep ==
  ASSUME IInv, NEW c \in Compers, DecParent(c)
  PROVE  IInv'
<1>1. pc[c] = "dec"
  BY DEF DecParent, SettleInParent
<1>2. PICK t, p : t = prog[c] /\ p = parent_tid[t]
  OBVIOUS
<1>3. /\ t \in born \ settled /\ t \notin prog_map /\ t \in Tasks
      /\ completed[t] /\ p # NoTask /\ qstate[query_id[t]] = "active"
  BY <1>1, <1>2 DEF IInv, TypeOK, Backtracking, BT
<1>4. /\ p \in prog_map /\ p \in Tasks /\ p \in born \ settled /\ t # p
      /\ qstate[query_id[p]] = "active"
  BY <1>2, <1>3 DEF IInv, TypeOK, Membership, Family
<1>5. /\ t \in Kids(p) /\ t_counter[p] \in Nat \ {0}
      /\ Cardinality(Kids(p) \ {t}) = t_counter[p] - 1
      /\ t_counter[p] = 1 => Kids(p) \ {t} = {}
  BY <1>1, <1>2, KidsOfParent
<1>6. PICK flag \in BOOLEAN : flag = (completed[p] /\ t_counter[p] = 1)
  OBVIOUS
<1>7. /\ t_counter' = [t_counter EXCEPT ![p] = t_counter[p] - 1]
      /\ settled' = settled \cup {t}
      /\ prog' = [prog EXCEPT ![c] = IF flag THEN p ELSE NoTask]
      /\ pc' = [pc EXCEPT ![c] = IF flag THEN "erase" ELSE "free"]
      /\ UNCHANGED <<qstate, prog_map, parent_tid, query_id, completed,
                     pending, cur_tid, cur_qid, add_root_task_tag, born, anc>>
  BY <1>2, <1>6, Zenon DEF DecParent, SettleInParent
<1> USE DEF IInv, TypeOK
<1>8. TypeOK'
  <2>1. t_counter[p] - 1 \in Nat
    BY <1>5
  <2>2. t_counter' \in [Tasks -> Nat]
    BY <2>1, <1>7
  <2>3. settled' \subseteq Tasks
    BY <1>3, <1>7
  <2>4. prog' \in [Compers -> Tasks \cup {NoTask}]
    BY <1>4, <1>7
  <2>5. pc' \in [Compers -> PCs]
    BY <1>7 DEF PCs
  <2> QED
    BY <2>2, <2>3, <2>4, <2>5, <1>7
<1>9. Membership'
  BY <1>3, <1>7 DEF Membership
<1>10. Family'
  BY <1>7 DEF Family
<1>11. Kids(p)' = Kids(p) \ {t}
  BY <1>7 DEF Kids
<1>12. \A x : x # p => Kids(x)' = Kids(x)
  BY <1>2, <1>7 DEF Kids
<1>13. Counters'
  <2>1. t_counter'[p] = Cardinality(Kids(p)')
    BY <1>4, <1>5, <1>7, <1>11
  <2>2. \A x \in prog_map \ {p} : t_counter'[x] = Cardinality(Kids(x)')
    BY <1>7, <1>12 DEF Counters, CounterExact
  <2> QED
    BY <2>1, <2>2, <1>7 DEF Counters, CounterExact
<1>14. Computing'
  BY <1>1, <1>7 DEF Computing
<1>15. Backtracking'
  <2>1. \A d \in Compers : pc[d] \in BT => prog[d] # p
    BY <1>4, <1>5 DEF Backtracking, BT
  <2>2. \A d \in Compers \ {c} : pc[d] \in BT => prog[d] # t
    BY <1>1, <1>2 DEF Backtracking, EraseOnce, BT
  <2>3. CASE flag
    <3>1. Kids(p)' = {} /\ completed[p]
      BY <2>3, <1>5, <1>6, <1>11
    <3>2. pc'[c] = "erase" /\ prog'[c] = p
      BY <2>3, <1>7
    <3> QED
      BY <1>3, <1>4, <1>7, <1>12, <2>1, <2>2, <3>1, <3>2
         DEF Backtracking, EraseOnce, BT
  <2>4. CASE ~ flag
    BY <1>3, <1>7, <1>12, <2>1, <2>2, <2>4 DEF Backtracking, EraseOnce, BT
  <2> QED
    BY <2>3, <2>4
<1>16. Ancestors'
  BY <1>7 DEF Ancestors
<1>17. Roots' /\ Spawning'
  BY <1>1, <1>7 DEF Roots, Spawning
<1> QED
  BY <1>8, <1>9, <1>10, <1>13, <1>14, <1>15, <1>16, <1>17

LEMMA FinishQueryStep ==
  ASSUME IInv, NEW c \in Compers, FinishQuery(c)
  PROVE  IInv'
<1> DEFINE r == prog[c]
           q == query_id[r]
<1> USE DEF IInv, TypeOK, FinishQuery, progVars
<1>1. pc[c] = "finish"
  OBVIOUS
<1>2. /\ r \in born \ settled /\ r \notin prog_map /\ r \in Tasks
      /\ completed[r] /\ parent_tid[r] = NoTask /\ NoTask \notin Tasks
      /\ qstate[q] = "active" /\ q \in Queries
  BY <1>1, NoTaskAssumption DEF Backtracking, BT, Family
<1>3. \A t \in born \ settled : query_id[t] = q => t = r
  BY <1>1, OnlyRootLeft
<1>4. TypeOK'
  BY <1>2 DEF PCs, QueryStates
<1>5. Membership'
  BY <1>2 DEF Membership
<1>6. Family'
  BY DEF Family
<1>7. \A x \in Tasks : Kids(x)' = Kids(x)
  BY <1>2 DEF Kids
<1>8. Counters'
  BY <1>7 DEF Counters, CounterExact
<1>9. Computing'
  <2>1. \A d \in Compers : pc[d] = "compute" => cur_qid[d] # q
    BY <1>2, <1>3 DEF Computing, Membership
  <2> QED
    BY <1>2, <2>1 DEF Computing
<1>10. Backtracking'
  <2>1. \A d \in Compers \ {c} : pc[d] \in BT => query_id[prog[d]] # q
    BY <1>1, <1>3 DEF Backtracking, EraseOnce, BT
  <2>2. \A d \in Compers \ {c} : pc[d] \in BT => prog[d] # r
    BY <2>1
  <2> QED
    BY <1>2, <1>7, <2>1, <2>2 DEF Backtracking, EraseOnce, BT
<1>11. Ancestors'
  BY DEF Ancestors
<1>12. Roots'
  BY <1>2 DEF Roots
<1>13. Spawning'
  BY <1>2 DEF Spawning
<1> QED
  BY <1>4, <1>5, <1>6, <1>8, <1>9, <1>10, <1>11, <1>12, <1>13

-----------------------------------------------------------------------------
(* The invariant, and what follows from it                                 *)

LEMMA InitIInv ==
  Init => IInv
<1> SUFFICES ASSUME Init PROVE IInv
  OBVIOUS
<1> USE DEF Init
<1>1. TypeOK
  BY DEF TypeOK, QueryStates, PCs
<1>2. Membership
  BY FS_EmptySet DEF Membership
<1>3. Family /\ Counters /\ Computing
  BY DEF Family, Counters, CounterExact, Computing
<1>4. Backtracking /\ Ancestors /\ Roots /\ Spawning
  BY DEF Backtracking, EraseOnce, BT, Ancestors, Roots, Spawning
<1> QED
  BY <1>1, <1>2, <1>3, <1>4 DEF IInv

LEMMA NextIInv ==
  IInv /\ [Next]_vars => IInv'
<1> SUFFICES ASSUME IInv, [Next]_vars PROVE IInv'
  OBVIOUS
<1>1. CASE UNCHANGED vars
  BY <1>1 DEF vars, progVars, comperVars, history, IInv, TypeOK, Membership,
     Family, Counters, CounterExact, Kids, Computing, Backtracking, EraseOnce,
     Ancestors, Roots, Spawning
<1>2. ASSUME NEW c \in Compers, Comper(c) PROVE IInv'
  <2>1. ASSUME NEW q \in Queries, StartSpawn(c, q) PROVE IInv'
    BY <2>1, StartSpawnStep
  <2>2. ASSUME NEW t \in Tasks, AddsRoot(c, t) PROVE IInv'
    BY <2>2, AddRootTaskStep
  <2>3. ASSUME NEW t \in Tasks, Take(c, t) PROVE IInv'
    BY <2>3, TakeStep
  <2>4. ASSUME NEW t \in Tasks, AddsChild(c, t) PROVE IInv'
    BY <2>4, AddTaskStep
  <2>5. CASE EndSpawn(c)
    BY <2>5, EndSpawnStep
  <2>6. CASE Complete(c)
    BY <2>6, CompleteStep
  <2>7. CASE Erase(c)
    BY <2>7, EraseStep
  <2>8. CASE GetParent(c)
    BY <2>8, GetParentStep
  <2>9. CASE DecParent(c)
    BY <2>9, DecParentStep
  <2>10. CASE FinishQuery(c)
    BY <2>10, FinishQueryStep
  <2> QED
    BY <1>2, <2>1, <2>2, <2>3, <2>4, <2>5, <2>6, <2>7, <2>8, <2>9, <2>10,
       FlagIsRight DEF Comper
<1> QED
  BY <1>1, <1>2 DEF Next

\* The inductive invariant holds in every reachable state, whatever the
\* number of compers, queries and tasks.
THEOREM Invariance ==
  Spec => []IInv
<1>1. Init => IInv
  BY InitIInv
<1>2. IInv /\ [Next]_vars => IInv'
  BY NextIInv
<1> QED
  BY <1>1, <1>2, PTL DEF Spec

\* Every variable of the progress-table protocol keeps its type; the counts
\* of TaskProgMap.h in particular never go below zero.
THEOREM TypeCorrect ==
  Spec => []TypeOK
<1>1. IInv => TypeOK
  BY DEF IInv
<1> QED
  BY <1>1, Invariance, PTL

\* t_counter of a live progress object is the number of its children that
\* have not told it of their end, in spite of the increments without a lock.
THEOREM CounterIsExact ==
  Spec => []CounterExact
<1>1. IInv => CounterExact
  BY DEF IInv, Counters
<1> QED
  BY <1>1, Invariance, PTL

LEMMA FinishedInTime == IInv => NoEarlyFinish
<1> SUFFICES ASSUME IInv PROVE NoEarlyFinish
  OBVIOUS
<1>1. \A c \in Compers : pc[c] = "compute" => qstate[cur_qid[c]] = "active"
  BY DEF IInv, Computing
<1>2. ASSUME NEW t \in born, qstate[query_id[t]] = "done"
      PROVE  t \in settled
  <2> SUFFICES ASSUME t \notin settled PROVE FALSE
    OBVIOUS
  <2>1. PICK r \in anc[t] \cup {t} :
           r \in born /\ parent_tid[r] = NoTask /\ query_id[r] = query_id[t]
    BY DEF IInv, Roots
  <2>2. r \in settled
    BY <1>2, <2>1 DEF IInv, Roots
  <2>3. r # t
    BY <2>2
  <2>4. r \in prog_map
    BY <2>1, <2>3 DEF IInv, Ancestors
  <2> QED
    BY <2>2, <2>4 DEF IInv, Membership
<1>3. ASSUME NEW t \in settled
      PROVE  completed[t] /\ t \notin pending /\ t \notin prog_map
  BY DEF IInv, Membership
<1> QED
  BY <1>1, <1>2, <1>3 DEF NoEarlyFinish

\* backtrack() removes a query and notifies its client only when all tasks
\* of the query are computed and settled.
THEOREM NoQueryEndsEarly ==
  Spec => []NoEarlyFinish
<1> QED
  BY FinishedInTime, Invariance, PTL

\* The assertions of TaskProgMap::get and erase and the one in backtrack()
\* that the query is listed never fail; no deleted object is dereferenced.
THEOREM ProgIsNeverDangling ==
  Spec => []NoDanglingProg
<1>1. IInv => NoDanglingProg
  <2> SUFFICES ASSUME IInv PROVE NoDanglingProg
    OBVIOUS
  <2>1. pending \subseteq prog_map
    BY DEF IInv, Membership
  <2>2. \A c \in Compers : pc[c] = "compute" => cur_tid[c] \in prog_map
    BY DEF IInv, Computing
  <2>3. \A c \in Compers :
          /\ pc[c] = "erase" => prog[c] \in prog_map
          /\ pc[c] = "finish" => qstate[query_id[prog[c]]] = "active"
    BY DEF IInv, Backtracking, BT
  <2>4. \A c \in Compers :
          pc[c] \in {"get", "dec"} => parent_tid[prog[c]] \in prog_map
    BY DEF IInv, Backtracking, BT, Family
  <2> QED
    BY <2>1, <2>2, <2>3, <2>4 DEF NoDanglingProg
<1> QED
  BY <1>1, Invariance, PTL

\* No two compers erase the same progress object.
THEOREM OneEraser ==
  Spec => []EraseOnce
<1>1. IInv => EraseOnce
  BY DEF IInv, Backtracking
<1> QED
  BY <1>1, Invariance, PTL

-----------------------------------------------------------------------------
(* Nothing is forgotten                                                    *)

\* The ancestors of a task are its parent and the parent's ancestors, and no
\* task is its own ancestor.
Lineage ==
  \A t \in born :
     /\ anc[t] \subseteq born \ {t}
     /\ parent_tid[t] # NoTask =>
          anc[t] = anc[parent_tid[t]] \cup {parent_tid[t]}

\* Whatever is not settled is somebody's business: a comper computes the task
\* or is in the loop of backtrack() with it, or a child will come back to it.
Accounted ==
  /\ \A t \in prog_map \ pending :
        ~ completed[t] => \E c \in Compers : pc[c] = "compute" /\ cur_tid[c] = t
  /\ \A t \in prog_map :
        completed[t] => \/ Kids(t) # {}
                        \/ \E c \in Compers : pc[c] = "erase" /\ prog[c] = t
  /\ \A t \in born \ (settled \cup prog_map) :
        \E c \in Compers : pc[c] \in {"get", "dec", "finish"} /\ prog[c] = t
  /\ \A r \in settled :
        parent_tid[r] = NoTask => qstate[query_id[r]] = "done"

LEMMA LineageStep ==
  ASSUME IInv, Lineage, [Next]_vars
  PROVE  Lineage'
<1> USE DEF IInv, TypeOK, Lineage
<1>1. ASSUME NEW c \in Compers, NEW t \in Tasks, AddsRoot(c, t)
      PROVE  Lineage'
  BY <1>1, NoTaskAssumption DEF AddsRoot, NewTask, Family
<1>2. ASSUME NEW c \in Compers, NEW t \in Tasks, AddsChild(c, t)
      PROVE  Lineage'
  <2> DEFINE p == cur_tid[c]
  <2>1. p \in born /\ t \notin born /\ p # t
    BY <1>2 DEF AddsChild, NewTask, Computing, Membership
  <2>2. /\ born' = born \cup {t}
        /\ parent_tid' = [parent_tid EXCEPT ![t] = p]
        /\ anc' = [anc EXCEPT ![t] = anc[p] \cup {p}]
    BY <1>2 DEF AddsChild, NewTask
  <2>3. /\ anc'[t] \subseteq born' \ {t}
        /\ anc'[t] = anc'[parent_tid'[t]] \cup {parent_tid'[t]}
    BY <2>1, <2>2
  <2>4. \A u \in born : /\ anc'[u] \subseteq born' \ {u}
                        /\ parent_tid'[u] # NoTask =>
                             anc'[u] = anc'[parent_tid'[u]] \cup {parent_tid'[u]}
    BY <2>1, <2>2 DEF Family
  <2> QED
    BY <2>2, <2>3, <2>4
<1>3. ASSUME UNCHANGED <<born, parent_tid, anc>> PROVE Lineage'
  BY <1>3
<1>4. ASSUME [Next]_vars,
             \A c \in Compers, t \in Tasks : ~ AddRootTask(c, t) /\ ~ AddTask(c, t)
      PROVE  UNCHANGED <<born, parent_tid, anc>>
  BY <1>4 DEF Next, Comper, StartSpawn, EndSpawn, Take, Complete, Erase,
     GetParent, DecParent, SettleInParent, FinishQuery, vars, progVars, history
<1> QED
  BY <1>1, <1>2, <1>3, <1>4, FlagIsRight

\* For each action: what is still accounted for after it.
LEMMA AccountedStep ==
  ASSUME IInv, Accounted, NEW c \in Compers, Comper(c)
  PROVE  Accounted'
<1> USE DEF IInv, TypeOK
<1>1. ASSUME NEW q \in Queries, StartSpawn(c, q) PROVE Accounted'
  BY <1>1 DEF StartSpawn, Accounted, Kids, progVars, history
<1>2. ASSUME NEW t \in Tasks, AddsRoot(c, t) PROVE Accounted'
  <2>1. \A x : Kids(x) \subseteq Kids(x)'
    BY <1>2 DEF AddsRoot, NewTask, Kids
  <2>2. t \notin settled /\ t \notin born /\ t \notin prog_map
    BY <1>2 DEF AddsRoot, NewTask, Membership
  <2> QED
    BY <1>2, <2>1, <2>2
       DEF AddsRoot, NewTask, Accounted, comperVars, Membership
<1>3. ASSUME NEW t \in Tasks, Take(c, t) PROVE Accounted'
  BY <1>3 DEF Take, Accounted, Kids, progVars, history, Membership
<1>4. ASSUME NEW t \in Tasks, AddsChild(c, t) PROVE Accounted'
  <2>1. \A x : Kids(x) \subseteq Kids(x)'
    BY <1>4 DEF AddsChild, NewTask, Kids
  <2>2. t \notin settled /\ t \notin born /\ t \notin prog_map
    BY <1>4 DEF AddsChild, NewTask, Membership
  <2> QED
    BY <1>4, <2>1, <2>2
       DEF AddsChild, NewTask, Accounted, comperVars, Membership
<1>5. CASE EndSpawn(c)
  <2>1. \A x : Kids(x)' = Kids(x)
    BY <1>5 DEF EndSpawn, Kids, progVars, history
  <2> QED
    BY <1>5, <2>1 DEF EndSpawn, Accounted, Spawning, progVars, history
<1>6. CASE Complete(c)
  <2>1. \A x : Kids(x)' = Kids(x)
    BY <1>6 DEF Complete, Kids, history
  <2>2. t_counter[cur_tid[c]] # 0 => Kids(cur_tid[c]) # {}
    BY <1>6, FS_EmptySet DEF Complete, Computing, Counters, CounterExact
  <2>3. /\ pc[c] = "compute" /\ UNCHANGED <<prog_map, pending, cur_tid, settled, born,
                                            parent_tid, qstate, query_id>>
        /\ completed' = [completed EXCEPT ![cur_tid[c]] = TRUE]
        /\ cur_tid[c] \in prog_map
    BY <1>6 DEF Complete, Computing, history
  <2>4. \A d \in Compers \ {c} : pc'[d] = pc[d] /\ prog'[d] = prog[d]
    BY <1>6 DEF Complete
  <2>5. \/ pc'[c] = "erase" /\ prog'[c] = cur_tid[c]
        \/ Kids(cur_tid[c]) # {}
    BY <1>6, <2>2 DEF Complete
  <2>6. \A t \in prog_map' \ pending' :
          ~ completed'[t] => \E d \in Compers : pc'[d] = "compute" /\ cur_tid'[d] = t
    BY <2>3, <2>4 DEF Accounted
  <2>7. ASSUME NEW t \in prog_map', completed'[t]
        PROVE  Kids(t)' # {} \/ \E d \in Compers : pc'[d] = "erase" /\ prog'[d] = t
    <3>1. CASE t = cur_tid[c]
      BY <2>1, <2>5, <3>1
    <3>2. CASE t # cur_tid[c]
      BY <2>1, <2>3, <2>4, <2>7, <3>2 DEF Accounted
    <3> QED
      BY <3>1, <3>2
  <2>8. \A t \in born' \ (settled' \cup prog_map') :
          \E d \in Compers : pc'[d] \in {"get", "dec", "finish"} /\ prog'[d] = t
    BY <2>3, <2>4 DEF Accounted
  <2>9. \A r \in settled' : parent_tid'[r] = NoTask => qstate'[query_id'[r]] = "done"
    BY <2>3 DEF Accounted
  <2> QED
    BY <2>6, <2>7, <2>8, <2>9 DEF Accounted
<1>7. CASE Erase(c)
  <2>1. \A x : Kids(x)' = Kids(x)
    BY <1>7 DEF Erase, Kids, history
  <2> QED
    BY <1>7, <2>1 DEF Erase, Accounted, history
<1>8. CASE GetParent(c)
  <2>1. \A x : Kids(x)' = Kids(x)
    BY <1>8 DEF GetParent, Kids, progVars, history
  <2> QED
    BY <1>8, <2>1 DEF GetParent, Accounted, progVars, history
<1>9. CASE DecParent(c)
  <2>1. PICK t, p : t = prog[c] /\ p = parent_tid[t]
    OBVIOUS
  <2>2. PICK flag \in BOOLEAN : flag = (completed[p] /\ t_counter[p] = 1)
    OBVIOUS
  <2>3. /\ pc[c] = "dec" /\ settled' = settled \cup {t}
        /\ prog' = [prog EXCEPT ![c] = IF flag THEN p ELSE NoTask]
        /\ pc' = [pc EXCEPT ![c] = IF flag THEN "erase" ELSE "free"]
        /\ UNCHANGED <<qstate, prog_map, parent_tid, query_id, completed,
                       pending, cur_tid, born>>
    BY <1>9, <2>1, <2>2, Zenon DEF DecParent, SettleInParent
  <2>4. t \notin prog_map /\ p # NoTask
    BY <2>1, <2>3 DEF Backtracking, BT
  <2>5. /\ Cardinality(Kids(p) \ {t}) = t_counter[p] - 1
        /\ t_counter[p] \in Nat \ {0} /\ IsFiniteSet(Kids(p) \ {t})
    BY <2>1, <2>3, KidsOfParent
  <2>6. t_counter[p] # 1 => Kids(p) \ {t} # {}
    BY <2>5, FS_EmptySet
  <2>7. Kids(p)' = Kids(p) \ {t}
    BY <2>3 DEF Kids
  <2>8. \A x : x # p => Kids(x)' = Kids(x)
    BY <2>1, <2>3 DEF Kids
  <2>9. \A d \in Compers \ {c} : pc'[d] = pc[d] /\ prog'[d] = prog[d]
    BY <2>3
  <2>10. \A x \in prog_map' \ pending' : ~ completed'[x] =>
            \E d \in Compers : pc'[d] = "compute" /\ cur_tid'[d] = x
    BY <2>3, <2>9 DEF Accounted
  <2>11. \A x \in prog_map' : completed'[x] =>
            \/ Kids(x)' # {}
            \/ \E d \in Compers : pc'[d] = "erase" /\ prog'[d] = x
    <3>1. CASE flag
      <4>1. pc'[c] = "erase" /\ prog'[c] = p
        BY <2>3, <3>1
      <4> QED
        BY <2>3, <2>8, <2>9, <4>1 DEF Accounted
    <3>2. CASE ~ flag
      BY <2>2, <2>3, <2>6, <2>7, <2>8, <2>9, <3>2 DEF Accounted
    <3> QED
      BY <3>1, <3>2
  <2>12. \A x \in born' \ (settled' \cup prog_map') :
            \E d \in Compers : /\ pc'[d] \in {"get", "dec", "finish"}
                              /\ prog'[d] = x
    BY <2>1, <2>3, <2>9 DEF Accounted
  <2>13. \A r \in settled' :
            parent_tid'[r] = NoTask => qstate'[query_id'[r]] = "done"
    BY <2>1, <2>3, <2>4 DEF Accounted
  <2> QED
    BY <2>10, <2>11, <2>12, <2>13 DEF Accounted
<1>10. CASE FinishQuery(c)
  <2> DEFINE r == prog[c]
  <2>1. /\ pc[c] = "finish" /\ r \notin prog_map /\ r \in born \ settled
        /\ parent_tid[r] = NoTask /\ query_id[r] \in Queries
        /\ \A x \in prog_map : x \in Tasks /\ x # NoTask
    BY <1>10, NoTaskAssumption DEF FinishQuery, Backtracking, BT, Family
  <2>2. /\ qstate' = [qstate EXCEPT ![query_id[r]] = "done"]
        /\ settled' = settled \cup {r}
        /\ \A d \in Compers \ {c} : pc'[d] = pc[d] /\ prog'[d] = prog[d]
        /\ UNCHANGED <<prog_map, parent_tid, query_id, completed, pending,
                       cur_tid, born>>
    BY <1>10 DEF FinishQuery, progVars
  <2>3. \A x \in prog_map : Kids(x)' = Kids(x)
    BY <2>1, <2>2 DEF Kids
  <2> QED
    BY <2>1, <2>2, <2>3 DEF Accounted
<1> QED
  BY <1>1, <1>2, <1>3, <1>4, <1>5, <1>6, <1>7, <1>8, <1>9, <1>10, FlagIsRight
     DEF Comper

LEMMA NextAccounted ==
  IInv /\ Lineage /\ Accounted /\ [Next]_vars => (Lineage /\ Accounted)'
<1> SUFFICES ASSUME IInv, Lineage, Accounted, [Next]_vars
             PROVE  (Lineage /\ Accounted)'
  OBVIOUS
<1>1. Lineage'
  BY LineageStep
<1>2. ASSUME UNCHANGED vars PROVE Accounted'
  BY <1>2 DEF Accounted, Kids, vars, progVars, comperVars, history
<1>3. ASSUME Next PROVE Accounted'
  BY <1>3, AccountedStep DEF Next
<1> QED
  BY <1>1, <1>2, <1>3

\* Among some unsettled tasks there is one with no child among them: one with
\* as many ancestors as any of them.
LEMMA Youngest ==
  ASSUME IInv, Lineage, NEW T, T \subseteq born \ settled, T # {}
  PROVE  \E t \in T : Kids(t) \cap T = {}
<1> DEFINE U == {born \ anc[t] : t \in T}
<1>1. IsWellFoundedOn(StrictSubsetOrdering(born), SUBSET born)
  BY FS_StrictSubsetOrderingWellFounded, FS_FiniteSubsetsOfFinite
     DEF IInv, Membership
<1>2. U \subseteq SUBSET born /\ U # {}
  OBVIOUS
<1>3. PICK x \in U : \A y \in U : <<y, x>> \notin StrictSubsetOrdering(born)
  BY <1>1, <1>2, WFMin
<1>4. PICK t \in T : x = born \ anc[t]
  BY <1>3
<1>5. ASSUME NEW u \in Kids(t) \cap T PROVE FALSE
  <2>1. u \in born \ settled /\ parent_tid[u] = t /\ t # NoTask /\ t \in born
    BY <1>5, NoTaskAssumption DEF Kids, IInv, TypeOK
  <2>2. anc[u] = anc[t] \cup {t} /\ t \notin anc[t]
    BY <2>1 DEF Lineage
  <2>3. <<born \ anc[u], x>> \in StrictSubsetOrdering(born)
    BY <1>4, <2>1, <2>2 DEF StrictSubsetOrdering
  <2> QED
    BY <1>3, <1>5, <2>3
<1> QED
  BY <1>4, <1>5

\* The table is empty and every query with a task is done once nothing waits
\* and no comper is at work: a completed object is never left behind.
THEOREM NothingIsLeft ==
  Spec => []NothingLeft
<1>1. Init => Lineage /\ Accounted
  BY DEF Init, Lineage, Accounted
<1>2. IInv /\ Lineage /\ Accounted => NothingLeft
  <2> SUFFICES ASSUME IInv, Lineage, Accounted,
                      pending = {}, \A c \in Compers : pc[c] = "free"
               PROVE  /\ prog_map = {}
                      /\ \A t \in born : qstate[query_id[t]] = "done"
    BY DEF NothingLeft
  <2>1. \A t \in born \ settled : Kids(t) # {}
    BY DEF Accounted
  <2>2. born \subseteq settled
    <3>1. \A t : Kids(t) \subseteq born \ settled
      BY DEF Kids
    <3>2. SUFFICES ASSUME born \ settled # {} PROVE FALSE
      OBVIOUS
    <3>3. \E t \in born \ settled : Kids(t) \cap (born \ settled) = {}
      BY <3>2, Youngest
    <3> QED
      BY <2>1, <3>1, <3>3
  <2>3. prog_map = {}
    BY <2>2 DEF IInv, Membership
  <2>4. ASSUME NEW t \in born PROVE qstate[query_id[t]] = "done"
    BY <2>2 DEF IInv, Roots, Accounted
  <2> QED
    BY <2>3, <2>4
<1> QED
  BY <1>1, <1>2, Invariance, NextAccounted, PTL DEF Spec

-----------------------------------------------------------------------------
(* The protocol implements QueryCompletion                                 *)

Issued(q) == {t \in born : query_id[t] = q}
IssuedNow == [q \in Queries |-> Issued(q)]

LEMMA IssuedOneMore ==
  ASSUME IInv, NEW t \in Tasks \ born, NEW q \in Queries,
         born' = born \cup {t}, query_id' = [query_id EXCEPT ![t] = q]
  PROVE  IssuedNow' = [IssuedNow EXCEPT ![q] = Issued(q) \cup {t}]
<1>1. \A k \in Queries : Issued(k)' =
        IF k = q THEN Issued(k) \cup {t} ELSE Issued(k)
  BY DEF Issued, IInv, TypeOK
<1> QED
  BY <1>1 DEF IssuedNow

LEMMA StepImplements ==
  IInv /\ [Next]_vars => [Completion!Next]_Completion!vars
<1> SUFFICES ASSUME IInv, [Next]_vars PROVE [Completion!Next]_Completion!vars
  OBVIOUS
<1> USE DEF IInv, TypeOK, Completion!vars
<1>1. ASSUME UNCHANGED <<born, query_id, completed>>,
             \A q \in Queries : qstate'[q] = "done" <=> qstate[q] = "done"
      PROVE  UNCHANGED Completion!vars
  BY <1>1
<1>2. CASE UNCHANGED vars
  BY <1>1, <1>2 DEF vars, progVars, history
<1>3. ASSUME NEW c \in Compers, Comper(c)
      PROVE  [Completion!Next]_Completion!vars
  <2>1. ASSUME NEW q \in Queries, StartSpawn(c, q)
        PROVE  UNCHANGED Completion!vars
    BY <1>1, <2>1 DEF StartSpawn, progVars, history
  <2>2. ASSUME NEW t \in Tasks, AddsRoot(c, t)
        PROVE  \E q \in Queries : Completion!Root(q, t)
    <3>1. PICK q \in Queries : q = cur_qid[c]
      BY <2>2 DEF AddsRoot, Spawning
    <3>2. /\ t \notin born /\ born' = born \cup {t}
          /\ query_id' = [query_id EXCEPT ![t] = q]
          /\ completed' = [completed EXCEPT ![t] = FALSE]
          /\ qstate' = qstate /\ qstate[q] = "spawning"
      BY <2>2, <3>1 DEF AddsRoot, NewTask, Spawning
    <3>3. Issued(q) = {}
      BY <2>2, <3>1 DEF AddsRoot, HasRoot, Roots, Issued
    <3>4. Completion!IsFresh(t)
      BY <3>2 DEF Completion!IsFresh
    <3>5. IssuedNow' = [IssuedNow EXCEPT ![q] = {t}]
      <4>1. Issued(q) \cup {t} = {t}
        BY <3>3
      <4>2. IssuedNow' = [IssuedNow EXCEPT ![q] = Issued(q) \cup {t}]
        BY <3>2, IssuedOneMore
      <4> QED
        BY <4>1, <4>2
    <3>6. {u \in born' : completed'[u]} = {u \in born : completed[u]}
      BY <3>2
    <3>7. Completion!Root(q, t)
      BY <3>2, <3>3, <3>4, <3>5, <3>6 DEF Completion!Root, IssuedNow, Issued
    <3> QED
      BY <3>7
  <2>3. ASSUME NEW t \in Tasks, Take(c, t)
        PROVE  UNCHANGED Completion!vars
    BY <1>1, <2>3 DEF Take, progVars, history
  <2>4. ASSUME NEW t \in Tasks, AddsChild(c, t)
        PROVE  \E q \in Queries, p \in Tasks : Completion!Split(q, p, t)
    <3>1. PICK q \in Queries, p \in Tasks : q = cur_qid[c] /\ p = cur_tid[c]
      BY <2>4 DEF AddsChild, Computing, Membership, Family
    <3>2. /\ t \notin born /\ born' = born \cup {t}
          /\ query_id' = [query_id EXCEPT ![t] = q]
          /\ completed' = [completed EXCEPT ![t] = FALSE]
          /\ qstate' = qstate
          /\ p \in born /\ ~ completed[p] /\ query_id[p] = q
      BY <2>4, <3>1 DEF AddsChild, NewTask, Computing, Membership
    <3>3. Completion!IsFresh(t)
      BY <3>2 DEF Completion!IsFresh
    <3>4. IssuedNow' = [IssuedNow EXCEPT ![q] = Issued(q) \cup {t}]
      BY <3>2, IssuedOneMore
    <3>5. {u \in born' : completed'[u]} = {u \in born : completed[u]}
      BY <3>2
    <3>6. Completion!Split(q, p, t)
      BY <3>2, <3>3, <3>4, <3>5 DEF Completion!Split, IssuedNow, Issued
    <3> QED
      BY <3>6
  <2>5. CASE EndSpawn(c)
    BY <1>1, <2>5 DEF EndSpawn, Spawning, progVars, history
  <2>6. ASSUME Complete(c)
        PROVE  \E q \in Queries, t \in Tasks : Completion!Finish(q, t)
    <3>1. PICK t \in Tasks, q \in Queries : t = cur_tid[c] /\ q = query_id[t]
      BY <2>6 DEF Complete, Computing, Membership, Family
    <3>2. /\ t \in born /\ ~ completed[t]
          /\ completed' = [completed EXCEPT ![t] = TRUE]
          /\ UNCHANGED <<qstate, born, query_id>>
      BY <2>6, <3>1 DEF Complete, Computing, Membership, history
    <3>3. Completion!Finish(q, t)
      BY <3>1, <3>2 DEF Completion!Finish
    <3> QED
      BY <3>3
  <2>7. CASE Erase(c)
    BY <1>1, <2>7 DEF Erase, history
  <2>8. CASE GetParent(c)
    BY <1>1, <2>8 DEF GetParent, progVars, history
  <2>9. CASE DecParent(c)
    BY <1>1, <2>9 DEF DecParent, SettleInParent
  <2>10. ASSUME FinishQuery(c)
         PROVE  \E q \in Queries : Completion!Report(q)
    <3>1. PICK q \in Queries : q = query_id[prog[c]]
      BY <2>10 DEF FinishQuery, Backtracking, BT, Family
    <3>2. /\ pc[c] = "finish" /\ prog[c] \in born /\ completed[prog[c]]
          /\ qstate[q] = "active"
          /\ qstate' = [qstate EXCEPT ![q] = "done"]
          /\ UNCHANGED <<born, query_id, completed>>
      BY <2>10, <3>1 DEF FinishQuery, Backtracking, BT, progVars
    <3>3. ASSUME NEW t \in born, query_id[t] = q PROVE completed[t]
      BY <3>1, <3>2, <3>3, OnlyRootLeft DEF Membership
    <3>4. Completion!Report(q)
      BY <3>1, <3>2, <3>3 DEF Completion!Report
    <3> QED
      BY <3>4
  <2>11. Completion!Next
         \/ UNCHANGED Completion!vars
         \/ EndSpawn(c) \/ Erase(c) \/ GetParent(c) \/ DecParent(c)
    <3> HIDE DEF Completion!vars
    <3> QED
      BY <1>3, <2>1, <2>2, <2>3, <2>4, <2>6, <2>10, FlagIsRight
         DEF Comper, Completion!Next
  <2> HIDE DEF Completion!vars
  <2> QED
    BY <2>5, <2>7, <2>8, <2>9, <2>11
<1> QED
  BY <1>2, <1>3 DEF Next

\* The progress table does what QueryCompletion promises: a query has one
\* root, its tasks are computed once, and it is reported once, when all of
\* them are.
THEOREM Refinement ==
  Spec => ImplementsCompletion
<1>1. Init => Completion!Init
  BY DEF Init, Completion!Init
<1> QED
  BY <1>1, Invariance, StepImplements, PTL
     DEF Spec, ImplementsCompletion, Completion!Spec
=============================================================================

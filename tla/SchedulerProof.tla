--------------------------- MODULE SchedulerProof ---------------------------
(***************************************************************************)
(* Proofs about Scheduler, for any sets of compers, queries and tasks and  *)
(* any capacities.                                                         *)
(*                                                                         *)
(* Every step of the scheduler is a step of TaskProg or leaves its         *)
(* variables alone (StepImplements), so the invariant that TaskProgProof   *)
(* proves, PP!IInv, holds here too.  What is added to it is about the      *)
(* queues: what a comper holds at each of its control points (Control),    *)
(* the list of active queries (Listed) and the places reserved in it       *)
(* (Slots), who is counted as idle (IdleCounted), the lengths (Sizes), and *)
(* where the tasks are: each that waits in one place, once (Parts), and    *)
(* with its own query (Owned).                                             *)
(***************************************************************************)
EXTENDS Scheduler, ProofLemmas

PP == INSTANCE TaskProgProof

-----------------------------------------------------------------------------
(* The scheduler implements the progress protocol                          *)

LEMMA InitSame == P!Init => PP!IInv
<1>1. PP!Init => PP!IInv
  BY PP!InitIInv, SchedulerAssumption DEF PP!NoTaskAssumption
<1>2. P!Init => PP!Init
  BY DEF P!Init, PP!Init
<1> QED
  BY <1>1, <1>2

\* The proofs of TaskProg speak of the same protocol as the scheduler does.
LEMMA SameNext == [P!Next]_(P!vars) => [PP!Next]_(PP!vars)
<1>1. ASSUME P!Next PROVE PP!Next
  <2>1. ASSUME NEW c \in Compers, P!Comper(c) PROVE PP!Comper(c)
    BY <2>1 DEF P!Comper, PP!Comper, P!StartSpawn, PP!StartSpawn,
                P!AddRootTask, PP!AddRootTask, P!Take, PP!Take,
                P!AddTask, PP!AddTask, P!add_task, PP!add_task, P!EndSpawn, PP!EndSpawn,
                P!Complete, PP!Complete, P!Erase, PP!Erase,
                P!GetParent, PP!GetParent, P!DecParent, PP!DecParent,
                P!FinishQuery, PP!FinishQuery, P!NewTask, PP!NewTask,
                P!HasRoot, PP!HasRoot, P!SettleInParent, PP!SettleInParent,
                P!progVars, PP!progVars, P!comperVars, PP!comperVars,
                P!history, PP!history
  <2> QED
    BY <1>1, <2>1 DEF P!Next, PP!Next
<1>2. UNCHANGED P!vars => UNCHANGED PP!vars
  BY DEF P!vars, PP!vars, P!progVars, PP!progVars, P!comperVars,
         PP!comperVars, P!history, PP!history
<1> QED
  BY <1>1, <1>2

LEMMA StepSame == PP!IInv /\ [P!Next]_(P!vars) => PP!IInv'
<1>1. PP!IInv /\ [PP!Next]_(PP!vars) => PP!IInv'
  BY PP!NextIInv, SchedulerAssumption DEF PP!NoTaskAssumption
<1> QED
  BY <1>1, SameNext

LEMMA NextTaskIDNew ==
  ASSUME HasId
  PROVE  NextTaskID \in Tasks /\ NextTaskID \notin born
BY DEF HasId, NextTaskID

LEMMA StepImplements ==
  ASSUME TypeOK, [Next]_vars
  PROVE  [P!Next]_(P!vars)
<1>1. UNCHANGED progState => UNCHANGED P!vars
  BY DEF progState, P!vars, P!progVars, P!comperVars, P!history
<1>2. CASE UNCHANGED vars
  BY <1>1, <1>2 DEF vars
<1>3. CASE Worker
  BY <1>1, <1>3 DEF Worker, UpdateTasks, SkipUpdate, NotifyNew, CheckActive,
       CheckQueue, Notify, TryEnd
<1>4. CASE Client
  BY <1>1, <1>4 DEF Client, Send
<1>5. CASE Terminated
  BY <1>1, <1>5 DEF Terminated, vars
<1>6. ASSUME NEW c \in Compers, Comper(c) PROVE P!Next \/ UNCHANGED P!vars
  <2>1. CASE RunLoop(c) \/ EndOfList(c) \/ LockReg(c) \/ CheckSize(c)
             \/ Refill(c) \/ LockFetch(c) \/ Pop(c) \/ BatchDone(c)
             \/ LockPush(c) \/ Push(c) \/ Spill(c) \/ WriteFile(c)
             \/ CheckQueries(c) \/ ReserveSlot(c) \/ Sleep(c) \/ WakeUp(c)
    BY <1>1, <2>1 DEF RunLoop, EndOfList, LockReg, CheckSize, Refill,
         LockFetch, AcquireOrSkip, Pop, BatchDone, LockPush, Push, Spill,
         WriteFile, CheckQueries, ReserveSlot, Sleep, WakeUp
  <2>2. CASE StartTask(c)
    <3>1. P!Take(c, Head(collector[c]))
      BY <2>2 DEF StartTask
    <3>2. Head(collector[c]) \in Tasks
      BY <2>2, HeadTailElements DEF StartTask, TypeOK, QueueTypes
    <3> QED
      BY <3>1, <3>2 DEF P!Next, P!Comper
  <2>3. CASE SplitTask(c)
    BY <2>3, NextTaskIDNew DEF SplitTask, IdsLeft, P!Next, P!Comper
  <2>4. CASE SpawnRoot(c)
    BY <2>4, NextTaskIDNew DEF SpawnRoot, P!Next, P!Comper
  <2>5. CASE Backtrack(c)
    BY <2>5 DEF Backtrack, P!Next, P!Comper
  <2>6. CASE RemoveQuery(c)
    BY <2>6 DEF RemoveQuery, P!Next, P!Comper
  <2>7. CASE Dequeue(c)
    <3>1. CASE query_que = <<>>
      BY <1>1, <2>7, <3>1 DEF Dequeue
    <3>2. CASE query_que # <<>>
      <4>1. Head(query_que) \in Queries
        BY <3>2, HeadTailElements DEF TypeOK, QueueTypes
      <4> QED
        BY <2>7, <3>2, <4>1 DEF Dequeue, P!Next, P!Comper
    <3> QED
      BY <3>1, <3>2
  <2>8. CASE PublishQuery(c)
    BY <2>8 DEF PublishQuery, P!Next, P!Comper
  <2> QED
    BY <1>6, <2>1, <2>2, <2>3, <2>4, <2>5, <2>6, <2>7, <2>8 DEF Comper
<1> QED
  BY <1>2, <1>3, <1>4, <1>5, <1>6 DEF Next

-----------------------------------------------------------------------------
(* The inductive invariant                                                 *)

Pushing(c) == spc[c] \in {"push", "pushing", "spill"}

\* What a comper does and holds at each of its control points.  A comper that
\* scans has a position in the list from which it takes its container.
ControlOf(c) ==
  /\ pc[c] # "free" => spc[c] \in {"batch", "spawn"} \/ Pushing(c)
  /\ spc[c] = "spawn" <=> pc[c] = "spawn"
  /\ Pushing(c) => pc[c] \in {"free", "compute"}
  /\ Pushing(c) <=> inhand[c] # <<>>
  /\ spc[c] = "spill" <=> spillbuf[c] # <<>>
  /\ collector[c] # <<>> => spc[c] = "batch" \/ pc[c] = "compute"
  /\ Scanning(c) /\ spc[c] # "next" => it[c] \in 1 .. Len(activeQ_list)
  /\ Pushing(c) /\ pc[c] = "free" => refilled[c]

Control == \A c \in Compers : ControlOf(c)

\* The list has the active queries, each once.
Listed == /\ Distinct(activeQ_list)
          /\ Elements(activeQ_list) = {q \in Queries : qstate[q] = "active"}

\* The places taken in the list, and those reserved by compers that have yet
\* to publish their query.
Reserving == {c \in Compers : spc[c] \in {"deq", "spawn"}}
Slots == /\ Len(activeQ_list) + Cardinality(Reserving) <= activeQ_num
         /\ activeQ_num <= activeQ_list_capacity

Idlers == {c \in Compers : spc[c] \in {"wait", "woken"}}
IdleCounted == global_num_idle = Cardinality(Idlers)

Sizes == /\ \A q \in Queries : Len(Qreg[q]) <= Qreg_capacity
         /\ \A q \in Queries : \A i \in 1 .. Len(Lreg[q]) : Lreg[q][i] # <<>>

\* The places of Boxes, with room for any number of files: a set that does
\* not change, so that what is in the places is a function on it.
InQreg(q) == <<"Qreg", q, 0>>
InLreg(q, j) == <<"Lreg", q, j>>
InCollector(c) == <<"collector", c, 0>>
InInhand(c) == <<"inhand", c, 0>>
InSpillbuf(c) == <<"spillbuf", c, 0>>

Places == {InQreg(q) : q \in Queries}
          \cup {InLreg(q, j) : q \in Queries, j \in Nat \ {0}}
          \cup {InCollector(c) : c \in Compers}
          \cup {InInhand(c) : c \in Compers}
          \cup {InSpillbuf(c) : c \in Compers}

Held == [b \in Places |-> IF b \in Boxes THEN Elements(TasksIn(b)) ELSE {}]

Parts == Partition(Held, pending)

\* What is at one place is there once, and of one query.
QueryOwns(q) ==
  /\ Distinct(Qreg[q])
  /\ \A t \in Elements(Qreg[q]) : query_id[t] = q
  /\ \A i \in 1 .. Len(Lreg[q]) :
        /\ Distinct(Lreg[q][i])
        /\ \A t \in Elements(Lreg[q][i]) : query_id[t] = q

ComperOwns(c) ==
  /\ Distinct(inhand[c]) /\ Distinct(spillbuf[c]) /\ Distinct(collector[c])
  /\ \A t \in Elements(inhand[c]) \cup Elements(spillbuf[c]) : query_id[t] = Tc(c)
  /\ \A t, u \in Elements(collector[c]) : query_id[t] = query_id[u]
  /\ \A t \in Elements(collector[c]) : qstate[query_id[t]] = "active"

Owned == /\ \A q \in Queries : QueryOwns(q)
         /\ \A c \in Compers : ComperOwns(c)

IInv == /\ PP!IInv /\ QueueTypes /\ Control /\ Listed /\ Slots
        /\ IdleCounted /\ Sizes /\ Parts /\ Owned

-----------------------------------------------------------------------------
(* Facts about a state                                                     *)

LEMMA SameTypes == PP!TypeOK <=> P!TypeOK
BY DEF PP!TypeOK, P!TypeOK, PP!QueryStates, P!QueryStates, PP!PCs, P!PCs

LEMMA ExitPosition ==
  ASSUME QueueTypes
  PROVE  LET u == SelectInSeq(inbox, LAMBDA m : m = ServerExit)
         IN /\ u \in 0 .. Len(inbox)
            /\ u = 0 => \A i \in 1 .. Len(inbox) : inbox[i] # ServerExit
            /\ u # 0 => /\ inbox[u] = ServerExit
                        /\ \A i \in 1 .. u - 1 : inbox[i] # ServerExit
BY FirstPosition DEF QueueTypes, SelectInSeq, Min

LEMMA QueryPosition ==
  ASSUME QueueTypes, NEW q \in Elements(activeQ_list)
  PROVE  /\ PositionOf(q) \in 1 .. Len(activeQ_list)
         /\ activeQ_list[PositionOf(q)] = q
<1>1. /\ PositionOf(q) \in 0 .. Len(activeQ_list)
      /\ PositionOf(q) = 0 => \A i \in 1 .. Len(activeQ_list) : activeQ_list[i] # q
      /\ PositionOf(q) # 0 => activeQ_list[PositionOf(q)] = q
  BY FirstPosition DEF QueueTypes, SelectInSeq, Min, PositionOf
<1>2. PICK i \in 1 .. Len(activeQ_list) : activeQ_list[i] = q
  BY DEF Elements
<1>3. PositionOf(q) # 0
  BY <1>1, <1>2
<1> HIDE DEF PositionOf
<1> QED
  BY <1>1, <1>3

\* The container a comper works on is the one of an active query.
LEMMA ContainerOf ==
  ASSUME IInv, NEW c \in Compers,
         spc[c] \in {"size", "refill", "fetch", "pop"} \/ Pushing(c)
  PROVE  Tc(c) \in Queries /\ qstate[Tc(c)] = "active"
<1>1. CASE Scanning(c)
  <2>1. it[c] \in 1 .. Len(activeQ_list) /\ Tc(c) = activeQ_list[it[c]]
    BY <1>1 DEF IInv, Control, ControlOf, Tc, Pushing
  <2>2. Tc(c) \in Elements(activeQ_list)
    BY <2>1 DEF Elements
  <2> QED
    BY <2>2 DEF IInv, Listed
<1>2. CASE ~ Scanning(c)
  <2>1. pc[c] = "compute" /\ Tc(c) = cur_qid[c]
    BY <1>2 DEF IInv, Control, ControlOf, Tc, Pushing, Scanning
  <2>2. /\ cur_tid[c] \in born /\ cur_qid[c] = query_id[cur_tid[c]]
        /\ qstate[cur_qid[c]] = "active"
    BY <2>1 DEF IInv, PP!IInv, PP!Computing, PP!Membership
  <2> QED
    BY <2>1, <2>2 DEF IInv, PP!IInv, PP!Family
<1> QED
  BY <1>1, <1>2

LEMMA ReservingFinite == IsFiniteSet(Reserving) /\ Cardinality(Reserving) \in Nat
<1>1. Reserving \subseteq Compers
  BY DEF Reserving
<1> QED
  BY <1>1, FS_Subset, FS_CardinalityType, SchedulerAssumption

LEMMA IdlersFinite ==
  /\ IsFiniteSet(Idlers) /\ Cardinality(Idlers) \in 0 .. Cardinality(Compers)
<1>1. Idlers \subseteq Compers
  BY DEF Idlers
<1>2. /\ IsFiniteSet(Idlers) /\ Cardinality(Idlers) \in Nat
      /\ Cardinality(Idlers) <= Cardinality(Compers)
      /\ Cardinality(Compers) \in Nat
  BY <1>1, FS_Subset, FS_CardinalityType, SchedulerAssumption
<1> QED
  BY <1>2

\* What happens to the list when a query is taken out of it, and when one is
\* put in it.
LEMMA ListShrinks ==
  ASSUME IInv, NEW c \in Compers, RemoveQuery(c)
  PROVE  LET q == query_id[prog[c]]
         IN /\ q \in Queries /\ qstate[q] = "active"
            /\ qstate' = [qstate EXCEPT ![q] = "done"]
            /\ activeQ_list' \in Seq(Queries)
            /\ Len(activeQ_list') = Len(activeQ_list) - 1
            /\ Elements(activeQ_list') = Elements(activeQ_list) \ {q}
            /\ Distinct(activeQ_list')
            /\ activeQ_num' = activeQ_num - 1 /\ Readers = {}
<1> DEFINE q == query_id[prog[c]]
<1>1. /\ pc[c] = "finish" /\ activeQ_num' = activeQ_num - 1 /\ Readers = {}
      /\ activeQ_list' = RemoveAt(activeQ_list, PositionOf(q))
      /\ qstate' = [qstate EXCEPT ![q] = "done"]
  BY DEF RemoveQuery, P!FinishQuery
<1>2. prog[c] \in born /\ qstate[q] = "active"
  BY <1>1 DEF IInv, PP!IInv, PP!Backtracking, PP!BT
<1>3. q \in Queries
  BY <1>2 DEF IInv, PP!IInv, PP!Family
<1>4. q \in Elements(activeQ_list) /\ Distinct(activeQ_list)
  BY <1>2, <1>3 DEF IInv, Listed
<1>5. /\ PositionOf(q) \in 1 .. Len(activeQ_list)
      /\ activeQ_list[PositionOf(q)] = q
  BY <1>4, QueryPosition DEF IInv
<1>6. activeQ_list \in Seq(Queries)
  BY DEF IInv, QueueTypes
<1>7. \A k \in 1 .. Len(activeQ_list) :
         LET r == RemoveAt(activeQ_list, k)
         IN /\ r \in Seq(Queries) /\ Len(r) = Len(activeQ_list) - 1
            /\ Elements(r) = Elements(activeQ_list) \ {activeQ_list[k]}
            /\ Distinct(r)
  BY <1>4, <1>6, RemovedElements DEF RemoveAt
<1> QED
  BY <1>1, <1>2, <1>3, <1>5, <1>7

LEMMA ListGrows ==
  ASSUME IInv, NEW c \in Compers, PublishQuery(c)
  PROVE  LET q == cur_qid[c]
         IN /\ q \in Queries /\ qstate[q] = "spawning"
            /\ qstate' = [qstate EXCEPT ![q] = "active"]
            /\ activeQ_list' \in Seq(Queries)
            /\ Len(activeQ_list') = Len(activeQ_list) + 1
            /\ Elements(activeQ_list') = Elements(activeQ_list) \cup {q}
            /\ Distinct(activeQ_list') /\ Readers = {}
<1> DEFINE q == cur_qid[c]
<1>1. /\ pc[c] = "spawn" /\ activeQ_list' = Append(activeQ_list, q)
      /\ qstate' = [qstate EXCEPT ![q] = "active"] /\ Readers = {}
  BY DEF PublishQuery, P!EndSpawn
<1>2. q \in Queries /\ qstate[q] = "spawning"
  BY <1>1 DEF IInv, PP!IInv, PP!Spawning
<1>3. q \notin Elements(activeQ_list) /\ Distinct(activeQ_list)
  BY <1>2 DEF IInv, Listed
<1>4. activeQ_list \in Seq(Queries)
  BY DEF IInv, QueueTypes
<1>5. /\ Append(activeQ_list, q) \in Seq(Queries)
      /\ Elements(Append(activeQ_list, q)) = Elements(activeQ_list) \cup {q}
      /\ Distinct(Append(activeQ_list, q))
  BY <1>2, <1>3, <1>4, AppendElements
<1>6. Len(Append(activeQ_list, q)) = Len(activeQ_list) + 1
  BY <1>2, <1>4, AppendProperties
<1> QED
  BY <1>1, <1>2, <1>5, <1>6

-----------------------------------------------------------------------------
(* The count of idle compers                                               *)

LEMMA IdleStep ==
  ASSUME IInv, [Next]_vars
  PROVE  IdleCounted'
<1>0. /\ spc \in [Compers -> SPCs] /\ IdleCounted
      /\ Cardinality(Idlers) \in Nat /\ IsFiniteSet(Idlers)
  BY IdlersFinite, SchedulerAssumption, FS_CardinalityType DEF IInv, QueueTypes
<1>1. ASSUME Idlers' = Idlers, UNCHANGED global_num_idle PROVE IdleCounted'
  BY <1>0, <1>1 DEF IdleCounted
<1>2. ASSUME NEW c \in Compers, NEW l \in SPCs \ {"wait", "woken"},
             spc' = [spc EXCEPT ![c] = l], spc[c] \notin {"wait", "woken"}
      PROVE  Idlers' = Idlers
  BY <1>0, <1>2 DEF Idlers
<1>3. ASSUME NotifyAll PROVE Idlers' = Idlers
  BY <1>0, <1>3 DEF Idlers, NotifyAll
<1>4. ASSUME UNCHANGED spc PROVE Idlers' = Idlers
  BY <1>4 DEF Idlers
<1>5. CASE UNCHANGED vars
  BY <1>1, <1>4, <1>5 DEF vars, go
<1>6. CASE Worker
  <2>1. UNCHANGED spc \/ NotifyAll
    BY <1>6 DEF Worker, UpdateTasks, SkipUpdate, NotifyNew, CheckActive,
         CheckQueue, Notify, TryEnd
  <2>2. UNCHANGED global_num_idle
    BY <1>6 DEF Worker, UpdateTasks, SkipUpdate, NotifyNew, CheckActive,
         CheckQueue, Notify, TryEnd, go
  <2> QED
    BY <1>1, <1>3, <1>4, <2>1, <2>2
<1>7. CASE Client
  BY <1>1, <1>4, <1>7 DEF Client, Send, go
<1>8. CASE Terminated
  BY <1>1, <1>4, <1>8 DEF Terminated, vars, go
<1>9. ASSUME NEW c \in Compers, Comper(c) PROVE IdleCounted'
  <2>1. CASE Sleep(c)
    <3>1. c \notin Idlers /\ Idlers' = Idlers \cup {c}
      BY <1>0, <2>1 DEF Sleep, Goto, Idlers
    <3>2. Cardinality(Idlers') = Cardinality(Idlers) + 1
      BY <1>0, <3>1, FS_AddElement
    <3> QED
      BY <1>0, <2>1, <3>2 DEF Sleep, IdleCounted
  <2>2. CASE WakeUp(c) /\ ready_go
    <3>1. c \in Idlers /\ Idlers' = Idlers \ {c}
      BY <1>0, <2>2 DEF WakeUp, Goto, Idlers
    <3>2. Cardinality(Idlers') = Cardinality(Idlers) - 1
      BY <1>0, <3>1, FS_RemoveElement
    <3> QED
      BY <1>0, <2>2, <3>2 DEF WakeUp, IdleCounted
  <2>3. CASE WakeUp(c) /\ ~ ready_go
    <3>1. Idlers' = Idlers /\ UNCHANGED global_num_idle
      BY <1>0, <2>3 DEF WakeUp, Goto, Idlers
    <3> QED
      BY <1>1, <3>1
  <2>4. ASSUME \/ UNCHANGED spc
               \/ \E l \in SPCs \ {"wait", "woken"} :
                    /\ spc' = [spc EXCEPT ![c] = l]
                    /\ spc[c] \notin {"wait", "woken"},
               UNCHANGED global_num_idle
        PROVE  IdleCounted'
    BY <1>1, <1>2, <1>4, <2>4
  <2> USE DEF Goto, NextQuery, go, SPCs
  <2>5. CASE RunLoop(c)
    BY <2>4, <2>5 DEF RunLoop
  <2>6. CASE EndOfList(c)
    BY <2>4, <2>6 DEF EndOfList
  <2>7. CASE LockReg(c)
    BY <2>4, <2>7 DEF LockReg, AcquireOrSkip
  <2>8. CASE CheckSize(c)
    BY <2>4, <2>8 DEF CheckSize
  <2>9. CASE Refill(c)
    BY <2>4, <2>9 DEF Refill
  <2>10. CASE LockFetch(c)
    BY <2>4, <2>10 DEF LockFetch, AcquireOrSkip
  <2>11. CASE Pop(c)
    <3>1. /\ spc[c] = "pop" /\ UNCHANGED global_num_idle
          /\ spc' = [spc EXCEPT ![c] = "next"] \/ spc' = [spc EXCEPT ![c] = "batch"]
      BY <2>11 DEF Pop
    <3> QED
      BY <2>4, <3>1
  <2>12. CASE StartTask(c) \/ Backtrack(c) \/ SpawnRoot(c) \/ RemoveQuery(c)
    BY <2>4, <2>12 DEF StartTask, Backtrack, SpawnRoot, RemoveQuery
  <2>13. CASE BatchDone(c) \/ SplitTask(c) \/ LockPush(c)
    BY <2>4, <2>13 DEF BatchDone, SplitTask, LockPush
  <2>14. CASE Push(c)
    <3>1. /\ spc[c] = "pushing" /\ UNCHANGED global_num_idle
          /\ \/ spc' = [spc EXCEPT ![c] = "push"]
             \/ spc' = [spc EXCEPT ![c] = "batch"]
             \/ spc' = [spc EXCEPT ![c] = "fetch"]
      BY <2>14 DEF Push
    <3> QED
      BY <2>4, <3>1
  <2>15. CASE Spill(c) \/ WriteFile(c)
    BY <2>4, <2>15 DEF Spill, WriteFile
  <2>16. CASE CheckQueries(c)
    BY <2>4, <2>16 DEF CheckQueries
  <2>17. CASE ReserveSlot(c)
    BY <2>4, <2>17 DEF ReserveSlot
  <2>18. CASE Dequeue(c)
    BY <2>4, <2>18 DEF Dequeue
  <2>19. CASE PublishQuery(c)
    BY <2>4, <2>19 DEF PublishQuery
  <2> QED
    BY <1>9, <2>1, <2>2, <2>3, <2>5, <2>6, <2>7, <2>8, <2>9, <2>10, <2>11,
       <2>12, <2>13, <2>14, <2>15, <2>16, <2>17, <2>18, <2>19 DEF Comper
<1> QED
  BY <1>5, <1>6, <1>7, <1>8, <1>9 DEF Next

LEMMA IdleBound == IdleCounted => global_num_idle \in 0 .. Cardinality(Compers)
BY IdlersFinite DEF IdleCounted

-----------------------------------------------------------------------------
(* The types of the queues                                                 *)

LEMMA TypesStep ==
  ASSUME IInv, [Next]_vars
  PROVE  QueueTypes'
<1> USE DEF QueueTypes
<1>0. QueueTypes
  BY DEF IInv
<1>9. global_num_idle' \in 0 .. Cardinality(Compers)
  <2>2. IdleCounted' => (global_num_idle \in 0 .. Cardinality(Compers))'
    BY IdleBound, PTL
  <2> QED
    BY <2>2, IdleStep
<1>1. CASE UNCHANGED vars
  BY <1>0, <1>1 DEF vars, client, active, go, queues, scan, buffers
<1>2. CASE UpdateTasks
  <2> DEFINE u == SelectInSeq(inbox, LAMBDA m : m = ServerExit)
             news == IF u = 0 THEN inbox ELSE SubSeq(inbox, 1, u - 1)
  <2>1. /\ u \in 0 .. Len(inbox)
        /\ u = 0 => \A i \in 1 .. Len(inbox) : inbox[i] # ServerExit
        /\ u # 0 => \A i \in 1 .. u - 1 : inbox[i] # ServerExit
    BY <1>0, ExitPosition
  <2>2. /\ query_que' = query_que \o news
        /\ server_exit' = (u # 0)
        /\ inbox' = IF u = 0 THEN <<>> ELSE SubSeq(inbox, u + 1, Len(inbox))
        /\ wpc' = IF news = <<>> THEN "num" ELSE "notifynew"
        /\ UNCHANGED <<sent, active, global_end_label, ready_go,
                       global_num_idle, queues, spc, scan, buffers>>
    BY <1>2 DEF UpdateTasks
  <2> HIDE DEF u
  <2>3. Len(inbox) \in Nat /\ \A i \in 1 .. Len(inbox) : inbox[i] \in sent
    BY <1>0
  <2>4. \A m \in sent : m # ServerExit => m \in Queries
    BY <1>0, SchedulerAssumption
  <2>5. CASE u = 0
    <3>1. \A i \in 1 .. Len(inbox) : inbox[i] \in Queries
      BY <2>1, <2>3, <2>4, <2>5
    <3>2. inbox \in Seq(Queries)
      <4>1. inbox = [i \in 1 .. Len(inbox) |-> inbox[i]]
        BY <1>0, LenProperties
      <4>2. [i \in 1 .. Len(inbox) |-> inbox[i]] \in Seq(Queries)
        BY <2>3, <3>1, IsASeq
      <4> QED
        BY <4>1, <4>2
    <3>3. query_que' \in Seq(Queries) /\ inbox' \in Seq(sent)
      BY <1>0, <2>2, <2>5, <3>2
    <3> QED
      BY <1>0, <2>2, <3>3 DEF active, go, queues, scan, buffers, WPCs
  <2>6. CASE u # 0
    <3>1. u \in 1 .. Len(inbox)
      BY <2>1, <2>3, <2>6
    <3>2. \A i \in 1 .. u - 1 : inbox[i] \in Queries
      BY <2>1, <2>3, <2>4, <2>6, <3>1
    <3>3. 1 \in Int /\ u - 1 \in Int /\ u + 1 \in Int /\ Len(inbox) \in Int
      BY <2>3, <3>1
    <3>4. SubSeq(inbox, 1, u - 1) \in Seq(Queries)
      BY <3>2, <3>3, SubSeqProperties
    <3>5. \A i \in u + 1 .. Len(inbox) : inbox[i] \in sent
      BY <2>3, <3>1
    <3>6. SubSeq(inbox, u + 1, Len(inbox)) \in Seq(sent)
      BY <3>3, <3>5, SubSeqProperties
    <3>7. query_que' \in Seq(Queries) /\ inbox' \in Seq(sent)
      BY <1>0, <2>2, <2>6, <3>4, <3>6
    <3> QED
      BY <1>0, <2>2, <3>7 DEF active, go, queues, scan, buffers, WPCs
  <2> QED
    BY <2>5, <2>6
<1>3. CASE SkipUpdate \/ NotifyNew \/ CheckActive \/ CheckQueue \/ Notify \/ TryEnd
  BY <1>0, <1>3 DEF SkipUpdate, NotifyNew, CheckActive, CheckQueue, Notify,
       TryEnd, NotifyAll, client, active, go, queues, scan, buffers, WPCs, SPCs
<1>4. CASE Client
  <2>1. PICK m \in Messages : Send(m)
    BY <1>4 DEF Client
  <2>2. inbox \in Seq(sent')
    BY <1>0, <2>1 DEF Send
  <2> QED
    BY <1>0, <2>1, <2>2 DEF Send, active, go, queues, scan, buffers
<1>7. it \in [Compers -> Nat \ {0}]
  BY <1>0
<1>8. ASSUME NEW c \in Compers,
             \/ it' = [it EXCEPT ![c] = 1]
             \/ it' = [it EXCEPT ![c] = @ + 1]
             \/ UNCHANGED it
      PROVE  it' \in [Compers -> Nat \ {0}]
  <2>1. 1 \in Nat \ {0} /\ it[c] + 1 \in Nat \ {0}
    BY <1>7
  <2> QED
    BY <1>7, <1>8, <2>1
<1>5. ASSUME NEW c \in Compers, Comper(c) PROVE QueueTypes'
  <2>0. ASSUME NEW l \in SPCs, spc' = [spc EXCEPT ![c] = l]
        PROVE  spc' \in [Compers -> SPCs]
    BY <1>0, <2>0
  <2>00. {"run", "next", "size", "refill", "fetch", "pop", "batch", "push",
          "pushing", "spill", "queries", "slot", "deq", "spawn", "notfound",
          "wait", "woken", "exit"} \subseteq SPCs
    BY DEF SPCs
  <2> USE <2>0, <2>00
  <2> USE DEF Goto, NextQuery, client, active, go, queues, scan, buffers
  <2>20. CASE RunLoop(c)
    <3>1. spc' \in [Compers -> SPCs]
      BY <1>0, <2>20 DEF RunLoop
    <3>2. it' \in [Compers -> Nat \ {0}]
      BY <1>8, <2>20 DEF RunLoop
    <3>3. refilled' \in [Compers -> BOOLEAN]
      <4>1. refilled' = [refilled EXCEPT ![c] = FALSE] \/ refilled' = refilled
        BY <2>20 DEF RunLoop
      <4> QED
        BY <1>0, <4>1
    <3>4. UNCHANGED <<client, query_que, active, go, queues, wpc, buffers>>
      BY <2>20 DEF RunLoop
    <3> QED
      BY <1>0, <3>1, <3>2, <3>3, <3>4
  <2>1. CASE EndOfList(c) \/ BatchDone(c) \/ LockPush(c)
    BY <1>0, <2>1 DEF EndOfList, BatchDone, LockPush
  <2>21. CASE Backtrack(c)
    BY <1>0, <2>21 DEF Backtrack
  <2>15. CASE CheckSize(c)
    <3>1. \E l \in {"refill", "fetch"} : spc' = [spc EXCEPT ![c] = l]
      BY <2>15 DEF CheckSize
    <3> QED
      BY <1>0, <2>15, <3>1 DEF CheckSize
  <2>16. CASE LockReg(c)
    <3>1. spc' \in [Compers -> SPCs]
      BY <1>0, <2>16 DEF LockReg, AcquireOrSkip
    <3>2. it' \in [Compers -> Nat \ {0}]
      BY <1>8, <2>16 DEF LockReg, AcquireOrSkip
    <3>3. refilled' \in [Compers -> BOOLEAN]
      <4>1. PICK r \in {FALSE, refilled[c]} : refilled' = [refilled EXCEPT ![c] = r]
        BY <2>16 DEF LockReg
      <4>2. r \in BOOLEAN
        BY <1>0
      <4> QED
        BY <1>0, <4>1, <4>2
    <3>4. UNCHANGED <<client, query_que, active, go, queues, wpc, buffers>>
      BY <2>16 DEF LockReg, AcquireOrSkip
    <3> QED
      BY <1>0, <3>1, <3>2, <3>3, <3>4
  <2>17. CASE LockFetch(c)
    <3>1. spc' \in [Compers -> SPCs]
      BY <1>0, <2>17 DEF LockFetch, AcquireOrSkip
    <3>2. it' \in [Compers -> Nat \ {0}]
      BY <1>8, <2>17 DEF LockFetch, AcquireOrSkip
    <3>3. UNCHANGED <<client, query_que, active, go, queues, wpc, refilled, buffers>>
      BY <2>17 DEF LockFetch, AcquireOrSkip
    <3> QED
      BY <1>0, <3>1, <3>2, <3>3
  <2>2. CASE Refill(c)
    <3>1. spc[c] = "refill" /\ Tc(c) \in Queries
      BY <2>2, ContainerOf DEF Refill
    <3>2. Lreg[Tc(c)] \in Seq(Seq(Tasks))
      BY <1>0, <3>1
    <3>3. CASE Lreg[Tc(c)] = <<>>
      BY <1>0, <2>2, <3>3 DEF Refill
    <3>4. CASE Lreg[Tc(c)] # <<>>
      <4>1. /\ Head(Lreg[Tc(c)]) \in Seq(Tasks)
            /\ Tail(Lreg[Tc(c)]) \in Seq(Seq(Tasks))
        BY <3>2, <3>4
      <4> QED
        BY <1>0, <2>2, <3>1, <3>4, <4>1 DEF Refill
    <3> QED
      BY <3>3, <3>4
  <2>3. CASE Pop(c)
    <3>1. spc[c] = "pop" /\ Tc(c) \in Queries
      BY <2>3, ContainerOf DEF Pop
    <3> DEFINE s == Qreg[Tc(c)]
               k == IF Len(s) < tasks_per_fetch_g THEN Len(s)
                                                  ELSE tasks_per_fetch_g
    <3>2. s \in Seq(Tasks) /\ Len(s) \in Nat
      BY <1>0, <3>1
    <3>3. k \in Nat
      BY <3>2, SchedulerAssumption
    <3>4. SubSeq(s, 1, k) \in Seq(Tasks) /\ SubSeq(s, k + 1, Len(s)) \in Seq(Tasks)
      <4>1. k <= Len(s)
        BY <3>2, SchedulerAssumption
      <4> HIDE DEF k, s
      <4> QED
        BY <3>2, <3>3, <4>1
    <3>5. /\ collector' = [collector EXCEPT ![c] = SubSeq(s, 1, k)]
          /\ Qreg' = [Qreg EXCEPT ![Tc(c)] = SubSeq(s, k + 1, Len(s))]
      BY <1>0, <2>3, <3>1 DEF Pop
    <3>6. /\ \/ NextQuery(c)
             \/ Goto(c, "batch") /\ UNCHANGED it
          /\ UNCHANGED <<client, query_que, active, go, Lreg, wpc, refilled,
                         inhand, spillbuf>>
      BY <2>3 DEF Pop
    <3> HIDE DEF s, k
    <3>7. (it' \in [Compers -> Nat \ {0}]) /\ (spc' \in [Compers -> SPCs])
      BY <1>0, <3>6
    <3> QED
      BY <1>0, <3>1, <3>4, <3>5, <3>6, <3>7
  <2>4. CASE StartTask(c)
    <3>1. Tail(collector[c]) \in Seq(Tasks)
      BY <1>0, <2>4 DEF StartTask
    <3> QED
      BY <1>0, <2>4, <3>1 DEF StartTask
  <2>5. CASE SplitTask(c)
    <3>1. <<NextTaskID>> \in Seq(Tasks)
      BY <2>5, NextTaskIDNew DEF SplitTask, IdsLeft
    <3> QED
      BY <1>0, <2>5, <3>1 DEF SplitTask
  <2>6. CASE SpawnRoot(c)
    <3>1. NextTaskID \in Tasks
      BY <2>6, NextTaskIDNew DEF SpawnRoot
    <3>2. cur_qid[c] \in Queries
      BY <2>6 DEF SpawnRoot, P!AddRootTask, IInv, PP!IInv, PP!Spawning
    <3>3. Append(Qreg[cur_qid[c]], NextTaskID) \in Seq(Tasks)
      BY <1>0, <3>1, <3>2
    <3> QED
      BY <1>0, <2>6, <3>2, <3>3 DEF SpawnRoot
  <2>7. CASE RemoveQuery(c)
    <3>1. activeQ_list' \in Seq(Queries)
      BY <2>7, ListShrinks
    <3>2. activeQ_num - 1 \in Nat
      <4>1. Len(activeQ_list') \in Nat /\ Len(activeQ_list) \in Nat
            /\ Len(activeQ_list') = Len(activeQ_list) - 1
        <5>1. Len(activeQ_list') \in Nat /\ Len(activeQ_list) \in Nat
          BY <1>0, <3>1
        <5>2. Len(activeQ_list') = Len(activeQ_list) - 1
          BY <2>7, ListShrinks
        <5> QED
          BY <5>1, <5>2
      <4>2. activeQ_num \in Nat
            /\ Len(activeQ_list) + Cardinality(Reserving) <= activeQ_num
        BY <1>0 DEF IInv, Slots
      <4> QED
        BY <4>1, <4>2, ReservingFinite
    <3> QED
      BY <1>0, <2>7, <3>1, <3>2 DEF RemoveQuery
  <2>8. CASE Push(c)
    <3>1. spc[c] = "pushing" /\ Tc(c) \in Queries /\ inhand[c] # <<>>
      BY <2>8, ContainerOf DEF Push, Pushing, IInv, Control, ControlOf
    <3>2. /\ Append(Qreg[Tc(c)], Head(inhand[c])) \in Seq(Tasks)
          /\ Tail(inhand[c]) \in Seq(Tasks)
      BY <1>0, <3>1
    <3>3. \/ spc' = [spc EXCEPT ![c] = "push"]
          \/ spc' = [spc EXCEPT ![c] = "batch"]
          \/ spc' = [spc EXCEPT ![c] = "fetch"]
      BY <2>8 DEF Push
    <3> QED
      BY <1>0, <2>8, <3>1, <3>2, <3>3 DEF Push
  <2>9. CASE Spill(c)
    <3>1. spc[c] = "pushing" /\ Tc(c) \in Queries
      BY <2>9, ContainerOf DEF Spill, Pushing
    <3> DEFINE s == Qreg[Tc(c)]
               keep == IF Len(s) < RT_TASKS_PER_FILE THEN 0
                       ELSE Len(s) - RT_TASKS_PER_FILE
    <3>2. s \in Seq(Tasks) /\ Len(s) \in Nat
      BY <1>0, <3>1
    <3>3. keep \in 0 .. Len(s)
      BY <3>2, SchedulerAssumption
    <3>4. /\ SubSeq(s, 1, keep) \in Seq(Tasks)
          /\ SubSeq(s, keep + 1, Len(s)) \in Seq(Tasks)
      <4> HIDE DEF keep, s
      <4> QED
        BY <3>2, <3>3
    <3>5. Reverse(SubSeq(s, keep + 1, Len(s))) \in Seq(Tasks)
      <4> HIDE DEF keep, s
      <4>1. \A r \in Seq(Tasks) : Reverse(r) \in Seq(Tasks)
        <5> SUFFICES ASSUME NEW r \in Seq(Tasks) PROVE Reverse(r) \in Seq(Tasks)
          OBVIOUS
        <5>1. Len(r) \in Nat /\ \A i \in 1 .. Len(r) : r[i] \in Tasks
          BY LenProperties
        <5>2. \A i \in 1 .. Len(r) : (Len(r) - i) + 1 \in 1 .. Len(r)
          BY <5>1
        <5> QED
          BY <5>1, <5>2, IsASeq DEF Reverse
      <4> QED
        BY <3>4, <4>1
    <3>6. /\ spillbuf' = [spillbuf EXCEPT ![c] =
                            Reverse(SubSeq(s, keep + 1, Len(s)))]
          /\ Qreg' = [Qreg EXCEPT ![Tc(c)] = SubSeq(s, 1, keep)]
      BY <1>0, <2>9, <3>1 DEF Spill
    <3>7. /\ Goto(c, "spill")
          /\ UNCHANGED <<client, query_que, active, go, Lreg, wpc, scan,
                         collector, inhand>>
      BY <2>9 DEF Spill
    <3> HIDE DEF s, keep
    <3> QED
      BY <1>0, <3>1, <3>4, <3>5, <3>6, <3>7
  <2>10. CASE WriteFile(c)
    <3>1. Tc(c) \in Queries
      BY <2>10, ContainerOf DEF WriteFile, Pushing
    <3>2. Append(Lreg[Tc(c)], spillbuf[c]) \in Seq(Seq(Tasks)) /\ <<>> \in Seq(Tasks)
      BY <1>0, <3>1
    <3> QED
      BY <1>0, <2>10, <3>1, <3>2 DEF WriteFile
  <2>11. CASE CheckQueries(c)
    <3>1. \E l \in {"notfound", "slot"} : spc' = [spc EXCEPT ![c] = l]
      BY <2>11 DEF CheckQueries
    <3> QED
      BY <1>0, <2>11, <3>1 DEF CheckQueries
  <2>18. CASE ReserveSlot(c)
    <3>1. activeQ_num' \in Nat /\ (spc' \in [Compers -> SPCs])
      <4>1. activeQ_num' \in {activeQ_num, activeQ_num + 1}
        BY <2>18 DEF ReserveSlot
      <4>2. spc' \in [Compers -> SPCs]
        BY <1>0, <2>18 DEF ReserveSlot
      <4> QED
        BY <1>0, <4>1, <4>2
    <3> QED
      BY <1>0, <2>18, <3>1 DEF ReserveSlot
  <2>12. CASE Dequeue(c)
    <3>1. query_que # <<>> => Tail(query_que) \in Seq(Queries)
      BY <1>0
    <3> QED
      BY <1>0, <2>12, <3>1 DEF Dequeue
  <2>13. CASE PublishQuery(c)
    <3>1. activeQ_list' \in Seq(Queries)
      BY <2>13, ListGrows
    <3> QED
      BY <1>0, <2>13, <3>1 DEF PublishQuery
  <2>14. CASE Sleep(c)
    BY <1>0, <2>14, <1>9 DEF Sleep
  <2>19. CASE WakeUp(c)
    BY <1>0, <2>19, <1>9 DEF WakeUp
  <2> QED
    BY <1>5, <2>1, <2>2, <2>3, <2>4, <2>5, <2>6, <2>7, <2>8, <2>9, <2>10,
       <2>11, <2>12, <2>13, <2>14, <2>15, <2>16, <2>17, <2>18, <2>19,
       <2>20, <2>21
    DEF Comper
<1>6. CASE Terminated
  BY <1>1, <1>6 DEF Terminated
<1> QED
  BY <1>1, <1>2, <1>3, <1>4, <1>5, <1>6 DEF Next, Worker

-----------------------------------------------------------------------------
(* What the compers hold                                                   *)

\* A step of one comper leaves the others where they are.
LEMMA OthersSame ==
  ASSUME IInv, NEW c \in Compers, Comper(c), NEW d \in Compers \ {c}
  PROVE  /\ spc'[d] = spc[d] /\ pc'[d] = pc[d] /\ cur_qid'[d] = cur_qid[d]
         /\ it'[d] = it[d] /\ refilled'[d] = refilled[d]
         /\ collector'[d] = collector[d] /\ inhand'[d] = inhand[d]
         /\ spillbuf'[d] = spillbuf[d]
<1>0. /\ spc \in [Compers -> SPCs] /\ it \in [Compers -> Nat \ {0}]
      /\ DOMAIN refilled = Compers /\ DOMAIN collector = Compers
      /\ DOMAIN inhand = Compers /\ DOMAIN spillbuf = Compers
      /\ DOMAIN pc = Compers /\ DOMAIN cur_qid = Compers
  BY DEF IInv, QueueTypes, PP!IInv, PP!TypeOK
<1> USE <1>0
<1> USE DEF Goto, NextQuery, scan, buffers, progState
<1>1. CASE RunLoop(c) \/ EndOfList(c) \/ BatchDone(c) \/ LockPush(c)
  BY <1>1 DEF RunLoop, EndOfList, BatchDone, LockPush
<1>2. CASE LockReg(c) \/ LockFetch(c)
  <2>1. /\ spc'[d] = spc[d] /\ it'[d] = it[d]
        /\ UNCHANGED <<pc, cur_qid, collector, inhand, spillbuf>>
    BY <1>2 DEF LockReg, LockFetch, AcquireOrSkip
  <2>2. refilled'[d] = refilled[d]
    BY <1>2 DEF LockReg, LockFetch
  <2> QED
    BY <2>1, <2>2
<1>3. CASE CheckSize(c) \/ Refill(c) \/ Pop(c)
  BY <1>3 DEF CheckSize, Refill, Pop
<1>4. CASE StartTask(c) \/ SplitTask(c) \/ SpawnRoot(c)
  BY <1>4 DEF StartTask, SplitTask, SpawnRoot, P!Take, P!AddTask,
       P!AddRootTask, P!comperVars
<1>5. CASE Backtrack(c)
  BY <1>5 DEF Backtrack, P!Complete, P!Erase, P!GetParent, P!DecParent,
       P!SettleInParent, P!progVars
<1>6. CASE RemoveQuery(c) \/ PublishQuery(c)
  BY <1>6 DEF RemoveQuery, PublishQuery, P!FinishQuery, P!EndSpawn
<1>7. CASE Push(c) \/ Spill(c) \/ WriteFile(c)
  BY <1>7 DEF Push, Spill, WriteFile
<1>8. CASE CheckQueries(c) \/ ReserveSlot(c) \/ Sleep(c) \/ WakeUp(c)
  BY <1>8 DEF CheckQueries, ReserveSlot, Sleep, WakeUp
<1>9. CASE Dequeue(c)
  BY <1>9 DEF Dequeue, P!StartSpawn
<1> QED
  BY <1>1, <1>2, <1>3, <1>4, <1>5, <1>6, <1>7, <1>8, <1>9 DEF Comper

\* The list changes only when nobody scans it.
LEMMA ListHeld ==
  ASSUME NEW c \in Compers, Comper(c)
  PROVE  activeQ_list' = activeQ_list \/ Readers = {}
<1> USE DEF active
<1>1. CASE RemoveQuery(c) \/ PublishQuery(c)
  BY <1>1 DEF RemoveQuery, PublishQuery
<1>2. CASE RunLoop(c) \/ EndOfList(c) \/ LockReg(c) \/ CheckSize(c)
           \/ Refill(c) \/ LockFetch(c) \/ Pop(c) \/ StartTask(c)
           \/ BatchDone(c) \/ SplitTask(c) \/ SpawnRoot(c) \/ Backtrack(c)
  BY <1>2 DEF RunLoop, EndOfList, LockReg, AcquireOrSkip, CheckSize, Refill,
       LockFetch, Pop, StartTask, BatchDone, SplitTask, SpawnRoot, Backtrack
<1>3. CASE LockPush(c) \/ Push(c) \/ Spill(c) \/ WriteFile(c)
           \/ CheckQueries(c) \/ ReserveSlot(c) \/ Dequeue(c) \/ Sleep(c)
           \/ WakeUp(c)
  BY <1>3 DEF LockPush, Push, Spill, WriteFile, CheckQueries, ReserveSlot,
       Dequeue, Sleep, WakeUp
<1> QED
  BY <1>1, <1>2, <1>3 DEF Comper

LEMMA ControlStep ==
  ASSUME IInv, [Next]_vars
  PROVE  Control'
<1>0. /\ spc \in [Compers -> SPCs] /\ it \in [Compers -> Nat \ {0}]
      /\ DOMAIN refilled = Compers /\ collector \in [Compers -> Seq(Tasks)]
      /\ inhand \in [Compers -> Seq(Tasks)] /\ spillbuf \in [Compers -> Seq(Tasks)]
      /\ DOMAIN pc = Compers /\ Control
  BY DEF IInv, QueueTypes, PP!IInv, PP!TypeOK
<1> DEFINE State == <<pc, inhand, spillbuf, collector, it, refilled, activeQ_list>>
<1>1. ASSUME UNCHANGED State, UNCHANGED spc \/ NotifyAll, NEW d \in Compers
      PROVE  ControlOf(d)'
  <2>1. ControlOf(d)
    BY <1>0 DEF Control
  <2>2. /\ spc'[d] = spc[d] \/ (spc[d] = "wait" /\ spc'[d] = "woken")
        /\ pc'[d] = pc[d] /\ inhand'[d] = inhand[d] /\ spillbuf'[d] = spillbuf[d]
        /\ collector'[d] = collector[d] /\ it'[d] = it[d]
        /\ refilled'[d] = refilled[d] /\ activeQ_list' = activeQ_list
    BY <1>0, <1>1 DEF NotifyAll
  <2> QED
    BY <2>1, <2>2 DEF ControlOf, Pushing, Scanning
<1>2. CASE UNCHANGED vars
  BY <1>1, <1>2 DEF vars, progState, active, scan, buffers, Control
<1>3. CASE Worker
  <2>1. UNCHANGED spc \/ NotifyAll
    BY <1>3 DEF Worker, UpdateTasks, SkipUpdate, NotifyNew, CheckActive,
         CheckQueue, Notify, TryEnd
  <2>2. UNCHANGED State
    BY <1>3 DEF Worker, UpdateTasks, SkipUpdate, NotifyNew, CheckActive,
         CheckQueue, Notify, TryEnd, progState, active, scan, buffers
  <2> QED
    BY <1>1, <2>1, <2>2 DEF Control
<1>4. CASE Client
  BY <1>1, <1>4 DEF Client, Send, progState, active, scan, buffers, Control
<1>5. CASE Terminated
  BY <1>1, <1>5 DEF Terminated, vars, progState, active, scan, buffers, Control
<1>6. ASSUME NEW c \in Compers, Comper(c), NEW d \in Compers \ {c}
      PROVE  ControlOf(d)'
  <2>1. ControlOf(d)
    BY <1>0 DEF Control
  <2>2. activeQ_list' = activeQ_list \/ ~ Scanning(d)
    BY <1>6, ListHeld DEF Readers
  <2> QED
    BY <1>6, <2>1, <2>2, OthersSame DEF ControlOf, Pushing, Scanning
<1>7. ASSUME NEW c \in Compers, Comper(c) PROVE ControlOf(c)'
  <2>0. ControlOf(c)
    BY <1>0 DEF Control
  <2> USE <1>0, <2>0 
  <2> USE DEF Goto, NextQuery, scan, buffers, progState, active, ControlOf,
              Pushing, Scanning
  <2>1. CASE RunLoop(c)
    BY <2>1 DEF RunLoop
  <2>2. CASE EndOfList(c)
    BY <2>2 DEF EndOfList
  <2>3. CASE LockReg(c)
    <3>1. it[c] \in 1 .. Len(activeQ_list)
      BY <2>3 DEF LockReg
    <3>2. /\ pc'[c] = pc[c] /\ inhand'[c] = inhand[c] /\ spillbuf'[c] = spillbuf[c]
          /\ collector'[c] = collector[c] /\ activeQ_list' = activeQ_list
          /\ \/ spc'[c] = "size" /\ it'[c] = it[c]
             \/ spc'[c] = "next"
      BY <2>3 DEF LockReg, AcquireOrSkip
    <3>3. spc[c] = "next"
      BY <2>3 DEF LockReg
    <3> QED
      BY <3>1, <3>2, <3>3
  <2>4. CASE CheckSize(c)
    <3>1. spc'[c] \in {"refill", "fetch"}
      BY <2>4 DEF CheckSize
    <3> QED
      BY <2>4, <3>1 DEF CheckSize
  <2>5. CASE Refill(c)
    <3>1. Tc(c) \in Queries /\ spc[c] = "refill"
      BY <2>5, ContainerOf DEF Refill
    <3>2. CASE Lreg[Tc(c)] = <<>>
      BY <2>5, <3>2 DEF Refill
    <3>3. CASE Lreg[Tc(c)] # <<>>
      <4>1. Head(Lreg[Tc(c)]) # <<>>
        <5>1. Lreg[Tc(c)] \in Seq(Seq(Tasks))
          BY <3>1 DEF IInv, QueueTypes
        <5>2. Len(Lreg[Tc(c)]) \in Nat \ {0} /\ Head(Lreg[Tc(c)]) = Lreg[Tc(c)][1]
          BY <3>3, <5>1, EmptySeq
        <5>3. 1 \in 1 .. Len(Lreg[Tc(c)])
          BY <5>2
        <5> QED
          BY <3>1, <5>2, <5>3 DEF IInv, Sizes
      <4> QED
        BY <2>5, <3>1, <3>3, <4>1 DEF Refill
    <3> QED
      BY <3>2, <3>3
  <2>6. CASE LockFetch(c)
    BY <2>6 DEF LockFetch, AcquireOrSkip
  <2>7. CASE Pop(c)
    <3>1. /\ spc[c] = "pop"
          /\ pc'[c] = pc[c] /\ inhand'[c] = inhand[c] /\ spillbuf'[c] = spillbuf[c]
          /\ activeQ_list' = activeQ_list
          /\ \/ spc'[c] = "batch"
             \/ spc'[c] = "next" /\ collector'[c] = SubSeq(Qreg[Tc(c)], 1, 0)
      BY <2>7 DEF Pop
    <3>2. SubSeq(Qreg[Tc(c)], 1, 0) = <<>>
      <4>1. Qreg[Tc(c)] \in Seq(Tasks)
        BY <3>1, ContainerOf DEF IInv, QueueTypes
      <4> QED
        BY <4>1
    <3> QED
      BY <3>1, <3>2
  <2>8. CASE StartTask(c)
    <3>1. /\ spc[c] = "batch" /\ spc'[c] = "batch" /\ pc'[c] = "compute"
          /\ inhand'[c] = inhand[c] /\ spillbuf'[c] = spillbuf[c]
      BY <2>8 DEF StartTask, P!Take
    <3> QED
      BY <3>1
  <2>9. CASE BatchDone(c)
    BY <2>9 DEF BatchDone
  <2>10. CASE SplitTask(c)
    BY <2>10 DEF SplitTask, P!AddTask, P!comperVars
  <2>11. CASE SpawnRoot(c)
    BY <2>11 DEF SpawnRoot, P!AddRootTask, P!comperVars
  <2>12. CASE Backtrack(c)
    <3>1. /\ spc[c] = "batch" /\ spc'[c] = "batch" /\ pc'[c] # "spawn"
          /\ inhand'[c] = inhand[c] /\ spillbuf'[c] = spillbuf[c]
          /\ collector'[c] = collector[c]
      BY <2>12 DEF Backtrack, P!Complete, P!Erase, P!GetParent, P!DecParent,
           P!SettleInParent, P!progVars
    <3> QED
      BY <3>1
  <2>13. CASE RemoveQuery(c)
    <3>1. /\ pc[c] = "finish" /\ pc'[c] = "free" /\ spc'[c] = spc[c]
          /\ inhand'[c] = inhand[c] /\ spillbuf'[c] = spillbuf[c]
          /\ collector'[c] = collector[c]
      BY <2>13 DEF RemoveQuery, P!FinishQuery
    <3>2. spc[c] = "batch"
      BY <3>1
    <3> QED
      BY <3>1, <3>2
  <2>14. CASE LockPush(c)
    BY <2>14 DEF LockPush
  <2>15. CASE Push(c)
    <3>1. /\ spc[c] = "pushing" /\ pc'[c] = pc[c] /\ it'[c] = it[c]
          /\ refilled'[c] = refilled[c]
          /\ collector'[c] = collector[c] /\ activeQ_list' = activeQ_list
          /\ inhand'[c] = Tail(inhand[c]) /\ spillbuf'[c] = spillbuf[c]
          /\ \/ inhand'[c] # <<>> /\ spc'[c] = "push"
             \/ inhand'[c] = <<>> /\ pc[c] = "compute" /\ spc'[c] = "batch"
             \/ inhand'[c] = <<>> /\ pc[c] # "compute" /\ spc'[c] = "fetch"
      BY <2>15 DEF Push
    <3> QED
      BY <3>1
  <2>16. CASE Spill(c)
    <3> DEFINE s == Qreg[Tc(c)]
               keep == IF Len(s) < RT_TASKS_PER_FILE THEN 0
                       ELSE Len(s) - RT_TASKS_PER_FILE
    <3>1. /\ spc[c] = "pushing" /\ pc'[c] = pc[c] /\ it'[c] = it[c]
          /\ refilled'[c] = refilled[c] /\ inhand'[c] = inhand[c]
          /\ collector'[c] = collector[c] /\ activeQ_list' = activeQ_list
          /\ spc'[c] = "spill" /\ Len(s) >= Qreg_capacity
          /\ spillbuf'[c] = Reverse(SubSeq(s, keep + 1, Len(s)))
      BY <2>16 DEF Spill
    <3>2. s \in Seq(Tasks) /\ Len(s) \in Nat
      <4>1. Tc(c) \in Queries
        BY <3>1, ContainerOf
      <4> QED
        BY <4>1 DEF IInv, QueueTypes
    <3>3. keep \in Nat /\ keep < Len(s) /\ \A i \in keep + 1 .. Len(s) : s[i] \in Tasks
      <4>1. RT_TASKS_PER_FILE \in Nat \ {0} /\ RT_TASKS_PER_FILE <= Qreg_capacity
            /\ Qreg_capacity \in Nat
        BY SchedulerAssumption
      <4>2. Len(s) > 0
        BY <3>1, <3>2, <4>1
      <4>3. keep \in Nat /\ keep < Len(s)
        BY <3>2, <4>1, <4>2
      <4>4. \A i \in 1 .. Len(s) : s[i] \in Tasks
        BY <3>2, ElementOfSeq
      <4> HIDE DEF s, keep
      <4> QED
        BY <3>2, <4>3, <4>4
    <3>4. Reverse(SubSeq(s, keep + 1, Len(s))) # <<>>
      <4> HIDE DEF s, keep
      <4>1. keep + 1 \in Int /\ Len(s) \in Int
        BY <3>2, <3>3
      <4>2. /\ SubSeq(s, keep + 1, Len(s)) \in Seq(Tasks)
            /\ Len(SubSeq(s, keep + 1, Len(s))) =
                 IF keep + 1 <= Len(s) THEN Len(s) - (keep + 1) + 1 ELSE 0
        BY <3>3, <4>1, SubSeqProperties
      <4>3. Len(SubSeq(s, keep + 1, Len(s))) \in Nat \ {0}
        BY <3>2, <3>3, <4>2
      <4>4. \A r \in Seq(Tasks) : Len(r) \in Nat \ {0} =>
                 1 \in DOMAIN Reverse(r)
        BY DEF Reverse
      <4>5. 1 \in DOMAIN Reverse(SubSeq(s, keep + 1, Len(s)))
        BY <4>2, <4>3, <4>4
      <4>6. 1 \notin DOMAIN << >>
        OBVIOUS
      <4> QED
        BY <4>5, <4>6
    <3> HIDE DEF s, keep
    <3> QED
      BY <3>1, <3>4
  <2>17. CASE WriteFile(c)
    BY <2>17 DEF WriteFile
  <2>18. CASE CheckQueries(c)
    <3>1. spc[c] = "queries" /\ spc'[c] \in {"notfound", "slot"}
      BY <2>18 DEF CheckQueries
    <3> QED
      BY <2>18, <3>1 DEF CheckQueries
  <2>19. CASE ReserveSlot(c)
    BY <2>19 DEF ReserveSlot
  <2>20. CASE Dequeue(c)
    BY <2>20 DEF Dequeue, P!StartSpawn
  <2>21. CASE PublishQuery(c)
    BY <2>21 DEF PublishQuery, P!EndSpawn
  <2>22. CASE Sleep(c) \/ WakeUp(c)
    BY <2>22 DEF Sleep, WakeUp
  <2> QED
    BY <1>7, <2>1, <2>2, <2>3, <2>4, <2>5, <2>6, <2>7, <2>8, <2>9, <2>10,
       <2>11, <2>12, <2>13, <2>14, <2>15, <2>16, <2>17, <2>18, <2>19, <2>20,
       <2>21, <2>22 DEF Comper
<1> QED
  BY <1>2, <1>3, <1>4, <1>5, <1>6, <1>7 DEF Next, Control

-----------------------------------------------------------------------------
(* Where the tasks wait                                                    *)

LEMMA PlacesDiffer ==
  /\ \A x, y : /\ InQreg(x) = InQreg(y) => x = y
               /\ InCollector(x) = InCollector(y) => x = y
               /\ InInhand(x) = InInhand(y) => x = y
               /\ InSpillbuf(x) = InSpillbuf(y) => x = y
  /\ \A x, y, i, j : InLreg(x, i) = InLreg(y, j) => x = y /\ i = j
  /\ \A x, y, j : /\ InQreg(x) # InLreg(y, j) /\ InQreg(x) # InCollector(y)
                  /\ InQreg(x) # InInhand(y) /\ InQreg(x) # InSpillbuf(y)
                  /\ InLreg(x, j) # InCollector(y)
                  /\ InLreg(x, j) # InInhand(y)
                  /\ InLreg(x, j) # InSpillbuf(y)
                  /\ InCollector(x) # InInhand(y)
                  /\ InCollector(x) # InSpillbuf(y)
                  /\ InInhand(x) # InSpillbuf(y)
BY DEF InQreg, InLreg, InCollector, InInhand, InSpillbuf

HeldIs ==
  /\ DOMAIN Held = Places
  /\ \A q \in Queries : Held[InQreg(q)] = Elements(Qreg[q])
  /\ \A q \in Queries : \A j \in Nat \ {0} : Held[InLreg(q, j)] =
        IF j \in 1 .. Len(Lreg[q]) THEN Elements(Lreg[q][j]) ELSE {}
  /\ \A c \in Compers : /\ Held[InCollector(c)] = Elements(collector[c])
                         /\ Held[InInhand(c)] = Elements(inhand[c])
                         /\ Held[InSpillbuf(c)] = Elements(spillbuf[c])

LEMMA HeldValues == QueueTypes => HeldIs
<1> SUFFICES ASSUME QueueTypes PROVE HeldIs
  OBVIOUS
<1>1. DOMAIN Held = Places
  BY DEF Held
<1>2. ASSUME NEW q \in Queries PROVE Held[InQreg(q)] = Elements(Qreg[q])
  <2>1. InQreg(q) \in Places
    BY DEF Places
  <2>2. InQreg(q) \in Boxes
    BY DEF Boxes, InQreg
  <2>3. TasksIn(InQreg(q)) = Qreg[q]
    BY DEF TasksIn, InQreg
  <2> QED
    BY <2>1, <2>2, <2>3 DEF Held
<1>3. ASSUME NEW q \in Queries, NEW j \in Nat \ {0}
      PROVE  Held[InLreg(q, j)] =
               IF j \in 1 .. Len(Lreg[q]) THEN Elements(Lreg[q][j]) ELSE {}
  <2>1. InLreg(q, j) \in Places
    BY DEF Places
  <2>2. InLreg(q, j) \in Boxes <=> j \in DOMAIN Lreg[q]
    BY DEF Boxes, InLreg
  <2>3. DOMAIN Lreg[q] = 1 .. Len(Lreg[q])
    BY DEF QueueTypes
  <2>4. TasksIn(InLreg(q, j)) = Lreg[q][j]
    BY DEF TasksIn, InLreg
  <2> QED
    BY <2>1, <2>2, <2>3, <2>4 DEF Held
<1>4. ASSUME NEW c \in Compers
      PROVE  /\ Held[InCollector(c)] = Elements(collector[c])
             /\ Held[InInhand(c)] = Elements(inhand[c])
             /\ Held[InSpillbuf(c)] = Elements(spillbuf[c])
  <2>1. /\ InCollector(c) \in Places /\ InInhand(c) \in Places
        /\ InSpillbuf(c) \in Places
    BY DEF Places
  <2>2. /\ InCollector(c) \in Boxes /\ InInhand(c) \in Boxes
        /\ InSpillbuf(c) \in Boxes
    BY DEF Boxes, InCollector, InInhand, InSpillbuf
  <2>3. /\ TasksIn(InCollector(c)) = collector[c]
        /\ TasksIn(InInhand(c)) = inhand[c]
        /\ TasksIn(InSpillbuf(c)) = spillbuf[c]
    BY DEF TasksIn, InCollector, InInhand, InSpillbuf
  <2> QED
    BY <2>1, <2>2, <2>3 DEF Held
<1> QED
  BY <1>1, <1>2, <1>3, <1>4 DEF HeldIs

\* A place whose sequence does not change.
LEMMA HeldElsewhere ==
  ASSUME HeldIs, HeldIs', NEW d \in Places,
         \A q \in Queries : d = InQreg(q) => Qreg'[q] = Qreg[q],
         \A q \in Queries : \A j \in Nat \ {0} :
            d = InLreg(q, j) => Lreg'[q] = Lreg[q],
         \A c \in Compers : d = InCollector(c) => collector'[c] = collector[c],
         \A c \in Compers : d = InInhand(c) => inhand'[c] = inhand[c],
         \A c \in Compers : d = InSpillbuf(c) => spillbuf'[c] = spillbuf[c]
  PROVE  Held'[d] = Held[d]
<1>1. CASE \E q \in Queries : d = InQreg(q)
  BY <1>1 DEF HeldIs
<1>2. CASE \E q \in Queries : \E j \in Nat \ {0} : d = InLreg(q, j)
  BY <1>2 DEF HeldIs
<1>3. CASE \E c \in Compers : d = InCollector(c)
  BY <1>3 DEF HeldIs
<1>4. CASE \E c \in Compers : d = InInhand(c)
  BY <1>4 DEF HeldIs
<1>5. CASE \E c \in Compers : d = InSpillbuf(c)
  BY <1>5 DEF HeldIs
<1> QED
  BY <1>1, <1>2, <1>3, <1>4, <1>5 DEF Places

\* Whatever is at one of the places is pending.
LEMMA HeldIsPending ==
  ASSUME IInv
  PROVE  /\ \A q \in Queries : Elements(Qreg[q]) \subseteq pending
         /\ \A q \in Queries : \A i \in 1 .. Len(Lreg[q]) :
               Elements(Lreg[q][i]) \subseteq pending
         /\ \A c \in Compers : /\ Elements(collector[c]) \subseteq pending
                                /\ Elements(inhand[c]) \subseteq pending
                                /\ Elements(spillbuf[c]) \subseteq pending
<1>1. HeldIs
  BY HeldValues DEF IInv
<1>2. \A d \in Places : Held[d] \subseteq pending
  BY <1>1 DEF IInv, Parts, Partition, HeldIs
<1>3. \A q \in Queries : InQreg(q) \in Places
  BY DEF Places
<1>4. \A q \in Queries : \A j \in Nat \ {0} : InLreg(q, j) \in Places
  BY DEF Places
<1>5. \A c \in Compers : /\ InCollector(c) \in Places /\ InInhand(c) \in Places
                         /\ InSpillbuf(c) \in Places
  BY DEF Places
<1>6. ASSUME NEW q \in Queries, NEW i \in 1 .. Len(Lreg[q])
      PROVE  Elements(Lreg[q][i]) \subseteq pending
  <2>1. i \in Nat \ {0}
    OBVIOUS
  <2> QED
    BY <1>1, <1>2, <1>4, <2>1 DEF HeldIs
<1> QED
  BY <1>1, <1>2, <1>3, <1>5, <1>6 DEF HeldIs

LEMMA PendingBorn ==
  ASSUME IInv, NEW t \in pending
  PROVE  t \in born /\ t \in prog_map /\ t \notin settled /\ query_id[t] \in Queries
BY DEF IInv, PP!IInv, PP!Membership, PP!Family

\* A task that waits keeps its query, and the query stays active.
LEMMA PendingKept ==
  ASSUME IInv, NEW c \in Compers, Comper(c), NEW t \in pending
  PROVE  /\ query_id'[t] = query_id[t]
         /\ qstate[query_id[t]] = "active" => qstate'[query_id[t]] = "active"
<1>0. /\ t \in born /\ t \in prog_map /\ t \notin settled /\ query_id[t] \in Queries
      /\ DOMAIN qstate = Queries /\ DOMAIN query_id = Tasks /\ t \in Tasks
  BY PendingBorn DEF IInv, PP!IInv, PP!TypeOK
<1> USE DEF progState
<1>1. CASE RunLoop(c) \/ EndOfList(c) \/ LockReg(c) \/ CheckSize(c)
           \/ Refill(c) \/ LockFetch(c) \/ Pop(c) \/ BatchDone(c)
           \/ LockPush(c) \/ Push(c) \/ Spill(c) \/ WriteFile(c)
           \/ CheckQueries(c) \/ ReserveSlot(c) \/ Sleep(c) \/ WakeUp(c)
  BY <1>1 DEF RunLoop, EndOfList, LockReg, CheckSize, Refill, LockFetch,
       AcquireOrSkip, Pop, BatchDone, LockPush, Push, Spill, WriteFile,
       CheckQueries, ReserveSlot, Sleep, WakeUp
<1>2. CASE StartTask(c)
  BY <1>2 DEF StartTask, P!Take, P!progVars
<1>3. CASE SplitTask(c) \/ SpawnRoot(c)
  <2>1. /\ NextTaskID \notin born /\ UNCHANGED qstate
        /\ \E q : query_id' = [query_id EXCEPT ![NextTaskID] = q]
    BY <1>3, NextTaskIDNew DEF SplitTask, SpawnRoot, P!AddTask, P!AddRootTask,
         P!add_task, P!NewTask, IdsLeft
  <2> QED
    BY <1>0, <2>1
<1>4. CASE Backtrack(c)
  BY <1>4 DEF Backtrack, P!Complete, P!Erase, P!GetParent, P!DecParent,
       P!SettleInParent, P!progVars
<1>5. CASE RemoveQuery(c)
  <2>1. /\ pc[c] = "finish" /\ UNCHANGED query_id
        /\ qstate' = [qstate EXCEPT ![query_id[prog[c]]] = "done"]
    BY <1>5 DEF RemoveQuery, P!FinishQuery, P!progVars
  <2>2. query_id[t] # query_id[prog[c]]
    <3>1. SUFFICES ASSUME query_id[t] = query_id[prog[c]] PROVE FALSE
      OBVIOUS
    <3>2. t = prog[c]
      BY <1>0, <2>1, <3>1, PP!OnlyRootLeft, SchedulerAssumption
      DEF IInv, PP!NoTaskAssumption
    <3> QED
      BY <1>0, <2>1, <3>2 DEF IInv, PP!IInv, PP!Backtracking, PP!BT
  <2> QED
    BY <1>0, <2>1, <2>2
<1>6. CASE Dequeue(c)
  <2>1. CASE query_que = <<>>
    BY <1>6, <2>1 DEF Dequeue
  <2>2. CASE query_que # <<>>
    BY <1>0, <1>6, <2>2 DEF Dequeue, P!StartSpawn, P!progVars
  <2> QED
    BY <2>1, <2>2
<1>7. CASE PublishQuery(c)
  BY <1>0, <1>7 DEF PublishQuery, P!EndSpawn, P!progVars
<1> QED
  BY <1>1, <1>2, <1>3, <1>4, <1>5, <1>6, <1>7 DEF Comper

\* The container of a comper that holds tasks does not change under it.
LEMMA TcKept ==
  ASSUME IInv, NEW c \in Compers, Comper(c), NEW d \in Compers \ {c}
  PROVE  Tc(d)' = Tc(d)
<1>1. activeQ_list' = activeQ_list \/ ~ Scanning(d)
  BY ListHeld DEF Readers
<1> QED
  BY <1>1, OthersSame DEF Tc, Scanning

\* What a step of a comper leaves where it is keeps its owner.
LEMMA QueryOwnsKept ==
  ASSUME IInv, NEW c \in Compers, Comper(c), NEW q \in Queries,
         Qreg'[q] = Qreg[q], Lreg'[q] = Lreg[q]
  PROVE  QueryOwns(q)'
<1>1. QueryOwns(q)
  BY DEF IInv, Owned
<1>2. \A t \in Elements(Qreg[q]) : query_id'[t] = query_id[t]
  BY HeldIsPending, PendingKept
<1>3. \A i \in 1 .. Len(Lreg[q]) : \A t \in Elements(Lreg[q][i]) :
         query_id'[t] = query_id[t]
  BY HeldIsPending, PendingKept
<1> QED
  BY <1>1, <1>2, <1>3 DEF QueryOwns

LEMMA ComperOwnsKept ==
  ASSUME IInv, NEW c \in Compers, Comper(c), NEW d \in Compers,
         collector'[d] = collector[d], inhand'[d] = inhand[d],
         spillbuf'[d] = spillbuf[d],
         inhand[d] # <<>> => Tc(d)' = Tc(d)
  PROVE  ComperOwns(d)'
<1>1. ComperOwns(d)
  BY DEF IInv, Owned
<1>2. \A t \in Elements(collector[d]) :
         /\ query_id'[t] = query_id[t] /\ qstate'[query_id[t]] = "active"
  BY <1>1, HeldIsPending, PendingKept DEF ComperOwns
<1>3. \A t \in Elements(inhand[d]) \cup Elements(spillbuf[d]) :
         query_id'[t] = query_id[t]
  BY HeldIsPending, PendingKept
<1>4. \A t \in Elements(inhand[d]) \cup Elements(spillbuf[d]) : Tc(d)' = Tc(d)
  <2>1. spillbuf[d] # <<>> => inhand[d] # <<>>
    BY DEF IInv, Control, ControlOf, Pushing
  <2> QED
    BY <2>1, EmptyElements
<1> QED
  BY <1>1, <1>2, <1>3, <1>4 DEF ComperOwns

LEMMA OtherCompersOwn ==
  ASSUME IInv, NEW c \in Compers, Comper(c), NEW d \in Compers \ {c}
  PROVE  ComperOwns(d)'
BY OthersSame, TcKept, ComperOwnsKept

LEMMA HeldBoth ==
  ASSUME IInv, [Next]_vars
  PROVE  HeldIs /\ HeldIs'
<1>1. QueueTypes /\ QueueTypes'
  BY TypesStep DEF IInv
<1>2. QueueTypes' => HeldIs'
  BY HeldValues, PTL
<1> QED
  BY <1>1, <1>2, HeldValues

\* The tasks of a file come into the comper's hands; the other files move up.
LEMMA RefillStep ==
  ASSUME IInv, NEW c \in Compers, Comper(c), Refill(c)
  PROVE  Parts' /\ Owned'
<1>0. PICK q \in Queries : q = Tc(c)
  BY ContainerOf DEF Refill
<1> DEFINE f == Lreg[q]
<1>1. /\ spc[c] = "refill" /\ q \in Queries
      /\ UNCHANGED <<pending, Qreg, collector, spillbuf>>
  BY DEF Refill, progState, buffers
<1>2. f \in Seq(Seq(Tasks)) /\ Lreg \in [Queries -> Seq(Seq(Tasks))]
      /\ inhand \in [Compers -> Seq(Tasks)]
  BY <1>1 DEF IInv, QueueTypes
<1>3. inhand[c] = <<>> /\ spillbuf[c] = <<>> /\ collector[c] = <<>>
  BY <1>1 DEF IInv, Control, ControlOf, Pushing
<1>4. HeldIs /\ HeldIs'
  BY HeldBoth DEF Next
<1>5. CASE f = <<>>
  <2>1. UNCHANGED <<Lreg, inhand>>
    BY <1>0, <1>5 DEF Refill
  <2>2. Held' = Held
    BY <1>1, <2>1 DEF Held, Boxes, TasksIn
  <2>3. \A x \in Queries : QueryOwns(x)'
    BY <1>1, <2>1, QueryOwnsKept
  <2>4. ComperOwns(c)'
    BY <1>1, <1>3, <2>1, ComperOwnsKept
  <2> QED
    BY <1>1, <2>2, <2>3, <2>4, OtherCompersOwn DEF IInv, Parts, Owned
<1>6. CASE f # <<>>
  <2>1. /\ inhand' = [inhand EXCEPT ![c] = Head(f)]
        /\ Lreg' = [Lreg EXCEPT ![q] = Tail(f)]
        /\ spc' = [spc EXCEPT ![c] = "push"]
        /\ UNCHANGED <<pc, it, activeQ_list>>
    BY <1>0, <1>1, <1>2, <1>6 DEF Refill, Goto, progState, active
  <2>2. /\ Len(f) \in Nat \ {0} /\ Head(f) = f[1] /\ Len(Tail(f)) = Len(f) - 1
        /\ \A i \in 1 .. Len(f) - 1 : Tail(f)[i] = f[i + 1]
    BY <1>2, <1>6, EmptySeq, HeadTailProperties
  <2>3. /\ Lreg'[q] = Tail(f) /\ inhand'[c] = f[1]
        /\ \A x \in Queries \ {q} : Lreg'[x] = Lreg[x]
        /\ \A d \in Compers \ {c} : inhand'[d] = inhand[d]
    BY <1>1, <1>2, <2>1, <2>2
  <2> HIDE DEF f
  \* Where what is now at a place was before.
  <2> DEFINE g == [d \in Places |->
                     IF d = InInhand(c) THEN InLreg(q, 1)
                     ELSE IF \E j \in Nat \ {0} : d = InLreg(q, j)
                       THEN InLreg(q, d[3] + 1) ELSE d]
  <2>4. /\ \A j \in Nat \ {0} : /\ InLreg(q, j) \in Places
                               /\ g[InLreg(q, j)] = InLreg(q, j + 1)
        /\ InInhand(c) \in Places /\ g[InInhand(c)] = InLreg(q, 1)
        /\ \A d \in Places : d # InInhand(c) /\ (\A j \in Nat \ {0} : d # InLreg(q, j))
              => g[d] = d
    <3>1. InInhand(c) \in Places /\ \A j \in Nat \ {0} : InLreg(q, j) \in Places
      BY <1>1 DEF Places
    <3>2. \A j \in Nat \ {0} : InLreg(q, j)[3] = j
      BY DEF InLreg
    <3> QED
      BY <3>1, <3>2, PlacesDiffer
  <2> HIDE DEF g
  <2>5. \A j \in Nat \ {0} : j + 1 \in Nat \ {0} /\ j + 1 # 1
    OBVIOUS
  <2>6. 1 \in Nat \ {0}
    OBVIOUS
  <2>7. g \in [Places -> Places]
    <3>1. DOMAIN g = Places /\ g = [d \in Places |-> g[d]]
      BY DEF g
    <3>2. ASSUME NEW d \in Places PROVE g[d] \in Places
      <4>1. CASE d = InInhand(c)
        BY <2>4, <2>6, <4>1
      <4>2. CASE \E j \in Nat \ {0} : d = InLreg(q, j)
        BY <2>4, <2>5, <4>2
      <4> QED
        BY <2>4, <4>1, <4>2
    <3> QED
      BY <3>1, <3>2
  <2>8. ASSUME NEW a \in Places, NEW b \in Places, g[a] = g[b] PROVE a = b
    <3>1. CASE a = InInhand(c)
      <4>1. CASE \E j \in Nat \ {0} : b = InLreg(q, j)
        BY <2>4, <2>5, <2>8, <3>1, <4>1, PlacesDiffer
      <4>2. CASE b # InInhand(c) /\ \A j \in Nat \ {0} : b # InLreg(q, j)
        BY <2>4, <2>6, <2>8, <3>1, <4>2
      <4> QED
        BY <3>1, <4>1, <4>2
    <3>2. CASE \E j \in Nat \ {0} : a = InLreg(q, j)
      <4>0. PICK i \in Nat \ {0} : a = InLreg(q, i)
        BY <3>2
      <4>1. CASE \E j \in Nat \ {0} : b = InLreg(q, j)
        <5>1. PICK j \in Nat \ {0} : b = InLreg(q, j)
          BY <4>1
        <5>2. InLreg(q, i + 1) = InLreg(q, j + 1)
          BY <2>4, <2>8, <4>0, <5>1
        <5>3. i + 1 = j + 1
          BY <5>2, PlacesDiffer
        <5>4. i = j
          BY <5>3
        <5> QED
          BY <4>0, <5>1, <5>4
      <4>2. CASE b = InInhand(c)
        BY <2>4, <2>5, <2>8, <4>0, <4>2, PlacesDiffer
      <4>3. CASE b # InInhand(c) /\ \A j \in Nat \ {0} : b # InLreg(q, j)
        BY <2>4, <2>5, <2>8, <4>0, <4>3
      <4> QED
        BY <4>1, <4>2, <4>3
    <3>3. CASE a # InInhand(c) /\ \A j \in Nat \ {0} : a # InLreg(q, j)
      <4>1. CASE b = InInhand(c)
        BY <2>4, <2>6, <2>8, <3>3, <4>1
      <4>2. CASE \E j \in Nat \ {0} : b = InLreg(q, j)
        BY <2>4, <2>5, <2>8, <3>3, <4>2
      <4> QED
        BY <2>4, <2>8, <3>3, <4>1, <4>2
    <3> QED
      BY <3>1, <3>2, <3>3
  <2>9. ASSUME NEW a \in Places PROVE Held'[a] = Held[g[a]]
    <3>1. CASE a = InInhand(c)
      <4>1. Held'[a] = Elements(f[1])
        BY <1>4, <2>3, <3>1 DEF HeldIs
      <4>2. Held[InLreg(q, 1)] = Elements(f[1])
        BY <1>1, <1>4, <2>2, <2>6 DEF HeldIs, f
      <4> QED
        BY <2>4, <3>1, <4>1, <4>2
    <3>2. CASE \E j \in Nat \ {0} : a = InLreg(q, j)
      <4>1. PICK j \in Nat \ {0} : a = InLreg(q, j)
        BY <3>2
      <4>2. Held'[a] = IF j \in 1 .. Len(Tail(f)) THEN Elements(Tail(f)[j]) ELSE {}
        <5>1. Held'[InLreg(q, j)] =
                IF j \in 1 .. Len(Lreg'[q]) THEN Elements(Lreg'[q][j]) ELSE {}
          BY <1>1, <1>4 DEF HeldIs
        <5> QED
          BY <5>1, <2>3, <4>1
      <4>3. Held[InLreg(q, j + 1)] =
              IF j + 1 \in 1 .. Len(f) THEN Elements(f[j + 1]) ELSE {}
        BY <1>1, <1>4, <2>5 DEF HeldIs, f
      <4>4. j + 1 \in 1 .. Len(f) <=> j \in 1 .. Len(Tail(f))
        BY <2>2
      <4>5. j \in 1 .. Len(Tail(f)) => Tail(f)[j] = f[j + 1]
        BY <2>2
      <4> QED
        BY <2>4, <4>1, <4>2, <4>3, <4>4, <4>5
    <3>3. CASE a # InInhand(c) /\ \A j \in Nat \ {0} : a # InLreg(q, j)
      <4>1. Held'[a] = Held[a]
        BY <1>1, <1>4, <2>3, <3>3, HeldElsewhere
      <4> QED
        BY <2>4, <3>3, <4>1
    <3> QED
      BY <3>1, <3>2, <3>3
  <2>10. ASSUME NEW b \in Places, Held[b] # {} PROVE \E a \in Places : g[a] = b
    <3>1. CASE b = InInhand(c)
      BY <1>3, <1>4, <2>10, <3>1, EmptyElements DEF HeldIs
    <3>2. CASE \E j \in Nat \ {0} : b = InLreg(q, j)
      <4>1. PICK j \in Nat \ {0} : b = InLreg(q, j)
        BY <3>2
      <4>2. CASE j = 1
        BY <2>4, <4>1, <4>2
      <4>3. CASE j # 1
        <5>1. j - 1 \in Nat \ {0} /\ (j - 1) + 1 = j
          BY <4>3
        <5> QED
          BY <2>4, <4>1, <5>1
      <4> QED
        BY <4>2, <4>3
    <3>3. CASE b # InInhand(c) /\ \A j \in Nat \ {0} : b # InLreg(q, j)
      BY <2>4, <3>3
    <3> QED
      BY <3>1, <3>2, <3>3
  <2>11. DOMAIN Held' = Places /\ DOMAIN Held = Places
    BY <1>4 DEF HeldIs
  <2>12. Partition(Held, pending)
    BY DEF IInv, Parts
  <2>13. Partition(Held', pending)
    BY <2>7, <2>8, <2>9, <2>10, <2>11, <2>12, RenamePart
  <2>14. QueryOwns(q) /\ ComperOwns(c)
    BY <1>1 DEF IInv, Owned
  <2>15. 1 \in 1 .. Len(f) /\ \A i \in 1 .. Len(f) - 1 : i + 1 \in 1 .. Len(f)
    BY <2>2
  <2>16. \A i \in 1 .. Len(f) : \A t \in Elements(f[i]) : query_id'[t] = query_id[t]
    BY <1>1, HeldIsPending, PendingKept DEF f
  <2>17. \A t \in Elements(Qreg[q]) : query_id'[t] = query_id[t]
    BY <1>1, HeldIsPending, PendingKept
  <2>18. QueryOwns(q)'
    BY <1>1, <2>2, <2>3, <2>14, <2>15, <2>16, <2>17 DEF QueryOwns, f
  <2>19. Tc(c)' = q
    <3>1. pc[c] = "free"
      BY <1>1 DEF IInv, Control, ControlOf, Pushing
    <3>2. spc'[c] = "push"
      BY <2>1 DEF IInv, QueueTypes
    <3> QED
      BY <1>0, <1>1, <2>1, <3>1, <3>2 DEF Tc, Scanning
  <2>20. ComperOwns(c)'
    <3>1. \A t \in Elements(inhand'[c]) : query_id'[t] = q
      BY <2>3, <2>14, <2>15, <2>16 DEF QueryOwns, f
    <3>2. Distinct(inhand'[c])
      BY <2>3, <2>14, <2>15 DEF QueryOwns, f
    <3>3. Elements(collector'[c]) = {} /\ Elements(spillbuf'[c]) = {}
          /\ Distinct(collector'[c]) /\ Distinct(spillbuf'[c])
      BY <1>1, <1>3, EmptyElements
    <3> QED
      BY <1>1, <2>19, <3>1, <3>2, <3>3 DEF ComperOwns
  <2>21. \A x \in Queries \ {q} : QueryOwns(x)'
    BY <1>1, <2>3, QueryOwnsKept
  <2>22. \A d \in Compers \ {c} : ComperOwns(d)'
    BY OtherCompersOwn
  <2> QED
    BY <1>1, <2>13, <2>18, <2>20, <2>21, <2>22 DEF Parts, Owned
<1> QED
  BY <1>5, <1>6

\* A batch goes from the front of the deque to the comper.
LEMMA PopStep ==
  ASSUME IInv, NEW c \in Compers, Comper(c), Pop(c)
  PROVE  Parts' /\ Owned'
<1>0. PICK q \in Queries : q = Tc(c)
  BY ContainerOf DEF Pop
<1>1. /\ spc[c] = "pop"
      /\ UNCHANGED <<pending, Lreg, inhand, spillbuf>>
  BY DEF Pop, progState
<1>2. /\ Qreg \in [Queries -> Seq(Tasks)] /\ collector \in [Compers -> Seq(Tasks)]
      /\ Qreg[q] \in Seq(Tasks) /\ Len(Qreg[q]) \in Nat
  BY DEF IInv, QueueTypes
<1>3. inhand[c] = <<>> /\ spillbuf[c] = <<>> /\ collector[c] = <<>>
  BY <1>1 DEF IInv, Control, ControlOf, Pushing
<1>4. HeldIs /\ HeldIs'
  BY HeldBoth DEF Next
<1>5. QueryOwns(q) /\ ComperOwns(c)
  BY DEF IInv, Owned
<1>6. PICK a \in Seq(Tasks), b \in Seq(Tasks) :
        /\ collector' = [collector EXCEPT ![c] = a]
        /\ Qreg' = [Qreg EXCEPT ![q] = b]
        /\ Distinct(a) /\ Distinct(b)
        /\ Elements(a) \cup Elements(b) = Elements(Qreg[q])
        /\ Elements(a) \cap Elements(b) = {}
  <2> DEFINE s == Qreg[q]
             k == IF Len(s) < tasks_per_fetch_g THEN Len(s) ELSE tasks_per_fetch_g
  <2>1. k \in 0 .. Len(s)
    BY <1>2, SchedulerAssumption
  <2>2. /\ collector' = [collector EXCEPT ![c] = SubSeq(s, 1, k)]
        /\ Qreg' = [Qreg EXCEPT ![q] = SubSeq(s, k + 1, Len(s))]
    BY <1>0, <1>2 DEF Pop
  <2> HIDE DEF k
  <2>3. /\ SubSeq(s, 1, k) \in Seq(Tasks) /\ SubSeq(s, k + 1, Len(s)) \in Seq(Tasks)
        /\ Distinct(SubSeq(s, 1, k)) /\ Distinct(SubSeq(s, k + 1, Len(s)))
        /\ Elements(SubSeq(s, 1, k)) \cup Elements(SubSeq(s, k + 1, Len(s)))
             = Elements(s)
        /\ Elements(SubSeq(s, 1, k)) \cap Elements(SubSeq(s, k + 1, Len(s))) = {}
    <3>1. Distinct(s)
      BY <1>5 DEF QueryOwns
    <3> HIDE DEF s
    <3>2. s \in Seq(Tasks)
      BY <1>2 DEF s
    <3> QED
      BY <2>1, <3>1, <3>2, CutElements
  <2> QED
    BY <2>2, <2>3
<1>7. /\ collector'[c] = a /\ Qreg'[q] = b
      /\ \A x \in Queries \ {q} : Qreg'[x] = Qreg[x]
      /\ \A d \in Compers \ {c} : collector'[d] = collector[d]
  BY <1>2, <1>6
<1>8. Parts'
  <2>1. /\ InQreg(q) \in Places /\ InCollector(c) \in Places
        /\ InQreg(q) # InCollector(c)
    BY PlacesDiffer DEF Places
  <2>2. /\ Held[InQreg(q)] = Elements(a) \cup Elements(b) /\ Held[InCollector(c)] = {}
        /\ Held'[InQreg(q)] = Elements(b) /\ Held'[InCollector(c)] = Elements(a)
    BY <1>3, <1>4, <1>6, <1>7, EmptyElements DEF HeldIs
  <2>3. ASSUME NEW d \in Places \ {InQreg(q), InCollector(c)}
        PROVE  Held'[d] = Held[d]
    BY <1>1, <1>4, <1>7, HeldElsewhere
  <2>4. DOMAIN Held' = Places /\ DOMAIN Held = Places
    BY <1>4 DEF HeldIs
  <2>5. Partition(Held, pending)
    BY DEF IInv, Parts
  <2>6. /\ Held'[InQreg(q)] \cup Held'[InCollector(c)]
             = Held[InQreg(q)] \cup Held[InCollector(c)]
        /\ Held'[InQreg(q)] \cap Held'[InCollector(c)] = {}
    BY <1>6, <2>2
  <2>7. Partition(Held', pending)
    BY <2>1, <2>3, <2>4, <2>5, <2>6, MovePart
  <2> QED
    BY <1>1, <2>7 DEF Parts
<1>9. \A t \in Elements(Qreg[q]) : query_id'[t] = query_id[t] /\ query_id[t] = q
      /\ qstate'[q] = "active"
  <2>1. qstate[q] = "active"
    BY <1>0, <1>1, ContainerOf
  <2> QED
    BY <1>5, <2>1, HeldIsPending, PendingKept DEF QueryOwns
<1>10. QueryOwns(q)'
  <2>1. \A i \in 1 .. Len(Lreg[q]) : \A t \in Elements(Lreg[q][i]) :
           query_id'[t] = query_id[t]
    BY HeldIsPending, PendingKept
  <2> QED
    BY <1>1, <1>5, <1>6, <1>7, <1>9, <2>1 DEF QueryOwns
<1>11. ComperOwns(c)'
  <2>1. Elements(inhand'[c]) = {} /\ Elements(spillbuf'[c]) = {}
        /\ Distinct(inhand'[c]) /\ Distinct(spillbuf'[c])
    BY <1>1, <1>3, EmptyElements
  <2>2. \A t \in Elements(collector'[c]) : query_id'[t] = q /\ qstate'[q] = "active"
    BY <1>6, <1>7, <1>9
  <2>3. Distinct(collector'[c])
    BY <1>6, <1>7
  <2> QED
    BY <2>1, <2>2, <2>3 DEF ComperOwns
<1>12. \A x \in Queries \ {q} : QueryOwns(x)'
  BY <1>1, <1>7, QueryOwnsKept
<1>13. \A d \in Compers \ {c} : ComperOwns(d)'
  BY OtherCompersOwn
<1> QED
  BY <1>8, <1>10, <1>11, <1>12, <1>13 DEF Owned

\* A task of the batch is not waiting any more.
LEMMA StartTaskStep ==
  ASSUME IInv, NEW c \in Compers, Comper(c), StartTask(c)
  PROVE  Parts' /\ Owned'
<1>0. PICK t : t = Head(collector[c])
  OBVIOUS
<1>1. /\ collector[c] # <<>> /\ pending' = pending \ {t}
      /\ collector' = [collector EXCEPT ![c] = Tail(collector[c])]
      /\ spc[c] = "batch"
      /\ UNCHANGED <<Qreg, Lreg, inhand, spillbuf>>
  BY <1>0 DEF StartTask, P!Take, queues, IInv, QueueTypes
<1>2. collector[c] \in Seq(Tasks) /\ collector \in [Compers -> Seq(Tasks)]
  BY DEF IInv, QueueTypes
<1>3. inhand[c] = <<>>  /\ spillbuf[c] = <<>>
  BY <1>1 DEF IInv, Control, ControlOf, Pushing
<1>4. HeldIs /\ HeldIs'
  BY HeldBoth DEF Next
<1>5. ComperOwns(c)
  BY DEF IInv, Owned
<1>6. PICK b \in Seq(Tasks) :
        /\ collector'[c] = b /\ Distinct(b)
        /\ Elements(collector[c]) = Elements(b) \cup {t} /\ t \notin Elements(b)
        /\ \A d \in Compers \ {c} : collector'[d] = collector[d]
  <2>1. Distinct(collector[c])
    BY <1>5 DEF ComperOwns
  <2>2. LET b == Tail(collector[c])
        IN /\ b \in Seq(Tasks) /\ Distinct(b)
           /\ Elements(collector[c]) = Elements(b) \cup {t} /\ t \notin Elements(b)
    BY <1>0, <1>1, <1>2, <2>1, HeadTailElements
  <2> QED
    BY <1>1, <1>2, <2>2
<1>7. Parts'
  <2>1. InCollector(c) \in Places
    BY DEF Places
  <2>2. /\ Held[InCollector(c)] = Elements(b) \cup {t}
        /\ Held'[InCollector(c)] = Elements(b)
    BY <1>4, <1>6 DEF HeldIs
  <2>3. /\ t \in Held[InCollector(c)]
        /\ Held'[InCollector(c)] = Held[InCollector(c)] \ {t}
    BY <1>6, <2>2
  <2>4. ASSUME NEW d \in Places \ {InCollector(c)} PROVE Held'[d] = Held[d]
    BY <1>1, <1>4, <1>6, HeldElsewhere
  <2>5. DOMAIN Held' = Places /\ DOMAIN Held = Places
    BY <1>4 DEF HeldIs
  <2>6. Partition(Held, pending)
    BY DEF IInv, Parts
  <2>7. Partition(Held', pending \ {t})
    BY <2>1, <2>3, <2>4, <2>5, <2>6, DeletePart
  <2> QED
    BY <1>1, <2>7 DEF Parts
<1>8. ComperOwns(c)'
  <2>1. \A u \in Elements(collector[c]) :
           /\ query_id'[u] = query_id[u] /\ qstate'[query_id[u]] = "active"
    BY <1>5, HeldIsPending, PendingKept DEF ComperOwns
  <2>2. Elements(collector'[c]) \subseteq Elements(collector[c])
    BY <1>6
  <2>3. Elements(inhand'[c]) = {} /\ Elements(spillbuf'[c]) = {}
        /\ Distinct(inhand'[c]) /\ Distinct(spillbuf'[c]) /\ Distinct(collector'[c])
    BY <1>1, <1>3, <1>6, EmptyElements
  <2> QED
    BY <1>5, <2>1, <2>2, <2>3 DEF ComperOwns
<1>9. \A x \in Queries : QueryOwns(x)'
  BY <1>1, QueryOwnsKept
<1>10. \A d \in Compers \ {c} : ComperOwns(d)'
  BY OtherCompersOwn
<1> QED
  BY <1>7, <1>8, <1>9, <1>10 DEF Owned

\* A new task is in the hands of the comper that splits.
LEMMA SplitTaskStep ==
  ASSUME IInv, NEW c \in Compers, Comper(c), SplitTask(c)
  PROVE  Parts' /\ Owned'
<1>0. PICK t \in Tasks : t = NextTaskID /\ t \notin born
  BY NextTaskIDNew DEF SplitTask, IdsLeft
<1>1. /\ spc[c] = "batch" /\ pc[c] = "compute" /\ pending' = pending \cup {t}
      /\ query_id' = [query_id EXCEPT ![t] = cur_qid[c]]
      /\ inhand' = [inhand EXCEPT ![c] = <<t>>]
      /\ pc' = pc /\ cur_qid' = cur_qid
      /\ UNCHANGED <<Qreg, Lreg, collector, spillbuf>>
  BY <1>0 DEF SplitTask, P!AddTask, P!add_task, P!NewTask, P!comperVars, queues
<1>2. inhand[c] = <<>> /\ spillbuf[c] = <<>>
  BY <1>1 DEF IInv, Control, ControlOf, Pushing
<1>3. inhand \in [Compers -> Seq(Tasks)] /\ query_id \in [Tasks -> Queries \cup {NoQuery}]
  BY DEF IInv, QueueTypes, PP!IInv, PP!TypeOK
<1>4. HeldIs /\ HeldIs'
  BY HeldBoth DEF Next
<1>5. ComperOwns(c)
  BY DEF IInv, Owned
<1>6. /\ inhand'[c] = <<t>> /\ query_id'[t] = cur_qid[c]
      /\ \A d \in Compers \ {c} : inhand'[d] = inhand[d]
  BY <1>1, <1>3
<1>7. Elements(<<t>>) = {t} /\ Distinct(<<t>>)
  BY DEF Elements, Distinct
<1>8. t \notin pending
  BY <1>0, PendingBorn
<1>9. Parts'
  <2>1. InInhand(c) \in Places
    BY DEF Places
  <2>2. Held'[InInhand(c)] = Held[InInhand(c)] \cup {t}
    BY <1>2, <1>4, <1>6, <1>7, EmptyElements DEF HeldIs
  <2>3. ASSUME NEW d \in Places \ {InInhand(c)} PROVE Held'[d] = Held[d]
    BY <1>1, <1>4, <1>6, HeldElsewhere
  <2>4. DOMAIN Held' = Places /\ DOMAIN Held = Places
    BY <1>4 DEF HeldIs
  <2>5. Partition(Held, pending)
    BY DEF IInv, Parts
  <2>6. Partition(Held', pending \cup {t})
    BY <1>8, <2>1, <2>2, <2>3, <2>4, <2>5, InsertPart
  <2> QED
    BY <1>1, <2>6 DEF Parts
<1>10. ComperOwns(c)'
  <2>1. \A u \in Elements(collector[c]) :
           /\ query_id'[u] = query_id[u] /\ qstate'[query_id[u]] = "active"
    BY <1>5, HeldIsPending, PendingKept DEF ComperOwns
  <2>2. Tc(c)' = cur_qid[c]
    BY <1>1 DEF Tc, Scanning, SplitTask, Goto, IInv, QueueTypes
  <2>3. \A u \in Elements(inhand'[c]) \cup Elements(spillbuf'[c]) :
           query_id'[u] = cur_qid[c]
    BY <1>1, <1>2, <1>6, <1>7, EmptyElements
  <2>4. Distinct(inhand'[c]) /\ Distinct(spillbuf'[c]) /\ Distinct(collector'[c])
    BY <1>1, <1>5, <1>6, <1>7 DEF ComperOwns
  <2> QED
    BY <1>1, <1>5, <2>1, <2>2, <2>3, <2>4 DEF ComperOwns
<1>11. \A x \in Queries : QueryOwns(x)'
  BY <1>1, QueryOwnsKept
<1>12. \A d \in Compers \ {c} : ComperOwns(d)'
  BY OtherCompersOwn
<1> QED
  BY <1>9, <1>10, <1>11, <1>12 DEF Owned

\* A query that is being spawned has no task anywhere before its root.
LEMMA NoTaskBeforeRoot ==
  ASSUME IInv, NEW q \in Queries, ~ P!HasRoot(q)
  PROVE  Qreg[q] = <<>>
<1>1. \A t \in born : query_id[t] # q
  BY DEF IInv, PP!IInv, PP!Roots, P!HasRoot
<1>2. Elements(Qreg[q]) = {}
  BY <1>1, HeldIsPending, PendingBorn DEF IInv, Owned, QueryOwns
<1>3. Qreg[q] \in Seq(Tasks)
  BY DEF IInv, QueueTypes
<1>4. Qreg[q] # <<>> => 1 \in 1 .. Len(Qreg[q])
  BY <1>3
<1> QED
  BY <1>2, <1>4 DEF Elements

LEMMA SpawnRootStep ==
  ASSUME IInv, NEW c \in Compers, Comper(c), SpawnRoot(c)
  PROVE  Parts' /\ Owned'
<1>0. PICK t \in Tasks : t = NextTaskID /\ t \notin born
  BY NextTaskIDNew DEF SpawnRoot
<1>a. PICK q \in Queries : q = cur_qid[c]
  BY DEF SpawnRoot, P!AddRootTask, IInv, PP!IInv, PP!Spawning
<1>1. /\ spc[c] = "spawn" /\ pending' = pending \cup {t}
      /\ query_id' = [query_id EXCEPT ![t] = q]
      /\ Qreg' = [Qreg EXCEPT ![q] = Append(Qreg[q], t)]
      /\ ~ P!HasRoot(q)
      /\ UNCHANGED <<Lreg, collector, inhand, spillbuf>>
  BY <1>0, <1>a DEF SpawnRoot, P!AddRootTask, P!add_task, P!NewTask, buffers, IInv, QueueTypes
<1>2. inhand[c] = <<>>
  BY <1>1 DEF IInv, Control, ControlOf, Pushing
<1>3. Qreg \in [Queries -> Seq(Tasks)] /\ query_id \in [Tasks -> Queries \cup {NoQuery}]
  BY DEF IInv, QueueTypes, PP!IInv, PP!TypeOK
<1>4. HeldIs /\ HeldIs'
  BY HeldBoth DEF Next
<1>5. QueryOwns(q)
  BY DEF IInv, Owned
<1>6. t \notin pending
  BY <1>0, PendingBorn
<1>7. /\ Qreg'[q] = Append(Qreg[q], t) /\ query_id'[t] = q
      /\ \A x \in Queries \ {q} : Qreg'[x] = Qreg[x]
  BY <1>1, <1>3
<1>8. /\ Elements(Qreg'[q]) = Elements(Qreg[q]) \cup {t} /\ Distinct(Qreg'[q])
  <2>1. t \notin Elements(Qreg[q]) /\ Distinct(Qreg[q])
    BY <1>5, <1>6, HeldIsPending DEF QueryOwns
  <2>2. Qreg[q] \in Seq(Tasks)
    BY <1>3
  <2> QED
    BY <1>7, <2>1, <2>2, AppendElements
<1>9. Parts'
  <2>1. InQreg(q) \in Places
    BY DEF Places
  <2>2. Held'[InQreg(q)] = Held[InQreg(q)] \cup {t}
    BY <1>4, <1>8 DEF HeldIs
  <2>3. ASSUME NEW d \in Places \ {InQreg(q)} PROVE Held'[d] = Held[d]
    BY <1>1, <1>4, <1>7, HeldElsewhere
  <2>4. DOMAIN Held' = Places /\ DOMAIN Held = Places
    BY <1>4 DEF HeldIs
  <2>5. Partition(Held, pending)
    BY DEF IInv, Parts
  <2>6. Partition(Held', pending \cup {t})
    BY <1>6, <2>1, <2>2, <2>3, <2>4, <2>5, InsertPart
  <2> QED
    BY <1>1, <2>6 DEF Parts
<1>10. QueryOwns(q)'
  <2>1. \A u \in Elements(Qreg[q]) : query_id'[u] = query_id[u]
    BY HeldIsPending, PendingKept
  <2>2. \A i \in 1 .. Len(Lreg[q]) : \A u \in Elements(Lreg[q][i]) :
           query_id'[u] = query_id[u]
    BY HeldIsPending, PendingKept
  <2> QED
    BY <1>1, <1>5, <1>7, <1>8, <2>1, <2>2 DEF QueryOwns
<1>11. \A x \in Queries \ {q} : QueryOwns(x)'
  BY <1>1, <1>7, QueryOwnsKept
<1>12. ComperOwns(c)'
  BY <1>1, <1>2, ComperOwnsKept
<1>13. \A d \in Compers \ {c} : ComperOwns(d)'
  BY OtherCompersOwn
<1> QED
  BY <1>9, <1>10, <1>11, <1>12, <1>13 DEF Owned

\* The first task in hand goes to the back of the deque.
LEMMA PushStep ==
  ASSUME IInv, NEW c \in Compers, Comper(c), Push(c)
  PROVE  Parts' /\ Owned'
<1>0. PICK q \in Queries : q = Tc(c)
  BY ContainerOf DEF Push, Pushing
<1>a. PICK t : t = Head(inhand[c])
  OBVIOUS
<1>1. /\ spc[c] = "pushing" /\ inhand[c] # <<>> /\ spillbuf[c] = <<>>
      /\ Qreg' = [Qreg EXCEPT ![q] = Append(Qreg[q], t)]
      /\ inhand' = [inhand EXCEPT ![c] = Tail(inhand[c])]
      /\ UNCHANGED <<pending, Lreg, collector, spillbuf>>
  BY <1>0, <1>a DEF Push, progState, IInv, Control, ControlOf, Pushing, QueueTypes
<1>2. /\ Qreg \in [Queries -> Seq(Tasks)] /\ inhand \in [Compers -> Seq(Tasks)]
      /\ Qreg[q] \in Seq(Tasks) /\ inhand[c] \in Seq(Tasks)
  BY DEF IInv, QueueTypes
<1>3. /\ Qreg'[q] = Append(Qreg[q], t) /\ inhand'[c] = Tail(inhand[c])
      /\ \A x \in Queries \ {q} : Qreg'[x] = Qreg[x]
      /\ \A d \in Compers \ {c} : inhand'[d] = inhand[d]
  BY <1>1, <1>2
<1>4. HeldIs /\ HeldIs'
  BY HeldBoth DEF Next
<1>5. QueryOwns(q) /\ ComperOwns(c)
  BY DEF IInv, Owned
<1>6. /\ t \in Tasks
      /\ Elements(inhand[c]) = Elements(inhand'[c]) \cup {t}
      /\ Distinct(inhand'[c]) /\ t \notin Elements(inhand'[c])
  BY <1>a, <1>1, <1>2, <1>3, <1>5, HeadTailElements DEF ComperOwns
<1>7. /\ InQreg(q) \in Places /\ InInhand(c) \in Places /\ InQreg(q) # InInhand(c)
  BY PlacesDiffer DEF Places
<1>8. Partition(Held, pending)
  BY DEF IInv, Parts
<1>9. Elements(Qreg[q]) \cap Elements(inhand[c]) = {}
  BY <1>4, <1>7, <1>8 DEF Partition, HeldIs
<1>10. /\ Elements(Qreg'[q]) = Elements(Qreg[q]) \cup {t} /\ Distinct(Qreg'[q])
  <2>1. t \notin Elements(Qreg[q]) /\ Distinct(Qreg[q])
    BY <1>5, <1>6, <1>9 DEF QueryOwns
  <2> QED
    BY <1>2, <1>3, <1>6, <2>1, AppendElements
<1>11. Parts'
  <2>1. /\ Held[InQreg(q)] = Elements(Qreg[q]) /\ Held[InInhand(c)] = Elements(inhand[c])
        /\ Held'[InQreg(q)] = Elements(Qreg'[q])
        /\ Held'[InInhand(c)] = Elements(inhand'[c])
    BY <1>4 DEF HeldIs
  <2>2. /\ Held'[InQreg(q)] \cup Held'[InInhand(c)]
             = Held[InQreg(q)] \cup Held[InInhand(c)]
        /\ Held'[InQreg(q)] \cap Held'[InInhand(c)] = {}
    BY <1>6, <1>9, <1>10, <2>1
  <2>3. ASSUME NEW d \in Places \ {InQreg(q), InInhand(c)} PROVE Held'[d] = Held[d]
    BY <1>1, <1>3, <1>4, HeldElsewhere
  <2>4. DOMAIN Held' = Places /\ DOMAIN Held = Places
    BY <1>4 DEF HeldIs
  <2>5. Partition(Held', pending)
    BY <1>7, <1>8, <2>2, <2>3, <2>4, MovePart
  <2> QED
    BY <1>1, <2>5 DEF Parts
<1>12. /\ \A u \in Elements(Qreg[q]) : query_id'[u] = q
       /\ \A u \in Elements(inhand[c]) : query_id'[u] = q
  BY <1>0, <1>5, HeldIsPending, PendingKept DEF QueryOwns, ComperOwns
<1>13. QueryOwns(q)'
  <2>1. \A i \in 1 .. Len(Lreg[q]) : \A u \in Elements(Lreg[q][i]) :
           query_id'[u] = query_id[u]
    BY HeldIsPending, PendingKept
  <2> QED
    BY <1>1, <1>5, <1>6, <1>10, <1>12, <2>1 DEF QueryOwns
<1>14. ComperOwns(c)'
  <2>1. inhand'[c] # <<>> => Tc(c)' = q
    BY <1>0, <1>1, <1>3 DEF Push, Goto, Tc, Scanning, progState, active, scan, IInv, QueueTypes
  <2>2. \A u \in Elements(inhand'[c]) : query_id'[u] = Tc(c)'
    <3>1. inhand'[c] = <<>> => Elements(inhand'[c]) = {}
      BY EmptyElements
    <3> QED
      BY <1>6, <1>12, <2>1, <3>1
  <2>3. Elements(spillbuf'[c]) = {} /\ Distinct(spillbuf'[c])
    BY <1>1, EmptyElements
  <2>4. \A u \in Elements(collector[c]) :
           /\ query_id'[u] = query_id[u] /\ qstate'[query_id[u]] = "active"
    BY <1>5, HeldIsPending, PendingKept DEF ComperOwns
  <2> QED
    BY <1>1, <1>5, <1>6, <2>2, <2>3, <2>4 DEF ComperOwns
<1>15. \A x \in Queries \ {q} : QueryOwns(x)'
  BY <1>1, <1>3, QueryOwnsKept
<1>16. \A d \in Compers \ {c} : ComperOwns(d)'
  BY OtherCompersOwn
<1> QED
  BY <1>11, <1>13, <1>14, <1>15, <1>16 DEF Owned

\* The tasks at the back of the deque are to be written to a file.
LEMMA SpillStep ==
  ASSUME IInv, NEW c \in Compers, Comper(c), Spill(c)
  PROVE  Parts' /\ Owned'
<1>0. PICK q \in Queries : q = Tc(c)
  BY ContainerOf DEF Spill, Pushing
<1>1. /\ spc[c] = "pushing" /\ spillbuf[c] = <<>>
      /\ UNCHANGED <<pending, Lreg, collector, inhand>>
  BY DEF Spill, progState, IInv, Control, ControlOf
<1>2. /\ Qreg \in [Queries -> Seq(Tasks)] /\ spillbuf \in [Compers -> Seq(Tasks)]
      /\ Qreg[q] \in Seq(Tasks) /\ Len(Qreg[q]) \in Nat
  BY DEF IInv, QueueTypes
<1>4. HeldIs /\ HeldIs'
  BY HeldBoth DEF Next
<1>5. QueryOwns(q) /\ ComperOwns(c)
  BY DEF IInv, Owned
<1>6. PICK a \in Seq(Tasks), b \in Seq(Tasks) :
        /\ spillbuf' = [spillbuf EXCEPT ![c] = a]
        /\ Qreg' = [Qreg EXCEPT ![q] = b]
        /\ Distinct(a) /\ Distinct(b)
        /\ Elements(a) \cup Elements(b) = Elements(Qreg[q])
        /\ Elements(a) \cap Elements(b) = {}
  <2> DEFINE s == Qreg[q]
             keep == IF Len(s) < RT_TASKS_PER_FILE THEN 0
                     ELSE Len(s) - RT_TASKS_PER_FILE
             w == SubSeq(s, keep + 1, Len(s))
  <2>1. keep \in 0 .. Len(s)
    BY <1>2, SchedulerAssumption
  <2>2. /\ spillbuf' = [spillbuf EXCEPT ![c] = Reverse(w)]
        /\ Qreg' = [Qreg EXCEPT ![q] = SubSeq(s, 1, keep)]
    BY <1>0, <1>2 DEF Spill
  <2> HIDE DEF keep
  <2>3. /\ SubSeq(s, 1, keep) \in Seq(Tasks) /\ w \in Seq(Tasks)
        /\ Distinct(SubSeq(s, 1, keep)) /\ Distinct(w)
        /\ Elements(SubSeq(s, 1, keep)) \cup Elements(w) = Elements(s)
        /\ Elements(SubSeq(s, 1, keep)) \cap Elements(w) = {}
    <3>1. Distinct(s)
      BY <1>5 DEF QueryOwns
    <3> HIDE DEF s
    <3>2. s \in Seq(Tasks)
      BY <1>2 DEF s
    <3> QED
      BY <2>1, <3>1, <3>2, CutElements
  <2> HIDE DEF w
  <2>4. /\ Reverse(w) \in Seq(Tasks) /\ Elements(Reverse(w)) = Elements(w)
        /\ Distinct(Reverse(w))
    <3>1. Len(w) \in Nat /\ \A i \in 1 .. Len(w) : w[i] \in Tasks
      BY <2>3, LenProperties
    <3>2. \A i \in 1 .. Len(w) : (Len(w) - i) + 1 \in 1 .. Len(w)
      BY <3>1
    <3>3. [i \in 1 .. Len(w) |-> w[(Len(w) - i) + 1]] \in Seq(Tasks)
      BY <3>1, <3>2, IsASeq
    <3>4. /\ Reverse(w) \in Seq(Tasks) /\ DOMAIN Reverse(w) = 1 .. Len(w)
          /\ \A i \in 1 .. Len(w) : Reverse(w)[i] = w[(Len(w) - i) + 1]
      BY <3>3 DEF Reverse
    <3>5. Len(Reverse(w)) = Len(w)
      BY <3>1, <3>4
    <3> QED
      BY <2>3, <3>4, <3>5, ReversedElements
  <2> QED
    BY <2>2, <2>3, <2>4
<1>7. /\ spillbuf'[c] = a /\ Qreg'[q] = b
      /\ \A x \in Queries \ {q} : Qreg'[x] = Qreg[x]
      /\ \A d \in Compers \ {c} : spillbuf'[d] = spillbuf[d]
  BY <1>2, <1>6
<1>8. Parts'
  <2>1. /\ InQreg(q) \in Places /\ InSpillbuf(c) \in Places
        /\ InQreg(q) # InSpillbuf(c)
    BY PlacesDiffer DEF Places
  <2>2. /\ Held[InQreg(q)] = Elements(a) \cup Elements(b) /\ Held[InSpillbuf(c)] = {}
        /\ Held'[InQreg(q)] = Elements(b) /\ Held'[InSpillbuf(c)] = Elements(a)
    BY <1>1, <1>4, <1>6, <1>7, EmptyElements DEF HeldIs
  <2>3. ASSUME NEW d \in Places \ {InQreg(q), InSpillbuf(c)}
        PROVE  Held'[d] = Held[d]
    BY <1>1, <1>4, <1>7, HeldElsewhere
  <2>4. DOMAIN Held' = Places /\ DOMAIN Held = Places
    BY <1>4 DEF HeldIs
  <2>5. Partition(Held, pending)
    BY DEF IInv, Parts
  <2>6. /\ Held'[InQreg(q)] \cup Held'[InSpillbuf(c)]
             = Held[InQreg(q)] \cup Held[InSpillbuf(c)]
        /\ Held'[InQreg(q)] \cap Held'[InSpillbuf(c)] = {}
    BY <1>6, <2>2
  <2>7. Partition(Held', pending)
    BY <2>1, <2>3, <2>4, <2>5, <2>6, MovePart
  <2> QED
    BY <1>1, <2>7 DEF Parts
<1>9. /\ \A t \in Elements(Qreg[q]) : query_id'[t] = q
      /\ \A t \in Elements(inhand[c]) : query_id'[t] = q
  BY <1>0, <1>5, HeldIsPending, PendingKept DEF QueryOwns, ComperOwns
<1>10. QueryOwns(q)'
  <2>1. \A i \in 1 .. Len(Lreg[q]) : \A t \in Elements(Lreg[q][i]) :
           query_id'[t] = query_id[t]
    BY HeldIsPending, PendingKept
  <2> QED
    BY <1>1, <1>5, <1>6, <1>7, <1>9, <2>1 DEF QueryOwns
<1>11. ComperOwns(c)'
  <2>1. Tc(c)' = q
    BY <1>0, <1>1 DEF Spill, Goto, Tc, Scanning, progState, active, scan, IInv, QueueTypes
  <2>2. \A t \in Elements(inhand'[c]) \cup Elements(spillbuf'[c]) : query_id'[t] = q
    BY <1>1, <1>6, <1>7, <1>9
  <2>3. Distinct(spillbuf'[c]) /\ Distinct(inhand'[c]) /\ Distinct(collector'[c])
    BY <1>1, <1>5, <1>6, <1>7 DEF ComperOwns
  <2>4. \A u \in Elements(collector[c]) :
           /\ query_id'[u] = query_id[u] /\ qstate'[query_id[u]] = "active"
    BY <1>5, HeldIsPending, PendingKept DEF ComperOwns
  <2> QED
    BY <1>1, <1>5, <2>1, <2>2, <2>3, <2>4 DEF ComperOwns
<1>12. \A x \in Queries \ {q} : QueryOwns(x)'
  BY <1>1, <1>7, QueryOwnsKept
<1>13. \A d \in Compers \ {c} : ComperOwns(d)'
  BY OtherCompersOwn
<1> QED
  BY <1>8, <1>10, <1>11, <1>12, <1>13 DEF Owned

\* The file is the last one of its query.
LEMMA WriteFileStep ==
  ASSUME IInv, NEW c \in Compers, Comper(c), WriteFile(c)
  PROVE  Parts' /\ Owned'
<1>0. PICK q \in Queries : q = Tc(c)
  BY ContainerOf DEF WriteFile, Pushing
<1> DEFINE f == Lreg[q]
           g == Lreg'[q]
           n == Len(f) + 1
<1>1. /\ spc[c] = "spill"
      /\ Lreg' = [Lreg EXCEPT ![q] = Append(f, spillbuf[c])]
      /\ spillbuf' = [spillbuf EXCEPT ![c] = <<>>]
      /\ UNCHANGED <<pending, Qreg, collector, inhand>>
  BY <1>0 DEF WriteFile, progState, IInv, QueueTypes
<1>2. /\ Lreg \in [Queries -> Seq(Seq(Tasks))] /\ f \in Seq(Seq(Tasks))
      /\ spillbuf \in [Compers -> Seq(Tasks)] /\ spillbuf[c] \in Seq(Tasks)
      /\ Len(f) \in Nat
  BY DEF IInv, QueueTypes
<1>3. /\ g = Append(f, spillbuf[c]) /\ spillbuf'[c] = <<>>
      /\ \A x \in Queries \ {q} : Lreg'[x] = Lreg[x]
      /\ \A d \in Compers \ {c} : spillbuf'[d] = spillbuf[d]
  BY <1>1, <1>2
<1>4. /\ Len(g) = n /\ g[n] = spillbuf[c]
      /\ \A i \in 1 .. Len(f) : g[i] = f[i]
  BY <1>2, <1>3, AppendProperties
<1>5. HeldIs /\ HeldIs'
  BY HeldBoth DEF Next
<1>6. QueryOwns(q) /\ ComperOwns(c)
  BY DEF IInv, Owned
<1>7. /\ n \in Nat \ {0} /\ n \notin 1 .. Len(f) /\ n \in 1 .. Len(g)
      /\ \A i \in 1 .. Len(g) : i \in 1 .. Len(f) \/ i = n
      /\ \A i \in 1 .. Len(f) : i \in 1 .. Len(g)
  BY <1>2, <1>4
<1> HIDE DEF f, g, n
<1>8. Parts'
  <2>1. /\ InLreg(q, n) \in Places /\ InSpillbuf(c) \in Places
        /\ InLreg(q, n) # InSpillbuf(c)
    BY <1>7, PlacesDiffer DEF Places
  <2>2. /\ Held[InLreg(q, n)] = {} /\ Held[InSpillbuf(c)] = Elements(spillbuf[c])
        /\ Held'[InLreg(q, n)] = Elements(spillbuf[c])
        /\ Held'[InSpillbuf(c)] = {}
    BY <1>3, <1>4, <1>5, <1>7, EmptyElements DEF HeldIs, f, g
  <2>3. ASSUME NEW d \in Places \ {InLreg(q, n), InSpillbuf(c)}
        PROVE  Held'[d] = Held[d]
    <3>1. CASE \E j \in Nat \ {0} : d = InLreg(q, j)
      <4>1. PICK j \in Nat \ {0} : d = InLreg(q, j)
        BY <3>1
      <4>2. j # n
        BY <2>3, <4>1
      <4>3. Held[d] = IF j \in 1 .. Len(f) THEN Elements(f[j]) ELSE {}
        BY <1>5, <4>1 DEF HeldIs, f
      <4>4. Held'[d] = IF j \in 1 .. Len(g) THEN Elements(g[j]) ELSE {}
        BY <1>5, <4>1 DEF HeldIs, g
      <4> QED
        BY <1>4, <1>7, <4>2, <4>3, <4>4
    <3>2. CASE \A j \in Nat \ {0} : d # InLreg(q, j)
      BY <1>1, <1>3, <1>5, <3>2, HeldElsewhere
    <3> QED
      BY <3>1, <3>2
  <2>4. DOMAIN Held' = Places /\ DOMAIN Held = Places
    BY <1>5 DEF HeldIs
  <2>5. Partition(Held, pending)
    BY DEF IInv, Parts
  <2>6. /\ Held'[InLreg(q, n)] \cup Held'[InSpillbuf(c)]
             = Held[InLreg(q, n)] \cup Held[InSpillbuf(c)]
        /\ Held'[InLreg(q, n)] \cap Held'[InSpillbuf(c)] = {}
    BY <2>2
  <2>7. Partition(Held', pending)
    BY <2>1, <2>3, <2>4, <2>5, <2>6, MovePart
  <2> QED
    BY <1>1, <2>7 DEF Parts
<1>9. /\ \A t \in Elements(Qreg[q]) : query_id'[t] = q
      /\ \A t \in Elements(inhand[c]) \cup Elements(spillbuf[c]) : query_id'[t] = q
      /\ \A i \in 1 .. Len(f) : \A t \in Elements(f[i]) : query_id'[t] = q
  BY <1>0, <1>6, HeldIsPending, PendingKept DEF QueryOwns, ComperOwns, f
<1>10. QueryOwns(q)'
  <2>1. \A i \in 1 .. Len(g) : /\ Distinct(g[i])
                               /\ \A t \in Elements(g[i]) : query_id'[t] = q
    BY <1>4, <1>6, <1>7, <1>9 DEF QueryOwns, ComperOwns, f
  <2> QED
    BY <1>1, <1>6, <1>9, <2>1 DEF QueryOwns, g
<1>11. ComperOwns(c)'
  <2>1. Tc(c)' = q
    BY <1>0, <1>1 DEF WriteFile, Goto, Tc, Scanning, progState, active, scan,
                      IInv, QueueTypes
  <2>2. \A t \in Elements(inhand'[c]) \cup Elements(spillbuf'[c]) : query_id'[t] = q
    BY <1>1, <1>3, <1>9, EmptyElements
  <2>3. Distinct(spillbuf'[c]) /\ Distinct(inhand'[c]) /\ Distinct(collector'[c])
    BY <1>1, <1>3, <1>6, EmptyElements DEF ComperOwns
  <2>4. \A u \in Elements(collector[c]) :
           /\ query_id'[u] = query_id[u] /\ qstate'[query_id[u]] = "active"
    BY <1>6, HeldIsPending, PendingKept DEF ComperOwns
  <2> QED
    BY <1>1, <1>6, <2>1, <2>2, <2>3, <2>4 DEF ComperOwns
<1>12. \A x \in Queries \ {q} : QueryOwns(x)'
  BY <1>1, <1>3, QueryOwnsKept
<1>13. \A d \in Compers \ {c} : ComperOwns(d)'
  BY OtherCompersOwn
<1> QED
  BY <1>8, <1>10, <1>11, <1>12, <1>13 DEF Owned

\* What the worker and the clients do has no effect on the compers but to
\* wake those that wait.
LEMMA OutsideStep ==
  ASSUME Worker \/ Client \/ Terminated \/ UNCHANGED vars
  PROVE  /\ UNCHANGED spc \/ NotifyAll
         /\ UNCHANGED <<progState, active, queues, scan, buffers>>
<1>1. CASE Worker
  BY <1>1 DEF Worker, UpdateTasks, SkipUpdate, NotifyNew, CheckActive,
       CheckQueue, Notify, TryEnd, active
<1>2. CASE Client
  BY <1>2 DEF Client, Send
<1>3. CASE Terminated \/ UNCHANGED vars
  BY <1>3 DEF Terminated, vars
<1> QED
  BY <1>1, <1>2, <1>3

LEMMA WaitingStep ==
  ASSUME IInv, [Next]_vars
  PROVE  Parts' /\ Owned'
<1>1. ASSUME UNCHANGED <<queues, buffers, pending>> PROVE Parts'
  BY <1>1 DEF IInv, Parts, Held, Boxes, TasksIn, queues, buffers
<1>2. CASE Worker \/ Client \/ Terminated \/ UNCHANGED vars
  <2>1. /\ UNCHANGED spc \/ NotifyAll
        /\ UNCHANGED <<progState, active, queues, scan, buffers>>
    BY <1>2, OutsideStep
  <2>2. UNCHANGED <<Qreg, Lreg, collector, inhand, spillbuf, pending, query_id,
                    qstate, cur_qid, pc, it, activeQ_list>>
    BY <2>1 DEF progState, active, queues, scan, buffers
  <2>3. ASSUME NEW d \in Compers PROVE Tc(d)' = Tc(d)
    <3>1. spc'[d] = spc[d] \/ (spc[d] = "wait" /\ spc'[d] = "woken")
      BY <2>1 DEF NotifyAll
    <3> QED
      BY <2>2, <3>1 DEF Tc, Scanning
  <2>4. Owned'
    BY <2>2, <2>3 DEF IInv, Owned, QueryOwns, ComperOwns
  <2> QED
    BY <1>1, <2>1, <2>2, <2>4
<1>3. ASSUME NEW c \in Compers, Comper(c) PROVE Parts' /\ Owned'
  <2>1. ASSUME UNCHANGED <<queues, buffers, pending>>,
               inhand[c] # <<>> => Tc(c)' = Tc(c)
        PROVE  Parts' /\ Owned'
    <3>1. UNCHANGED <<Qreg, Lreg, collector, inhand, spillbuf>>
      BY <2>1 DEF queues, buffers
    <3>2. \A q \in Queries : QueryOwns(q)'
      BY <1>3, <3>1, QueryOwnsKept
    <3>3. ComperOwns(c)'
      BY <1>3, <2>1, <3>1, ComperOwnsKept
    <3>4. \A d \in Compers \ {c} : ComperOwns(d)'
      BY <1>3, OtherCompersOwn
    <3> QED
      BY <1>1, <2>1, <3>2, <3>3, <3>4 DEF Owned
  <2>2. CASE Refill(c)
    BY <1>3, <2>2, RefillStep
  <2>3. CASE Pop(c)
    BY <1>3, <2>3, PopStep
  <2>4. CASE StartTask(c)
    BY <1>3, <2>4, StartTaskStep
  <2>5. CASE SplitTask(c)
    BY <1>3, <2>5, SplitTaskStep
  <2>6. CASE SpawnRoot(c)
    BY <1>3, <2>6, SpawnRootStep
  <2>7. CASE Push(c)
    BY <1>3, <2>7, PushStep
  <2>8. CASE Spill(c)
    BY <1>3, <2>8, SpillStep
  <2>9. CASE WriteFile(c)
    BY <1>3, <2>9, WriteFileStep
  <2>10. CASE LockPush(c)
    <3>1. UNCHANGED <<queues, buffers, pending>>
      BY <2>10 DEF LockPush, progState
    <3>2. Tc(c)' = Tc(c)
      BY <2>10 DEF LockPush, Goto, Tc, Scanning, progState, active, scan, IInv,
                   QueueTypes
    <3> QED
      BY <2>1, <3>1, <3>2
  <2>11. ASSUME ~ Pushing(c) PROVE inhand[c] = <<>>
    BY <2>11 DEF IInv, Control, ControlOf
  <2>12. CASE RunLoop(c) \/ EndOfList(c) \/ LockReg(c) \/ CheckSize(c)
              \/ LockFetch(c) \/ BatchDone(c)
    <3>1. UNCHANGED <<queues, buffers, pending>> /\ ~ Pushing(c)
      BY <2>12 DEF RunLoop, EndOfList, LockReg, CheckSize, LockFetch,
           AcquireOrSkip, BatchDone, progState, Pushing
    <3> QED
      BY <2>1, <2>11, <3>1
  <2>13. CASE CheckQueries(c) \/ ReserveSlot(c) \/ Sleep(c) \/ WakeUp(c)
    <3>1. UNCHANGED <<queues, buffers, pending>> /\ ~ Pushing(c)
      BY <2>13 DEF CheckQueries, ReserveSlot, Sleep, WakeUp, progState, Pushing
    <3> QED
      BY <2>1, <2>11, <3>1
  <2>14. CASE Backtrack(c)
    <3>1. UNCHANGED <<queues, buffers, pending>> /\ ~ Pushing(c)
      BY <2>14 DEF Backtrack, P!Complete, P!Erase, P!GetParent, P!DecParent,
           P!SettleInParent, P!progVars, Pushing
    <3> QED
      BY <2>1, <2>11, <3>1
  <2>15. CASE RemoveQuery(c)
    <3>1. /\ UNCHANGED <<queues, buffers, pending>> /\ pc[c] = "finish"
      BY <2>15 DEF RemoveQuery, P!FinishQuery
    <3>2. ~ Pushing(c)
      BY <3>1 DEF IInv, Control, ControlOf
    <3> QED
      BY <2>1, <2>11, <3>1, <3>2
  <2>16. CASE Dequeue(c)
    <3>1. UNCHANGED <<queues, buffers, pending>> /\ ~ Pushing(c)
      BY <2>16 DEF Dequeue, P!StartSpawn, progState, Pushing
    <3> QED
      BY <2>1, <2>11, <3>1
  <2>17. CASE PublishQuery(c)
    <3>1. UNCHANGED <<queues, buffers, pending>> /\ ~ Pushing(c)
      BY <2>17 DEF PublishQuery, P!EndSpawn, Pushing
    <3> QED
      BY <2>1, <2>11, <3>1
  <2> QED
    BY <1>3, <2>2, <2>3, <2>4, <2>5, <2>6, <2>7, <2>8, <2>9, <2>10, <2>12,
       <2>13, <2>14, <2>15, <2>16, <2>17 DEF Comper
<1> QED
  BY <1>2, <1>3 DEF Next

-----------------------------------------------------------------------------
(* The list, the places in it, and the sizes                               *)

\* The actions of a comper that do not touch the list, nor its length.
ListActions(c) == \/ RemoveQuery(c) \/ PublishQuery(c)
                  \/ ReserveSlot(c) \/ Dequeue(c)

LEMMA ListLeftAlone ==
  ASSUME IInv, NEW c \in Compers, Comper(c), ~ ListActions(c)
  PROVE  /\ UNCHANGED <<qstate, activeQ_list, activeQ_num>>
         /\ Reserving' = Reserving
<1>0. spc \in [Compers -> SPCs]
  BY DEF IInv, QueueTypes
<1>1. ASSUME spc'[c] \notin {"deq", "spawn"}, spc[c] \notin {"deq", "spawn"}
      PROVE  Reserving' = Reserving
  BY <1>0, <1>1, OthersSame DEF Reserving
<1>2. ASSUME UNCHANGED spc PROVE Reserving' = Reserving
  BY <1>2 DEF Reserving
<1> USE DEF Goto, NextQuery, progState, active
<1>3. CASE RunLoop(c) \/ EndOfList(c) \/ BatchDone(c) \/ LockPush(c)
  BY <1>0, <1>1, <1>3 DEF RunLoop, EndOfList, BatchDone, LockPush
<1>4. CASE LockReg(c) \/ LockFetch(c)
  BY <1>0, <1>1, <1>4 DEF LockReg, LockFetch, AcquireOrSkip
<1>5. CASE CheckSize(c)
  <2>1. spc[c] = "size" /\ spc'[c] \in {"refill", "fetch"}
    BY <1>0, <1>5 DEF CheckSize
  <2> QED
    BY <1>1, <1>5, <2>1 DEF CheckSize
<1>6. CASE Refill(c)
  <2>1. spc[c] = "refill" /\ spc'[c] \in {"push", "fetch"}
    BY <1>0, <1>6 DEF Refill
  <2> QED
    BY <1>1, <1>6, <2>1 DEF Refill
<1>7. CASE Pop(c)
  <2>1. spc[c] = "pop" /\ spc'[c] \in {"next", "batch"}
    BY <1>0, <1>7 DEF Pop
  <2> QED
    BY <1>1, <1>7, <2>1 DEF Pop
<1>8. CASE StartTask(c)
  BY <1>2, <1>8 DEF StartTask, P!Take
<1>9. CASE SplitTask(c)
  <2>1. spc[c] = "batch" /\ spc'[c] = "push"
    BY <1>0, <1>9 DEF SplitTask
  <2> QED
    BY <1>1, <1>9, <2>1 DEF SplitTask, P!AddTask
<1>10. CASE SpawnRoot(c)
  BY <1>2, <1>10 DEF SpawnRoot, P!AddRootTask
<1>11. CASE Backtrack(c)
  BY <1>2, <1>11 DEF Backtrack, P!Complete, P!Erase, P!GetParent, P!DecParent,
       P!SettleInParent
<1>12. CASE Push(c)
  <2>1. spc[c] = "pushing" /\ spc'[c] \in {"push", "batch", "fetch"}
    BY <1>0, <1>12 DEF Push
  <2> QED
    BY <1>1, <1>12, <2>1 DEF Push
<1>13. CASE Spill(c) \/ WriteFile(c)
  BY <1>0, <1>1, <1>13 DEF Spill, WriteFile
<1>14. CASE CheckQueries(c)
  <2>1. spc[c] = "queries" /\ spc'[c] \in {"notfound", "slot"}
    BY <1>0, <1>14 DEF CheckQueries
  <2> QED
    BY <1>1, <1>14, <2>1 DEF CheckQueries
<1>15. CASE Sleep(c)
  BY <1>0, <1>1, <1>15 DEF Sleep
<1>16. CASE WakeUp(c)
  BY <1>0, <1>1, <1>16 DEF WakeUp
<1> QED
  BY <1>3, <1>4, <1>5, <1>6, <1>7, <1>8, <1>9, <1>10, <1>11, <1>12, <1>13,
     <1>14, <1>15, <1>16 DEF Comper, ListActions

LEMMA ListedStep ==
  ASSUME IInv, [Next]_vars
  PROVE  Listed'
<1>0. Listed /\ DOMAIN qstate = Queries
  BY DEF IInv, PP!IInv, PP!TypeOK
<1>1. ASSUME UNCHANGED <<qstate, activeQ_list>> PROVE Listed'
  BY <1>0, <1>1 DEF Listed
<1>2. CASE Worker \/ Client \/ Terminated \/ UNCHANGED vars
  BY <1>1, <1>2, OutsideStep DEF progState, active
<1>3. ASSUME NEW c \in Compers, Comper(c) PROVE Listed'
  <2>1. CASE ~ ListActions(c)
    BY <1>1, <1>3, <2>1, ListLeftAlone
  <2>2. CASE RemoveQuery(c)
    <3>1. PICK q \in Queries :
            /\ qstate' = [qstate EXCEPT ![q] = "done"]
            /\ Elements(activeQ_list') = Elements(activeQ_list) \ {q}
            /\ Distinct(activeQ_list')
      BY <2>2, ListShrinks
    <3>2. \A x \in Queries : qstate'[x] = "active" <=> qstate[x] = "active" /\ x # q
      BY <1>0, <3>1
    <3> QED
      BY <1>0, <3>1, <3>2 DEF Listed
  <2>3. CASE PublishQuery(c)
    <3>1. PICK q \in Queries :
            /\ qstate' = [qstate EXCEPT ![q] = "active"]
            /\ Elements(activeQ_list') = Elements(activeQ_list) \cup {q}
            /\ Distinct(activeQ_list')
      BY <2>3, ListGrows
    <3>2. \A x \in Queries : qstate'[x] = "active" <=> qstate[x] = "active" \/ x = q
      BY <1>0, <3>1
    <3> QED
      BY <1>0, <3>1, <3>2 DEF Listed
  <2>4. CASE ReserveSlot(c)
    BY <1>1, <2>4 DEF ReserveSlot, progState
  <2>5. CASE Dequeue(c)
    <3>1. CASE query_que = <<>>
      BY <1>1, <2>5, <3>1 DEF Dequeue, progState, active
    <3>2. CASE query_que # <<>>
      <4>1. /\ qstate[Head(query_que)] = "waiting"
            /\ qstate' = [qstate EXCEPT ![Head(query_que)] = "spawning"]
            /\ activeQ_list' = activeQ_list
        BY <2>5, <3>2 DEF Dequeue, P!StartSpawn, active
      <4>2. \A x \in Queries : qstate'[x] = "active" <=> qstate[x] = "active"
        BY <1>0, <4>1
      <4> QED
        BY <1>0, <4>1, <4>2 DEF Listed
    <3> QED
      BY <3>1, <3>2
  <2> QED
    BY <2>1, <2>2, <2>3, <2>4, <2>5 DEF ListActions
<1> QED
  BY <1>2, <1>3 DEF Next

LEMMA SlotsStep ==
  ASSUME IInv, [Next]_vars
  PROVE  Slots'
<1>0. /\ Slots /\ spc \in [Compers -> SPCs] /\ Len(activeQ_list) \in Nat
      /\ activeQ_num \in Nat /\ activeQ_list_capacity \in Nat
      /\ IsFiniteSet(Reserving) /\ Cardinality(Reserving) \in Nat
  BY ReservingFinite, SchedulerAssumption DEF IInv, QueueTypes
<1>1. ASSUME UNCHANGED <<activeQ_list, activeQ_num>>, Reserving' = Reserving
      PROVE  Slots'
  BY <1>0, <1>1 DEF Slots
<1>2. CASE Worker \/ Client \/ Terminated \/ UNCHANGED vars
  <2>1. Reserving' = Reserving
    BY <1>0, <1>2, OutsideStep DEF Reserving, NotifyAll
  <2> QED
    BY <1>1, <1>2, <2>1, OutsideStep DEF active
<1>3. ASSUME NEW c \in Compers, Comper(c) PROVE Slots'
  <2>1. CASE ~ ListActions(c)
    BY <1>1, <1>3, <2>1, ListLeftAlone
  <2>2. CASE RemoveQuery(c)
    <3>1. /\ Len(activeQ_list') = Len(activeQ_list) - 1
          /\ activeQ_num' = activeQ_num - 1
      BY <2>2, ListShrinks
    <3>2. Reserving' = Reserving
      BY <2>2 DEF RemoveQuery, Reserving
    <3> QED
      BY <1>0, <3>1, <3>2 DEF Slots
  <2>3. CASE PublishQuery(c)
    <3>1. Len(activeQ_list') = Len(activeQ_list) + 1 /\ activeQ_num' = activeQ_num
      BY <2>3, ListGrows DEF PublishQuery
    <3>2. c \in Reserving /\ Reserving' = Reserving \ {c}
      BY <1>0, <2>3 DEF PublishQuery, Goto, Reserving
    <3>3. Cardinality(Reserving') = Cardinality(Reserving) - 1
      BY <1>0, <3>2, FS_RemoveElement
    <3> QED
      BY <1>0, <3>1, <3>3 DEF Slots
  <2>4. CASE ReserveSlot(c)
    <3>1. CASE activeQ_num < activeQ_list_capacity /\ query_que # <<>>
      <4>1. /\ activeQ_num' = activeQ_num + 1 /\ activeQ_list' = activeQ_list
        BY <2>4, <3>1 DEF ReserveSlot
      <4>2. c \notin Reserving /\ Reserving' = Reserving \cup {c}
        BY <1>0, <2>4, <3>1 DEF ReserveSlot, Goto, Reserving
      <4>3. Cardinality(Reserving') = Cardinality(Reserving) + 1
        BY <1>0, <4>2, FS_AddElement
      <4> QED
        BY <1>0, <3>1, <4>1, <4>3 DEF Slots
    <3>2. CASE ~ (activeQ_num < activeQ_list_capacity /\ query_que # <<>>)
      <4>1. UNCHANGED <<activeQ_list, activeQ_num>> /\ Reserving' = Reserving
        BY <1>0, <2>4, <3>2 DEF ReserveSlot, Goto, Reserving
      <4> QED
        BY <1>1, <4>1
    <3> QED
      BY <3>1, <3>2
  <2>5. CASE Dequeue(c)
    <3>1. UNCHANGED <<activeQ_list, activeQ_num>>
      BY <2>5 DEF Dequeue, active
    <3>2. CASE query_que = <<>>
      <4>1. c \in Reserving /\ Reserving' = Reserving \ {c}
        BY <1>0, <2>5, <3>2 DEF Dequeue, Goto, Reserving
      <4>2. Cardinality(Reserving') = Cardinality(Reserving) - 1
        BY <1>0, <4>1, FS_RemoveElement
      <4> QED
        BY <1>0, <3>1, <4>2 DEF Slots
    <3>3. CASE query_que # <<>>
      <4>1. Reserving' = Reserving
        BY <1>0, <2>5, <3>3 DEF Dequeue, Goto, Reserving
      <4> QED
        BY <1>1, <3>1, <4>1
    <3> QED
      BY <3>2, <3>3
  <2> QED
    BY <2>1, <2>2, <2>3, <2>4, <2>5 DEF ListActions
<1> QED
  BY <1>2, <1>3 DEF Next

LEMMA SizesStep ==
  ASSUME IInv, [Next]_vars
  PROVE  Sizes'
<1>0. /\ Sizes /\ Qreg \in [Queries -> Seq(Tasks)] /\ Lreg \in [Queries -> Seq(Seq(Tasks))]
      /\ Qreg_capacity \in Nat \ {0}
      /\ \A q \in Queries : Len(Qreg[q]) \in Nat
  BY SchedulerAssumption DEF IInv, QueueTypes
<1>1. ASSUME UNCHANGED queues PROVE Sizes'
  BY <1>0, <1>1 DEF Sizes, queues
<1>2. CASE Worker \/ Client \/ Terminated \/ UNCHANGED vars
  BY <1>1, <1>2, OutsideStep
<1>3. ASSUME NEW c \in Compers, Comper(c) PROVE Sizes'
  <2>1. ASSUME NEW q \in Queries, NEW s \in Seq(Tasks), Len(s) <= Qreg_capacity,
               Qreg' = [Qreg EXCEPT ![q] = s], UNCHANGED Lreg
        PROVE  Sizes'
    BY <1>0, <2>1 DEF Sizes
  <2>2. CASE Refill(c)
    <3>0. PICK q \in Queries : q = Tc(c)
      BY <2>2, ContainerOf DEF Refill
    <3>1. CASE Lreg[q] = <<>>
      BY <1>1, <2>2, <3>0, <3>1 DEF Refill, queues
    <3>2. CASE Lreg[q] # <<>>
      <4>1. Lreg' = [Lreg EXCEPT ![q] = Tail(Lreg[q])] /\ UNCHANGED Qreg
        BY <1>0, <2>2, <3>0, <3>2 DEF Refill
      <4>2. /\ Lreg[q] \in Seq(Seq(Tasks)) /\ Len(Lreg[q]) \in Nat \ {0}
        BY <1>0, <3>2, EmptySeq
      <4>3. /\ Len(Tail(Lreg[q])) = Len(Lreg[q]) - 1
            /\ \A i \in 1 .. Len(Tail(Lreg[q])) : Tail(Lreg[q])[i] = Lreg[q][i + 1]
        BY <3>2, <4>2, HeadTailProperties
      <4>4. \A i \in 1 .. Len(Tail(Lreg[q])) : i + 1 \in 1 .. Len(Lreg[q])
        BY <4>2, <4>3
      <4>5. \A i \in 1 .. Len(Tail(Lreg[q])) : Tail(Lreg[q])[i] # <<>>
        BY <1>0, <4>3, <4>4 DEF Sizes
      <4> QED
        BY <1>0, <4>1, <4>5 DEF Sizes
    <3> QED
      BY <3>1, <3>2
  <2>3. CASE Pop(c)
    <3>0. PICK q \in Queries : q = Tc(c)
      BY <2>3, ContainerOf DEF Pop
    <3> DEFINE s == Qreg[q]
               k == IF Len(s) < tasks_per_fetch_g THEN Len(s) ELSE tasks_per_fetch_g
               r == SubSeq(s, k + 1, Len(s))
    <3>1. Qreg' = [Qreg EXCEPT ![q] = r] /\ UNCHANGED Lreg
      BY <1>0, <2>3, <3>0 DEF Pop
    <3>2. k \in Nat /\ k <= Len(s) /\ Len(s) \in Nat /\ s \in Seq(Tasks)
      BY <1>0, SchedulerAssumption
    <3>3. r \in Seq(Tasks) /\ Len(r) <= Len(s)
      <4> HIDE DEF s, k
      <4>1. \A i \in k + 1 .. Len(s) : s[i] \in Tasks
        BY <3>2
      <4>2. k + 1 \in Int /\ Len(s) \in Int
        BY <3>2
      <4>3. /\ r \in Seq(Tasks)
            /\ Len(r) = IF k + 1 <= Len(s) THEN Len(s) - (k + 1) + 1 ELSE 0
        BY <4>1, <4>2, SubSeqProperties
      <4> HIDE DEF r
      <4> QED
        BY <3>2, <4>3
    <3>4. Len(s) <= Qreg_capacity
      BY <1>0 DEF Sizes
    <3> HIDE DEF r, s
    <3>5. Len(r) <= Qreg_capacity
      <4>1. Len(r) \in Nat
        BY <3>3
      <4> QED
        BY <1>0, <3>2, <3>3, <3>4, <4>1
    <3> QED
      BY <2>1, <3>1, <3>3, <3>5
  <2>4. CASE SpawnRoot(c)
    <3>0. PICK q \in Queries : q = cur_qid[c]
      BY <2>4 DEF SpawnRoot, P!AddRootTask, IInv, PP!IInv, PP!Spawning
    <3>1. Qreg[q] = <<>>
      BY <2>4, <3>0, NoTaskBeforeRoot DEF SpawnRoot
    <3>2. NextTaskID \in Tasks
      BY <2>4, NextTaskIDNew DEF SpawnRoot
    <3>3. /\ Append(Qreg[q], NextTaskID) \in Seq(Tasks)
          /\ Len(Append(Qreg[q], NextTaskID)) <= Qreg_capacity
      BY <1>0, <3>1, <3>2
    <3>4. /\ Qreg' = [Qreg EXCEPT ![q] = Append(Qreg[q], NextTaskID)]
          /\ UNCHANGED Lreg
      BY <1>0, <2>4, <3>0 DEF SpawnRoot
    <3> QED
      BY <2>1, <3>3, <3>4
  <2>5. CASE Push(c)
    <3>0. PICK q \in Queries : q = Tc(c)
      BY <2>5, ContainerOf DEF Push, Pushing
    <3>1. /\ Qreg' = [Qreg EXCEPT ![q] = Append(Qreg[q], Head(inhand[c]))]
          /\ Len(Qreg[q]) < Qreg_capacity /\ UNCHANGED Lreg
      BY <1>0, <2>5, <3>0 DEF Push
    <3>2. Head(inhand[c]) \in Tasks
      BY <2>5 DEF Push, IInv, QueueTypes, Control, ControlOf, Pushing
    <3>3. /\ Append(Qreg[q], Head(inhand[c])) \in Seq(Tasks)
          /\ Len(Append(Qreg[q], Head(inhand[c]))) = Len(Qreg[q]) + 1
      BY <1>0, <3>2, AppendProperties
    <3>4. Len(Qreg[q]) + 1 <= Qreg_capacity
      BY <1>0, <3>1
    <3> QED
      BY <2>1, <3>1, <3>3, <3>4
  <2>6. CASE Spill(c)
    <3>0. PICK q \in Queries : q = Tc(c)
      BY <2>6, ContainerOf DEF Spill, Pushing
    <3> DEFINE s == Qreg[q]
               keep == IF Len(s) < RT_TASKS_PER_FILE THEN 0
                       ELSE Len(s) - RT_TASKS_PER_FILE
               r == SubSeq(s, 1, keep)
    <3>1. Qreg' = [Qreg EXCEPT ![q] = r] /\ UNCHANGED Lreg
      BY <1>0, <2>6, <3>0 DEF Spill
    <3>2. keep \in Nat /\ keep <= Len(s) /\ Len(s) \in Nat /\ s \in Seq(Tasks)
      BY <1>0, SchedulerAssumption
    <3>3. r \in Seq(Tasks) /\ Len(r) <= Len(s)
      <4> HIDE DEF s, keep
      <4>1. \A i \in 1 .. keep : s[i] \in Tasks
        BY <3>2
      <4>2. 1 \in Int /\ keep \in Int
        BY <3>2
      <4>3. /\ r \in Seq(Tasks)
            /\ Len(r) = IF 1 <= keep THEN keep - 1 + 1 ELSE 0
        BY <4>1, <4>2, SubSeqProperties
      <4> HIDE DEF r
      <4> QED
        BY <3>2, <4>3
    <3>4. Len(s) <= Qreg_capacity
      BY <1>0 DEF Sizes
    <3> HIDE DEF r, s
    <3>5. Len(r) <= Qreg_capacity
      <4>1. Len(r) \in Nat
        BY <3>3
      <4> QED
        BY <1>0, <3>2, <3>3, <3>4, <4>1
    <3> QED
      BY <2>1, <3>1, <3>3, <3>5
  <2>7. CASE WriteFile(c)
    <3>0. PICK q \in Queries : q = Tc(c)
      BY <2>7, ContainerOf DEF WriteFile, Pushing
    <3>1. /\ Lreg' = [Lreg EXCEPT ![q] = Append(Lreg[q], spillbuf[c])]
          /\ UNCHANGED Qreg /\ spillbuf[c] # <<>>
      BY <1>0, <2>7, <3>0 DEF WriteFile, IInv, Control, ControlOf
    <3>2. /\ Lreg[q] \in Seq(Seq(Tasks)) /\ spillbuf[c] \in Seq(Tasks)
          /\ Len(Lreg[q]) \in Nat
      BY <1>0 DEF IInv, QueueTypes
    <3>3. /\ Len(Append(Lreg[q], spillbuf[c])) = Len(Lreg[q]) + 1
          /\ \A i \in 1 .. Len(Lreg[q]) : Append(Lreg[q], spillbuf[c])[i] = Lreg[q][i]
          /\ Append(Lreg[q], spillbuf[c])[Len(Lreg[q]) + 1] = spillbuf[c]
      BY <3>2, AppendProperties
    <3>4. \A i \in 1 .. Len(Append(Lreg[q], spillbuf[c])) :
             i \in 1 .. Len(Lreg[q]) \/ i = Len(Lreg[q]) + 1
      BY <3>2, <3>3
    <3>5. \A i \in 1 .. Len(Append(Lreg[q], spillbuf[c])) :
             Append(Lreg[q], spillbuf[c])[i] # <<>>
      BY <1>0, <3>1, <3>3, <3>4 DEF Sizes
    <3> QED
      BY <1>0, <3>1, <3>5 DEF Sizes
  <2>8. CASE RunLoop(c) \/ EndOfList(c) \/ LockReg(c) \/ CheckSize(c)
             \/ LockFetch(c) \/ StartTask(c) \/ BatchDone(c) \/ SplitTask(c)
             \/ Backtrack(c) \/ RemoveQuery(c) \/ LockPush(c)
    BY <1>1, <2>8 DEF RunLoop, EndOfList, LockReg, CheckSize, LockFetch,
         AcquireOrSkip, StartTask, BatchDone, SplitTask, Backtrack, RemoveQuery,
         LockPush
  <2>9. CASE CheckQueries(c) \/ ReserveSlot(c) \/ Dequeue(c)
             \/ PublishQuery(c) \/ Sleep(c) \/ WakeUp(c)
    BY <1>1, <2>9 DEF CheckQueries, ReserveSlot, Dequeue, PublishQuery, Sleep,
         WakeUp
  <2> QED
    BY <1>3, <2>2, <2>3, <2>4, <2>5, <2>6, <2>7, <2>8, <2>9 DEF Comper
<1> QED
  BY <1>2, <1>3 DEF Next

-----------------------------------------------------------------------------
(* The invariant                                                           *)

LEMMA InitIInv == Init => IInv
<1> SUFFICES ASSUME Init PROVE IInv
  OBVIOUS
<1>0. /\ query_que = <<>> /\ activeQ_list = <<>> /\ activeQ_num = 0
      /\ Qreg = [q \in Queries |-> <<>>] /\ Lreg = [q \in Queries |-> <<>>]
      /\ spc = [c \in Compers |-> "run"] /\ it = [c \in Compers |-> 1]
      /\ refilled = [c \in Compers |-> FALSE]
      /\ collector = [c \in Compers |-> <<>>]
      /\ inhand = [c \in Compers |-> <<>>]
      /\ spillbuf = [c \in Compers |-> <<>>]
      /\ global_num_idle = 0 /\ wpc = "recv" /\ sent = {} /\ inbox = <<>>
      /\ server_exit = FALSE /\ global_end_label = FALSE /\ ready_go = TRUE
  BY DEF Init
<1>1. PP!IInv
  BY InitSame DEF Init
<1>2. /\ pc = [c \in Compers |-> "free"] /\ pending = {}
      /\ qstate = [q \in Queries |-> "waiting"]
  BY DEF Init, P!Init
<1>3. /\ 0 \in 0 .. Cardinality(Compers) /\ Idlers = {} /\ Reserving = {}
      /\ Cardinality({}) = 0 /\ activeQ_list_capacity \in Nat
  <2>1. Cardinality(Compers) \in Nat
    BY FS_CardinalityType, SchedulerAssumption
  <2> QED
    BY <1>0, <2>1, FS_EmptySet, SchedulerAssumption DEF Idlers, Reserving
<1>4. QueueTypes
  <2>1. \A S : <<>> \in Seq(S)
    OBVIOUS
  <2>2. /\ Qreg \in [Queries -> Seq(Tasks)]
        /\ Lreg \in [Queries -> Seq(Seq(Tasks))]
        /\ collector \in [Compers -> Seq(Tasks)]
        /\ inhand \in [Compers -> Seq(Tasks)]
        /\ spillbuf \in [Compers -> Seq(Tasks)]
    BY <1>0, <2>1
  <2>3. /\ spc \in [Compers -> SPCs] /\ it \in [Compers -> Nat \ {0}]
        /\ refilled \in [Compers -> BOOLEAN] /\ wpc \in WPCs
    BY <1>0 DEF SPCs, WPCs
  <2>4. /\ inbox \in Seq(sent) /\ query_que \in Seq(Queries)
        /\ activeQ_list \in Seq(Queries)
    BY <1>0, <2>1
  <2> QED
    BY <1>0, <1>3, <2>2, <2>3, <2>4 DEF QueueTypes
<1>5. Control
  BY <1>0, <1>2 DEF Control, ControlOf, Pushing, Scanning
<1>6. Listed
  BY <1>0, <1>2, EmptyElements DEF Listed
<1>7. Slots /\ IdleCounted
  BY <1>0, <1>3 DEF Slots, IdleCounted
<1>8. Sizes
  BY <1>0, SchedulerAssumption DEF Sizes
<1>9. Parts
  <2>1. HeldIs
    BY <1>4, HeldValues
  <2>2. \A d \in Places : Held[d] = {}
    BY <1>0, <2>1, EmptyElements DEF HeldIs, Places
  <2> QED
    BY <1>2, <2>1, <2>2 DEF Parts, Partition, HeldIs
<1>10. Owned
  <2>1. \A q \in Queries : QueryOwns(q)
    BY <1>0, EmptyElements DEF QueryOwns
  <2>2. ASSUME NEW c \in Compers PROVE ComperOwns(c)
    BY <1>0, EmptyElements DEF ComperOwns
  <2> QED
    BY <2>1, <2>2 DEF Owned
<1> QED
  BY <1>1, <1>4, <1>5, <1>6, <1>7, <1>8, <1>9, <1>10 DEF IInv

LEMMA NextIInv == IInv /\ [Next]_vars => IInv'
<1> SUFFICES ASSUME IInv, [Next]_vars PROVE IInv'
  OBVIOUS
<1>1. PP!IInv'
  <2>1. TypeOK
    BY SameTypes DEF IInv, PP!IInv, TypeOK
  <2>2. [P!Next]_(P!vars)
    BY <2>1, StepImplements
  <2> QED
    BY <2>2, StepSame DEF IInv
<1>2. QueueTypes' /\ Control' /\ Listed' /\ Slots' /\ IdleCounted' /\ Sizes'
  BY TypesStep, ControlStep, ListedStep, SlotsStep, IdleStep, SizesStep
<1>3. Parts' /\ Owned'
  BY WaitingStep
<1> QED
  BY <1>1, <1>2, <1>3 DEF IInv

THEOREM Invariance ==
  Spec => []IInv
<1> QED
  BY InitIInv, NextIInv, PTL DEF Spec

\* Neither the deque of a query nor the list of active queries outgrows its
\* capacity: spill_Qreg makes room before the push, and a comper reserves a
\* place in the list before it takes a query to spawn.
THEOREM NothingOverflows ==
  Spec => []CapacitiesRespected
<1>1. IInv => CapacitiesRespected
  <2> SUFFICES ASSUME IInv PROVE CapacitiesRespected
    OBVIOUS
  <2> DEFINE Spawners == {c \in Compers : spc[c] = "spawn"}
  <2>1. Spawners \subseteq Reserving
    BY DEF Reserving
  <2>2. /\ Cardinality(Spawners) \in Nat /\ Cardinality(Reserving) \in Nat
        /\ Cardinality(Spawners) <= Cardinality(Reserving)
    BY <2>1, ReservingFinite, FS_Subset, FS_CardinalityType
  <2>3. /\ Len(activeQ_list) \in Nat /\ activeQ_num \in Nat
        /\ activeQ_list_capacity \in Nat
    BY SchedulerAssumption DEF IInv, QueueTypes
  <2>4. Len(activeQ_list) + Cardinality(Spawners) <= activeQ_list_capacity
    <3> HIDE DEF Spawners
    <3> QED
      BY <2>2, <2>3 DEF IInv, Slots
  <2> QED
    BY <2>4 DEF IInv, Sizes, CapacitiesRespected
<1> QED
  BY <1>1, Invariance, PTL

LEMMA SequenceTerms ==
  ASSUME NEW S, NEW s \in Seq(S)
  PROVE  (IsInjective(s) <=> Distinct(s)) /\ ToSet(s) = Elements(s)
BY DEF IsInjective, Distinct, ToSet, Elements

\* A comper touches the container of a query only while the query is in the
\* list, although backtrack() deletes it under a lock of its own.
THEOREM ContainerOutlivesItsUsers ==
  Spec => []ContainerAlive
<1>1. IInv => ContainerAlive
  <2> SUFFICES ASSUME IInv PROVE ContainerAlive
    OBVIOUS
  <2>1. TypeOK
    BY SameTypes DEF IInv, PP!IInv, TypeOK
  <2>2. /\ activeQ_list \in Seq(Queries)
        /\ \A c \in Compers : collector[c] \in Seq(Tasks)
    BY DEF IInv, QueueTypes
  <2>3. /\ IsInjective(activeQ_list)
        /\ ToSet(activeQ_list) = {q \in Queries : qstate[q] = "active"}
    BY <2>2, SequenceTerms DEF IInv, Listed
  <2>4. \A c \in Compers : Scanning(c) /\ spc[c] # "next" =>
           it[c] \in 1 .. Len(activeQ_list)
    BY DEF IInv, Control, ControlOf
  <2>5. \A c \in Compers : spc[c] \in {"push", "pushing", "spill"} =>
           qstate[Tc(c)] = "active"
    BY ContainerOf DEF Pushing
  <2>6. \A c \in Compers : \A t \in ToSet(collector[c]) :
           qstate[query_id[t]] = "active"
    BY <2>2, SequenceTerms DEF IInv, Owned, ComperOwns
  <2> QED
    BY <2>1, <2>3, <2>4, <2>5, <2>6 DEF ContainerAlive
<1> QED
  BY <1>1, Invariance, PTL

\* Through batches, pushes, spills and refills a task that waits is at one
\* place, once, and at a place of its own query.
THEOREM TasksAreConserved ==
  Spec => []NoTaskLostOrDuplicated
<1>1. IInv => NoTaskLostOrDuplicated
  <2> SUFFICES ASSUME IInv PROVE NoTaskLostOrDuplicated
    OBVIOUS
  <2>0. QueueTypes /\ HeldIs
    BY HeldValues DEF IInv
  <2>1. ASSUME NEW b \in Boxes
        PROVE  /\ b \in Places /\ Held[b] = Elements(TasksIn(b))
               /\ TasksIn(b) \in Seq(Tasks) /\ Distinct(TasksIn(b))
               /\ \A t \in Elements(TasksIn(b)) :
                     b[1] # "collector" => query_id[t] = QueryOf(b)
    <3>1. CASE \E q \in Queries : b = InQreg(q)
      <4>1. PICK q \in Queries : b = InQreg(q)
        BY <3>1
      <4>2. TasksIn(b) = Qreg[q] /\ QueryOf(b) = q
        BY <4>1 DEF TasksIn, QueryOf, InQreg
      <4> QED
        BY <2>0, <4>1, <4>2 DEF IInv, Owned, QueryOwns, HeldIs, QueueTypes, Places
    <3>2. CASE \E q \in Queries : \E j \in DOMAIN Lreg[q] : b = InLreg(q, j)
      <4>0. PICK q \in Queries : \E j \in DOMAIN Lreg[q] : b = InLreg(q, j)
        BY <3>2
      <4>1. PICK j \in DOMAIN Lreg[q] : b = InLreg(q, j)
        BY <4>0
      <4>2. TasksIn(b) = Lreg[q][j] /\ QueryOf(b) = q
        BY <4>1 DEF TasksIn, QueryOf, InLreg
      <4>3. /\ j \in 1 .. Len(Lreg[q]) /\ Lreg[q] \in Seq(Seq(Tasks))
            /\ j \in Nat \ {0} /\ Lreg[q][j] \in Seq(Tasks)
        BY <2>0 DEF QueueTypes
      <4> QED
        BY <2>0, <4>1, <4>2, <4>3 DEF IInv, Owned, QueryOwns, HeldIs, Places
    <3>3. CASE \E c \in Compers : b = InCollector(c)
      <4>1. PICK c \in Compers : b = InCollector(c)
        BY <3>3
      <4>2. TasksIn(b) = collector[c] /\ b[1] = "collector"
        BY <4>1 DEF TasksIn, InCollector
      <4> QED
        BY <2>0, <4>1, <4>2 DEF IInv, Owned, ComperOwns, HeldIs, QueueTypes, Places
    <3>4. CASE \E c \in Compers : b = InInhand(c)
      <4>1. PICK c \in Compers : b = InInhand(c)
        BY <3>4
      <4>2. TasksIn(b) = inhand[c] /\ QueryOf(b) = Tc(c)
        BY <4>1 DEF TasksIn, QueryOf, InInhand
      <4> QED
        BY <2>0, <4>1, <4>2 DEF IInv, Owned, ComperOwns, HeldIs, QueueTypes, Places
    <3>5. CASE \E c \in Compers : b = InSpillbuf(c)
      <4>1. PICK c \in Compers : b = InSpillbuf(c)
        BY <3>5
      <4>2. TasksIn(b) = spillbuf[c] /\ QueryOf(b) = Tc(c)
        BY <4>1 DEF TasksIn, QueryOf, InSpillbuf
      <4> QED
        BY <2>0, <4>1, <4>2 DEF IInv, Owned, ComperOwns, HeldIs, QueueTypes, Places
    <3>6. \/ \E q \in Queries : b = InQreg(q)
          \/ \E q \in Queries : \E j \in DOMAIN Lreg[q] : b = InLreg(q, j)
          \/ \E c \in Compers : \/ b = InCollector(c) \/ b = InInhand(c)
                                \/ b = InSpillbuf(c)
      BY DEF Boxes, InQreg, InLreg, InCollector, InInhand, InSpillbuf
    <3> QED
      BY <3>1, <3>2, <3>3, <3>4, <3>5, <3>6
  <2>2. \A b \in Boxes : IsInjective(TasksIn(b)) /\ ToSet(TasksIn(b)) = Held[b]
    BY <2>1, SequenceTerms
  <2>3. \A a, b \in Boxes : a # b =>
           ToSet(TasksIn(a)) \cap ToSet(TasksIn(b)) = {}
    BY <2>0, <2>1, <2>2 DEF IInv, Parts, Partition, HeldIs
  <2>4. UNION {ToSet(TasksIn(b)) : b \in Boxes} = pending
    <3>1. \A b \in Boxes : Held[b] \subseteq pending
      BY <2>0, <2>1 DEF IInv, Parts, Partition, HeldIs
    <3>2. ASSUME NEW t \in pending PROVE \E b \in Boxes : t \in Held[b]
      <4>1. PICK b \in Places : t \in Held[b]
        BY <2>0 DEF IInv, Parts, Partition, HeldIs
      <4>2. b \in Boxes
        BY <4>1 DEF Held
      <4> QED
        BY <4>1, <4>2
    <3> QED
      BY <2>2, <3>1, <3>2
  <2>5. \A b \in Boxes : \A t \in ToSet(TasksIn(b)) :
           b[1] # "collector" => query_id[t] = QueryOf(b)
    BY <2>1, SequenceTerms
  <2>6. \A c \in Compers : \A t, u \in ToSet(collector[c]) :
           query_id[t] = query_id[u]
    <3>1. \A c \in Compers : collector[c] \in Seq(Tasks)
      BY <2>0 DEF QueueTypes
    <3> QED
      BY <3>1, SequenceTerms DEF IInv, Owned, ComperOwns
  <2> QED
    BY <2>2, <2>3, <2>4, <2>5, <2>6 DEF NoTaskLostOrDuplicated
<1> QED
  BY <1>1, Invariance, PTL

\* When backtrack() removes a query and deletes its container, nothing of the
\* query is left in its queues or in a comper's hands, and nothing is computed.
THEOREM NothingIsLeftBehind ==
  Spec => []NothingLeftBehind
<1>1. ASSUME IInv, NoTaskLostOrDuplicated PROVE NothingLeftBehind
  <2>1. /\ \A t \in born : qstate[query_id[t]] = "done" =>
               t \in settled /\ completed[t] /\ t \notin pending
        /\ \A c \in Compers : pc[c] = "compute" => qstate[cur_qid[c]] = "active"
    BY <1>1, PP!FinishedInTime, SchedulerAssumption
       DEF IInv, PP!NoTaskAssumption, PP!NoEarlyFinish
  <2>2. \A b \in Boxes : \A t \in ToSet(TasksIn(b)) : t \in pending /\ t \in born
    BY <1>1 DEF NoTaskLostOrDuplicated, IInv, PP!IInv, PP!Membership
  <2>3. ASSUME NEW q \in Queries, qstate[q] = "done",
               NEW b \in Boxes, NEW t \in ToSet(TasksIn(b))
        PROVE  query_id[t] # q
    BY <2>1, <2>2, <2>3
  <2>4. ASSUME NEW q \in Queries, qstate[q] = "done" PROVE Qreg[q] = <<>>
    <3>1. /\ Qreg[q] \in Seq(Tasks)
          /\ \A t \in Elements(Qreg[q]) : query_id[t] = q
      BY <1>1 DEF IInv, QueueTypes, Owned, QueryOwns
    <3>2. InQreg(q) \in Boxes /\ TasksIn(InQreg(q)) = Qreg[q]
      BY DEF InQreg, Boxes, TasksIn
    <3>3. Elements(Qreg[q]) = {}
      BY <2>3, <2>4, <3>1, <3>2, SequenceTerms
    <3>4. Qreg[q] # <<>> => Head(Qreg[q]) \in Elements(Qreg[q])
      BY <3>1, HeadTailElements
    <3> QED
      BY <3>3, <3>4
  <2>5. ASSUME NEW q \in Queries, qstate[q] = "done" PROVE Lreg[q] = <<>>
    <3>1. Lreg[q] \in Seq(Seq(Tasks))
      BY <1>1 DEF IInv, QueueTypes
    <3>2. SUFFICES ASSUME Lreg[q] # <<>> PROVE FALSE
      OBVIOUS
    <3>3. 1 \in DOMAIN Lreg[q] /\ Lreg[q][1] # <<>> /\ Lreg[q][1] \in Seq(Tasks)
      BY <1>1, <3>1, <3>2 DEF IInv, Sizes
    <3>4. \A t \in Elements(Lreg[q][1]) : query_id[t] = q
      BY <1>1, <3>1, <3>3 DEF IInv, Owned, QueryOwns
    <3>5. InLreg(q, 1) \in Boxes /\ TasksIn(InLreg(q, 1)) = Lreg[q][1]
      BY <3>3 DEF InLreg, Boxes, TasksIn
    <3>6. Elements(Lreg[q][1]) = {}
      BY <2>3, <2>5, <3>3, <3>4, <3>5, SequenceTerms
    <3>7. Lreg[q][1][1] \in Elements(Lreg[q][1])
      BY <3>3 DEF Elements
    <3> QED
      BY <3>6, <3>7
  <2> QED
    BY <2>1, <2>3, <2>4, <2>5 DEF NothingLeftBehind
<1> QED
  BY <1>1, Invariance, TasksAreConserved, PTL

-----------------------------------------------------------------------------
(***************************************************************************)
(* The end of the engine: what it means that every comper sleeps, and what *)
(* is left when the worker sets the end label.                             *)
(*                                                                         *)
(* A comper may skip a query whose lock it cannot take, and a query of     *)
(* which no comper takes notice is not looked at again before the next     *)
(* scan.  Only the last query of the list is never skipped: while a task   *)
(* of it waits, some comper has yet to come past it (Watched).  So when    *)
(* all of them sleep there is no such task, the query would be done, and   *)
(* the list is empty.                                                      *)
(*                                                                         *)
(* This fails for a query to which task_spawn gives no task: it stays in   *)
(* the list for good, and at its end it takes the place of the query that  *)
(* is not skipped.  The theorems are about engines without such queries.   *)
(***************************************************************************)
(* The inductive invariant                                                 *)

Hindmost == activeQ_list[Len(activeQ_list)]

\* A comper that will begin a scan before it can sleep.
Fresh(c) == \/ spc[c] \in {"run", "batch", "spawn"}
            \/ Pushing(c) /\ pc[c] # "free"

\* A comper that scans and has not left the last query behind; one that will
\* look for a task there, and one that will also look for a spill file or has
\* found one.
Before(c) == Scanning(c) /\ it[c] < Len(activeQ_list)
At(c) == Scanning(c) /\ it[c] = Len(activeQ_list)
WillPop(c) == Fresh(c) \/ Before(c) \/ At(c)
WillRefill(c) ==
  \/ Fresh(c) \/ Before(c)
  \/ At(c) /\ (spc[c] \in {"next", "size", "refill"} \/ refilled[c])

Watched ==
  activeQ_list # <<>> /\ ~ global_end_label =>
     /\ Qreg[Hindmost] # <<>> => \E c \in Compers : WillPop(c)
     /\ Lreg[Hindmost] # <<>> =>
          Qreg[Hindmost] # <<>> \/ \E c \in Compers : WillRefill(c)

Rooted == \A q \in Queries \ NoResult : qstate[q] = "active" => P!HasRoot(q)

\* A query that has tasks is spawned by a comper, is in the list or is done.
Spawned ==
  /\ \A t \in born : qstate[query_id[t]] # "waiting"
  /\ \A q \in Queries : qstate[q] = "spawning" =>
        \E c \in Compers : pc[c] = "spawn" /\ cur_qid[c] = q

Asleep(c) == spc[c] \in {"wait", "woken"}

Ended ==
  /\ wpc = "end" => query_que = <<>>
  /\ global_end_label =>
       /\ wpc = "exit" /\ prog_map = {} /\ pending = {}
       /\ query_que = <<>> /\ activeQ_list = <<>>
       /\ \A c \in Compers : spc[c] \in {"wait", "woken", "run", "exit"}

-----------------------------------------------------------------------------
(* The last query of the list                                              *)

LEMMA LastQuery ==
  ASSUME IInv, activeQ_list # <<>>
  PROVE  /\ Len(activeQ_list) \in Nat \ {0}
         /\ Hindmost \in Queries /\ qstate[Hindmost] = "active"
         /\ \A i \in 1 .. Len(activeQ_list) :
               activeQ_list[i] = Hindmost => i = Len(activeQ_list)
<1>1. activeQ_list \in Seq(Queries) /\ Len(activeQ_list) \in Nat \ {0}
  BY EmptySeq DEF IInv, QueueTypes
<1>2. Len(activeQ_list) \in 1 .. Len(activeQ_list)
  BY <1>1
<1>3. Hindmost \in Elements(activeQ_list)
  BY <1>2 DEF Hindmost, Elements
<1> QED
  BY <1>1, <1>2, <1>3 DEF IInv, Listed, Distinct, Hindmost

\* A comper is at the last query exactly if that is its container.
LEMMA AtLast ==
  ASSUME IInv, activeQ_list # <<>>, NEW c \in Compers, Scanning(c),
         spc[c] # "next"
  PROVE  /\ it[c] \in 1 .. Len(activeQ_list)
         /\ Tc(c) = Hindmost <=> it[c] = Len(activeQ_list)
<1>1. it[c] \in 1 .. Len(activeQ_list)
  BY DEF IInv, Control, ControlOf
<1>2. Tc(c) = activeQ_list[it[c]]
  BY DEF Tc
<1> QED
  BY <1>1, <1>2, LastQuery DEF Hindmost

\* The other compers stay where they are.
LEMMA OthersWatch ==
  ASSUME IInv, NEW c \in Compers, Comper(c), UNCHANGED activeQ_list,
         NEW d \in Compers \ {c}
  PROVE  WillPop(d)' = WillPop(d) /\ WillRefill(d)' = WillRefill(d)
<1>1. Fresh(d)' = Fresh(d)
  BY OthersSame DEF Fresh, Pushing
<1>2. Before(d)' = Before(d) /\ At(d)' = At(d)
  BY OthersSame DEF Before, At, Scanning
<1> QED
  BY <1>1, <1>2, OthersSame DEF WillPop, WillRefill

\* What the step of a comper has to respect: if it was the one to look after
\* the last query it still is, or there is nothing left to look after, and if
\* there is something new it is the one.
Respects(c) ==
  /\ WillPop(c) => WillPop(c)' \/ Qreg'[Hindmost] = <<>>
  /\ WillRefill(c) =>
       WillRefill(c)' \/ Qreg'[Hindmost] # <<>> \/ Lreg'[Hindmost] = <<>>
  /\ Qreg[Hindmost] = <<>> /\ Qreg'[Hindmost] # <<>> => WillPop(c)'
  /\ Qreg[Hindmost] # <<>> /\ Qreg'[Hindmost] = <<>> => WillRefill(c)'
  /\ Lreg[Hindmost] = <<>> /\ Lreg'[Hindmost] # <<>> => WillRefill(c)'

LEMMA RespectIsEnough ==
  ASSUME IInv, Watched, NEW c \in Compers, Comper(c), activeQ_list # <<>>,
         UNCHANGED <<activeQ_list, global_end_label>>, Respects(c)
  PROVE  Watched'
<1> SUFFICES ASSUME ~ global_end_label
             PROVE  /\ Qreg'[Hindmost] # <<>> => \E d \in Compers : WillPop(d)'
                    /\ Lreg'[Hindmost] # <<>> =>
                         \/ Qreg'[Hindmost] # <<>>
                         \/ \E d \in Compers : WillRefill(d)'
  BY DEF Watched, Hindmost
<1>1. ASSUME Qreg'[Hindmost] # <<>> PROVE \E d \in Compers : WillPop(d)'
  <2>1. CASE Qreg[Hindmost] = <<>>
    BY <1>1, <2>1 DEF Respects
  <2>2. CASE Qreg[Hindmost] # <<>>
    <3>1. PICK d \in Compers : WillPop(d)
      BY <2>2 DEF Watched
    <3> QED
      BY <1>1, <3>1, OthersWatch DEF Respects
  <2> QED
    BY <2>1, <2>2
<1>2. ASSUME Lreg'[Hindmost] # <<>>, Qreg'[Hindmost] = <<>>
      PROVE  \E d \in Compers : WillRefill(d)'
  <2>1. CASE Lreg[Hindmost] = <<>> \/ Qreg[Hindmost] # <<>>
    BY <1>2, <2>1 DEF Respects
  <2>2. CASE Lreg[Hindmost] # <<>> /\ Qreg[Hindmost] = <<>>
    <3>1. PICK d \in Compers : WillRefill(d)
      BY <2>2 DEF Watched
    <3> QED
      BY <1>2, <3>1, OthersWatch DEF Respects
  <2> QED
    BY <2>1, <2>2
<1> QED
  BY <1>1, <1>2

\* A comper that begins a scan will do everything.
LEMMA FreshDoes ==
  ASSUME NEW c, Fresh(c)' PROVE WillPop(c)' /\ WillRefill(c)'
BY DEF WillPop, WillRefill

\* A comper that leaves the queues alone, comes no further in the list and
\* goes on to look for a file if it has to.
LEMMA StaysRespectful ==
  ASSUME NEW c, UNCHANGED queues, UNCHANGED activeQ_list,
         WillPop(c) => WillPop(c)',
         WillRefill(c) => WillRefill(c)' \/ Qreg[Hindmost] # <<>>
  PROVE  Respects(c)
BY DEF Respects, queues

LEMMA ActionsRespect ==
  ASSUME IInv, NEW c \in Compers, Comper(c), activeQ_list # <<>>,
         UNCHANGED activeQ_list, ~ global_end_label
  PROVE  Respects(c)
<1>0. /\ spc \in [Compers -> SPCs] /\ it \in [Compers -> Nat \ {0}]
      /\ DOMAIN refilled = Compers /\ DOMAIN pc = Compers
      /\ Len(activeQ_list) \in Nat \ {0}
      /\ Hindmost \in Queries /\ qstate[Hindmost] = "active"
      /\ Qreg \in [Queries -> Seq(Tasks)] /\ Lreg \in [Queries -> Seq(Seq(Tasks))]
      /\ RT_THRESHOLD_FOR_REFILL \in Nat \ {0}
  BY LastQuery, SchedulerAssumption DEF IInv, QueueTypes, PP!IInv, PP!TypeOK
<1> USE <1>0
<1> USE DEF Goto, NextQuery, progState
<1>1. CASE RunLoop(c)
  <2>1. /\ spc' = [spc EXCEPT ![c] = "next"] /\ it' = [it EXCEPT ![c] = 1]
        /\ UNCHANGED queues
    BY <1>1 DEF RunLoop
  <2>2. spc'[c] = "next" /\ it'[c] = 1
    BY <2>1
  <2>3. Before(c)' \/ At(c)'
    <3>1. Len(activeQ_list') = Len(activeQ_list)
      OBVIOUS
    <3>2. \A n \in Nat \ {0} : 1 < n \/ 1 = n
      OBVIOUS
    <3>3. 1 < Len(activeQ_list') \/ 1 = Len(activeQ_list')
      BY <3>1, <3>2, Zenon
    <3> QED
      BY <2>2, <3>3 DEF Before, At, Scanning
  <2>4. WillPop(c)' /\ WillRefill(c)'
    BY <2>2, <2>3 DEF WillPop, WillRefill
  <2> QED
    BY <2>1, <2>4, StaysRespectful
<1>2. CASE EndOfList(c) \/ CheckQueries(c) \/ ReserveSlot(c) \/ Dequeue(c)
           \/ Sleep(c) \/ WakeUp(c)
  <2>1. UNCHANGED queues
    BY <1>2 DEF EndOfList, CheckQueries, ReserveSlot, Dequeue, Sleep, WakeUp
  <2>2. \/ spc[c] = "next" /\ it[c] > Len(activeQ_list)
        \/ spc[c] \in {"queries", "slot", "deq", "notfound", "woken"}
    BY <1>2 DEF EndOfList, CheckQueries, ReserveSlot, Dequeue, Sleep, WakeUp
  <2>3. ~ WillPop(c) /\ ~ WillRefill(c)
    BY <2>2 DEF WillPop, WillRefill, Fresh, Before, At, Scanning, Pushing
  <2> QED
    BY <2>1, <2>3, StaysRespectful
<1>3. CASE LockReg(c)
  <2>1. /\ UNCHANGED queues /\ spc[c] = "next" /\ it[c] <= Len(activeQ_list)
        /\ \/ spc'[c] = "size" /\ it'[c] = it[c]
           \/ spc'[c] = "next" /\ it'[c] = it[c] + 1 /\ it[c] # Len(activeQ_list)
    BY <1>3 DEF LockReg, AcquireOrSkip, IsLast
  <2>2. Before(c)' \/ At(c)'
    BY <2>1 DEF Before, At, Scanning
  <2>3. WillPop(c)' /\ WillRefill(c)'
    BY <2>1, <2>2 DEF WillPop, WillRefill
  <2> QED
    BY <2>1, <2>3, StaysRespectful
<1>4. CASE CheckSize(c)
  <2>1. /\ UNCHANGED <<queues, it, pc>> /\ spc[c] = "size"
        /\ spc'[c] = IF Len(Qreg[Tc(c)]) < RT_THRESHOLD_FOR_REFILL
                       THEN "refill" ELSE "fetch"
    BY <1>4 DEF CheckSize, scan
  <2>2. Scanning(c) /\ Scanning(c)'
    BY <2>1 DEF Scanning
  <2>3. WillPop(c) => WillPop(c)'
    BY <2>1, <2>2 DEF WillPop, Before, At, Fresh, Pushing
  <2>4. WillRefill(c) => WillRefill(c)' \/ Qreg[Hindmost] # <<>>
    <3>1. CASE At(c)
      <4>1. Tc(c) = Hindmost
        BY <2>1, <2>2, <3>1, AtLast DEF At
      <4>2. Qreg[Hindmost] = <<>> => spc'[c] = "refill"
        BY <2>1, <4>1
      <4> QED
        BY <2>1, <2>2, <3>1, <4>2 DEF WillRefill, At
    <3>2. CASE ~ At(c)
      BY <2>1, <2>2, <3>2 DEF WillRefill, Before, At, Fresh, Pushing
    <3> QED
      BY <3>1, <3>2
  <2> QED
    BY <2>1, <2>3, <2>4, StaysRespectful
<1>5. CASE LockFetch(c)
  <2>1. /\ UNCHANGED <<queues, pc, refilled>> /\ spc[c] = "fetch"
        /\ \/ spc'[c] = "pop" /\ it'[c] = it[c]
           \/ spc'[c] = "next" /\ it'[c] = it[c] + 1 /\ it[c] # Len(activeQ_list)
    BY <1>5 DEF LockFetch, AcquireOrSkip, IsLast
  <2>2. Scanning(c) /\ Scanning(c)'
    BY <2>1 DEF Scanning
  <2>3. it[c] \in 1 .. Len(activeQ_list)
    BY <2>1, <2>2, AtLast
  <2>4. \/ spc'[c] = "pop" /\ Before(c)' = Before(c) /\ At(c)' = At(c)
        \/ spc'[c] = "next" /\ (Before(c)' \/ At(c)')
    BY <2>1, <2>2, <2>3 DEF Before, At
  <2>5. WillPop(c)' /\ (WillRefill(c) => WillRefill(c)')
    BY <2>1, <2>2, <2>3, <2>4 DEF WillPop, WillRefill, Before, At, Fresh, Pushing
  <2> QED
    BY <2>1, <2>5, StaysRespectful
<1>6. CASE StartTask(c) \/ BatchDone(c) \/ SplitTask(c)
  <2>1. UNCHANGED queues /\ Fresh(c)'
    BY <1>6 DEF StartTask, BatchDone, SplitTask, P!AddTask, P!comperVars,
         Fresh, Pushing
  <2> QED
    BY <2>1, FreshDoes, StaysRespectful
<1>7. CASE Backtrack(c) \/ RemoveQuery(c)
  <2>1. UNCHANGED queues /\ UNCHANGED spc
    BY <1>7 DEF Backtrack, RemoveQuery
  <2>2. spc[c] = "batch"
    <3>1. CASE Backtrack(c)
      BY <3>1 DEF Backtrack
    <3>2. CASE RemoveQuery(c)
      BY <3>2 DEF RemoveQuery, P!FinishQuery, IInv, Control, ControlOf
    <3> QED
      BY <1>7, <3>1, <3>2
  <2>3. Fresh(c)'
    BY <2>1, <2>2 DEF Fresh
  <2> QED
    BY <2>1, <2>3, FreshDoes, StaysRespectful
<1>8. CASE LockPush(c)
  <2>1. /\ UNCHANGED <<queues, it, pc, refilled>> /\ spc[c] = "push"
        /\ spc'[c] = "pushing"
    BY <1>8 DEF LockPush, scan
  <2>2. /\ Fresh(c)' = Fresh(c) /\ Before(c)' = Before(c) /\ At(c)' = At(c)
    BY <2>1 DEF Fresh, Before, At, Scanning, Pushing
  <2>3. (WillPop(c) => WillPop(c)') /\ (WillRefill(c) => WillRefill(c)')
    BY <2>1, <2>2 DEF WillPop, WillRefill
  <2> QED
    BY <2>1, <2>3, StaysRespectful
<1>9. CASE PublishQuery(c)
  <2>1. UNCHANGED queues /\ Fresh(c)'
    BY <1>9 DEF PublishQuery, Fresh
  <2> QED
    BY <2>1, FreshDoes, StaysRespectful
<1>10. CASE SpawnRoot(c)
  <2>1. /\ UNCHANGED <<spc, Lreg>> /\ spc[c] = "spawn" /\ pc[c] = "spawn"
        /\ Qreg' = [Qreg EXCEPT ![cur_qid[c]] = Append(@, NextTaskID)]
    BY <1>10 DEF SpawnRoot, P!AddRootTask
  <2>2. cur_qid[c] # Hindmost
    BY <2>1 DEF IInv, PP!IInv, PP!Spawning
  <2>3. Qreg'[Hindmost] = Qreg[Hindmost]
    BY <2>1, <2>2
  <2>4. Fresh(c)'
    BY <2>1 DEF Fresh
  <2> QED
    BY <2>1, <2>3, <2>4, FreshDoes DEF Respects
<1>11. CASE Refill(c)
  <2>0. PICK q \in Queries : q = Tc(c)
    BY <1>11, ContainerOf DEF Refill
  <2>1. /\ UNCHANGED <<it, pc, Qreg>> /\ spc[c] = "refill" /\ pc[c] = "free"
        /\ refilled'[c] = (Lreg[q] # <<>>)
        /\ Lreg[q] = <<>> => Lreg' = Lreg /\ spc'[c] = "fetch"
        /\ Lreg[q] # <<>> => /\ spc'[c] = "push"
                             /\ Lreg' = [Lreg EXCEPT ![q] = Tail(@)]
    BY <1>11, <2>0 DEF Refill, IInv, Control, ControlOf, Pushing
  <2>2. Scanning(c) /\ Scanning(c)' /\ ~ Fresh(c)
    BY <2>1 DEF Scanning, Fresh, Pushing
  <2>3. Before(c)' = Before(c) /\ At(c)' = At(c)
    BY <2>1, <2>2 DEF Before, At
  <2>4. WillPop(c) => WillPop(c)'
    BY <2>2, <2>3 DEF WillPop
  <2>5. WillRefill(c) => WillRefill(c)' \/ Lreg'[Hindmost] = <<>>
    <3>1. CASE At(c)
      <4>1. q = Hindmost
        BY <2>0, <2>1, <2>2, <3>1, AtLast DEF At
      <4> QED
        BY <2>1, <2>3, <3>1, <4>1 DEF WillRefill
    <3>2. CASE ~ At(c)
      BY <2>2, <2>3, <3>2 DEF WillRefill
    <3> QED
      BY <3>1, <3>2
  <2>6. Lreg[Hindmost] = <<>> => Lreg'[Hindmost] = <<>>
    BY <2>1
  <2> QED
    BY <2>1, <2>4, <2>5, <2>6 DEF Respects
<1>12. CASE Pop(c)
  <2>0. PICK q \in Queries : q = Tc(c)
    BY <1>12, ContainerOf DEF Pop
  <2> DEFINE k == IF Len(Qreg[q]) < tasks_per_fetch_g THEN Len(Qreg[q])
                                                     ELSE tasks_per_fetch_g
  <2>1. /\ UNCHANGED <<pc, Lreg, refilled>> /\ spc[c] = "pop"
        /\ Qreg' = [Qreg EXCEPT ![q] = SubSeq(@, k + 1, Len(@))]
        /\ \/ k = 0 /\ ~ refilled[c] /\ spc'[c] = "next" /\ it'[c] = it[c] + 1
           \/ (k # 0 \/ refilled[c]) /\ spc'[c] = "batch"
    BY <1>12, <2>0 DEF Pop
  <2>2. k = 0 <=> Qreg[q] = <<>>
    <3>1. Len(Qreg[q]) \in Nat /\ (Len(Qreg[q]) = 0 <=> Qreg[q] = <<>>)
      BY EmptySeq
    <3> QED
      BY <3>1, SchedulerAssumption
  <2> HIDE DEF k
  <2>3. CASE spc'[c] = "batch"
    <3>1. Fresh(c)'
      BY <2>3 DEF Fresh
    <3> QED
      BY <2>1, <3>1, FreshDoes DEF Respects
  <2>4. CASE spc'[c] = "next"
    <3>1. /\ Qreg[q] = <<>> /\ k = 0 /\ ~ refilled[c] /\ it'[c] = it[c] + 1
      BY <2>1, <2>2, <2>4
    <3>2. UNCHANGED queues
      <4>1. SubSeq(Qreg[q], 0 + 1, Len(Qreg[q])) = <<>>
        BY <3>1
      <4>2. Qreg' = Qreg
        BY <2>1, <3>1, <4>1
      <4> QED
        BY <2>1, <4>2 DEF queues
    <3>3. Scanning(c) /\ Scanning(c)' /\ ~ Fresh(c)
      BY <2>1, <2>4 DEF Scanning, Fresh, Pushing
    <3>4. Before(c) => Before(c)' \/ At(c)'
      BY <3>1, <3>3 DEF Before, At
    <3>5. At(c) => q = Hindmost
      BY <2>0, <2>1, <3>3, AtLast DEF At
    <3>6. At(c) => Qreg'[Hindmost] = <<>> /\ ~ WillRefill(c)
      BY <2>1, <3>1, <3>2, <3>3, <3>5 DEF WillRefill, At, Before, queues
    <3>7. WillPop(c) => WillPop(c)' \/ Qreg'[Hindmost] = <<>>
      BY <3>3, <3>4, <3>6 DEF WillPop
    <3>8. WillRefill(c) => WillRefill(c)'
      BY <2>4, <3>3, <3>4, <3>6 DEF WillRefill
    <3> QED
      BY <3>2, <3>7, <3>8 DEF Respects, queues
  <2> QED
    BY <2>1, <2>3, <2>4
<1>13. CASE Push(c) \/ Spill(c) \/ WriteFile(c)
  <2>0. PICK q \in Queries : q = Tc(c)
    BY <1>13, ContainerOf DEF Push, Spill, WriteFile, Pushing
  <2>1. /\ UNCHANGED <<it, pc, refilled>> /\ Pushing(c)
        /\ \A r \in Queries \ {q} : Qreg'[r] = Qreg[r] /\ Lreg'[r] = Lreg[r]
    BY <1>13, <2>0 DEF Push, Spill, WriteFile, Pushing, scan
  <2>2. spc'[c] \in {"push", "spill", IF pc[c] = "compute" THEN "batch" ELSE "fetch"}
    BY <1>13 DEF Push, Spill, WriteFile
  <2>3. pc[c] \in {"free", "compute"} /\ (pc[c] = "free" => refilled[c])
    BY <2>1 DEF IInv, Control, ControlOf
  <2>4. CASE pc[c] = "compute"
    <3>1. Fresh(c)'
      BY <2>1, <2>2, <2>4 DEF Fresh, Pushing
    <3> QED
      BY <3>1, FreshDoes DEF Respects
  <2>5. CASE pc[c] = "free"
    <3>1. Scanning(c) /\ Scanning(c)' /\ ~ Fresh(c) /\ spc[c] # "next"
      BY <2>1, <2>2, <2>5 DEF Scanning, Fresh, Pushing
    <3>2. Before(c)' = Before(c) /\ At(c)' = At(c)
      BY <2>1, <3>1 DEF Before, At
    <3>3. refilled'[c] = refilled[c] /\ refilled[c]
      BY <2>1, <2>3, <2>5
    <3>4. WillPop(c)' = (Before(c) \/ At(c)) /\ WillRefill(c)' = (Before(c) \/ At(c))
      <4>1. ~ Fresh(c)'
        BY <2>1, <2>2, <2>5 DEF Fresh, Pushing
      <4> QED
        BY <3>2, <3>3, <4>1 DEF WillPop, WillRefill
    <3>5. (WillPop(c) => WillPop(c)') /\ (WillRefill(c) => WillRefill(c)')
      BY <3>1, <3>4 DEF WillPop, WillRefill
    <3>6. CASE q = Hindmost
      <4>1. At(c)
        BY <2>0, <3>1, <3>6, AtLast DEF At
      <4> QED
        BY <3>4, <4>1 DEF Respects
    <3>7. CASE q # Hindmost
      BY <2>1, <3>5, <3>7 DEF Respects
    <3> QED
      BY <3>6, <3>7
  <2> QED
    BY <2>3, <2>4, <2>5
<1> QED
  BY <1>1, <1>2, <1>3, <1>4, <1>5, <1>6, <1>7, <1>8, <1>9, <1>10, <1>11,
     <1>12, <1>13 DEF Comper

\* Only the worker sets the end label.
LEMMA LabelKept ==
  ASSUME NEW c \in Compers, Comper(c)
  PROVE  UNCHANGED <<global_end_label, wpc>>
BY DEF Comper, RunLoop, EndOfList, LockReg, CheckSize, Refill, LockFetch,
   AcquireOrSkip, Pop, StartTask, BatchDone, SplitTask, SpawnRoot, Backtrack,
   RemoveQuery, LockPush, Push, Spill, WriteFile, CheckQueries, ReserveSlot,
   Dequeue, PublishQuery, Sleep, WakeUp, go

LEMMA WatchedStep ==
  ASSUME IInv, Watched, [Next]_vars
  PROVE  Watched'
<1>1. CASE Worker \/ Client \/ Terminated \/ UNCHANGED vars
  <2>1. /\ UNCHANGED spc \/ NotifyAll
        /\ UNCHANGED <<progState, active, queues, scan, buffers>>
    BY <1>1, OutsideStep
  <2>2. UNCHANGED <<Qreg, Lreg, pc, it, refilled, activeQ_list>>
    BY <2>1 DEF progState, active, queues, scan
  <2>3. global_end_label => global_end_label'
    BY <1>1 DEF Worker, UpdateTasks, SkipUpdate, NotifyNew, CheckActive,
         CheckQueue, Notify, TryEnd, Client, Send, Terminated, vars, go
  <2>4. ASSUME NEW d \in Compers
        PROVE  WillPop(d)' = WillPop(d) /\ WillRefill(d)' = WillRefill(d)
    <3>1. spc'[d] = spc[d] \/ (spc[d] = "wait" /\ spc'[d] = "woken")
      BY <2>1 DEF NotifyAll
    <3>2. Fresh(d)' = Fresh(d) /\ Scanning(d)' = Scanning(d)
      BY <2>2, <3>1 DEF Fresh, Scanning, Pushing
    <3>3. Before(d)' = Before(d) /\ At(d)' = At(d)
      BY <2>2, <3>2 DEF Before, At
    <3>4. spc'[d] \in {"next", "size", "refill"} <=>
             spc[d] \in {"next", "size", "refill"}
      BY <3>1
    <3> QED
      BY <2>2, <3>2, <3>3, <3>4 DEF WillPop, WillRefill
  <2> QED
    BY <2>2, <2>3, <2>4 DEF Watched, Hindmost
<1>2. ASSUME NEW c \in Compers, Comper(c) PROVE Watched'
  <2>0. spc \in [Compers -> SPCs] /\ activeQ_list \in Seq(Queries)
    BY DEF IInv, QueueTypes
  <2>1. CASE RemoveQuery(c) \/ PublishQuery(c)
    <3>1. spc'[c] \in {"batch", "run"}
      <4>1. CASE RemoveQuery(c)
        BY <4>1 DEF RemoveQuery, P!FinishQuery, IInv, Control, ControlOf
      <4>2. CASE PublishQuery(c)
        BY <2>0, <4>2 DEF PublishQuery, Goto
      <4> QED
        BY <2>1, <4>1, <4>2
    <3>2. Fresh(c)'
      BY <3>1 DEF Fresh
    <3> QED
      BY <3>2, FreshDoes DEF Watched
  <2>2. CASE ~ (RemoveQuery(c) \/ PublishQuery(c))
    <3>1. UNCHANGED activeQ_list
      <4>1. CASE ListActions(c)
        BY <2>2, <4>1 DEF ListActions, ReserveSlot, Dequeue, active
      <4>2. CASE ~ ListActions(c)
        BY <1>2, <4>2, ListLeftAlone
      <4> QED
        BY <4>1, <4>2
    <3>2. UNCHANGED global_end_label
      BY <1>2, LabelKept
    <3>3. CASE activeQ_list # <<>> /\ ~ global_end_label
      BY <1>2, <3>1, <3>2, <3>3, ActionsRespect, RespectIsEnough
    <3>4. CASE activeQ_list = <<>> \/ global_end_label
      BY <3>1, <3>2, <3>4 DEF Watched
    <3> QED
      BY <3>3, <3>4
  <2> QED
    BY <2>1, <2>2
<1> QED
  BY <1>1, <1>2 DEF Next

-----------------------------------------------------------------------------
(* A query in the list has its root task                                   *)

LEMMA RootKept ==
  ASSUME IInv, [P!Next]_(P!vars), NEW q \in Queries, P!HasRoot(q)
  PROVE  P!HasRoot(q)'
<1>1. PICK t \in born : query_id[t] = q /\ parent_tid[t] = NoTask
  BY DEF P!HasRoot
<1>2. t \in born' /\ query_id'[t] = query_id[t] /\ parent_tid'[t] = parent_tid[t]
  <2>0. born \subseteq Tasks /\ DOMAIN query_id = Tasks /\ DOMAIN parent_tid = Tasks
    BY DEF IInv, PP!IInv, PP!TypeOK
  <2>1. ASSUME NEW u, NEW p, NEW k, NEW as, P!NewTask(k, u, p, as)
        PROVE  t \in born' /\ query_id'[t] = query_id[t] /\ parent_tid'[t] = parent_tid[t]
    BY <2>0, <2>1 DEF P!NewTask
  <2>2. ASSUME NEW c \in Compers, NEW u \in Tasks, P!AddRootTask(c, u) \/ P!AddTask(c, u)
        PROVE  t \in born' /\ query_id'[t] = query_id[t] /\ parent_tid'[t] = parent_tid[t]
    BY <2>1, <2>2 DEF P!AddRootTask, P!AddTask, P!add_task
  <2>3. ASSUME [P!Next]_(P!vars),
               \A c \in Compers, u \in Tasks : ~ P!AddRootTask(c, u) /\ ~ P!AddTask(c, u)
        PROVE  UNCHANGED <<born, parent_tid, query_id>>
    BY <2>3 DEF P!Next, P!Comper, P!StartSpawn, P!EndSpawn, P!Take, P!Complete,
       P!Erase, P!GetParent, P!DecParent, P!SettleInParent, P!FinishQuery,
       P!vars, P!progVars, P!history
  <2> QED
    BY <2>2, <2>3
<1> QED
  BY <1>1, <1>2 DEF P!HasRoot

LEMMA RootedStep ==
  ASSUME IInv, Rooted, [Next]_vars
  PROVE  Rooted'
<1> SUFFICES ASSUME NEW q \in Queries \ NoResult, qstate'[q] = "active"
             PROVE  P!HasRoot(q)'
  BY DEF Rooted
<1>0. DOMAIN qstate = Queries
  BY DEF IInv, PP!IInv, PP!TypeOK
<1>1. TypeOK
  BY SameTypes DEF IInv, PP!IInv, TypeOK
<1>2. ASSUME qstate[q] = "active" PROVE P!HasRoot(q)'
  BY <1>1, <1>2, StepImplements, RootKept DEF Rooted
<1>3. CASE Worker \/ Client \/ Terminated \/ UNCHANGED vars
  BY <1>2, <1>3, OutsideStep DEF progState
<1>4. ASSUME NEW c \in Compers, Comper(c) PROVE P!HasRoot(q)'
  <2>1. CASE ~ ListActions(c)
    BY <1>2, <1>4, <2>1, ListLeftAlone
  <2>2. CASE RemoveQuery(c)
    BY <1>0, <1>2, <2>2 DEF RemoveQuery, P!FinishQuery
  <2>3. CASE ReserveSlot(c)
    BY <1>2, <2>3 DEF ReserveSlot, progState
  <2>4. CASE Dequeue(c)
    <3>1. qstate[q] = "active"
      BY <1>0, <2>4 DEF Dequeue, P!StartSpawn, progState
    <3> QED
      BY <1>2, <3>1
  <2>5. CASE PublishQuery(c)
    <3>1. /\ qstate' = [qstate EXCEPT ![cur_qid[c]] = "active"]
          /\ P!HasRoot(cur_qid[c]) \/ cur_qid[c] \in NoResult
      BY <2>5 DEF PublishQuery, P!EndSpawn
    <3>2. CASE q = cur_qid[c]
      BY <1>1, <3>1, <3>2, StepImplements, RootKept
    <3>3. CASE q # cur_qid[c]
      BY <1>0, <1>2, <3>1, <3>3
    <3> QED
      BY <3>2, <3>3
  <2> QED
    BY <2>1, <2>2, <2>3, <2>4, <2>5 DEF ListActions
<1> QED
  BY <1>3, <1>4 DEF Next

LEMMA SpawnedStep ==
  ASSUME IInv, Spawned, [P!Next]_(P!vars)
  PROVE  Spawned'
<1>0. /\ qstate \in [Queries -> PP!QueryStates] /\ born \subseteq Tasks
      /\ DOMAIN query_id = Tasks /\ DOMAIN pc = Compers /\ DOMAIN cur_qid = Compers
      /\ \A t \in born : query_id[t] \in Queries
      /\ \A c, d \in Compers :
            c # d /\ pc[c] = "spawn" /\ pc[d] = "spawn" => cur_qid[c] # cur_qid[d]
      /\ \A c \in Compers : pc[c] = "spawn" =>
            cur_qid[c] \in Queries /\ qstate[cur_qid[c]] = "spawning"
  BY DEF IInv, PP!IInv, PP!TypeOK, PP!Family, PP!Spawning
<1> USE <1>0 DEF Spawned, P!progVars, P!comperVars, P!history
<1>1. CASE UNCHANGED P!vars
  BY <1>1 DEF P!vars
<1>2. ASSUME NEW c \in Compers, NEW q \in Queries, P!StartSpawn(c, q)
      PROVE  Spawned'
  BY <1>2 DEF P!StartSpawn
<1>3. ASSUME NEW c \in Compers, NEW t \in Tasks, P!AddRootTask(c, t) \/ P!AddTask(c, t)
      PROVE  Spawned'
  <2>1. UNCHANGED <<qstate, pc, cur_qid>> /\ t \notin born /\ born' = born \cup {t}
        /\ query_id' = [query_id EXCEPT ![t] = cur_qid[c]]
    BY <1>3 DEF P!AddRootTask, P!AddTask, P!add_task, P!NewTask
  <2>2. qstate[cur_qid[c]] # "waiting"
    BY <1>3 DEF P!AddRootTask, P!AddTask, IInv, PP!IInv, PP!Computing
  <2> QED
    BY <2>1, <2>2
<1>4. ASSUME NEW c \in Compers, P!EndSpawn(c)
      PROVE  Spawned'
  <2>1. /\ pc[c] = "spawn" /\ UNCHANGED <<born, query_id, cur_qid>>
        /\ qstate' = [qstate EXCEPT ![cur_qid[c]] = "active"]
        /\ pc' = [pc EXCEPT ![c] = "free"]
    BY <1>4 DEF P!EndSpawn
  <2> QED
    BY <2>1
<1>5. ASSUME NEW c \in Compers, NEW t \in Tasks, P!Take(c, t)
      PROVE  Spawned'
  BY <1>5 DEF P!Take
<1>6. ASSUME NEW c \in Compers,
             P!Complete(c) \/ P!Erase(c) \/ P!GetParent(c) \/ P!DecParent(c)
      PROVE  Spawned'
  <2>1. UNCHANGED <<qstate, born, query_id, cur_qid>> /\ pc[c] # "spawn"
        /\ \E l : pc' = [pc EXCEPT ![c] = l]
    <3>1. CASE P!Complete(c)
      BY <3>1 DEF P!Complete
    <3>2. CASE P!Erase(c)
      BY <3>2 DEF P!Erase
    <3>3. CASE P!GetParent(c)
      BY <3>3 DEF P!GetParent
    <3>4. CASE P!DecParent(c)
      BY <3>4 DEF P!DecParent, P!SettleInParent
    <3> QED
      BY <1>6, <3>1, <3>2, <3>3, <3>4
  <2> QED
    BY <2>1
<1>7. ASSUME NEW c \in Compers, P!FinishQuery(c) PROVE Spawned'
  <2>1. /\ pc[c] = "finish" /\ UNCHANGED <<born, query_id, cur_qid>>
        /\ qstate' = [qstate EXCEPT ![query_id[prog[c]]] = "done"]
        /\ pc' = [pc EXCEPT ![c] = "free"]
    BY <1>7 DEF P!FinishQuery
  <2> QED
    BY <2>1
<1> QED
  BY <1>1, <1>2, <1>3, <1>4, <1>5, <1>6, <1>7 DEF P!Next, P!Comper

-----------------------------------------------------------------------------
(* When all sleep                                                          *)

LEMMA EverybodyAsleep ==
  ASSUME IInv, global_num_idle = Cardinality(Compers)
  PROVE  \A c \in Compers : Asleep(c)
<1>1. Idlers \subseteq Compers
  BY DEF Idlers
<1>2. Idlers = Compers
  BY <1>1, FS_Subset, SchedulerAssumption DEF IInv, IdleCounted
<1> QED
  BY <1>2 DEF Idlers, Asleep

\* What waits is in the deque or in the files of its query, if no comper
\* holds anything.
LEMMA WaitsAtItsQuery ==
  ASSUME IInv, \A c \in Compers : Asleep(c), NEW t \in pending
  PROVE  Qreg[query_id[t]] # <<>> \/ Lreg[query_id[t]] # <<>>
<1>1. HeldIs
  BY HeldValues DEF IInv
<1>2. PICK d \in Places : t \in Held[d]
  BY <1>1 DEF IInv, Parts, Partition, HeldIs
<1>3. ASSUME NEW c \in Compers
      PROVE  collector[c] = <<>> /\ inhand[c] = <<>> /\ spillbuf[c] = <<>>
  <2>1. spc[c] \in {"wait", "woken"}
    BY DEF Asleep
  <2> QED
    BY <2>1 DEF IInv, Control, ControlOf, Pushing
<1>4. \A c \in Compers : d # InCollector(c) /\ d # InInhand(c) /\ d # InSpillbuf(c)
  BY <1>1, <1>2, <1>3, EmptyElements DEF HeldIs
<1>5. CASE \E q \in Queries : d = InQreg(q)
  <2>1. PICK q \in Queries : d = InQreg(q)
    BY <1>5
  <2>2. t \in Elements(Qreg[q])
    BY <1>1, <1>2, <2>1 DEF HeldIs
  <2>3. query_id[t] = q /\ Qreg[q] # <<>>
    BY <2>2, EmptyElements DEF IInv, Owned, QueryOwns
  <2> QED
    BY <2>3
<1>6. CASE \E q \in Queries : \E j \in Nat \ {0} : d = InLreg(q, j)
  <2>1. PICK q \in Queries : \E j \in Nat \ {0} : d = InLreg(q, j)
    BY <1>6
  <2>2. PICK j \in Nat \ {0} : d = InLreg(q, j)
    BY <2>1
  <2>3. j \in 1 .. Len(Lreg[q]) /\ t \in Elements(Lreg[q][j])
    BY <1>1, <1>2, <2>2 DEF HeldIs
  <2>4. query_id[t] = q
    BY <2>3 DEF IInv, Owned, QueryOwns
  <2>5. Lreg[q] # <<>>
    BY <2>3
  <2> QED
    BY <2>4, <2>5
<1> QED
  BY <1>2, <1>4, <1>5, <1>6 DEF Places

\* A query that is active has a task that waits, if no comper is at work: the
\* youngest of its unsettled tasks.
LEMMA SomethingWaits ==
  ASSUME IInv, PP!Lineage, PP!Accounted, Rooted, NoResult = {},
         \A c \in Compers : Asleep(c),
         NEW q \in Queries, qstate[q] = "active"
  PROVE  \E t \in pending : query_id[t] = q
<1> DEFINE T == {t \in born \ settled : query_id[t] = q}
<1>1. \A c \in Compers : pc[c] = "free"
  <2>1. \A c \in Compers : spc[c] \in {"wait", "woken"}
    BY DEF Asleep
  <2> QED
    BY <2>1 DEF IInv, Control, ControlOf, Pushing
<1>2. T # {}
  <2>1. PICK r \in born : query_id[r] = q /\ parent_tid[r] = NoTask
    BY DEF Rooted, P!HasRoot
  <2>2. r \notin settled
    BY <2>1 DEF PP!Accounted
  <2> QED
    BY <2>1, <2>2
<1>3. T \subseteq born \ settled
  OBVIOUS
<1> HIDE DEF T
<1>4. PICK t \in T : PP!Kids(t) \cap T = {}
  BY <1>2, <1>3, PP!Youngest, SchedulerAssumption DEF IInv, PP!NoTaskAssumption
<1>5. t \in born \ settled /\ query_id[t] = q
  BY DEF T
<1>6. PP!Kids(t) \subseteq T
  <2> SUFFICES ASSUME NEW u \in PP!Kids(t) PROVE u \in T
    OBVIOUS
  <2>1. /\ u \in born \ settled /\ parent_tid[u] = t /\ t # NoTask
    BY <1>5, SchedulerAssumption DEF PP!Kids, IInv, PP!IInv, PP!TypeOK
  <2>2. query_id[u] = q
    BY <1>5, <2>1 DEF IInv, PP!IInv, PP!Family
  <2> QED
    BY <2>1, <2>2 DEF T
<1>7. PP!Kids(t) = {}
  BY <1>4, <1>6
<1>8. t \in pending
  BY <1>1, <1>5, <1>7 DEF PP!Accounted
<1> QED
  BY <1>5, <1>8

LEMMA NothingLeftAsleep ==
  ASSUME IInv, PP!Lineage, PP!Accounted, Rooted, Spawned, Watched, NoResult = {},
         ~ global_end_label, \A c \in Compers : Asleep(c)
  PROVE  activeQ_list = <<>> /\ pending = {} /\ prog_map = {}
<1>1. \A c \in Compers : spc[c] \in {"wait", "woken"}
  BY DEF Asleep
<1>2. activeQ_list = <<>>
  <2> SUFFICES ASSUME activeQ_list # <<>> PROVE FALSE
    OBVIOUS
  <2>1. Hindmost \in Queries /\ qstate[Hindmost] = "active"
    BY LastQuery
  <2>2. PICK t \in pending : query_id[t] = Hindmost
    BY <2>1, SomethingWaits
  <2>3. Qreg[Hindmost] # <<>> \/ Lreg[Hindmost] # <<>>
    BY <2>2, WaitsAtItsQuery
  <2>4. \A c \in Compers : ~ WillPop(c) /\ ~ WillRefill(c)
    BY <1>1 DEF WillPop, WillRefill, Fresh, Before, At, Scanning, Pushing
  <2> QED
    BY <2>3, <2>4 DEF Watched
<1>3. \A q \in Queries : qstate[q] # "active"
  BY <1>2, EmptyElements DEF IInv, Listed
<1>4. born \subseteq settled
  <2> SUFFICES ASSUME NEW t \in born \ settled PROVE FALSE
    OBVIOUS
  <2> DEFINE q == query_id[t]
  <2>1. q \in Queries /\ qstate[q] \in {"waiting", "spawning", "active", "done"}
    BY DEF IInv, PP!IInv, PP!Family, PP!TypeOK, PP!QueryStates
  <2>2. qstate[q] \notin {"waiting", "spawning"}
    <3>1. \A c \in Compers : pc[c] # "spawn"
      BY <1>1 DEF IInv, Control, ControlOf
    <3> QED
      BY <2>1, <3>1 DEF Spawned
  <2>3. qstate[q] # "done"
    <3>1. PICK r \in anc[t] \cup {t} :
             r \in born /\ parent_tid[r] = NoTask /\ query_id[r] = q
      BY DEF IInv, PP!IInv, PP!Roots
    <3>2. r \notin settled
      BY DEF IInv, PP!IInv, PP!Ancestors, PP!Membership
    <3> QED
      BY <3>1, <3>2 DEF IInv, PP!IInv, PP!Roots
  <2> QED
    BY <1>3, <2>1, <2>2, <2>3
<1>5. prog_map = {} /\ pending = {}
  BY <1>4 DEF IInv, PP!IInv, PP!Membership
<1> QED
  BY <1>2, <1>5

-----------------------------------------------------------------------------
(* The end label                                                           *)

LEMMA EndedStep ==
  ASSUME IInv, PP!Lineage, PP!Accounted, Rooted, Spawned, Watched, Ended,
         NoResult = {}, [Next]_vars
  PROVE  Ended'
<1> USE DEF progState, client, active, go
<1>1. CASE UNCHANGED vars
  BY <1>1 DEF Ended, vars
<1>2. CASE Terminated
  BY <1>2 DEF Terminated, Ended, vars
<1>3. CASE Client
  BY <1>3 DEF Client, Send, Ended
<1>4. CASE UpdateTasks \/ SkipUpdate \/ CheckActive \/ CheckQueue
  <2>1. UNCHANGED global_end_label /\ wpc # "exit" /\ wpc # "end"
    BY <1>4 DEF UpdateTasks, SkipUpdate, CheckActive, CheckQueue
  <2>2. wpc' = "end" => query_que' = <<>>
    <3>1. CASE CheckQueue
      BY <3>1 DEF CheckQueue
    <3>2. CASE UpdateTasks \/ SkipUpdate \/ CheckActive
      <4>1. wpc' # "end"
        BY <3>2 DEF UpdateTasks, SkipUpdate, CheckActive
      <4> QED
        BY <4>1
    <3> QED
      BY <1>4, <3>1, <3>2
  <2> QED
    BY <2>1, <2>2 DEF Ended
<1>5. CASE NotifyNew \/ Notify
  BY <1>5 DEF NotifyNew, Notify, Ended
<1>6. CASE TryEnd
  <2>1. wpc = "end" /\ query_que = <<>> /\ ~ global_end_label
    BY <1>6 DEF TryEnd, Ended
  <2>2. CASE global_num_idle = Cardinality(Compers) /\ server_exit
    <3>1. \A c \in Compers : Asleep(c)
      BY <2>2, EverybodyAsleep
    <3>2. activeQ_list = <<>> /\ pending = {} /\ prog_map = {}
      BY <2>1, <3>1, NothingLeftAsleep
    <3>3. /\ UNCHANGED <<progState, query_que, active>> /\ NotifyAll /\ wpc' = "exit"
      BY <1>6, <2>2 DEF TryEnd
    <3>4. \A c \in Compers : spc'[c] \in {"wait", "woken", "run", "exit"}
      BY <3>1, <3>3 DEF NotifyAll, Asleep
    <3> QED
      BY <2>1, <3>2, <3>3, <3>4 DEF Ended
  <2>3. CASE ~ (global_num_idle = Cardinality(Compers) /\ server_exit)
    BY <1>6, <2>1, <2>3 DEF TryEnd, Ended
  <2> QED
    BY <2>2, <2>3
<1>7. ASSUME NEW c \in Compers, Comper(c) PROVE Ended'
  <2>1. UNCHANGED <<global_end_label, wpc>>
    BY <1>7, LabelKept
  <2>2. query_que = <<>> => query_que' = <<>>
    BY <1>7 DEF Comper, RunLoop, EndOfList, LockReg, CheckSize, Refill,
       LockFetch, AcquireOrSkip, Pop, StartTask, BatchDone, SplitTask,
       SpawnRoot, Backtrack, RemoveQuery, LockPush, Push, Spill, WriteFile,
       CheckQueries, ReserveSlot, Dequeue, PublishQuery, Sleep, WakeUp
  <2>3. CASE ~ global_end_label
    BY <2>1, <2>2, <2>3 DEF Ended
  <2>4. CASE global_end_label
    <3>1. \A d \in Compers : spc[d] \in {"wait", "woken", "run", "exit"}
      BY <2>4 DEF Ended
    <3>2. RunLoop(c) \/ WakeUp(c)
      <4>1. spc[c] \in {"wait", "woken", "run", "exit"}
        BY <3>1
      <4>2. pc[c] = "free"
        BY <4>1 DEF IInv, Control, ControlOf, Pushing
      <4> QED
        BY <1>7, <4>1, <4>2 DEF Comper, EndOfList, LockReg, CheckSize, Refill,
           LockFetch, Pop, StartTask, BatchDone, SplitTask, SpawnRoot, Backtrack,
           RemoveQuery, P!FinishQuery, LockPush, Push, Spill, WriteFile,
           CheckQueries, ReserveSlot, Dequeue, PublishQuery, Sleep
    <3>3. UNCHANGED <<prog_map, pending, activeQ_list>>
      BY <3>2 DEF RunLoop, WakeUp
    <3>4. spc'[c] \in {"wait", "run", "exit"}
      BY <2>4, <3>2 DEF RunLoop, WakeUp, Goto, IInv, QueueTypes
    <3>5. \A d \in Compers : spc'[d] \in {"wait", "woken", "run", "exit"}
      BY <1>7, <3>1, <3>4, OthersSame
    <3> QED
      BY <2>1, <2>2, <2>4, <3>3, <3>5 DEF Ended
  <2> QED
    BY <2>3, <2>4
<1> QED
  BY <1>1, <1>2, <1>3, <1>4, <1>5, <1>6, <1>7 DEF Next, Worker

-----------------------------------------------------------------------------
(* The theorems                                                            *)

\* What has to be known of the engine besides the invariant of
\* SchedulerProof.
Watch == /\ PP!Lineage /\ PP!Accounted /\ Rooted /\ Spawned /\ Watched /\ Ended

LEMMA InitWatch == Init => Watch
<1> SUFFICES ASSUME Init PROVE Watch
  OBVIOUS
<1>1. /\ born = {} /\ prog_map = {} /\ settled = {} /\ pending = {}
      /\ qstate = [q \in Queries |-> "waiting"]
  BY DEF Init, P!Init
<1>2. /\ activeQ_list = <<>> /\ wpc = "recv" /\ global_end_label = FALSE
  BY DEF Init
<1>3. PP!Lineage /\ PP!Accounted
  BY <1>1 DEF PP!Lineage, PP!Accounted
<1>4. Rooted /\ Spawned
  BY <1>1 DEF Rooted, Spawned
<1>5. Watched /\ Ended
  BY <1>2 DEF Watched, Ended
<1> QED
  BY <1>3, <1>4, <1>5 DEF Watch

LEMMA NextWatch ==
  NoResult = {} /\ IInv /\ Watch /\ [Next]_vars => Watch'
<1> SUFFICES ASSUME NoResult = {}, IInv, Watch, [Next]_vars PROVE Watch'
  OBVIOUS
<1>1. [P!Next]_(P!vars)
  <2>1. TypeOK
    BY SameTypes DEF IInv, PP!IInv, TypeOK
  <2> QED
    BY <2>1, StepImplements
<1>2. (PP!Lineage /\ PP!Accounted)'
  <2>1. [PP!Next]_(PP!vars)
    BY <1>1, SameNext
  <2> QED
    BY <2>1, PP!NextAccounted, SchedulerAssumption
       DEF IInv, Watch, PP!NoTaskAssumption
<1>3. Rooted' /\ Spawned' /\ Watched' /\ Ended'
  BY <1>1, RootedStep, SpawnedStep, WatchedStep, EndedStep DEF Watch
<1> QED
  BY <1>2, <1>3 DEF Watch

LEMMA AlwaysWatch ==
  ASSUME NoResult = {}
  PROVE  Spec => [](IInv /\ Watch)
<1>1. IInv /\ Watch /\ [Next]_vars => Watch'
  BY NextWatch
<1> QED
  BY <1>1, InitIInv, InitWatch, NextIInv, PTL DEF Spec

\* When the worker finds every comper on cv_go there is no task left in any
\* deque or file and no progress object in the table.
THEOREM AllIdleIsTheEnd ==
  ASSUME NoResult = {}
  PROVE  Spec => []AllIdleMeansNoTask
<1>1. IInv /\ Watch => AllIdleMeansNoTask
  <2> SUFFICES ASSUME IInv, Watch,
                      global_num_idle = Cardinality(Compers)
               PROVE  pending = {} /\ prog_map = {}
    BY DEF AllIdleMeansNoTask
  <2>1. CASE global_end_label
    BY <2>1 DEF Watch, Ended
  <2>2. CASE ~ global_end_label
    BY <2>2, EverybodyAsleep, NothingLeftAsleep DEF Watch
  <2> QED
    BY <2>1, <2>2
<1> QED
  BY <1>1, AlwaysWatch, PTL

\* The end label comes after the last query is answered.
THEOREM EndIsTheEnd ==
  ASSUME NoResult = {}
  PROVE  Spec => []EndOnlyWhenDone
<1>1. Watch => EndOnlyWhenDone
  BY DEF Watch, Ended, EndOnlyWhenDone
<1> QED
  BY <1>1, AlwaysWatch, PTL
=============================================================================

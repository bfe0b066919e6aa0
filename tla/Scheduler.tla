----------------------------- MODULE Scheduler -----------------------------
(***************************************************************************)
(* The online engine of T-RDF: the worker's main thread of                 *)
(* system/workerOL.h and the computing threads ("compers") of              *)
(* system/comperOL.h, with everything they share.                          *)
(*                                                                         *)
(* The worker moves queries from the message queue to query_que, wakes the *)
(* compers while there may be work, and ends the program once it has seen  *)
(* "server_exit".  A comper scans the active queries for tasks, computes   *)
(* the batch it fetched, or else spawns the next query of query_que, or    *)
(* else sleeps on cv_go.                                                   *)
(*                                                                         *)
(* Grain: one action per critical section, except that holding Qreg_mtx    *)
(* and the read lock of activeQ_list spans actions, because try_lock can   *)
(* fail and writers wait.  A section under the write lock is one action    *)
(* and waits for `Readers' to be empty.                                    *)
(*                                                                         *)
(* Left out: Qbig and Lbig, which the RDF application never fills          *)
(* (is_bigTask is constantly false); toQuery() and task_spawn() returning  *)
(* false and postprocess() returning true, which it never does.            *)
(***************************************************************************)
EXTENDS Naturals, Sequences, FiniteSets, SequencesExt

CONSTANTS
  Compers, Queries, Tasks, NoTask, NoQuery,
  ServerExit,             \* the message "server_exit"
  Messages,               \* what the clients have to send
  NoResult,               \* queries for which task_spawn finds no candidate
  activeQ_list_capacity,  \* 16
  Qreg_capacity,          \* 51200
  RT_TASKS_PER_FILE,      \* 32
  RT_THRESHOLD_FOR_REFILL,\* 128
  tasks_per_fetch_g       \* 5

ASSUME SchedulerAssumption ==
  /\ IsFiniteSet(Compers)
  /\ NoTask \notin Tasks
  /\ ServerExit \notin Queries
  /\ Messages \subseteq Queries \cup {ServerExit}
  /\ NoResult \subseteq Queries
  /\ activeQ_list_capacity \in Nat \ {0}
  /\ Qreg_capacity \in Nat
  /\ RT_TASKS_PER_FILE \in 1 .. Qreg_capacity   \* asserted by Worker::run
  /\ RT_THRESHOLD_FOR_REFILL \in Nat \ {0}
  /\ tasks_per_fetch_g \in Nat \ {0}

VARIABLES
  \* The progress table and its protocol: see TaskProg
  qstate, prog_map, parent_tid, query_id, t_counter, completed, pending,
  pc, cur_tid, cur_qid, prog, add_root_task_tag, born, settled, anc,
  \* Messages
  sent,            \* what clients have sent so far
  inbox,           \* the IPC queue the worker reads
  \* Shared by the worker and the compers
  query_que, activeQ_list, activeQ_num,
  server_exit, global_end_label, ready_go, global_num_idle,
  Qreg, Lreg,      \* per query: the deque of tasks, the queue of spill files
  \* Threads
  wpc,             \* the worker's control point
  spc,             \* each comper's control point in the scheduling loop
  it, refilled,    \* locals of get_and_process_tasks
  collector,       \* the batch a comper has fetched
  inhand,          \* tasks a comper has yet to push on Qreg
  spillbuf         \* tasks a comper is writing to a spill file

progState == <<qstate, prog_map, parent_tid, query_id, t_counter, completed,
               pending, pc, cur_tid, cur_qid, prog, add_root_task_tag, born,
               settled, anc>>
client == <<sent, inbox>>
active == <<activeQ_list, activeQ_num>>
go == <<server_exit, global_end_label, ready_go, global_num_idle>>
queues == <<Qreg, Lreg>>
scan == <<it, refilled>>
buffers == <<collector, inhand, spillbuf>>
vars == <<progState, client, query_que, active, go, queues, wpc, spc, scan,
          buffers>>

P == INSTANCE TaskProg

SPCs == {"run", "next", "size", "refill", "fetch", "pop", "batch", "push",
         "pushing", "spill", "queries", "slot", "deq", "spawn", "notfound",
         "wait", "woken", "exit"}
WPCs == {"recv", "notifynew", "num", "que", "notify", "end", "exit"}

Init ==
  /\ P!Init
  /\ sent = {}
  /\ inbox = <<>>
  /\ query_que = <<>>
  /\ activeQ_list = <<>>
  /\ activeQ_num = 0
  /\ server_exit = FALSE
  /\ global_end_label = FALSE
  /\ ready_go = TRUE
  /\ global_num_idle = 0
  /\ Qreg = [q \in Queries |-> <<>>]
  /\ Lreg = [q \in Queries |-> <<>>]
  /\ wpc = "recv"
  /\ spc = [c \in Compers |-> "run"]
  /\ it = [c \in Compers |-> 1]
  /\ refilled = [c \in Compers |-> FALSE]
  /\ collector = [c \in Compers |-> <<>>]
  /\ inhand = [c \in Compers |-> <<>>]
  /\ spillbuf = [c \in Compers |-> <<>>]

Goto(c, l) == spc' = [spc EXCEPT ![c] = l]

-----------------------------------------------------------------------------
(* Locks                                                                   *)

\* A comper that refills pushes the tasks while it still scans.
Scanning(c) == \/ spc[c] \in {"next", "size", "refill", "fetch", "pop"}
               \/ spc[c] \in {"push", "pushing", "spill"} /\ pc[c] = "free"

\* Who holds the read lock of activeQ_lock.
Readers == {c \in Compers : Scanning(c)}

\* The query whose container a comper is at: its local tc.
Tc(c) == IF Scanning(c) THEN activeQ_list[it[c]] ELSE cur_qid[c]

\* Qreg_mtx of query q.
Qreg_mtx(q) == {c \in Compers : /\ spc[c] \in {"size", "pop", "pushing"}
                                /\ Tc(c) = q}

IsLast(c) == it[c] = Len(activeQ_list)

-----------------------------------------------------------------------------
(* get_and_process_tasks: looking for tasks of the active queries          *)

\* while(global_end_label == false), then rdlock.
RunLoop(c) ==
  /\ spc[c] = "run"
  /\ IF global_end_label
       THEN Goto(c, "exit") /\ UNCHANGED scan
       ELSE /\ Goto(c, "next")
            /\ it' = [it EXCEPT ![c] = 1]
            /\ refilled' = [refilled EXCEPT ![c] = FALSE]
  /\ UNCHANGED <<progState, client, query_que, active, go, queues, wpc, buffers>>

NextQuery(c) == /\ Goto(c, "next")
                /\ it' = [it EXCEPT ![c] = @ + 1]

\* The list is exhausted: activeQ_lock.unlock().
EndOfList(c) ==
  /\ spc[c] = "next"
  /\ it[c] > Len(activeQ_list)
  /\ Goto(c, "queries")
  /\ UNCHANGED <<progState, client, query_que, active, go, queues, wpc, scan,
                 buffers>>

\* Qreg_mtx: try_lock, but for the last query of the list lock.
AcquireOrSkip(c, l) ==
  /\ \/ /\ Qreg_mtx(Tc(c)) = {}
        /\ Goto(c, l)
        /\ UNCHANGED it
     \/ /\ Qreg_mtx(Tc(c)) # {}
        /\ ~ IsLast(c)
        /\ NextQuery(c)
  /\ UNCHANGED <<progState, client, query_que, active, go, queues, wpc, buffers>>

\* Qbig first: with its lock, refill_Qbig finds no file and clears refilled;
\* without, refilled keeps what the last query left in it.
LockReg(c) == /\ spc[c] = "next"
              /\ it[c] <= Len(activeQ_list)
              /\ AcquireOrSkip(c, "size")
              /\ \E r \in {FALSE, refilled[c]} :
                    refilled' = [refilled EXCEPT ![c] = r]

\* Look at the size, unlock, and refill if it is low.
CheckSize(c) ==
  /\ spc[c] = "size"
  /\ Goto(c, IF Len(Qreg[Tc(c)]) < RT_THRESHOLD_FOR_REFILL
               THEN "refill" ELSE "fetch")
  /\ UNCHANGED <<progState, client, query_que, active, go, queues, wpc, scan,
                 buffers>>

\* Faulty variant: the file stays on Lreg.
Refill_KeepsFile(c) ==
  /\ spc[c] = "refill"
  /\ refilled' = [refilled EXCEPT ![c] = Lreg[Tc(c)] # <<>>]
  /\ IF Lreg[Tc(c)] = <<>>
       THEN Goto(c, "fetch") /\ UNCHANGED inhand
       ELSE /\ inhand' = [inhand EXCEPT ![c] = Head(Lreg[Tc(c)])]
            /\ Goto(c, "push")
  /\ UNCHANGED <<progState, client, query_que, active, go, queues, wpc, it,
                 collector, spillbuf>>

\* refill_Qreg: one file of Lreg; its tasks are pushed by add_refilled_task.
Refill(c) ==
  LET q == Tc(c) IN
  /\ spc[c] = "refill"
  /\ refilled' = [refilled EXCEPT ![c] = Lreg[q] # <<>>]
  /\ IF Lreg[q] = <<>>
       THEN Goto(c, "fetch") /\ UNCHANGED <<Lreg, inhand>>
       ELSE /\ inhand' = [inhand EXCEPT ![c] = Head(Lreg[q])]
            /\ Lreg' = [Lreg EXCEPT ![q] = Tail(@)]
            /\ Goto(c, "push")
  /\ UNCHANGED <<progState, client, query_que, active, go, Qreg, wpc, it,
                 collector, spillbuf>>

LockFetch(c) == /\ spc[c] = "fetch"
                /\ AcquireOrSkip(c, "pop")
                /\ UNCHANGED refilled

\* Faulty variant: the tasks of the batch stay in the deque.
Pop_Copies(c) ==
  /\ spc[c] = "pop"
  /\ collector' = [collector EXCEPT ![c] = Qreg[Tc(c)]]
  /\ IF Qreg[Tc(c)] = <<>> /\ ~ refilled[c]
       THEN NextQuery(c)
       ELSE Goto(c, "batch") /\ UNCHANGED it
  /\ UNCHANGED <<progState, client, query_que, active, go, queues, wpc,
                 refilled, inhand, spillbuf>>

\* Fetch a batch and unlock; with something to do, release the list as well.
Pop(c) ==
  LET q == Tc(c)
      k == IF Len(Qreg[q]) < tasks_per_fetch_g THEN Len(Qreg[q])
                                               ELSE tasks_per_fetch_g
  IN /\ spc[c] = "pop"
     /\ collector' = [collector EXCEPT ![c] = SubSeq(Qreg[q], 1, k)]
     /\ Qreg' = [Qreg EXCEPT ![q] = SubSeq(@, k + 1, Len(@))]
     /\ IF k = 0 /\ ~ refilled[c]
          THEN NextQuery(c)
          ELSE Goto(c, "batch") /\ UNCHANGED it
     /\ UNCHANGED <<progState, client, query_que, active, go, Lreg, wpc,
                    refilled, inhand, spillbuf>>

-----------------------------------------------------------------------------
(* Computing the batch                                                     *)

StartTask(c) ==
  /\ spc[c] = "batch"
  /\ collector[c] # <<>>
  /\ P!Take(c, Head(collector[c]))
  /\ collector' = [collector EXCEPT ![c] = Tail(@)]
  /\ UNCHANGED <<client, query_que, active, go, queues, wpc, spc, scan, inhand,
                 spillbuf>>

\* return true
BatchDone(c) ==
  /\ spc[c] = "batch"
  /\ pc[c] = "free"
  /\ collector[c] = <<>>
  /\ Goto(c, "run")
  /\ UNCHANGED <<progState, client, query_que, active, go, queues, wpc, scan,
                 buffers>>

\* get_next_taskID: an id not used before.  Which one makes no difference.
NextTaskID == CHOOSE t \in Tasks : t \notin born

\* Bound: a task is split only while enough ids are left for the roots of the
\* queries still to come.
HasId == Tasks \ born # {}
IdsLeft == /\ HasId
           /\ Cardinality({q \in Queries \ NoResult : ~ P!HasRoot(q)})
                < Cardinality(Tasks \ born)

\* add_task while computing; the push is the actions below.
SplitTask(c) ==
  /\ spc[c] = "batch"
  /\ IdsLeft
  /\ P!AddTask(c, NextTaskID)
  /\ inhand' = [inhand EXCEPT ![c] = <<NextTaskID>>]
  /\ Goto(c, "push")
  /\ UNCHANGED <<client, query_que, active, go, queues, wpc, scan, collector,
                 spillbuf>>

\* backtrack() up to the root's removal.
Backtrack(c) ==
  /\ spc[c] = "batch"
  /\ P!Complete(c) \/ P!Erase(c) \/ P!GetParent(c) \/ P!DecParent(c)
  /\ UNCHANGED <<client, query_que, active, go, queues, wpc, spc, scan, buffers>>

\* Where backtrack() finds the query; it asserts that it is there.
PositionOf(q) == SelectInSeq(activeQ_list, LAMBDA r : r = q)

\* Faulty variant: the list is changed while other compers scan it.
RemoveQuery_NoWriteLock(c) ==
  /\ P!FinishQuery(c)
  /\ activeQ_list' = RemoveAt(activeQ_list, PositionOf(query_id[prog[c]]))
  /\ activeQ_num' = activeQ_num - 1
  /\ UNCHANGED <<client, query_que, go, queues, wpc, spc, scan, buffers>>

\* backtrack() at the root: the first entry of the query is erased.
RemoveQuery(c) ==
  /\ P!FinishQuery(c)
  /\ Readers = {}
  /\ activeQ_list' = RemoveAt(activeQ_list, PositionOf(query_id[prog[c]]))
  /\ activeQ_num' = activeQ_num - 1
  /\ UNCHANGED <<client, query_que, go, queues, wpc, spc, scan, buffers>>

-----------------------------------------------------------------------------
(* add_regTask and spill_Qreg, for a new task or a refilled one            *)

LockPush(c) ==
  /\ spc[c] = "push"
  /\ Qreg_mtx(Tc(c)) = {}
  /\ Goto(c, "pushing")
  /\ UNCHANGED <<progState, client, query_que, active, go, queues, wpc, scan,
                 buffers>>

\* Faulty variant: an off-by-one in the capacity test.
Push_OffByOne(c) ==
  /\ spc[c] = "pushing"
  /\ Len(Qreg[Tc(c)]) <= Qreg_capacity
  /\ Qreg' = [Qreg EXCEPT ![Tc(c)] = Append(@, Head(inhand[c]))]
  /\ inhand' = [inhand EXCEPT ![c] = Tail(@)]
  /\ Goto(c, CASE Len(inhand[c]) > 1  -> "push"
               [] pc[c] = "compute"   -> "batch"
               [] OTHER               -> "fetch")
  /\ UNCHANGED <<progState, client, query_que, active, go, Lreg, wpc, scan,
                 collector, spillbuf>>

Push(c) ==
  LET q == Tc(c)
      rest == Tail(inhand[c])
  IN /\ spc[c] = "pushing"
     /\ Len(Qreg[q]) < Qreg_capacity
     /\ Qreg' = [Qreg EXCEPT ![q] = Append(@, Head(inhand[c]))]
     /\ inhand' = [inhand EXCEPT ![c] = rest]
     /\ Goto(c, IF rest # <<>> THEN "push"
                ELSE IF pc[c] = "compute" THEN "batch" ELSE "fetch")
     /\ UNCHANGED <<progState, client, query_que, active, go, Lreg, wpc, scan,
                    collector, spillbuf>>

\* The deque is full: pop tasks from the back, then unlock.
Spill(c) ==
  LET q == Tc(c)
      keep == IF Len(Qreg[q]) < RT_TASKS_PER_FILE THEN 0
              ELSE Len(Qreg[q]) - RT_TASKS_PER_FILE
  IN /\ spc[c] = "pushing"
     /\ Len(Qreg[q]) >= Qreg_capacity
     /\ spillbuf' = [spillbuf EXCEPT ![c] =
                       Reverse(SubSeq(Qreg[q], keep + 1, Len(Qreg[q])))]
     /\ Qreg' = [Qreg EXCEPT ![q] = SubSeq(@, 1, keep)]
     /\ Goto(c, "spill")
     /\ UNCHANGED <<progState, client, query_que, active, go, Lreg, wpc, scan,
                    collector, inhand>>

\* Write the file, put it on Lreg, and lock again to retry.
WriteFile(c) ==
  /\ spc[c] = "spill"
  /\ Lreg' = [Lreg EXCEPT ![Tc(c)] = Append(@, spillbuf[c])]
  /\ spillbuf' = [spillbuf EXCEPT ![c] = <<>>]
  /\ Goto(c, "push")
  /\ UNCHANGED <<progState, client, query_que, active, go, Qreg, wpc, scan,
                 collector, inhand>>

-----------------------------------------------------------------------------
(* get_and_process_tasks: spawning a query                                 *)

CheckQueries(c) ==
  /\ spc[c] = "queries"
  /\ Goto(c, IF query_que = <<>> THEN "notfound" ELSE "slot")
  /\ UNCHANGED <<progState, client, query_que, active, go, queues, wpc, scan,
                 buffers>>

\* Under the write lock: reserve a place in activeQ_list.
ReserveSlot(c) ==
  /\ spc[c] = "slot"
  /\ Readers = {}
  /\ IF activeQ_num < activeQ_list_capacity /\ query_que # <<>>
       THEN activeQ_num' = activeQ_num + 1 /\ Goto(c, "deq")
       ELSE Goto(c, "notfound") /\ UNCHANGED activeQ_num
  /\ UNCHANGED <<progState, client, query_que, activeQ_list, go, queues, wpc,
                 scan, buffers>>

\* After the unlock: the queue may have been emptied by another comper.  Then
\* succ is false, and nothing gives the reserved place back.
Dequeue(c) ==
  /\ spc[c] = "deq"
  /\ IF query_que = <<>>
       THEN Goto(c, "notfound") /\ UNCHANGED <<progState, query_que>>
       ELSE /\ P!StartSpawn(c, Head(query_que))
            /\ query_que' = Tail(query_que)
            /\ Goto(c, "spawn")
  /\ UNCHANGED <<client, active, go, queues, wpc, scan, buffers>>

\* task_spawn adds the root task; the container is not published yet, so the
\* push on its Qreg is not disturbed.
SpawnRoot(c) ==
  /\ spc[c] = "spawn"
  /\ cur_qid[c] \notin NoResult
  /\ ~ P!HasRoot(cur_qid[c])
  /\ HasId
  /\ P!AddRootTask(c, NextTaskID)
  /\ Qreg' = [Qreg EXCEPT ![cur_qid[c]] = Append(@, NextTaskID)]
  /\ UNCHANGED <<client, query_que, active, go, Lreg, wpc, spc, scan, buffers>>

\* task_spawn returned true, with or without a task: push_back, return true.
PublishQuery(c) ==
  /\ spc[c] = "spawn"
  /\ P!HasRoot(cur_qid[c]) \/ cur_qid[c] \in NoResult
  /\ P!EndSpawn(c)
  /\ Readers = {}
  /\ activeQ_list' = Append(activeQ_list, cur_qid[c])
  /\ Goto(c, "run")
  /\ UNCHANGED <<client, query_que, activeQ_num, go, queues, wpc, scan, buffers>>

-----------------------------------------------------------------------------
(* run: sleeping on cv_go                                                  *)

Sleep(c) ==
  /\ spc[c] = "notfound"
  /\ ready_go' = FALSE
  /\ global_num_idle' = global_num_idle + 1
  /\ Goto(c, "wait")
  /\ UNCHANGED <<progState, client, query_que, active, server_exit,
                 global_end_label, queues, wpc, scan, buffers>>

\* Faulty variant: the comper goes on counting as idle.
WakeUp_StillIdle(c) ==
  /\ spc[c] = "woken"
  /\ Goto(c, IF ready_go THEN "run" ELSE "wait")
  /\ UNCHANGED <<progState, client, query_que, active, go, queues, wpc, scan,
                 buffers>>

\* Notified, and mtx_go taken again: look at ready_go, which another comper
\* may have reset meanwhile.
WakeUp(c) ==
  /\ spc[c] = "woken"
  /\ IF ready_go
       THEN /\ global_num_idle' = global_num_idle - 1
            /\ Goto(c, "run")
       ELSE Goto(c, "wait") /\ UNCHANGED global_num_idle
  /\ UNCHANGED <<progState, client, query_que, active, server_exit,
                 global_end_label, ready_go, queues, wpc, scan, buffers>>

Comper(c) ==
  \/ RunLoop(c) \/ EndOfList(c) \/ LockReg(c) \/ CheckSize(c) \/ Refill(c)
  \/ LockFetch(c) \/ Pop(c) \/ StartTask(c) \/ BatchDone(c)
  \/ SplitTask(c) \/ SpawnRoot(c)
  \/ Backtrack(c) \/ RemoveQuery(c)
  \/ LockPush(c) \/ Push(c) \/ Spill(c) \/ WriteFile(c)
  \/ CheckQueries(c) \/ ReserveSlot(c) \/ Dequeue(c) \/ PublishQuery(c)
  \/ Sleep(c) \/ WakeUp(c)

-----------------------------------------------------------------------------
(* The worker's main thread                                                *)

\* Under mtx_go: ready_go = true; cv_go.notify_all().
NotifyAll ==
  /\ ready_go' = TRUE
  /\ spc' = [c \in Compers |-> IF spc[c] = "wait" THEN "woken" ELSE spc[c]]

\* update_tasks: drain the message queue up to "server_exit".
UpdateTasks ==
  LET upto == SelectInSeq(inbox, LAMBDA m : m = ServerExit)
      news == IF upto = 0 THEN inbox ELSE SubSeq(inbox, 1, upto - 1)
  IN /\ wpc = "recv"
     /\ ~ server_exit
     /\ query_que' = query_que \o news
     /\ server_exit' = (upto # 0)
     /\ inbox' = IF upto = 0 THEN <<>> ELSE SubSeq(inbox, upto + 1, Len(inbox))
     /\ wpc' = IF news = <<>> THEN "num" ELSE "notifynew"
     /\ UNCHANGED <<progState, sent, active, global_end_label, ready_go,
                    global_num_idle, queues, spc, scan, buffers>>

\* It will not receive new queries after "server_exit".
SkipUpdate ==
  /\ wpc = "recv"
  /\ server_exit
  /\ wpc' = "num"
  /\ UNCHANGED <<progState, client, query_que, active, go, queues, spc, scan,
                 buffers>>

NotifyNew ==
  /\ wpc = "notifynew"
  /\ NotifyAll
  /\ wpc' = "num"
  /\ UNCHANGED <<progState, client, query_que, active, server_exit,
                 global_end_label, global_num_idle, queues, scan, buffers>>

CheckActive ==
  /\ wpc = "num"
  /\ wpc' = IF activeQ_num > 0 THEN "notify" ELSE "que"
  /\ UNCHANGED <<progState, client, query_que, active, go, queues, spc, scan,
                 buffers>>

\* Faulty variant: relies on NotifyNew to have woken somebody.
CheckQueue_NoNotify ==
  /\ wpc = "que"
  /\ wpc' = IF query_que # <<>> THEN "recv" ELSE "end"
  /\ UNCHANGED <<progState, client, query_que, active, go, queues, spc, scan,
                 buffers>>

CheckQueue ==
  /\ wpc = "que"
  /\ wpc' = IF query_que # <<>> THEN "notify" ELSE "end"
  /\ UNCHANGED <<progState, client, query_que, active, go, queues, spc, scan,
                 buffers>>

Notify ==
  /\ wpc = "notify"
  /\ NotifyAll
  /\ wpc' = "recv"
  /\ UNCHANGED <<progState, client, query_que, active, server_exit,
                 global_end_label, global_num_idle, queues, scan, buffers>>

\* Faulty variants: ends without asking whether the compers are idle; ends
\* without waking them.
TryEnd_NotIdle ==
  /\ wpc = "end"
  /\ IF server_exit
       THEN global_end_label' = TRUE /\ NotifyAll /\ wpc' = "exit"
       ELSE wpc' = "recv" /\ UNCHANGED <<global_end_label, ready_go, spc>>
  /\ UNCHANGED <<progState, client, query_que, active, server_exit,
                 global_num_idle, queues, scan, buffers>>

TryEnd_NoNotify ==
  /\ wpc = "end"
  /\ IF global_num_idle = Cardinality(Compers) /\ server_exit
       THEN global_end_label' = TRUE /\ wpc' = "exit"
       ELSE wpc' = "recv" /\ UNCHANGED global_end_label
  /\ UNCHANGED <<progState, client, query_que, active, server_exit, ready_go,
                 global_num_idle, queues, spc, scan, buffers>>

\* Under mtx_go: with every comper idle and no query to come, end.
TryEnd ==
  /\ wpc = "end"
  /\ IF global_num_idle = Cardinality(Compers) /\ server_exit
       THEN /\ global_end_label' = TRUE
            /\ NotifyAll
            /\ wpc' = "exit"
       ELSE wpc' = "recv" /\ UNCHANGED <<global_end_label, ready_go, spc>>
  /\ UNCHANGED <<progState, client, query_que, active, server_exit,
                 global_num_idle, queues, scan, buffers>>

Worker == UpdateTasks \/ SkipUpdate \/ NotifyNew \/ CheckActive \/ CheckQueue
          \/ Notify \/ TryEnd

-----------------------------------------------------------------------------
(* The clients: each query once, then perhaps "server_exit".               *)

Send(m) ==
  /\ m \notin sent
  /\ ServerExit \notin sent
  /\ sent' = sent \cup {m}
  /\ inbox' = Append(inbox, m)
  /\ UNCHANGED <<progState, query_que, active, go, queues, wpc, spc, scan,
                 buffers>>

Client == \E m \in Messages : Send(m)

\* All threads have returned.
Terminated ==
  /\ wpc = "exit"
  /\ \A c \in Compers : spc[c] = "exit"
  /\ UNCHANGED vars

Next == Worker \/ Client \/ (\E c \in Compers : Comper(c)) \/ Terminated

Spec == Init /\ [][Next]_vars

\* The worker loops every 10 ms.  A comper that can run goes on, its compute()
\* returns, and a lock that is released again and again is eventually had:
\* holders keep Qreg_mtx and the read lock for microseconds, and a comper that
\* finds no task sleeps until the worker's next round.
Fairness == /\ WF_vars(Worker)
            /\ \A c \in Compers : SF_vars(Comper(c))

FairSpec == Spec /\ Fairness

-----------------------------------------------------------------------------
(* Properties                                                              *)

QueueTypes ==
  /\ sent \subseteq Messages
  /\ inbox \in Seq(sent)
  /\ query_que \in Seq(Queries)
  /\ activeQ_list \in Seq(Queries)
  /\ activeQ_num \in Nat
  /\ {server_exit, global_end_label, ready_go} \subseteq BOOLEAN
  /\ global_num_idle \in 0 .. Cardinality(Compers)
  /\ Qreg \in [Queries -> Seq(Tasks)]
  /\ Lreg \in [Queries -> Seq(Seq(Tasks))]
  /\ wpc \in WPCs
  /\ spc \in [Compers -> SPCs]
  /\ it \in [Compers -> Nat \ {0}]
  /\ refilled \in [Compers -> BOOLEAN]
  /\ collector \in [Compers -> Seq(Tasks)]
  /\ inhand \in [Compers -> Seq(Tasks)]
  /\ spillbuf \in [Compers -> Seq(Tasks)]

TypeOK == P!TypeOK /\ QueueTypes

\* Where tasks wait: the deque of a query, its spill files, a fetched batch,
\* and what a comper that pushes or spills has in hand.
Boxes == ({"Qreg"} \X Queries \X {0})
         \cup (UNION {{"Lreg"} \X {q} \X DOMAIN Lreg[q] : q \in Queries})
         \cup ({"collector", "inhand", "spillbuf"} \X Compers \X {0})

TasksIn(b) == CASE b[1] = "Qreg"      -> Qreg[b[2]]
                [] b[1] = "Lreg"      -> Lreg[b[2]][b[3]]
                [] b[1] = "collector" -> collector[b[2]]
                [] b[1] = "inhand"    -> inhand[b[2]]
                [] OTHER              -> spillbuf[b[2]]

QueryOf(b) == IF b[1] \in {"Qreg", "Lreg"} THEN b[2] ELSE Tc(b[2])

\* A task that waits is in one place only, one of its own query, through any
\* number of spills and refills; no task is lost and none is there twice.  A
\* fetched batch is of one query.
NoTaskLostOrDuplicated ==
  /\ \A b \in Boxes : IsInjective(TasksIn(b))
  /\ \A a, b \in Boxes :
        a # b => ToSet(TasksIn(a)) \cap ToSet(TasksIn(b)) = {}
  /\ UNION {ToSet(TasksIn(b)) : b \in Boxes} = pending
  /\ \A b \in Boxes : \A t \in ToSet(TasksIn(b)) :
        b[1] # "collector" => query_id[t] = QueryOf(b)
  /\ \A c \in Compers : \A t, u \in ToSet(collector[c]) :
        query_id[t] = query_id[u]

\* The deque of a query never exceeds its capacity, and neither does the
\* number of queries that are active or being spawned.
CapacitiesRespected ==
  /\ \A q \in Queries : Len(Qreg[q]) <= Qreg_capacity
  /\ Len(activeQ_list) + Cardinality({c \in Compers : spc[c] = "spawn"})
       <= activeQ_list_capacity

\* When a query is answered its container is deleted: then no task of it is in
\* its deque, in its spill files, in a comper's hands or being computed, and
\* none will be.  It rests on the counts of the children, on the flag that
\* tells add_task the parent, and on the push that follows the count.
NothingLeftBehind ==
  \A q \in Queries : qstate[q] = "done" =>
     /\ Qreg[q] = <<>> /\ Lreg[q] = <<>>
     /\ \A b \in Boxes : \A t \in ToSet(TasksIn(b)) : query_id[t] # q
     /\ \A c \in Compers : pc[c] = "compute" => cur_qid[c] # q
     /\ \A t \in born : query_id[t] = q => t \in settled /\ completed[t]

\* Though a comper skips the queries whose lock it cannot take, the compers
\* never all sleep while a task waits, in a deque or in a spill file: the
\* worker's claim that "Qreg must be empty" when every thread is waiting.
AllIdleMeansNoTask ==
  global_num_idle = Cardinality(Compers) => pending = {} /\ prog_map = {}

\* The end label is set only when every query received has been answered, no
\* task is left anywhere, and no comper is in a scheduling step; the three
\* conditions it rests on are read one after the other without a common lock.
EndOnlyWhenDone ==
  global_end_label =>
     /\ prog_map = {} /\ pending = {}
     /\ query_que = <<>> /\ activeQ_list = <<>>
     /\ \A c \in Compers : spc[c] \in {"wait", "woken", "run", "exit"}

\* A comper works on a query only while its container is in activeQ_list,
\* and the list holds each active query once.  (The types come with it.)
ContainerAlive ==
  /\ TypeOK
  /\ IsInjective(activeQ_list)
  /\ ToSet(activeQ_list) = {q \in Queries : qstate[q] = "active"}
  /\ \A c \in Compers :
       /\ Scanning(c) /\ spc[c] # "next" => it[c] \in 1 .. Len(activeQ_list)
       /\ spc[c] \in {"push", "pushing", "spill"} => qstate[Tc(c)] = "active"
       /\ \A t \in ToSet(collector[c]) : qstate[query_id[t]] = "active"

\* Every query sent before "server_exit" is answered: removed from the active
\* list with a notification to its client.  The batch client counts on it.
EveryQueryAnswered ==
  \A q \in Queries : q \in sent ~> qstate[q] = "done"

\* Once a client has sent "server_exit", every thread of the server returns.
ServerTerminates ==
  ServerExit \in sent ~> (wpc = "exit" /\ \A c \in Compers : spc[c] = "exit")
=============================================================================

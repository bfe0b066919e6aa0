----------------------------- MODULE Messaging -----------------------------
(***************************************************************************)
(* How clients and servers talk: the two System V message queues of        *)
(* system/msgtool.h, the worker's ends of them (system/workerOL.h,         *)
(* Comper::backtrack), the interactive client (client/run.cpp) and the     *)
(* batch client (client/batchFile_version/run.cpp).                        *)
(*                                                                         *)
(* A queue outlives the process that made it: "x" carries queries to a     *)
(* server, "b" its notifications.  A server takes part from its            *)
(* constructor to its destructor, may crash, and may be started while      *)
(* another runs; experiment/kill.py frees the queues a dead one left.        *)
(*                                                                         *)
(* The engine behind the queues is Scheduler's: here an accepted query     *)
(* takes some time and then produces one notification.                     *)
(***************************************************************************)
EXTENDS Integers, Sequences, FiniteSets, SequencesExt

CONSTANTS
  Servers,        \* runs of the server program
  Interactive, Batch,
  Nobody,
  Query, ServerExit,  \* the two kinds of lines a client may be given
  Scenarios       \* the lines the clients are given, the sizes of the queues

Clients == Interactive \cup Batch
Keys == {"x", "b"}

ASSUME MessagingAssumption ==
  /\ Nobody \notin Servers
  /\ Interactive \cap Batch = {}
  /\ Query # ServerExit
  /\ \A sc \in Scenarios :
       /\ \A c \in Clients : sc.lines[c] \in Seq({Query, ServerExit})
       /\ \A k \in Keys : sc.limit[k] \in Nat \ {0}

VARIABLES
  lines,       \* what each client is given: chosen at the start
  limit,       \* the size of each queue: chosen at the start
  key,         \* which server made the queue a key stands for
  box,         \* the messages in each server's queues
  wpc,         \* each server's control point
  server_exit,
  new_queries, \* queries received and not yet in query_que
  accepted,    \* queries a server has in query_que or works on
  done,        \* queries that were answered
  cpc,         \* each client's control point
  next,        \* the line a client sends next
  qid,         \* the server whose queues a client is attached to
  query_num    \* notifications a batch client waits for

server == <<wpc, server_exit, new_queries, accepted>>
client == <<cpc, next, qid, query_num>>
given == <<lines, limit>>
vars == <<given, key, box, server, done, client>>

Init ==
  /\ \E sc \in Scenarios : lines = sc.lines /\ limit = sc.limit
  /\ key = [k \in Keys |-> Nobody]
  /\ box = [k \in Keys |-> [s \in Servers |-> <<>>]]
  /\ wpc = [s \in Servers |-> "down"]
  /\ server_exit = [s \in Servers |-> FALSE]
  /\ new_queries = [s \in Servers |-> {}]
  /\ accepted = [s \in Servers |-> {}]
  /\ done = {}
  /\ cpc = [c \in Clients |-> "start"]
  /\ next = [c \in Clients |-> 1]
  /\ qid = [c \in Clients |-> [k \in Keys |-> Nobody]]
  /\ query_num = [c \in Clients |-> 0]

\* A message is a line of a client: <<c, i>>.
IsExit(m) == lines[m[1]][m[2]] = ServerExit

\* The queries a batch client loads: the lines before the first server_exit.
Loaded(c) == LET e == SelectInSeq(lines[c], LAMBDA l : l = ServerExit)
             IN  IF e = 0 THEN Len(lines[c]) ELSE e - 1

\* What a client may send as line i; a batch client sends a second exit never.
Lines(c) == 1 .. IF c \in Batch THEN Loaded(c) ELSE Len(lines[c])

Exists(k, s) == s # Nobody /\ key[k] = s
HasRoom(k, s) == Exists(k, s) /\ Len(box[k][s]) < limit[k]

\* IPC_NOWAIT: a message that finds no room, or no queue, is refused.
Sent(k, s, m) == [box EXCEPT ![k][s] = IF HasRoom(k, s) THEN Append(@, m) ELSE @]
-----------------------------------------------------------------------------
(* A server                                                                *)

\* The constructors insist on making their queue (IPC_EXCL), else exit(1):
\* the queue made first then stays behind.
Create(s, k, from, to) ==
  /\ wpc[s] = from
  /\ IF key[k] = Nobody
       THEN key' = [key EXCEPT ![k] = s] /\ wpc' = [wpc EXCEPT ![s] = to]
       ELSE UNCHANGED key /\ wpc' = [wpc EXCEPT ![s] = "failed"]
  /\ UNCHANGED <<given, box, server_exit, new_queries, accepted, done, client>>

CreateServer_Shares(s) ==
  /\ wpc[s] = "down"
  /\ key' = [key EXCEPT !["x"] = s] /\ wpc' = [wpc EXCEPT ![s] = "made"]
  /\ UNCHANGED <<given, box, server_exit, new_queries, accepted, done, client>>
CreateServer(s) == Create(s, "x", "down", "made")
CreateNotifier(s) == Create(s, "b", "made", "recv")

\* update_tasks() takes messages up to the first server_exit.
Receive(s) ==
  /\ wpc[s] = "recv" /\ ~server_exit[s] /\ box["x"][s] # <<>>
  /\ LET m == Head(box["x"][s]) IN
       IF IsExit(m)
         THEN server_exit' = [server_exit EXCEPT ![s] = TRUE] /\ UNCHANGED new_queries
         ELSE new_queries' = [new_queries EXCEPT ![s] = @ \cup {m}] /\ UNCHANGED server_exit
  /\ box' = [box EXCEPT !["x"][s] = Tail(@)]
  /\ UNCHANGED <<given, key, wpc, accepted, done, client>>

\* Nothing more to take, or nothing more wanted: the queries go to query_que.
EnqueueNew(s) ==
  /\ wpc[s] = "recv" /\ (server_exit[s] \/ box["x"][s] = <<>>)
  /\ accepted' = [accepted EXCEPT ![s] = @ \cup new_queries[s]]
  /\ new_queries' = [new_queries EXCEPT ![s] = {}]
  /\ wpc' = [wpc EXCEPT ![s] = "check"]
  /\ UNCHANGED <<given, key, box, server_exit, done, client>>

\* backtrack() reports a query whether or not the notification can be sent.
Finish(s, q) ==
  /\ wpc[s] \in {"recv", "check"} /\ q \in accepted[s]
  /\ accepted' = [accepted EXCEPT ![s] = @ \ {q}]
  /\ done' = done \cup {q}
  /\ box' = Sent("b", s, q)
  /\ UNCHANGED <<given, key, wpc, server_exit, new_queries, client>>

CheckEnd_WantsEmptyQueue(s) ==
  /\ wpc[s] = "check"
  /\ wpc' = [wpc EXCEPT ![s] =
       IF server_exit[s] /\ accepted[s] = {} /\ box["x"][s] = <<>>
         THEN "rmserver" ELSE "recv"]
  /\ UNCHANGED <<given, key, box, server_exit, new_queries, accepted, done, client>>
CheckEnd(s) ==
  /\ wpc[s] = "check"
  /\ wpc' = [wpc EXCEPT ![s] =
       IF server_exit[s] /\ accepted[s] = {} THEN "rmserver" ELSE "recv"]
  /\ UNCHANGED <<given, key, box, server_exit, new_queries, accepted, done, client>>

\* ~Worker deletes server, then notifier: IPC_RMID drops what they hold.
RemoveQueue(s, k, from, to) ==
  /\ wpc[s] = from
  /\ key' = [key EXCEPT ![k] = Nobody]
  /\ box' = [box EXCEPT ![k][s] = <<>>]
  /\ wpc' = [wpc EXCEPT ![s] = to]
  /\ UNCHANGED <<given, server_exit, new_queries, accepted, done, client>>

DeleteServer(s) == RemoveQueue(s, "x", "rmserver", "rmnotifier")
DeleteNotifier_Forgotten(s) ==
  /\ wpc[s] = "rmnotifier" /\ wpc' = [wpc EXCEPT ![s] = "exit"]
  /\ UNCHANGED <<given, key, box, server_exit, new_queries, accepted, done, client>>
DeleteNotifier(s) == RemoveQueue(s, "b", "rmnotifier", "exit")

Alive(s) == wpc[s] \in {"made", "recv", "check", "rmserver", "rmnotifier"}

Crash(s) ==
  /\ Alive(s)
  /\ wpc' = [wpc EXCEPT ![s] = "crashed"]
  /\ UNCHANGED <<given, key, box, server_exit, new_queries, accepted, done, client>>

\* experiment/kill.py, run when the next server does not start.
Clean ==
  /\ \A s \in Servers : ~Alive(s)
  /\ \E k \in Keys : key[k] # Nobody
  /\ key' = [k \in Keys |-> Nobody]
  /\ box' = [k \in Keys |-> [s \in Servers |-> <<>>]]
  /\ UNCHANGED <<given, server, done, client>>

Serve(s) == \/ CreateNotifier(s) \/ Receive(s) \/ EnqueueNew(s)
            \/ \E q \in accepted[s] : Finish(s, q)
            \/ CheckEnd(s) \/ DeleteServer(s) \/ DeleteNotifier(s)
-----------------------------------------------------------------------------
(* A client                                                                *)

Goto(c, l) == cpc' = [cpc EXCEPT ![c] = l]

\* The constructors find both queues or the client exits.
Attach(c) ==
  /\ cpc[c] = "start"
  /\ qid' = [qid EXCEPT ![c]["x"] = key["x"]]
  /\ Goto(c, IF key["x"] = Nobody THEN "failed"
             ELSE IF c \in Batch THEN "attach" ELSE "send")
  /\ UNCHANGED <<given, key, box, server, done, next, query_num>>

AttachReceiver(c) ==
  /\ cpc[c] = "attach"
  /\ qid' = [qid EXCEPT ![c]["b"] = key["b"]]
  /\ Goto(c, IF key["b"] = Nobody THEN "failed" ELSE "send")
  /\ UNCHANGED <<given, key, box, server, done, next, query_num>>

\* The interactive client sends each line once and never looks at an answer.
Type(c) ==
  /\ c \in Interactive /\ cpc[c] = "send" /\ next[c] \in Lines(c)
  /\ box' = Sent("x", qid[c]["x"], <<c, next[c]>>)
  /\ next' = [next EXCEPT ![c] = @ + 1]
  /\ UNCHANGED <<given, key, server, done, cpc, qid, query_num>>

Quit(c) ==
  /\ c \in Interactive /\ cpc[c] = "send" /\ next[c] \notin Lines(c)
  /\ Goto(c, "done")
  /\ UNCHANGED <<given, key, box, server, done, next, qid, query_num>>

\* The batch client tries a query again until there is room for it.
SendQuery_NoRetry(c) ==
  /\ c \in Batch /\ cpc[c] = "send" /\ next[c] \in Lines(c)
  /\ box' = Sent("x", qid[c]["x"], <<c, next[c]>>)
  /\ next' = [next EXCEPT ![c] = @ + 1]
  /\ query_num' = [query_num EXCEPT ![c] = @ + 1]
  /\ UNCHANGED <<given, key, server, done, cpc, qid>>
SendQuery(c) ==
  /\ c \in Batch /\ cpc[c] = "send" /\ next[c] \in Lines(c)
  /\ HasRoom("x", qid[c]["x"])
  /\ box' = Sent("x", qid[c]["x"], <<c, next[c]>>)
  /\ next' = [next EXCEPT ![c] = @ + 1]
  /\ query_num' = [query_num EXCEPT ![c] = @ + 1]
  /\ UNCHANGED <<given, key, server, done, cpc, qid>>

\* server_exit is sent once, whatever becomes of it.
SendExit(c) ==
  /\ c \in Batch /\ cpc[c] = "send" /\ next[c] \notin Lines(c)
  /\ box' = IF Loaded(c) < Len(lines[c])
              THEN Sent("x", qid[c]["x"], <<c, Loaded(c) + 1>>) ELSE box
  /\ Goto(c, IF query_num[c] > 0 THEN "wait" ELSE "done")
  /\ UNCHANGED <<given, key, server, done, next, qid, query_num>>

\* recv_msg() on a queue that was removed ends the client.
Notified(c) ==
  /\ cpc[c] \in {"wait", "drain"} /\ Exists("b", qid[c]["b"])
  /\ box["b"][qid[c]["b"]] # <<>>
  /\ box' = [box EXCEPT !["b"][qid[c]["b"]] = Tail(@)]
  /\ query_num' = [query_num EXCEPT ![c] = @ - 1]
  /\ Goto(c, "drain")
  /\ UNCHANGED <<given, key, server, done, next, qid>>

Stranded(c) ==
  /\ cpc[c] \in {"wait", "drain"} /\ ~Exists("b", qid[c]["b"])
  /\ Goto(c, "failed")
  /\ UNCHANGED <<given, key, box, server, done, next, qid, query_num>>

\* The queue is empty for now: wait on, or all is answered.
Drained_IsEnough(c) ==
  /\ cpc[c] = "drain" /\ Exists("b", qid[c]["b"]) /\ box["b"][qid[c]["b"]] = <<>>
  /\ Goto(c, "done")
  /\ UNCHANGED <<given, key, box, server, done, next, qid, query_num>>
Drained(c) ==
  /\ cpc[c] = "drain" /\ Exists("b", qid[c]["b"]) /\ box["b"][qid[c]["b"]] = <<>>
  /\ Goto(c, IF query_num[c] > 0 THEN "wait" ELSE "done")
  /\ UNCHANGED <<given, key, box, server, done, next, qid, query_num>>

Proceed(c) == \/ AttachReceiver(c) \/ Type(c) \/ Quit(c) \/ SendQuery(c)
              \/ SendExit(c) \/ Notified(c) \/ Stranded(c) \/ Drained(c)
-----------------------------------------------------------------------------
Next == \/ \E s \in Servers : CreateServer(s) \/ Serve(s) \/ Crash(s)
        \/ Clean
        \/ \E c \in Clients : Attach(c) \/ Proceed(c)

Spec == Init /\ [][Next]_vars

\* A process that runs goes on.  Nobody has to start one, to crash, to clean.
FairSpec ==
  /\ Spec
  /\ \A s \in Servers : /\ WF_vars(CreateNotifier(s) \/ Receive(s) \/ EnqueueNew(s) \/ CheckEnd(s))
                        /\ WF_vars(DeleteServer(s) \/ DeleteNotifier(s))
                        /\ WF_vars(\E q \in accepted[s] : Finish(s, q))
  /\ \A c \in Clients : WF_vars(Proceed(c))
-----------------------------------------------------------------------------
Messages(c) == {c} \X Lines(c)

TypeOK ==
  /\ key \in [Keys -> Servers \cup {Nobody}]
  /\ \A k \in Keys, s \in Servers :
       /\ Range(box[k][s]) \subseteq UNION {{c} \X (1 .. Len(lines[c])) : c \in Clients}
       /\ Len(box[k][s]) <= limit[k]
  /\ \A s \in Servers : accepted[s] \cup new_queries[s] \subseteq UNION {Messages(c) : c \in Clients}
  /\ \A c \in Clients : query_num[c] \in Int

\* A server that has got past its constructors owns both keys until it
\* removes them, whoever else was started, failed or crashed before or since
\* (IPC_EXCL and IPC_RMID in msgtool.h).  (The types come with it.)
ServesItsOwnQueues ==
  /\ TypeOK
  /\ \A s \in Servers :
       /\ wpc[s] \in {"made", "recv", "check", "rmserver"} => key["x"] = s
       /\ wpc[s] \in {"recv", "check", "rmserver", "rmnotifier"} => key["b"] = s

\* Only client c sends queries.
Alone(c) == \A d \in Clients \ {c} : Query \notin Range(lines[d])

\* When a batch client that is alone prints its total time, each of its
\* queries was answered: although it only counts notifications, it never stops
\* early (batchFile_version/run.cpp 55-70).
ReturnedMeansDone ==
  \A c \in Batch : cpc[c] = "done" /\ Alone(c) => Messages(c) \subseteq done

\* A batch client that is alone, and whose notifications fit the queue, gets
\* past its waiting loops unless a server dies or is told to stop: no retry
\* and no notification is lost.
AloneReturns ==
  \A c \in Batch :
    /\ Alone(c) /\ Loaded(c) <= limit["b"]
    /\ \A d \in Clients : ServerExit \notin Range(lines[d])
    => cpc[c] = "send" ~> cpc[c] = "done" \/ \E s \in Servers : wpc[s] = "crashed"

\* A server_exit that reaches the queue of a running server ends it and frees
\* both keys, whatever was sent before or behind it, unless the server dies.
ExitStops ==
  \A s \in Servers :
    wpc[s] = "recv" /\ (\E i \in DOMAIN box["x"][s] : IsExit(box["x"][s][i]))
      ~> wpc[s] \in {"exit", "crashed"}

\* A batch client that waits for a server that has ended does not wait for
\* ever: it returns, or fails on the removed queue.
NobodyWaitsForTheDead ==
  \A c \in Batch, s \in Servers :
    cpc[c] \in {"wait", "drain"} /\ qid[c]["b"] = s /\ wpc[s] = "exit"
      ~> cpc[c] \in {"done", "failed"}
=============================================================================

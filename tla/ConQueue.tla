------------------------------ MODULE ConQueue ------------------------------
(***************************************************************************)
(* conque<T> of system/conque.h: a linked list with a dummy node at its    *)
(* head, a lock for dequeuers and another for enqueuers.  query_que and    *)
(* the lists of spill files Lreg and Lbig are such queues.                 *)
(*                                                                         *)
(* Nodes are addresses: `new' returns any address not in use, and one that *)
(* was deleted may come back.  The two locks let an enqueuer and a         *)
(* dequeuer work at the same time, on the same node when the queue is      *)
(* nearly empty; each of their accesses to shared memory is a step.  The   *)
(* `next' pointers are stored and loaded with memory_order_relaxed: the    *)
(* value of a node is visible to whoever sees the pointer only because the *)
(* build (x86) does not reorder stores.                                    *)
(***************************************************************************)
EXTENDS Naturals, Sequences, FiniteSets, SequencesExt

CONSTANTS Producers, Consumers, Values, Nodes,
          NULL,
          Garbage,  \* what memory holds after new, before it is written
          MaxBatch, \* bound: longest vector given to enqueue(vector&)
          None, Failed, NonEmpty

ASSUME ConQueueAssumption ==
  /\ IsFiniteSet(Nodes)      \* there are finitely many addresses
  /\ NULL \notin Nodes \cup Producers \cup Consumers
  /\ Garbage \notin Nodes \cup Values \cup {NULL}
  /\ Producers \cap Consumers = {}
  /\ Values \cap {None, Failed, NonEmpty} = {}
  /\ MaxBatch \in Nat

VARIABLES
  next, value,     \* the fields of the nodes
  allocated,       \* the nodes that new has returned and delete not taken back
  head, tail,
  q_h_lock, q_t_lock, \* the thread that holds the lock, NULL if none
  pc,              \* where each thread is in its operation
  nodes,           \* a producer's new nodes
  node, new_head,  \* a dequeuer's locals
  answer,          \* the latest answer each consumer got
  given            \* history: the values enqueued so far (bound: each once)

memory == <<next, value, allocated>>
vars == <<memory, head, tail, q_h_lock, q_t_lock, pc, nodes, node, new_head,
          answer, given>>

Threads == Producers \cup Consumers

Init == \E d \in Nodes :
  /\ head = d /\ tail = d
  /\ allocated = {d}
  /\ next = [n \in Nodes |-> IF n = d THEN NULL ELSE Garbage]
  /\ value = [n \in Nodes |-> Garbage]
  /\ q_h_lock = NULL /\ q_t_lock = NULL
  /\ pc = [t \in Threads |-> "idle"]
  /\ nodes = [p \in Producers |-> <<>>]
  /\ node = [c \in Consumers |-> NULL]
  /\ new_head = [c \in Consumers |-> NULL]
  /\ answer = [c \in Consumers |-> None]
  /\ given = {}

Goto(t, l) == pc' = [pc EXCEPT ![t] = l]

-----------------------------------------------------------------------------
(* enqueue: both overloads; a single value is a batch of one               *)

Batches == {vs \in UNION {[1 .. n -> Values] : n \in 1 .. MaxBatch} :
              IsInjective(vs)}

NodesOf(p) == ToSet(nodes[p])

\* new NODE for every value, and node->value = value; no lock is held.
NewNodes(p, vs, ns) ==
  /\ pc[p] = "idle"
  /\ ToSet(vs) \cap given = {}
  /\ Len(ns) = Len(vs)
  /\ ToSet(ns) \cap allocated = {}
  /\ given' = given \cup ToSet(vs)
  /\ allocated' = allocated \cup ToSet(ns)
  /\ next' = [n \in Nodes |-> IF n \in ToSet(ns) THEN Garbage ELSE next[n]]
  /\ value' = [n \in Nodes |-> IF n \in ToSet(ns)
                                 THEN vs[CHOOSE i \in DOMAIN ns : ns[i] = n]
                                 ELSE value[n]]
  /\ nodes' = [nodes EXCEPT ![p] = ns]
  /\ Goto(p, "link")
  /\ UNCHANGED <<head, tail, q_h_lock, q_t_lock, node, new_head, answer>>

\* The pointers inside the batch: nodes[i]->next, and NULL for the last.
Linked(f, ns) ==
  [n \in DOMAIN f |->
     IF n \in ToSet(ns)
       THEN LET i == CHOOSE j \in DOMAIN ns : ns[j] = n
            IN IF i = Len(ns) THEN NULL ELSE ns[i + 1]
       ELSE f[n]]

\* Under q_t_lock: link the batch, then make it visible with one store.
Link(p) ==
  /\ pc[p] = "link"
  /\ q_t_lock = NULL
  /\ q_t_lock' = p
  /\ next' = [Linked(next, nodes[p]) EXCEPT ![tail] = nodes[p][1]]
  /\ Goto(p, "tail")
  /\ UNCHANGED <<value, allocated, head, tail, q_h_lock, nodes, node, new_head,
                 answer, given>>

\* Faulty variant: the first node of the batch becomes the tail.
SetTail_First(p) ==
  /\ pc[p] = "tail"
  /\ tail' = nodes[p][1]
  /\ q_t_lock' = NULL
  /\ nodes' = [nodes EXCEPT ![p] = <<>>]
  /\ Goto(p, "idle")
  /\ UNCHANGED <<memory, head, q_h_lock, node, new_head, answer, given>>

\* tail = the last new node; the guard unlocks.
SetTail(p) ==
  /\ pc[p] = "tail"
  /\ tail' = Last(nodes[p])
  /\ q_t_lock' = NULL
  /\ nodes' = [nodes EXCEPT ![p] = <<>>]
  /\ Goto(p, "idle")
  /\ UNCHANGED <<memory, head, q_h_lock, node, new_head, answer, given>>

-----------------------------------------------------------------------------
(* dequeue and empty                                                       *)

\* The caller is ready for another operation.
Call(c) ==
  /\ pc[c] = "idle"
  /\ answer[c] # None
  /\ answer' = [answer EXCEPT ![c] = None]
  /\ UNCHANGED <<memory, head, tail, q_h_lock, q_t_lock, pc, nodes, node,
                 new_head, given>>

\* Faulty variant: the head is loaded without the lock.
LoadHead_Unlocked(c) ==
  /\ pc[c] = "idle"
  /\ answer[c] = None
  /\ next[head] # NULL
  /\ node' = [node EXCEPT ![c] = head]
  /\ new_head' = [new_head EXCEPT ![c] = next[head]]
  /\ Goto(c, "take")
  /\ UNCHANGED <<memory, head, tail, q_h_lock, q_t_lock, nodes, answer, given>>

\* Lock, load head->next; on NULL unlock and return false.
LoadHead(c) ==
  /\ pc[c] = "idle"
  /\ answer[c] = None
  /\ q_h_lock = NULL
  /\ IF next[head] = NULL
       THEN /\ answer' = [answer EXCEPT ![c] = Failed]
            /\ UNCHANGED <<q_h_lock, pc, node, new_head>>
       ELSE /\ q_h_lock' = c
            /\ node' = [node EXCEPT ![c] = head]
            /\ new_head' = [new_head EXCEPT ![c] = next[head]]
            /\ Goto(c, "take")
            /\ UNCHANGED answer
  /\ UNCHANGED <<memory, head, tail, q_t_lock, nodes, given>>

\* to_get = new_head->value; head = new_head; unlock.
TakeValue(c) ==
  /\ pc[c] = "take"
  /\ answer' = [answer EXCEPT ![c] = value[new_head[c]]]
  /\ head' = new_head[c]
  /\ q_h_lock' = NULL
  /\ Goto(c, "delete")
  /\ UNCHANGED <<memory, tail, q_t_lock, nodes, node, new_head, given>>

\* Faulty variant: the old dummy is not deleted.
DeleteNode_Forgotten(c) ==
  /\ pc[c] = "delete"
  /\ node' = [node EXCEPT ![c] = NULL]
  /\ new_head' = [new_head EXCEPT ![c] = NULL]
  /\ Goto(c, "idle")
  /\ UNCHANGED <<memory, head, tail, q_h_lock, q_t_lock, nodes, answer, given>>

\* Faulty variant: deletes the node it leaves as the new dummy.
DeleteNode_NewHead(c) ==
  /\ pc[c] = "delete"
  /\ allocated' = allocated \ {new_head[c]}
  /\ Goto(c, "idle")
  /\ UNCHANGED <<next, value, head, tail, q_h_lock, q_t_lock, nodes, node,
                 new_head, answer, given>>

\* delete node, the old dummy, after the unlock.
DeleteNode(c) ==
  /\ pc[c] = "delete"
  /\ allocated' = allocated \ {node[c]}
  /\ node' = [node EXCEPT ![c] = NULL]
  /\ new_head' = [new_head EXCEPT ![c] = NULL]
  /\ Goto(c, "idle")
  /\ UNCHANGED <<next, value, head, tail, q_h_lock, q_t_lock, nodes, answer,
                 given>>

\* empty(): under q_h_lock, is head->next NULL?
Empty(c) ==
  /\ pc[c] = "idle"
  /\ answer[c] = None
  /\ q_h_lock = NULL
  /\ answer' = [answer EXCEPT ![c] = IF next[head] = NULL THEN Failed
                                                          ELSE NonEmpty]
  /\ UNCHANGED <<memory, head, tail, q_h_lock, q_t_lock, pc, nodes, node,
                 new_head, given>>

-----------------------------------------------------------------------------
NodeSeqs == {ns \in UNION {[1 .. n -> Nodes] : n \in 1 .. MaxBatch} :
               IsInjective(ns)}

Next ==
  \/ \E p \in Producers :
        \/ \E vs \in Batches, ns \in NodeSeqs : NewNodes(p, vs, ns)
        \/ Link(p)
        \/ SetTail(p)
  \/ \E c \in Consumers :
        Call(c) \/ LoadHead(c) \/ TakeValue(c) \/ DeleteNode(c) \/ Empty(c)

Spec == Init /\ [][Next]_vars

-----------------------------------------------------------------------------
(* Properties                                                              *)

TypeOK ==
  /\ next \in [Nodes -> Nodes \cup {NULL, Garbage}]
  /\ value \in [Nodes -> Values \cup {Garbage}]
  /\ allocated \subseteq Nodes
  /\ head \in Nodes /\ tail \in Nodes
  /\ q_h_lock \in Consumers \cup {NULL}
  /\ q_t_lock \in Producers \cup {NULL}
  /\ pc \in [Threads -> {"idle", "link", "tail", "take", "delete"}]
  /\ nodes \in [Producers -> Seq(Nodes)]
  /\ node \in [Consumers -> Nodes \cup {NULL}]
  /\ new_head \in [Consumers -> Nodes \cup {NULL}]
  /\ answer \in [Consumers -> Values \cup {None, Failed, NonEmpty}]
  /\ given \subseteq Values

\* The nodes after n, as the pointers lead; at most as many as there are.
Longer(w) == IF next[Last(w)] \in Nodes THEN Append(w, next[Last(w)]) ELSE w

After(n) ==
  LET walk[k \in 0 .. Cardinality(Nodes)] ==
        IF k = 0 THEN <<n>> ELSE Longer(walk[k - 1])
  IN Tail(walk[Cardinality(Nodes)])

\* No deleted node is dereferenced, though the two ends of a nearly empty
\* queue meet in one node: not by a dequeuer (head, new_head), not by the
\* enqueuer that stores tail->next; and the node about to be deleted is no
\* longer reachable and is deleted once.
NoUseAfterFree ==
  /\ head \in allocated /\ ToSet(After(head)) \subseteq allocated
  /\ q_t_lock = NULL => tail \in allocated
  /\ \A c \in Consumers :
        /\ pc[c] = "take" => {node[c], new_head[c]} \subseteq allocated
        /\ pc[c] = "delete" =>
              /\ node[c] \in allocated \ ({head} \cup ToSet(After(head)))
              /\ \A d \in Consumers \ {c} : pc[d] = "delete" => node[c] # node[d]

\* No pointer that was never written is followed: the list ends in NULL, in
\* the tail or in the batch that is about to become the tail.  (The types come
\* with it.)
ListWellFormed ==
  LET end == Last(<<head>> \o After(head))
  IN /\ TypeOK
     /\ next[end] = NULL
     /\ end = IF q_t_lock = NULL THEN tail ELSE Last(nodes[q_t_lock])

\* No node is leaked: what is allocated is in the list, or is about to be
\* inserted or to be deleted.
NoLeak ==
  allocated = {head} \cup ToSet(After(head))
              \cup (UNION {NodesOf(p) : p \in {r \in Producers : pc[r] = "link"}})
              \cup {node[c] : c \in {d \in Consumers : pc[d] = "delete"}}

\* The operations take effect in one instant each, in queue order.
Abstract == INSTANCE Fifo WITH
  queue <- [i \in 1 .. Len(After(head)) |-> value[After(head)[i]]]

ImplementsFifo == Abstract!Spec
=============================================================================

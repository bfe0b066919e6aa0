---------------------------- MODULE ConQueueProof ----------------------------
(***************************************************************************)
(* Proofs about ConQueue, for any sets of threads, values and addresses    *)
(* and any length of a batch.                                              *)
(*                                                                         *)
(* The argument: there is always a sequence l of distinct nodes, from head *)
(* to a node whose next is NULL, along which the pointers lead (Linked     *)
(* List); every step changes it at one end only.  After, the walk along    *)
(* the pointers that the properties speak of, is the tail of l.            *)
(***************************************************************************)
EXTENDS ConQueue, ProofLemmas

\* l is what the pointers lead along, from head to NULL.
LinkedList(l) ==
  /\ l \in Seq(Nodes) /\ Len(l) # 0
  /\ \A i, j \in 1 .. Len(l) : l[i] = l[j] => i = j
  /\ l[1] = head
  /\ \A i \in 1 .. Len(l) - 1 : next[l[i]] = l[i + 1]
  /\ next[l[Len(l)]] = NULL

-----------------------------------------------------------------------------
(* The walk along the pointers                                             *)

\* The sequence of distinct nodes is no longer than there are nodes.
LEMMA ListIsShort ==
  ASSUME NEW l \in Seq(Nodes), \A i, j \in 1 .. Len(l) : l[i] = l[j] => i = j
  PROVE  /\ Cardinality(Nodes) \in Nat
         /\ Len(l) <= Cardinality(Nodes)
<1>1. IsFiniteSet(Nodes)
  BY ConQueueAssumption
<1>2. l \in [1 .. Len(l) -> Nodes] /\ Len(l) \in Nat
  BY LenProperties
<1>3. l \in Injection(1 .. Len(l), Nodes)
  BY <1>2 DEF Injection, IsInjective
<1>4. Cardinality(1 .. Len(l)) <= Cardinality(Nodes)
  BY <1>1, <1>3, FS_Injection
<1>5. Cardinality(1 .. Len(l)) = Len(l)
  BY <1>2, IntervalSize
<1> QED
  BY <1>1, <1>4, <1>5, FS_CardinalityType

\* The first k + 1 nodes of the list, or all of them.
Prefix(l, k) == SubSeq(l, 1, IF k < Len(l) THEN k + 1 ELSE Len(l))

LEMMA PrefixGrows ==
  ASSUME ConQueueAssumption, NEW l, LinkedList(l), NEW k \in Nat \ {0}
  PROVE  Prefix(l, k) = Longer(Prefix(l, k - 1))
<1> DEFINE w == Prefix(l, k - 1)
<1>1. /\ l \in Seq(Nodes) /\ Len(l) \in Nat \ {0}
      /\ \A i \in 1 .. Len(l) : l[i] \in Nodes
  BY LenProperties DEF LinkedList
<1>2. CASE k < Len(l)
  <2>1. w = SubSeq(l, 1, k) /\ Prefix(l, k) = SubSeq(l, 1, k + 1)
    BY <1>1, <1>2 DEF Prefix
  <2>2. /\ w \in Seq(Nodes) /\ Len(w) = k
        /\ \A i \in 1 .. k : w[i] = l[i]
    BY <1>1, <1>2, <2>1, SubSeqProperties
  <2>3. w[Len(w)] = l[k] /\ next[l[k]] = l[k + 1] /\ l[k + 1] \in Nodes
    BY <1>1, <1>2, <2>2 DEF LinkedList
  <2>4. Longer(w) = Append(w, l[k + 1])
    BY <2>3 DEF Longer, Last
  <2>5. SubSeq(l, 1, k + 1) = SubSeq(l, 1, k) \o <<l[k + 1]>>
    BY <1>1, <1>2, SubSeqRecursiveSecond
  <2>6. Append(w, l[k + 1]) = w \o <<l[k + 1]>>
    BY <2>2, <2>3, AppendIsConcat
  <2> QED
    BY <2>1, <2>4, <2>5, <2>6
<1>3. CASE ~ (k < Len(l))
  <2>1. w = SubSeq(l, 1, Len(l)) /\ Prefix(l, k) = SubSeq(l, 1, Len(l))
    BY <1>1, <1>3 DEF Prefix
  <2>2. w = l
    BY <1>1, <2>1, SubSeqFull
  <2>3. next[Last(w)] \notin Nodes
    BY <2>2, ConQueueAssumption DEF LinkedList, Last
  <2> QED
    BY <2>1, <2>3 DEF Longer
<1> QED
  BY <1>2, <1>3

\* What After computes.
LEMMA AfterHead ==
  ASSUME NEW l, LinkedList(l)
  PROVE  After(head) = Tail(l)
<1> DEFINE N == Cardinality(Nodes)
           G == [k \in 0 .. N |-> Prefix(l, k)]
<1>1. N \in Nat /\ Len(l) <= N /\ Len(l) \in Nat \ {0} /\ l \in Seq(Nodes)
  BY ListIsShort, LenProperties DEF LinkedList
<1>2. Prefix(l, 0) = <<head>>
  <2>1. Prefix(l, 0) = SubSeq(l, 1, 1)
    BY <1>1 DEF Prefix
  <2>2. SubSeq(l, 1, 1) = SubSeq(l, 1, 0) \o <<l[1]>> /\ l[1] \in Nodes
    BY <1>1, SubSeqRecursiveSecond, LenProperties
  <2>3. SubSeq(l, 1, 0) = << >>
    BY SubSeqEmpty
  <2>4. << >> \o <<l[1]>> = <<l[1]>>
    OBVIOUS
  <2> QED
    BY <2>1, <2>2, <2>3, <2>4 DEF LinkedList
<1>3. G = [k \in 0 .. N |-> IF k = 0 THEN <<head>> ELSE Longer(G[k - 1])]
  BY <1>1, <1>2, PrefixGrows, ConQueueAssumption
<1> HIDE DEF G
<1>4. PICK h : /\ h = [k \in 0 .. N |->
                         IF k = 0 THEN <<head>> ELSE Longer(h[k - 1])]
               /\ After(head) = Tail(h[N])
  BY <1>3 DEF After
<1>5. \A k \in 0 .. N : h[k] = G[k]
  <2> DEFINE T == {k \in 0 .. N : h[k] # G[k]}
  <2> SUFFICES ASSUME T # {} PROVE FALSE
    OBVIOUS
  <2>1. PICK x \in T : \A y \in T : x <= y
    <3>1. T \subseteq Nat
      BY <1>1
    <3> HIDE DEF T
    <3> QED
      BY <3>1, LeastNatural
  <2>2. x # 0
    BY <1>1, <1>3, <1>4
  <2>3. x - 1 \in 0 .. N /\ x - 1 \notin T
    BY <1>1, <2>1, <2>2
  <2>4. h[x] = Longer(h[x - 1]) /\ G[x] = Longer(G[x - 1])
    BY <1>1, <1>3, <1>4, <2>2
  <2> QED
    BY <2>3, <2>4
<1>6. h[N] = Prefix(l, N)
  BY <1>1, <1>5 DEF G
<1>7. Prefix(l, N) = SubSeq(l, 1, Len(l))
  BY <1>1 DEF Prefix
<1> QED
  BY <1>1, <1>4, <1>6, <1>7, SubSeqFull

\* The head and what comes after it.
LEMMA WholeList ==
  ASSUME NEW l, LinkedList(l)
  PROVE  /\ <<head>> \o After(head) = l
         /\ {head} \cup ToSet(After(head)) = Elements(l)
<1>1. /\ l \in Seq(Nodes) /\ Len(l) \in Nat \ {0} /\ l # << >> /\ l[1] = head
      /\ l \in [1 .. Len(l) -> Nodes] /\ head \in Nodes
  BY LenProperties DEF LinkedList
<1>2. After(head) = Tail(l)
  BY AfterHead
<1>3. /\ Tail(l) \in Seq(Nodes) /\ Len(Tail(l)) = Len(l) - 1
      /\ \A i \in 1 .. Len(Tail(l)) : Tail(l)[i] = l[i + 1]
      /\ DOMAIN Tail(l) = 1 .. Len(l) - 1
  BY <1>1, HeadTailProperties, LenProperties
<1>4. <<head>> \o Tail(l) = l
  <2>1. <<head>> \in Seq(Nodes) /\ Len(<<head>>) = 1 /\ <<head>>[1] = head
    BY <1>1
  <2> DEFINE w == <<head>> \o Tail(l)
  <2>2. /\ w \in Seq(Nodes) /\ Len(w) = Len(<<head>>) + Len(Tail(l))
        /\ \A i \in 1 .. Len(<<head>>) + Len(Tail(l)) : w[i] =
              IF i <= Len(<<head>>) THEN <<head>>[i] ELSE Tail(l)[i - Len(<<head>>)]
    BY <1>3, <2>1, ConcatProperties
  <2> HIDE DEF w
  <2>3. Len(w) = Len(l)
    BY <1>1, <1>3, <2>1, <2>2
  <2>4. ASSUME NEW i \in 1 .. Len(w) PROVE w[i] = l[i]
    <3>1. CASE i = 1
      BY <1>1, <2>1, <2>2, <2>3, <3>1
    <3>2. CASE i # 1
      <4>1. /\ i - 1 \in 1 .. Len(Tail(l)) /\ (i - 1) + 1 = i
            /\ ~ (i <= 1) /\ i \in 1 .. 1 + Len(Tail(l))
        BY <1>1, <1>3, <2>3, <3>2
      <4> QED
        BY <1>3, <2>1, <2>2, <4>1
    <3> QED
      BY <3>1, <3>2
  <2>5. w = l
    BY <1>1, <2>2, <2>3, <2>4, SeqEqual
  <2> QED
    BY <2>5 DEF w
<1>5. ToSet(Tail(l)) = {l[i] : i \in 2 .. Len(l)}
  <2>1. ToSet(Tail(l)) = {Tail(l)[i] : i \in 1 .. Len(l) - 1}
    BY <1>3 DEF ToSet
  <2>2. \A i \in 1 .. Len(l) - 1 : Tail(l)[i] = l[i + 1] /\ i + 1 \in 2 .. Len(l)
    BY <1>1, <1>3
  <2>3. \A i \in 2 .. Len(l) : i - 1 \in 1 .. Len(l) - 1 /\ Tail(l)[i - 1] = l[i]
    BY <1>1, <1>3
  <2>4. ASSUME NEW x \in ToSet(Tail(l)) PROVE x \in {l[i] : i \in 2 .. Len(l)}
    BY <2>1, <2>2
  <2>5. ASSUME NEW x \in {l[i] : i \in 2 .. Len(l)} PROVE x \in ToSet(Tail(l))
    <3>1. PICK i \in 2 .. Len(l) : x = l[i]
      OBVIOUS
    <3> QED
      BY <2>1, <2>3, <3>1
  <2> QED
    BY <2>4, <2>5
<1>6. {head} \cup {l[i] : i \in 2 .. Len(l)} = Elements(l)
  <2>1. \A i \in 1 .. Len(l) : i = 1 \/ i \in 2 .. Len(l)
    BY <1>1
  <2>2. 1 \in 1 .. Len(l) /\ \A i \in 2 .. Len(l) : i \in 1 .. Len(l)
    BY <1>1
  <2> QED
    BY <1>1, <2>1, <2>2 DEF Elements
<1> QED
  BY <1>2, <1>4, <1>5, <1>6

-----------------------------------------------------------------------------
(* The inductive invariant, for the list l                                 *)

\* A producer's nodes hold a batch of values; before they are linked nobody
\* else has them.
ProducerOK(l, p) ==
  /\ pc[p] \in {"idle", "link", "tail"}
  /\ pc[p] = "tail" <=> q_t_lock = p
  /\ pc[p] # "idle" => Len(nodes[p]) # 0 /\ Distinct(nodes[p])
  /\ pc[p] = "link" =>
       /\ Elements(nodes[p]) \subseteq allocated \ Elements(l)
       /\ [i \in 1 .. Len(nodes[p]) |-> value[nodes[p][i]]] \in Batches
       /\ \A r \in Producers \ {p} :
            pc[r] = "link" => Elements(nodes[p]) \cap Elements(nodes[r]) = {}

ProducersOK(l) == \A p \in Producers : ProducerOK(l, p)

\* The list ends where the tail says, or will say when the lock is free.
TailOK(l) ==
  l[Len(l)] = IF q_t_lock = NULL THEN tail
                                 ELSE nodes[q_t_lock][Len(nodes[q_t_lock])]

ConsumerOK(l, c) ==
  /\ pc[c] \in {"idle", "take", "delete"}
  /\ pc[c] = "take" <=> q_h_lock = c
  /\ pc[c] = "take" => Len(l) > 1 /\ node[c] = l[1] /\ new_head[c] = l[2]
  /\ pc[c] = "delete" =>
       /\ node[c] \in allocated \ Elements(l)
       /\ \A p \in Producers : pc[p] = "link" => node[c] \notin Elements(nodes[p])
       /\ \A d \in Consumers \ {c} : pc[d] = "delete" => node[d] # node[c]

ConsumersOK(l) == \A c \in Consumers : ConsumerOK(l, c)

\* Every allocated node is in the list, in a batch or about to be deleted,
\* and those of the list but the dummy hold values.
MemoryOK(l) ==
  /\ Elements(l) \subseteq allocated
  /\ \A i \in 2 .. Len(l) : value[l[i]] \in Values
  /\ \A n \in allocated \ Elements(l) :
        \/ \E p \in Producers : pc[p] = "link" /\ n \in Elements(nodes[p])
        \/ \E c \in Consumers : pc[c] = "delete" /\ n = node[c]

Inv(l) == /\ TypeOK /\ LinkedList(l) /\ ProducersOK(l) /\ TailOK(l)
          /\ ConsumersOK(l) /\ MemoryOK(l)

IInv == \E l \in Seq(Nodes) : Inv(l)

-----------------------------------------------------------------------------
(* Facts about batches                                                     *)

LEMMA ToSetIsElements ==
  ASSUME NEW S, NEW s \in Seq(S)
  PROVE  ToSet(s) = Elements(s)
<1>1. DOMAIN s = 1 .. Len(s)
  BY LenProperties
<1> QED
  BY <1>1 DEF ToSet, Elements

\* The place of a node in a sequence of distinct nodes is the only one.
LEMMA PlaceOf ==
  ASSUME NEW ns \in Seq(Nodes), Distinct(ns), NEW i \in 1 .. Len(ns)
  PROVE  (CHOOSE j \in DOMAIN ns : ns[j] = ns[i]) = i
<1>1. DOMAIN ns = 1 .. Len(ns)
  BY LenProperties
<1> QED
  BY <1>1 DEF Distinct

\* What an enqueuer is given: distinct new nodes.
LEMMA NodeSeqFacts ==
  ASSUME NEW ns \in NodeSeqs
  PROVE  /\ ns \in Seq(Nodes) /\ Len(ns) \in Nat \ {0}
         /\ DOMAIN ns = 1 .. Len(ns)
         /\ Distinct(ns)
         /\ \A i \in 1 .. Len(ns) : ns[i] \in Nodes
         /\ ToSet(ns) = Elements(ns)
<1>1. PICK n \in 1 .. MaxBatch : ns \in [1 .. n -> Nodes]
  BY DEF NodeSeqs
<1>2. n \in Nat \ {0}
  BY <1>1, ConQueueAssumption
<1>3. ns \in Seq(Nodes)
  BY <1>1, <1>2, SeqDef
<1>4. DOMAIN ns = 1 .. Len(ns) /\ Len(ns) \in Nat
  BY <1>3, LenProperties
<1>5. Len(ns) = n
  BY <1>1, <1>2, <1>4
<1>6. Distinct(ns)
  BY <1>4 DEF NodeSeqs, IsInjective, Distinct
<1>7. ToSet(ns) = Elements(ns)
  BY <1>3, ToSetIsElements
<1> QED
  BY <1>1, <1>2, <1>3, <1>4, <1>5, <1>6, <1>7

LEMMA ListFacts ==
  ASSUME NEW l, LinkedList(l)
  PROVE  /\ l \in Seq(Nodes) /\ Len(l) \in Nat \ {0}
         /\ \A i \in 1 .. Len(l) : l[i] \in Nodes
         /\ head \in Elements(l) /\ head \in Nodes
<1>1. l \in [1 .. Len(l) -> Nodes] /\ Len(l) \in Nat \ {0}
  BY LenProperties DEF LinkedList
<1> QED
  BY <1>1 DEF LinkedList, Elements

LEMMA BatchFacts ==
  ASSUME NEW vs \in Batches
  PROVE  /\ vs \in Seq(Values) /\ Len(vs) \in Nat \ {0}
         /\ vs = [i \in 1 .. Len(vs) |-> vs[i]]
         /\ \A i \in 1 .. Len(vs) : vs[i] \in Values
<1>1. PICK n \in 1 .. MaxBatch : vs \in [1 .. n -> Values]
  BY DEF Batches
<1>2. n \in Nat \ {0}
  BY <1>1, ConQueueAssumption
<1>3. vs \in Seq(Values)
  BY <1>1, <1>2, SeqDef
<1>4. DOMAIN vs = 1 .. Len(vs) /\ Len(vs) \in Nat
  BY <1>3, LenProperties
<1>5. Len(vs) = n
  BY <1>1, <1>2, <1>4
<1> QED
  BY <1>1, <1>2, <1>3, <1>5

-----------------------------------------------------------------------------
(* Each action preserves the invariant                                     *)

LEMMA NewNodesStep ==
  ASSUME NEW l, Inv(l), NEW p \in Producers,
         NEW vs \in Batches, NEW ns \in NodeSeqs, NewNodes(p, vs, ns)
  PROVE  Inv(l)'
<1>1. /\ ns \in Seq(Nodes) /\ Len(ns) \in Nat \ {0} /\ Distinct(ns)
      /\ ToSet(ns) = Elements(ns) /\ \A i \in 1 .. Len(ns) : ns[i] \in Nodes
      /\ \A i \in 1 .. Len(ns) : ns[i] \in Elements(ns)
  BY NodeSeqFacts DEF Elements
<1>2. /\ l \in Seq(Nodes) /\ Len(l) \in Nat \ {0}
      /\ \A i \in 1 .. Len(l) : l[i] \in Nodes /\ l[i] \in allocated
      /\ Elements(l) \subseteq allocated
  BY ListFacts DEF Inv, MemoryOK, Elements
<1>3. /\ Elements(ns) \cap allocated = {} /\ Len(vs) = Len(ns)
      /\ pc[p] = "idle" /\ pc' = [pc EXCEPT ![p] = "link"] /\ p \in Threads
      /\ nodes' = [nodes EXCEPT ![p] = ns]
      /\ allocated' = allocated \cup Elements(ns)
      /\ given' = given \cup ToSet(vs)
      /\ UNCHANGED <<head, tail, q_h_lock, q_t_lock, node, new_head, answer>>
  BY <1>1 DEF NewNodes, Goto, Threads
<1>4. /\ \A i \in 1 .. Len(ns) : value'[ns[i]] = vs[i]
      /\ \A n \in Nodes \ Elements(ns) : value'[n] = value[n] /\ next'[n] = next[n]
  <2>1. ASSUME NEW i \in 1 .. Len(ns) PROVE value'[ns[i]] = vs[i]
    <3>1. (CHOOSE j \in DOMAIN ns : ns[j] = ns[i]) = i
      BY <1>1, PlaceOf
    <3>2. value'[ns[i]] = vs[CHOOSE j \in DOMAIN ns : ns[j] = ns[i]]
      BY <1>1 DEF NewNodes
    <3> QED
      BY <3>1, <3>2
  <2> QED
    BY <1>1, <2>1 DEF NewNodes
<1>5. TypeOK'
  <2>1. \A i \in 1 .. Len(ns) : vs[i] \in Values
    BY <1>3, BatchFacts
  <2>2. ASSUME NEW n \in Nodes PROVE value'[n] \in Values \cup {Garbage}
    <3>1. CASE n \in Elements(ns)
      BY <1>4, <2>1, <3>1 DEF Elements
    <3>2. CASE n \notin Elements(ns)
      BY <1>4, <3>2 DEF Inv, TypeOK
    <3> QED
      BY <3>1, <3>2
  <2>3. value' \in [Nodes -> Values \cup {Garbage}]
    BY <2>2 DEF NewNodes
  <2>4. next' \in [Nodes -> Nodes \cup {NULL, Garbage}]
    BY DEF Inv, TypeOK, NewNodes
  <2>5. allocated' \subseteq Nodes
    BY <1>1, <1>3 DEF Inv, TypeOK, Elements
  <2>6. ToSet(vs) \subseteq Values
    <3>1. ToSet(vs) = Elements(vs)
      BY BatchFacts, ToSetIsElements
    <3> QED
      BY <3>1, BatchFacts DEF Elements
  <2> QED
    BY <1>1, <1>3, <2>3, <2>4, <2>5, <2>6 DEF Inv, TypeOK
<1>6. LinkedList(l)'
  BY <1>2, <1>3, <1>4 DEF Inv, LinkedList
<1>7. ProducersOK(l)'
  <2>1. [i \in 1 .. Len(ns) |-> value'[ns[i]]] \in Batches
    <3>1. [i \in 1 .. Len(ns) |-> value'[ns[i]]] = vs
      BY <1>3, <1>4, BatchFacts
    <3> QED
      BY <3>1
  <2>2. /\ nodes'[p] = ns /\ pc'[p] = "link" /\ q_t_lock # p
        /\ \A r \in Producers \ {p} : nodes'[r] = nodes[r] /\ pc'[r] = pc[r]
    BY <1>3 DEF Inv, TypeOK, ProducersOK, ProducerOK, Threads
  <2>3. ASSUME NEW r \in Producers \ {p}, pc[r] = "link"
        PROVE  /\ Elements(ns) \cap Elements(nodes[r]) = {}
               /\ [i \in 1 .. Len(nodes[r]) |-> value'[nodes[r][i]]] \in Batches
    <3>1. Elements(nodes[r]) \subseteq allocated /\ allocated \subseteq Nodes
      BY <2>3 DEF Inv, ProducersOK, ProducerOK, TypeOK
    <3>2. \A i \in 1 .. Len(nodes[r]) : value'[nodes[r][i]] = value[nodes[r][i]]
      BY <3>1, <1>3, <1>4 DEF Elements
    <3>3. [i \in 1 .. Len(nodes[r]) |-> value'[nodes[r][i]]]
            = [i \in 1 .. Len(nodes[r]) |-> value[nodes[r][i]]]
      BY <3>2
    <3> QED
      BY <1>3, <2>3, <3>1, <3>3 DEF Inv, ProducersOK, ProducerOK
  <2>4. ProducerOK(l, p)'
    BY <1>1, <1>2, <1>3, <2>1, <2>2, <2>3 DEF ProducerOK
  <2>5. ASSUME NEW r \in Producers \ {p} PROVE ProducerOK(l, r)'
    BY <1>3, <2>2, <2>3 DEF Inv, ProducersOK, ProducerOK
  <2> QED
    BY <2>4, <2>5 DEF ProducersOK
<1>8. TailOK(l)'
  BY <1>3, ConQueueAssumption DEF Inv, TailOK, ProducersOK, ProducerOK, TypeOK
<1>9. ConsumersOK(l)'
  BY <1>3, ConQueueAssumption
     DEF Inv, TypeOK, ConsumersOK, ConsumerOK, Threads
<1>10. MemoryOK(l)'
  <2>1. \A n \in Elements(ns) : pc'[p] = "link" /\ n \in Elements(nodes'[p])
    BY <1>3 DEF Inv, TypeOK
  <2>2. ASSUME NEW n \in allocated \ Elements(l)
        PROVE  \/ \E r \in Producers : pc'[r] = "link" /\ n \in Elements(nodes'[r])
               \/ \E c \in Consumers : pc'[c] = "delete" /\ n = node'[c]
    BY <1>3, ConQueueAssumption DEF Inv, TypeOK, MemoryOK, Threads
  <2>3. \A i \in 2 .. Len(l) : value'[l[i]] \in Values
    BY <1>2, <1>3, <1>4 DEF Inv, MemoryOK
  <2> QED
    BY <1>2, <1>3, <2>1, <2>2, <2>3 DEF MemoryOK
<1> QED
  BY <1>5, <1>6, <1>7, <1>8, <1>9, <1>10 DEF Inv

\* The nodes keep their owners while the list does not change.
LEMMA MemoryKept ==
  ASSUME NEW l, MemoryOK(l), value' = value,
         allocated' \subseteq allocated, Elements(l) \subseteq allocated',
         \A p \in Producers : pc[p] = "link" =>
            pc'[p] = "link" /\ nodes'[p] = nodes[p],
         \A c \in Consumers : pc[c] = "delete" /\ node[c] \in allocated' =>
            pc'[c] = "delete" /\ node'[c] = node[c]
  PROVE  MemoryOK(l)'
<1>1. ASSUME NEW n \in allocated' \ Elements(l)
      PROVE  \/ \E p \in Producers : pc'[p] = "link" /\ n \in Elements(nodes'[p])
             \/ \E c \in Consumers : pc'[c] = "delete" /\ n = node'[c]
  <2>1. CASE \E p \in Producers : pc[p] = "link" /\ n \in Elements(nodes[p])
    <3>1. PICK p \in Producers : pc[p] = "link" /\ n \in Elements(nodes[p])
      BY <2>1
    <3>2. pc'[p] = "link" /\ n \in Elements(nodes'[p])
      BY <3>1
    <3> QED
      BY <3>2
  <2>2. CASE \E c \in Consumers : pc[c] = "delete" /\ n = node[c]
    BY <2>2
  <2> QED
    BY <2>1, <2>2 DEF MemoryOK
<1> QED
  BY <1>1 DEF MemoryOK

LEMMA SetTailStep ==
  ASSUME NEW l, Inv(l), NEW p \in Producers, SetTail(p)
  PROVE  Inv(l)'
<1> DEFINE last == nodes[p][Len(nodes[p])]
<1>1. /\ q_t_lock = p /\ p # NULL /\ p \in Threads /\ p \notin Consumers
      /\ nodes[p] \in Seq(Nodes) /\ Len(nodes[p]) # 0
  <2>1. p # NULL /\ p \in Threads /\ p \notin Consumers
    BY ConQueueAssumption DEF Threads
  <2>2. nodes[p] \in Seq(Nodes)
    BY DEF Inv, TypeOK
  <2>3. q_t_lock = p /\ Len(nodes[p]) # 0
    BY DEF Inv, ProducersOK, ProducerOK, SetTail
  <2> QED
    BY <2>1, <2>2, <2>3
<1>2. last \in Nodes
  BY <1>1, LenProperties
<1>3. /\ pc[p] = "tail" /\ pc' = [pc EXCEPT ![p] = "idle"]
      /\ tail' = last /\ q_t_lock' = NULL
      /\ nodes' = [nodes EXCEPT ![p] = << >>]
      /\ UNCHANGED <<next, value, allocated, head, q_h_lock, node, new_head,
                     answer, given>>
  BY DEF SetTail, Goto, Last, memory
<1>4. TypeOK'
  BY <1>1, <1>2, <1>3 DEF Inv, TypeOK
<1>5. LinkedList(l)'
  BY <1>3 DEF Inv, LinkedList
<1>6. ProducersOK(l)'
  <2>1. ProducerOK(l, p)'
    BY <1>1, <1>3 DEF Inv, TypeOK, ProducersOK, ProducerOK
  <2>2. ASSUME NEW r \in Producers \ {p} PROVE ProducerOK(l, r)'
    BY <1>1, <1>3, ConQueueAssumption
       DEF Inv, TypeOK, ProducersOK, ProducerOK
  <2> QED
    BY <2>1, <2>2 DEF ProducersOK
<1>7. TailOK(l)'
  BY <1>1, <1>3 DEF Inv, TailOK
<1>8. ConsumersOK(l)'
  BY <1>1, <1>3 DEF Inv, TypeOK, ConsumersOK, ConsumerOK
<1>9. MemoryOK(l)'
  <2>1. \A r \in Producers : pc[r] = "link" => pc'[r] = "link" /\ nodes'[r] = nodes[r]
    BY <1>1, <1>3 DEF Inv, TypeOK
  <2>2. \A c \in Consumers : pc[c] = "delete" => pc'[c] = "delete"
    BY <1>1, <1>3 DEF Inv, TypeOK, Threads
  <2> QED
    BY <1>3, <2>1, <2>2, MemoryKept DEF Inv, MemoryOK
<1> QED
  BY <1>4, <1>5, <1>6, <1>7, <1>8, <1>9 DEF Inv

\* A step that changes an answer only leaves the list and the threads as they are.
LEMMA OnlyTheAnswer ==
  ASSUME NEW l, LinkedList(l), ProducersOK(l), TailOK(l), ConsumersOK(l),
         UNCHANGED <<next, value, allocated, head, tail, q_h_lock, q_t_lock, pc,
                     nodes, node, new_head, given>>
  PROVE  LinkedList(l)' /\ ProducersOK(l)' /\ TailOK(l)' /\ ConsumersOK(l)'
<1>1. LinkedList(l)'
  BY DEF LinkedList
<1>2. ProducersOK(l)'
  BY DEF ProducersOK, ProducerOK
<1>3. TailOK(l)'
  BY DEF TailOK
<1>4. ConsumersOK(l)'
  BY DEF ConsumersOK, ConsumerOK
<1> QED
  BY <1>1, <1>2, <1>3, <1>4

LEMMA AnswerStep ==
  ASSUME NEW l, Inv(l), NEW c \in Consumers, Call(c) \/ Empty(c)
  PROVE  Inv(l)'
<1>1. /\ answer' = [answer EXCEPT ![c] = None] \/
         answer' = [answer EXCEPT ![c] = Failed] \/
         answer' = [answer EXCEPT ![c] = NonEmpty]
      /\ UNCHANGED <<next, value, allocated, head, tail, q_h_lock, q_t_lock, pc,
                     nodes, node, new_head, given>>
  BY DEF Call, Empty, memory
<1>2. TypeOK'
  BY <1>1 DEF Inv, TypeOK
<1>3. LinkedList(l)' /\ ProducersOK(l)' /\ TailOK(l)' /\ ConsumersOK(l)'
  BY <1>1, OnlyTheAnswer DEF Inv
<1>4. MemoryOK(l)'
  BY <1>1, MemoryKept DEF Inv, MemoryOK
<1> QED
  BY <1>2, <1>3, <1>4 DEF Inv

LEMMA LoadHeadStep ==
  ASSUME NEW l, Inv(l), NEW c \in Consumers, LoadHead(c)
  PROVE  Inv(l)'
<1>1. CASE next[head] = NULL
  <2>1. /\ answer' = [answer EXCEPT ![c] = Failed]
        /\ UNCHANGED <<next, value, allocated, head, tail, q_h_lock, q_t_lock,
                       pc, nodes, node, new_head, given>>
    BY <1>1 DEF LoadHead, memory
  <2>2. TypeOK'
    BY <2>1 DEF Inv, TypeOK
  <2>3. LinkedList(l)' /\ ProducersOK(l)' /\ TailOK(l)' /\ ConsumersOK(l)'
    BY <2>1, OnlyTheAnswer DEF Inv
  <2>4. MemoryOK(l)'
    BY <2>1, MemoryKept DEF Inv, MemoryOK
  <2> QED
    BY <2>2, <2>3, <2>4 DEF Inv
<1>2. CASE next[head] # NULL
  <2>1. /\ pc[c] = "idle" /\ q_h_lock = NULL /\ q_h_lock' = c
        /\ node' = [node EXCEPT ![c] = head]
        /\ new_head' = [new_head EXCEPT ![c] = next[head]]
        /\ pc' = [pc EXCEPT ![c] = "take"]
        /\ UNCHANGED <<next, value, allocated, head, tail, q_t_lock, nodes,
                       answer, given>>
    BY <1>2 DEF LoadHead, memory, Goto
  <2>2. /\ l \in Seq(Nodes) /\ Len(l) \in Nat \ {0} /\ Len(l) > 1
        /\ head = l[1] /\ next[head] = l[2] /\ l[2] \in Nodes
    BY <1>2, ListFacts DEF Inv, LinkedList
  <2>3. c \in Threads /\ c \notin Producers /\ NULL \notin Consumers
    BY ConQueueAssumption DEF Threads
  <2>4. TypeOK'
    BY <2>1, <2>2, <2>3 DEF Inv, TypeOK
  <2>5. LinkedList(l)'
    BY <2>1 DEF Inv, LinkedList
  <2>6. ProducersOK(l)'
    BY <2>1, <2>3 DEF Inv, TypeOK, ProducersOK, ProducerOK
  <2>7. TailOK(l)'
    BY <2>1 DEF Inv, TailOK
  <2>8. ConsumersOK(l)'
    <3>1. ConsumerOK(l, c)'
      BY <2>1, <2>2, <2>3 DEF Inv, TypeOK, ConsumersOK, ConsumerOK
    <3>2. ASSUME NEW d \in Consumers \ {c} PROVE ConsumerOK(l, d)'
      BY <2>1, <2>3 DEF Inv, TypeOK, Threads, ConsumersOK, ConsumerOK
    <3> QED
      BY <3>1, <3>2 DEF ConsumersOK
  <2>9. MemoryOK(l)'
    <3>1. \A r \in Producers : pc[r] = "link" => pc'[r] = "link"
      BY <2>1, <2>3 DEF Inv, TypeOK, Threads
    <3>2. \A d \in Consumers : pc[d] = "delete" =>
             pc'[d] = "delete" /\ node'[d] = node[d]
      BY <2>1, <2>3 DEF Inv, TypeOK, Threads
    <3> QED
      BY <2>1, <3>1, <3>2, MemoryKept DEF Inv, MemoryOK
  <2> QED
    BY <2>4, <2>5, <2>6, <2>7, <2>8, <2>9 DEF Inv
<1> QED
  BY <1>1, <1>2

LEMMA DeleteNodeStep ==
  ASSUME NEW l, Inv(l), NEW c \in Consumers, DeleteNode(c)
  PROVE  Inv(l)'
<1>1. /\ pc[c] = "delete" /\ pc' = [pc EXCEPT ![c] = "idle"]
      /\ allocated' = allocated \ {node[c]}
      /\ node' = [node EXCEPT ![c] = NULL]
      /\ new_head' = [new_head EXCEPT ![c] = NULL]
      /\ UNCHANGED <<next, value, head, tail, q_h_lock, q_t_lock, nodes,
                     answer, given>>
  BY DEF DeleteNode, Goto
<1>2. c \in Threads /\ c \notin Producers
  BY ConQueueAssumption DEF Threads
<1>3. /\ node[c] \in allocated \ Elements(l)
      /\ \A p \in Producers : pc[p] = "link" => node[c] \notin Elements(nodes[p])
      /\ \A d \in Consumers \ {c} : pc[d] = "delete" => node[d] # node[c]
  BY <1>1 DEF Inv, ConsumersOK, ConsumerOK
<1>4. TypeOK'
  BY <1>1, <1>2 DEF Inv, TypeOK
<1>5. LinkedList(l)' /\ TailOK(l)'
  BY <1>1 DEF Inv, LinkedList, TailOK
<1>6. ProducersOK(l)'
  BY <1>1, <1>2, <1>3 DEF Inv, TypeOK, ProducersOK, ProducerOK
<1>7. ConsumersOK(l)'
  <2>1. ConsumerOK(l, c)'
    BY <1>1, <1>2 DEF Inv, TypeOK, ConsumersOK, ConsumerOK
  <2>2. ASSUME NEW d \in Consumers \ {c} PROVE ConsumerOK(l, d)'
    BY <1>1, <1>2, <1>3 DEF Inv, TypeOK, ConsumersOK, ConsumerOK
  <2> QED
    BY <2>1, <2>2 DEF ConsumersOK
<1>8. MemoryOK(l)'
  <2>1. \A r \in Producers : pc[r] = "link" => pc'[r] = "link"
    BY <1>1, <1>2 DEF Inv, TypeOK, Threads
  <2>2. \A d \in Consumers : pc[d] = "delete" /\ node[d] \in allocated' =>
           pc'[d] = "delete" /\ node'[d] = node[d]
    BY <1>1, <1>2 DEF Inv, TypeOK, Threads
  <2>3. Elements(l) \subseteq allocated'
    BY <1>1, <1>3 DEF Inv, MemoryOK
  <2> QED
    BY <1>1, <2>1, <2>2, <2>3, MemoryKept DEF Inv
<1> QED
  BY <1>4, <1>5, <1>6, <1>7, <1>8 DEF Inv

\* A dequeuer takes the first node off the list.
LEMMA TakeValueStep ==
  ASSUME NEW l, Inv(l), NEW c \in Consumers, TakeValue(c), NEW k, k = Tail(l)
  PROVE  Inv(k)'
<1>1. /\ pc[c] = "take" /\ pc' = [pc EXCEPT ![c] = "delete"]
      /\ answer' = [answer EXCEPT ![c] = value[new_head[c]]]
      /\ head' = new_head[c] /\ q_h_lock' = NULL
      /\ UNCHANGED <<next, value, allocated, tail, q_t_lock, nodes, node,
                     new_head, given>>
  BY DEF TakeValue, Goto, memory
<1>2. c \in Threads /\ c \notin Producers /\ NULL \notin Consumers
  BY ConQueueAssumption DEF Threads
<1>3. /\ l \in Seq(Nodes) /\ Len(l) \in Nat /\ Len(l) > 1
      /\ \A i \in 1 .. Len(l) : l[i] \in Nodes
      /\ \A i, j \in 1 .. Len(l) : l[i] = l[j] => i = j
      /\ \A i \in 1 .. Len(l) - 1 : next[l[i]] = l[i + 1]
      /\ next[l[Len(l)]] = NULL
      /\ node[c] = l[1] /\ new_head[c] = l[2] /\ q_h_lock = c
  BY <1>1, ListFacts DEF Inv, LinkedList, ConsumersOK, ConsumerOK
<1>4. /\ k \in Seq(Nodes) /\ Len(k) = Len(l) - 1
      /\ \A i \in 1 .. Len(k) : k[i] = l[i + 1]
  <2>1. l # << >>
    BY <1>3
  <2> QED
    BY <1>3, <2>1, HeadTailProperties
<1>5. /\ Elements(k) = Elements(l) \ {l[1]} /\ l[1] \in Elements(l)
      /\ k[Len(k)] = l[Len(l)]
  <2>1. ASSUME NEW n \in Elements(l) \ {l[1]} PROVE n \in Elements(k)
    <3>1. PICK i \in 1 .. Len(l) : n = l[i]
      BY DEF Elements
    <3>2. i - 1 \in 1 .. Len(k) /\ k[i - 1] = l[i]
      BY <1>3, <1>4, <2>1, <3>1
    <3> QED
      BY <3>1, <3>2 DEF Elements
  <2>2. ASSUME NEW n \in Elements(k) PROVE n \in Elements(l) \ {l[1]}
    BY <1>3, <1>4 DEF Elements
  <2>3. k[Len(k)] = l[Len(l)]
    BY <1>3, <1>4
  <2>4. l[1] \in Elements(l)
    BY <1>3 DEF Elements
  <2> QED
    BY <2>1, <2>2, <2>3, <2>4
<1>6. TypeOK'
  <2>1. value[l[2]] \in Values
    BY <1>3 DEF Inv, MemoryOK
  <2> QED
    BY <1>1, <1>2, <1>3, <2>1 DEF Inv, TypeOK
<1>7. LinkedList(k)'
  <2>1. \A i, j \in 1 .. Len(k) : k[i] = k[j] => i = j
    <3>1. \A i \in 1 .. Len(k) : i + 1 \in 1 .. Len(l) /\ k[i] = l[i + 1]
      BY <1>3, <1>4
    <3> QED
      BY <1>3, <1>4, <3>1
  <2>2. \A i \in 1 .. Len(k) - 1 : next[k[i]] = k[i + 1]
    <3> SUFFICES ASSUME NEW i \in 1 .. Len(k) - 1 PROVE next[k[i]] = k[i + 1]
      OBVIOUS
    <3>1. /\ i \in 1 .. Len(k) /\ i + 1 \in 1 .. Len(k)
          /\ i + 1 \in 1 .. Len(l) - 1
      BY <1>3, <1>4
    <3>2. k[i] = l[i + 1] /\ k[i + 1] = l[(i + 1) + 1]
      BY <1>4, <3>1
    <3> QED
      BY <1>3, <3>1, <3>2
  <2>3. Len(k) # 0 /\ k[1] = l[2] /\ next[k[Len(k)]] = NULL
    BY <1>3, <1>4, <1>5
  <2> QED
    BY <1>1, <1>3, <1>4, <2>1, <2>2, <2>3 DEF LinkedList
<1>8. ProducersOK(k)'
  <2> SUFFICES ASSUME NEW p \in Producers PROVE ProducerOK(k, p)'
    BY DEF ProducersOK
  <2>1. \A r \in Producers : pc'[r] = pc[r]
    BY <1>1, <1>2 DEF Inv, TypeOK, Threads
  <2> QED
    BY <1>1, <1>5, <2>1 DEF Inv, ProducersOK, ProducerOK
<1>9. TailOK(k)'
  BY <1>1, <1>5 DEF Inv, TailOK
<1>10. ConsumersOK(k)'
  <2>1. \A d \in Consumers : pc'[d] = IF d = c THEN "delete" ELSE pc[d]
    BY <1>1, <1>2 DEF Inv, TypeOK, Threads
  <2>2. \A p \in Producers : pc'[p] = pc[p]
    BY <1>1, <1>2 DEF Inv, TypeOK, Threads
  <2>3. l[1] \in allocated
    BY <1>5 DEF Inv, MemoryOK
  <2>4. \A d \in Consumers \ {c} : pc[d] = "delete" => node[d] # l[1]
    BY <1>5 DEF Inv, ConsumersOK, ConsumerOK
  <2>5. \A p \in Producers : pc[p] = "link" => l[1] \notin Elements(nodes[p])
    BY <1>5 DEF Inv, ProducersOK, ProducerOK
  <2>6. ConsumerOK(k, c)'
    BY <1>1, <1>2, <1>3, <1>5, <2>1, <2>2, <2>3, <2>4, <2>5 DEF ConsumerOK
  <2>7. ASSUME NEW d \in Consumers \ {c} PROVE ConsumerOK(k, d)'
    <3>1. ConsumerOK(l, d)
      BY DEF Inv, ConsumersOK
    <3> QED
      BY <1>1, <1>2, <1>3, <1>5, <2>1, <2>2, <2>4, <3>1 DEF ConsumerOK
  <2> QED
    BY <2>6, <2>7 DEF ConsumersOK
<1>11. MemoryOK(k)'
  <2>1. \A i \in 2 .. Len(k) : value[k[i]] \in Values
    BY <1>3, <1>4 DEF Inv, MemoryOK
  <2>2. \A r \in Producers : pc'[r] = pc[r]
    BY <1>1, <1>2 DEF Inv, TypeOK, Threads
  <2>3. \A d \in Consumers : pc[d] = "delete" => pc'[d] = "delete"
    BY <1>1, <1>2 DEF Inv, TypeOK, Threads
  <2>4. pc'[c] = "delete"
    BY <1>1, <1>2 DEF Inv, TypeOK
  <2>5. ASSUME NEW n \in allocated \ Elements(k)
        PROVE  \/ \E p \in Producers : pc'[p] = "link" /\ n \in Elements(nodes[p])
               \/ \E d \in Consumers : pc'[d] = "delete" /\ n = node[d]
    <3>1. CASE n = l[1]
      BY <1>3, <2>4, <3>1
    <3>2. CASE n # l[1]
      <4>1. n \in allocated \ Elements(l)
        BY <1>5, <3>2
      <4>2. \/ \E p \in Producers : pc[p] = "link" /\ n \in Elements(nodes[p])
            \/ \E d \in Consumers : pc[d] = "delete" /\ n = node[d]
        BY <4>1 DEF Inv, MemoryOK
      <4> QED
        BY <2>2, <2>3, <4>2
    <3> QED
      BY <3>1, <3>2
  <2>6. Elements(k) \subseteq allocated
    BY <1>5 DEF Inv, MemoryOK
  <2> QED
    BY <1>1, <2>1, <2>5, <2>6 DEF MemoryOK
<1> QED
  BY <1>6, <1>7, <1>8, <1>9, <1>10, <1>11 DEF Inv

\* An enqueuer puts its batch behind the list.
LEMMA LinkStep ==
  ASSUME NEW l, Inv(l), NEW p \in Producers, Link(p),
         NEW k, k = l \o nodes[p]
  PROVE  Inv(k)'
<1>0. PICK ns : ns = nodes[p]
  OBVIOUS
<1>1. /\ pc[p] = "link" /\ pc' = [pc EXCEPT ![p] = "tail"]
      /\ q_t_lock = NULL /\ q_t_lock' = p
      /\ next' = [Linked(next, ns) EXCEPT ![tail] = ns[1]]
      /\ UNCHANGED <<value, allocated, head, tail, q_h_lock, nodes, node,
                     new_head, answer, given>>
  BY <1>0 DEF Link, Goto
<1>2. p \in Threads /\ p \notin Consumers /\ p # NULL
  BY ConQueueAssumption DEF Threads
<1>3. /\ l \in Seq(Nodes) /\ Len(l) \in Nat \ {0}
      /\ \A i \in 1 .. Len(l) : l[i] \in Nodes
      /\ tail = l[Len(l)] /\ tail \in Elements(l) /\ tail \in Nodes
  BY <1>1, ListFacts DEF Inv, TailOK, Elements
<1>4. /\ ns \in Seq(Nodes) /\ Len(ns) \in Nat \ {0} /\ Distinct(ns)
      /\ \A i \in 1 .. Len(ns) : ns[i] \in Nodes
      /\ Elements(ns) \subseteq allocated \ Elements(l)
      /\ ToSet(ns) = Elements(ns) /\ DOMAIN ns = 1 .. Len(ns)
      /\ [i \in 1 .. Len(ns) |-> value[ns[i]]] \in Batches
  <2>1. ns \in Seq(Nodes) /\ Len(ns) # 0
    BY <1>0, <1>1 DEF Inv, TypeOK, ProducersOK, ProducerOK
  <2>2. ns \in [1 .. Len(ns) -> Nodes] /\ Len(ns) \in Nat \ {0}
    BY <2>1, LenProperties
  <2> QED
    BY <1>0, <1>1, <2>1, <2>2, ToSetIsElements
       DEF Inv, ProducersOK, ProducerOK
<1>5. /\ k \in Seq(Nodes) /\ Len(k) = Len(l) + Len(ns)
      /\ \A i \in 1 .. Len(l) : k[i] = l[i]
      /\ \A i \in Len(l) + 1 .. Len(k) : k[i] = ns[i - Len(l)]
  BY <1>0, <1>3, <1>4, ConcatProperties
<1>6. Elements(k) = Elements(l) \cup Elements(ns)
  <2>0. PICK u \in Nat, w \in Nat : u = Len(l) /\ w = Len(ns)
    BY <1>3, <1>4
  <2>4. /\ Elements(k) = {k[i] : i \in 1 .. u + w}
        /\ Elements(l) = {l[i] : i \in 1 .. u}
        /\ Elements(ns) = {ns[i] : i \in 1 .. w}
    BY <2>0, <1>5 DEF Elements
  <2>5. /\ \A i \in 1 .. u : k[i] = l[i]
        /\ \A i \in u + 1 .. u + w : k[i] = ns[i - u]
    BY <2>0, <1>5
  <2>1. ASSUME NEW i \in 1 .. w PROVE ns[i] \in Elements(k)
    <3>1. PICK q \in u + 1 .. u + w : q - u = i
      <4>1. u + i \in u + 1 .. u + w /\ (u + i) - u = i
        OBVIOUS
      <4> QED
        BY <4>1
    <3>2. q \in 1 .. u + w
      OBVIOUS
    <3> QED
      BY <3>1, <3>2, <2>4, <2>5
  <2>2. ASSUME NEW i \in 1 .. u PROVE l[i] \in Elements(k)
    <3>1. i \in 1 .. u + w
      OBVIOUS
    <3> QED
      BY <3>1, <2>4, <2>5
  <2>3. ASSUME NEW i \in 1 .. u + w PROVE k[i] \in Elements(l) \cup Elements(ns)
    <3>1. i \in 1 .. u \/ (i \in u + 1 .. u + w /\ i - u \in 1 .. w)
      OBVIOUS
    <3> QED
      BY <3>1, <2>4, <2>5
  <2>6. Elements(k) \subseteq Elements(l) \cup Elements(ns)
    BY <2>3, <2>4
  <2>7. Elements(l) \subseteq Elements(k)
    BY <2>2, <2>4
  <2>8. Elements(ns) \subseteq Elements(k)
    BY <2>1, <2>4
  <2> QED
    BY <2>6, <2>7, <2>8
<1>7. /\ \A i \in 1 .. Len(ns) - 1 : next'[ns[i]] = ns[i + 1]
      /\ next'[ns[Len(ns)]] = NULL
      /\ next'[l[Len(l)]] = ns[1]
      /\ \A n \in Nodes \ (Elements(ns) \cup {tail}) : next'[n] = next[n]
  <2>1. next \in [Nodes -> Nodes \cup {NULL, Garbage}]
    BY DEF Inv, TypeOK
  <2>2. ASSUME NEW i \in 1 .. Len(ns)
        PROVE  next'[ns[i]] = IF i = Len(ns) THEN NULL ELSE ns[i + 1]
    <3>1. (CHOOSE j \in DOMAIN ns : ns[j] = ns[i]) = i
      BY <1>4, PlaceOf
    <3>2. ns[i] \in Elements(ns) /\ ns[i] \in Nodes /\ ns[i] # tail
      BY <1>3, <1>4 DEF Elements
    <3>3. Linked(next, ns)[ns[i]] = IF i = Len(ns) THEN NULL ELSE ns[i + 1]
      BY <1>4, <2>1, <3>1, <3>2 DEF Linked
    <3> QED
      BY <1>1, <2>1, <3>2, <3>3 DEF Linked
  <2>3. \A n \in Nodes \ (Elements(ns) \cup {tail}) : next'[n] = next[n]
    BY <1>1, <1>4, <2>1 DEF Linked
  <2>4. next'[tail] = ns[1]
    BY <1>1, <1>3, <2>1 DEF Linked
  <2>5. Len(ns) \in 1 .. Len(ns)
    BY <1>4
  <2>6. \A i \in 1 .. Len(ns) - 1 : i \in 1 .. Len(ns) /\ i # Len(ns)
    BY <2>5
  <2> QED
    BY <1>3, <2>2, <2>3, <2>4, <2>5, <2>6
<1>8. TypeOK'
  <2>1. ASSUME NEW n \in Nodes PROVE next'[n] \in Nodes \cup {NULL, Garbage}
    <3>1. CASE n = tail
      BY <1>3, <1>4, <1>7, <3>1
    <3>2. CASE n \in Elements(ns)
      <4>1. PICK i \in 1 .. Len(ns) : n = ns[i]
        BY <3>2 DEF Elements
      <4>2. CASE i = Len(ns)
        BY <1>7, <4>1, <4>2
      <4>3. CASE i # Len(ns)
        <5>0. Len(ns) \in Nat
          BY <1>4
        <5>1. i \in 1 .. Len(ns) - 1 /\ i + 1 \in 1 .. Len(ns)
          BY <4>3, <5>0
        <5> QED
          BY <1>4, <1>7, <4>1, <5>1
      <4> QED
        BY <4>2, <4>3
    <3>3. CASE n \notin Elements(ns) \cup {tail}
      BY <1>7, <3>3 DEF Inv, TypeOK
    <3> QED
      BY <3>1, <3>2, <3>3
  <2>2. next' \in [Nodes -> Nodes \cup {NULL, Garbage}]
    BY <1>1, <2>1 DEF Inv, TypeOK, Linked
  <2> QED
    BY <1>1, <1>2, <2>2 DEF Inv, TypeOK
<1>9. LinkedList(k)'
  <2>1. \A i, j \in 1 .. Len(k) : k[i] = k[j] => i = j
    <3> SUFFICES ASSUME NEW i \in 1 .. Len(k), NEW j \in 1 .. Len(k),
                        k[i] = k[j], i <= j
                 PROVE  i = j
      BY <1>3, <1>4, <1>5
    <3>1. CASE j <= Len(l)
      BY <1>3, <1>5, <3>1 DEF Inv, LinkedList
    <3>2. CASE i > Len(l)
      <4>1. /\ i - Len(l) \in 1 .. Len(ns) /\ j - Len(l) \in 1 .. Len(ns)
            /\ ns[i - Len(l)] = ns[j - Len(l)]
        BY <1>3, <1>4, <1>5, <3>2
      <4>2. i - Len(l) = j - Len(l)
        BY <1>4, <4>1 DEF Distinct
      <4> QED
        BY <1>3, <4>2
    <3>3. CASE i <= Len(l) /\ j > Len(l)
      <4>1. /\ i \in 1 .. Len(l) /\ j - Len(l) \in 1 .. Len(ns)
            /\ l[i] = ns[j - Len(l)]
        BY <1>3, <1>4, <1>5, <3>3
      <4> QED
        BY <1>4, <4>1 DEF Elements
    <3> QED
      BY <1>3, <3>1, <3>2, <3>3
  <2>2. ASSUME NEW i \in 1 .. Len(k) - 1 PROVE next'[k[i]] = k[i + 1]
    <3>1. CASE i < Len(l)
      <4>1. /\ i \in 1 .. Len(l) - 1 /\ i \in 1 .. Len(l) /\ i + 1 \in 1 .. Len(l)
            /\ Len(l) \in 1 .. Len(l)
        BY <1>3, <3>1
      <4>2. /\ k[i] = l[i] /\ k[i + 1] = l[i + 1] /\ next[l[i]] = l[i + 1]
            /\ l[i] # tail
        BY <1>3, <1>5, <3>1, <4>1 DEF Inv, LinkedList
      <4>3. l[i] \in Nodes \ (Elements(ns) \cup {tail})
        BY <1>3, <1>4, <4>1, <4>2 DEF Elements
      <4> QED
        BY <1>7, <4>2, <4>3
    <3>2. CASE i = Len(l)
      <4>1. /\ i \in 1 .. Len(l) /\ i + 1 \in Len(l) + 1 .. Len(k)
            /\ (i + 1) - Len(l) = 1
        BY <1>3, <1>4, <1>5, <3>2
      <4>2. k[i] = l[Len(l)] /\ k[i + 1] = ns[1]
        BY <1>5, <3>2, <4>1
      <4> QED
        BY <1>7, <4>2
    <3>3. CASE i > Len(l)
      <4>1. /\ i \in Len(l) + 1 .. Len(k) /\ i + 1 \in Len(l) + 1 .. Len(k)
            /\ i - Len(l) \in 1 .. Len(ns) - 1
            /\ (i + 1) - Len(l) = (i - Len(l)) + 1
        BY <1>3, <1>4, <1>5, <3>3
      <4>2. k[i] = ns[i - Len(l)] /\ k[i + 1] = ns[(i - Len(l)) + 1]
        BY <1>5, <4>1
      <4> QED
        BY <1>7, <4>1, <4>2
    <3> QED
      BY <1>3, <1>5, <3>1, <3>2, <3>3
  <2>3. k[1] = head /\ Len(k) # 0
    BY <1>3, <1>4, <1>5 DEF Inv, LinkedList
  <2>4. k[Len(k)] = ns[Len(ns)]
    BY <1>3, <1>4, <1>5
  <2> QED
    BY <1>1, <1>5, <1>7, <2>1, <2>2, <2>3, <2>4 DEF LinkedList
<1>10. \A r \in Producers \cup Consumers : pc'[r] = IF r = p THEN "tail" ELSE pc[r]
  BY <1>1, <1>2 DEF Inv, TypeOK, Threads
<1>11. ProducersOK(k)'
  <2>1. ProducerOK(k, p)'
    BY <1>0, <1>1, <1>2, <1>4, <1>10 DEF ProducerOK
  <2>2. ASSUME NEW r \in Producers \ {p} PROVE ProducerOK(k, r)'
    <3>1. ProducerOK(l, r) /\ q_t_lock' # r /\ q_t_lock # r
      BY <1>1, <1>2, ConQueueAssumption DEF Inv, ProducersOK
    <3>2. pc[r] = "link" => Elements(nodes[r]) \cap Elements(ns) = {}
      BY <1>0, <1>1, <3>1 DEF ProducerOK
    <3> QED
      BY <1>1, <1>6, <1>10, <3>1, <3>2 DEF ProducerOK
  <2> QED
    BY <2>1, <2>2 DEF ProducersOK
<1>12. TailOK(k)'
  <2>1. k[Len(k)] = ns[Len(ns)]
    BY <1>3, <1>4, <1>5
  <2> QED
    BY <1>0, <1>1, <1>2, <2>1 DEF TailOK
<1>13. ConsumersOK(k)'
  <2> SUFFICES ASSUME NEW c \in Consumers PROVE ConsumerOK(k, c)'
    BY DEF ConsumersOK
  <2>1. ConsumerOK(l, c)
    BY DEF Inv, ConsumersOK
  <2>2. pc[c] = "delete" => node[c] \notin Elements(ns)
    BY <1>0, <1>1, <2>1 DEF ConsumerOK
  <2>3. Len(l) > 1 => Len(k) > 1 /\ k[1] = l[1] /\ k[2] = l[2]
    BY <1>3, <1>4, <1>5
  <2>4. \A r \in Producers : pc'[r] = "link" => pc[r] = "link"
    BY <1>10
  <2> QED
    BY <1>1, <1>2, <1>6, <1>10, <2>1, <2>2, <2>3, <2>4 DEF ConsumerOK
<1>14. MemoryOK(k)'
  <2>1. ASSUME NEW i \in 2 .. Len(k) PROVE value[k[i]] \in Values
    <3>1. CASE i <= Len(l)
      BY <1>3, <1>5, <3>1 DEF Inv, MemoryOK
    <3>2. CASE i > Len(l)
      <4>1. i - Len(l) \in 1 .. Len(ns) /\ k[i] = ns[i - Len(l)]
        BY <1>3, <1>4, <1>5, <3>2
      <4>2. PICK vs \in Batches : vs = [j \in 1 .. Len(ns) |-> value[ns[j]]]
        BY <1>4
      <4>3. Len(vs) = Len(ns)
        <5>1. DOMAIN vs = 1 .. Len(ns) /\ DOMAIN vs = 1 .. Len(vs) /\ Len(vs) \in Nat
          BY <4>2, BatchFacts
        <5> QED
          BY <1>4, <5>1
      <4>4. \A j \in 1 .. Len(ns) : value[ns[j]] \in Values
        BY <4>2, <4>3, BatchFacts
      <4> QED
        BY <4>1, <4>4
    <3> QED
      BY <1>3, <1>5, <3>1, <3>2
  <2>2. ASSUME NEW n \in allocated \ Elements(k)
        PROVE  \/ \E r \in Producers : pc'[r] = "link" /\ n \in Elements(nodes[r])
               \/ \E c \in Consumers : pc'[c] = "delete" /\ n = node[c]
    <3>1. \/ \E r \in Producers : pc[r] = "link" /\ n \in Elements(nodes[r])
          \/ \E c \in Consumers : pc[c] = "delete" /\ n = node[c]
      BY <1>6 DEF Inv, MemoryOK
    <3>2. \A r \in Producers :
            pc[r] = "link" /\ n \in Elements(nodes[r]) => pc'[r] = "link"
      BY <1>0, <1>6, <1>10
    <3>3. \A c \in Consumers : pc[c] = "delete" => pc'[c] = "delete"
      BY <1>2, <1>10
    <3> QED
      BY <3>1, <3>2, <3>3
  <2>3. Elements(k) \subseteq allocated
    BY <1>4, <1>6 DEF Inv, MemoryOK
  <2> QED
    BY <1>1, <2>1, <2>2, <2>3 DEF MemoryOK
<1> QED
  BY <1>8, <1>9, <1>11, <1>12, <1>13, <1>14 DEF Inv

-----------------------------------------------------------------------------
(* The invariant, and what follows from it                                 *)

LEMMA InitIInv ==
  Init => IInv
<1> SUFFICES ASSUME Init PROVE IInv
  OBVIOUS
<1>1. PICK d \in Nodes :
        /\ head = d /\ tail = d /\ allocated = {d}
        /\ next = [n \in Nodes |-> IF n = d THEN NULL ELSE Garbage]
        /\ value = [n \in Nodes |-> Garbage]
        /\ q_h_lock = NULL /\ q_t_lock = NULL
        /\ pc = [t \in Threads |-> "idle"]
        /\ nodes = [p \in Producers |-> <<>>]
        /\ node = [c \in Consumers |-> NULL]
        /\ new_head = [c \in Consumers |-> NULL]
        /\ answer = [c \in Consumers |-> None]
        /\ given = {}
  BY DEF Init
<1>2. PICK l \in Seq(Nodes) : l = <<d>>
  <2>1. <<d>> \in Seq(Nodes)
    OBVIOUS
  <2> QED
    BY <2>1, Zenon
<1>3. Len(l) = 1 /\ l[1] = d /\ Elements(l) = {d}
  BY <1>2 DEF Elements
<1>4. TypeOK
  BY <1>1 DEF TypeOK
<1>5. LinkedList(l) /\ TailOK(l)
  BY <1>1, <1>3 DEF LinkedList, TailOK
<1>6. ProducersOK(l) /\ ConsumersOK(l)
  BY <1>1, ConQueueAssumption
     DEF ProducersOK, ProducerOK, ConsumersOK, ConsumerOK, Threads
<1>7. MemoryOK(l)
  BY <1>1, <1>3 DEF MemoryOK
<1> QED
  BY <1>4, <1>5, <1>6, <1>7 DEF IInv, Inv

\* The list after the step is the list before it, or one node less at the
\* head, or a batch more at the tail.
LEMMA NextInv ==
  ASSUME NEW l, Inv(l), [Next]_vars
  PROVE  \/ Inv(l)'
         \/ Inv(Tail(l))'
         \/ \E p \in Producers, k \in Seq(Nodes) : k = l \o nodes[p] /\ Inv(k)'
<1>1. CASE UNCHANGED vars
  <2>1. TypeOK' /\ LinkedList(l)' /\ ProducersOK(l)' /\ TailOK(l)' /\ ConsumersOK(l)'
    BY <1>1 DEF vars, memory, Inv, TypeOK, LinkedList, ProducersOK, ProducerOK,
       TailOK, ConsumersOK, ConsumerOK
  <2>2. MemoryOK(l)'
    BY <1>1, MemoryKept DEF vars, memory, Inv, MemoryOK
  <2> QED
    BY <2>1, <2>2 DEF Inv
<1>2. ASSUME NEW p \in Producers, NEW vs \in Batches, NEW ns \in NodeSeqs,
             NewNodes(p, vs, ns)
      PROVE  Inv(l)'
  BY <1>2, NewNodesStep
<1>3. ASSUME NEW p \in Producers, Link(p)
      PROVE  \E k \in Seq(Nodes) : k = l \o nodes[p] /\ Inv(k)'
  <2>1. PICK k : k = l \o nodes[p]
    OBVIOUS
  <2>2. Inv(k)'
    BY <1>3, <2>1, LinkStep
  <2>3. k \in Seq(Nodes)
    BY <2>1, ConcatProperties DEF Inv, LinkedList, TypeOK
  <2> QED
    BY <2>1, <2>2, <2>3
<1>4. ASSUME NEW p \in Producers, SetTail(p) PROVE Inv(l)'
  BY <1>4, SetTailStep
<1>5. ASSUME NEW c \in Consumers, Call(c) \/ Empty(c) PROVE Inv(l)'
  BY <1>5, AnswerStep
<1>6. ASSUME NEW c \in Consumers, LoadHead(c) PROVE Inv(l)'
  BY <1>6, LoadHeadStep
<1>7. ASSUME NEW c \in Consumers, TakeValue(c) PROVE Inv(Tail(l))'
  BY <1>7, TakeValueStep
<1>8. ASSUME NEW c \in Consumers, DeleteNode(c) PROVE Inv(l)'
  BY <1>8, DeleteNodeStep
<1> QED
  BY <1>1, <1>2, <1>3, <1>4, <1>5, <1>6, <1>7, <1>8 DEF Next

LEMMA NextIInv ==
  IInv /\ [Next]_vars => IInv'
<1> SUFFICES ASSUME IInv, [Next]_vars PROVE IInv'
  OBVIOUS
<1>1. PICK l \in Seq(Nodes) : Inv(l)
  BY DEF IInv
<1>2. CASE Inv(Tail(l))'
  <2>1. Tail(l) \in Seq(Nodes)
    BY <1>1, HeadTailProperties, EmptySeq DEF Inv, LinkedList
  <2> QED
    BY <1>2, <2>1 DEF IInv
<1> QED
  BY <1>1, <1>2, NextInv DEF IInv

\* There is always a well-formed list, whatever the number of enqueuers,
\* dequeuers and addresses.
THEOREM Invariance ==
  Spec => []IInv
BY InitIInv, NextIInv, PTL DEF Spec

\* Neither end of conque dereferences a deleted node, and no node is deleted
\* twice, though the two locks exclude dequeuers and enqueuers separately.
THEOREM MemoryIsSafe ==
  Spec => []NoUseAfterFree
<1>1. IInv => NoUseAfterFree
  <2> SUFFICES ASSUME IInv PROVE NoUseAfterFree
    OBVIOUS
  <2>1. PICK l \in Seq(Nodes) : Inv(l)
    BY DEF IInv
  <2>2. After(head) = Tail(l)
    BY <2>1, AfterHead DEF Inv
  <2>3. {head} \cup ToSet(After(head)) = Elements(l)
    BY <2>1, <2>2, WholeList DEF Inv
  <2>4. Elements(l) \subseteq allocated /\ \A i \in 1 .. Len(l) : l[i] \in Elements(l)
    BY <2>1 DEF Inv, MemoryOK, Elements
  <2>5. Len(l) \in Nat \ {0} /\ head = l[1]
    BY <2>1, ListFacts DEF Inv, LinkedList
  <2>6. head \in allocated /\ ToSet(After(head)) \subseteq allocated
    BY <2>3, <2>4
  <2>7. q_t_lock = NULL => tail \in allocated
    BY <2>1, <2>4, <2>5 DEF Inv, TailOK
  <2>8. ASSUME NEW c \in Consumers, pc[c] = "take"
        PROVE  {node[c], new_head[c]} \subseteq allocated
    BY <2>1, <2>4, <2>5, <2>8 DEF Inv, ConsumersOK, ConsumerOK
  <2>9. ASSUME NEW c \in Consumers, pc[c] = "delete"
        PROVE  /\ node[c] \in allocated \ ({head} \cup ToSet(After(head)))
               /\ \A d \in Consumers \ {c} : pc[d] = "delete" => node[c] # node[d]
    BY <2>1, <2>3, <2>9 DEF Inv, ConsumersOK, ConsumerOK
  <2> QED
    BY <2>6, <2>7, <2>8, <2>9 DEF NoUseAfterFree
<1> QED
  BY <1>1, Invariance, PTL

\* The list always ends in NULL, at the tail or at the end of the batch that
\* is being put behind it.
THEOREM ListIsWellFormed ==
  Spec => []ListWellFormed
<1>1. IInv => ListWellFormed
  <2> SUFFICES ASSUME IInv PROVE ListWellFormed
    OBVIOUS
  <2>1. PICK l \in Seq(Nodes) : Inv(l)
    BY DEF IInv
  <2>2. <<head>> \o After(head) = l
    BY <2>1, WholeList DEF Inv
  <2>3. TypeOK /\ next[l[Len(l)]] = NULL
    BY <2>1 DEF Inv, LinkedList
  <2>4. l[Len(l)] = IF q_t_lock = NULL THEN tail
                                       ELSE nodes[q_t_lock][Len(nodes[q_t_lock])]
    BY <2>1 DEF Inv, TailOK
  <2> QED
    BY <2>2, <2>3, <2>4 DEF ListWellFormed, Last
<1> QED
  BY <1>1, Invariance, PTL

\* No node of the queue is leaked.
THEOREM NothingIsLeaked ==
  Spec => []NoLeak
<1>1. IInv => NoLeak
  <2> SUFFICES ASSUME IInv PROVE NoLeak
    OBVIOUS
  <2>1. PICK l \in Seq(Nodes) : Inv(l)
    BY DEF IInv
  <2>2. {head} \cup ToSet(After(head)) = Elements(l)
    BY <2>1, WholeList DEF Inv
  <2>3. \A p \in Producers : NodesOf(p) = Elements(nodes[p])
    BY <2>1, ToSetIsElements DEF Inv, TypeOK, NodesOf
  <2>4. ASSUME NEW n \in allocated \ Elements(l)
        PROVE  \/ \E p \in Producers : pc[p] = "link" /\ n \in NodesOf(p)
               \/ \E c \in Consumers : pc[c] = "delete" /\ n = node[c]
    BY <2>1, <2>3 DEF Inv, MemoryOK
  <2>5. Elements(l) \subseteq allocated
    BY <2>1 DEF Inv, MemoryOK
  <2>6. \A p \in Producers : pc[p] = "link" => NodesOf(p) \subseteq allocated
    BY <2>1, <2>3 DEF Inv, ProducersOK, ProducerOK
  <2>7. \A c \in Consumers : pc[c] = "delete" => node[c] \in allocated
    BY <2>1 DEF Inv, ConsumersOK, ConsumerOK
  <2> DEFINE linking == UNION {NodesOf(p) : p \in {r \in Producers : pc[r] = "link"}}
             deleting == {node[c] : c \in {d \in Consumers : pc[d] = "delete"}}
  <2>8. linking \subseteq allocated /\ deleting \subseteq allocated
    BY <2>6, <2>7
  <2>9. allocated \subseteq Elements(l) \cup linking \cup deleting
    BY <2>4
  <2> HIDE DEF linking, deleting
  <2>10. allocated = {head} \cup ToSet(After(head)) \cup linking \cup deleting
    BY <2>2, <2>5, <2>8, <2>9
  <2> QED
    BY <2>10 DEF NoLeak, linking, deleting
<1> QED
  BY <1>1, Invariance, PTL

-----------------------------------------------------------------------------
(* The queue refines Fifo                                                  *)

\* The abstract queue, as the refinement mapping of ConQueue has it.
Content == [i \in 1 .. Len(After(head)) |-> value[After(head)[i]]]

\* It holds the values of the nodes behind the dummy.
ContentIsList ==
  \A l \in Seq(Nodes) :
    LinkedList(l) => Content = [i \in 1 .. Len(l) - 1 |-> value[l[i + 1]]]

LEMMA ContentOfList ==
  ContentIsList
<1> SUFFICES ASSUME NEW l \in Seq(Nodes), LinkedList(l)
             PROVE  Content = [i \in 1 .. Len(l) - 1 |-> value[l[i + 1]]]
  BY DEF ContentIsList
<1>1. After(head) = Tail(l)
  BY AfterHead
<1>2. /\ Len(Tail(l)) = Len(l) - 1
      /\ \A i \in 1 .. Len(l) - 1 : Tail(l)[i] = l[i + 1]
  BY ListFacts, EmptySeq, HeadTailProperties
<1> QED
  BY <1>1, <1>2 DEF Content

\* A dummy without successor is all there is.
LEMMA OnlyTheDummy ==
  ASSUME NEW l, LinkedList(l)
  PROVE  next[head] = NULL <=> Len(l) = 1
<1>1. Len(l) \in Nat \ {0} /\ \A i \in 1 .. Len(l) : l[i] \in Nodes
  BY ListFacts
<1>2. CASE Len(l) = 1
  BY <1>2 DEF LinkedList
<1>3. CASE Len(l) # 1
  <2>0. Len(l) \in Nat \ {0}
    BY <1>1
  <2>1. 1 \in 1 .. Len(l) - 1 /\ 1 + 1 \in 1 .. Len(l)
    <3>1. \A m \in Nat \ {0} : m # 1 => 1 \in 1 .. m - 1 /\ 1 + 1 \in 1 .. m
      OBVIOUS
    <3> QED
      BY <1>3, <2>0, <3>1
  <2>2. next[head] = l[1 + 1] /\ l[1 + 1] \in Nodes
    BY <1>1, <2>1 DEF LinkedList
  <2> QED
    BY <1>3, <2>2, ConQueueAssumption
<1> QED
  BY <1>2, <1>3

\* A step that keeps the list and its values keeps the content.
LEMMA ContentKept ==
  ASSUME NEW l, LinkedList(l), LinkedList(l)',
         \A n \in Elements(l) : value'[n] = value[n]
  PROVE  Content' = Content
<1>1. ContentIsList /\ ContentIsList'
  BY ContentOfList, PTL
<1>2. l \in Seq(Nodes) /\ Len(l) \in Nat \ {0}
  BY ListFacts
<1>3. /\ Content = [i \in 1 .. Len(l) - 1 |-> value[l[i + 1]]]
      /\ Content' = [i \in 1 .. Len(l) - 1 |-> value'[l[i + 1]]]
  BY <1>1, <1>2 DEF ContentIsList
<1>4. \A i \in 1 .. Len(l) - 1 : l[i + 1] \in Elements(l)
  <2>1. \A i \in 1 .. Len(l) - 1 : i + 1 \in 1 .. Len(l)
    BY <1>2
  <2> QED
    BY <2>1 DEF Elements
<1> QED
  BY <1>3, <1>4

\* Linking a batch is the enqueue: its values come last.
LEMMA LinkEnqueues ==
  ASSUME NEW l, Inv(l), NEW p \in Producers, Link(p)
  PROVE  \E vs \in Batches : Content' = Content \o vs
<1> DEFINE ns == nodes[p]
<1>1. PICK k : k = l \o ns
  OBVIOUS
<1>2. Inv(k)'
  BY <1>1, LinkStep
<1>3. /\ l \in Seq(Nodes) /\ Len(l) \in Nat \ {0} /\ ns \in Seq(Nodes)
      /\ ProducerOK(l, p) /\ pc[p] = "link" /\ value' = value
      /\ LinkedList(l)
  BY ListFacts DEF Inv, TypeOK, ProducersOK, Link
<1>4. /\ k \in Seq(Nodes) /\ Len(k) = Len(l) + Len(ns)
      /\ \A i \in 1 .. Len(l) + Len(ns) :
            k[i] = IF i <= Len(l) THEN l[i] ELSE ns[i - Len(l)]
  BY <1>1, <1>3, ConcatProperties
<1>5. PICK vs \in Batches : vs = [i \in 1 .. Len(ns) |-> value[ns[i]]]
  BY <1>3 DEF ProducerOK
<1>6. Len(ns) \in Nat
  BY <1>3, LenProperties
<1>7. Len(vs) = Len(ns) /\ vs \in Seq(Values)
  <2>1. DOMAIN vs = 1 .. Len(ns) /\ DOMAIN vs = 1 .. Len(vs) /\ Len(vs) \in Nat
    BY <1>5, BatchFacts
  <2> QED
    BY <1>6, <2>1, BatchFacts
<1> HIDE DEF ns
<1>8. ContentIsList /\ ContentIsList'
  BY ContentOfList, PTL
<1>9. /\ Content = [i \in 1 .. Len(l) - 1 |-> value[l[i + 1]]]
      /\ Content' = [i \in 1 .. Len(k) - 1 |-> value[k[i + 1]]]
  BY <1>2, <1>3, <1>4, <1>8 DEF ContentIsList, Inv
<1>10. /\ Content \in Seq(Values) /\ Len(Content) = Len(l) - 1
  <2>0. Len(l) \in Nat \ {0}
    BY <1>3
  <2>1. \A i \in 1 .. Len(l) - 1 : i + 1 \in 2 .. Len(l)
    BY <2>0
  <2>2. \A i \in 1 .. Len(l) - 1 : value[l[i + 1]] \in Values
    BY <2>1 DEF Inv, MemoryOK
  <2>3. Len(l) - 1 \in Nat
    BY <2>0
  <2>4. Content \in Seq(Values)
    BY <1>9, <2>2, <2>3, IsASeq
  <2> QED
    BY <1>9, <2>3, <2>4, LenProperties
<1> DEFINE w == Content \o vs
<1>11. /\ w \in Seq(Values) /\ Len(w) = Len(l) - 1 + Len(ns)
       /\ \A i \in 1 .. Len(l) - 1 + Len(ns) :
             w[i] = IF i <= Len(l) - 1 THEN Content[i] ELSE vs[i - (Len(l) - 1)]
  <2>1. /\ w \in Seq(Values) /\ Len(w) = Len(Content) + Len(vs)
        /\ \A i \in 1 .. Len(Content) + Len(vs) : w[i] =
             IF i <= Len(Content) THEN Content[i] ELSE vs[i - Len(Content)]
    <3>1. \A a, b \in Seq(Values) :
             /\ a \o b \in Seq(Values) /\ Len(a \o b) = Len(a) + Len(b)
             /\ \A i \in 1 .. Len(a) + Len(b) : (a \o b)[i] =
                  IF i <= Len(a) THEN a[i] ELSE b[i - Len(a)]
      BY ConcatProperties
    <3>2. Content \in Seq(Values) /\ vs \in Seq(Values)
      BY <1>7, <1>10
    <3> QED
      BY <3>1, <3>2
  <2>2. Len(Content) = Len(l) - 1 /\ Len(vs) = Len(ns)
    BY <1>7, <1>10
  <2> HIDE DEF w
  <2> QED
    BY <2>1, <2>2
<1> HIDE DEF w
<1>12. Len(k) - 1 = Len(w)
  BY <1>3, <1>4, <1>6, <1>11
<1>13. ASSUME NEW i \in 1 .. Len(w) PROVE value[k[i + 1]] = w[i]
  <2>0. Len(l) \in Nat \ {0}
    BY <1>3
  <2>1. CASE i <= Len(l) - 1
    <3>1. i \in 1 .. Len(l) - 1 /\ i + 1 <= Len(l) /\ i + 1 \in 1 .. Len(l) + Len(ns)
          /\ i \in 1 .. Len(l) - 1 + Len(ns)
      BY <1>6, <1>11, <2>0, <2>1
    <3>2. k[i + 1] = l[i + 1] /\ w[i] = Content[i]
      BY <1>4, <1>11, <2>1, <3>1
    <3> QED
      BY <1>9, <3>1, <3>2
  <2>2. CASE ~ (i <= Len(l) - 1)
    <3>1. /\ ~ (i + 1 <= Len(l)) /\ i + 1 \in 1 .. Len(l) + Len(ns)
          /\ (i + 1) - Len(l) \in 1 .. Len(ns)
          /\ i - (Len(l) - 1) = (i + 1) - Len(l)
          /\ i \in 1 .. Len(l) - 1 + Len(ns)
      BY <1>6, <1>11, <2>0, <2>2
    <3>2. k[i + 1] = ns[(i + 1) - Len(l)] /\ w[i] = vs[(i + 1) - Len(l)]
      BY <1>4, <1>11, <2>2, <3>1
    <3> QED
      BY <1>5, <3>1, <3>2
  <2> QED
    BY <2>1, <2>2
<1>14. w = [i \in 1 .. Len(w) |-> w[i]]
  BY <1>11, LenProperties
<1>15. Content' = w
  BY <1>9, <1>12, <1>13, <1>14
<1> QED
  BY <1>15 DEF w

\* Taking a value is the dequeue of the first one.
LEMMA TakeDequeues ==
  ASSUME NEW l, Inv(l), NEW c \in Consumers, TakeValue(c)
  PROVE  /\ Content # <<>>
         /\ Content' = Tail(Content)
         /\ answer' = [answer EXCEPT ![c] = Head(Content)]
<1>1. Inv(Tail(l))'
  BY TakeValueStep
<1>2. /\ l \in Seq(Nodes) /\ Len(l) \in Nat \ {0} /\ LinkedList(l)
      /\ ConsumerOK(l, c) /\ pc[c] = "take" /\ value' = value
      /\ answer' = [answer EXCEPT ![c] = value[new_head[c]]]
  BY ListFacts DEF Inv, ConsumersOK, TakeValue, memory
<1>3. Len(l) > 1 /\ new_head[c] = l[2]
  BY <1>2 DEF ConsumerOK
<1>4. /\ Tail(l) \in Seq(Nodes) /\ Len(Tail(l)) = Len(l) - 1
      /\ \A i \in 1 .. Len(l) - 1 : Tail(l)[i] = l[i + 1]
  BY <1>2, EmptySeq, HeadTailProperties
<1>5. ContentIsList /\ ContentIsList'
  BY ContentOfList, PTL
<1>6. PICK t \in Seq(Nodes) : t = Tail(l)
  BY <1>4
<1>7. /\ Content = [i \in 1 .. Len(l) - 1 |-> value[l[i + 1]]]
      /\ Content' = [i \in 1 .. Len(t) - 1 |-> value[t[i + 1]]]
  BY <1>1, <1>2, <1>5, <1>6 DEF ContentIsList, Inv
<1>8. Len(l) \in Nat \ {0, 1}
  BY <1>2, <1>3
<1>9. /\ Content \in Seq(Values) /\ Len(Content) = Len(l) - 1
  <2>1. \A i \in 1 .. Len(l) - 1 : i + 1 \in 2 .. Len(l)
    BY <1>8
  <2>2. \A i \in 1 .. Len(l) - 1 : value[l[i + 1]] \in Values
    BY <2>1 DEF Inv, MemoryOK
  <2>3. Len(l) - 1 \in Nat
    BY <1>8
  <2>4. Content \in Seq(Values)
    BY <1>7, <2>2, <2>3, IsASeq
  <2> QED
    BY <1>7, <2>3, <2>4, LenProperties
<1>10. Content # <<>>
  BY <1>8, <1>9, EmptySeq
<1>11. /\ Tail(Content) \in Seq(Values) /\ Len(Tail(Content)) = Len(l) - 2
       /\ \A i \in 1 .. Len(l) - 2 : Tail(Content)[i] = Content[i + 1]
       /\ Head(Content) = Content[1]
  <2>1. Len(l) - 1 - 1 = Len(l) - 2
    BY <1>8
  <2> QED
    BY <1>9, <1>10, <2>1, HeadTailProperties
<1>12. Head(Content) = value[l[2]]
  BY <1>7, <1>8, <1>11
<1>13. ASSUME NEW i \in 1 .. Len(l) - 2
       PROVE  value[t[i + 1]] = Tail(Content)[i]
  <2>1. i + 1 \in 1 .. Len(l) - 1
    BY <1>8
  <2> QED
    BY <1>4, <1>6, <1>7, <1>11, <2>1
<1>14. Tail(Content) = [i \in 1 .. Len(l) - 2 |-> Tail(Content)[i]]
  BY <1>11, LenProperties
<1>15. Len(t) - 1 = Len(l) - 2
  BY <1>4, <1>6, <1>8
<1> QED
  BY <1>2, <1>3, <1>7, <1>10, <1>12, <1>13, <1>14, <1>15

LEMMA InitRefines ==
  Init => Abstract!Init
<1> SUFFICES ASSUME Init PROVE Abstract!Init
  OBVIOUS
<1>1. PICK l \in Seq(Nodes) : Inv(l)
  BY InitIInv DEF IInv
<1>2. next[head] = NULL /\ answer = [c \in Consumers |-> None]
  BY DEF Init
<1>3. Len(l) = 1 /\ LinkedList(l)
  BY <1>1, <1>2, OnlyTheDummy DEF Inv
<1>4. Content = [i \in 1 .. Len(l) - 1 |-> value[l[i + 1]]]
  BY <1>3, ContentOfList DEF ContentIsList
<1>5. Content = <<>>
  BY <1>3, <1>4
<1> QED
  BY <1>2, <1>5 DEF Abstract!Init, Content

LEMMA StepRefines ==
  ASSUME NEW l, Inv(l), [Next]_vars
  PROVE  [Abstract!Next]_(Abstract!vars)
<1> DEFINE stutter == Content' = Content /\ answer' = answer
<1>1. ASSUME stutter PROVE UNCHANGED Abstract!vars
  BY <1>1 DEF Abstract!vars, Content
<1>2. /\ LinkedList(l) /\ l \in Seq(Nodes) /\ Len(l) \in Nat \ {0}
      /\ Elements(l) \subseteq allocated
      /\ \A i \in 1 .. Len(l) : l[i] \in Nodes
  BY ListFacts DEF Inv, MemoryOK
<1>3. Elements(l) \subseteq Nodes
  BY <1>2 DEF Elements
<1>4. next[head] = NULL <=> Content = <<>>
  <2>1. Content = [i \in 1 .. Len(l) - 1 |-> value[l[i + 1]]]
    BY <1>2, ContentOfList DEF ContentIsList
  <2>2. Content = <<>> <=> Len(l) = 1
    <3>0. Len(l) \in Nat \ {0}
      BY <1>2
    <3>1. DOMAIN Content = 1 .. Len(l) - 1
      BY <2>1
    <3>2. CASE Len(l) = 1
      BY <2>1, <3>2
    <3>3. CASE Len(l) # 1
      <4>1. 1 \in 1 .. Len(l) - 1
        BY <3>0, <3>3
      <4>2. 1 \notin DOMAIN << >>
        OBVIOUS
      <4> QED
        BY <3>1, <3>3, <4>1, <4>2
    <3> QED
      BY <3>2, <3>3
  <2> QED
    BY <1>2, <2>2, OnlyTheDummy
<1>5. CASE UNCHANGED vars
  BY <1>5 DEF vars, memory, Abstract!vars, After, Longer
<1>6. ASSUME NEW p \in Producers, NEW vs \in Batches, NEW ns \in NodeSeqs,
             NewNodes(p, vs, ns)
      PROVE  stutter
  <2>1. LinkedList(l)'
    BY <1>6, NewNodesStep DEF Inv
  <2>2. \A n \in Elements(l) : value'[n] = value[n]
    BY <1>2, <1>3, <1>6 DEF NewNodes
  <2> QED
    BY <1>2, <1>6, <2>1, <2>2, ContentKept DEF NewNodes
<1>7. ASSUME NEW p \in Producers, Link(p)
      PROVE  \E vs \in Batches : Abstract!Enqueue(vs)
  <2>1. PICK vs \in Batches : Content' = Content \o vs
    BY <1>7, LinkEnqueues
  <2>2. answer' = answer
    BY <1>7 DEF Link
  <2>3. Abstract!Enqueue(vs)
    BY <2>1, <2>2 DEF Abstract!Enqueue, Content
  <2> QED
    BY <2>3
<1>8. ASSUME NEW p \in Producers, SetTail(p) PROVE stutter
  <2>1. LinkedList(l)'
    BY <1>8, SetTailStep DEF Inv
  <2> QED
    BY <1>2, <1>8, <2>1, ContentKept DEF SetTail, memory
<1>9. ASSUME NEW c \in Consumers, Call(c) PROVE Abstract!Call(c)
  <2>1. LinkedList(l)'
    BY <1>9, AnswerStep DEF Inv
  <2>2. Content' = Content /\ answer' = [answer EXCEPT ![c] = None]
    BY <1>2, <1>9, <2>1, ContentKept DEF Call, memory
  <2> QED
    BY <2>2 DEF Abstract!Call, Content
<1>10. ASSUME NEW c \in Consumers, Empty(c) PROVE Abstract!Empty(c)
  <2>1. LinkedList(l)'
    BY <1>10, AnswerStep DEF Inv
  <2>2. /\ Content' = Content
        /\ answer' = [answer EXCEPT ![c] = IF Content = <<>> THEN Failed
                                                             ELSE NonEmpty]
    BY <1>2, <1>4, <1>10, <2>1, ContentKept DEF Empty, memory
  <2> QED
    BY <2>2 DEF Abstract!Empty, Content
<1>11. ASSUME NEW c \in Consumers, LoadHead(c)
       PROVE  stutter \/ Abstract!Dequeue(c)
  <2>1. LinkedList(l)'
    BY <1>11, LoadHeadStep DEF Inv
  <2>2. Content' = Content
    BY <1>2, <1>11, <2>1, ContentKept DEF LoadHead, memory
  <2>3. CASE next[head] = NULL
    <3>1. Content = <<>> /\ answer' = [answer EXCEPT ![c] = Failed]
      BY <1>4, <1>11, <2>3 DEF LoadHead
    <3> QED
      BY <2>2, <3>1 DEF Abstract!Dequeue, Content
  <2>4. CASE next[head] # NULL
    BY <1>11, <2>2, <2>4 DEF LoadHead
  <2> QED
    BY <2>3, <2>4
<1>12. ASSUME NEW c \in Consumers, TakeValue(c) PROVE Abstract!Dequeue(c)
  <2>1. /\ Content # <<>> /\ Content' = Tail(Content)
        /\ answer' = [answer EXCEPT ![c] = Head(Content)]
    BY <1>12, TakeDequeues
  <2> QED
    BY <2>1 DEF Abstract!Dequeue, Content
<1>13. ASSUME NEW c \in Consumers, DeleteNode(c) PROVE stutter
  <2>1. LinkedList(l)'
    BY <1>13, DeleteNodeStep DEF Inv
  <2> QED
    BY <1>2, <1>13, <2>1, ContentKept DEF DeleteNode
<1> HIDE DEF stutter
<1>14. CASE Next
  <2>1. \/ \E p \in Producers :
              \/ \E vs \in Batches, ns \in NodeSeqs : NewNodes(p, vs, ns)
              \/ Link(p)
              \/ SetTail(p)
        \/ \E c \in Consumers :
              Call(c) \/ LoadHead(c) \/ TakeValue(c) \/ DeleteNode(c) \/ Empty(c)
    BY <1>14 DEF Next
  <2>2. \/ stutter
        \/ \E vs \in Batches : Abstract!Enqueue(vs)
        \/ \E c \in Consumers : Abstract!Call(c)
        \/ \E c \in Consumers : Abstract!Empty(c)
        \/ \E c \in Consumers : Abstract!Dequeue(c)
    BY <2>1, <1>6, <1>7, <1>8, <1>9, <1>10, <1>11, <1>12, <1>13
  <2> QED
    BY <2>2, <1>1 DEF Abstract!Next
<1> QED
  BY <1>5, <1>14

\* conque is a linearizable queue: an enqueue takes effect when the batch is
\* linked, a dequeue when head moves or next is found NULL.
THEOREM Refinement ==
  Spec => ImplementsFifo
<1>1. IInv /\ [Next]_vars => [Abstract!Next]_(Abstract!vars)
  BY StepRefines DEF IInv
<1> QED
  BY <1>1, InitRefines, Invariance, PTL DEF Spec, ImplementsFifo, Abstract!Spec
=============================================================================

--------------------------- MODULE MessagingProof ---------------------------
(***************************************************************************)
(* Proofs about Messaging, for any sets of clients and runs of the server, *)
(* any lines and any sizes of the queues.                                  *)
(*                                                                         *)
(* A server that runs owns its keys because IPC_EXCL refuses a key that is *)
(* taken and because only its owner gives a key back while it runs         *)
(* (Owns).  A query is at one place from the moment it is sent to the      *)
(* moment it is answered (Once, Apart(Held)), so each answered query makes *)
(* one notification at most, and a client that is alone cannot have        *)
(* counted more notifications than there are answers (Counted).            *)
(***************************************************************************)
EXTENDS Messaging, ProofLemmas

-----------------------------------------------------------------------------
(* The inductive invariant                                                 *)

WPCs == {"down", "made", "recv", "check", "rmserver", "rmnotifier", "exit",
         "crashed", "failed"}
CPCs == {"start", "attach", "send", "wait", "drain", "done", "failed"}
Mail == Clients \X Nat

Given ==
  /\ \A c \in Clients : lines[c] \in Seq({Query, ServerExit})
  /\ \A k \in Keys : limit[k] \in Nat \ {0}

Types ==
  /\ key \in [Keys -> Servers \cup {Nobody}]
  /\ box \in [Keys -> [Servers -> Seq(Mail)]]
  /\ wpc \in [Servers -> WPCs]
  /\ server_exit \in [Servers -> BOOLEAN]
  /\ new_queries \in [Servers -> SUBSET Mail]
  /\ accepted \in [Servers -> SUBSET Mail]
  /\ done \in SUBSET Mail
  /\ cpc \in [Clients -> CPCs]
  /\ next \in [Clients -> Nat \ {0}]
  /\ qid \in [Clients -> [Keys -> Servers \cup {Nobody}]]
  /\ query_num \in [Clients -> Int]

Owns ==
  \A s \in Servers :
    /\ wpc[s] \in {"made", "recv", "check", "rmserver"} => key["x"] = s
    /\ wpc[s] \in {"recv", "check", "rmserver", "rmnotifier"} => key["b"] = s

\* What the clients were given to send, and what of it is a query.
IsLine(m) == m[2] \in 1 .. Len(lines[m[1]])
IsQuery(m) == m[2] \in Lines(m[1]) /\ ~ IsExit(m)

Contents ==
  /\ \A s \in Servers : \A m \in Elements(box["x"][s]) :
        IsLine(m) /\ (IsExit(m) \/ IsQuery(m))
  /\ \A s \in Servers : \A m \in Elements(box["b"][s]) : IsQuery(m)
  /\ \A s \in Servers : \A m \in new_queries[s] \cup accepted[s] : IsQuery(m)
  /\ \A m \in done : IsQuery(m)

Sizes == \A k \in Keys, s \in Servers : Len(box[k][s]) <= limit[k]

\* The places a query can be at.
Places == ({"x", "new", "accepted"} \X Servers) \cup {<<"done", Nobody>>}

QueriesIn(x) == {m \in Elements(x) : ~ IsExit(m)}

Held == [p \in Places |-> CASE p[1] = "x"        -> QueriesIn(box["x"][p[2]])
                            [] p[1] = "new"      -> new_queries[p[2]]
                            [] p[1] = "accepted" -> accepted[p[2]]
                            [] OTHER             -> done]

\* A query is in a queue once, and was sent.
OnceIn(x) == \A i, j \in 1 .. Len(x) : x[i] = x[j] /\ ~ IsExit(x[i]) => i = j
Once == \A s \in Servers : OnceIn(box["x"][s])
SentBefore == \A p \in Places : \A m \in Held[p] : m[2] < next[m[1]]

\* Where a batch client is in its program, by what it has sent and counted.
\* An interactive client waits for nothing.
Progress ==
  /\ \A c \in Batch :
       /\ next[c] <= Loaded(c) + 1
       /\ query_num[c] <= next[c] - 1
       /\ cpc[c] \in {"wait", "drain", "done"} => next[c] = Loaded(c) + 1
       /\ cpc[c] \in {"wait", "drain"} => Loaded(c) > 0
       /\ cpc[c] = "done" => query_num[c] <= 0
  /\ \A c \in Clients \ Batch : cpc[c] \notin {"wait", "drain"}

\* The places in the queues of notifications that are taken.
Pending == {p \in Servers \X Nat : p[2] \in 1 .. Len(box["b"][p[1]])}

Counted ==
  /\ IsFiniteSet(Pending) /\ IsFiniteSet(done)
  /\ \A c \in Batch : Alone(c) =>
        next[c] - 1 - query_num[c] + Cardinality(Pending) <= Cardinality(done)

IInv == /\ Given /\ Types /\ Owns /\ Contents /\ Sizes
        /\ Apart(Held) /\ Once /\ SentBefore /\ Progress /\ Counted

-----------------------------------------------------------------------------
(* Facts about a state                                                     *)

LEMMA LoadedIs ==
  ASSUME Given, NEW c \in Clients
  PROVE  /\ Loaded(c) \in 0 .. Len(lines[c])
         /\ Loaded(c) < Len(lines[c]) => lines[c][Loaded(c) + 1] = ServerExit
         /\ \A i \in 1 .. Loaded(c) : lines[c][i] # ServerExit
         /\ Len(lines[c]) \in Nat
<1> DEFINE e == SelectInSeq(lines[c], LAMBDA l : l = ServerExit)
<1>1. lines[c] \in Seq({Query, ServerExit}) /\ Len(lines[c]) \in Nat
  BY DEF Given
<1>2. /\ e \in 0 .. Len(lines[c])
      /\ e = 0 => \A i \in 1 .. Len(lines[c]) : lines[c][i] # ServerExit
      /\ e # 0 => /\ lines[c][e] = ServerExit
                  /\ \A i \in 1 .. e - 1 : lines[c][i] # ServerExit
  BY <1>1, FirstPosition DEF SelectInSeq, Min
<1>3. Loaded(c) = IF e = 0 THEN Len(lines[c]) ELSE e - 1
  BY DEF Loaded
<1> HIDE DEF e
<1>4. CASE e = 0
  BY <1>1, <1>2, <1>3, <1>4
<1>5. CASE e # 0
  <2>1. Loaded(c) = e - 1 /\ Loaded(c) + 1 = e /\ e - 1 \in 0 .. Len(lines[c])
    BY <1>1, <1>2, <1>3, <1>5
  <2> QED
    BY <1>1, <1>2, <1>5, <2>1
<1> QED
  BY <1>4, <1>5

LEMMA LinesAre ==
  ASSUME Given, NEW c \in Clients
  PROVE  /\ Lines(c) \subseteq 1 .. Len(lines[c])
         /\ c \in Batch => Lines(c) = 1 .. Loaded(c)
         /\ c \in Interactive => Lines(c) = 1 .. Len(lines[c])
BY LoadedIs, MessagingAssumption DEF Lines, Clients

\* A client that has only orders to stop to send, if any, loads no query.
LEMMA NothingLoaded ==
  ASSUME Given, NEW c \in Clients, Query \notin Range(lines[c])
  PROVE  Loaded(c) = 0
<1>1. ASSUME Loaded(c) # 0 PROVE FALSE
  <2>1. 1 \in 1 .. Loaded(c) /\ 1 \in 1 .. Len(lines[c])
    BY <1>1, LoadedIs
  <2>2. lines[c][1] \in {Query, ServerExit} /\ lines[c][1] # ServerExit
    BY <2>1, LoadedIs DEF Given
  <2>3. lines[c] \in Seq({Query, ServerExit})
    BY DEF Given
  <2> QED
    BY <2>1, <2>2, <2>3 DEF Range
<1> QED
  BY <1>1

\* An entry of a queue replaced.
LEMMA BoxSet ==
  ASSUME NEW A, NEW B, NEW X, NEW f \in [A -> [B -> X]], NEW k \in A,
         NEW s \in B, NEW e \in X
  PROVE  LET g == [f EXCEPT ![k][s] = e]
         IN /\ g \in [A -> [B -> X]] /\ g[k][s] = e
            /\ \A l \in A, r \in B : l # k \/ r # s => g[l][r] = f[l][r]
OBVIOUS

\* A message that is sent comes to the end of the queue, or nothing happens.
LEMMA SentIs ==
  ASSUME Types, NEW k \in Keys, NEW s, NEW m \in Mail
  PROVE  \/ Sent(k, s, m) = box /\ ~ HasRoom(k, s)
         \/ /\ s \in Servers /\ key[k] = s /\ Len(box[k][s]) < limit[k]
            /\ HasRoom(k, s)
            /\ Sent(k, s, m) = [box EXCEPT ![k][s] = Append(box[k][s], m)]
            /\ Append(box[k][s], m) \in Seq(Mail)
<1>1. box \in [Keys -> [Servers -> Seq(Mail)]] /\ key \in [Keys -> Servers \cup {Nobody}]
  BY DEF Types
<1>2. CASE HasRoom(k, s)
  <2>1. s \in Servers /\ key[k] = s /\ Len(box[k][s]) < limit[k]
    BY <1>1, <1>2 DEF HasRoom, Exists
  <2>2. Append(box[k][s], m) \in Seq(Mail)
    BY <1>1, <2>1
  <2> QED
    BY <1>1, <1>2, <2>1, <2>2 DEF Sent
<1>3. CASE ~ HasRoom(k, s)
  <2>1. Sent(k, s, m) = [box EXCEPT ![k][s] = @]
    BY <1>3 DEF Sent
  <2> QED
    BY <1>1, <1>3, <2>1
<1> QED
  BY <1>2, <1>3

LEMMA SentTypes ==
  ASSUME Types, NEW k \in Keys, NEW s, NEW m \in Mail
  PROVE  Sent(k, s, m) \in [Keys -> [Servers -> Seq(Mail)]]
<1>1. box \in [Keys -> [Servers -> Seq(Mail)]]
  BY DEF Types
<1>2. CASE Sent(k, s, m) = box
  BY <1>1, <1>2
<1>3. CASE Sent(k, s, m) # box
  <2> DEFINE e == Append(box[k][s], m)
  <2>1. s \in Servers /\ e \in Seq(Mail) /\ Sent(k, s, m) = [box EXCEPT ![k][s] = e]
    BY <1>3, SentIs
  <2> HIDE DEF e
  <2> QED
    BY <1>1, <2>1, BoxSet
<1> QED
  BY <1>2, <1>3

\* What is taken from a queue and what is left of it.
LEMMA TakenFrom ==
  ASSUME Types, NEW k \in Keys, NEW s \in Servers, box[k][s] # <<>>
  PROVE  /\ Head(box[k][s]) \in Mail /\ Tail(box[k][s]) \in Seq(Mail)
         /\ Elements(box[k][s]) =
              Elements(Tail(box[k][s])) \cup {Head(box[k][s])}
         /\ Len(Tail(box[k][s])) = Len(box[k][s]) - 1
         /\ Len(box[k][s]) \in Nat \ {0}
<1>1. box[k][s] \in Seq(Mail)
  BY DEF Types
<1>2. Len(box[k][s]) \in Nat \ {0}
  BY <1>1, EmptySeq
<1> QED
  BY <1>1, <1>2, HeadTailElements

-----------------------------------------------------------------------------
(* Types                                                                   *)

LEMMA TypesStep ==
  ASSUME Types, Given, [Next]_vars
  PROVE  Types' /\ Given'
<1>0. Given'
  <2>1. UNCHANGED given
    BY DEF Next, vars, Serve, Proceed, CreateServer, CreateNotifier, Create,
       Receive, EnqueueNew, Finish, CheckEnd, DeleteServer, DeleteNotifier,
       RemoveQueue, Crash, Clean, Attach, AttachReceiver, Type, Quit, SendQuery,
       SendExit, Notified, Stranded, Drained
  <2> QED
    BY <2>1 DEF Given, given
<1> SUFFICES Types'
  BY <1>0
<1>1. CASE UNCHANGED vars
  BY <1>1 DEF vars, given, server, client, Types
<1>2. ASSUME NEW s \in Servers, CreateServer(s) \/ CreateNotifier(s) PROVE Types'
  <2>1. PICK k \in Keys : \E from, to :
           Create(s, k, from, to) /\ to \in {"made", "recv"}
    BY <1>2 DEF CreateServer, CreateNotifier, Keys
  <2>2. /\ key' \in [Keys -> Servers \cup {Nobody}] /\ wpc' \in [Servers -> WPCs]
    BY <2>1 DEF Create, Types, WPCs
  <2> QED
    BY <2>1, <2>2 DEF Create, client, Types
<1>3. ASSUME NEW s \in Servers, Receive(s) PROVE Types'
  <2>1. "x" \in Keys /\ box["x"][s] # <<>>
    BY <1>3 DEF Receive, Keys
  <2>2. Head(box["x"][s]) \in Mail /\ Tail(box["x"][s]) \in Seq(Mail)
    BY <2>1, TakenFrom
  <2>3. box' = [box EXCEPT !["x"][s] = Tail(@)]
    BY <1>3 DEF Receive
  <2>4. box' \in [Keys -> [Servers -> Seq(Mail)]]
    BY <2>1, <2>2, <2>3 DEF Types
  <2>5. /\ new_queries' \in [Servers -> SUBSET Mail]
        /\ server_exit' \in [Servers -> BOOLEAN]
    <3> DEFINE m == Head(box["x"][s])
    <3>1. CASE IsExit(m)
      BY <1>3, <3>1 DEF Receive, Types
    <3>2. CASE ~ IsExit(m)
      <4>1. /\ new_queries' = [new_queries EXCEPT ![s] = @ \cup {m}]
            /\ UNCHANGED server_exit
        BY <1>3, <3>2 DEF Receive
      <4>2. new_queries[s] \cup {m} \in SUBSET Mail
        BY <2>2 DEF Types
      <4> HIDE DEF m
      <4> QED
        BY <4>1, <4>2 DEF Types
    <3> QED
      BY <3>1, <3>2
  <2> QED
    BY <1>3, <2>4, <2>5 DEF Receive, Types, client
<1>4. ASSUME NEW s \in Servers, EnqueueNew(s) PROVE Types'
  BY <1>4 DEF EnqueueNew, Types, client, WPCs
<1>5. ASSUME NEW s \in Servers, NEW q \in accepted[s], Finish(s, q) PROVE Types'
  <2>1. q \in Mail /\ "b" \in Keys
    BY DEF Types, Keys
  <2>2. box' \in [Keys -> [Servers -> Seq(Mail)]]
    BY <1>5, <2>1, SentTypes DEF Finish
  <2> QED
    BY <1>5, <2>1, <2>2 DEF Finish, Types, client
<1>6. ASSUME NEW s \in Servers, CheckEnd(s) \/ Crash(s) PROVE Types'
  BY <1>6 DEF CheckEnd, Crash, Types, client, WPCs
<1>7. ASSUME NEW s \in Servers, DeleteServer(s) \/ DeleteNotifier(s) PROVE Types'
  <2>1. ASSUME NEW k \in Keys, box' = [box EXCEPT ![k][s] = <<>>]
        PROVE  box' \in [Keys -> [Servers -> Seq(Mail)]]
    BY <2>1 DEF Types
  <2>2. box' \in [Keys -> [Servers -> Seq(Mail)]]
    BY <1>7, <2>1 DEF DeleteServer, DeleteNotifier, RemoveQueue, Keys
  <2> QED
    BY <1>7, <2>2 DEF DeleteServer, DeleteNotifier, RemoveQueue, Types, client, WPCs
<1>8. CASE Clean
  BY <1>8 DEF Clean, Types, server, client
<1>9. ASSUME NEW c \in Clients, Attach(c) \/ AttachReceiver(c) PROVE Types'
  <2>1. qid' \in [Clients -> [Keys -> Servers \cup {Nobody}]]
    <3>1. PICK k \in Keys : qid' = [qid EXCEPT ![c][k] = key[k]]
      BY <1>9 DEF Attach, AttachReceiver, Keys
    <3> QED
      BY <3>1 DEF Types
  <2>2. cpc' \in [Clients -> CPCs]
    BY <1>9 DEF Attach, AttachReceiver, Types, Goto, CPCs
  <2> QED
    BY <1>9, <2>1, <2>2 DEF Attach, AttachReceiver, Types, server
<1>10. ASSUME NEW c \in Clients, Type(c) \/ SendQuery(c) PROVE Types'
  <2>1. <<c, next[c]>> \in Mail /\ "x" \in Keys
    BY DEF Types, Mail, Keys
  <2>2. box' \in [Keys -> [Servers -> Seq(Mail)]]
    BY <1>10, <2>1, SentTypes DEF Type, SendQuery
  <2>3. next' \in [Clients -> Nat \ {0}]
    <3>1. next[c] + 1 \in Nat \ {0} /\ next \in [Clients -> Nat \ {0}]
      BY DEF Types
    <3>2. next' = [next EXCEPT ![c] = next[c] + 1]
      BY <1>10 DEF Type, SendQuery
    <3> QED
      BY <3>1, <3>2
  <2>4. query_num' \in [Clients -> Int]
    BY <1>10 DEF Type, SendQuery, Types
  <2> QED
    BY <1>10, <2>2, <2>3, <2>4 DEF Type, SendQuery, Types, server
<1>11. ASSUME NEW c \in Clients, SendExit(c) PROVE Types'
  <2>1. <<c, Loaded(c) + 1>> \in Mail /\ "x" \in Keys
    BY LoadedIs DEF Mail, Keys
  <2>2. box' \in [Keys -> [Servers -> Seq(Mail)]]
    BY <1>11, <2>1, SentTypes DEF SendExit, Types
  <2> QED
    BY <1>11, <2>2 DEF SendExit, Types, server, Goto, CPCs
<1>12. ASSUME NEW c \in Clients, Notified(c) PROVE Types'
  <2>1. PICK s \in Servers : s = qid[c]["b"]
    BY <1>12 DEF Notified, Exists, Types, Keys
  <2>2. "b" \in Keys /\ box["b"][s] # <<>> /\ box' = [box EXCEPT !["b"][s] = Tail(@)]
    BY <1>12, <2>1 DEF Notified, Keys
  <2>3. Tail(box["b"][s]) \in Seq(Mail)
    BY <2>2, TakenFrom
  <2>4. box' \in [Keys -> [Servers -> Seq(Mail)]]
    BY <2>2, <2>3 DEF Types
  <2> QED
    BY <1>12, <2>4 DEF Notified, Types, server, Goto, CPCs
<1>13. ASSUME NEW c \in Clients, Quit(c) \/ Stranded(c) \/ Drained(c) PROVE Types'
  BY <1>13 DEF Quit, Stranded, Drained, Types, server, Goto, CPCs
<1> QED
  BY <1>1, <1>2, <1>3, <1>4, <1>5, <1>6, <1>7, <1>8, <1>9, <1>10, <1>11, <1>12,
     <1>13 DEF Next, Serve, Proceed

-----------------------------------------------------------------------------
(* Who owns the keys                                                       *)

LEMMA OwnsStep ==
  ASSUME Types, Owns, [Next]_vars
  PROVE  Owns'
<1>0. /\ key \in [Keys -> Servers \cup {Nobody}] /\ DOMAIN wpc = Servers
      /\ "x" \in Keys /\ "b" \in Keys /\ "x" # "b" /\ Nobody \notin Servers
  BY MessagingAssumption DEF Types, Keys
<1> USE <1>0
<1>1. ASSUME UNCHANGED <<key, wpc>> PROVE Owns'
  BY <1>1 DEF Owns
<1>2. CASE UNCHANGED vars
  BY <1>1, <1>2 DEF vars, server
<1>3. ASSUME NEW s \in Servers, CreateServer(s) \/ CreateNotifier(s) PROVE Owns'
  BY <1>3 DEF CreateServer, CreateNotifier, Create, Owns
<1>4. ASSUME NEW s \in Servers, EnqueueNew(s) \/ CheckEnd(s) \/ Crash(s) PROVE Owns'
  BY <1>4 DEF EnqueueNew, CheckEnd, Crash, Owns
<1>5. ASSUME NEW s \in Servers, DeleteServer(s) \/ DeleteNotifier(s) PROVE Owns'
  BY <1>5 DEF DeleteServer, DeleteNotifier, RemoveQueue, Owns
<1>6. CASE Clean
  BY <1>6 DEF Clean, Owns, Alive, server
<1>7. ASSUME NEW s \in Servers, Receive(s) \/ \E q \in accepted[s] : Finish(s, q)
      PROVE  Owns'
  BY <1>1, <1>7 DEF Receive, Finish
<1>8. ASSUME NEW c \in Clients, Attach(c) \/ Proceed(c) PROVE Owns'
  BY <1>1, <1>8 DEF Attach, Proceed, AttachReceiver, Type, Quit, SendQuery,
     SendExit, Notified, Stranded, Drained, server
<1> QED
  BY <1>2, <1>3, <1>4, <1>5, <1>6, <1>7, <1>8 DEF Next, Serve

-----------------------------------------------------------------------------
(* Where the queries are                                                   *)

Waits == /\ Contents /\ Sizes /\ Apart(Held) /\ Once /\ SentBefore /\ Counted

\* What is where.
Filled ==
  /\ DOMAIN Held = Places
  /\ \A s \in Servers :
       /\ <<"x", s>> \in Places /\ Held[<<"x", s>>] = QueriesIn(box["x"][s])
       /\ <<"new", s>> \in Places /\ Held[<<"new", s>>] = new_queries[s]
       /\ <<"accepted", s>> \in Places /\ Held[<<"accepted", s>>] = accepted[s]
  /\ <<"done", Nobody>> \in Places /\ Held[<<"done", Nobody>>] = done
  /\ \A p \in Places : \/ p = <<"done", Nobody>>
                       \/ \E s \in Servers : p \in {<<"x", s>>, <<"new", s>>, <<"accepted", s>>}

LEMMA HeldIs == Filled
<1>1. \A p \in Places : \/ p = <<"done", Nobody>>
                        \/ \E s \in Servers : p \in {<<"x", s>>, <<"new", s>>, <<"accepted", s>>}
  BY DEF Places
<1>2. <<"done", Nobody>> \in Places /\ Held[<<"done", Nobody>>] = done
  BY DEF Places, Held
<1>3. ASSUME NEW s \in Servers
      PROVE  /\ <<"x", s>> \in Places /\ Held[<<"x", s>>] = QueriesIn(box["x"][s])
             /\ <<"new", s>> \in Places /\ Held[<<"new", s>>] = new_queries[s]
             /\ <<"accepted", s>> \in Places /\ Held[<<"accepted", s>>] = accepted[s]
  BY DEF Places, Held
<1>4. DOMAIN Held = Places
  BY DEF Held
<1> QED
  BY <1>1, <1>2, <1>3, <1>4 DEF Filled

\* What is held are messages.
LEMMA HeldMail ==
  ASSUME Types, NEW p \in Places
  PROVE  Held[p] \subseteq Mail
<1>1. ASSUME NEW s \in Servers PROVE Elements(box["x"][s]) \subseteq Mail
  <2>1. box["x"][s] \in Seq(Mail)
    BY DEF Types, Keys
  <2> QED
    BY <2>1, LenProperties DEF Elements
<1>2. CASE p = <<"done", Nobody>>
  BY <1>2, HeldIs DEF Filled, Types
<1>3. ASSUME NEW s \in Servers, p \in {<<"x", s>>, <<"new", s>>, <<"accepted", s>>}
      PROVE  Held[p] \subseteq Mail
  <2>1. /\ Held[<<"x", s>>] = QueriesIn(box["x"][s])
        /\ Held[<<"new", s>>] = new_queries[s]
        /\ Held[<<"accepted", s>>] = accepted[s]
    BY HeldIs DEF Filled
  <2>2. /\ QueriesIn(box["x"][s]) \subseteq Mail
        /\ new_queries[s] \subseteq Mail /\ accepted[s] \subseteq Mail
    BY <1>1 DEF Types, QueriesIn
  <2> QED
    BY <1>3, <2>1, <2>2
<1> QED
  BY <1>2, <1>3, HeldIs DEF Filled

\* A step that moves queries between two places at most, and brings in the
\* set N of new ones, which were just sent.
LEMMA HeldStep ==
  ASSUME Types, Types', Apart(Held), SentBefore,
         \A c \in Clients : next'[c] >= next[c],
         NEW a \in Places, NEW b \in Places, NEW N \in SUBSET Mail,
         \A p \in Places : Held[p] \cap N = {},
         \A m \in N : m[2] < next'[m[1]],
         Held'[a] \cup Held'[b] \subseteq Held[a] \cup Held[b] \cup N,
         a # b => Held'[a] \cap Held'[b] = {},
         \A p \in Places \ {a, b} : Held'[p] \subseteq Held[p]
  PROVE  Apart(Held)' /\ SentBefore'
<1>1. DOMAIN Held = Places /\ DOMAIN Held' = Places
  <2>1. Filled'
    BY HeldIs, PTL
  <2> QED
    BY <2>1, HeldIs DEF Filled, Places
<1>2. Apart(Held')
  BY <1>1, ApartStep
<1>3. Apart(Held)'
  BY <1>2 DEF Apart
<1>4. ASSUME NEW p \in Places, NEW m \in Held'[p] PROVE m[2] < next'[m[1]]
  <2>1. CASE m \in N
    BY <2>1
  <2>2. CASE m \notin N
    <3>1. PICK r \in Places : m \in Held[r]
      BY <1>4, <2>2
    <3>2. m[1] \in Clients /\ m[2] \in Nat /\ m[2] < next[m[1]]
      BY <3>1, HeldMail DEF SentBefore, Mail
    <3>3. next[m[1]] \in Nat /\ next'[m[1]] \in Nat /\ next'[m[1]] >= next[m[1]]
      BY <3>2 DEF Types
    <3> QED
      BY <3>2, <3>3
  <2> QED
    BY <2>1, <2>2
<1>5. SentBefore'
  BY <1>4 DEF SentBefore, Places
<1> QED
  BY <1>3, <1>5

\* A step that moves queries between two places at most, and loses others.
LEMMA MoveStep ==
  ASSUME Types, Types', Apart(Held), SentBefore,
         \A c \in Clients : next'[c] >= next[c],
         NEW a \in Places, NEW b \in Places,
         Held'[a] \cup Held'[b] \subseteq Held[a] \cup Held[b],
         a # b => Held'[a] \cap Held'[b] = {},
         \A p \in Places \ {a, b} : Held'[p] \subseteq Held[p]
  PROVE  Apart(Held)' /\ SentBefore'
<1> DEFINE N == {}
<1>1. /\ N \in SUBSET Mail /\ \A p \in Places : Held[p] \cap N = {}
      /\ \A m \in N : m[2] < next'[m[1]]
      /\ Held'[a] \cup Held'[b] \subseteq Held[a] \cup Held[b] \cup N
  OBVIOUS
<1> HIDE DEF N
<1> QED
  BY <1>1, HeldStep

\* The lines are given once and for all, and with them what a message says.
LEMMA SameLines ==
  ASSUME UNCHANGED given
  PROVE  /\ \A m : /\ IsExit(m)' <=> IsExit(m)
                   /\ IsLine(m)' <=> IsLine(m)
                   /\ IsQuery(m)' <=> IsQuery(m)
         /\ \A c : Loaded(c)' = Loaded(c) /\ (Alone(c)' <=> Alone(c))
         /\ limit' = limit
<1>1. lines' = lines /\ limit' = limit
  BY DEF given
<1>2. \A c : Loaded(c)' = Loaded(c)
  BY <1>1 DEF Loaded, SelectInSeq
<1>3. \A c : Lines(c)' = Lines(c)
  BY <1>1, <1>2 DEF Lines
<1>4. \A c : Alone(c)' <=> Alone(c)
  BY <1>1 DEF Alone
<1>5. \A m : (IsExit(m)' <=> IsExit(m)) /\ (IsLine(m)' <=> IsLine(m))
  BY <1>1 DEF IsExit, IsLine
<1>6. \A m : IsQuery(m)' <=> IsQuery(m)
  BY <1>3, <1>5 DEF IsQuery
<1> QED
  BY <1>1, <1>2, <1>4, <1>5, <1>6

\* Queues lose all they hold, or nothing.
LEMMA LostStep ==
  ASSUME Given, Types, Types', Waits, UNCHANGED given,
         \A k \in Keys, s \in Servers : box'[k][s] = box[k][s] \/ box'[k][s] = <<>>,
         UNCHANGED <<new_queries, accepted, done, next, query_num>>
  PROVE  Waits'
<1>0. "x" \in Keys /\ "b" \in Keys
  BY DEF Keys
<1>1. ASSUME NEW k \in Keys, NEW s \in Servers
      PROVE  /\ Elements(box'[k][s]) \subseteq Elements(box[k][s])
             /\ Len(box'[k][s]) <= Len(box[k][s]) /\ Len(box'[k][s]) \in Nat
             /\ Len(box[k][s]) \in Nat
             /\ box'[k][s] = box[k][s] \/ Len(box'[k][s]) = 0
  <2>1. box[k][s] \in Seq(Mail) /\ Len(box[k][s]) \in Nat
    BY DEF Types
  <2>2. CASE box'[k][s] = box[k][s]
    BY <2>1, <2>2
  <2>3. CASE box'[k][s] = <<>>
    BY <2>1, <2>3, EmptyElements
  <2> QED
    BY <2>2, <2>3
<1>2. Contents'
  BY <1>0, <1>1, SameLines DEF Waits, Contents
<1>3. Sizes'
  <2>1. ASSUME NEW k \in Keys, NEW s \in Servers PROVE Len(box'[k][s]) <= limit'[k]
    <3>1. Len(box[k][s]) <= limit[k] /\ limit' = limit
      BY SameLines DEF Waits, Sizes
    <3>2. CASE box'[k][s] = box[k][s]
      BY <3>1, <3>2
    <3>3. CASE Len(box'[k][s]) = 0
      BY <3>1, <3>3 DEF Given
    <3> QED
      BY <1>1, <3>2, <3>3
  <2> QED
    BY <2>1 DEF Sizes
<1>4. Once'
  <2>1. ASSUME NEW s \in Servers PROVE OnceIn(box["x"][s])'
    <3>1. CASE box'["x"][s] = box["x"][s]
      BY <3>1, SameLines DEF Waits, Once, OnceIn
    <3>2. CASE Len(box'["x"][s]) = 0
      BY <3>2 DEF OnceIn
    <3> QED
      BY <1>0, <1>1, <3>1, <3>2
  <2> QED
    BY <2>1 DEF Once
<1>5. Apart(Held)' /\ SentBefore'
  <2>1. Filled /\ Filled'
    BY HeldIs, PTL
  <2>2. \A p \in Places : Held'[p] \subseteq Held[p]
    <3>1. ASSUME NEW s \in Servers
          PROVE QueriesIn(box["x"][s])' \subseteq QueriesIn(box["x"][s])
      BY <1>0, <1>1, SameLines DEF QueriesIn
    <3>2. ASSUME NEW s \in Servers, NEW p \in {<<"x", s>>, <<"new", s>>, <<"accepted", s>>}
          PROVE  Held'[p] \subseteq Held[p]
      <4>1. /\ Held'[<<"x", s>>] \subseteq Held[<<"x", s>>]
            /\ Held'[<<"new", s>>] = Held[<<"new", s>>]
            /\ Held'[<<"accepted", s>>] = Held[<<"accepted", s>>]
        BY <2>1, <3>1 DEF Filled
      <4> QED
        BY <3>2, <4>1
    <3>3. Held'[<<"done", Nobody>>] \subseteq Held[<<"done", Nobody>>]
      BY <2>1 DEF Filled
    <3> QED
      BY <2>1, <3>2, <3>3 DEF Filled
  <2>3. \A c \in Clients : next'[c] >= next[c]
    BY DEF Types
  <2> DEFINE a == <<"done", Nobody>>
  <2>4. a \in Places
    BY DEF Places
  <2> HIDE DEF a
  <2> QED
    BY <2>2, <2>3, <2>4, HeldStep DEF Waits
<1>6. Counted'
  <2>1. Pending' \subseteq Pending
    BY <1>0, <1>1 DEF Pending
  <2>2. /\ IsFiniteSet(Pending) /\ IsFiniteSet(Pending')
        /\ Cardinality(Pending') <= Cardinality(Pending)
        /\ Cardinality(Pending) \in Nat /\ Cardinality(Pending') \in Nat
    BY <2>1, FS_Subset, FS_CardinalityType DEF Waits, Counted
  <2>3. IsFiniteSet(done) /\ Cardinality(done) \in Nat
    BY FS_CardinalityType DEF Waits, Counted
  <2>4. ASSUME NEW c \in Batch, Alone(c)
        PROVE  next'[c] - 1 - query_num'[c] + Cardinality(Pending') <= Cardinality(done')
    <3>1. next[c] \in Nat /\ query_num[c] \in Int
      BY DEF Types, Clients
    <3>2. next[c] - 1 - query_num[c] + Cardinality(Pending) <= Cardinality(done)
      BY <2>4 DEF Waits, Counted
    <3> QED
      BY <2>2, <2>3, <3>1, <3>2
  <2> QED
    BY <2>2, <2>3, <2>4, SameLines DEF Counted
<1> QED
  BY <1>2, <1>3, <1>4, <1>5, <1>6 DEF Waits

\* A queue in which each query is once, one message longer or shorter.
LEMMA OnceAppend ==
  ASSUME NEW x \in Seq(Mail), NEW m \in Mail, OnceIn(x),
         IsExit(m) \/ m \notin Elements(x)
  PROVE  OnceIn(Append(x, m))
<1> DEFINE y == Append(x, m)
<1>1. /\ Len(x) \in Nat /\ Len(y) = Len(x) + 1
      /\ \A i \in 1 .. Len(x) : y[i] = x[i]
      /\ y[Len(x) + 1] = m
  BY AppendProperties, LenProperties
<1> HIDE DEF y
<1> SUFFICES ASSUME NEW i \in 1 .. Len(y), NEW j \in 1 .. Len(y), y[i] = y[j],
                    ~ IsExit(y[i]), i # j
             PROVE  FALSE
  BY DEF OnceIn, y
<1>2. CASE i \in 1 .. Len(x) /\ j \in 1 .. Len(x)
  BY <1>1, <1>2 DEF OnceIn
<1>3. CASE i = Len(x) + 1 /\ j \in 1 .. Len(x)
  BY <1>1, <1>3 DEF Elements
<1>4. CASE i \in 1 .. Len(x) /\ j = Len(x) + 1
  BY <1>1, <1>4 DEF Elements
<1> QED
  BY <1>1, <1>2, <1>3, <1>4

LEMMA OnceTail ==
  ASSUME NEW x \in Seq(Mail), x # <<>>, OnceIn(x)
  PROVE  /\ OnceIn(Tail(x))
         /\ ~ IsExit(Head(x)) => Head(x) \notin Elements(Tail(x))
<1> DEFINE y == Tail(x)
<1>1. /\ Len(x) \in Nat \ {0} /\ Len(y) = Len(x) - 1 /\ Head(x) = x[1]
      /\ \A i \in 1 .. Len(y) : y[i] = x[i + 1]
  BY HeadTailProperties, EmptySeq, LenProperties
<1>2. \A i \in 1 .. Len(y) : i + 1 \in 1 .. Len(x) /\ i + 1 # 1 /\ 1 \in 1 .. Len(x)
  BY <1>1
<1> HIDE DEF y
<1>3. OnceIn(y)
  <2> SUFFICES ASSUME NEW i \in 1 .. Len(y), NEW j \in 1 .. Len(y), y[i] = y[j],
                      ~ IsExit(y[i])
               PROVE  i = j
    BY DEF OnceIn
  <2>1. i + 1 = j + 1
    BY <1>1, <1>2 DEF OnceIn
  <2> QED
    BY <1>1, <2>1
<1>4. ASSUME ~ IsExit(Head(x)), NEW i \in 1 .. Len(y), y[i] = Head(x) PROVE FALSE
  BY <1>1, <1>2, <1>4 DEF OnceIn
<1> QED
  BY <1>3, <1>4 DEF Elements, y

\* A client sends a message: there is room for it, or nothing comes of it.
LEMMA PostStep ==
  ASSUME Given, Types, Types', Waits, UNCHANGED given,
         NEW s, NEW m \in Mail, box' = Sent("x", s, m),
         IsLine(m),
         IsExit(m) \/ (IsQuery(m) /\ m[2] = next[m[1]] /\ next'[m[1]] > m[2]),
         \A c \in Clients : next'[c] >= next[c],
         \A c \in Batch : next'[c] - query_num'[c] = next[c] - query_num[c],
         UNCHANGED <<new_queries, accepted, done>>
  PROVE  Waits'
<1>0. "x" \in Keys /\ "b" \in Keys /\ "x" # "b"
  BY DEF Keys
<1>1. /\ box \in [Keys -> [Servers -> Seq(Mail)]]
      /\ \A r \in Servers : box'["b"][r] = box["b"][r]
      /\ \/ \A r \in Servers : box'["x"][r] = box["x"][r]
         \/ /\ s \in Servers
            /\ box'["x"][s] = Append(box["x"][s], m)
            /\ Len(box["x"][s]) < limit["x"]
            /\ \A r \in Servers \ {s} : box'["x"][r] = box["x"][r]
  <2>1. box \in [Keys -> [Servers -> Seq(Mail)]]
    BY DEF Types
  <2>2. CASE box' = box
    BY <2>1, <2>2
  <2>3. CASE box' # box
    <3> DEFINE e == Append(box["x"][s], m)
    <3>1. /\ s \in Servers /\ Len(box["x"][s]) < limit["x"]
          /\ box' = [box EXCEPT !["x"][s] = e] /\ e \in Seq(Mail)
      BY <1>0, <2>3, SentIs
    <3> HIDE DEF e
    <3>2. /\ box'["x"][s] = e
          /\ \A l \in Keys, r \in Servers : l # "x" \/ r # s => box'[l][r] = box[l][r]
      BY <1>0, <2>1, <3>1, BoxSet
    <3> QED
      BY <1>0, <2>1, <3>1, <3>2 DEF e
  <2> QED
    BY <2>2, <2>3
<1>2. /\ Contents /\ Sizes /\ Apart(Held) /\ Once /\ SentBefore /\ Counted
  BY DEF Waits
<1>3. ASSUME ~ IsExit(m)
      PROVE  \A p \in Places : m \notin Held[p]
  <2>1. m[2] = next[m[1]] /\ m[2] \in Nat
    BY <1>3 DEF Mail
  <2> QED
    BY <1>2, <2>1 DEF SentBefore
<1>4. ASSUME NEW r \in Servers
      PROVE  /\ Elements(box'["x"][r]) \subseteq Elements(box["x"][r]) \cup {m}
             /\ Len(box'["x"][r]) <= limit["x"]
             /\ OnceIn(box'["x"][r])
  <2>1. box["x"][r] \in Seq(Mail) /\ Len(box["x"][r]) <= limit["x"] /\ OnceIn(box["x"][r])
    BY <1>0, <1>1, <1>2 DEF Sizes, Once
  <2>2. CASE box'["x"][r] = box["x"][r]
    BY <2>1, <2>2
  <2>3. CASE r = s /\ box'["x"][r] = Append(box["x"][r], m) /\ Len(box["x"][r]) < limit["x"]
    <3>1. IsExit(m) \/ m \notin Elements(box["x"][r])
      <4>1. Held[<<"x", r>>] = QueriesIn(box["x"][r]) /\ <<"x", r>> \in Places
        BY HeldIs DEF Filled
      <4> QED
        BY <1>3, <4>1 DEF QueriesIn
    <3>2. OnceIn(Append(box["x"][r], m))
      BY <2>1, <3>1, OnceAppend
    <3>3. /\ Elements(Append(box["x"][r], m)) = Elements(box["x"][r]) \cup {m}
          /\ Len(Append(box["x"][r], m)) = Len(box["x"][r]) + 1
      BY <2>1, AppendElements, AppendProperties
    <3>4. Len(box["x"][r]) \in Nat /\ limit["x"] \in Nat
      BY <1>0, <2>1, LenProperties DEF Given
    <3>5. Len(box["x"][r]) + 1 <= limit["x"]
      BY <2>3, <3>4
    <3> QED
      BY <2>3, <3>2, <3>3, <3>5
  <2> QED
    BY <1>1, <2>2, <2>3
<1>5. Contents'
  <2>1. ASSUME NEW r \in Servers, NEW o \in Elements(box'["x"][r])
        PROVE  IsLine(o) /\ (IsExit(o) \/ IsQuery(o))
    BY <1>2, <1>4 DEF Contents
  <2> QED
    BY <1>1, <1>2, <2>1, SameLines DEF Contents
<1>6. Sizes'
  BY <1>1, <1>2, <1>4, SameLines DEF Sizes, Keys
<1>7. Once'
  BY <1>4, SameLines DEF Once, OnceIn
<1>8. Apart(Held)' /\ SentBefore'
  <2> DEFINE N == IF IsExit(m) THEN {} ELSE {m}
  <2>1. Filled /\ Filled'
    BY HeldIs, PTL
  <2>2. \A p \in Places : Held[p] \cap N = {}
    BY <1>3
  <2>3. \A o \in N : o[2] < next'[o[1]]
    <3>1. ASSUME ~ IsExit(m) PROVE m[2] < next'[m[1]]
      <4>1. next'[m[1]] > m[2] /\ m[2] \in Nat /\ next'[m[1]] \in Nat
        BY <3>1 DEF Types, Mail
      <4> QED
        BY <4>1
    <3> QED
      BY <3>1
  <2>4. N \in SUBSET Mail
    OBVIOUS
  <2>5. \A r \in Servers :
          QueriesIn(box["x"][r])' \subseteq QueriesIn(box["x"][r]) \cup N
    BY <1>4, SameLines DEF QueriesIn
  <2>6. \A r \in Servers : r # s =>
          QueriesIn(box["x"][r])' = QueriesIn(box["x"][r])
    BY <1>1, SameLines DEF QueriesIn
  <2> HIDE DEF N
  <2>7. ASSUME NEW r \in Servers
        PROVE  /\ Held'[<<"x", r>>] \subseteq Held[<<"x", r>>] \cup N
               /\ r # s => Held'[<<"x", r>>] = Held[<<"x", r>>]
               /\ Held'[<<"new", r>>] = Held[<<"new", r>>]
               /\ Held'[<<"accepted", r>>] = Held[<<"accepted", r>>]
    BY <2>1, <2>5, <2>6 DEF Filled
  <2>8. Held'[<<"done", Nobody>>] = Held[<<"done", Nobody>>]
    BY <2>1 DEF Filled
  <2>9. CASE s \in Servers
    <3> DEFINE a == <<"x", s>>
    <3>1. a \in Places /\ Held'[a] \subseteq Held[a] \cup N
      BY <2>1, <2>7, <2>9 DEF Filled
    <3>2. ASSUME NEW p \in Places \ {a} PROVE Held'[p] \subseteq Held[p]
      <4>1. CASE p = <<"done", Nobody>>
        BY <2>8, <4>1
      <4>2. ASSUME NEW r \in Servers, p \in {<<"x", r>>, <<"new", r>>, <<"accepted", r>>}
            PROVE  Held'[p] \subseteq Held[p]
        BY <2>7, <4>2
      <4> QED
        BY <2>1, <4>1, <4>2 DEF Filled
    <3> HIDE DEF a
    <3> QED
      BY <1>2, <2>2, <2>3, <2>4, <3>1, <3>2, HeldStep
  <2>10. CASE s \notin Servers
    <3> DEFINE a == <<"done", Nobody>>
    <3>1. a \in Places /\ Held'[a] \subseteq Held[a]
      BY <2>1, <2>8 DEF Filled
    <3>2. ASSUME NEW p \in Places PROVE Held'[p] \subseteq Held[p]
      <4>1. CASE p = <<"done", Nobody>>
        BY <2>8, <4>1
      <4>2. ASSUME NEW r \in Servers, p \in {<<"x", r>>, <<"new", r>>, <<"accepted", r>>}
            PROVE  Held'[p] \subseteq Held[p]
        BY <2>7, <2>10, <4>2
      <4> QED
        BY <2>1, <4>1, <4>2 DEF Filled
    <3> HIDE DEF a
    <3> QED
      BY <1>2, <2>2, <2>3, <2>4, <3>1, <3>2, HeldStep
  <2> QED
    BY <2>9, <2>10
<1>9. Counted'
  <2>1. Pending' = Pending
    BY <1>1 DEF Pending
  <2>2. Cardinality(Pending) \in Nat
    BY <1>2, FS_CardinalityType DEF Counted
  <2>3. ASSUME NEW c \in Batch
        PROVE next'[c] - 1 - query_num'[c] = next[c] - 1 - query_num[c]
    <3>1. /\ next[c] \in Int /\ query_num[c] \in Int
          /\ next'[c] \in Int /\ query_num'[c] \in Int
      BY DEF Types, Clients
    <3>2. next'[c] - query_num'[c] = next[c] - query_num[c]
      OBVIOUS
    <3> QED
      BY <3>1, <3>2
  <2> QED
    BY <1>2, <2>1, <2>2, <2>3, SameLines DEF Counted
<1> QED
  BY <1>5, <1>6, <1>7, <1>8, <1>9 DEF Waits

\* The server takes a message: a query is moved, an order to stop is gone.
LEMMA ReceiveStep ==
  ASSUME Given, Types, Types', Waits, UNCHANGED given, NEW s \in Servers, Receive(s)
  PROVE  Waits'
<1>0. "x" \in Keys /\ "b" \in Keys /\ "x" # "b"
  BY DEF Keys
<1> DEFINE t == box["x"][s]
           m == Head(t)
<1>1. /\ box \in [Keys -> [Servers -> Seq(Mail)]]
      /\ t # <<>> /\ box' = [box EXCEPT !["x"][s] = Tail(t)]
      /\ UNCHANGED <<accepted, done, next, query_num>>
  BY DEF Receive, Types, client
<1>2. /\ m \in Mail /\ Tail(t) \in Seq(Mail)
      /\ Elements(t) = Elements(Tail(t)) \cup {m}
      /\ Len(Tail(t)) = Len(t) - 1 /\ Len(t) \in Nat
  BY <1>0, <1>1, TakenFrom
<1>3. /\ Contents /\ Sizes /\ Apart(Held) /\ Once /\ SentBefore /\ Counted
  BY DEF Waits
<1>4. /\ OnceIn(Tail(t)) /\ (~ IsExit(m) => m \notin Elements(Tail(t)))
      /\ m \in Elements(t)
  <2>1. t \in Seq(Mail) /\ OnceIn(t)
    BY <1>0, <1>1, <1>3 DEF Once
  <2> HIDE DEF t
  <2> QED
    BY <1>1, <1>2, <2>1, OnceTail
<1>5. /\ box'["x"][s] = Tail(t)
      /\ \A l \in Keys, r \in Servers : l # "x" \/ r # s => box'[l][r] = box[l][r]
  <2> DEFINE e == Tail(t)
  <2>1. e \in Seq(Mail) /\ box' = [box EXCEPT !["x"][s] = e]
    BY <1>1, <1>2
  <2> HIDE DEF e
  <2>2. /\ box'["x"][s] = e
        /\ \A l \in Keys, r \in Servers : l # "x" \/ r # s => box'[l][r] = box[l][r]
    BY <1>0, <1>1, <2>1, BoxSet
  <2> QED
    BY <2>2 DEF e
<1>6. /\ \A r \in Servers \ {s} : new_queries'[r] = new_queries[r]
      /\ IsExit(m) => new_queries'[s] = new_queries[s]
      /\ ~ IsExit(m) => new_queries'[s] = new_queries[s] \cup {m}
  <2>1. new_queries \in [Servers -> SUBSET Mail]
    BY DEF Types
  <2>2. CASE IsExit(m)
    BY <2>1, <2>2 DEF Receive
  <2>3. CASE ~ IsExit(m)
    BY <2>1, <2>3 DEF Receive
  <2> QED
    BY <2>2, <2>3
<1> HIDE DEF t, m
<1>7. Contents'
  <2>1. ASSUME NEW r \in Servers, NEW o \in Elements(box'["x"][r])
        PROVE  IsLine(o) /\ (IsExit(o) \/ IsQuery(o))
    <3>1. o \in Elements(box["x"][r])
      <4>1. CASE r = s
        BY <1>2, <1>5, <2>1, <4>1 DEF t
      <4>2. CASE r # s
        BY <1>0, <1>5, <2>1, <4>2
      <4> QED
        BY <4>1, <4>2
    <3> QED
      BY <1>3, <3>1 DEF Contents
  <2>2. ASSUME NEW r \in Servers, NEW o \in new_queries'[r] PROVE IsQuery(o)
    <3>1. ~ IsExit(m) => IsQuery(m)
      BY <1>3, <1>4 DEF Contents, t
    <3> QED
      BY <1>3, <1>6, <2>2, <3>1 DEF Contents
  <2>3. \A r \in Servers : box'["b"][r] = box["b"][r]
    BY <1>0, <1>5
  <2> QED
    BY <1>1, <1>3, <2>1, <2>2, <2>3, SameLines DEF Contents
<1>8. Sizes'
  <2>1. ASSUME NEW k \in Keys, NEW r \in Servers PROVE Len(box'[k][r]) <= limit[k]
    <3>1. CASE k = "x" /\ r = s
      <4>1. Len(t) <= limit["x"] /\ limit["x"] \in Int
        BY <1>0, <1>3 DEF Sizes, t, Given
      <4> QED
        BY <1>2, <1>5, <3>1, <4>1
    <3>2. CASE k # "x" \/ r # s
      BY <1>3, <1>5, <3>2 DEF Sizes
    <3> QED
      BY <3>1, <3>2
  <2> QED
    BY <2>1, SameLines DEF Sizes
<1>9. Once'
  <2>1. ASSUME NEW r \in Servers PROVE OnceIn(box'["x"][r])
    <3>1. CASE r = s
      BY <1>4, <1>5, <3>1
    <3>2. CASE r # s
      BY <1>0, <1>3, <1>5, <3>2 DEF Once
    <3> QED
      BY <3>1, <3>2
  <2> QED
    BY <2>1, SameLines DEF Once, OnceIn
<1>10. Apart(Held)' /\ SentBefore'
  <2> DEFINE a == <<"x", s>>
             b == <<"new", s>>
  <2>1. Filled /\ Filled'
    BY HeldIs, PTL
  <2>2. /\ Held[a] = QueriesIn(t) /\ Held[b] = new_queries[s]
        /\ Held'[a] = {o \in Elements(Tail(t)) : ~ IsExit(o)}
        /\ Held'[b] = new_queries'[s]
        /\ a \in Places /\ b \in Places /\ a # b
    <3>1. QueriesIn(box["x"][s])' = {o \in Elements(Tail(t)) : ~ IsExit(o)}
      BY <1>5, SameLines DEF QueriesIn
    <3> QED
      BY <2>1, <3>1 DEF Filled, t
  <2>3. Held'[a] \cup Held'[b] \subseteq Held[a] \cup Held[b]
    BY <1>2, <1>6, <2>2 DEF QueriesIn
  <2>4. Held'[a] \cap Held'[b] = {}
    <3>1. Held[a] \cap Held[b] = {}
      BY <1>3, <2>1, <2>2 DEF Apart, Filled
    <3> QED
      BY <1>2, <1>4, <1>6, <2>2, <3>1 DEF QueriesIn
  <2>5. ASSUME NEW p \in Places \ {a, b} PROVE Held'[p] \subseteq Held[p]
    <3>1. ASSUME NEW r \in Servers, r # s
          PROVE  /\ Held'[<<"x", r>>] = Held[<<"x", r>>]
                 /\ Held'[<<"new", r>>] = Held[<<"new", r>>]
      <4>1. QueriesIn(box["x"][r])' = QueriesIn(box["x"][r])
        BY <1>0, <1>5, <3>1, SameLines DEF QueriesIn
      <4>2. new_queries'[r] = new_queries[r]
        BY <1>6, <3>1
      <4>3. Held'[<<"x", r>>] = Held[<<"x", r>>]
        <5>1. Held[<<"x", r>>] = QueriesIn(box["x"][r])
          BY <2>1 DEF Filled
        <5>2. Held'[<<"x", r>>] = QueriesIn(box["x"][r])'
          BY <2>1 DEF Filled, QueriesIn
        <5> QED
          BY <5>1, <5>2, <4>1
      <4>4. Held'[<<"new", r>>] = Held[<<"new", r>>]
        BY <2>1, <4>2 DEF Filled
      <4> QED
        BY <4>3, <4>4
    <3>2. ASSUME NEW r \in Servers
          PROVE  Held'[<<"accepted", r>>] = Held[<<"accepted", r>>]
      BY <1>1, <2>1 DEF Filled
    <3>3. CASE p = <<"done", Nobody>>
      BY <1>1, <2>1, <3>3 DEF Filled
    <3>4. ASSUME NEW r \in Servers, p \in {<<"x", r>>, <<"new", r>>, <<"accepted", r>>}
          PROVE  Held'[p] \subseteq Held[p]
      <4>1. CASE p = <<"accepted", r>>
        BY <3>2, <4>1
      <4>2. CASE p # <<"accepted", r>>
        <5>1. r # s
          BY <3>4, <4>2
        <5> QED
          BY <3>1, <3>4, <4>2, <5>1
      <4> QED
        BY <4>1, <4>2
    <3> QED
      BY <2>1, <3>3, <3>4 DEF Filled
  <2>6. \A c \in Clients : next'[c] >= next[c]
    BY <1>1 DEF Types
  <2> HIDE DEF a, b
  <2> QED
    BY <1>3, <2>2, <2>3, <2>4, <2>5, <2>6, MoveStep
<1>11. Counted'
  <2>1. Pending' = Pending
    BY <1>0, <1>5 DEF Pending
  <2> QED
    BY <1>1, <1>3, <2>1, SameLines DEF Counted
<1> QED
  BY <1>7, <1>8, <1>9, <1>10, <1>11 DEF Waits

\* The new queries go to query_que.
LEMMA EnqueueStep ==
  ASSUME Types, Types', Waits, UNCHANGED given, NEW s \in Servers, EnqueueNew(s)
  PROVE  Waits'
<1>1. /\ UNCHANGED <<box, done, next, query_num>>
      /\ new_queries'[s] = {} /\ accepted'[s] = accepted[s] \cup new_queries[s]
      /\ \A r \in Servers \ {s} : /\ new_queries'[r] = new_queries[r]
                                  /\ accepted'[r] = accepted[r]
  BY DEF EnqueueNew, Types, client
<1>2. /\ Contents /\ Sizes /\ Apart(Held) /\ Once /\ SentBefore /\ Counted
  BY DEF Waits
<1>3. Contents'
  <2>1. ASSUME NEW r \in Servers, NEW o \in new_queries'[r] \cup accepted'[r]
        PROVE  IsQuery(o)
    <3>1. CASE r = s
      BY <1>1, <1>2, <2>1, <3>1 DEF Contents
    <3>2. CASE r # s
      BY <1>1, <1>2, <2>1, <3>2 DEF Contents
    <3> QED
      BY <3>1, <3>2
  <2> QED
    BY <1>1, <1>2, <2>1, SameLines DEF Contents
<1>4. Sizes' /\ Once' /\ Counted'
  <2>1. Pending' = Pending
    BY <1>1 DEF Pending
  <2> QED
    BY <1>1, <1>2, <2>1, SameLines DEF Sizes, Once, OnceIn, Counted
<1>5. Apart(Held)' /\ SentBefore'
  <2> DEFINE a == <<"new", s>>
             b == <<"accepted", s>>
  <2>1. Filled /\ Filled'
    BY HeldIs, PTL
  <2>2. /\ Held'[a] \cup Held'[b] \subseteq Held[a] \cup Held[b]
        /\ Held'[a] \cap Held'[b] = {}
        /\ a \in Places /\ b \in Places
    BY <1>1, <2>1 DEF Filled
  <2>3. ASSUME NEW p \in Places \ {a, b} PROVE Held'[p] \subseteq Held[p]
    <3>1. ASSUME NEW r \in Servers PROVE Held'[<<"x", r>>] = Held[<<"x", r>>]
      <4>1. QueriesIn(box["x"][r])' = QueriesIn(box["x"][r])
        BY <1>1, SameLines DEF QueriesIn
      <4> QED
        <5>1. Held[<<"x", r>>] = QueriesIn(box["x"][r])
          BY <2>1 DEF Filled
        <5>2. Held'[<<"x", r>>] = QueriesIn(box["x"][r])'
          BY <2>1 DEF Filled, QueriesIn
        <5> QED
          BY <5>1, <5>2, <4>1
    <3>2. ASSUME NEW r \in Servers, r # s
          PROVE  /\ Held'[<<"new", r>>] = Held[<<"new", r>>]
                 /\ Held'[<<"accepted", r>>] = Held[<<"accepted", r>>]
      <4>1. new_queries'[r] = new_queries[r] /\ accepted'[r] = accepted[r]
        BY <1>1, <3>2
      <4>2. Held'[<<"new", r>>] = Held[<<"new", r>>]
        BY <2>1, <4>1 DEF Filled
      <4>3. Held'[<<"accepted", r>>] = Held[<<"accepted", r>>]
        BY <2>1, <4>1 DEF Filled
      <4> QED
        BY <4>2, <4>3
    <3>3. CASE p = <<"done", Nobody>>
      BY <1>1, <2>1, <3>3 DEF Filled
    <3>4. ASSUME NEW r \in Servers, p \in {<<"x", r>>, <<"new", r>>, <<"accepted", r>>}
          PROVE  Held'[p] \subseteq Held[p]
      <4>1. CASE p = <<"x", r>>
        BY <3>1, <4>1
      <4>2. CASE p # <<"x", r>>
        <5>1. r # s
          BY <3>4, <4>2
        <5> QED
          BY <3>2, <3>4, <4>2, <5>1
      <4> QED
        BY <4>1, <4>2
    <3> QED
      BY <2>1, <3>3, <3>4 DEF Filled
  <2>4. \A c \in Clients : next'[c] >= next[c]
    BY <1>1 DEF Types
  <2> HIDE DEF a, b
  <2> QED
    BY <1>2, <2>2, <2>3, <2>4, MoveStep
<1> QED
  BY <1>3, <1>4, <1>5 DEF Waits

\* A query is answered, and the notification is sent if there is room for it.
LEMMA FinishStep ==
  ASSUME Given, Types, Types', Waits, UNCHANGED given, NEW s \in Servers,
         NEW q \in accepted[s], Finish(s, q)
  PROVE  Waits'
<1>0. "x" \in Keys /\ "b" \in Keys /\ "x" # "b"
  BY DEF Keys
<1>1. /\ UNCHANGED <<new_queries, next, query_num>>
      /\ done' = done \cup {q} /\ accepted'[s] = accepted[s] \ {q}
      /\ \A r \in Servers \ {s} : accepted'[r] = accepted[r]
      /\ q \in Mail /\ box' = Sent("b", s, q)
  BY DEF Finish, Types, client
<1>2. /\ Contents /\ Sizes /\ Apart(Held) /\ Once /\ SentBefore /\ Counted
  BY DEF Waits
<1>3. /\ box \in [Keys -> [Servers -> Seq(Mail)]]
      /\ \A r \in Servers : box'["x"][r] = box["x"][r]
      /\ \A r \in Servers \ {s} : box'["b"][r] = box["b"][r]
      /\ \/ box'["b"][s] = box["b"][s]
         \/ /\ box'["b"][s] = Append(box["b"][s], q)
            /\ Len(box["b"][s]) < limit["b"]
  <2>1. box \in [Keys -> [Servers -> Seq(Mail)]]
    BY DEF Types
  <2>2. CASE box' = box
    BY <2>1, <2>2
  <2>3. CASE box' # box
    <3> DEFINE e == Append(box["b"][s], q)
    <3>1. /\ Len(box["b"][s]) < limit["b"]
          /\ box' = [box EXCEPT !["b"][s] = e] /\ e \in Seq(Mail)
      BY <1>0, <1>1, <2>3, SentIs
    <3> HIDE DEF e
    <3>2. /\ box'["b"][s] = e
          /\ \A l \in Keys, r \in Servers : l # "b" \/ r # s => box'[l][r] = box[l][r]
      BY <1>0, <2>1, <3>1, BoxSet
    <3> QED
      BY <1>0, <2>1, <3>1, <3>2 DEF e
  <2> QED
    BY <2>2, <2>3
<1>4. /\ Elements(box'["b"][s]) \subseteq Elements(box["b"][s]) \cup {q}
      /\ Len(box'["b"][s]) <= limit["b"]
      /\ Len(box'["b"][s]) <= Len(box["b"][s]) + 1
      /\ Len(box["b"][s]) \in Nat /\ Len(box'["b"][s]) \in Nat
  <2>1. /\ box["b"][s] \in Seq(Mail) /\ Len(box["b"][s]) \in Nat
        /\ Len(box["b"][s]) <= limit["b"] /\ limit["b"] \in Nat
    BY <1>0, <1>2, <1>3 DEF Sizes, Given
  <2>2. CASE box'["b"][s] = box["b"][s]
    BY <2>1, <2>2
  <2>3. CASE box'["b"][s] = Append(box["b"][s], q) /\ Len(box["b"][s]) < limit["b"]
    <3>1. /\ Elements(Append(box["b"][s], q)) = Elements(box["b"][s]) \cup {q}
          /\ Len(Append(box["b"][s], q)) = Len(box["b"][s]) + 1
      BY <1>1, <2>1, AppendElements, AppendProperties
    <3> QED
      BY <2>1, <2>3, <3>1
  <2> QED
    BY <1>3, <2>2, <2>3
<1>5. Contents'
  <2>1. IsQuery(q)
    BY <1>2 DEF Contents
  <2>2. ASSUME NEW r \in Servers, NEW o \in new_queries'[r] \cup accepted'[r]
        PROVE  IsQuery(o)
    <3>1. CASE r = s
      BY <1>1, <1>2, <2>2, <3>1 DEF Contents
    <3>2. CASE r # s
      BY <1>1, <1>2, <2>2, <3>2 DEF Contents
    <3> QED
      BY <3>1, <3>2
  <2>3. ASSUME NEW r \in Servers, NEW o \in Elements(box'["b"][r]) PROVE IsQuery(o)
    <3>1. CASE r = s
      BY <1>2, <1>4, <2>1, <2>3, <3>1 DEF Contents
    <3>2. CASE r # s
      BY <1>2, <1>3, <2>3, <3>2 DEF Contents
    <3> QED
      BY <3>1, <3>2
  <2>4. \A o \in done' : IsQuery(o)
    BY <1>1, <1>2, <2>1 DEF Contents
  <2> QED
    BY <1>2, <1>3, <2>2, <2>3, <2>4, SameLines DEF Contents
<1>6. Sizes'
  <2>1. ASSUME NEW k \in Keys, NEW r \in Servers PROVE Len(box'[k][r]) <= limit[k]
    <3>1. CASE k = "b" /\ r = s
      BY <1>4, <3>1
    <3>2. CASE k = "x" \/ r # s
      BY <1>0, <1>2, <1>3, <3>2 DEF Sizes, Keys
    <3> QED
      BY <3>1, <3>2 DEF Keys
  <2> QED
    BY <2>1, SameLines DEF Sizes
<1>7. Once'
  BY <1>2, <1>3, SameLines DEF Once, OnceIn
<1>8. Filled /\ Filled'
  BY HeldIs, PTL
<1>9. Apart(Held)' /\ SentBefore'
  <2> DEFINE a == <<"accepted", s>>
             b == <<"done", Nobody>>
  <2>1. /\ Held[a] = accepted[s] /\ Held'[a] = accepted'[s]
        /\ Held[b] = done /\ Held'[b] = done'
        /\ a \in Places /\ b \in Places /\ a # b
    BY <1>8 DEF Filled
  <2>2. Held[a] \cap Held[b] = {}
    BY <1>2, <1>8, <2>1 DEF Apart, Filled
  <2>3. /\ Held'[a] \cup Held'[b] \subseteq Held[a] \cup Held[b]
        /\ Held'[a] \cap Held'[b] = {}
    BY <1>1, <2>1, <2>2
  <2>4. ASSUME NEW p \in Places \ {a, b} PROVE Held'[p] \subseteq Held[p]
    <3>1. ASSUME NEW r \in Servers PROVE Held'[<<"x", r>>] = Held[<<"x", r>>]
      <4>1. QueriesIn(box["x"][r])' = QueriesIn(box["x"][r])
        BY <1>3, SameLines DEF QueriesIn
      <4> QED
        <5>1. Held[<<"x", r>>] = QueriesIn(box["x"][r])
          BY <1>8 DEF Filled
        <5>2. Held'[<<"x", r>>] = QueriesIn(box["x"][r])'
          BY <1>8 DEF Filled, QueriesIn
        <5> QED
          BY <5>1, <5>2, <4>1
    <3>2. ASSUME NEW r \in Servers PROVE Held'[<<"new", r>>] = Held[<<"new", r>>]
      BY <1>1, <1>8 DEF Filled
    <3>3. ASSUME NEW r \in Servers, r # s
          PROVE  Held'[<<"accepted", r>>] = Held[<<"accepted", r>>]
      <4>1. accepted'[r] = accepted[r]
        BY <1>1, <3>3
      <4> QED
        BY <1>8, <4>1 DEF Filled
    <3>4. ASSUME NEW r \in Servers, p \in {<<"x", r>>, <<"new", r>>, <<"accepted", r>>}
          PROVE  Held'[p] \subseteq Held[p]
      <4>1. CASE p = <<"accepted", r>>
        <5>1. r # s
          BY <4>1
        <5> QED
          BY <3>3, <4>1, <5>1
      <4>2. CASE p # <<"accepted", r>>
        BY <3>1, <3>2, <3>4, <4>2
      <4> QED
        BY <4>1, <4>2
    <3> QED
      BY <1>8, <3>4 DEF Filled
  <2>5. \A c \in Clients : next'[c] >= next[c]
    BY <1>1 DEF Types
  <2> HIDE DEF a, b
  <2> QED
    BY <1>2, <2>1, <2>3, <2>4, <2>5, MoveStep
<1>10. Counted'
  <2> DEFINE pl == <<s, Len(box["b"][s]) + 1>>
  <2>1. q \notin done
    <3>1. /\ Held[<<"accepted", s>>] = accepted[s] /\ Held[<<"done", Nobody>>] = done
          /\ <<"accepted", s>> \in DOMAIN Held /\ <<"done", Nobody>> \in DOMAIN Held
          /\ <<"accepted", s>> # <<"done", Nobody>>
      BY <1>8 DEF Filled
    <3> QED
      BY <1>2, <3>1 DEF Apart
  <2>2. Pending' \subseteq Pending \cup {pl}
    <3> SUFFICES ASSUME NEW r \in Servers, NEW i \in 1 .. Len(box'["b"][r]),
                        ~ (r = s /\ i = Len(box["b"][s]) + 1)
                 PROVE  i \in 1 .. Len(box["b"][r])
      BY DEF Pending
    <3>1. CASE r = s
      BY <1>4, <3>1
    <3>2. CASE r # s
      BY <1>3, <3>2
    <3> QED
      BY <3>1, <3>2
  <2> HIDE DEF pl
  <2>3. /\ IsFiniteSet(Pending) /\ IsFiniteSet(done)
        /\ Cardinality(Pending) \in Nat /\ Cardinality(done) \in Nat
    BY <1>2, FS_CardinalityType DEF Counted
  <2>4. /\ IsFiniteSet(done') /\ Cardinality(done') = Cardinality(done) + 1
    BY <1>1, <2>1, <2>3, FS_AddElement
  <2>5. /\ IsFiniteSet(Pending')
        /\ Cardinality(Pending') <= Cardinality(Pending) + 1
        /\ Cardinality(Pending') \in Nat
    <3>1. Pending' \in SUBSET (Pending \cup {pl})
      BY <2>2
    <3> QED
      BY <2>3, <3>1, OneMore
  <2>6. ASSUME NEW c \in Batch, Alone(c)
        PROVE  next'[c] - 1 - query_num'[c] + Cardinality(Pending') <= Cardinality(done')
    <3>1. next[c] \in Int /\ query_num[c] \in Int
      BY DEF Types, Clients
    <3>2. next[c] - 1 - query_num[c] + Cardinality(Pending) <= Cardinality(done)
      BY <1>2, <2>6 DEF Counted
    <3> QED
      BY <1>1, <2>3, <2>4, <2>5, <3>1, <3>2
  <2> QED
    BY <2>4, <2>5, <2>6, SameLines DEF Counted
<1> QED
  BY <1>5, <1>6, <1>7, <1>9, <1>10 DEF Waits

\* A notification is taken: by the client that is alone, for the others have
\* nothing to wait for.
LEMMA NotifiedStep ==
  ASSUME Given, Types, Types', Waits, Progress, UNCHANGED given, NEW c \in Batch,
         Notified(c)
  PROVE  Waits'
<1>0. "x" \in Keys /\ "b" \in Keys /\ "x" # "b" /\ c \in Clients
  BY DEF Keys, Clients
<1>1. PICK s \in Servers : s = qid[c]["b"]
  BY <1>0 DEF Notified, Exists, Types
<1> DEFINE t == box["b"][s]
<1>2. /\ box \in [Keys -> [Servers -> Seq(Mail)]]
      /\ t # <<>> /\ box' = [box EXCEPT !["b"][s] = Tail(t)]
      /\ query_num' = [query_num EXCEPT ![c] = @ - 1]
      /\ UNCHANGED <<new_queries, accepted, done, next>>
      /\ cpc[c] \in {"wait", "drain"}
  BY <1>1 DEF Notified, Types, server
<1>3. /\ Tail(t) \in Seq(Mail) /\ Elements(Tail(t)) \subseteq Elements(t)
      /\ Len(Tail(t)) = Len(t) - 1 /\ Len(t) \in Nat \ {0}
  <2>1. /\ Tail(t) \in Seq(Mail)
        /\ Elements(t) = Elements(Tail(t)) \cup {Head(t)}
        /\ Len(Tail(t)) = Len(t) - 1 /\ Len(t) \in Nat \ {0}
    BY <1>0, <1>2, TakenFrom
  <2> HIDE DEF t
  <2> QED
    BY <2>1
<1>4. /\ Contents /\ Sizes /\ Apart(Held) /\ Once /\ SentBefore /\ Counted
  BY DEF Waits
<1>5. /\ box'["b"][s] = Tail(t)
      /\ \A l \in Keys, r \in Servers : l # "b" \/ r # s => box'[l][r] = box[l][r]
  <2> DEFINE e == Tail(t)
  <2>1. e \in Seq(Mail) /\ box' = [box EXCEPT !["b"][s] = e]
    BY <1>2, <1>3
  <2> HIDE DEF e
  <2>2. /\ box'["b"][s] = e
        /\ \A l \in Keys, r \in Servers : l # "b" \/ r # s => box'[l][r] = box[l][r]
    BY <1>0, <1>2, <2>1, BoxSet
  <2> QED
    BY <2>2 DEF e
<1> HIDE DEF t
<1>6. \A r \in Servers : box'["x"][r] = box["x"][r]
  BY <1>0, <1>5
<1>7. Contents'
  <2>1. ASSUME NEW r \in Servers, NEW o \in Elements(box'["b"][r]) PROVE IsQuery(o)
    <3>1. CASE r = s
      BY <1>3, <1>4, <1>5, <2>1, <3>1 DEF Contents, t
    <3>2. CASE r # s
      BY <1>0, <1>4, <1>5, <2>1, <3>2 DEF Contents
    <3> QED
      BY <3>1, <3>2
  <2> QED
    BY <1>2, <1>4, <1>6, <2>1, SameLines DEF Contents
<1>8. Sizes'
  <2>1. ASSUME NEW k \in Keys, NEW r \in Servers PROVE Len(box'[k][r]) <= limit[k]
    <3>1. CASE k = "b" /\ r = s
      <4>1. Len(t) <= limit["b"] /\ limit["b"] \in Int
        BY <1>0, <1>4 DEF Sizes, Given, t
      <4> QED
        BY <1>3, <1>5, <3>1, <4>1
    <3>2. CASE k # "b" \/ r # s
      BY <1>4, <1>5, <3>2 DEF Sizes
    <3> QED
      BY <3>1, <3>2
  <2> QED
    BY <2>1, SameLines DEF Sizes
<1>9. Once'
  BY <1>4, <1>6, SameLines DEF Once, OnceIn
<1>10. Apart(Held)' /\ SentBefore'
  <2> DEFINE a == <<"done", Nobody>>
  <2>1. Filled /\ Filled'
    BY HeldIs, PTL
  <2>2. ASSUME NEW r \in Servers
        PROVE  QueriesIn(box["x"][r])' = QueriesIn(box["x"][r])
    BY <1>6, SameLines DEF QueriesIn
  <2>3. ASSUME NEW p \in Places PROVE Held'[p] \subseteq Held[p]
    <3>1. CASE p = <<"done", Nobody>>
      BY <1>2, <2>1, <3>1 DEF Filled
    <3>2. ASSUME NEW r \in Servers, p \in {<<"x", r>>, <<"new", r>>, <<"accepted", r>>}
          PROVE  Held'[p] \subseteq Held[p]
      <4>0. QueriesIn(box["x"][r])' = QueriesIn(box["x"][r])
        BY <2>2
      <4>1. Held'[<<"x", r>>] = Held[<<"x", r>>]
        <5>1. Held[<<"x", r>>] = QueriesIn(box["x"][r])
          BY <2>1 DEF Filled
        <5>2. Held'[<<"x", r>>] = QueriesIn(box["x"][r])'
          BY <2>1 DEF Filled, QueriesIn
        <5> QED
          BY <5>1, <5>2, <4>0
      <4>2. Held'[<<"new", r>>] = Held[<<"new", r>>]
        BY <1>2, <2>1 DEF Filled
      <4>3. Held'[<<"accepted", r>>] = Held[<<"accepted", r>>]
        BY <1>2, <2>1 DEF Filled
      <4> QED
        BY <3>2, <4>1, <4>2, <4>3
    <3> QED
      BY <2>1, <3>1, <3>2 DEF Filled
  <2>4. \A d \in Clients : next'[d] >= next[d]
    BY <1>2 DEF Types
  <2>5. a \in Places
    BY DEF Places
  <2> HIDE DEF a
  <2> QED
    BY <1>4, <2>3, <2>4, <2>5, MoveStep
<1>11. Counted'
  <2> DEFINE pl == <<s, Len(t)>>
  <2>1. pl \in Pending
    BY <1>3 DEF Pending, t
  <2>2. Pending' = Pending \ {pl}
    <3>1. ASSUME NEW r \in Servers, NEW i \in Nat
          PROVE  i \in 1 .. Len(box'["b"][r]) <=> i \in 1 .. Len(box["b"][r]) /\ <<r, i>> # pl
      <4>1. CASE r = s
        <5>1. Len(box'["b"][r]) = Len(t) - 1 /\ box["b"][r] = t
          BY <1>3, <1>5, <4>1 DEF t
        <5> DEFINE n == Len(t)
        <5>2. i \in 1 .. Len(t) - 1 <=> i \in 1 .. Len(t) /\ i # Len(t)
          <6>1. n \in Nat \ {0}
            BY <1>3
          <6> HIDE DEF n
          <6>2. i \in 1 .. n - 1 <=> i \in 1 .. n /\ i # n
            BY <6>1
          <6> QED
            BY <6>2 DEF n
        <5>3. <<r, i>> # pl <=> i # Len(t)
          BY <4>1
        <5> HIDE DEF pl
        <5> QED
          BY <5>1, <5>2, <5>3
      <4>2. CASE r # s
        BY <1>0, <1>5, <4>2
      <4> QED
        BY <4>1, <4>2
    <3> QED
      BY <3>1 DEF Pending
  <2> HIDE DEF pl
  <2>3. /\ IsFiniteSet(Pending) /\ IsFiniteSet(done)
        /\ Cardinality(Pending) \in Nat /\ Cardinality(done) \in Nat
    BY <1>4, FS_CardinalityType DEF Counted
  <2>4. IsFiniteSet(Pending') /\ Cardinality(Pending') = Cardinality(Pending) - 1
    BY <2>1, <2>2, <2>3, FS_RemoveElement
  <2>5. ASSUME NEW d \in Batch, Alone(d)
        PROVE  next'[d] - 1 - query_num'[d] + Cardinality(Pending') <= Cardinality(done')
    <3>1. CASE d = c
      <4>1. /\ next[c] \in Int /\ query_num[c] \in Int
            /\ query_num'[c] = query_num[c] - 1
        BY <1>0, <1>2 DEF Types
      <4>2. next[c] - 1 - query_num[c] + Cardinality(Pending) <= Cardinality(done)
        BY <1>4, <2>5, <3>1 DEF Counted
      <4> QED
        BY <1>2, <2>3, <2>4, <3>1, <4>1, <4>2
    <3>2. CASE d # c
      <4>1. Loaded(c) = 0
        BY <1>0, <2>5, <3>2, NothingLoaded DEF Alone
      <4>2. Loaded(c) > 0
        BY <1>2 DEF Progress
      <4> QED
        BY <4>1, <4>2
    <3> QED
      BY <3>1, <3>2
  <2> QED
    BY <1>2, <2>3, <2>4, <2>5, SameLines DEF Counted
<1> QED
  BY <1>7, <1>8, <1>9, <1>10, <1>11 DEF Waits

-----------------------------------------------------------------------------
(* Every step                                                              *)

LEMMA ProgressStep ==
  ASSUME Given, Types, Progress, [Next]_vars
  PROVE  Progress'
<1>0. UNCHANGED given
  BY DEF Next, vars, Serve, Proceed, CreateServer, CreateNotifier, Create,
     Receive, EnqueueNew, Finish, CheckEnd, DeleteServer, DeleteNotifier,
     RemoveQueue, Crash, Clean, Attach, AttachReceiver, Type, Quit, SendQuery,
     SendExit, Notified, Stranded, Drained
<1>1. \A c : Loaded(c)' = Loaded(c)
  BY <1>0, SameLines
<1>2. ASSUME NEW d \in Batch
      PROVE  /\ d \in Clients /\ next[d] \in Nat \ {0} /\ query_num[d] \in Int
             /\ Loaded(d) \in Nat /\ Lines(d) = 1 .. Loaded(d) /\ d \notin Interactive
  BY LoadedIs, LinesAre, MessagingAssumption DEF Types, Clients
<1> DEFINE At(d) ==
      /\ next[d] <= Loaded(d) + 1
      /\ query_num[d] <= next[d] - 1
      /\ cpc[d] \in {"wait", "drain", "done"} => next[d] = Loaded(d) + 1
      /\ cpc[d] \in {"wait", "drain"} => Loaded(d) > 0
      /\ cpc[d] = "done" => query_num[d] <= 0
<1>3. \A d \in Batch : At(d)
  BY DEF Progress
<1>4. ASSUME NEW d \in Batch, UNCHANGED <<next[d], query_num[d], cpc[d]>>
      PROVE  At(d)'
  BY <1>1, <1>3, <1>4
<1>5. ASSUME UNCHANGED client PROVE Progress'
  BY <1>4, <1>5 DEF client, Progress
<1>6. ASSUME UNCHANGED vars PROVE Progress'
  BY <1>5, <1>6 DEF vars
<1>7. ASSUME NEW s \in Servers, CreateServer(s) \/ Serve(s) \/ Crash(s) \/ Clean
      PROVE  Progress'
  BY <1>5, <1>7 DEF CreateServer, Serve, CreateNotifier, Create, Receive, EnqueueNew,
     Finish, CheckEnd, DeleteServer, DeleteNotifier, RemoveQueue, Crash, Clean
<1>8. ASSUME NEW c \in Clients, NEW d \in Batch, Attach(c) \/ Proceed(c) PROVE At(d)'
  <2>1. CASE d # c
    <3>1. UNCHANGED <<next[d], query_num[d], cpc[d]>>
      BY <1>2, <1>8, <2>1 DEF Attach, Proceed, AttachReceiver, Type, Quit, SendQuery,
         SendExit, Notified, Stranded, Drained, Goto, Types
    <3> QED
      BY <1>4, <3>1
  <2>2. CASE d = c
    <3>1. ASSUME Attach(c) \/ AttachReceiver(c) \/ Stranded(c) PROVE At(d)'
      <4>1. /\ UNCHANGED <<next, query_num>>
            /\ cpc'[d] \in {"failed", "attach", "send"}
        BY <1>2, <2>2, <3>1 DEF Attach, AttachReceiver, Stranded, Goto, Types
      <4> QED
        BY <1>1, <1>3, <4>1
    <3>2. ASSUME Type(c) \/ Quit(c) PROVE FALSE
      BY <1>2, <2>2, <3>2 DEF Type, Quit
    <3>3. ASSUME SendQuery(c) PROVE At(d)'
      <4>1. /\ next'[d] = next[d] + 1 /\ query_num'[d] = query_num[d] + 1
            /\ cpc'[d] = "send" /\ next[d] \in Lines(d)
        BY <1>2, <2>2, <3>3 DEF SendQuery, Types
      <4>2. next[d] <= Loaded(d)
        BY <1>2, <4>1
      <4> QED
        BY <1>1, <1>2, <1>3, <4>1, <4>2
    <3>4. ASSUME SendExit(c) PROVE At(d)'
      <4>1. /\ UNCHANGED <<next, query_num>> /\ next[d] \notin Lines(d)
            /\ cpc'[d] = IF query_num[d] > 0 THEN "wait" ELSE "done"
        BY <1>2, <2>2, <3>4 DEF SendExit, Goto, Types
      <4>2. next[d] = Loaded(d) + 1
        BY <1>2, <1>3, <4>1
      <4>3. query_num[d] > 0 => Loaded(d) > 0
        BY <1>2, <1>3, <4>2
      <4> QED
        BY <1>1, <1>2, <1>3, <4>1, <4>2, <4>3
    <3>5. ASSUME Notified(c) PROVE At(d)'
      <4>1. /\ UNCHANGED next /\ query_num'[d] = query_num[d] - 1
            /\ cpc'[d] = "drain" /\ cpc[d] \in {"wait", "drain"}
        BY <1>2, <2>2, <3>5 DEF Notified, Goto, Types
      <4> QED
        BY <1>1, <1>2, <1>3, <4>1
    <3>6. ASSUME Drained(c) PROVE At(d)'
      <4>1. /\ UNCHANGED <<next, query_num>> /\ cpc[d] = "drain"
            /\ cpc'[d] = IF query_num[d] > 0 THEN "wait" ELSE "done"
        BY <1>2, <2>2, <3>6 DEF Drained, Goto, Types
      <4> QED
        BY <1>1, <1>2, <1>3, <4>1
    <3> QED
      BY <1>8, <3>1, <3>2, <3>3, <3>4, <3>5, <3>6 DEF Proceed
  <2> QED
    BY <2>1, <2>2
<1>9. ASSUME NEW c \in Clients, Attach(c) \/ Proceed(c) PROVE Progress'
  <2>1. ASSUME NEW d \in Clients \ Batch PROVE cpc'[d] \notin {"wait", "drain"}
    <3>1. cpc[d] \notin {"wait", "drain"} /\ cpc \in [Clients -> CPCs]
      BY DEF Progress, Types
    <3>2. CASE UNCHANGED cpc
      BY <3>1, <3>2
    <3>3. CASE cpc' # cpc
      <4>1. /\ ~ (SendExit(c) /\ c = d) /\ ~ (Notified(c) /\ c = d)
            /\ ~ (Drained(c) /\ c = d)
        BY <3>1 DEF SendExit, Notified, Drained
      <4>2. d # c => cpc'[d] = cpc[d]
        BY <1>9, <3>1 DEF Attach, Proceed, AttachReceiver, Type, Quit, SendQuery,
           SendExit, Notified, Stranded, Drained, Goto
      <4>3. Attach(c) \/ AttachReceiver(c) \/ Quit(c) \/ Stranded(c)
              => cpc'[c] \notin {"wait", "drain"}
        BY <3>1 DEF Attach, AttachReceiver, Quit, Stranded, Goto
      <4>4. ~ Type(c) /\ ~ SendQuery(c)
        BY <3>3 DEF Type, SendQuery
      <4> QED
        BY <1>9, <3>1, <4>1, <4>2, <4>3, <4>4 DEF Proceed
    <3> QED
      BY <3>2, <3>3
  <2> QED
    BY <1>8, <1>9, <2>1 DEF Progress
<1>10. ASSUME Clean PROVE Progress'
  BY <1>5, <1>10 DEF Clean
<1> QED
  BY <1>6, <1>7, <1>9, <1>10 DEF Next

LEMMA WaitsStep ==
  ASSUME Given, Types, Types', Waits, Progress, [Next]_vars
  PROVE  Waits'
<1>0. UNCHANGED given
  BY DEF Next, vars, Serve, Proceed, CreateServer, CreateNotifier, Create,
     Receive, EnqueueNew, Finish, CheckEnd, DeleteServer, DeleteNotifier,
     RemoveQueue, Crash, Clean, Attach, AttachReceiver, Type, Quit, SendQuery,
     SendExit, Notified, Stranded, Drained
<1>1. box \in [Keys -> [Servers -> Seq(Mail)]] /\ "x" \in Keys
  BY DEF Types, Keys
<1>2. ASSUME UNCHANGED <<box, new_queries, accepted, done, next, query_num>>
      PROVE  Waits'
  BY <1>0, <1>2, LostStep
<1>3. ASSUME UNCHANGED vars PROVE Waits'
  BY <1>2, <1>3 DEF vars, server, client
<1>4. ASSUME NEW s \in Servers,
             CreateServer(s) \/ CreateNotifier(s) \/ CheckEnd(s) \/ Crash(s)
      PROVE  Waits'
  BY <1>2, <1>4 DEF CreateServer, CreateNotifier, Create, CheckEnd, Crash, client
<1>5. ASSUME NEW s \in Servers, DeleteServer(s) \/ DeleteNotifier(s) PROVE Waits'
  <2>1. PICK k \in Keys : box' = [box EXCEPT ![k][s] = <<>>]
    BY <1>5 DEF DeleteServer, DeleteNotifier, RemoveQueue, Keys
  <2>2. \A l \in Keys, r \in Servers : box'[l][r] = box[l][r] \/ box'[l][r] = <<>>
    BY <1>1, <2>1
  <2>3. UNCHANGED <<new_queries, accepted, done, next, query_num>>
    BY <1>5 DEF DeleteServer, DeleteNotifier, RemoveQueue, client
  <2> QED
    BY <1>0, <2>2, <2>3, LostStep
<1>6. CASE Clean
  <2>1. \A l \in Keys, r \in Servers : box'[l][r] = <<>>
    BY <1>6 DEF Clean
  <2>2. UNCHANGED <<new_queries, accepted, done, next, query_num>>
    BY <1>6 DEF Clean, server, client
  <2> QED
    BY <1>0, <2>1, <2>2, LostStep
<1>7. ASSUME NEW s \in Servers, Receive(s) PROVE Waits'
  BY <1>0, <1>7, ReceiveStep
<1>8. ASSUME NEW s \in Servers, EnqueueNew(s) PROVE Waits'
  BY <1>0, <1>8, EnqueueStep
<1>9. ASSUME NEW s \in Servers, NEW q \in accepted[s], Finish(s, q) PROVE Waits'
  BY <1>0, <1>9, FinishStep
<1>10. ASSUME NEW c \in Clients,
              Attach(c) \/ AttachReceiver(c) \/ Quit(c) \/ Stranded(c) \/ Drained(c)
       PROVE  Waits'
  BY <1>2, <1>10 DEF Attach, AttachReceiver, Quit, Stranded, Drained, server
<1>11. ASSUME NEW c \in Clients, Type(c) \/ SendQuery(c) PROVE Waits'
  <2> DEFINE m == <<c, next[c]>>
  <2>1. /\ box' = Sent("x", qid[c]["x"], m) /\ next[c] \in Lines(c)
        /\ UNCHANGED <<new_queries, accepted, done>>
        /\ next' = [next EXCEPT ![c] = @ + 1]
    BY <1>11 DEF Type, SendQuery, server
  <2>2. /\ m \in Mail /\ m[1] = c /\ m[2] = next[c] /\ next[c] \in Nat
        /\ next'[c] > next[c] /\ \A d \in Clients : next'[d] >= next[d]
    BY <2>1 DEF Types, Mail
  <2>3. IsLine(m) /\ (IsExit(m) \/ IsQuery(m))
    BY <2>1, LinesAre DEF IsLine, IsQuery
  <2>4. ASSUME NEW d \in Batch
        PROVE  next'[d] - query_num'[d] = next[d] - query_num[d]
    <3>1. d \in Clients /\ next[d] \in Int /\ query_num[d] \in Int
      BY DEF Types, Clients
    <3>2. CASE d = c
      <4>1. ~ Type(c)
        BY <3>2, MessagingAssumption DEF Type
      <4>2. /\ query_num'[c] = query_num[c] + 1 /\ next'[c] = next[c] + 1
        BY <1>11, <4>1 DEF SendQuery, Types
      <4> QED
        BY <3>1, <3>2, <4>2
    <3>3. CASE d # c
      <4>1. query_num'[d] = query_num[d] /\ next'[d] = next[d]
        BY <1>11, <3>1, <3>3 DEF Type, SendQuery, Types
      <4> QED
        BY <4>1
    <3> QED
      BY <3>2, <3>3
  <2> HIDE DEF m
  <2> QED
    BY <1>0, <2>1, <2>2, <2>3, <2>4, PostStep
<1>12. ASSUME NEW c \in Clients, SendExit(c) PROVE Waits'
  <2>1. UNCHANGED <<new_queries, accepted, done, next, query_num>>
    BY <1>12 DEF SendExit, server
  <2>2. CASE Loaded(c) < Len(lines[c])
    <3> DEFINE m == <<c, Loaded(c) + 1>>
    <3>1. box' = Sent("x", qid[c]["x"], m)
      BY <1>12, <2>2 DEF SendExit
    <3>2. /\ Loaded(c) + 1 \in 1 .. Len(lines[c]) /\ Loaded(c) + 1 \in Nat
          /\ lines[c][Loaded(c) + 1] = ServerExit
      BY <2>2, LoadedIs
    <3>3. m \in Mail /\ IsLine(m) /\ IsExit(m)
      BY <3>2 DEF Mail, IsLine, IsExit
    <3>4. /\ \A d \in Clients : next'[d] >= next[d]
          /\ \A d \in Batch : next'[d] - query_num'[d] = next[d] - query_num[d]
      BY <2>1 DEF Types
    <3> HIDE DEF m
    <3> QED
      BY <1>0, <2>1, <3>1, <3>3, <3>4, PostStep
  <2>3. CASE ~ (Loaded(c) < Len(lines[c]))
    BY <1>2, <1>12, <2>1, <2>3 DEF SendExit
  <2> QED
    BY <2>2, <2>3
<1>13. ASSUME NEW c \in Clients, Notified(c) PROVE Waits'
  <2>1. c \in Batch
    BY <1>13 DEF Notified, Progress
  <2> QED
    BY <1>0, <1>13, <2>1, NotifiedStep
<1> QED
  BY <1>3, <1>4, <1>5, <1>6, <1>7, <1>8, <1>9, <1>10, <1>11, <1>12, <1>13
     DEF Next, Serve, Proceed

LEMMA InitIInv ==
  ASSUME Init
  PROVE  IInv
<1>1. Given
  BY MessagingAssumption DEF Init, Given
<1>2. Types /\ Owns
  BY DEF Init, Types, Owns, WPCs, CPCs, Keys
<1>3. \A k \in Keys, s \in Servers :
        Elements(box[k][s]) = {} /\ Len(box[k][s]) = 0
  BY EmptyElements DEF Init
<1>4. "x" \in Keys /\ "b" \in Keys
  BY DEF Keys
<1>5. Contents /\ Once
  BY <1>3, <1>4 DEF Init, Contents, Once, OnceIn
<1>6. Sizes
  BY <1>1, <1>3 DEF Sizes, Given
<1>7. \A p \in Places : Held[p] = {}
  <2>1. \A s \in Servers : QueriesIn(box["x"][s]) = {}
    BY <1>3, <1>4 DEF QueriesIn
  <2>2. \A s \in Servers : new_queries[s] = {} /\ accepted[s] = {}
    BY DEF Init
  <2>3. done = {}
    BY DEF Init
  <2>4. ASSUME NEW s \in Servers, NEW p \in {<<"x", s>>, <<"new", s>>, <<"accepted", s>>}
        PROVE  Held[p] = {}
    BY <2>1, <2>2, HeldIs DEF Filled
  <2> QED
    BY <2>3, <2>4, HeldIs DEF Filled
<1>8. Apart(Held) /\ SentBefore
  BY <1>7, HeldIs DEF Apart, SentBefore, Filled
<1>9. Progress
  <2>1. \A c \in Clients : cpc[c] = "start" /\ next[c] = 1 /\ query_num[c] = 0
    BY DEF Init
  <2>2. \A c \in Clients : Loaded(c) \in Nat
    BY <1>1, LoadedIs
  <2> QED
    BY <2>1, <2>2 DEF Progress, Clients
<1>10. Counted
  <2>1. Pending = {} /\ done = {}
    BY <1>3, <1>4 DEF Pending, Init
  <2>2. IsFiniteSet(Pending) /\ Cardinality(Pending) = 0
        /\ IsFiniteSet(done) /\ Cardinality(done) = 0
    BY <2>1, FS_EmptySet
  <2>3. \A c \in Batch : next[c] = 1 /\ query_num[c] = 0
    BY DEF Init, Clients
  <2> QED
    BY <2>2, <2>3 DEF Counted
<1> QED
  BY <1>1, <1>2, <1>5, <1>6, <1>8, <1>9, <1>10 DEF IInv

LEMMA NextIInv ==
  ASSUME IInv, [Next]_vars
  PROVE  IInv'
<1>1. Given' /\ Types'
  BY TypesStep DEF IInv
<1>2. Owns'
  BY OwnsStep DEF IInv
<1>3. Progress'
  BY ProgressStep DEF IInv
<1>4. Waits
  BY DEF IInv, Waits
<1>5. Waits'
  BY <1>1, <1>4, WaitsStep DEF IInv
<1> QED
  BY <1>1, <1>2, <1>3, <1>5 DEF IInv, Waits

-----------------------------------------------------------------------------
(* What is proved                                                          *)

\* The messages are lines of the clients and fit the queues; a server that runs
\* owns its keys; a query is at one place, once, from the moment it is sent to
\* the moment it is answered; the notifications counted and still to be counted
\* are as many as the answers at most (msgtool.h, workerOL.h, run.cpp).
THEOREM Invariance == Spec => []IInv
<1>1. Init => IInv
  BY InitIInv
<1>2. IInv /\ [Next]_vars => IInv'
  BY NextIInv
<1> QED
  BY <1>1, <1>2, PTL DEF Spec

\* Everything that is in a queue, is received or is worked on is a line one of
\* the clients was given, and no queue holds more than fits.
LEMMA InvTypes == IInv => TypeOK
<1> SUFFICES ASSUME IInv PROVE TypeOK
  OBVIOUS
<1>1. Given /\ Types /\ Contents /\ Sizes
  BY DEF IInv
<1>2. ASSUME NEW m \in Mail, IsLine(m) PROVE m \in {m[1]} \X (1 .. Len(lines[m[1]]))
  BY <1>2 DEF Mail, IsLine
<1>3. ASSUME NEW m \in Mail, IsQuery(m) PROVE m \in Messages(m[1]) /\ IsLine(m)
  <2>1. m[1] \in Clients /\ m = <<m[1], m[2]>> /\ m[2] \in Lines(m[1])
    BY <1>3 DEF Mail, IsQuery
  <2>2. m[2] \in 1 .. Len(lines[m[1]])
    BY <1>1, <2>1, LinesAre
  <2> QED
    BY <2>1, <2>2 DEF Messages, IsLine
<1>4. ASSUME NEW k \in Keys, NEW s \in Servers, NEW m \in Range(box[k][s])
      PROVE  m \in UNION {{c} \X (1 .. Len(lines[c])) : c \in Clients}
  <2>1. box[k][s] \in Seq(Mail)
    BY <1>1 DEF Types
  <2>2. m \in Elements(box[k][s]) /\ m \in Mail
    BY <2>1, LenProperties DEF Range, Elements
  <2>3. IsLine(m)
    <3>1. CASE k = "x"
      BY <1>1, <2>2, <3>1 DEF Contents
    <3>2. CASE k = "b"
      BY <1>1, <1>3, <2>2, <3>2 DEF Contents
    <3> QED
      BY <3>1, <3>2 DEF Keys
  <2>4. m[1] \in Clients
    BY <2>2 DEF Mail
  <2> QED
    BY <1>2, <2>2, <2>3, <2>4
<1>5. ASSUME NEW s \in Servers, NEW m \in accepted[s] \cup new_queries[s]
      PROVE  m \in UNION {Messages(c) : c \in Clients}
  <2>1. m \in Mail /\ IsQuery(m) /\ m[1] \in Clients
    BY <1>1 DEF Types, Contents, Mail
  <2>2. m \in Messages(m[1])
    BY <1>3, <2>1
  <2> QED
    BY <2>1, <2>2
<1> QED
  BY <1>1, <1>4, <1>5 DEF TypeOK, Types, Sizes

\* Whoever starts, fails, crashes or cleans up: a server that has got past its
\* constructors owns both keys until it removes them (msgtool.h, workerOL.h).
THEOREM RunningOwnsTheKeys == Spec => []ServesItsOwnQueues
<1>1. IInv => ServesItsOwnQueues
  BY InvTypes DEF IInv, Owns, ServesItsOwnQueues
<1> QED
  BY <1>1, Invariance, PTL

\* A batch client that is alone prints its total time when each of its queries
\* was answered, however many and whatever the sizes of the queues: although it
\* only counts notifications and some may be lost.
THEOREM NeverReturnsEarly == Spec => []ReturnedMeansDone
<1>1. ASSUME IInv, NEW c \in Batch, cpc[c] = "done", Alone(c)
      PROVE  Messages(c) \subseteq done
  <2>1. Given /\ Types /\ Contents /\ Progress /\ Counted
    BY <1>1 DEF IInv
  <2>2. /\ c \in Clients /\ Loaded(c) \in Nat /\ Lines(c) = 1 .. Loaded(c)
        /\ next[c] \in Int /\ query_num[c] \in Int
    BY <2>1, LoadedIs, LinesAre DEF Types, Clients
  <2>3. done \subseteq Messages(c)
    <3> SUFFICES ASSUME NEW m \in done PROVE m \in Messages(c)
      OBVIOUS
    <3>1. /\ m[1] \in Clients /\ m = <<m[1], m[2]>> /\ m[2] \in Lines(m[1])
          /\ ~ IsExit(m)
      BY <2>1 DEF Types, Contents, IsQuery, Mail
    <3>2. lines[m[1]] \in Seq({Query, ServerExit}) /\ m[2] \in 1 .. Len(lines[m[1]])
      BY <2>1, <3>1, LinesAre DEF Given
    <3>3. lines[m[1]][m[2]] = Query
      BY <3>1, <3>2 DEF IsExit
    <3>4. Query \in Range(lines[m[1]])
      BY <3>2, <3>3 DEF Range
    <3>5. m[1] = c
      BY <1>1, <3>1, <3>4 DEF Alone
    <3> QED
      BY <3>1, <3>5 DEF Messages
  <2>4. IsFiniteSet(Messages(c)) /\ Cardinality(Messages(c)) = Loaded(c)
    <3> DEFINE I == 1 .. Loaded(c)
               f == [i \in I |-> <<c, i>>]
    <3>1. IsFiniteSet(I) /\ Cardinality(I) = Loaded(c)
      BY <2>2, IntervalSize
    <3>2. Messages(c) = {c} \X I
      BY <2>2 DEF Messages
    <3>3. f \in Bijection(I, {c} \X I)
      BY DEF Bijection, Injection, Surjection, IsInjective
    <3> HIDE DEF I, f
    <3>4. ExistsBijection(I, {c} \X I)
      BY <3>3 DEF ExistsBijection
    <3> QED
      BY <3>1, <3>2, <3>4, FS_Bijection
  <2>5. Loaded(c) <= Cardinality(done)
    <3>1. next[c] = Loaded(c) + 1 /\ query_num[c] <= 0
      BY <1>1, <2>1 DEF Progress
    <3>2. /\ next[c] - 1 - query_num[c] + Cardinality(Pending) <= Cardinality(done)
          /\ Cardinality(Pending) \in Nat /\ Cardinality(done) \in Nat
      BY <1>1, <2>1, FS_CardinalityType DEF Counted
    <3> QED
      BY <2>2, <3>1, <3>2
  <2>6. Cardinality(done) <= Cardinality(Messages(c))
    BY <2>3, <2>4, FS_Subset
  <2>7. Cardinality(done) \in Nat
    BY <2>1, FS_CardinalityType DEF Counted
  <2>8. Cardinality(Messages(c)) = Cardinality(done)
    BY <2>2, <2>4, <2>5, <2>6, <2>7
  <2>9. Messages(c) = done
    BY <2>3, <2>4, <2>8, FS_Subset
  <2> QED
    BY <2>9
<1>2. IInv => ReturnedMeansDone
  BY <1>1 DEF ReturnedMeansDone
<1> QED
  BY <1>2, Invariance, PTL
=============================================================================

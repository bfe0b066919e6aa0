---------------------------- MODULE MCSequential ----------------------------
(***************************************************************************)
(* The parts that run within one thread, checked side by side: the         *)
(* intersection kernels on every pair of Lists, the file streams, the      *)
(* signature tree, and the answering of basic patterns and of groups.  A   *)
(* behaviour is one part's; the others keep still.                         *)
(***************************************************************************)
EXTENDS Sequential, TLC

CONSTANTS
  Entities, Bits, Signatures, MAX_CHILD_NUM, MIN_CHILD_NUM, MAX_CHANGES,
  Groups, Answer, None, Text, Projections
VARIABLES
  part,
  nodes, line, height, stored, changes,
  group, query_vec, evaPlan, next, evaStack, exact, answer, phase

Tree == INSTANCE VSTree
Plans == INSTANCE GroupPlan

ASSUME Tree!Rooms

\* Every list over 1 .. 6; over 1 .. 3 with an element up to twice; and for the
\* one-to-many and the galloping kernel longer ones, of one, two or up to 39
\* elements, without and with repeats.
RECURSIVE Sorted(_, _)
Sorted(x, count) ==
  IF x > 40 THEN <<>> ELSE [i \in 1 .. count[x] |-> x] \o Sorted(x + 1, count)
Times(S, n) == Sorted(1, [x \in 1 .. 40 |-> IF x \in S THEN n ELSE 0])
MCLists ==
  {Times(S, 1) : S \in SUBSET (1 .. 6)}
  \cup {Sorted(1, [x \in 1 .. 40 |-> IF x <= 3 THEN c[x] ELSE 0]) : c \in [1 .. 3 -> 0 .. 2]}
  \cup {Times((1 .. 10) \ {x}, 1) : x \in 1 .. 10}
  \cup {Times((1 .. 40) \ {x}, 1) : x \in {1, 2, 3, 5, 9, 14, 17, 20, 25, 33, 36, 40}}
  \cup {Times({x}, 1) : x \in 7 .. 40} \cup {Times({x, 39}, 1) : x \in {8, 16, 24, 32}}
  \cup {Times(S, 2) : S \in {1 .. 5, 2 .. 6, 1 .. 11, 2 .. 12, 3 .. 20}}

\* A signature has a bit set.
MCSignatures == SUBSET Bits \ {{}}

\* Entities 0 to 2 and the literals 100 and 101; 2 has predicate 0 to itself and
\* to a literal.
MCG == {<<0, 0, 1>>, <<0, 0, 2>>, <<1, 0, 2>>, <<2, 0, 0>>, <<0, 1, 100>>,
        <<1, 1, 100>>, <<2, 1, 101>>, <<2, 0, 101>>, <<1, 1, 0>>}

\* Patterns of one or two triples, of the constants 0 (subject), 2 and 100
\* (objects) and three variables, and of three triples: a path, stars, and a cycle.
T(s, p, o) == [s |-> s, p |-> p, o |-> o]
Terms(ts) == {ts[n].s : n \in DOMAIN ts} \cup {ts[n].o : n \in DOMAIN ts}
VarCount(ts) == Cardinality(Terms(ts) \cap Nat)
Triples(vs) ==
  {t \in {T(s, p, o) : s \in {-1} \cup vs, p \in {0, 1}, o \in {-3, -101} \cup vs} :
     t.s # t.o /\ (t.s >= 0 \/ t.o >= 0)}
NumberedAsTheyCome(ts) ==
  \A n \in DOMAIN ts :
    LET k == VarCount(SubSeq(ts, 1, n - 1))
    IN  /\ ts[n].s <= k
        /\ ts[n].o <= IF ts[n].s = k THEN k + 1 ELSE k
MCPatterns ==
  LET one == {<<t>> : t \in Triples(0 .. 1)}
      two == {<<t, u>> : t \in Triples(0 .. 1), u \in Triples(0 .. 3)}
      three == {<<T(0, p, 1), T(1, q, 2), T(a, 0, 3)>> : p \in {0, 1}, q \in {0, 1}, a \in {0, 2}}
               \cup {<<T(0, p, 1), T(0, q, 2), T(a, 0, b)>> :
                       p \in {0, 1}, q \in {0, 1}, a \in {0, 1, 3}, b \in {2, -3}}
  IN  {[var_num |-> VarCount(ts), triples |-> ts] :
         ts \in {x \in one \cup two \cup three : NumberedAsTheyCome(x)}}

\* Tables with a variable in common, or not; and two filters.
MCAnswer ==
  "A" :> [var |-> <<"x", "y">>, res |-> << <<1, 2>>, <<2, 3>>, <<2, 1>> >>] @@
  "B" :> [var |-> <<"y", "z">>, res |-> << <<1, 3>>, <<3, 1>>, <<3, 2>> >>] @@
  "C" :> [var |-> <<"x">>, res |-> << <<2>> >>]
MCText == -1 :> 0 @@ 1 :> 1 @@ 2 :> 2 @@ 3 :> 2
MCProjections == <<"y", "x", "z">>
V(x) == <<"var", x>>
Two == <<"text", 2>>
Filters ==
  {<<>>,
   << <<"not", <<"<", V("x"), Two>> >>, <<"!=", V("y"), Two>> >>,
   << <<"or", <<"=", V("x"), V("y")>>,
              <<"and", <<"<=", V("y"), V("z")>>, <<">=", V("z"), Two>> >> >> >>}
Group(bgp, unions, optionals, filters) ==
  [bgp |-> bgp, unions |-> unions, optionals |-> optionals, filters |-> filters]
Leaf(bgp) == Group(bgp, <<>>, <<>>, <<>>)
Bgps == DOMAIN Answer \cup {None}
Leaves == {Leaf(b) : b \in Bgps}
OneOrTwo(S) == {<<a>> : a \in S} \cup {<<a, b>> : a, b \in S}
Unions(S) == {<<>>} \cup {<<bs>> : bs \in OneOrTwo(S)}

\* Unions, optionals and filters over leaves; groups one level deeper; and two
\* unions next to each other.
MCGroups ==
  LET small == {Group(b, u, o, <<>>) : b \in Bgps, u \in Unions({Leaf("A"), Leaf("B")}), o \in {<<>>, <<Leaf("C")>>}}
  IN  {Group(b, u, o, f) : b \in Bgps, u \in Unions(Leaves), o \in {<<>>} \cup OneOrTwo(Leaves), f \in Filters}
      \cup {Group(b, << <<s, Leaf("C")>> >>, <<>>, f) : b \in Bgps, s \in small, f \in Filters}
      \cup {Group(b, <<>>, <<s>>, f) : b \in Bgps, s \in small, f \in Filters}
      \cup {Group(b, << <<Leaf("A")>>, <<Leaf("B"), Leaf("C")>> >>, o, f) :
              b \in Bgps, o \in {<<>>, <<Leaf("C")>>}, f \in Filters}

-----------------------------------------------------------------------------
streamVars == <<items, file, membuf, bufpos, offset, totpos, took, left, got, mode>>
treeVars == <<nodes, line, height, stored, changes>>
joinVars == <<pattern, stage, candidates, var_stack, matching_order, cur_depth, results>>
planVars == <<group, query_vec, evaPlan, next, evaStack, exact, answer, phase>>

NoLists == /\ larray = <<>> /\ rarray = <<>> /\ behind = 0
           /\ li = 0 /\ ri = 0 /\ cn = <<>> /\ pc = "done"
NoJoin == /\ pattern = None /\ stage = "none" /\ candidates = <<>> /\ var_stack = <<>>
          /\ matching_order = <<>> /\ cur_depth = 0 /\ results = {}
NoPlan == /\ group = None /\ query_vec = <<>> /\ evaPlan = <<>> /\ next = 1
          /\ evaStack = <<>> /\ exact = TRUE /\ answer = <<>> /\ phase = "none"

MCInit ==
  /\ Stream!Init /\ Tree!Init
  /\ \/ part = "lists" /\ Init /\ NoJoin /\ NoPlan
     \/ part \in {"stream", "tree"} /\ NoLists /\ NoJoin /\ NoPlan
     \/ part = "joins" /\ NoLists /\ Joins!Init /\ NoPlan
     \/ part = "plans" /\ NoLists /\ NoJoin /\ Plans!Init

MCNext ==
  \/ Next /\ UNCHANGED <<part, streamVars, treeVars, joinVars, planVars>>
  \/ part = "stream" /\ Stream!Next /\ UNCHANGED <<part, vars, treeVars, joinVars, planVars>>
  \/ part = "tree" /\ Tree!Next /\ UNCHANGED <<part, vars, streamVars, joinVars, planVars>>
  \/ part = "joins" /\ Joins!Next /\ UNCHANGED <<part, vars, streamVars, treeVars, planVars>>
  \/ part = "plans" /\ Plans!Next /\ UNCHANGED <<part, vars, streamVars, treeVars, joinVars>>

MCSpec ==
  /\ MCInit
  /\ [][MCNext]_<<part, vars, streamVars, treeVars, joinVars, planVars>>
  /\ WF_vars(Next)

\* The tree's properties, which VSTree states: lines, fathers, children and the
\* leaves kept for entities fit together, and nothing is pruned.
LinesFit == Tree!LinesFit
NothingPruned == Tree!NothingPruned

\* gquery's answers to a group, as GroupPlan states: what SPARQL gives for it.
AnswersTheGroup == part = "plans" => Plans!AnswersTheGroup
=============================================================================

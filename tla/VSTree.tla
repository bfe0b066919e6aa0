------------------------------- MODULE VSTree -------------------------------
(***************************************************************************)
(* VSTree and VNode (VSTree/VSTree.cpp, VSTree/VNode.cpp): the balanced    *)
(* tree of signatures that retrieves the entities whose signature covers a *)
(* filter.  A node is known by its line in the tree's file; its entries    *)
(* hold what the tree believes of its children, or, in a leaf, of its      *)
(* entities.  One step is one call of the Database.  The node buffer holds *)
(* every node: it is never smaller than 302000 nodes.                      *)
(***************************************************************************)
EXTENDS Integers, Sequences, FiniteSets, SequencesExt

CONSTANTS
  Entities,       \* a set of numbers
  Bits,           \* the bits of a signature
  Signatures,     \* the signatures entities may have: sets of Bits
  MAX_CHILD_NUM,  \* 151
  MIN_CHILD_NUM,  \* 60
  MAX_CHANGES     \* bound: updates, replacements and removals

\* What the constants satisfy; the model-checking module assumes it.
Rooms ==
  /\ Signatures \subseteq SUBSET Bits
  /\ MAX_CHILD_NUM \in Nat /\ MIN_CHILD_NUM \in 1 .. MAX_CHILD_NUM - 2

VARIABLES
  nodes,    \* line -> [leaf, father, sig, entries]; the root's father is NoFather
  line,     \* entityID2FileLineMap: entities are not taken out of it
  height,
  stored,   \* what the Database has put: entity -> signature
  changes

vars == <<nodes, line, height, stored, changes>>

NoFather == -1
ROOT == 0
tree == [nodes |-> nodes, line |-> line, height |-> height]
Empty == [leaf |-> TRUE, father |-> NoFather, sig |-> {}, entries |-> <<>>]
Entry(id, sig) == [id |-> id, sig |-> sig]
-----------------------------------------------------------------------------
(* VNode                                                                   *)

isFull(n) == Len(n.entries) = MAX_CHILD_NUM - 1
isRoot(n) == n.father = NoFather
Ids(n) == {n.entries[i].id : i \in DOMAIN n.entries}
Rank(n, id) == CHOOSE i \in DOMAIN n.entries : n.entries[i].id = id

OrOf(entries) == UNION {entries[i].sig : i \in DOMAIN entries}
refreshSignature(n) == [n EXCEPT !.sig = OrOf(n.entries)]

\* The node x, then its entry in the father where that changes, and so on up.
RefreshAncestors_SelfOnly(t, x) == [t EXCEPT !.nodes[x] = refreshSignature(@)]
RECURSIVE RefreshAncestors(_, _)
RefreshAncestors(t, x) ==
  LET t1 == [t EXCEPT !.nodes[x] = refreshSignature(@)]
      n == t1.nodes[x]
      i == Rank(t1.nodes[n.father], x)
  IN IF isRoot(n) \/ t1.nodes[n.father].entries[i].sig = n.sig THEN t1
     ELSE RefreshAncestors([t1 EXCEPT !.nodes[n.father].entries[i].sig = n.sig], n.father)

addChildNode(t, x, child) ==
  [t EXCEPT !.nodes[child].father = x,
            !.nodes[x].entries = Append(@, Entry(child, t.nodes[child].sig))]
-----------------------------------------------------------------------------
(* Inserting                                                               *)

\* Bits of b that a lacks.
xEpsilen(a, b) == Cardinality(b \ a)
FirstLeast(D, f(_)) ==
  CHOOSE i \in D : \A j \in D : f(i) < f(j) \/ (f(i) = f(j) /\ i <= j)

\* Every child nearest to the signature is tried down to its leaf.
RECURSIVE chooseNode(_, _, _)
chooseNode(t, x, sig) ==
  LET n == t.nodes[x]
      D == DOMAIN n.entries
      far(i) == xEpsilen(n.entries[i].sig, sig)
      nearest == {i \in D : \A j \in D : far(i) <= far(j)}
      leaf == [i \in nearest |-> chooseNode(t, n.entries[i].id, sig)]
  IN IF n.leaf THEN x
     ELSE leaf[FirstLeast(nearest, LAMBDA i : xEpsilen(t.nodes[leaf[i]].sig, sig))]

updateEntityID2FileLineMap(t, x) ==
  LET n == t.nodes[x]
  IN IF ~n.leaf THEN t
     ELSE [t EXCEPT !.line = [e \in DOMAIN @ \cup Ids(n) |-> IF e \in Ids(n) THEN x ELSE @[e]]]

\* The nodes at a and b change lines, and their fathers and children hear of it.
swapNodeFileLine_Childless(t, a, b) ==
  LET other(x) == IF x = a THEN b ELSE IF x = b THEN a ELSE x
      relinked(n) == [i \in DOMAIN n.entries |->
                        IF n.leaf THEN n.entries[i]
                        ELSE Entry(other(n.entries[i].id), n.entries[i].sig)]
      moved(x) == [t.nodes[x] EXCEPT
        !.entries = IF \E y \in {a, b} : t.nodes[y].father = x
                    THEN relinked(t.nodes[x]) ELSE @]
  IN [t EXCEPT !.nodes = [x \in DOMAIN @ |-> moved(other(x))]]
swapNodeFileLine(t, a, b) ==
  LET other(x) == IF x = a THEN b ELSE IF x = b THEN a ELSE x
      childOf(x, y) == ~t.nodes[y].leaf /\ x \in Ids(t.nodes[y])
      relinked(n) == [i \in DOMAIN n.entries |->
                        IF n.leaf THEN n.entries[i]
                        ELSE Entry(other(n.entries[i].id), n.entries[i].sig)]
      moved(x) == [t.nodes[x] EXCEPT
        !.father = IF \E y \in {a, b} : childOf(x, y)
                   THEN other(CHOOSE y \in {a, b} : childOf(x, y)) ELSE @,
        !.entries = IF \E y \in {a, b} : t.nodes[y].father = x
                    THEN relinked(t.nodes[x]) ELSE @]
  IN [t EXCEPT !.nodes = [x \in DOMAIN @ |-> moved(other(x))]]

createNode(t, n) ==
  [t EXCEPT !.nodes = [x \in 0 .. Cardinality(DOMAIN @) |->
                         IF x \in DOMAIN @ THEN @[x] ELSE n]]

\* Where the MAX_CHILD_NUM entries of a full node go: the entry with most bits
\* is the seed; the MIN_CHILD_NUM + 1 entries nearest to it stay.
Nearness(entries) ==
  LET seed == FirstLeast(DOMAIN entries, LAMBDA i : 0 - Cardinality(entries[i].sig))
      d(i) == xEpsilen(entries[seed].sig, entries[i].sig)
      before(i, j) == d(i) < d(j) \/ (d(i) = d(j) /\ i < j)
  IN SortSeq([i \in DOMAIN entries |-> i], before)
Staying(entries) ==
  LET order == Nearness(entries)
      near == {order[i] : i \in 1 .. MIN_CHILD_NUM + 1}
  IN [i \in 1 .. MIN_CHILD_NUM + 1 |->
        entries[CHOOSE k \in near : Cardinality({m \in near : m < k}) = i - 1]]
Leaving(entries) ==
  LET order == Nearness(entries)
  IN [i \in 1 .. Len(entries) - MIN_CHILD_NUM - 1 |-> entries[order[i + MIN_CHILD_NUM + 1]]]

\* The full node x takes entry and gives half of its entries to a new node; the
\* father takes that one, or is split in turn; above the root comes a new root,
\* which changes lines with the old one.
RECURSIVE split(_, _, _)
split(t, x, entry) ==
  LET n == t.nodes[x]
      all == Append(n.entries, entry)
      old == x
      new == Cardinality(DOMAIN t.nodes)
      newNode == refreshSignature([Empty EXCEPT !.leaf = n.leaf, !.entries = Leaving(all)])
      t1 == createNode([t EXCEPT !.nodes[old] =
                          refreshSignature([@ EXCEPT !.entries = Staying(all)])], newNode)
      adopted == IF n.leaf THEN t1
                 ELSE [t1 EXCEPT !.nodes = [y \in DOMAIN @ |->
                         IF y \in Ids(newNode) THEN [@[y] EXCEPT !.father = new]
                         ELSE IF y = entry.id THEN [@[y] EXCEPT !.father = old] ELSE @[y]]]
      \* the root was split
      top == new + 1
      crowned == LET r == createNode(adopted, [Empty EXCEPT !.leaf = FALSE])
                     full == addChildNode(addChildNode(r, top, old), top, new)
                 IN [full EXCEPT !.nodes[top] = refreshSignature(@), !.height = @ + 1]
      \* another node was split
      f == n.father
      told == [adopted EXCEPT !.nodes[f].entries[Rank(adopted.nodes[f], old)].sig =
                 adopted.nodes[old].sig]
      t2 == IF isRoot(n) THEN swapNodeFileLine(crowned, top, old)
            ELSE IF isFull(t.nodes[f])
            THEN split(RefreshAncestors(told, f), f, Entry(new, newNode.sig))
            ELSE RefreshAncestors(addChildNode(told, f, new), f)
  IN updateEntityID2FileLineMap(
       updateEntityID2FileLineMap(t2, IF isRoot(n) THEN top ELSE old), new)

Inserted(t, e, sig) ==
  LET x == chooseNode(t, ROOT, sig)
      t1 == [t EXCEPT !.nodes[x].entries = Append(@, Entry(e, sig))]
      t2 == RefreshAncestors(t1, x)
  IN IF isFull(t.nodes[x]) THEN split(t, x, Entry(e, sig))
     ELSE [t2 EXCEPT !.line = [y \in DOMAIN @ \cup {e} |-> IF y = e THEN x ELSE @[y]]]
-----------------------------------------------------------------------------
(* The Database's calls                                                    *)

Init ==
  /\ nodes = [x \in {ROOT} |-> Empty]
  /\ line = <<>> /\ height = 1 /\ stored = <<>> /\ changes = 0

Become(t) == nodes' = t.nodes /\ line' = t.line /\ height' = t.height

\* For an entity that is not in the tree; a new one gets the next number.
insertEntry ==
  \E e \in Entities \ DOMAIN stored, sig \in Signatures :
    /\ \A x \in Entities \ DOMAIN stored : e <= x
    /\ Become(Inserted(tree, e, sig))
    /\ stored' = [y \in DOMAIN stored \cup {e} |-> IF y = e THEN sig ELSE stored[y]]
    /\ UNCHANGED changes

\* updateEntry and replaceEntry write e's entry in the leaf line names.
Rewritten(t, e, sig) ==
  LET x == t.line[e]
  IN RefreshAncestors(
       [t EXCEPT !.nodes[x].entries[Rank(t.nodes[x], e)].sig = sig], x)

Change == changes < MAX_CHANGES /\ changes' = changes + 1

updateEntry ==
  \E e \in DOMAIN stored, sig \in Signatures :
    /\ ~(sig \subseteq stored[e]) /\ Change
    /\ Become(Rewritten(tree, e, stored[e] \cup sig))
    /\ stored' = [stored EXCEPT ![e] = @ \cup sig]
replaceEntry ==
  \E e \in DOMAIN stored, sig \in Signatures :
    /\ sig # stored[e] /\ Change
    /\ Become(Rewritten(tree, e, sig))
    /\ stored' = [stored EXCEPT ![e] = sig]

\* A leaf may get empty, and stays.
removeEntry ==
  \E e \in DOMAIN stored :
    /\ Change
    /\ LET x == line[e]
           t == [tree EXCEPT !.nodes[x].entries = RemoveAt(@, Rank(nodes[x], e))]
       IN Become(RefreshAncestors(t, x))
    /\ stored' = [y \in DOMAIN stored \ {e} |-> stored[y]]

Next == insertEntry \/ updateEntry \/ replaceEntry \/ removeEntry

Spec == Init /\ [][Next]_vars

\* The entities below x whose entries cover the filter.
RECURSIVE Below(_, _)
Below(x, filter) ==
  LET n == nodes[x]
      hits == {n.entries[i].id : i \in {k \in DOMAIN n.entries : filter \subseteq n.entries[k].sig}}
  IN IF n.leaf THEN hits ELSE UNION {Below(c, filter) : c \in hits}
retrieveEntity(filter) ==
  IF filter \subseteq nodes[ROOT].sig THEN Below(ROOT, filter) ELSE {}
-----------------------------------------------------------------------------
(* Properties                                                              *)

RECURSIVE Depth(_)
Depth(x) == IF isRoot(nodes[x]) THEN 1 ELSE 1 + Depth(nodes[x].father)

\* No entity is pruned that a filter asks for, and none is given that does not
\* cover it, whatever was inserted, changed, removed and split before: an entry
\* that is not refreshed on the way up would hide what is below it.
NothingPruned ==
  \A filter \in SUBSET Bits :
    retrieveEntity(filter) = {e \in DOMAIN stored : filter \subseteq stored[e]}

\* The lines that nodes know their fathers and children by fit together, over
\* splits that go up to the root and swap its line: the root stays at its line,
\* every other node is the child of the one node it takes for its father, no
\* node is full beyond its room, and all leaves are equally deep; the line kept
\* for an entity is that of the one leaf which holds it, so that an update finds
\* the entry it is for.
LinesFit ==
  /\ isRoot(nodes[ROOT])
  /\ \A x \in DOMAIN nodes :
       /\ Len(nodes[x].entries) <= MAX_CHILD_NUM - 1
       /\ ~nodes[x].leaf => \A c \in Ids(nodes[x]) : nodes[c].father = x
       /\ x # ROOT => /\ ~isRoot(nodes[x]) /\ ~nodes[nodes[x].father].leaf
                      /\ x \in Ids(nodes[nodes[x].father])
  /\ \A x \in DOMAIN nodes : nodes[x].leaf => Depth(x) = height
  /\ \A e \in DOMAIN stored, x \in DOMAIN nodes :
       nodes[x].leaf => (e \in Ids(nodes[x]) <=> e \in DOMAIN line /\ line[e] = x)
=============================================================================

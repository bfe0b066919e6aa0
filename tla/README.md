# A TLA+ development of T-RDF

T-RDF answers SPARQL basic graph patterns over RDF data in parallel. It is two
programs in one tree: a storage and query engine derived from gStore
(`Database`, `KVstore`, `VSTree`, `Query`, `Parser`, `Server`), and a
task-based online engine (`system`) with one application, the subgraph search
of `app_rdf/app_rdf.h`, which uses the store of the first. This development
models the online engine and the search, the messages that lead into them, the
store below them and how it is built, and, of the older engine, the answering of
queries.

## 1. Inventory

| Part | State | Operations | With whom |
|---|---|---|---|
| Clients, `client/` | queries left to send, answers to come | send a query, send `server_exit`, receive notifications | two System V message queues |
| Worker, `system/workerOL.h` | `nxt_qid`, `server_exit`, `global_end_label` | `update_tasks`, wake the compers, detect the end | message queue, `query_que`, `cv_go` |
| Compers, `system/comperOL.h` | current task, query and container | scan, fetch, refill, spill, spawn, compute, split, `backtrack`, sleep | `activeQ_list` under `activeQ_lock`, a `Qreg_mtx` per query, `global_prog_map`, `cv_go` |
| Progress table, `system/TaskProgMap.h` | a `task_prog` per task | insert, get, erase; count of children | compers, a lock per object and per bucket |
| Concurrent queue, `system/conque.h` | linked list, two locks | enqueue (one, many), dequeue, empty | worker and compers; spilled files |
| Planner, `task_spawn` | `RDFQuery`: `constBN`, `preConst`, `matching_order`, `bn_idx`, `edge_node_anchor` | filter, estimate, order, candidates of the start | `BasicQuery`, `KVstore` |
| Search, `dfs_iterative_style_HW` | per comper: `can_lists`, `idx`, `idx_count`, `visited_arr` | descend, match, split, backtrack | `KVstore` lists, set intersection, `add_task` |
| Key-value store, `KVstore/` | hash maps of ID lists | build, insert, remove, load, flush | `Database` |
| Set intersection, `intersection/` | none | intersect two sorted lists | planner, search, `Database` |
| Streams, `system/ioser.h`, `KVstore/ioser.h` | a buffer, a file | put, get | spilled tasks, tables of the store |
| Database, `Database/` | dictionaries, statistics, VS-tree | build, load, insert, query (join, plan, merge, filter) | all of the store |
| VS-tree, `VSTree/`, `Signature/` | tree of signatures, cache of nodes | build, retrieve, insert, split, remove | `Database` |
| SPARQL queries, `Query/` | groups, patterns, filters, results | encode, join, merge | parser, `Database` |
| Front ends, `Server/`, `main/`, `api/` | a socket, a `Database` | load, unload, import, query | `Database` |

What makes each correct, and what is hard:

* *Progress.* A query must be reported exactly once, when its last task is
  done; no progress object may be erased twice or used after it is. Parent and
  children end on different threads at once.
* *Scheduler.* No task lost or run twice through deques, files and batches; no
  container used after it is deleted; no sleep while there is work; the end
  only when all is done. `try_lock`, several locks and a condition variable
  meet, and three conditions are read one after another.
* *Queue.* A node is deleted outside the lock, a link becomes visible before
  the tail moves; operations must still look atomic and first in first out.
* *Planner and search.* Each match is found, as often as the store's lists repeat
  its IDs and no more, however often the search is split and whoever runs the
  parts; arrays outlive the task that filled them; predicate variables take depths
  of their own.
* *Messages.* Sends do not wait, queues are bounded, notifications are counted
  and not identified. Queues outlive a server that crashes, and a second server
  may be started at any time.
* *Store.* A build writes its files one by one, and a load may read them at any
  time; either may die. Six lists hold each triple in different orders, and
  must agree after a build and after each insertion.
* *Intersection, streams.* Blocks, jumps and buffers that end before, at or
  behind the end of the data; one missed element is a missed answer. A list may
  hold an element repeatedly, since a build keeps repeated triples.
* *Tree.* Splits move entries, lines and fathers; a signature that is not
  refreshed up to the root hides what is below it.
* *Older query path.* Literals are not in the tree and come in at three places;
  basic queries are numbered by one walk over a group and read by another.

`PROJECT.json` lists every hazard at its line, with the properties that cover
it or the reason none does yet.

## 2. Modules

```
QueryCompletion <-- TaskProg -- Scheduler           (<-- : is implemented by)
Fifo <-- ConQueue            Enumeration <-- Dfs   QueryPlan
                                             \      /    \
Messaging                                    MCMatching   \
                                                           \
TripleLists -- Store         Intersection  BinStream  VSTree  BasicJoin  GroupPlan
                                    \__________\________|________/_________/
                                                  MCSequential
```

* `QueryCompletion`: abstract. Queries are begun, tasks come and go, a query is
  over once, when none is left.
* `TaskProg`: the protocol of `add_task`, `backtrack` and `TaskProgMap`. One
  action per critical section: `Complete` is the section under `prog_lock`
  that sets `completed`, `Erase` the removal, `GetParent`, `DecParent` the look
  at the parent, `FinishQuery` the end of a root. `add_task` is the code's: whether
  a task gets a parent is up to the comper's flag `add_root_task_tag`, which is set
  and reset around `task_spawn` and `postprocess`. `pending` stands for every
  place a task can wait in. `born`, `settled` and `anc` are history.
* `Scheduler`: `run` and `get_and_process_tasks` of the compers and `run` of
  the worker, with `activeQ_list`, `query_que`, the deques, their spill files
  and the locks. `spc` and `wpc` are control points; the progress variables are
  those of `TaskProg`, instantiated as `P`, and each action that touches them
  conjoins the action of `TaskProg`: so its behaviours are behaviours of `TaskProg`
  by the way it is written, and no property says that they are. A section under the
  write lock is one action that waits for `Readers = {}`; the read lock and `Qreg_mtx`
  span actions.
* `ConQueue` and `Fifo`: the linked list with addresses that are freed and
  reused, and the queue it implements.
* `QueryPlan`: pure operators. The data are a sequence of triples of IDs, which may
  be repeated, and the neighbours of an ID a sorted list with as many repeats; a query
  is a sequence of triples of variables, constants and predicate variables.
  `Plan` is what `task_spawn` leaves in `RDFQuery`, `Candidates` what the
  search lists at a depth, `Matches` the reference: the assignments of
  *distinct* IDs (`visited_arr` makes the search injective) that map every
  triple of the query into the data. `Supported` says for which queries
  `task_spawn` prepares a plan without undefined behaviour and is written from
  the code; section 6 lists what it excludes.
* `Enumeration`: abstract. An answer grows by one result at a time, a new way to
  find a match, and is reported complete.
* `Dfs`: the search. Compers take partial matches of any query, extend, split
  and leave them. The plan and the data are operator parameters; the loop, its
  arrays and what they keep between tasks are the module's. The search visits every
  entry of a list, so that an ID which a list holds twice is found twice: `Ways` are
  the ways to find a match, told apart by the places of their IDs in the lists (the
  code keeps the IDs only), and `Answers` the matches as IDs. Which task a comper
  takes is free, which is more than the deques allow.
* `Messaging`: the queries' and the notifications' queue as System V objects
  that one server makes (`key` says which), with the steps of the worker's
  constructor, its receive loop and its destructor, a crash between any two, the
  script that frees a dead server's queues, and both clients' loops. A client
  holds the identifiers it got when it attached: a queue that was removed since
  is gone for it, even if the key has a new one. What `Scheduler` makes of a
  query is here one step that ends in a notification.
* `TripleLists`: pure operators. `encodeRDF_new` as a function from a sequence
  of triples of names to the tables and lists, and `insert_x` and `insert_xy`
  for the lists of an insertion.
* `Store`: `gload`, and a process that loads, as scripts of openings and closings
  of files which interleave; `disk` says for each file which build wrote it.
  `Database::load`, `insertTriple` and the planner's statistics are actions on
  what was read.
* `Intersection`: the AVX2 kernels of `ComputeCandidates`, a round of a loop per
  step, with the number of lanes, the block's rows and the thresholds as
  constants.
* `BinStream`: the file streams, a put, a flush or a fill of the buffer per step.
* `VSTree`: the tree, a call of the `Database` per step. Its recursion over
  fathers and children is in `RECURSIVE` operators.
* `BasicJoin`: `Database::join` for one pattern: filtering, the literals, the
  order of the search (a round of the loop over `var_stack` per step), the search
  (a depth per step, all branches at once) and the last filter. It shares queries
  and their edges with `QueryPlan`, as the two query paths share `BasicQuery`.
* `GroupPlan`: `genQueryVec`, `genEvaPlan` and the stack machine of
  `doEvaPlan` with its merges; `Solutions` is SPARQL's definition of what a
  group means, on which the code does not depend.
* `Sequential`: `Intersection`, `BinStream` and `BasicJoin` side by side, as one
  thread calls them, for the proofs and for `MCSequential`.
* `MCTaskProg`, `MCScheduler`, `MCConQueue`, `MCMessaging`, `MCStore`:
  instances for TLC. `MCMatching` joins `QueryPlan` and `Dfs`. `MCSequential`
  puts the parts that run within a thread side by side, one per behaviour.
* `TaskProgProof`, `ConQueueProof`, `SchedulerProof`, `MessagingProof`, `DfsProof`,
  `StoreProof`, `SequentialProof`: the proofs about the module each is named after.
  `ProofLemmas`: facts about numbers, sequences and partitions that
  several of them use.

Names like `Split_LeavesMark`, above the definition they vary, are faulty
variants, kept to show that the properties notice them. No specification uses
them.

## 3. What is checked

| Run | Instance | Shows |
|---|---|---|
| `task_prog` | 3 compers, 2 queries, 5 tasks | exact counts, single erasure, no early end, nothing left over; implements `QueryCompletion` |
| `scheduler` | 2 compers, 2 queries, 3 tasks, exit | containers alive, tasks in one place, safe end; a query's container is deleted only with nothing of the query left |
| `scheduler_spill` | a deque of 2, files of 1, 4 tasks | nothing lost through spills and refills, nobody sleeps on tasks, the answer comes |
| `scheduler_one_comper` | 1 comper, 1 place in `activeQ_list`, 2 queries, exit | termination |
| `slot_leak` | 2 compers, 1 query, exit | **violated**: the server may never terminate |
| `no_result` | a query without candidates | **violated**: it is never reported |
| `con_queue` | 2 enqueuers, 2 dequeuers, 5 addresses | memory safety, well-formed list, no leak; implements `Fifo` |
| `matching` | 2 compers, queries of 3 and 2 variables, both split; or 1 comper and 6 shapes of query | exact marks, each way to find a match at one place; implements `Enumeration`; the search of every shape ends |
| `split_edge` | 1 comper, a query with `<PU1>`, split | **violated**: matches are missing |
| `messaging` | 2 runs of the server, a batch client, a terminal, 5 scenarios | queues belong to one server; a lone client returns when, and only when, it is answered; `server_exit` ends the server |
| `store` | builds of 3 or 4 triples, or one over another; 2 starts; 2 insertions | what is loaded is one finished build; lists and statistics agree with the data |
| `sequential` | one part at a time | no common element lost; what was put is read; nothing pruned; gquery's answers are the matches, and what SPARQL says of the group |

They reach 382 thousand distinct states (`scheduler`), 467 (`scheduler_spill`),
524 (`matching`), 407 (`sequential`), 76 (`task_prog`), 72 (`store`), 68
(`messaging`), 7 (`scheduler_one_comper`) and 5 (`con_queue`).

The three violated runs are disagreements of the code with its own words, listed
under `findings`:

1. `activeQ_num` is incremented before a dequeue that can fail
   (`comperOL.h` 601-604). With two compers and one query, one place is lost
   for ever and `server_exit` no longer ends the server.
   `scheduler_one_comper` shows that the end works when no comper competes.
2. `task_spawn` returns true without a task for a query with no candidate
   (`app_rdf.h` 325, 376), so that the query stays in `activeQ_list` and its
   client waits for ever.
3. A task that begins at a predicate variable's depth sets `idx[0]`
   (`app_rdf.h` 1291-1292). If a split creates it, its candidates are skipped.

### Bounds and why they are enough

Capacities are 1 or 2 where the code has 16 and 51200, so that every queue
is full at some time. Two tasks per query are the least for a parent and a
child that end together, three for a grandparent, four to overflow a deque of
two and refill it. Two compers race for every lock; three are used where a
third could step between two. `con_queue` has more values than addresses are
free at once, so that addresses are reused.

`messaging`: a queue of one message is full after the first, a queue of two
holds what one client sends; the scenarios are a batch client whose queries do
not fit, one whose answers do not fit, and one that shares the queues with a
terminal that sends a query or stops the server. Two runs of the server are the
least for a start beside a running one and for a start after a crash.

`store`: three triples over two subjects, two predicates, an entity and a
literal, every one of them possible twice; four for predicates that meet in more
than one vertex; insertions bring a known triple, new names of each kind, and
values that go before, between and behind those of a list. Twelve maps, six
other files and two builds interleave with two loads at every file. A gload over
an existing store, and a load that meets `info` open, can give a mixture; this
is visible in the model (`exposed`) and the code does nothing against it, so
`LoadIsTheBuild` is about the other behaviours: the first build of a store, with
a crash of either side anywhere.

`sequential`: the vectors of the intersection have 4 lanes instead of 8, its blocks
are 2 by 2 instead of 2 by 4, the binary search scans below 5 instead of 16, and
lengths gallop from a ratio of 4 instead of 50. The lists are all those over six
values, and over three values with each up to twice, which merge and compare
blocks; lists of nine to eleven elements against shorter ones, which compare one
to many; and lists of up to 39 elements against up to eight, which gallop: the jump
doubles up to three times, and a search among up to 16 elements halves to either
side, meets the value, and scans twice. Repeats are in all of these, and behind a
list's end is a value below or above all others.
With a buffer of 8 bytes, words of 2, and strings and vectors of 0, 1, 5, 8 and
19 bytes, items end before, at and behind the end of one, two and three buffers.
A tree of nodes with room for two children and five entities splits up to a
height of four, so that splits go through inner nodes, and three times through the
root. Patterns of up to three triples are joined over a graph of nine triples,
with *every* larger set of candidates. 6,576 groups have unions, optionals and
filters at two levels.

The data of `MCMatching` have
cycles, two predicates between the same vertices, a shared object and two repeated
triples, by which some matches are found in two ways and more (an `ASSUME`); its
queries cover a star, a cycle, constants on one and two edges, a predicate
variable with a constant, between variables and on two edges, and a query
without candidates. A query that is `Slow` may exceed `TIME_THRESHOLD` at any
step of any task; in the passing runs those are queries without a predicate
variable behind depth 0 (finding 3 is about the others). Symmetry is over
threads and, where they are alike, queries, tasks or addresses; no run with
liveness uses it.

### Fairness

`Scheduler`: weak fairness of the worker, whose loop sleeps 10 ms and goes on;
strong fairness of each comper, because a lock that others release again and
again is eventually had. For `activeQ_lock` that is an assumption on the C
library: `pthread_rwlock` prefers readers unless told otherwise, and holds for
microseconds make starvation unlikely rather than impossible. Clients need not
send. `Dfs`: weak fairness of compers, spawning and reporting, which
`Scheduler` justifies; time need never pass `TIME_THRESHOLD`. In `matching` only the
behaviours with every shape of query are fair: one comper, the only one there. `Messaging`: each
process that runs goes on, with a separate condition for the worker's loop, its
destructor and the answers of its queries, since compers answer while the worker
is anywhere; nobody has to start or crash. `Intersection`: a thread that runs
goes on.

`CHECK_DEADLOCK FALSE` appears where an instance runs out of tasks or queries
(`TaskProg`, `Dfs`), where the program would wait for more, and where a part
comes to its end (`Messaging`, `Store`, `MCSequential`).

## 4. What is proved

Every theorem is about all values of the constants: any number of compers,
queries, tasks, addresses, clients and files, any capacities. What is assumed of
them is in the named assumptions of the modules, which TLC evaluates on every
run, and in the two hypotheses that the table names.

| Module | Proved of the specification | Implements |
|---|---|---|
| `TaskProg` | `TypeOK`, `CounterExact`, `NoEarlyFinish`, `NoDanglingProg`, `EraseOnce`, `NothingLeft` | `QueryCompletion` |
| `ConQueue` | `NoUseAfterFree`, `ListWellFormed`, `NoLeak` | `Fifo` |
| `Scheduler` | `CapacitiesRespected`, `ContainerAlive`, `NoTaskLostOrDuplicated`, `NothingLeftBehind`; if `NoResult = {}`, `AllIdleMeansNoTask` and `EndOnlyWhenDone` | |
| `Messaging` | `ServesItsOwnQueues`, `ReturnedMeansDone` | |
| `Dfs` | `VisitedIsThePath`; if `NoSplitPU`, `EachWayAtOnePlace` and `ReportedIsComplete` | `Enumeration`, if `NoSplitPU` |
| `Store`, `TripleLists` | `LoadIsTheBuild`, `IndexesAgree`, `StatisticsMatch` | |
| `Intersection` | `TypeOK`, `NothingLost` | |
| `BinStream` | `WrittenInOrder`, `ReadBack` | |
| `BasicJoin` | `AnswersAreTheMatches` | |

The refinements are proved step by step: an initial state maps to one, a step to a
step or a stutter. Fairness plays no part in them, for the abstract
specifications state none.

### The hypotheses

* `NoResult = {}`: every query gets a task. A query without a candidate stays in
  `activeQ_list` for good (finding 2), and by this the last query of the list,
  the one nobody skips, is not one with tasks: the argument below fails.
* `NoSplitPU`: a query whose search may exceed `TIME_THRESHOLD` has no predicate
  variable behind the first depth. Of the others matches are lost (finding 3, and
  `split_edge` shows `ReportedIsComplete` violated). `VisitedIsThePath` needs no
  such condition.
* `PlanAssumption` of `Dfs` says what the search takes from a plan: a list of
  candidates at each prefix, that a query's matches are the IDs of the paths through
  these lists whose vertices have distinct IDs, and that a list fits into an array of
  `can_lists`. IDs may be repeated in a list, as they are in a store's lists when the
  data repeat a triple; the arrays have as many elements as the data have entities and
  literals, and the code does not check that a list with repeats fits (a hazard).
  TLC evaluates the assumption for each shape
  of query in `MCMatching`, where the plan is `QueryPlan`'s and the matches are
  the reference definition's: it is there that planning is checked, on instances.
  A fault of `QueryPlan` that loses a match, or adds one, makes it false.
* `Scheduler` assumes that there are finitely many compers, `Dfs` finitely many
  queries, `ConQueue` finitely many addresses, `Store` that its two marks for a
  file that is missing or open are not numbers of builds.
* `StoreAssumption` bounds the data: twice the number of triples is at most
  `LITERAL_FIRST_ID`, so that entities get IDs below those of literals. The code has
  1,000,000,000 there and checks nothing; beyond it `IndexesAgree` may fail. And a
  build has a triple, since `p2s_p2o` reads the statistics of the last predicate
  even if there is none.
* `IntersectionAssumption`: lists are sorted, with or without repeated elements, which
  for the lists of a store is what `IndexesAgree` and `StatisticsMatch` give (and
  `insert_x` keeps). That a result repeats no element is only claimed where neither
  list does, as the lists of predicates. What lies behind a list's end may be any
  number. Blocks of vectors divide evenly, and a linear search takes a vector at least,
  as the constants of the code do.
* `JoinAssumption` (`Numbered` of `BasicJoin`): subjects are entities, as the six
  lists of a store have them (`DataInv`); the predicates of a pattern are constants
  that the data knows, since the join looks lists up by predicate; each triple has a
  variable and not one at both ends; and variable 0 is in the first triple, as
  `genQueryVec` names variables when it comes to them. That the pattern's variables form
  a tree is not assumed: of other patterns the order does not fit its array, and the
  model stops in `"undefined"` (`FitsItsArray`).
* `StreamAssumption`: the buffer holds two scalars of the largest size at least;
  the code's has 64 KB. A short write ends the program (`"aborted"`), in the model
  as in the code.

### The arguments

* *Progress.* `IInv` adds to `CounterExact` where each live task is
  (`Membership`), how `parent_tid`, `query_id` and the ancestors relate
  (`Family`, `Ancestors`), what a comper that computes, spawns or backtracks knows
  of its object (`Computing`, `Spawning`, `Backtracking`) and that a query has one
  root (`Roots`). The step from it to `NoEarlyFinish` is that an erased object has no
  unsettled child, hence no unsettled descendant (`NoDescendants`,
  `OnlyRootLeft`). For `NothingLeft` the youngest object of a table that is not
  empty would have to be accounted for by a task.
* *Queue.* There is always a list of distinct nodes from `head` to `NULL` that the
  pointers lead along; every other allocated node belongs to one thread. Linking,
  moving `head` and deleting change this list at one end each, which gives memory
  safety and, read as the sequence of values, the refinement.
* *Scheduler.* Every step is one of `TaskProg` or leaves its variables alone, by the
  way the actions are written, so the invariant proved there holds. What is added:
  what a comper holds at each control point (`Control`), that the list has the active queries once each
  (`Listed`), that places are reserved (`Slots`), and that the boxes a task can be
  in are a partition of the tasks that wait (`Parts`, `Owned`). For the end,
  `SchedulerProof` shows that the last query of the list is always watched: while a
  task of it waits, some comper has yet to come past it, because a scan skips every
  locked query but the last. So all compers sleep only over an empty list.
* *Messages.* Only the owner of a key gives it back while it runs, and `IPC_EXCL`
  refuses a taken one. A query is at one place from being sent to being answered, so
  there are never more notifications than answers, and a lone client cannot count
  more.
* *Search.* Marks are the values of the path, each by one vertex (`Marks`), so that
  unmarking the last never unmarks another; what a comper reads of its arrays it has
  set itself (`Lists`). For the matches, `JInv` says that each way to find a match of
  a running query is found, below one waiting task, or ahead of one comper (`Places`),
  and that a comper's lists are what its path makes them (`Searches`). Each step moves
  a way between such places. A way that is found counts once in a bag, so the bag that
  is reported is the set of the ways, and their IDs are the answers.
* *Store.* `StoreProof` first establishes the two orders of files from the scripts:
  a load reads `info` first; a build closes each file after it opened it, and
  opens and closes `info` last. What the running build has behind it is of that
  build (`Put`); hence a whole `info` means that all files are of its build and
  nothing writes (`Fresh`), for as long as no build starts over it.
* *Data of the store.* `DataInv` says that a process that serves or inserts works on
  a `StoreOf` some set of triples of IDs: each of the six indexes tells exactly
  these (`NumberIndex`, `PairIndex`), and the tables spell them as the data (`Holds`).
  It does not follow from `IndexesAgree`: an insertion needs the tables injective and
  the lists typed to keep it. For the build: ranks among finitely many places
  are a permutation (`RankSorts`), equal keys of sorted triples are neighbours
  (`SortedGathers`), and a run of equal keys is stored whole under its key
  (`RunsAre`); a name gets one ID, and keeps it while the tables grow
  (`InternKeeps`, `DictionariesAre`).
* *Statistics.* `Served` adds that a server's `p2s`, `p2o`, `preStatDict` and
  `IntersectDict` are made of the lists of its predicates (`StatisticsOf`). A list
  drops what repeats its neighbour, and that is all that repeats (`PreListIs`); it is
  found where the lengths before it end (`JoinedHas`). Each number `approximate_cands`
  takes the least of is the length of a list or what two lists share, whichever of
  the dictionary's halves it is read from (`EstimatesBound`).
* *Intersection.* `KernelsInv`: `NothingLost` itself, which says that each common
  value is written or has a place ahead of both cursors, and what each
  control point knows of its cursors (`Ready`). The binary search, the galloping one
  and the walk over vectors each end at the first position that is not below the
  value, or at one that holds it (`IsFound`), also where they read behind the end; a
  block is left only by a side whose last value is no larger. With repeated elements a
  block may write an element that it wrote before: then order is all that is claimed.
* *Streams.* `StreamInv`: file and buffer together are the bytes of the items, in
  order and each once (`Placed`), and what a reader has got, the buffer from `bufpos`
  on and the file from `offset` on are consecutive (`Reading`).
* *Join.* `JoinInv` has three parts besides the types. `CandidatesInv`: after the
  filter a candidate has its edges to constants, and whatever has all the edges of
  a variable is among its candidates or a literal that the search may come by,
  unless the variable starves. `OrderInv`: the start may not be a free
  literal, whose values are nobody's candidates, and each later variable is next to
  one before, so that its values come from a list. `SearchInv`: at each depth the
  results are `Found(depth)`, the assignments that are local candidates at each depth
  so far. That these are the matches at the last depth is the step that needs the
  order: an edge between two variables is checked by the later of its ends, and an
  order that fits its array has each variable once, for as many values as places
  make a surjection an injection. The last filter then removes nothing.

Each invariant was checked by TLC on the module's run before it was proved.

### What stays with TLC

* Liveness (`EveryQueryAnswered`, `ServerTerminates`, `EveryShapeReported`,
  `AloneReturns`, `ExitStops`, `NobodyWaitsForTheDead`, `Ends`): the prover does not
  treat fairness or `ENABLED`.
* That `QueryPlan` makes plans of the kind `PlanAssumption` asks for: the order of
  a pattern is a recursive function of its edges.
* `LinesFit` and `NothingPruned`: insertion into the tree and its splits are
  `RECURSIVE` operators, which the prover does not take.
* `AnswersTheGroup`: `GroupPlan` walks groups within groups by `RECURSIVE`
  operators, and its tables are built with `SelectSeq` and folds, whose definitions
  are not visible to the prover.

The library's rules of induction take a formula as a parameter, which none of the
provers can instantiate. Where a proof needs induction (the searches and rows of
`Intersection`, the dictionaries and joined lists of a build), it takes the least
counterexample of a set of naturals (`LeastNatural`), and for a recursive function
shows first that some function satisfies its equation.

## 5. Faithfulness

The grain is the critical section. `t_counter` and the progress flags are
C++ atomics or under a lock; `conque`'s relaxed accesses are modelled as
sequentially consistent, which x86 gives them. Task IDs are never reused: the
32-bit counter of a comper is taken not to wrap. Files of tasks
are read back as they were written, which `BinStream` checks of the streams. `idx` and `idx_count` are uninitialised in the code and 0 in
`Dfs`: only a task at a predicate variable's depth reads them before writing,
and 0 is one of the values it can find.

What lies behind a list's end, which vector loads of `Intersection` read, is
chosen once: an ID that occurs in lists, or one that does not. Which entities the
tree offers `BasicJoin` beside the right ones is open, as two names may have the
same signature. `GroupPlan` takes the answers to basic queries from a table, since
`BasicJoin` treats them. In the model of the tree the node buffer holds all nodes,
as the code's buffer of at least 302,000 does.

Two parts are modelled although a program cannot reach them at this commit: no
program builds or loads a tree (`Database.cpp` 80-86, 552), so that
`Database::join` finds no candidates in it, and the call of `doEvaPlan` in
`app_rdf.h` (1839-1844) is commented out. Their code is complete and is what
`gquery` is for; the properties are about that code.

## 6. Not modelled

* Big tasks, `task_spawn` or `toQuery` that fail, `postprocess` that asks for
  more: the RDF application never takes these ways.
* Queries outside `Supported`: not connected (uninitialised `next_vertex`), a
  predicate both entering and leaving a variable (an assertion fails), a
  predicate variable with two constant edges (a write past `preConst`), two
  predicate variables between two variables, a predicate variable between two
  variables with constants (it is not recorded), a start vertex with no list or
  whose intersection becomes empty before the last list.
* Variables that occur once and are not selected, which `BasicQuery` drops.
* Of `join`: patterns with a cycle or parallel edges (the search order runs over
  its array) and patterns that are not connected (it is not filled); `BasicJoin`
  goes to `"undefined"` there. An edge from a variable to itself is never checked.
  A literal variable between a constant and a variable may get too few candidates:
  the answers are right but not complete (`Starved`).
* Of `doEvaPlan`: a join of tables without a common variable gives nothing where
  SPARQL gives their product; an unbound value is compared as the number -1; a
  filter on a variable that is not there reads the first column. `AnswersTheGroup`
  is about plans that do not meet these (`exact`). A group without variables and
  unions of its own, but with an optional, takes tables from an empty stack
  (`Grounded`).
* Removal of triples, which no program calls, and insertion into a store that was
  opened for queries, which no program makes: it would free storage of the map.
* How often a block of the intersection leaves a repeated ID, in `QueryPlan`: there
  lists are merged, as those of the instance are. `Intersection` has the blocks, and
  the theorems about `Dfs` hold for any lists.
* `encodeRDF`, `buildTable`, `join_basic` and `LRUCache`'s eviction: not called,
  or never reached. The in-memory streams and `ResultMap`: not used.
* The socket server (`Server/`). Its loop takes one command at a time. At this
  commit a query or an insertion reads the tree that nothing loads, an import or
  an insertion over a loaded database deletes its tree twice, and deleting a
  second one closes `db.log` twice: no longer session has defined behaviour. Its client and the
  connectors only send text.
* Parsing, signatures' hash functions, text of results, timing and logging.
* The generated SPARQL grammar, which is two thirds of the repository's lines:
  no state of the system is in it.

## 7. Done and left

Done: progress, scheduler, queue, planning, search, messages, store,
intersection, streams, tree, joins and plans as models; as theorems the safety of
all that runs concurrently, the data and the statistics of the store, the
intersection kernels, the streams and the join of a pattern. Left, for whoever goes on:

1. `QueryPlan`: `PlanAssumption` for any query that is `Supported`, by the least
   counterexample over the order of its edges.
2. `VSTree`: its descent as a function over the height of the tree, so that
   `NothingPruned` comes within the prover's reach.

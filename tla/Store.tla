------------------------------- MODULE Store -------------------------------
(***************************************************************************)
(* The store on disk and the processes that share it without a lock: gload *)
(* (main/gload.cpp, Database::build) writes it file by file; a server      *)
(* (RDFWorker::load_data) or gserver's insertion (Database::insert) loads  *)
(* it with Database::load.  Each may die at any point; gload may be run    *)
(* again over what it left.                                                *)
(*                                                                         *)
(* A file is Missing, Partial (opened and not closed) or the one that the  *)
(* build with that number wrote; module TripleLists says what is in it.    *)
(***************************************************************************)
EXTENDS TripleLists

CONSTANTS
  Missing, Partial,
  Inputs,       \* the RDF data of each successive run of gload
  Inserts,      \* triples an insertion may meet
  MaxInserts,   \* bound on the triples of one insertion
  MaxStarts     \* bound on the starts of a server

\* A build has a triple at least: p2s_p2o takes the last predicate's statistics.  The
\* entities, two of a triple at most, have IDs below the literals': nothing checks
\* that they do.
ASSUME StoreAssumption ==
  /\ Missing # Partial /\ {Missing, Partial} \cap Nat = {}
  /\ \A runs \in Inputs : /\ runs \in Seq(Seq(Statements))
                         /\ \A i \in DOMAIN runs : runs[i] # <<>> /\ 2 * Len(runs[i]) <= LITERAL_FIRST_ID
  /\ Inserts \subseteq Statements
  /\ MaxInserts \in Nat /\ MaxStarts \in Nat

\* The order of KVstore::flush and of KVstore::open_query_mode.
MapFiles == <<"entity2id", "id2entity", "literal2id", "id2literal", "predicate2id",
              "id2predicate", "o2s", "s2o", "op2s", "sp2o", "s2po", "o2ps">>
FlushedFiles == <<"entity2id", "id2entity", "literal2id", "id2literal", "predicate2id",
                  "id2predicate", "o2s", "s2o", "op2s", "sp2o", "s2po", "o2ps">>

Write(f) == <<<<"open", f>>, <<"close", f>>>>
\* KVstore::flush: file by file.
Flush == [i \in 1 .. 2 * Len(FlushedFiles) |->
            <<IF i % 2 = 1 THEN "open" ELSE "close", FlushedFiles[(i + 1) \div 2]>>]
BuildScript_InfoFirst ==
  Write("signature") \o Write("info") \o Flush
  \o <<<<"open", "p2s">>, <<"open", "p2o">>>> \o Write("preStatDict")
  \o <<<<"close", "p2s">>, <<"close", "p2o">>>> \o Write("IntersectDict")
\* encodeRDF_new: every map is flushed once, at the end of o2s_op2s_o2ps.
BuildScript ==
  Write("signature") \o Flush
  \o <<<<"open", "p2s">>, <<"open", "p2o">>>> \o Write("preStatDict")
  \o <<<<"close", "p2s">>, <<"close", "p2o">>>> \o Write("IntersectDict")
  \o Write("info")

LoadScript == <<"info">> \o MapFiles \o <<"signature", "preStatDict", "p2s", "p2o",
                                          "IntersectDict">>
Files == Range(LoadScript)

VARIABLES
  inputs,    \* chosen at the start
  disk,      \* what each file holds
  builds,    \* runs of gload so far
  gload,     \* the next step of the running gload: 0 if none runs
  starts,    \* starts of a server or of an insertion
  phase,     \* of that process
  at,        \* the number of files it has read
  build,     \* the build of the first one, the info file
  mixed,     \* whether a later one was not of that build
  db,        \* the lists it works on
  freed,     \* keys of sp2o whose list exist_triple has freed
  inserted,  \* triples given to insertTriple
  exposed    \* a loader could have met a store that is being replaced

store == <<disk, builds, gload>>
reading == <<at, build, mixed>>
loader == <<starts, phase, reading, db, freed, inserted>>
vars == <<inputs, store, loader, exposed>>

Init ==
  /\ inputs \in Inputs
  /\ disk = [f \in Files |-> Missing]
  /\ builds = 0 /\ gload = 0
  /\ starts = 0 /\ phase = "down" /\ at = 0 /\ build = Missing /\ mixed = FALSE
  /\ db = <<>> /\ freed = {} /\ inserted = 0
  /\ exposed = FALSE
-----------------------------------------------------------------------------
(* gload                                                                   *)

BuildStart ==
  /\ gload = 0 /\ builds < Len(inputs)
  /\ builds' = builds + 1 /\ gload' = 1
  /\ exposed' = (exposed \/ disk["info"] # Missing)
  /\ UNCHANGED <<inputs, disk, loader>>

BuildStep ==
  /\ gload > 0
  /\ LET f == BuildScript[gload][2]
     IN disk' = [disk EXCEPT ![f] = IF BuildScript[gload][1] = "open" THEN Partial
                                    ELSE builds]
  /\ gload' = IF gload = Len(BuildScript) THEN 0 ELSE gload + 1
  /\ UNCHANGED <<inputs, builds, loader, exposed>>

BuildDies ==
  /\ gload > 0 /\ gload' = 0
  /\ UNCHANGED <<inputs, disk, builds, loader, exposed>>
-----------------------------------------------------------------------------
(* Loading                                                                 *)

Loading == {"load to serve", "load to insert"}

LoadStart(ph) ==
  /\ phase = "down" /\ starts < MaxStarts
  /\ starts' = starts + 1 /\ phase' = ph
  /\ UNCHANGED <<inputs, store, reading, db, freed, inserted, exposed>>

Down == /\ phase' = "down" /\ at' = 0 /\ build' = Missing /\ mixed' = FALSE
        /\ db' = <<>> /\ freed' = {} /\ inserted' = 0

\* Database::load, from loadDBInfoFile on.  Without the info file it gives up,
\* and load_data serves all the same; a map or a list that is not there is read
\* through a null FILE.  What comes of files that are not of one build, or not
\* whole, the code does not say.
Gives_up == /\ phase' = (IF phase = "load to serve" THEN "serve nothing" ELSE "down")
            /\ UNCHANGED <<reading, db, freed, inserted>>
Reads(tag) ==
  /\ at' = at + 1
  /\ build' = IF at = 0 THEN tag ELSE build
  /\ mixed' = (mixed \/ tag = Partial \/ (at > 0 /\ tag # build))
  /\ IF at' < Len(LoadScript) THEN UNCHANGED <<phase, db>>
     ELSE IF mixed' THEN phase' = "undefined" /\ UNCHANGED db
     ELSE /\ phase' = IF phase = "load to serve" THEN "serve" ELSE "insert"
          /\ db' = Image(inputs[build])
  /\ UNCHANGED <<freed, inserted>>
LoadStep ==
  LET f == LoadScript[at + 1]
  IN /\ phase \in Loading
     /\ \/ disk[f] = Missing /\ f = "info" /\ Gives_up
        \/ disk[f] = Missing /\ f # "info" /\ Down
        \/ disk[f] # Missing /\ Reads(disk[f])
     /\ exposed' = (exposed \/ (f = "info" /\ disk[f] = Partial))
     /\ UNCHANGED <<inputs, store, starts>>

LoaderDies ==
  /\ phase # "down"
  /\ Down
  /\ UNCHANGED <<inputs, store, starts, exposed>>
-----------------------------------------------------------------------------
(* Database::insert, which only gserver reaches                            *)

names == [entity |-> db.entity2id, predicate |-> db.predicate2id, literal |-> db.literal2id]
Named(d) == [db EXCEPT !.entity2id = d.entity, !.id2entity = d.entity,
                       !.predicate2id = d.predicate, !.id2predicate = d.predicate,
                       !.literal2id = d.literal, !.id2literal = d.literal,
                       !.info = [triples_num |-> @.triples_num + 1,
                                 entity_num |-> Len(d.entity), pre_num |-> Len(d.predicate),
                                 literal_num |-> Len(d.literal)]]

\* insertTriple.  The two maps by pairs give out their own list, not a copy:
\* exist_triple deletes it, and so does insert_x before the map frees it again.
\* A new entity goes to insertEntry of a VS-tree that load never loaded.
insertTriple(t) ==
  LET d == AddNames(names, t)
      ids == IDs(d, t)
      sp == <<ids[1], ids[2]>>
      op == <<ids[3], ids[2]>>
  IN /\ phase = "insert" /\ inserted < MaxInserts
     /\ IF sp \in freed
        THEN phase' = "undefined" /\ UNCHANGED <<reading, db, freed, inserted>>
        ELSE IF d = names /\ ids[3] \in ToSet(ListOf(db.sp2o, sp))
        THEN /\ freed' = freed \cup {sp}
             /\ inserted' = inserted + 1
             /\ UNCHANGED <<phase, reading, db>>
        ELSE IF \/ sp \in DOMAIN db.sp2o \/ op \in DOMAIN db.op2s
                \/ d.entity # names.entity
        THEN Down
        ELSE /\ db' = updateTupleslist_insert(Named(d), ids[1], ids[2], ids[3])
             /\ inserted' = inserted + 1
             /\ UNCHANGED <<phase, reading, freed>>
     /\ UNCHANGED <<inputs, store, starts, exposed>>

\* saveTree reads the null root of the VS-tree: saveDBInfoFile is never reached.
saveTree ==
  /\ phase = "insert"
  /\ Down
  /\ UNCHANGED <<inputs, store, starts, exposed>>

Next == \/ BuildStart \/ BuildStep \/ BuildDies
        \/ \E ph \in Loading : LoadStart(ph)
        \/ LoadStep \/ LoaderDies
        \/ \E t \in Inserts : insertTriple(t)
        \/ saveTree

Spec == Init /\ [][Next]_vars
-----------------------------------------------------------------------------
(* What the planner makes of the statistics                                *)

\* task_spawn's approximate_cands: the fewest vertices that one predicate or
\* one pair of the variable's predicates leaves.
approximate_cands(outs, ins) ==
  LET stat == db.preStatDict
      Of(which, a, b) == db.IntersectDict[which][a][b]
      Hi(a, b) == IF a < b THEN b ELSE a
      Lo(a, b) == IF a < b THEN a ELSE b
  IN Min({IF a = b THEN stat[a][4] ELSE Of("same", Hi(a, b), Lo(a, b)) : a, b \in ins}
         \cup {IF a = b THEN stat[a][2] ELSE Of("same", Lo(a, b), Hi(a, b)) : a, b \in outs}
         \cup {Of("mixed", a, b) : a \in outs, b \in ins})

\* The slices of p2s and p2o the planner takes for a variable's candidates.
SubjectsOf(p) == SubSeq(db.p2s, db.preStatDict[p][1] + 1,
                        db.preStatDict[p][1] + db.preStatDict[p][2])
ObjectsOf(p) == SubSeq(db.p2o, db.preStatDict[p][3] + 1,
                       db.preStatDict[p][3] + db.preStatDict[p][4])
-----------------------------------------------------------------------------
(* Properties                                                              *)

TypeOK ==
  /\ disk \in [Files -> {Missing, Partial} \cup 1 .. builds]
  /\ builds \in 0 .. Len(inputs) /\ gload \in 0 .. Len(BuildScript)
  /\ phase \in {"down", "serve", "serve nothing", "insert", "undefined"} \cup Loading
  /\ at \in 0 .. Len(LoadScript) /\ build \in {Missing, Partial} \cup 1 .. builds /\ inserted <= MaxInserts

\* A process that loaded the store has the files of one finished build, never a
\* mixture of two or a part of one, unless gload was run over a store with an
\* info file or the load met that file between its opening and its closing: the
\* info file is written last and read first.  (The types come with it.)
LoadIsTheBuild ==
  /\ TypeOK
  /\ ~exposed => ~mixed /\ (phase \in {"serve", "insert"} => build \in 1 .. builds)

\* However the store came about, by a build or by insertions after it, its six
\* lists say the same: the triples of the data, each key's list in the order
\* that the search's binary searches and merges take for granted.  No two names
\* share an ID, and no literal has an entity's.
IndexesAgree ==
  phase \in {"serve", "insert"} =>
    /\ Agrees(db)
    /\ ToSet(inputs[build]) \subseteq {NameOf(db, t) : t \in Listed(db)}
    /\ inserted = 0 => {NameOf(db, t) : t \in Listed(db)} = ToSet(inputs[build])

\* The planner's slices are the subjects and the objects of the predicate, and
\* its estimate for a variable is never below the vertices that have all of the
\* variable's predicates: a pair of predicates is stored where it is looked up.
StatisticsMatch ==
  phase = "serve" =>
    LET P == DOMAIN db.preStatDict
        S(p) == ValuesWith(Listed(db), p - 1, 1)
        O(p) == ValuesWith(Listed(db), p - 1, 3)
    IN /\ \A p \in P : Enumerates(SubjectsOf(p), S(p)) /\ Enumerates(ObjectsOf(p), O(p))
       /\ \A outs, ins \in SUBSET P :
            outs \cap ins = {} /\ outs \cup ins # {} =>
              \E x \in {S(p) : p \in outs} \cup {O(p) : p \in ins} :
                Cardinality({v \in x : /\ \A p \in outs : v \in S(p)
                                       /\ \A p \in ins : v \in O(p)})
                  <= approximate_cands(outs, ins)
=============================================================================

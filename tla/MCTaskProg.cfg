\* Two queries, three compers, five tasks in all.
SPECIFICATION Spec
CONSTANTS
  Compers = {c1, c2, c3}
  Queries = {q1, q2}
  Tasks = {t1, t2, t3, t4, t5}
  NoTask = NoTask
  NoQuery = NoQuery
SYMMETRY Symmetry
INVARIANTS TypeOK CounterExact NoEarlyFinish NoDanglingProg EraseOnce NothingLeft
PROPERTIES ImplementsCompletion
\* Nothing is left to do once the tasks of the instance are used up.
CHECK_DEADLOCK FALSE

\* Two compers, two queries and the shutdown.
SPECIFICATION Spec
CONSTANTS
  Compers = {c1, c2}
  Queries = {q1, q2}
  Tasks = {t1, t2, t3}
  NoTask = NoTask
  NoQuery = NoQuery
  ServerExit = ServerExit
  Messages = {q1, q2, ServerExit}
  NoResult = {}
  activeQ_list_capacity = 2
  Qreg_capacity = 1
  RT_TASKS_PER_FILE = 1
  RT_THRESHOLD_FOR_REFILL = 1
  tasks_per_fetch_g = 1
SYMMETRY Symmetry
INVARIANTS ContainerAlive NoTaskLostOrDuplicated EndOnlyWhenDone AllIdleMeansNoTask NothingLeftBehind

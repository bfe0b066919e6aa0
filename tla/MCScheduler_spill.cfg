\* One query whose tasks are spilled and refilled by two compers.
SPECIFICATION FairSpec
CONSTANTS
  Compers = {c1, c2}
  Queries = {q1}
  Tasks = {t1, t2, t3, t4}
  NoTask = NoTask
  NoQuery = NoQuery
  ServerExit = ServerExit
  Messages = {q1}
  NoResult = {}
  activeQ_list_capacity = 2
  Qreg_capacity = 2
  RT_TASKS_PER_FILE = 1
  RT_THRESHOLD_FOR_REFILL = 1
  tasks_per_fetch_g = 1
INVARIANTS NoTaskLostOrDuplicated CapacitiesRespected
PROPERTIES EveryQueryAnswered

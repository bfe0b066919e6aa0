\* A query without a candidate is never answered.
SPECIFICATION FairSpec
CONSTANTS
  Compers = {c1}
  Queries = {q1}
  Tasks = {t1}
  NoTask = NoTask
  NoQuery = NoQuery
  ServerExit = ServerExit
  Messages = {q1, ServerExit}
  NoResult = {q1}
  activeQ_list_capacity = 2
  Qreg_capacity = 1
  RT_TASKS_PER_FILE = 1
  RT_THRESHOLD_FOR_REFILL = 1
  tasks_per_fetch_g = 1
PROPERTIES EveryQueryAnswered

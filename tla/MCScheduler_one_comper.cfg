\* With one comper and one place in activeQ_list the server terminates.
SPECIFICATION FairSpec
CONSTANTS
  Compers = {c1}
  Queries = {q1, q2}
  Tasks = {t1, t2, t3}
  NoTask = NoTask
  NoQuery = NoQuery
  ServerExit = ServerExit
  Messages = {q1, q2, ServerExit}
  NoResult = {}
  activeQ_list_capacity = 1
  Qreg_capacity = 1
  RT_TASKS_PER_FILE = 1
  RT_THRESHOLD_FOR_REFILL = 1
  tasks_per_fetch_g = 1
PROPERTIES ServerTerminates

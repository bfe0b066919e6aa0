\* One batch and one interactive client, a server and its successor.
SPECIFICATION FairSpec
CONSTANTS
  Servers = {s1, s2}
  b = b
  i = i
  Interactive = {i}
  Batch = {b}
  Nobody = Nobody
  Query = Query
  ServerExit = ServerExit
  Scenarios <- MCScenarios
INVARIANTS ServesItsOwnQueues ReturnedMeansDone
PROPERTIES AloneReturns ExitStops NobodyWaitsForTheDead
CHECK_DEADLOCK FALSE

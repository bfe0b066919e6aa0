SPECIFICATION MCSpec
CONSTANTS
  Compers = {c1, c2}
  Queries = {"star", "const", "triangle", "consts", "constPUs", "PU", "sharedPU", "none"}
  Slow = {"star"}
  Splitting = {"star", "const"}
  Shapes = {"triangle", "consts", "constPUs", "PU", "sharedPU", "none"}
  First = c1
  NoQuery = NoQuery
  Values <- Terms
  Capacity = 4
  Depth <- MCDepth
  IsVertex <- MCIsVertex
  Cand <- MCCand
  Empty <- MCEmpty
  Answers <- MCAnswers
  Ways <- MCWays
INVARIANTS VisitedIsThePath EachWayAtOnePlace
PROPERTIES ImplementsEnumeration EveryShapeReported
CHECK_DEADLOCK FALSE

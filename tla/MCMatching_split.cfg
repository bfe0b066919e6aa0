\* A query with a predicate variable behind its first variable, split there.
SPECIFICATION MCSpec
CONSTANTS
  Compers = {c1}
  Queries = {"PUpath"}
  Slow = {"PUpath"}
  Splitting = {"PUpath"}
  Shapes = {}
  First = c1
  NoQuery = NoQuery
  Values <- Terms
  Capacity = 4
  Depth <- MCDepth
  IsVertex <- MCIsVertex
  Cand <- MCCand
  Empty <- MCEmpty
  Answers <- MCAnswers
  Ways <- MCWays
INVARIANTS ReportedIsComplete
CHECK_DEADLOCK FALSE

\* Data of three triples built and loaded once; two builds and two loads, with
\* each of them dying anywhere.
SPECIFICATION Spec
CONSTANTS
  Literals = {"L", "M"}
  LITERAL_FIRST_ID = 100
  Missing = Missing
  Partial = Partial
  Inputs <- MCInputs
  Inserts <- MCInserts
  MaxInserts = 2
  MaxStarts = 2
INVARIANTS LoadIsTheBuild IndexesAgree StatisticsMatch
CHECK_DEADLOCK FALSE

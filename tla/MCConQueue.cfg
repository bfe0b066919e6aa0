\* Two producers and two consumers, as on Lreg; addresses are reused.
SPECIFICATION Spec
CONSTANTS
  Producers = {p1, p2}
  Consumers = {c1, c2}
  Values = {v1, v2, v3, v4}
  Nodes = {n1, n2, n3, n4, n5}
  NULL = NULL
  Garbage = Garbage
  MaxBatch = 2
  None = None
  Failed = Failed
  NonEmpty = NonEmpty
SYMMETRY Symmetry
INVARIANTS NoUseAfterFree ListWellFormed NoLeak
PROPERTIES ImplementsFifo

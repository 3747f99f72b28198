CONSTANTS
  a1 = a1
  a2 = a2
  a3 = a3
  Agent = {a1, a2, a3}
  Nobody = Nobody
  TTL = 2
  Fenced = TRUE
  MaxNow = 4
  MaxOps = 6
SPECIFICATION Spec
SYMMETRY Symmetry
CHECK_DEADLOCK FALSE
INVARIANT MutualExclusion
INVARIANT ConsumedOnce
PROPERTY SlotIsAtomic

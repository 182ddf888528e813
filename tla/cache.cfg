SPECIFICATION Spec
CONSTANTS
  None = None
  Searchers = {s1,s2}
  Mutators = {m1,m2}
  Keys = {k1,k2,k3}
  Eligible = {k1,k2}
  Capacity = 1
  Kinds = {"write","label","sweep","maintenance","recognition","mask","rebuild"}
  MaxCommits = 2
  MaxEpoch = 2
SYMMETRY Symmetric
CHECK_DEADLOCK FALSE
INVARIANTS TypeOK BoundedMap QuietCacheIsCurrent
PROPERTY ImplementsService

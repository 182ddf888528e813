SPECIFICATION Spec
CONSTANTS
  None = None
  Searchers = {s1,s2}
  Mutators = {m1}
  Keys = {k1}
  Eligible = {k1}
  Capacity = 1
  Kinds = {"write"}
  MaxCommits = 2
  MaxEpoch = 3
SYMMETRY Symmetric
CHECK_DEADLOCK FALSE
INVARIANT NoStaleHitOnceQuiet

SPECIFICATION Spec
CONSTANTS
  t1 = t1
  t2 = t2
  Nil = Nil
  Callers <- MCCallers
  Depth = 2
  Starts = {2}
  MaxHops = 3
  GlobalRoots <- MCGlobalRoots
  Contents <- MCContents
  MaxTime = 2
SYMMETRY MCSymmetry
INVARIANTS TypeOK Justified VerdictFollowsFile

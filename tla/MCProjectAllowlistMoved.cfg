SPECIFICATION SpecWithMoves
CONSTANTS
  t1 = t1
  t2 = t2
  Nil = Nil
  Callers <- MCCaller
  Depth = 3
  Starts = {3}
  MaxHops = 2
  GlobalRoots <- MCGlobalRoots
  Contents <- MCRelative
  MaxTime = 2
INVARIANT FollowsMoves

SPECIFICATION ReplySpec
CONSTANTS
  t1 = t1
  t2 = t2
  s1 = s1
  home = home
  tmp = tmp
  X = X
  Y = Y
  one = one
  Unreadable = Unreadable
  Nil = Nil
  Threads <- MCThreads
  Dirs <- MCDirs
  StartDirs <- MCStartDirs
  Names <- MCNames
  Values <- MCValues
  Ids = {s1}
  Commands <- MCCommands
  MaxEnvVars = 1
  IdleTimeout = 1
  MaxClock = 3
  SpawnMayFail = TRUE
SYMMETRY Symmetry
INVARIANTS TypeOK EnvWithinCap OneJanitor ReportsMatchRemovals FreedOnce RepliesConfirm
PROPERTIES LeavesDestroyedOrIdle RemovedIsFinal RefinesRegistry

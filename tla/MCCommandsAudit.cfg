SPECIFICATION CommandSpec
CONSTANTS
  t1 = t1
  t2 = t2
  t3 = t3
  Nil = Nil
  Threads <- MCPair
  MaxConcurrent = 1
INVARIANT ExecutedIsAudited

SPECIFICATION CommandFairSpec
CONSTANTS
  t1 = t1
  t2 = t2
  t3 = t3
  Nil = Nil
  Threads <- MCThreads
  MaxConcurrent = 2
INVARIANTS TypeOK PermitsConserved CapHolds ActiveIsExact ActiveWithinCap
INVARIANTS CommandTypeOK RefusedNeverRuns AuditTellsTheTruth
PROPERTY CallsAreAnswered

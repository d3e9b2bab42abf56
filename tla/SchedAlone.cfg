CONSTANTS
  k0 = k0
  k1 = k1
  m = m
  u1 = u1
  u2 = u2
  Nil = Nil
  MainK = k0
  Master = m
  Kthreads <- MCAlone
  Uthreads <- MCTwoUthreads
  Creators <- MCMasterOnly
  Yielders <- MCFirstOnly
  SaMasks <- MCOwnSignalOnly
SPECIFICATION FairSpec
CHECK_DEADLOCK FALSE
PROPERTY EveryUthreadCompletes

CONSTANTS
  k0 = k0
  k1 = k1
  m = m
  u1 = u1
  u2 = u2
  Nil = Nil
  MainK = k0
  Master = m
  Kthreads <- MCKthreads
  Uthreads <- MCOneUthread
  Creators <- MCMasterOnly
  Yielders <- MCFirstOnly
  SaMasks <- MCAnyMask
SPECIFICATION FairSpec
CHECK_DEADLOCK FALSE
PROPERTIES EveryUthreadCompletes ExitReturns

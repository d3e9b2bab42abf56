CONSTANTS
  k0 = k0
  k1 = k1
  m = m
  u1 = u1
  u2 = u2
  Nil = Nil
  MainK = k0
  Master = m
  Kthreads <- MCKthreads
  Uthreads <- MCTwoUthreads
  Creators <- MCMasterAndFirst
  Yielders <- MCNobody
  SaMasks <- MCOwnSignalOnly
SPECIFICATION Spec
CHECK_DEADLOCK FALSE
INVARIANT CreateFromAnyKthread

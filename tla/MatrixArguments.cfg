CONSTANTS
  NumThreads = 2
  Sizes <- MCSizes
  k0 = k0
  k1 = k1
  Kthreads <- MCKthreads
  MainK = k0
  Master = m
  Nil = Nil
SPECIFICATION Spec
CHECK_DEADLOCK FALSE
INVARIANT ProductsComputed

CONSTANTS
  NumCpus = 3
  MaxCores = 4
  g1 = g1
  g2 = g2
  Groups <- MCTwoGroups
  MaxUthreads = 5
  Nil = Nil
SPECIFICATION FairSpec
CHECK_DEADLOCK FALSE
PROPERTY InitReturns

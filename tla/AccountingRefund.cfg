CONSTANTS
  Kthreads = {k0, k1}
  MainK = k0
  Uthreads = {main, u1, u2}
  Main = main
  Nil = Nil
  MaxCharge = 3
  MaxVruntime = 3
SPECIFICATION Spec
CHECK_DEADLOCK FALSE
PROPERTY YieldPassesAll

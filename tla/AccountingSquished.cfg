CONSTANTS
  Kthreads = {k0, k1}
  MainK = k0
  Uthreads = {main, u1, u2, u3, u4, u5, u6}
  Main = main
  Nil = Nil
  MaxCharge = 1
  MaxVruntime = 0
SPECIFICATION Spec
CHECK_DEADLOCK FALSE
SYMMETRY MCOthers
INVARIANTS NeverSquished

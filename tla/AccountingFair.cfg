CONSTANTS
  Kthreads = {k0, k1}
  MainK = k0
  Uthreads = {main, u1, u2, u3}
  Main = main
  Nil = Nil
  MaxCharge = 2
  MaxVruntime = 6
SPECIFICATION Spec
CHECK_DEADLOCK FALSE
SYMMETRY MCOthers
INVARIANTS TypeOK SpreadBounded SliceArmed
PROPERTY NeverRefunded

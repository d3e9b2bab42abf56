CONSTANTS
  Kthreads = {k1, k2, k3}
  Uthreads = {u1, u2, u3, u4}
  Own = Own
  Nil = Nil
SPECIFICATION FairSpec
CHECK_DEADLOCK FALSE
INVARIANTS TypeOK NobodyDies OneStackEach HandlerGivenBack
PROPERTY StartsReturn

CONSTANTS
  k0 = k0
  k1 = k1
  k2 = k2
  k3 = k3
  Nil = Nil
  Kthreads <- MCKthreads
SPECIFICATION FairSpec
INVARIANTS MutualExclusion WordIsHeld
PROPERTIES IsMutex SomebodyEnters

CONSTANTS
  Uthreads <- MCUthreads
  VruntimeOf <- MCVruntimeOf
  NIL = NIL
  ROOT = ROOT
  Leavers <- MCMany
  Asked <- MCAsked
  Nil = Nil
SPECIFICATION MCSpec
INVARIANTS TypeOK CachesAgree QueriesAgree NodeStaysValid RedBlackRules ParentsAgree
PROPERTY QueueImplemented

CONSTANTS
  Uthreads <- MCUthreads
  VruntimeOf <- MCVruntimeOf
  NIL = NIL
  ROOT = ROOT
  Leavers = {}
  Asked = {}
  Nil = Nil
  Yielders <- MCYielders
SPECIFICATION RaceSpec
INVARIANTS YieldsToSomebody WalkMeetsUthreads

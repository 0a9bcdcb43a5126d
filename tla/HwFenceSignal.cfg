\* Fences and arrays, one of which fails; no reset.
CONSTANTS
  f1 = f1
  f2 = f2
  a1 = a1
  a2 = a2
  a3 = a3
  a4 = a4
  Fences = {f1, f2}
  Arrays = {a1, a2, a3, a4}
  Children <- MCChildren
  Clients = {1, 2}
  DataClients = {1, 2}
  Allocator <- MCAllocator
  MAX_PARENTS = 3
  FenceData <- MCFenceData
  ArrayData = {0}
  SerialArrays = TRUE
  Resets <- MCNoResets
  QuietResets = TRUE
  QuietJoins = TRUE
  MaxCalls <- MCThreeCalls
SPECIFICATION Spec
CHECK_DEADLOCK FALSE
INVARIANTS TypeOK JoinsExact JoinWaitsForAll NoLostSignal

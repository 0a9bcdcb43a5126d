\* Two clients wait, with data that differs, for fences and an array; one of
\* them and a third one are reset.
CONSTANTS
  f1 = f1
  f2 = f2
  a1 = a1
  a2 = a2
  a3 = a3
  a4 = a4
  Fences = {f1, f2}
  Arrays = {a1}
  Children <- MCChildren
  Clients = {1, 2, 3}
  DataClients = {1, 2, 3}
  Allocator <- MCAllocator
  MAX_PARENTS = 3
  FenceData <- MCFenceData
  ArrayData = {0}
  SerialArrays = TRUE
  Resets <- MCResets
  QuietResets = TRUE
  QuietJoins = TRUE
  MaxCalls <- MCCalls
SPECIFICATION FairSpec
CHECK_DEADLOCK FALSE
INVARIANTS DataReturned ErrorMeansReset MaskMeansWaiting
PROPERTIES WaitersTold

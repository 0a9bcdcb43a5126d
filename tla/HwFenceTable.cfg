\* Three entries, two dma-fences and a fence-array that collide, three threads.
CONSTANTS
  t1 = t1
  t2 = t2
  t3 = t3
  M = 3
  FenceKeys <- MCFences
  ArrayKeys <- MCArrays
  Threads = {t1, t2, t3}
  ClientOf <- OneThreadEach
  Owner <- MCOwner
  SharedArrays = FALSE
SPECIFICATION Spec
INVARIANTS TypeOK UniqueKeys LookupComplete HandleOwnFence

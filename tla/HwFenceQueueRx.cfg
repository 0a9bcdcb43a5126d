\* An Rx queue of three entries: two producers, the reader, resets while the
\* reader is stopped.
CONSTANTS
  N = 3
  Payloads = {m1, m2}
  Producers = {cpu, fctl}
  Locked = TRUE
  SkipTxqWrIdx = FALSE
  ReaderStopped = TRUE
SPECIFICATION Spec
INVARIANTS TypeOK NoOverwrite ReadsOldest ResetEmpties
PROPERTIES NoneStranded ImplementsFifo

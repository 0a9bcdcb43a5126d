\* A Tx queue whose client advances write_index itself, reset while the reader runs.
CONSTANTS
  N = 3
  Payloads = {m1, m2}
  Producers = {ipe}
  Locked = FALSE
  SkipTxqWrIdx = FALSE
  ReaderStopped = FALSE
SPECIFICATION Spec
INVARIANTS ResetEmpties

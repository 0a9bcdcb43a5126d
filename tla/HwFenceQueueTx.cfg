\* A Tx queue whose producer is its client alone, without a lock; the hardware
\* announces what the driver wrote (skip_txq_wr_idx).  Resets overlap with the
\* producer and the hardware, and not with the reader.
CONSTANTS
  N = 3
  Payloads = {m1, m2}
  Producers = {ife}
  Locked = FALSE
  SkipTxqWrIdx = TRUE
  ReaderStopped = TRUE
SPECIFICATION Spec
PROPERTIES NoneStranded ImplementsFifo

\* One array of each kind, a hw-fence and a plain fence to bind them to.
CONSTANTS
  a1 = a1
  a2 = a2
  Arrays = {a1, a2}
  NumFences <- MCNumFences
  SignalAll = {a1}
  UserFences = {"u1", "u2"}
  HwFences = {"u1"}
  Binders = {"b1"}
  Readers = {"r1"}
  MAX_DEVICE_SUPPORTED = 2
  OneBindAtATime = TRUE
SPECIFICATION FairSpec
CHECK_DEADLOCK FALSE
INVARIANTS TypeOK RefsExact SignalEarned HwDecision
PROPERTIES BoundSignals

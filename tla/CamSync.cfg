\* Two objects and a group of them, two threads and the close of the device.
CONSTANTS
  CAM_SYNC_MAX_OBJS = 4
  Threads = {t1, t2}
  Closer = closer
  Clients = {isp}
  Payloads = {isp}
  Failures = {"error"}
  QuietReuse = TRUE
  MaxCreates = 4
SPECIFICATION Spec
SYMMETRY ThreadSymmetry
CHECK_DEADLOCK FALSE
INVARIANTS TypeOK RemainingExact NoneForgotten GroupStatus
PROPERTIES CallbackFinal

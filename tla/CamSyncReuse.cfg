\* A group is destroyed and its row reused while the signal of a child is on its way.
CONSTANTS
  CAM_SYNC_MAX_OBJS = 4
  Threads = {t1, t2}
  Closer = closer
  Clients = {isp}
  Payloads = {isp}
  Failures = {"error"}
  QuietReuse = FALSE
  MaxCreates = 4
SPECIFICATION Spec
SYMMETRY ThreadSymmetry
CHECK_DEADLOCK FALSE
INVARIANTS CountsChildren

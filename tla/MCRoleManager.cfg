\* Two roles, two handlers and the sweeper, two failed calls or crashes.
SPECIFICATION Spec
CONSTANTS
  r1 = r1
  r2 = r2
  t1 = t1
  t2 = t2
  Roles = {r1, r2}
  JailRole = J
  Threads = {t1, t2}
  Sweeper = S
  None = None
  MaxStarts = 3
  MaxTime = 1
  MaxErrors = 2
SYMMETRY MCSymmetry
INVARIANTS JailIsRecorded
PROPERTIES ExtendedRowStays
CHECK_DEADLOCK FALSE

\* Two users, two rooms, two goroutines, one failed call or crash.
SPECIFICATION Spec
CONSTANTS
  u1 = u1
  u2 = u2
  c1 = c1
  c2 = c2
  Users = {u1, u2}
  Rooms = {c1, c2}
  Jobs = {1, 2}
  Trigger = Trigger
  Out = Out
  None = None
  MaxMoves = 5
  MaxLag = 2
  MaxErrors = 1
SYMMETRY MCSymmetry
INVARIANTS RoomsAreKept
CHECK_DEADLOCK FALSE

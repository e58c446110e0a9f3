SPECIFICATION Spec
CONSTANTS
  Plans = {p1, p2}
  StepCount = 2
  Workers = {w1, w2}
  MaxPerWindow = 1
  MaxRepairs = 0
  Sql = FALSE
  ReservationTtl = TRUE
  LeaseTtl = FALSE
  None = None
SYMMETRY Symmetry
CHECK_DEADLOCK FALSE
INVARIANT EffectsReported

SPECIFICATION Spec
CONSTANTS
  Plans = {p1, p2, p3}
  StepCount = 2
  Workers = {w1}
  MaxPerWindow = 1
  MaxRepairs = 0
  Sql = TRUE
  ReservationTtl = FALSE
  LeaseTtl = FALSE
  None = None
SYMMETRY Symmetry
CHECK_DEADLOCK FALSE
INVARIANT OnePlanPerRoom

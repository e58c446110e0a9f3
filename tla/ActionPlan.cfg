SPECIFICATION Spec
CONSTANTS
  Plans = {p1}
  StepCount = 3
  Workers = {w1, w2}
  MaxPerWindow = 2
  MaxRepairs = 1
  Sql = TRUE
  ReservationTtl = FALSE
  LeaseTtl = TRUE
  None = None
SYMMETRY Symmetry
CHECK_DEADLOCK FALSE
INVARIANT PlanTellsTheTruth
INVARIANT ExecutionsCanBeAdopted
PROPERTY CancelHolds

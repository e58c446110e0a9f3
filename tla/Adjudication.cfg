SPECIFICATION Spec
CONSTANTS
  p1 = p1
  a1 = a1
  a2 = a2
  k1 = k1
  k2 = k2
  k3 = k3
  k4 = k4
  w1 = w1
  w2 = w2
  Players = {p1}
  Actions = {a1, a2}
  Clicks = {k1, k2, k3, k4}
  Workers = {w1, w2}
  Owner <- MCOwner
  InitialLuck = 2
  MaxCost = 2
  MaxRevision = 6
SYMMETRY Symmetry
INVARIANTS
  RowsAgree
  CommittedOnWhatItSaw
  LuckIsAccountedFor
PROPERTIES
  RollsStand
  ImplementsProtocol
CHECK_DEADLOCK FALSE

SPECIFICATION Spec
CONSTANTS
  p1 = p1
  p2 = p2
  p3 = p3
  a1 = a1
  a2 = a2
  NoOne = NoOne
  Players = {p1, p2, p3}
  Actions = {a1, a2}
  Requester <- MCRequester
  Workers = {w1}
  Calls = {c1, c2}
  RowLocks = TRUE
  MaxProposals = 2
  MaxRevision = 1
SYMMETRY Symmetry
INVARIANTS
  ConsentGiven
  StatusTellsTheTruth
  ResumedOnce
CHECK_DEADLOCK FALSE

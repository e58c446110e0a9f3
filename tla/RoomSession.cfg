SPECIFICATION Spec
CONSTANTS
  Players = {p1, p2}
  Items = {i1, i2}
  Imported = {i2}
  Drafts = {d1}
  Workers = {w1, w2}
  Floor = Floor
  None = None
  MaxVersion = 3
SYMMETRY Symmetry
INVARIANTS
  EndedTogether
  CustodyIsTheLog
  EndsOnWhatWasRead
CHECK_DEADLOCK FALSE

CONSTANTS
  ann = ann
  ben = ben
  s1 = s1
  s2 = s2
  s3 = s3
  look = look
  open_door = open_door
  Room = room
  Rooms = {room}
  Loops = {s1, s2, s3}
  Players = {ann, ben}
  Host = ann
  Actions = {look}
  None = None
  PlayerOf <- MCPlayerOf
  Owner <- MCOwner
  LockTimeout = 1
  MaxTime = 1
  MaxTokens = 2
  MaxRevision = 3
  MaxFaults = 1
SPECIFICATION TurnsSpec
INVARIANTS OneLiveLoop ToldOnce SettledIsTold OpeningReachesAll LockIsGivenBack
SYMMETRY Symmetry
CHECK_DEADLOCK FALSE

SPECIFICATION ServicesSpec
CONSTANTS
  Characters = {c1}
  NoCharacter = NoCharacter
  Calls = {k1, k2}
  NoCall = NoCall
  RowLocks = TRUE
  MaxTasks = 2
  MaxRestarts = 1
  Requests = {1, 2, 3}
  AskedBy <- MCAskedBy
  Sentences = {"s1", "s2"}
  Voices = {"v1", "v2"}
  NoOne = "noone"
  SizeOf <- MCSizeOf
  CacheBytes = 2
  CacheTtl = 1
  ListenerLimit = 2
  MissLimit = 2
  RateWindow = 1
  Concurrency = 1
  MaxClock = 1
  Messages = {"m1", "m2"}
  NoMessage = "none"
  LengthOf <- MCLengthOf
  MaxGeneration = 1
  MaxQueue = 1
  TurnsOf <- MCTurnsOf
  SaidIn <- MCSaidIn
  Scenes = {"s1", "s2"}
  UtteranceLimit = 3
  NarrationLimit = 3
  IntentLimit = 2
  ResultLimit = 2
  CandidateLimit = 3
  MaxTurns = 2
  MaxChars = 4
  ChatSockets = {"c1", "c2", "c3"}
  Lines <- MCLines
  PageLimit = 1
  MaxStamp = 4
INVARIANTS
  BoughtOnce
  StaleIsSilent
  ReadBackIsTrue
PROPERTIES
  CancelHolds
  EndsUnlessCancelled
CHECK_DEADLOCK FALSE

SPECIFICATION ClientSpec
CONSTANTS
  Rooms = {r1, r2}
  r1 = r1
  r2 = r2
  Page = r1
  Actions = {a1}
  a1 = a1
  MaxLines = 2
  MaxStories = 2
  Fragments = 2
  Nothing = Nothing
INVARIANTS ViewIsOfTheRoom
PROPERTIES NobodyWaitsInVain ReceivedIsShown
CHECK_DEADLOCK FALSE

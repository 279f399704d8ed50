SPECIFICATION NetSpec
CONSTANTS
  NetClients = {c1, c2}
  NetHandles = {h1}
  NetMsgs = 6
  MaxCable = 1
  MaxNetStarts = 1
  MaxNetFails = 1
CHECK_DEADLOCK FALSE
INVARIANTS
  ClientsAreAnswered
PROPERTIES
  StopCompletesUnlessLost

SPECIFICATION NetSpec
CONSTANTS
  NetClients = {c1, c2}
  NetHandles = {h1}
  NetMsgs = 6
  MaxCable = 1
  MaxNetStarts = 1
  MaxNetFails = 0
CHECK_DEADLOCK FALSE
PROPERTIES
  StopCompletes

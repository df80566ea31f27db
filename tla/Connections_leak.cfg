SPECIFICATION Spec
CONSTANTS
  a = a
  b = b
  NoConnection = NoConnection
  Connections <- OneConnection
  Tunnelled = {}
  Monitored <- OneConnection
  Operations = {"ensure", "disconnect"}
  Alone = {"disconnect"}
  AtRest = {}
  MaxTunnels = 0
  MaxDrivers = 3
  MaxTasks = 4
  MaxStarts = 2
  MaxDeaths = 0
  MaxRetries = 1
CHECK_DEADLOCK FALSE
INVARIANT DisconnectedIsClosed

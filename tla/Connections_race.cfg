SPECIFICATION Spec
CONSTANTS
  a = a
  b = b
  NoConnection = NoConnection
  Connections <- OneConnection
  Tunnelled <- OneConnection
  Monitored <- OneConnection
  Operations = {"ensure"}
  Alone = {"ensure"}
  AtRest = {}
  MaxTunnels = 3
  MaxDrivers = 2
  MaxTasks = 4
  MaxStarts = 1
  MaxDeaths = 1
  MaxRetries = 2
CHECK_DEADLOCK FALSE
INVARIANTS
  OneMonitor
  OneRecovery
  ConnectingIsWorkedOn

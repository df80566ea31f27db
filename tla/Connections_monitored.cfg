SPECIFICATION Spec
CONSTANTS
  a = a
  b = b
  NoConnection = NoConnection
  Connections <- TwoConnections
  Tunnelled = {b}
  Monitored <- OneConnection
  Operations = {"ensure", "reconnect", "disconnect"}
  Alone = {"reconnect", "disconnect"}
  AtRest = {"disconnect"}
  MaxTunnels = 2
  MaxDrivers = 3
  MaxTasks = 4
  MaxStarts = 3
  MaxDeaths = 0
  MaxRetries = 1
CHECK_DEADLOCK FALSE
INVARIANTS
  OpenDriversAreHeld
  OneMonitor
  ConnectingIsWorkedOn
  CurrentIsActive

SPECIFICATION FairSpec
CONSTANTS
  a = a
  b = b
  NoConnection = NoConnection
  Connections <- OneConnection
  Tunnelled <- OneConnection
  Monitored <- OneConnection
  Operations = {"ensure", "wake"}
  Alone = {"ensure", "death"}
  AtRest = {}
  MaxTunnels = 3
  MaxDrivers = 2
  MaxTasks = 4
  MaxStarts = 2
  MaxDeaths = 1
  MaxRetries = 2
CHECK_DEADLOCK FALSE
INVARIANTS
  TypeOK
  OpenDriversAreHeld
  OneRecovery
  ConnectedIsOpen
PROPERTY OperationsEnd

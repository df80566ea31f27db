SPECIFICATION Spec
CONSTANTS
  Callers <- ThreeTasks
  Transports <- TwoStarts
  NoTransport = 0
  Repeating = {}
  Notifying = {}
  MaxStarts = 2
  MaxCommands = 3
  MaxRequests = 2
  Requests = {}
CHECK_DEADLOCK FALSE
INVARIANTS
  StartingIsWorkedOn
  ErrorIsRetried
PROPERTIES
  EveryRequestIsSettled
  StartEnds
  StopEnds

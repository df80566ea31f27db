SPECIFICATION AppSpec
CONSTANTS
  Callers <- ThreeTasks
  Transports <- TwoStarts
  NoTransport = 0
  Repeating = {}
  Notifying = {}
  MaxStarts = 2
  MaxCommands = 2
  MaxRequests = 2
  Requests = {}
CHECK_DEADLOCK FALSE
INVARIANT
  ServerStopsWhenRemoved

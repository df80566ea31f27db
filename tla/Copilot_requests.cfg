SPECIFICATION Spec
CONSTANTS
  Callers <- ThreeTasks
  Transports <- TwoStarts
  NoTransport = 0
  Repeating = {1}
  Notifying = {1, 2}
  MaxStarts = 2
  MaxCommands = 2
  MaxRequests = 2
  Requests = {"complete", "signIn", "confirm", "signOut"}
CHECK_DEADLOCK FALSE
INVARIANTS
  TypeOK
  PendingIsLive
PROPERTIES
  OneOutcomePerRequest

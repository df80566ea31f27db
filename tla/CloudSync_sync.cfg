SPECIFICATION Spec
CONSTANTS
  d1 = d1
  d2 = d2
  c = c
  g = g
  Devices <- TwoMacs
  Connections = {c}
  Groups = {g}
  Initially = {c}
  Slots = {1}
  EditsWhile = {"none", "pull", "fetched"}
  MaxEdits = 3
  MaxFailures = 1
CHECK_DEADLOCK FALSE
INVARIANTS
  TypeOK
  NothingIsMissed
PROPERTY Converges

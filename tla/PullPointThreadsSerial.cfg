CONSTANTS
  r1 = r1  r2 = r2  r3 = r3  r4 = r4  cell = cell  inputs = inputs
  cellMotion = cellMotion  door = door  gate = gate  alice = alice  bob = bob
  PullPoint = PullPoint
  Requests = {r1, r2, r3, r4}
  Client <- TwoClients
  Generators = {inputs}
  Sources <- InputSources
  Signals <- InputSignals
  SyncSources <- InputSync
  Sensed = {door, gate}
  MaxChanges <- InputMaxChanges
  Overlap = FALSE
  None = None
SPECIFICATION Spec
INVARIANT TypeOK
PROPERTY ImplementsService
CHECK_DEADLOCK FALSE

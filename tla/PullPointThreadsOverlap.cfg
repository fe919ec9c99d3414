CONSTANTS
  r1 = r1  r2 = r2  r3 = r3  r4 = r4  cell = cell  inputs = inputs
  cellMotion = cellMotion  door = door  gate = gate  alice = alice  bob = bob
  PullPoint = PullPoint
  Requests = {r1, r2, r3, r4}
  Client <- OneClient
  Generators = {cell}
  Sources <- OneSource
  Signals <- OneSignals
  SyncSources <- OneSync
  Sensed = {}
  MaxChanges <- OneMaxChanges
  Overlap = TRUE
  None = None
SPECIFICATION Spec
SYMMETRY Symmetry
INVARIANTS AnswerCarriesItsMessageId NothingSentTwice
CHECK_DEADLOCK FALSE

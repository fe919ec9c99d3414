CONSTANTS
  p1 = p1  p2 = p2  r1 = r1  r2 = r2  r3 = r3   r4 = r4
  cell = cell  audio = audio  inputs = inputs  cellMotion = cellMotion  sound = sound  door = door  gate = gate
  PullPoints = {p1, p2}
  Requests = {r1, r2, r3, r4}
  Generators <- MCGenerators
  Sources <- MCSources
  Signals <- MCSignals
  SyncSources <- MCSyncSources
  Sensed = {}
  MaxChanges <- MCMaxChanges
  None = None
SPECIFICATION Spec
SYMMETRY Symmetry
INVARIANTS TypeOK OpenPullIsCovered WriterIsOpen AlarmsNeverStop StreamInOrder NothingMissed
PROPERTIES RepliesAreFinal ImplementsSubscriptions
CHECK_DEADLOCK FALSE

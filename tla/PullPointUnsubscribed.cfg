CONSTANTS
  p1 = p1  p2 = p2  r1 = r1  r2 = r2  r3 = r3  r4 = r4  cell = cell  audio = audio
  inputs = inputs  cellMotion = cellMotion  sound = sound  door = door  gate = gate
  PullPoints = {p1}
  Requests = {r1, r2, r3}
  Generators = {cell}
  Sources <- OneSource
  Signals <- OneSignals
  SyncSources <- OneSync
  Sensed = {}
  MaxChanges <- OneMaxChanges
  None = None
SPECIFICATION Spec
INVARIANT NoTimeoutAfterUnsubscribe
CHECK_DEADLOCK FALSE

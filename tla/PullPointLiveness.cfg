CONSTANTS
  p1 = p1  p2 = p2  r1 = r1  r2 = r2  r3 = r3  r4 = r4  cell = cell  audio = audio
  inputs = inputs  cellMotion = cellMotion  sound = sound  door = door  gate = gate
  PullPoints = {p1, p2}
  Requests = {r1, r2, r3}
  Generators = {inputs}
  Sources <- InputSources
  Signals <- InputSignals
  SyncSources <- InputSync
  Sensed = {door, gate}
  MaxChanges <- InputMaxChanges
  None = None
SPECIFICATION FairSpec
INVARIANTS StreamInOrder NothingMissed
PROPERTY PullIsAnswered
CHECK_DEADLOCK FALSE

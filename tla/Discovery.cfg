CONSTANTS
  Clients = {c1, c2}
  Ids = {id1, id2}
  DigitIds <- None
  MultiLineIds <- None
  AlteredIds <- None
  MaxProbes = 3
SPECIFICATION FairSpec
INVARIANTS TypeOK LoopHasOneReceive AnswersRelateToTheirProbes AnsweredAtMostOnce
PROPERTY EveryProbeIsAnswered
CHECK_DEADLOCK FALSE

CONSTANTS
  Clients = {c1, c2}
  Ids = {id1, digit1}
  DigitIds = {digit1}
  MultiLineIds <- None
  AlteredIds <- None
  MaxProbes = 2
SPECIFICATION Spec
INVARIANT AnswersRelateToTheirProbes
CHECK_DEADLOCK FALSE

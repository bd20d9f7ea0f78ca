SPECIFICATION Spec
CONSTANTS
  s1 = s1
  s2 = s2
  NoSsrc = NoSsrc
  Ssrc <- MCSsrc
  MaxConfig = 3
  MaxBus = 2
SYMMETRY MCSymmetry
INVARIANTS
  TypeOK
  AssertNeedsSecondSource
  FreedNeedsMistake
  CarefulReceiversHear
  DigitsBelongToTheCall
CHECK_DEADLOCK FALSE

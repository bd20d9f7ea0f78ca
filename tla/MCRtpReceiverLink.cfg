SPECIFICATION Spec
CONSTANTS
  s1 = s1
  s2 = s2
  NoSsrc = NoSsrc
  Ssrc <- MCSsrc
  MaxConfig = 1
  MaxBus = 2
INVARIANTS
  PadLinkOk
CHECK_DEADLOCK FALSE

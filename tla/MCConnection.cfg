SPECIFICATION Spec
CONSTANTS
  c1 = c1
  c2 = c2
  NoConn = NoConn
  Conn <- MCBoth
  Capacity = 2
  MaxSent <- MCBothSent
  MaxWrites = 1
INVARIANTS
  TypeOK
  OneAnswerPerRequest
  WriteErrorsNeedHaste
  WaitingClientsReadWhole
  FreedSocketNeedsHangUp
CHECK_DEADLOCK FALSE

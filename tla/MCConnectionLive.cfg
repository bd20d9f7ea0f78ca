SPECIFICATION FairSpec
CONSTANTS
  c1 = c1
  c2 = c2
  NoConn = NoConn
  Conn <- MCAlone
  Capacity = 2
  MaxSent <- MCAloneSent
  MaxWrites = 2
PROPERTIES
  AnswersArrive
CHECK_DEADLOCK FALSE

SPECIFICATION TakeoverSpec
CONSTANTS
  good = good
  broken = broken
  NoFile = NoFile
  File <- MCFile
  Broken <- MCBroken
  Foreign = {}
  Requests <- MCRequests
  MaxList = 3
  MaxBus = 2
  MaxOld = 1
  SeqMod = 3
  StampMod = 6
  Frame = 5
INVARIANTS TypeOKTakeover FilesFollowOn FlawsHaveCauses NumbersInStep
PROPERTIES PlaysListsBetween SilentOnlyByOldEos

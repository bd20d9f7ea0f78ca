SPECIFICATION FairSpec
CONSTANTS
  good = good
  broken = broken
  foreign = foreign
  NoFile = NoFile
  File <- MCFile
  Broken <- MCBroken
  Foreign <- MCForeign
  Requests <- MCRequests
  MaxList = 3
  MaxBus = 3
INVARIANTS TypeOK IndexWithinList NowPlaying
PROPERTIES StallNeedsStaleEos CutShortOnlyByStaleEos PlaysLists FileEnds

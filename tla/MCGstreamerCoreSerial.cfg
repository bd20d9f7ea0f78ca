SPECIFICATION SerialSpec
CONSTANTS
  good = good
  broken = broken
  foreign = foreign
  NoFile = NoFile
  Garbage = Garbage
  File <- MCFile
  Broken <- MCBroken
  Foreign <- MCForeign
  Requests <- MCRequests
  MaxList = 3
  MaxBus = 3
PROPERTIES ImplementsPlaylist

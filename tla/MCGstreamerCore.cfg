SPECIFICATION Spec
CONSTANTS
  good = good
  other = other
  foreign = foreign
  NoFile = NoFile
  Garbage = Garbage
  File <- MCFile
  Broken <- MCBroken
  Foreign <- MCForeign
  Requests <- MCRequests
  MaxList = 3
  MaxBus = 2
INVARIANTS TypeOK BoundsNeedOverlap LinkNeedsOverlap LifetimesNeedOverlap PlayFindsSilence ListAndFilesrcAgree

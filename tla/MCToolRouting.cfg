SPECIFICATION Spec
CONSTANTS
  t1 = t1
  t2 = t2
  t3 = t3
  t4 = t4
  NoTool = NoTool
  AMR_NB = AMR_NB
  PCMA = PCMA
  Tool <- MCTool
  Codec <- MCCodec
SYMMETRY Symmetry
INVARIANTS TypeOK RouteHasCore CarefulClientsReachSenders FreedNeedsRemoval

SPECIFICATION FairSpec
CONSTANTS
  main = main
  src = src
  sink = sink
  Streaming <- MCStreaming
  MaxInterrupts = 3
INVARIANTS TypeOK ToneFollowsFlag SecondInterruptQuits FaultsHaveCauses
PROPERTIES QuitEnds

----------------------- MODULE MCGstreamerCoreSerial ------------------------
\* GstreamerCoreSerial with the names and requests of MCPlaylist.
EXTENDS GstreamerCoreSerial

CONSTANTS good, broken, foreign

MCFile == {good, broken, foreign}
MCBroken == {broken}
MCForeign == {foreign}
MCRequests == UNION {[1 .. n -> MCFile] : n \in 1 .. 2}
=============================================================================

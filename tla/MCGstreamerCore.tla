--------------------------- MODULE MCGstreamerCore --------------------------
\* GstreamerCore with two names to play and one without the prefix.
EXTENDS GstreamerCore
CONSTANTS good, other, foreign

MCFile == {good, other, foreign}
MCBroken == {}
MCForeign == {foreign}
MCRequests == {<<good>>, <<good, other>>, <<other, foreign>>}
=============================================================================

----------------------------- MODULE MCPlaylist -----------------------------
\* Playlist with three names, one that cannot be opened and one that lacks the
\* prefix, and requests of up to two names.
EXTENDS Playlist

CONSTANTS good, broken, foreign

MCFile == {good, broken, foreign}
MCBroken == {broken}
MCForeign == {foreign}
MCRequests == UNION {[1 .. n -> MCFile] : n \in 0 .. 2}
=============================================================================

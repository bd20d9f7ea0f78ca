----------------------------- MODULE MCTakeover -----------------------------
\* Takeover with a file that can be opened and one that cannot.
EXTENDS Takeover

CONSTANTS good, broken

MCFile == {good, broken}
MCBroken == {broken}
MCRequests == {<<good>>, <<good, good>>, <<broken>>}
=============================================================================

--------------------------- MODULE MCToolRouting ----------------------------
\* ToolRouting with four tools: two senders, a receiver, a tool that shares.
EXTENDS ToolRouting, TLC

CONSTANTS t1, t2, t3, t4, PCMA

MCTool == {t1, t2, t3, t4}
MCCodec == {AMR_NB, PCMA}
Symmetry == Permutations(MCTool)
=============================================================================

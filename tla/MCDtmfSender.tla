---------------------------- MODULE MCDtmfSender ----------------------------
\* DtmfSender with the threads of rtpdtmfsrc and of udpsink and three interrupts.
EXTENDS DtmfSender

CONSTANTS src, sink

MCStreaming == {src, sink}
=============================================================================

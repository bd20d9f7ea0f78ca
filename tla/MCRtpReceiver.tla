--------------------------- MODULE MCRtpReceiver ----------------------------
(***************************************************************************)
(* Constants of RtpReceiver for TLC.                                       *)
(***************************************************************************)
EXTENDS RtpReceiver, TLC

CONSTANTS s1, s2

MCSsrc == {s1, s2}
MCSymmetry == Permutations(MCSsrc)

=============================================================================

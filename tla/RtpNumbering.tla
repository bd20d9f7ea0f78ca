--------------------------- MODULE RtpNumbering -----------------------------
(***************************************************************************)
(* The numbers on the packets of a sender.  Every change of source takes   *)
(* the payloader rtppay through READY, where it forgets its counters; the  *)
(* handlers of Playlist read them from it and hand them back as offsets:   *)
(* as they are when silence and a file change places, one packet on when   *)
(* one file follows another.  SSRC and receiver stay the same, so the      *)
(* receiver sees any packet numbered twice and any number left out.        *)
(***************************************************************************)
EXTENDS Playlist

CONSTANTS
  SeqMod,    \* 2^16: seqnum is a guint16
  StampMod,  \* 2^32: timestamp is a guint32
  Frame      \* the timestamps an AMR packet takes, 160 in the code

ASSUME NumberingAssumption ==
  /\ SeqMod \in Nat \ {0, 1}
  /\ StampMod \in Nat \ {0, 1}
  /\ Frame \in 1 .. StampMod - 1

VARIABLES
  seqnum, timestamp,  \* GstRTPBasePayload: the last packet's, or the offsets
  seqnum_offset,      \* the property of rtppay; -1 stands for a random number
  fresh,              \* no packet has left since rtppay last left READY
  sent,               \* history: the last packet of this pipeline, if any
  cause               \* history: what happened since then

numbers == <<seqnum, timestamp, seqnum_offset, fresh, sent, cause>>

SeqNum == 0 .. SeqMod - 1
Stamp == 0 .. StampMod - 1
NoPacket == [seq |-> -1, stamp |-> -1]

\* A pipeline made by set_config: offsets left at random.
NewPayloader ==
  /\ seqnum' \in SeqNum /\ timestamp' \in Stamp
  /\ seqnum_offset' = -1
  /\ fresh' = TRUE
  /\ sent' = NoPacket
  /\ cause' = {}

NumberingInit ==
  /\ Init
  /\ seqnum \in SeqNum /\ timestamp \in Stamp
  /\ seqnum_offset = -1
  /\ fresh = TRUE
  /\ sent = NoPacket
  /\ cause = {}

-----------------------------------------------------------------------------
\* g_object_set refuses a value the property cannot hold and keeps the old one.
SetSeqnumOffset(n) == seqnum_offset' = IF n \in SeqNum THEN n ELSE seqnum_offset

\* Out of READY the payloader starts from its offsets.
Restarted ==
  /\ seqnum' \in (IF seqnum_offset' = -1 THEN SeqNum ELSE {seqnum_offset'})
  /\ fresh' = TRUE
  /\ UNCHANGED sent

Because(what, holds) == IF holds THEN {what} ELSE {}

\* Mutant: the timestamp is computed in more than 32 bits.
HandOverWide(frames, packets, why) ==
  /\ timestamp' = timestamp + frames * Frame
  /\ SetSeqnumOffset(seqnum + packets)
  /\ Restarted
  /\ cause' = cause \cup why

\* The timestamp wraps as the guint32 it is; the guint16 sequence number is
\* promoted to int and does not.
HandOver(frames, packets, why) ==
  /\ timestamp' = (timestamp + frames * Frame) % StampMod
  /\ SetSeqnumOffset(seqnum + packets)
  /\ Restarted
  /\ cause' = cause \cup why \cup Because("wrap", seqnum + packets >= SeqMod)

\* Silence and a file change places: the numbers are handed back unchanged.
Swap == HandOver(0, 0, {"swap"})

\* Mutants: the next file as at the other changes; the timestamp forgotten; the
\* counters taken for the next packet's and moved on twice.
FollowOnRepeats == HandOver(0, 0, Because("empty", fresh))
FollowOnFrameLost == HandOver(0, 1, Because("empty", fresh))
FollowOnSkips == HandOver(2, 2, Because("empty", fresh))

\* The next file: one packet on, whether or not one has left.
FollowOn == HandOver(1, 1, Because("empty", fresh))

\* The numbers of the packet that leaves next.
NextSeq == IF fresh THEN seqnum ELSE (seqnum + 1) % SeqMod
NextStamp == IF fresh THEN timestamp ELSE (timestamp + Frame) % StampMod

\* rtppay sends a packet of the silence or of a file it can read.
Send ==
  /\ up /\ state = "PLAYING"
  /\ source = "file" => ~ended /\ location \notin Broken
  /\ seqnum' = NextSeq /\ timestamp' = NextStamp
  /\ fresh' = FALSE
  /\ sent' = [seq |-> NextSeq, stamp |-> NextStamp]
  /\ cause' = {}
  /\ UNCHANGED <<vars, seqnum_offset>>

-----------------------------------------------------------------------------
\* Playlist's handlers, with what each does about the numbers.

ClearNumbers == ClearPlayList /\ IF source = "file" THEN Swap ELSE UNCHANGED numbers

PlayNumbers == PlayFile /\ IF source = "test" THEN Swap ELSE UNCHANGED numbers

\* What the EOS branch does about them, whichever pipeline the message is from.
EosNumbers ==
  \/ current_file_index + 1 # Len(filelist) /\ FollowOn
  \/ current_file_index + 1 = Len(filelist) /\ source = "file" /\ Swap
  \/ current_file_index + 1 = Len(filelist) /\ source # "file" /\ UNCHANGED numbers

Unnumbered ==
  /\ \/ \E list \in Requests : AppandPlayList(list)
     \/ Remove
     \/ BusError
     \/ EndOfRun
     \/ Terminated
  /\ UNCHANGED numbers

NumberingNext ==
  \/ ClearNumbers \/ PlayNumbers
  \/ BusEos /\ EosNumbers
  \/ Configure /\ NewPayloader
  \/ Unnumbered
  \/ Send

NumberingSpec == NumberingInit /\ [][NumberingNext]_<<vars, numbers>>

-----------------------------------------------------------------------------
\* The counters stay within their width, and -1 is the only offset out of it.
TypeOKNumbers ==
  /\ seqnum \in SeqNum /\ timestamp \in Stamp
  /\ seqnum_offset \in SeqNum \cup {-1}
  /\ fresh \in BOOLEAN
  /\ sent \in [seq : SeqNum, stamp : Stamp] \cup {NoPacket}
  /\ cause \subseteq {"swap", "empty", "wrap"}

\* From one file to the next the receiver sees no seam: after any number of
\* files, lists and clears the first packet of a file follows on the last of the
\* file before it, unless silence came between, a file was empty or the number
\* was the last of its width.
FilesFollowOn ==
  sent # NoPacket /\ cause = {} =>
    NextSeq = (sent.seq + 1) % SeqMod /\ NextStamp = (sent.stamp + Frame) % StampMod

\* Every flaw the receiver sees has its cause: a number is used for two packets
\* running only where silence and a file change places, and left out only for a
\* file that sent nothing, or either at the wrap; no sequence of changes without
\* those does it.
FlawsHaveCauses ==
  /\ NextSeq = sent.seq => cause \cap {"swap", "wrap"} # {}
  /\ sent # NoPacket /\ NextSeq \notin {sent.seq, (sent.seq + 1) % SeqMod} =>
       cause \cap {"empty", "wrap"} # {}

\* Short of the wrap both numbers tell the receiver of the same loss: the
\* timestamp has moved on by as many frames as the sequence number by packets.
NumbersInStep ==
  sent # NoPacket /\ "wrap" \notin cause =>
    \E n \in 0 .. SeqMod * StampMod :
      /\ NextSeq = (sent.seq + n) % SeqMod
      /\ NextStamp = (sent.stamp + n * Frame) % StampMod

=============================================================================

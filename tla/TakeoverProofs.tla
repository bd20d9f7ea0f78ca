--------------------------- MODULE TakeoverProofs ---------------------------
(***************************************************************************)
(* RtpNumbering: the numbers on a sender's packets, for any widths of the  *)
(* counters and any length of a frame.  All handlers do to them is one of  *)
(* five steps; what the receiver sees of the changes since the last packet *)
(* follows from how far the counters are ahead of it, and that from what   *)
(* the changes were.                                                       *)
(*                                                                         *)
(* Takeover: what it promises, for any number of replaced pipelines.  The  *)
(* invariant is that of Playlist and that of the numbers: the handler of   *)
(* an EOS keeps both whatever is on the bus, so also when the message is   *)
(* one of another pipeline.                                                *)
(***************************************************************************)
EXTENDS Takeover, PlaylistProofs, FiniteSetTheorems

NumberStep == Swap \/ FollowOn \/ NewPayloader \/ Send \/ UNCHANGED numbers

\* The counters are ahead of the last packet by what has happened since.
Ahead ==
  /\ cause = {} =>
       seqnum = (sent.seq + 1) % SeqMod /\ timestamp = (sent.stamp + Frame) % StampMod
  /\ cause \cap {"swap", "wrap"} = {} => seqnum > sent.seq
  /\ cause \cap {"empty", "wrap"} = {} => seqnum \in {sent.seq, (sent.seq + 1) % SeqMod}
  /\ "wrap" \notin cause =>
       seqnum >= sent.seq /\ timestamp = (sent.stamp + (seqnum - sent.seq) * Frame) % StampMod

\* They are those of the last packet until rtppay goes through READY.
NInv ==
  /\ TypeOKNumbers
  /\ ~fresh => /\ cause = {} /\ sent # NoPacket
               /\ seqnum = sent.seq /\ timestamp = sent.stamp
  /\ fresh /\ sent # NoPacket => Ahead

-----------------------------------------------------------------------------
\* Remainders of what the counters can be moved on by.
LEMMA Remainder ==
  ASSUME NEW m \in Nat \ {0}, NEW n \in Nat
  PROVE  /\ n % m \in 0 .. m - 1
         /\ n < m => n % m = n
         /\ n = m => n % m = 0
  BY Z3

\* A number is never followed by itself.
LEMMA Following ==
  ASSUME NEW n \in SeqNum
  PROVE  /\ (n + 1) % SeqMod \in SeqNum /\ (n + 1) % SeqMod # n
         /\ n + 1 < SeqMod => (n + 1) % SeqMod = n + 1
<1>1. SeqMod \in Nat /\ SeqMod > 1 /\ n \in Nat /\ n < SeqMod
  BY NumberingAssumption DEF SeqNum
<1>2. SeqMod \in Nat \ {0} /\ n + 1 \in Nat
  BY <1>1
<1>3. /\ (n + 1) % SeqMod \in 0 .. SeqMod - 1
      /\ n + 1 < SeqMod => (n + 1) % SeqMod = n + 1
      /\ n + 1 = SeqMod => (n + 1) % SeqMod = 0
  BY <1>2, Remainder
<1>. QED
  BY <1>1, <1>3 DEF SeqNum

LEMMA StampType ==
  ASSUME NEW n \in Nat
  PROVE  n % StampMod \in Stamp
  BY Remainder, NumberingAssumption DEF Stamp

\* Quotient and remainder.
LEMMA Division ==
  ASSUME NEW m \in Nat \ {0}, NEW n \in Nat
  PROVE  /\ n \div m \in Nat /\ n % m \in 0 .. m - 1
         /\ n = m * (n \div m) + (n % m)
  BY Z3

LEMMA NextMultiple ==
  ASSUME NEW m \in Nat \ {0}, NEW p \in Int, NEW q \in Int, p + 1 <= q
  PROVE  m * p + m <= m * q
<1>1. m * (q - (p + 1)) >= 0
  BY Z3
<1>2. m * (q - (p + 1)) = m * q - (m * p + m)
  BY Z3
<1>3. m * q \in Int /\ m * p \in Int
  OBVIOUS
<1>. QED
  BY <1>1, <1>2, <1>3, Z3

\* There is only one way to divide.
LEMMA DivisionUnique ==
  ASSUME NEW m \in Nat \ {0}, NEW q \in Nat, NEW r \in 0 .. m - 1
  PROVE  (m * q + r) % m = r
<1>. DEFINE n == m * q + r
            p == n \div m
            s == n % m
<1>1. m * q \in Nat /\ n \in Nat
  BY Z3
<1>2. p \in Nat /\ s \in 0 .. m - 1 /\ n = m * p + s
  BY <1>1, Division
<1>3. m * p \in Nat
  BY <1>2, Z3
<1>4. ~(p + 1 <= q)
  <2>. SUFFICES ASSUME p + 1 <= q
                PROVE  FALSE
    OBVIOUS
  <2>1. m * p + m <= m * q
    BY <1>2, NextMultiple
  <2>2. n = m * q + r /\ n = m * p + s
    BY <1>2
  <2>. QED
    BY <1>1, <1>2, <1>3, <2>1, <2>2
<1>5. ~(q + 1 <= p)
  <2>. SUFFICES ASSUME q + 1 <= p
                PROVE  FALSE
    OBVIOUS
  <2>1. m * q + m <= m * p
    BY <1>2, NextMultiple
  <2>2. n = m * q + r /\ n = m * p + s
    BY <1>2
  <2>. QED
    BY <1>1, <1>2, <1>3, <2>1, <2>2
<1>6. p = q
  BY <1>2, <1>4, <1>5
<1>. QED
  BY <1>1, <1>2, <1>6

\* A remainder can be taken before or after a number is added.
LEMMA RemainderPlus ==
  ASSUME NEW m \in Nat \ {0}, NEW n \in Nat, NEW k \in Nat
  PROVE  ((n % m) + k) % m = (n + k) % m
<1>. DEFINE a == (n % m) + k
            q == n \div m
            p == a \div m
            s == a % m
<1>1. a \in Nat /\ n % m \in Nat /\ q \in Nat /\ n = m * q + (n % m)
  BY Division
<1>2. s \in 0 .. m - 1 /\ p \in Nat /\ a = m * p + s
  BY <1>1, Division
<1>3. n + k = m * q + m * p + s
  BY <1>1, <1>2
<1>4. m * q + m * p = m * (q + p) /\ q + p \in Nat
  BY <1>1, <1>2
<1>5. n + k = m * (q + p) + s
  BY <1>3, <1>4
<1>6. (n + k) % m = s
  BY <1>2, <1>4, <1>5, DivisionUnique
<1>. QED
  BY <1>6

-----------------------------------------------------------------------------
\* When silence and a file change places the numbers stay as they are.
LEMMA SwapNInv == NInv /\ Swap => NInv'
<1>. SUFFICES ASSUME NInv, Swap
              PROVE  NInv'
  OBVIOUS
<1>1. /\ seqnum \in SeqNum /\ seqnum \in Nat /\ SeqMod \in Nat /\ seqnum < SeqMod
      /\ timestamp \in Nat /\ StampMod \in Nat \ {0} /\ timestamp < StampMod
      /\ Frame \in Nat
  BY NumberingAssumption DEF NInv, TypeOKNumbers, SeqNum, Stamp
<1>2. timestamp' = timestamp
  <2>1. timestamp + 0 * Frame = timestamp
    BY <1>1
  <2>2. timestamp' = timestamp % StampMod
    BY <2>1 DEF Swap, HandOver
  <2>. QED
    BY <1>1, <2>2, Remainder
<1>3. /\ seqnum_offset' = seqnum /\ seqnum' = seqnum
      /\ fresh' = TRUE /\ sent' = sent
  BY <1>1 DEF Swap, HandOver, SetSeqnumOffset, Restarted, SeqNum
<1>4. cause' = cause \cup {"swap"}
  BY <1>1 DEF Swap, HandOver, Because
<1>5. TypeOKNumbers'
  BY <1>2, <1>3, <1>4 DEF NInv, TypeOKNumbers
<1>6. sent # NoPacket => Ahead'
  <2>. SUFFICES ASSUME sent # NoPacket
                PROVE  Ahead'
    OBVIOUS
  <2>1. sent.seq \in SeqNum /\ sent.stamp \in Stamp
    BY DEF NInv, TypeOKNumbers
  <2>2. CASE fresh
    <3>1. Ahead
      BY <2>2 DEF NInv
    <3>. QED
      BY <1>2, <1>3, <1>4, <3>1 DEF Ahead
  <2>3. CASE ~fresh
    <3>1. seqnum = sent.seq /\ timestamp = sent.stamp
      BY <2>3 DEF NInv
    <3>2. timestamp = (sent.stamp + (seqnum - sent.seq) * Frame) % StampMod
      <4>1. sent.stamp + (seqnum - sent.seq) * Frame = timestamp
        BY <1>1, <3>1
      <4>. QED
        BY <1>1, <4>1, Remainder
    <3>3. cause' # {} /\ cause' \cap {"swap", "wrap"} # {}
      BY <1>4
    <3>4. sent' = sent /\ seqnum' = seqnum /\ timestamp' = timestamp /\ seqnum >= sent.seq
      BY <1>1, <1>2, <1>3, <3>1
    <3>. QED
      BY <3>1, <3>2, <3>3, <3>4 DEF Ahead
  <2>. QED
    BY <2>2, <2>3 DEF NInv, TypeOKNumbers
<1>. QED
  BY <1>3, <1>5, <1>6 DEF NInv

\* From file to file they move on by one packet and one frame, from wherever they are.
LEMMA FollowOnNInv == NInv /\ FollowOn => NInv'
<1>. SUFFICES ASSUME NInv, FollowOn
              PROVE  NInv'
  OBVIOUS
<1>1. /\ seqnum \in SeqNum /\ seqnum \in Nat /\ SeqMod \in Nat /\ seqnum < SeqMod
      /\ timestamp \in Nat /\ StampMod \in Nat \ {0} /\ timestamp < StampMod
      /\ Frame \in Nat
  BY NumberingAssumption DEF NInv, TypeOKNumbers, SeqNum, Stamp
<1>2. timestamp' = (timestamp + Frame) % StampMod /\ timestamp' \in Stamp
  <2>1. 1 * Frame = Frame
    BY <1>1
  <2>2. timestamp' = (timestamp + Frame) % StampMod
    BY <2>1 DEF FollowOn, HandOver
  <2>. QED
    BY <1>1, <2>2, StampType
<1>3. /\ seqnum' \in SeqNum /\ seqnum_offset' \in SeqNum \cup {-1}
      /\ fresh' = TRUE /\ sent' = sent
  BY DEF FollowOn, HandOver, SetSeqnumOffset, Restarted, NInv, TypeOKNumbers
<1>4. cause' \subseteq {"swap", "empty", "wrap"}
  BY DEF FollowOn, HandOver, Because, NInv, TypeOKNumbers
<1>5. TypeOKNumbers'
  BY <1>2, <1>3, <1>4 DEF NInv, TypeOKNumbers
<1>6. CASE seqnum + 1 >= SeqMod
  <2>1. "wrap" \in cause'
    BY <1>6 DEF FollowOn, HandOver, Because
  <2>2. Ahead'
    BY <2>1 DEF Ahead
  <2>. QED
    BY <1>3, <1>5, <2>2 DEF NInv
<1>7. CASE seqnum + 1 < SeqMod
  <2>1. seqnum' = seqnum + 1
    BY <1>1, <1>7 DEF FollowOn, HandOver, SetSeqnumOffset, Restarted, SeqNum
  <2>2. cause' = cause \cup (IF fresh THEN {"empty"} ELSE {})
    BY <1>1, <1>7 DEF FollowOn, HandOver, Because
  <2>3. ASSUME sent # NoPacket
        PROVE  Ahead'
    <3>1. sent.seq \in Nat /\ sent.stamp \in Nat
      BY <2>3 DEF NInv, TypeOKNumbers, SeqNum, Stamp
    <3>2. CASE fresh
      <4>1. Ahead /\ "empty" \in cause'
        BY <2>2, <2>3, <3>2 DEF NInv
      <4>2. ASSUME "wrap" \notin cause'
            PROVE  /\ seqnum' >= sent.seq
                   /\ timestamp' = (sent.stamp + (seqnum' - sent.seq) * Frame) % StampMod
        <5>. DEFINE d == seqnum - sent.seq
        <5>1. d \in Nat /\ timestamp = (sent.stamp + d * Frame) % StampMod
          BY <1>1, <2>2, <3>1, <4>1, <4>2 DEF Ahead
        <5>2. sent.stamp + d * Frame \in Nat
          BY <1>1, <3>1, <5>1
        <5>3. timestamp' = ((sent.stamp + d * Frame) + Frame) % StampMod
          BY <1>1, <1>2, <5>1, <5>2, RemainderPlus
        <5>4. (sent.stamp + d * Frame) + Frame = sent.stamp + (d + 1) * Frame
          BY <1>1, <3>1, <5>1
        <5>5. d + 1 = seqnum' - sent.seq
          BY <1>1, <2>1, <3>1
        <5>. QED
          BY <1>1, <2>1, <3>1, <5>1, <5>3, <5>4, <5>5
      <4>3. cause' \cap {"swap", "wrap"} = {} => seqnum' > sent.seq
        BY <1>1, <2>1, <2>2, <3>1, <4>1 DEF Ahead
      <4>. QED
        BY <1>3, <4>1, <4>2, <4>3 DEF Ahead
    <3>3. CASE ~fresh
      <4>1. seqnum = sent.seq /\ timestamp = sent.stamp /\ cause' = {}
        BY <2>2, <3>3 DEF NInv
      <4>2. seqnum' = (sent.seq + 1) % SeqMod
        BY <1>1, <1>7, <2>1, <4>1, Following
      <4>3. timestamp' = (sent.stamp + (seqnum' - sent.seq) * Frame) % StampMod
        <5>1. (seqnum' - sent.seq) * Frame = Frame
          BY <1>1, <2>1, <4>1
        <5>. QED
          BY <1>2, <4>1, <5>1
      <4>4. timestamp' = (sent.stamp + Frame) % StampMod
        BY <1>2, <4>1
      <4>5. seqnum' > sent.seq /\ seqnum' >= sent.seq /\ sent' = sent
        BY <1>1, <1>3, <2>1, <4>1
      <4>. QED
        BY <4>2, <4>3, <4>4, <4>5 DEF Ahead
    <3>. QED
      BY <3>2, <3>3
  <2>. QED
    BY <1>3, <1>5, <2>3 DEF NInv
<1>. QED
  BY <1>1, <1>6, <1>7

\* What leaves next has numbers that fit.
LEMMA NextNumbers == NInv => NextSeq \in SeqNum /\ NextStamp \in Stamp
<1>. SUFFICES ASSUME NInv
              PROVE  NextSeq \in SeqNum /\ NextStamp \in Stamp
  OBVIOUS
<1>1. seqnum \in SeqNum /\ timestamp \in Stamp /\ fresh \in BOOLEAN
  BY DEF NInv, TypeOKNumbers
<1>2. (seqnum + 1) % SeqMod \in SeqNum
  BY <1>1, Following
<1>3. (timestamp + Frame) % StampMod \in Stamp
  BY <1>1, StampType, NumberingAssumption DEF Stamp
<1>. QED
  BY <1>1, <1>2, <1>3 DEF NextSeq, NextStamp

LEMMA SendNInv == NInv /\ Send => NInv'
<1>. SUFFICES ASSUME NInv, Send
              PROVE  NInv'
  OBVIOUS
<1>1. NextSeq \in SeqNum /\ NextStamp \in Stamp
  BY NextNumbers
<1>2. /\ seqnum' = NextSeq /\ timestamp' = NextStamp /\ fresh' = FALSE /\ cause' = {}
      /\ sent' = [seq |-> NextSeq, stamp |-> NextStamp] /\ seqnum_offset' = seqnum_offset
  BY DEF Send
<1>3. sent' \in [seq : SeqNum, stamp : Stamp] /\ sent'.seq = NextSeq /\ sent'.stamp = NextStamp
  BY <1>1, <1>2
<1>4. sent' # NoPacket
  BY <1>1, <1>3 DEF NoPacket, SeqNum
<1>5. TypeOKNumbers'
  BY <1>1, <1>2, <1>3 DEF NInv, TypeOKNumbers
<1>. QED
  BY <1>2, <1>3, <1>4, <1>5 DEF NInv

\* Whatever is done to the numbers keeps the invariant.
LEMMA NumberStepNInv == NInv /\ NumberStep => NInv'
<1>. SUFFICES ASSUME NInv, NumberStep
              PROVE  NInv'
  OBVIOUS
<1>1. CASE NewPayloader
  BY <1>1 DEF NewPayloader, NInv, TypeOKNumbers
<1>2. CASE UNCHANGED numbers
  BY <1>2 DEF numbers, NInv, TypeOKNumbers, Ahead
<1>. QED
  BY <1>1, <1>2, SwapNInv, FollowOnNInv, SendNInv DEF NumberStep

\* At first nothing has been sent.
LEMMA InitNInv == NumberingInit => NInv
  BY DEF NumberingInit, NInv, TypeOKNumbers

\* Every handler does one of the five.
LEMMA NumberingNumbers == NumberingNext => NumberStep
  BY DEF NumberingNext, ClearNumbers, PlayNumbers, EosNumbers, Unnumbered, NumberStep

-----------------------------------------------------------------------------
\* What the invariant says of the packet that leaves next.
LEMMA NInvFollowOn == NInv => FilesFollowOn
<1>. SUFFICES ASSUME NInv, sent # NoPacket, cause = {}
              PROVE  NextSeq = (sent.seq + 1) % SeqMod /\ NextStamp = (sent.stamp + Frame) % StampMod
  BY DEF FilesFollowOn
<1>1. CASE fresh
  BY <1>1 DEF NInv, Ahead, NextSeq, NextStamp
<1>2. CASE ~fresh
  BY <1>2 DEF NInv, NextSeq, NextStamp
<1>. QED
  BY <1>1, <1>2

LEMMA NInvFlaws == NInv => FlawsHaveCauses
<1>. SUFFICES ASSUME NInv
              PROVE  FlawsHaveCauses
  OBVIOUS
<1>1. NextSeq \in Nat
  BY NextNumbers, NumberingAssumption DEF SeqNum
<1>2. CASE sent = NoPacket
  BY <1>1, <1>2 DEF FlawsHaveCauses, NoPacket
<1>3. CASE sent # NoPacket /\ fresh
  <2>1. Ahead /\ NextSeq = seqnum /\ sent.seq \in Nat
    BY <1>3 DEF NInv, NextSeq, TypeOKNumbers, SeqNum
  <2>. QED
    BY <1>1, <2>1 DEF Ahead, FlawsHaveCauses
<1>4. CASE sent # NoPacket /\ ~fresh
  <2>1. NextSeq = (sent.seq + 1) % SeqMod /\ sent.seq \in SeqNum
    BY <1>4 DEF NInv, NextSeq, TypeOKNumbers
  <2>2. NextSeq # sent.seq
    BY <2>1, Following
  <2>. QED
    BY <2>1, <2>2 DEF FlawsHaveCauses
<1>. QED
  BY <1>2, <1>3, <1>4

\* The number of packets is at most the width of the sequence number.
LEMMA NInvInStep == NInv => NumbersInStep
<1>. SUFFICES ASSUME NInv, sent # NoPacket, "wrap" \notin cause
              PROVE  \E n \in 0 .. SeqMod * StampMod :
                       /\ NextSeq = (sent.seq + n) % SeqMod
                       /\ NextStamp = (sent.stamp + n * Frame) % StampMod
  BY DEF NumbersInStep
<1>1. /\ SeqMod \in Nat /\ SeqMod > 1 /\ StampMod \in Nat /\ StampMod > 1 /\ Frame \in Nat
      /\ seqnum \in Nat /\ seqnum < SeqMod /\ sent.seq \in Nat /\ sent.stamp \in Nat
  BY NumberingAssumption DEF NInv, TypeOKNumbers, SeqNum, Stamp
<1>2. SeqMod * StampMod \in Nat /\ SeqMod <= SeqMod * StampMod
  BY <1>1, Z3
<1>3. CASE fresh
  <2>. DEFINE n == seqnum - sent.seq
  <2>1. /\ seqnum >= sent.seq /\ NextSeq = seqnum
        /\ NextStamp = (sent.stamp + n * Frame) % StampMod
    BY <1>3 DEF NInv, Ahead, NextSeq, NextStamp
  <2>2. n \in 0 .. SeqMod * StampMod /\ sent.seq + n = seqnum
    BY <1>1, <1>2, <2>1
  <2>3. seqnum % SeqMod = seqnum
    <3>1. SeqMod \in Nat \ {0}
      BY <1>1
    <3>. QED
      BY <1>1, <3>1, Remainder
  <2>. QED
    BY <2>1, <2>2, <2>3
<1>4. CASE ~fresh
  <2>1. NextSeq = (sent.seq + 1) % SeqMod /\ NextStamp = (sent.stamp + Frame) % StampMod
    BY <1>4 DEF NInv, NextSeq, NextStamp
  <2>2. 1 * Frame = Frame /\ 1 \in 0 .. SeqMod * StampMod
    BY <1>1, <1>2
  <2>. QED
    BY <2>1, <2>2
<1>. QED
  BY <1>3, <1>4

\* A sender nothing of which has been replaced numbers its packets as the three
\* properties say, for any widths and any frame.
THEOREM NumbersServed ==
  NumberingSpec => [](TypeOKNumbers /\ FilesFollowOn /\ FlawsHaveCauses /\ NumbersInStep)
<1>1. NInv /\ [NumberingNext]_<<vars, numbers>> => NInv'
  <2>1. ASSUME NInv, UNCHANGED <<vars, numbers>>
        PROVE  NumberStep
    BY <2>1 DEF NumberStep
  <2>2. ASSUME NInv, [NumberingNext]_<<vars, numbers>>
        PROVE  NumberStep
    BY <2>1, <2>2, NumberingNumbers
  <2>. QED
    BY <2>2, NumberStepNInv
<1>2. NInv => TypeOKNumbers /\ FilesFollowOn /\ FlawsHaveCauses /\ NumbersInStep
  BY NInvFollowOn, NInvFlaws, NInvInStep DEF NInv
<1>. QED
  BY InitNInv, <1>1, <1>2, PTL DEF NumberingSpec

-----------------------------------------------------------------------------
\* Pipelines that were replaced: both invariants, and as many messages of theirs
\* to come as a bus and one end of a file each allow.
TInv ==
  /\ IInv /\ NInv
  /\ Len(bus) <= MaxBus
  /\ old \in 0 .. MaxOld
  /\ stray \in 0 .. old * (MaxBus + 1)

-----------------------------------------------------------------------------
\* Packets and their numbers do not concern list, index and pipeline.
LEMMA NumberingStep == NumberingNext => [Next]_vars
  BY DEF NumberingNext, ClearNumbers, PlayNumbers, Unnumbered, Send, Next, Command, BusCallback

\* A READY, and so either way to handle an EOS, adds no message to the bus.
LEMMA OutdatedLen ==
  ASSUME NEW queue \in Seq(Message)
  PROVE  Len(Outdated(queue)) = Len(queue)
  BY DEF Outdated

LEMMA EosBranchLen ==
  ASSUME NEW rest \in Seq(Message), EosBranch(rest)
  PROVE  Len(bus') = Len(rest)
  BY OutdatedLen DEF EosBranch, GstClear, ToSilence, Advance, Restart

\* No handler fills the bus beyond its bound.
LEMMA BusBounded == IInv /\ [Next]_vars /\ Len(bus) <= MaxBus => Len(bus') <= MaxBus
<1>. SUFFICES ASSUME IInv, [Next]_vars, Len(bus) <= MaxBus
              PROVE  Len(bus') <= MaxBus
  OBVIOUS
<1>1. bus \in Seq(Message) /\ Len(bus) \in Nat /\ MaxBus \in Nat
  BY PlaylistAssumption DEF IInv, TypeOK
<1>2. CASE ClearPlayList \/ PlayFile
  BY <1>1, <1>2, OutdatedLen DEF ClearPlayList, PlayFile, ToSilence, Restart
<1>3. CASE Remove
  <2>1. bus' = << >>
    BY <1>3 DEF Remove
  <2>. QED
    BY <1>1, <2>1
<1>4. CASE BusEos
  <2>1. bus # << >> /\ Len(bus') = Len(Tail(bus))
    BY <1>4, BusEosBranch, EosBranchLen DEF BusEos
  <2>. QED
    BY <1>1, <2>1
<1>5. CASE BusError
  BY <1>1, <1>5 DEF BusError
<1>6. CASE EndOfRun
  BY <1>1, <1>6 DEF EndOfRun
<1>7. CASE UNCHANGED bus
  BY <1>1, <1>7
<1>. QED
  BY <1>2, <1>3, <1>4, <1>5, <1>6, <1>7
  DEF Next, Command, AppandPlayList, Configure, BusCallback, Terminated, vars

LEMMA IntervalSize ==
  ASSUME NEW n \in Nat
  PROVE  IsFiniteSet(1 .. n) /\ Cardinality(1 .. n) = n
<1>1. IsFiniteSet(1 .. n) /\ Cardinality(1 .. n) = IF 1 > n THEN 0 ELSE n - 1 + 1
  BY FS_Interval
<1>2. (IF 1 > n THEN 0 ELSE n - 1 + 1) = n
  OBVIOUS
<1>. QED
  BY <1>1, <1>2

\* A pipeline owes no more EOS messages than its bus holds, and one.
LEMMA OwedType == IInv /\ Len(bus) <= MaxBus => Owed \in 0 .. MaxBus + 1
<1>. SUFFICES ASSUME IInv, Len(bus) <= MaxBus
              PROVE  Owed \in 0 .. MaxBus + 1
  OBVIOUS
<1>. DEFINE owed == {i \in DOMAIN bus : bus[i].kind = "eos"}
<1>1. DOMAIN bus = 1 .. Len(bus) /\ Len(bus) \in Nat /\ MaxBus \in Nat
  BY PlaylistAssumption DEF IInv, TypeOK
<1>2. IsFiniteSet(1 .. Len(bus)) /\ Cardinality(1 .. Len(bus)) = Len(bus)
  BY <1>1, IntervalSize
<1>3. owed \subseteq 1 .. Len(bus)
  BY <1>1
<1>4. IsFiniteSet(owed) /\ Cardinality(owed) <= Len(bus)
  BY <1>2, <1>3, FS_Subset
<1>5. Cardinality(owed) \in Nat
  BY <1>4, FS_CardinalityType
<1>. HIDE DEF owed
<1>6. Cardinality(owed) \in 0 .. MaxBus
  BY <1>1, <1>4, <1>5
<1>. QED
  BY <1>1, <1>6 DEF Owed, owed

\* The new pipeline sends silence, whatever list and index the core has kept.
LEMMA GstParseLaunchSenderTInv == TInv /\ GstParseLaunchSender => TInv'
<1>. SUFFICES ASSUME TInv, GstParseLaunchSender
              PROVE  TInv'
  OBVIOUS
<1>1. /\ source' = "test" /\ location' = NoFile /\ state' = "PLAYING"
      /\ ended' = FALSE /\ bus' = << >>
      /\ UNCHANGED <<filelist, current_file_index, up>>
  BY DEF GstParseLaunchSender
<1>2. bus' \in Seq(Message) /\ Len(bus') <= MaxBus
  BY <1>1, PlaylistAssumption
<1>3. TypeOK'
  BY <1>1, <1>2 DEF TInv, IInv, TypeOK
<1>4. IndexWithinList' /\ NowPlaying' /\ SilenceBeforePlay' /\ FreshMeansEnded'
  BY <1>1 DEF TInv, IInv, IndexWithinList, NowPlaying, SilenceBeforePlay, FreshMeansEnded
<1>5. NInv'
  BY NumberStepNInv DEF GstParseLaunchSender, NumberStep, TInv
<1>6. old' \in 0 .. MaxOld /\ old' = old + 1 /\ old \in Nat
  BY TakeoverAssumption DEF TInv, GstParseLaunchSender
<1>7. stray' \in 0 .. old' * (MaxBus + 1)
  <2>1. Owed \in Nat /\ Owed <= MaxBus + 1 /\ MaxBus \in Nat
    BY OwedType, PlaylistAssumption DEF TInv
  <2>2. stray \in Nat /\ stray <= old * (MaxBus + 1) /\ old * (MaxBus + 1) \in Nat
    BY <1>6, <2>1 DEF TInv
  <2>3. (old + 1) * (MaxBus + 1) = old * (MaxBus + 1) + (MaxBus + 1)
    BY <1>6, <2>1
  <2>4. stray' = stray + Owed
    BY DEF GstParseLaunchSender
  <2>. QED
    BY <1>6, <2>1, <2>2, <2>3, <2>4
<1>. QED
  BY <1>2, <1>3, <1>4, <1>5, <1>6, <1>7 DEF TInv, IInv

\* The handler of a stray EOS is that of any other.
LEMMA StrayEosBranch == TInv /\ StrayEos => bus \in Seq(Message) /\ EosBranch(bus)
  BY DEF TInv, IInv, TypeOK, StrayEos, EosBranch

\* One stray message less is within the bound.
LEMMA StrayDown ==
  TInv /\ stray > 0 /\ stray' = stray - 1 /\ UNCHANGED old =>
    old' \in 0 .. MaxOld /\ stray' \in 0 .. old' * (MaxBus + 1)
<1>. SUFFICES ASSUME TInv, stray > 0, stray' = stray - 1, UNCHANGED old
              PROVE  old' \in 0 .. MaxOld /\ stray' \in 0 .. old' * (MaxBus + 1)
  OBVIOUS
<1>1. old * (MaxBus + 1) \in Int
  BY PlaylistAssumption, TakeoverAssumption DEF TInv
<1>. QED
  BY <1>1 DEF TInv

LEMMA StrayEosTInv == TInv /\ StrayEos => TInv'
<1>. SUFFICES ASSUME TInv, StrayEos
              PROVE  TInv'
  OBVIOUS
<1>1. bus \in Seq(Message) /\ EosBranch(bus)
  BY StrayEosBranch
<1>2. IInv'
  BY <1>1, EosBranchIInv DEF TInv
<1>3. NInv'
  BY NumberStepNInv DEF StrayEos, EosNumbers, NumberStep, TInv
<1>4. Len(bus') <= MaxBus
  BY <1>1, EosBranchLen DEF TInv
<1>5. old' \in 0 .. MaxOld /\ stray' \in 0 .. old' * (MaxBus + 1)
  BY StrayDown DEF StrayEos
<1>. QED
  BY <1>2, <1>3, <1>4, <1>5 DEF TInv

LEMMA StrayEosFreedTInv == TInv /\ StrayEosFreed => TInv'
<1>. SUFFICES ASSUME TInv, StrayEosFreed
              PROVE  TInv'
  OBVIOUS
<1>1. /\ up' \in BOOLEAN
      /\ UNCHANGED <<filelist, current_file_index, source, location, state, ended, bus>>
  BY DEF StrayEosFreed
<1>2. TypeOK'
  BY <1>1 DEF TInv, IInv, TypeOK
<1>3. IndexWithinList' /\ NowPlaying' /\ SilenceBeforePlay' /\ FreshMeansEnded'
  BY <1>1 DEF TInv, IInv, IndexWithinList, NowPlaying, SilenceBeforePlay, FreshMeansEnded
<1>4. NInv'
  BY NumberStepNInv DEF StrayEosFreed, NumberStep, numbers, TInv
<1>5. old' \in 0 .. MaxOld /\ stray' \in 0 .. old' * (MaxBus + 1)
  BY StrayDown DEF StrayEosFreed
<1>. QED
  BY <1>1, <1>2, <1>3, <1>4, <1>5 DEF TInv, IInv

\* Every step keeps the invariant.
LEMMA TakeoverNextTInv == TInv /\ [TakeoverNext]_tvars => TInv'
<1>. SUFFICES ASSUME TInv, [TakeoverNext]_tvars
              PROVE  TInv'
  OBVIOUS
<1>1. CASE NumberingNext /\ UNCHANGED <<old, stray>>
  <2>1. [Next]_vars /\ NumberStep
    BY <1>1, NumberingStep, NumberingNumbers
  <2>. QED
    BY <1>1, <2>1, NextIInv, NumberStepNInv, BusBounded DEF TInv
<1>2. CASE UNCHANGED tvars
  <2>1. UNCHANGED vars /\ NumberStep /\ UNCHANGED <<old, stray>>
    BY <1>2 DEF tvars, NumberStep
  <2>. QED
    BY <2>1, NextIInv, NumberStepNInv, BusBounded DEF TInv
<1>. QED
  BY <1>1, <1>2, GstParseLaunchSenderTInv, StrayEosTInv, StrayEosFreedTInv DEF TakeoverNext

\* The invariant holds of every reachable state.
LEMMA TInvHolds == TakeoverSpec => []TInv
<1>1. TakeoverInit => TInv
  <2>. SUFFICES ASSUME TakeoverInit
                PROVE  TInv
    OBVIOUS
  <2>1. IInv /\ NInv
    BY InitIInv, InitNInv DEF TakeoverInit, NumberingInit
  <2>2. Len(bus) = 0
    BY DEF TakeoverInit, NumberingInit, Init
  <2>. QED
    BY <2>1, <2>2, PlaylistAssumption, TakeoverAssumption DEF TakeoverInit, TInv
<1>. QED
  BY <1>1, TakeoverNextTInv, PTL DEF TakeoverSpec

\* Types of list, pipeline and numbers, and the bound on stray messages.
THEOREM TakeoverTypeCorrect == TakeoverSpec => []TypeOKTakeover
<1>1. TInv => TypeOKTakeover
  BY DEF TInv, IInv, NInv, TypeOKTakeover
<1>. QED
  BY <1>1, TInvHolds, PTL

\* List, index and filesrc agree although other pipelines' messages move them:
\* filelist is never indexed out of bounds, and the file is the one at the index.
THEOREM TakeoverAgreement == TakeoverSpec => [](IndexWithinList /\ NowPlaying)
<1>1. TInv => IndexWithinList /\ NowPlaying
  BY DEF TInv, IInv
<1>. QED
  BY <1>1, TInvHolds, PTL

\* One file follows another without a seam, for any widths of the numbers and
\* with messages of other pipelines in between.
THEOREM TakeoverFollowsOn == TakeoverSpec => []FilesFollowOn
<1>1. TInv => FilesFollowOn
  BY NInvFollowOn DEF TInv
<1>. QED
  BY <1>1, TInvHolds, PTL

\* No number is repeated or left out without a cause, with the same generality.
THEOREM TakeoverFlaws == TakeoverSpec => []FlawsHaveCauses
<1>1. TInv => FlawsHaveCauses
  BY NInvFlaws DEF TInv
<1>. QED
  BY <1>1, TInvHolds, PTL

\* Timestamp and sequence number stay in step, with the same generality.
THEOREM TakeoverInStep == TakeoverSpec => []NumbersInStep
<1>1. TInv => NumbersInStep
  BY NInvInStep DEF TInv
<1>. QED
  BY <1>1, TInvHolds, PTL

-----------------------------------------------------------------------------
\* Steps of the listener's, and steps he does not notice.
LEMMA PlaysListsStep ==
  TInv /\ [TakeoverNext]_tvars =>
    [GstParseLaunchSender \/ Listener!Next \/ UNCHANGED Listener!avars]_tvars
<1>. SUFFICES ASSUME TInv, TakeoverNext, ~GstParseLaunchSender
              PROVE  [Listener!Next]_(Listener!avars)
  OBVIOUS
<1>1. CASE NumberingNext
  BY <1>1, NumberingStep, NextListener DEF TInv
<1>2. CASE StrayEos
  BY <1>2, StrayEosBranch, EosBranchListener DEF TInv
<1>3. CASE StrayEosFreed
  BY <1>3 DEF StrayEosFreed, Listener!avars
<1>. QED
  BY <1>1, <1>2, <1>3 DEF TakeoverNext

\* The listener of a pipeline that has replaced another hears its list in order,
\* for any number of replaced pipelines.
THEOREM TakeoverServed == TakeoverSpec => PlaysListsBetween
  BY TInvHolds, PlaysListsStep, PTL DEF TakeoverSpec, PlaysListsBetween

-----------------------------------------------------------------------------
\* A file that a step of Playlist's takes from the pipeline before its end goes by
\* a clear, by a remove, or by an EOS that is stale.
LEMMA CutShortByPlaylist ==
  TInv /\ NumberingNext /\ source = "file" /\ ~ended
    /\ (source' # "file" \/ current_file_index' # current_file_index)
  => OldEosHandled \/ filelist' = << >> \/ source' = "none"
<1>. SUFFICES ASSUME TInv, NumberingNext, source = "file", ~ended,
                     source' # "file" \/ current_file_index' # current_file_index,
                     filelist' # << >>, source' # "none"
              PROVE  bus # << >> /\ Head(bus).stale /\ bus' = Outdated(Tail(bus))
  BY DEF OldEosHandled
<1>1. IInv /\ [Next]_vars
  BY NumberingStep DEF TInv
<1>2. vars' # vars
  BY DEF vars
<1>3. BusEos
  BY <1>1, <1>2
  DEF IInv, TypeOK, IndexWithinList, NowPlaying, Next, Command, ClearPlayList, AppandPlayList,
      PlayFile, Remove, Configure, BusCallback, BusError, EndOfRun, Terminated, vars
<1>4. bus # << >> /\ bus \in Seq(Message) /\ bus' = Outdated(Tail(bus))
  BY <1>1, <1>3 DEF IInv, TypeOK, BusEos, GstClear, Advance, ToSilence, Restart
<1>. QED
  BY <1>1, <1>4, TailType DEF IInv, FreshMeansEnded

\* And so is the pipeline left in READY.
LEMMA ReadyByPlaylist ==
  TInv /\ NumberingNext /\ state = "PLAYING" /\ state' = "READY" => OldEosHandled
<1>. SUFFICES ASSUME TInv, NumberingNext, state = "PLAYING", state' = "READY"
              PROVE  OldEosHandled
  OBVIOUS
<1>1. IInv /\ [Next]_vars /\ vars' # vars
  BY NumberingStep DEF TInv, vars
<1>2. bus # << >> /\ Head(bus).stale
  BY <1>1, StallStep
<1>3. BusEos
  BY <1>1 DEF IInv, TypeOK, IndexWithinList, SilenceBeforePlay, Next, Command, ClearPlayList,
         AppandPlayList, PlayFile, Remove, Configure, BusCallback, BusError, EndOfRun,
         Terminated, ToSilence, Restart, vars
<1>4. bus' = Outdated(Tail(bus))
  BY <1>3 DEF BusEos, GstClear, Advance, ToSilence, Restart
<1>. QED
  BY <1>2, <1>4 DEF OldEosHandled

LEMMA SilentOnlyByOldEosStep ==
  TInv /\ [TakeoverNext]_tvars =>
    [/\ state = "PLAYING" /\ state' = "READY" => OldEosHandled
     /\ source = "file" /\ ~ended /\ (source' # "file" \/ current_file_index' # current_file_index)
          => OldEosHandled \/ filelist' = << >> \/ source' = "none" \/ old' > old]_tvars
<1>. SUFFICES ASSUME TInv, TakeoverNext
              PROVE  /\ state = "PLAYING" /\ state' = "READY" => OldEosHandled
                     /\ source = "file" /\ ~ended
                          /\ (source' # "file" \/ current_file_index' # current_file_index)
                        => OldEosHandled \/ filelist' = << >> \/ source' = "none" \/ old' > old
  OBVIOUS
<1>1. CASE NumberingNext
  BY <1>1, CutShortByPlaylist, ReadyByPlaylist
<1>2. CASE GstParseLaunchSender
  <2>1. old \in Int
    BY TakeoverAssumption DEF TInv
  <2>2. state' = "PLAYING" /\ old' > old
    BY <1>2, <2>1 DEF GstParseLaunchSender
  <2>. QED
    BY <2>2
<1>3. CASE StrayEos \/ StrayEosFreed
  <2>1. stray \in Int
    BY PlaylistAssumption DEF TInv
  <2>. QED
    BY <1>3, <2>1 DEF StrayEos, StrayEosFreed, OldEosHandled
<1>. QED
  BY <1>1, <1>2, <1>3 DEF TakeoverNext

\* What bus_callback does to the new pipeline before its file has ended, or when it
\* leaves it in READY, it does for an EOS that is stale or another pipeline's, for
\* any number of replaced pipelines.
THEOREM TakeoverSilent == TakeoverSpec => SilentOnlyByOldEos
  BY TInvHolds, SilentOnlyByOldEosStep, PTL DEF TakeoverSpec, SilentOnlyByOldEos

=============================================================================

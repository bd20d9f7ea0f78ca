-------------------------- MODULE RtpReceiverProofs --------------------------
(***************************************************************************)
(* What RtpReceiver promises, for any number of sources and of set_config  *)
(* requests.  The invariant says what the history of mistakes leaves out:  *)
(* while no set_config has hit a live tool, only the newest pair of        *)
(* pipelines plays, and while there has been no mistake at all its         *)
(* receiver plays only beside its sender.                                  *)
(***************************************************************************)
EXTENDS RtpReceiver, FiniteSetTheorems, TLAPS

\* Only a mistake lets a pipeline play that core->pipeline does not point to.
OnlyNewestPlays ==
  "live" \notin careless =>
    \A g \in Generations : "playing" \in {sender[g], receiver[g]} => g = generation

\* Only a mistake lets a receiver outlive its sender.
SenderOutlives ==
  careless = {} =>
    \A g \in Generations : receiver[g] = "playing" => sender[g] = "playing"

\* A receiver reads from the socket of its own generation.
OwnSocket == \A g \in Generations : receiver[g] = "playing" => socket[g] = g

\* What rtpdtmfdepay is connected to is a pad of telephone events.
LinkedDials == \A g \in Generations : linked[g] # NoSsrc => linked[g] \in Dialling(g)

\* Digits come through that connection and go with the receiver.
DigitsLinked ==
  \A g \in Generations : digits[g] > 0 => receiver[g] = "playing" /\ linked[g] # NoSsrc

RInv ==
  /\ TypeOK
  /\ OnlyNewestPlays /\ SenderOutlives /\ OwnSocket
  /\ LinkedDials /\ DigitsLinked
  /\ AssertNeedsSecondSource /\ FreedNeedsMistake

-----------------------------------------------------------------------------
\* The pad of a second source makes two that dial.
LEMMA TwoSources ==
  ASSUME NEW s, NEW t, NEW S, IsFiniteSet(S), s \in S, t \in S, s # t
  PROVE  Cardinality(S) > 1
<1>1. {s, t} \subseteq S
  OBVIOUS
<1>2. Cardinality({s, t}) = 2
  <2>1. Cardinality({s}) = 1 /\ IsFiniteSet({s})
    BY FS_Singleton
  <2>2. Cardinality({s} \cup {t}) = Cardinality({s}) + 1
    BY <2>1, FS_AddElement
  <2>3. {s} \cup {t} = {s, t}
    OBVIOUS
  <2>. QED
    BY <2>1, <2>2, <2>3
<1>3. Cardinality({s, t}) <= Cardinality(S)
  BY <1>1, FS_Subset
<1>. QED
  BY <1>2, <1>3, FS_CardinalityType

LEMMA InitRInv == Init => RInv
<1>. SUFFICES ASSUME Init PROVE RInv
  OBVIOUS
<1>1. TypeOK
  BY ReceiverAssumption DEF Init, TypeOK, Generations, Lives
<1>. QED
  BY <1>1 DEF Init, RInv, OnlyNewestPlays, SenderOutlives, OwnSocket, LinkedDials,
              DigitsLinked, AssertNeedsSecondSource, FreedNeedsMistake

LEMMA ConfigureRInv == RInv /\ Configure => RInv'
<1>. SUFFICES ASSUME RInv, Configure PROVE RInv'
  OBVIOUS
<1>. DEFINE new == generation + 1
<1>1. /\ generation \in Nat /\ generation' = new /\ new \in Generations
      /\ new \in 0 .. MaxConfig /\ generation # new
  BY ReceiverAssumption DEF RInv, TypeOK, Configure, Generations
<1>2. /\ sender' = [sender EXCEPT ![new] = "playing"]
      /\ receiver' = [receiver EXCEPT ![new] = "playing"]
      /\ socket' = [socket EXCEPT ![new] = new]
      /\ UNCHANGED <<pads, linked, digits, death>> /\ death = "none"
      /\ careless \subseteq careless'
  BY <1>1 DEF Configure, streams, Up
<1>3. "live" \notin careless' /\ generation \in Generations
        => "playing" \notin {sender[generation], receiver[generation]}
  BY <1>1 DEF Configure, Generations
<1>. HIDE DEF new
<1>4. TypeOK'
  <2>1. careless' \subseteq {"live", "again", "orphan"}
    BY DEF RInv, TypeOK, Configure
  <2>. QED
    BY <1>1, <1>2, <2>1 DEF RInv, TypeOK, Lives
<1>5. OnlyNewestPlays'
  BY <1>1, <1>2, <1>3 DEF RInv, TypeOK, OnlyNewestPlays
<1>6. SenderOutlives' /\ OwnSocket'
  BY <1>1, <1>2 DEF RInv, TypeOK, SenderOutlives, OwnSocket
<1>7. LinkedDials' /\ DigitsLinked'
  BY <1>1, <1>2 DEF RInv, TypeOK, LinkedDials, DigitsLinked, Dialling
<1>8. AssertNeedsSecondSource' /\ FreedNeedsMistake'
  BY <1>2 DEF AssertNeedsSecondSource, FreedNeedsMistake
<1>. QED
  BY <1>4, <1>5, <1>6, <1>7, <1>8 DEF RInv

LEMMA RemoveSenderRInv == RInv /\ RemoveSender => RInv'
<1>. SUFFICES ASSUME RInv, RemoveSender PROVE RInv'
  OBVIOUS
<1>1. /\ generation \in Generations /\ death = "none"
      /\ UNCHANGED <<generation, receiver, socket, pads, linked, digits>>
      /\ sender' = [sender EXCEPT ![generation] = "freed"]
      /\ careless \subseteq careless'
  BY ReceiverAssumption DEF RInv, TypeOK, RemoveSender, Generations, streams, Up
<1>2. TypeOK'
  BY <1>1 DEF RInv, TypeOK, RemoveSender, Lives
<1>3. OnlyNewestPlays' /\ OwnSocket' /\ LinkedDials' /\ DigitsLinked'
  BY <1>1 DEF RInv, TypeOK, OnlyNewestPlays, OwnSocket, LinkedDials, DigitsLinked, Dialling
<1>4. SenderOutlives'
  <2>1. careless' = {} => careless = {} /\ receiver[generation] # "playing"
    BY DEF RemoveSender
  <2>. QED
    BY <1>1, <2>1 DEF RInv, TypeOK, SenderOutlives
<1>5. AssertNeedsSecondSource' /\ FreedNeedsMistake'
  BY <1>1 DEF RemoveSender, AssertNeedsSecondSource, FreedNeedsMistake
<1>. QED
  BY <1>2, <1>3, <1>4, <1>5 DEF RInv

LEMMA RemoveReceiverRInv == RInv /\ RemoveReceiver => RInv'
<1>. SUFFICES ASSUME RInv, RemoveReceiver PROVE RInv'
  OBVIOUS
<1>1. /\ generation \in Generations /\ death = "none"
      /\ UNCHANGED <<generation, sender, socket>>
      /\ receiver' = [receiver EXCEPT ![generation] = "freed"]
      /\ pads' = [pads EXCEPT ![generation] = {}]
      /\ linked' = [linked EXCEPT ![generation] = NoSsrc]
      /\ digits' = [digits EXCEPT ![generation] = 0]
      /\ careless \subseteq careless'
  BY ReceiverAssumption DEF RInv, TypeOK, RemoveReceiver, Generations, Up
<1>2. TypeOK'
  BY <1>1, ReceiverAssumption DEF RInv, TypeOK, RemoveReceiver, Lives
<1>3. OnlyNewestPlays' /\ OwnSocket' /\ SenderOutlives'
  BY <1>1 DEF RInv, TypeOK, OnlyNewestPlays, OwnSocket, SenderOutlives
<1>4. LinkedDials' /\ DigitsLinked'
  BY <1>1 DEF RInv, TypeOK, LinkedDials, DigitsLinked, Dialling
<1>5. AssertNeedsSecondSource' /\ FreedNeedsMistake'
  BY <1>1 DEF RemoveReceiver, AssertNeedsSecondSource, FreedNeedsMistake
<1>. QED
  BY <1>2, <1>3, <1>4, <1>5 DEF RInv

\* A pad comes to the receiver core->pipeline points to, unless a set_config hit
\* a live tool; it finds rtpdtmfdepay connected only to another source that dials.
LEMMA NewPadRInv ==
  ASSUME NEW g \in Generations, NEW s \in Ssrc, NEW payload \in Payloads,
         RInv, NewPad(g, s, payload)
  PROVE  RInv'
<1>1. /\ UNCHANGED <<generation, sender, receiver, socket, digits, careless>>
      /\ death = "none" /\ receiver[g] = "playing"
      /\ pads' = [pads EXCEPT ![g] = @ \cup {<<s, payload>>}]
      /\ <<s, payload>> \notin pads[g]
  BY DEF NewPad, Up, Hears, pipelines
<1>2. \/ linked' = linked
      \/ linked' = [linked EXCEPT ![g] = s] /\ payload = "telephone-event"
  BY DEF NewPad, PadAdded
<1>3. \/ death' = "none"
      \/ /\ death' = "freed" /\ payload = "telephone-event"
         /\ receiver[generation] = "freed"
      \/ /\ death' = "assert" /\ payload = "telephone-event"
         /\ g # generation \/ linked[g] # NoSsrc
  BY <1>1 DEF NewPad, PadAdded, Current
<1>4. g # generation => "live" \in careless
  BY <1>1 DEF RInv, OnlyNewestPlays
<1>5. TypeOK'
  BY <1>1, <1>2, <1>3 DEF RInv, TypeOK
<1>6. OnlyNewestPlays' /\ SenderOutlives' /\ OwnSocket'
  BY <1>1 DEF RInv, OnlyNewestPlays, SenderOutlives, OwnSocket
<1>7. \A h \in Generations : Dialling(h) \subseteq Dialling(h)'
  BY <1>1 DEF RInv, TypeOK, Dialling
<1>8. payload = "telephone-event" => s \in Dialling(g)' /\ s \notin Dialling(g)
  BY <1>1 DEF RInv, TypeOK, Dialling
<1>9. LinkedDials' /\ DigitsLinked'
  BY <1>1, <1>2, <1>7, <1>8, ReceiverAssumption DEF RInv, TypeOK, LinkedDials, DigitsLinked
<1>10. AssertNeedsSecondSource'
  <2>. SUFFICES ASSUME death' = "assert", "live" \notin careless
                PROVE  Cardinality(Dialling(g)') > 1
    BY <1>1 DEF AssertNeedsSecondSource
  <2>1. payload = "telephone-event" /\ linked[g] \in Dialling(g)
    BY <1>3, <1>4 DEF RInv, LinkedDials
  <2>2. IsFiniteSet(Dialling(g)')
    BY ReceiverAssumption, FS_Subset DEF Dialling
  <2>. QED
    <3>1. linked[g] \in Dialling(g)' /\ s \in Dialling(g)' /\ linked[g] # s
      BY <1>7, <1>8, <2>1
    <3>. QED
      BY <2>2, <3>1, TwoSources
<1>11. FreedNeedsMistake'
  BY <1>1, <1>3, <1>4 DEF FreedNeedsMistake
<1>. QED
  BY <1>5, <1>6, <1>9, <1>10, <1>11 DEF RInv

LEMMA DigitRInv ==
  ASSUME NEW g \in Generations, RInv, Digit(g) \/ BusElement(g)
  PROVE  RInv'
<1>1. /\ UNCHANGED <<generation, sender, receiver, socket, pads, linked, death, careless>>
      /\ digits' \in [Generations -> 0 .. MaxBus]
      /\ \A h \in Generations : digits'[h] > 0
           => digits[h] > 0 \/ (receiver[h] = "playing" /\ linked[h] # NoSsrc)
  <2>1. digits \in [Generations -> 0 .. MaxBus] /\ MaxBus \in Nat /\ digits[g] \in 0 .. MaxBus
    BY ReceiverAssumption DEF RInv, TypeOK
  <2>2. CASE Digit(g)
    <3>1. /\ UNCHANGED <<generation, sender, receiver, socket, pads, linked, death, careless>>
          /\ receiver[g] = "playing" /\ linked[g] # NoSsrc
          /\ digits[g] < MaxBus /\ digits' = [digits EXCEPT ![g] = digits[g] + 1]
      BY <2>2 DEF Digit, Hears, pipelines
    <3>2. digits[g] + 1 \in 0 .. MaxBus
      BY <2>1, <3>1
    <3>. QED
      BY <2>1, <3>1, <3>2
  <2>3. CASE BusElement(g)
    <3>1. /\ UNCHANGED <<generation, sender, receiver, socket, pads, linked, death, careless>>
          /\ digits[g] > 0 /\ digits' = [digits EXCEPT ![g] = digits[g] - 1]
      BY <2>3 DEF BusElement, pipelines
    <3>2. digits[g] - 1 \in 0 .. MaxBus
      BY <2>1, <3>1
    <3>. QED
      BY <2>1, <3>1, <3>2
  <2>. QED
    BY <2>2, <2>3
<1>2. TypeOK'
  BY <1>1 DEF RInv, TypeOK
<1>3. OnlyNewestPlays' /\ SenderOutlives' /\ OwnSocket'
  BY <1>1 DEF RInv, OnlyNewestPlays, SenderOutlives, OwnSocket
<1>4. LinkedDials' /\ DigitsLinked'
  BY <1>1 DEF RInv, LinkedDials, DigitsLinked, Dialling
<1>5. \A h \in Generations : Dialling(h)' = Dialling(h)
  BY <1>1 DEF Dialling
<1>6. AssertNeedsSecondSource' /\ FreedNeedsMistake'
  BY <1>1, <1>5 DEF RInv, AssertNeedsSecondSource, FreedNeedsMistake
<1>. QED
  BY <1>2, <1>3, <1>4, <1>6 DEF RInv

LEMMA NextRInv == RInv /\ [Next]_vars => RInv'
<1>. SUFFICES ASSUME RInv, [Next]_vars PROVE RInv'
  OBVIOUS
<1>1. CASE Asio
  BY <1>1, ConfigureRInv, RemoveSenderRInv, RemoveReceiverRInv DEF Asio
<1>2. CASE \E g \in Generations, s \in Ssrc, payload \in Payloads : NewPad(g, s, payload)
  BY <1>2, NewPadRInv
<1>3. CASE \E g \in Generations : Digit(g) \/ BusElement(g)
  BY <1>3, DigitRInv
<1>4. CASE UNCHANGED vars
  <2>1. UNCHANGED <<generation, sender, receiver, socket, pads, linked, digits, death, careless>>
    BY <1>4 DEF vars, pipelines, streams
  <2>2. \A h \in Generations : Dialling(h)' = Dialling(h)
    BY <2>1 DEF Dialling
  <2>3. TypeOK' /\ OnlyNewestPlays' /\ SenderOutlives' /\ OwnSocket'
    BY <2>1 DEF RInv, TypeOK, OnlyNewestPlays, SenderOutlives, OwnSocket
  <2>4. LinkedDials' /\ DigitsLinked' /\ AssertNeedsSecondSource' /\ FreedNeedsMistake'
    BY <2>1, <2>2
    DEF RInv, LinkedDials, DigitsLinked, AssertNeedsSecondSource, FreedNeedsMistake
  <2>. QED
    BY <2>3, <2>4 DEF RInv
<1>. QED
  BY <1>1, <1>2, <1>3, <1>4 DEF Next

LEMMA SpecRInv == Spec => []RInv
  BY InitRInv, NextRInv, PTL DEF Spec

-----------------------------------------------------------------------------
\* Every generation's pipelines, pads and bus hold what they may hold, whatever
\* set_config, remove and rtpbin's threads do in which order.
THEOREM ReceiverTypeCorrect == Spec => []TypeOK
  BY SpecRInv, PTL DEF RInv

\* g_assert(lres == GST_PAD_LINK_OK) fails only after two sources dialled on one
\* pipeline or a set_config hit a live tool.
THEOREM ReceiverAssert == Spec => []AssertNeedsSecondSource
  BY SpecRInv, PTL DEF RInv

\* pad_added and remove use a freed pipeline only after a client's mistake.
THEOREM ReceiverFreed == Spec => []FreedNeedsMistake
  BY SpecRInv, PTL DEF RInv

\* Without a mistake a receiver that plays has its sender's socket open and is the
\* one pad_added finds in core->pipeline.
THEOREM ReceiverHears == Spec => []CarefulReceiversHear
<1>1. RInv => CarefulReceiversHear
  BY DEF RInv, TypeOK, OnlyNewestPlays, SenderOutlives, OwnSocket, CarefulReceiversHear,
         Current, Hears, SocketOpen, Generations
<1>. QED
  BY <1>1, SpecRInv, PTL

\* bus_callback reports no digit of a receiver that is gone, nor of a source that
\* rtpdtmfdepay is not connected to.
THEOREM ReceiverDigits == Spec => []DigitsBelongToTheCall
<1>1. RInv => DigitsBelongToTheCall
  BY DEF RInv, LinkedDials, DigitsLinked, DigitsBelongToTheCall
<1>. QED
  BY <1>1, SpecRInv, PTL

=============================================================================

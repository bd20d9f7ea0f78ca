---------------------------- MODULE RtpReceiver -----------------------------
(***************************************************************************)
(* The receiver core of a tool and what it shares with the tool's sender.   *)
(*                                                                          *)
(* Each set_config makes a pair of pipelines, its generation; the receiver  *)
(* reads from the socket that the sender's udpsink has opened.  rtpbin adds *)
(* a pad for every source and payload it hears, on its streaming thread;    *)
(* pad_added connects those of telephone events to rtpdtmfdepay, which it   *)
(* looks for in core->pipeline: the newest pipeline, not that of the pad.   *)
(***************************************************************************)
EXTENDS Naturals, FiniteSets

CONSTANTS
  Ssrc,       \* sources of RTP packets
  NoSsrc,     \* rtpdtmfdepay's sink is not connected
  MaxConfig,  \* set_config requests for the tool
  MaxBus      \* digits that wait on a bus

ASSUME ReceiverAssumption ==
  /\ IsFiniteSet(Ssrc) /\ NoSsrc \notin Ssrc
  /\ MaxConfig \in Nat
  /\ MaxBus \in Nat

VARIABLES
  generation,  \* set_config requests so far
  sender,      \* life of the sender's pipeline of each generation
  receiver,    \* life of the receiver's
  socket,      \* the generation whose sender opened the receiver's socket
  pads,        \* the pads of its rtpbin, by source and payload
  linked,      \* the source whose pad is connected to rtpdtmfdepay
  digits,      \* ELEMENT messages on the receiver's bus
  death,       \* what ended the process
  careless     \* history: what clients did that they should not

pipelines == <<generation, sender, receiver, socket>>
streams == <<pads, linked, digits>>
vars == <<pipelines, streams, death, careless>>

Generations == 1 .. MaxConfig
Lives == {"none", "playing", "freed"}
Payloads == {"AMR", "PCMA", "telephone-event"}

Init ==
  /\ generation = 0
  /\ sender = [g \in Generations |-> "none"]
  /\ receiver = [g \in Generations |-> "none"]
  /\ socket = [g \in Generations |-> 0]
  /\ pads = [g \in Generations |-> {}]
  /\ linked = [g \in Generations |-> NoSsrc]
  /\ digits = [g \in Generations |-> 0]
  /\ death = "none"
  /\ careless = {}

Up == death = "none"

\* core->pipeline of both cores is that of the last set_config.
Current(g) == g = generation

-----------------------------------------------------------------------------
\* The asio thread.

\* Mutant: the receiver is made before the sender.
ConfigureReceiverFirst ==
  /\ Up /\ generation < MaxConfig
  /\ generation' = generation + 1
  /\ sender' = [sender EXCEPT ![generation'] = "playing"]
  /\ receiver' = [receiver EXCEPT ![generation'] = "playing"]
  /\ socket' = [socket EXCEPT ![generation'] = generation]
  /\ careless' = IF generation > 0 /\ "playing" \in {sender[generation], receiver[generation]}
                   THEN careless \cup {"live"} ELSE careless
  /\ UNCHANGED <<streams, death>>

\* set_config: the sender goes to PAUSED, which opens its socket, the receiver is
\* made on that socket, both play.  Pipelines that are there already are left to
\* themselves.
Configure ==
  /\ Up /\ generation < MaxConfig
  /\ generation' = generation + 1
  /\ sender' = [sender EXCEPT ![generation'] = "playing"]
  /\ receiver' = [receiver EXCEPT ![generation'] = "playing"]
  /\ socket' = [socket EXCEPT ![generation'] = generation']
  /\ careless' = IF generation > 0 /\ "playing" \in {sender[generation], receiver[generation]}
                   THEN careless \cup {"live"} ELSE careless
  /\ UNCHANGED <<streams, death>>

\* remove of the tool itself: the socket closes with its udpsink.  A freed
\* pipeline is freed once more.
RemoveSender ==
  /\ Up /\ generation > 0
  /\ sender' = [sender EXCEPT ![generation] = "freed"]
  /\ death' = IF sender[generation] = "freed" THEN "freed" ELSE death
  /\ careless' = careless \cup (IF sender[generation] = "freed" THEN {"again"} ELSE {})
                          \cup (IF receiver[generation] = "playing" THEN {"orphan"} ELSE {})
  /\ UNCHANGED <<generation, receiver, socket, streams>>

\* Mutant: the pipeline is put into READY and kept.
RemoveReceiverKept ==
  /\ Up /\ generation > 0
  /\ receiver' = [receiver EXCEPT ![generation] = "ready"]
  /\ UNCHANGED <<generation, sender, socket, streams, death, careless>>

\* Mutant: the pipeline is freed without NULL, its bus is not flushed.
RemoveReceiverUnflushed ==
  /\ Up /\ generation > 0
  /\ receiver' = [receiver EXCEPT ![generation] = "freed"]
  /\ death' = IF receiver[generation] = "freed" THEN "freed" ELSE death
  /\ careless' = IF receiver[generation] = "freed" THEN careless \cup {"again"} ELSE careless
  /\ UNCHANGED <<generation, sender, socket, streams>>

\* remove of the backend tool.  NULL waits for the streaming threads and flushes
\* the bus.
RemoveReceiver ==
  /\ Up /\ generation > 0
  /\ receiver' = [receiver EXCEPT ![generation] = "freed"]
  /\ pads' = [pads EXCEPT ![generation] = {}]
  /\ linked' = [linked EXCEPT ![generation] = NoSsrc]
  /\ digits' = [digits EXCEPT ![generation] = 0]
  /\ death' = IF receiver[generation] = "freed" THEN "freed" ELSE death
  /\ careless' = IF receiver[generation] = "freed" THEN careless \cup {"again"} ELSE careless
  /\ UNCHANGED <<generation, sender, socket>>

Asio == Configure \/ RemoveSender \/ RemoveReceiver

-----------------------------------------------------------------------------
\* Streaming threads of a receiver's pipeline.

SocketOpen(g) == socket[g] # 0 /\ sender[socket[g]] = "playing"

\* Mutant: the streaming threads of a receiver that is freed are not waited for.
HearsUnjoined(g) == receiver[g] # "none" /\ SocketOpen(g)

\* Packets reach a receiver that plays, through the socket its sender keeps open.
Hears(g) == receiver[g] = "playing" /\ SocketOpen(g)

\* The payloads with caps; rtpbin drops the packets of others.
RequestPtMap(payload) == payload \in {"AMR", "telephone-event"}

\* Mutant: every pad is connected to rtpdtmfdepay.
PadAddedAnyPayload(g, s, payload) ==
  /\ death' = IF receiver[generation] = "freed" THEN "freed"
              ELSE IF ~Current(g) \/ linked[g] # NoSsrc THEN "assert"
              ELSE death
  /\ linked' = IF death' = "none" THEN [linked EXCEPT ![g] = s] ELSE linked

\* A pad of telephone events is connected to rtpdtmfdepay; gst_pad_link refuses a
\* pad of another pipeline and a sink that is connected, and g_assert aborts.
PadAdded(g, s, payload) ==
  IF payload # "telephone-event"
    THEN UNCHANGED <<linked, death>>
    ELSE /\ death' = IF receiver[generation] = "freed" THEN "freed"
                     ELSE IF ~Current(g) \/ linked[g] # NoSsrc THEN "assert"
                     ELSE death
         /\ linked' = IF death' = "none" THEN [linked EXCEPT ![g] = s] ELSE linked

\* The first packet of a source and payload.
NewPad(g, s, payload) ==
  /\ Up /\ Hears(g)
  /\ <<s, payload>> \notin pads[g] /\ RequestPtMap(payload)
  /\ pads' = [pads EXCEPT ![g] = @ \cup {<<s, payload>>}]
  /\ PadAdded(g, s, payload)
  /\ UNCHANGED <<pipelines, digits, careless>>

\* The end of a digit reaches rtpdtmfdepay.
Digit(g) ==
  /\ Up /\ Hears(g)
  /\ linked[g] # NoSsrc /\ digits[g] < MaxBus
  /\ digits' = [digits EXCEPT ![g] = @ + 1]
  /\ UNCHANGED <<pipelines, pads, linked, death, careless>>

\* The GLib thread: bus_callback reports the digit; Connection has the write.
BusElement(g) ==
  /\ Up /\ digits[g] > 0
  /\ digits' = [digits EXCEPT ![g] = @ - 1]
  /\ UNCHANGED <<pipelines, pads, linked, death, careless>>

Next ==
  \/ Asio
  \/ \E g \in Generations :
       \/ \E s \in Ssrc, payload \in Payloads : NewPad(g, s, payload)
       \/ Digit(g) \/ BusElement(g)

Spec == Init /\ [][Next]_vars

-----------------------------------------------------------------------------
\* Pipelines, pads and buses of every generation hold what they may hold.
TypeOK ==
  /\ generation \in 0 .. MaxConfig
  /\ sender \in [Generations -> Lives]
  /\ receiver \in [Generations -> Lives]
  /\ socket \in [Generations -> 0 .. MaxConfig]
  /\ pads \in [Generations -> SUBSET (Ssrc \X Payloads)]
  /\ linked \in [Generations -> Ssrc \cup {NoSsrc}]
  /\ digits \in [Generations -> 0 .. MaxBus]
  /\ death \in {"none", "assert", "freed"}
  /\ careless \subseteq {"live", "again", "orphan"}

\* The sources whose telephone events a receiver has heard.
Dialling(g) == {s \in Ssrc : <<s, "telephone-event">> \in pads[g]}

\* The g_assert of pad_added fails only because one pipeline heard telephone
\* events of two sources, or because a set_config took the place of pipelines
\* that were still playing.
AssertNeedsSecondSource ==
  death = "assert" => \/ \E g \in Generations : Cardinality(Dialling(g)) > 1
                      \/ "live" \in careless

\* A freed pipeline is used, by a remove or by pad_added, only after a second
\* remove, or when a pipeline that a set_config has replaced plays on.
FreedNeedsMistake == death = "freed" => careless \cap {"live", "again"} # {}

\* As long as no client has made a mistake, every receiver that plays hears, on a
\* socket that is open, and is the one core->pipeline points to.
CarefulReceiversHear ==
  careless = {} => \A g \in Generations : receiver[g] = "playing" => Current(g) /\ Hears(g)

\* A digit is reported for the call it was dialled in: none is left on the bus
\* of a receiver that has been removed, and the pad it came by is still that of
\* the source rtpdtmfdepay was first connected to.
DigitsBelongToTheCall ==
  \A g \in Generations : digits[g] > 0 => receiver[g] = "playing" /\ linked[g] \in Dialling(g)

\* What g_assert(lres == GST_PAD_LINK_OK) states.
PadLinkOk == death # "assert"

=============================================================================

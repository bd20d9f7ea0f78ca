---------------------- MODULE GstreamerCoreSerialProofs -----------------------
(***************************************************************************)
(* GstreamerCoreSerial implements Playlist, for lists, buses and requests  *)
(* of any size.  The invariant says for each statement of each handler     *)
(* what has become of shot, the state the handler started from; the last   *)
(* statement then makes of it what the action of Playlist makes of it.     *)
(***************************************************************************)
EXTENDS GstreamerCoreSerial, GstreamerCoreProofs

Shot ==
  [filelist : Seq(File), current_file_index : Int, source : {"test", "file", "gap", "none"},
   location : File \cup {NoFile}, state : {"PLAYING", "READY", "NULL"},
   ended : BOOLEAN, bus : Seq(Message)]

\* What a handler has left alone, and what READY does to the stream.
ListKept == filelist = shot.filelist /\ current_file_index = shot.current_file_index
ChainKept == source = shot.source /\ location = shot.location
Running(queue) == state = shot.state /\ ended = shot.ended /\ bus = queue
Halted(queue) == state = "READY" /\ ended = FALSE /\ bus = Outdated(queue)
Silenced(at) == location = NoFile /\ source = IF at = "relink" THEN "gap" ELSE "test"

\* ClearPlayList: the list, the index, then the chain unless it is audiotestsrc.
ClearSoFar ==
  pc.asio \in ClearLabels \/ (pc.asio = "resume" /\ cmd = "clear") =>
    /\ shot.source \in {"test", "file"}
    /\ filelist = IF pc.asio = "clear" THEN shot.filelist ELSE << >>
    /\ current_file_index = IF pc.asio \in {"clear", "rewind"} THEN shot.current_file_index
                                                              ELSE -1
    /\ pc.asio \in {"clear", "rewind", "peek", "halt"} => Running(shot.bus)
    /\ pc.asio \in {"drop", "relink", "resume"} => Halted(shot.bus)
    /\ pc.asio \notin {"clear", "rewind", "peek"} => shot.source = "file"
    /\ IF pc.asio \in {"relink", "resume"} THEN Silenced(pc.asio) ELSE ChainKept

Strange(list) == {list[i] : i \in DOMAIN list} \cap Foreign

\* AppandPlayList: the names pushed so far and those to come are the request.
AppendSoFar ==
  pc.asio = "append" =>
    /\ \E list \in Requests :
         /\ Len(shot.filelist) + Len(list) <= MaxList
         /\ filelist \o pending = shot.filelist \o list
         /\ Strange(pending) = Strange(list)
    /\ current_file_index = shot.current_file_index
    /\ ChainKept /\ Running(shot.bus)

\* PlayFile: the index, then the chain.
PlaySoFar ==
  pc.asio \in PlayLabels \/ (pc.asio = "resume" /\ cmd = "play") =>
    /\ shot.source \in {"test", "file"} /\ filelist = shot.filelist
    /\ IF pc.asio = "play" THEN ChainKept
       ELSE shot.current_file_index < 0 /\ filelist # << >> /\ shot.source = "test"
    /\ current_file_index = IF pc.asio \in {"play", "play_index"} THEN shot.current_file_index
                                                                 ELSE 0
    /\ IF pc.asio \in {"play", "play_index", "play_halt"} THEN Running(shot.bus)
                                                          ELSE Halted(shot.bus)
    /\ pc.asio = "resume" => source = "file" /\ location = filelist[1]

\* Remove: NULL, then the pipeline.
RemoveSoFar ==
  pc.asio \in {"remove", "unref"} =>
    /\ ListKept /\ ChainKept /\ source # "none" /\ source # "gap"
    /\ pc.asio = "remove" => Running(shot.bus)
    /\ pc.asio = "unref" => bus = << >>

\* set_config for a removed core.
ConfigureSoFar ==
  pc.asio = "configure" \/ (pc.asio = "resume" /\ cmd = "configure") =>
    /\ ListKept /\ shot.source = "none" /\ location = shot.location /\ Running(shot.bus)
    /\ source = IF pc.asio = "resume" THEN "test" ELSE "none"

\* bus_callback: the message that is handled has left the bus.
EosSoFar ==
  pc.main # "idle" =>
    /\ shot.source \in {"test", "file"}
    /\ shot.bus # << >> /\ Head(shot.bus).kind = "eos"
    /\ filelist = shot.filelist
    /\ pc.main \in {"eos", "gc_halt", "skip_halt"} => Running(Tail(shot.bus))
    /\ pc.main \notin {"eos", "gc_halt", "skip_halt"} => Halted(Tail(shot.bus))

\* GstClear.
GstClearSoFar ==
  pc.main \in {"eos", "gc_halt", "gc_peek", "drop", "relink", "resume"} =>
    /\ ListKept
    /\ pc.main # "eos" => current_file_index + 1 = Len(filelist)
    /\ pc.main \in {"drop", "relink", "resume"} => shot.source = "file"
    /\ IF pc.main \in {"relink", "resume"} THEN Silenced(pc.main) ELSE ChainKept

\* The branch that plays the next file.
SkipSoFar ==
  pc.main \in {"skip_halt", "skip_load", "skip_store", "skip_find", "skip_fetch", "skip_set",
               "skip_resume"} =>
    /\ shot.current_file_index + 1 # Len(filelist)
    /\ source = shot.source
    /\ current_file_index = IF pc.main \in {"skip_halt", "skip_load", "skip_store"}
                              THEN shot.current_file_index
                              ELSE shot.current_file_index + 1
    /\ pc.main = "skip_store" => index = current_file_index
    /\ pc.main \in {"skip_find", "skip_fetch", "skip_set"} => InBounds(current_file_index)
    /\ pc.main \in {"skip_fetch", "skip_set"} => found = (source = "file")
    /\ pc.main = "skip_set" => name = filelist[current_file_index + 1]
    /\ location = IF pc.main = "skip_resume" /\ source = "file"
                    THEN filelist[current_file_index + 1]
                    ELSE shot.location

SoFar ==
  /\ ClearSoFar /\ AppendSoFar /\ PlaySoFar /\ RemoveSoFar /\ ConfigureSoFar
  /\ EosSoFar /\ GstClearSoFar /\ SkipSoFar

\* The threads take turns, and the handler under way has done its part so far.
SInv ==
  /\ GInv
  /\ overlap = {} /\ shot \in Shot /\ location # Garbage
  /\ (pc.asio = "idle" \/ pc.main = "idle")
  /\ (up => SoFar)

-----------------------------------------------------------------------------
\* The groups of variables are always seen through.
USE DEF playlist, elements, stream, locals, history

\* No overlap, no fault.
LEMMA NoFault == GInv /\ overlap = {} => fault = {}
  BY DEF GInv, TypeOK, Faults, LifetimesNeedOverlap, Bounded, Linked

LEMMA NoFaultNext == GInv' /\ overlap' = {} => fault' = {}
  BY DEF GInv, TypeOK, Faults, LifetimesNeedOverlap, Bounded, Linked

\* Both threads are idle.
LEMMA QuietMeans ==
  ASSUME NEW labels \in [asio : AsioLabels, main : MainLabels]
  PROVE  labels = [asio |-> "idle", main |-> "idle"]
           <=> labels.asio = "idle" /\ labels.main = "idle"
  OBVIOUS

\* A handler begins: shot is the state it finds, and Playlist sees no change.
LEMMA FirstStatement ==
  ASSUME SInv, Remember, pc' \in [asio : AsioLabels, main : MainLabels],
         pc.asio = "idle" /\ pc.main = "idle", pc'.asio # "idle" \/ pc'.main # "idle", up' = up
  PROVE  /\ UNCHANGED Abstract!vars
         /\ shot' \in Shot
         /\ shot'.filelist = filelist /\ shot'.current_file_index = current_file_index
         /\ shot'.source = source /\ shot'.location = location
         /\ shot'.state = state /\ shot'.ended = ended /\ shot'.bus = bus
<1>1. Quiet /\ ~Quiet'
  BY QuietMeans DEF SInv, GInv, TypeOK, Quiet
<1>2. shot' = Snapshot
  BY <1>1 DEF Remember
<1>3. Seen' = Seen
  BY <1>1, <1>2 DEF Seen
<1>4. UNCHANGED Abstract!vars
  BY <1>3 DEF Abstract!vars
<1>5. Snapshot \in Shot
  BY DEF SInv, GInv, TypeOK, Snapshot, Shot, Message
<1>. QED
  BY <1>2, <1>4, <1>5 DEF Snapshot

\* A handler goes on: nothing to be seen.
LEMMA NextStatement ==
  ASSUME SInv, Remember, pc' \in [asio : AsioLabels, main : MainLabels],
         pc.asio # "idle" \/ pc.main # "idle", pc'.asio # "idle" \/ pc'.main # "idle",
         pc' # pc \/ bus' = bus
  PROVE  shot' = shot /\ shot' \in Shot /\ (up' = up => UNCHANGED Abstract!vars)
<1>1. ~Quiet /\ ~Quiet'
  BY QuietMeans DEF SInv, GInv, TypeOK, Quiet
<1>2. shot' = shot
  BY <1>1 DEF Remember
<1>3. Seen' = Seen
  BY <1>1, <1>2 DEF Seen
<1>. QED
  BY <1>2, <1>3 DEF SInv, Abstract!vars

\* A handler ends: Playlist sees all it has done.
LEMMA LastStatement ==
  ASSUME SInv, Remember, pc' \in [asio : AsioLabels, main : MainLabels],
         pc.asio # "idle" \/ pc.main # "idle", pc'.asio = "idle" /\ pc'.main = "idle"
  PROVE  /\ shot' = shot /\ shot' \in Shot
         /\ Seen = shot
         /\ Seen'.filelist = filelist' /\ Seen'.current_file_index = current_file_index'
         /\ Seen'.source = source' /\ Seen'.location = location'
         /\ Seen'.state = state' /\ Seen'.ended = ended' /\ Seen'.bus = bus'
<1>1. ~Quiet /\ Quiet' /\ pc' # pc
  BY QuietMeans DEF SInv, GInv, TypeOK, Quiet
<1>2. shot' = shot /\ Seen = shot /\ Seen' = Snapshot'
  BY <1>1 DEF Remember, Seen
<1>. QED
  BY <1>2 DEF SInv, Snapshot

-----------------------------------------------------------------------------
\* A step that meets no other handler, and what it owes beside GInv'.
Onward == SInv /\ GInv' /\ overlap' = {} /\ Remember

Faithful ==
  /\ shot' \in Shot /\ location' # Garbage
  /\ pc'.asio = "idle" \/ pc'.main = "idle"
  /\ up' => SoFar'
  /\ [Abstract!Next]_(Abstract!vars)

\* With one thread idle only the other has anything to account for.
LEMMA AsioOnly == pc'.main = "idle" => EosSoFar' /\ GstClearSoFar' /\ SkipSoFar'
  BY DEF EosSoFar, GstClearSoFar, SkipSoFar

LEMMA MainOnly ==
  pc'.asio = "idle" =>
    ClearSoFar' /\ AppendSoFar' /\ PlaySoFar' /\ RemoveSoFar' /\ ConfigureSoFar'
  BY DEF ClearSoFar, AppendSoFar, PlaySoFar, RemoveSoFar, ConfigureSoFar, ClearLabels,
         PlayLabels

-----------------------------------------------------------------------------
\* Each statement on its way through a handler: nothing for Playlist to see.
LEMMA ClearListFaithful == Onward /\ ClearList => Faithful
<1>. SUFFICES ASSUME SInv, GInv', overlap' = {}, Remember, ClearList PROVE Faithful
  BY DEF Onward
<1>1. /\ up /\ pc.asio = "clear" /\ pc'.asio = "rewind"
      /\ pc'.main = "idle" /\ pc.main = "idle"
      /\ pc' \in [asio : AsioLabels, main : MainLabels]
  BY AsioStep DEF SInv, GInv, ClearList, AsioLabels
<1>2. up' = up /\ location' # Garbage
  BY <1>1 DEF SInv, GInv, TypeOK, ClearList
<1>3. shot' = shot /\ shot' \in Shot /\ UNCHANGED Abstract!vars
  BY <1>1, <1>2, NextStatement
<1>4. SoFar'
  BY <1>1, <1>3, AsioOnly
  DEF SInv, ClearList, SoFar, ClearSoFar, AppendSoFar, PlaySoFar, RemoveSoFar,
      ConfigureSoFar, ClearLabels, PlayLabels, ChainKept, Running
<1>. QED
  BY <1>1, <1>2, <1>3, <1>4 DEF Faithful

LEMMA RewindFaithful == Onward /\ Rewind => Faithful
<1>. SUFFICES ASSUME SInv, GInv', overlap' = {}, Remember, Rewind PROVE Faithful
  BY DEF Onward
<1>1. /\ up /\ pc.asio = "rewind" /\ pc'.asio = "peek"
      /\ pc'.main = "idle" /\ pc.main = "idle"
      /\ pc' \in [asio : AsioLabels, main : MainLabels]
  BY AsioStep DEF SInv, GInv, Rewind, AsioLabels
<1>2. up' = up /\ location' # Garbage
  BY <1>1 DEF SInv, GInv, TypeOK, Rewind
<1>3. shot' = shot /\ shot' \in Shot /\ UNCHANGED Abstract!vars
  BY <1>1, <1>2, NextStatement
<1>4. SoFar'
  BY <1>1, <1>3, AsioOnly
  DEF SInv, Rewind, SoFar, ClearSoFar, AppendSoFar, PlaySoFar, RemoveSoFar, ConfigureSoFar,
      ClearLabels, PlayLabels, ChainKept, Running
<1>. QED
  BY <1>1, <1>2, <1>3, <1>4 DEF Faithful

LEMMA ClearHaltFaithful == Onward /\ ClearHalt => Faithful
<1>. SUFFICES ASSUME SInv, GInv', overlap' = {}, Remember, ClearHalt PROVE Faithful
  BY DEF Onward
<1>1. /\ up /\ pc.asio = "halt" /\ pc'.asio = "drop"
      /\ pc'.main = "idle" /\ pc.main = "idle"
      /\ pc' \in [asio : AsioLabels, main : MainLabels]
  BY AsioStep DEF SInv, GInv, ClearHalt, AsioLabels
<1>2. up' = up /\ location' # Garbage
  BY <1>1 DEF SInv, GInv, TypeOK, ClearHalt, SetReady
<1>3. shot' = shot /\ shot' \in Shot /\ UNCHANGED Abstract!vars
  BY <1>1, <1>2, NextStatement
<1>4. SoFar'
  BY <1>1, <1>3, AsioOnly
  DEF SInv, ClearHalt, SetReady, SoFar, ClearSoFar, AppendSoFar, PlaySoFar, RemoveSoFar,
      ConfigureSoFar, ClearLabels, PlayLabels, ChainKept, Running, Halted
<1>. QED
  BY <1>1, <1>2, <1>3, <1>4 DEF Faithful

LEMMA DropAsioFaithful == Onward /\ Drop("asio") => Faithful
<1>. SUFFICES ASSUME SInv, GInv', overlap' = {}, Remember, Drop("asio") PROVE Faithful
  BY DEF Onward
<1>1. /\ up /\ pc.asio = "drop" /\ pc'.asio = "relink"
      /\ pc'.main = "idle" /\ pc.main = "idle"
      /\ pc' \in [asio : AsioLabels, main : MainLabels]
  BY AsioStep DEF SInv, GInv, Drop, AsioLabels
<1>2. up' = up /\ location' # Garbage
  BY <1>1, CoreAssumption DEF SInv, GInv, TypeOK, Drop
<1>3. shot' = shot /\ shot' \in Shot /\ UNCHANGED Abstract!vars
  BY <1>1, <1>2, NextStatement
<1>4. SoFar'
  BY <1>1, <1>3, AsioOnly
  DEF SInv, Drop, SoFar, ClearSoFar, AppendSoFar, PlaySoFar, RemoveSoFar, ConfigureSoFar,
      ClearLabels, PlayLabels, ChainKept, Halted, Silenced
<1>. QED
  BY <1>1, <1>2, <1>3, <1>4 DEF Faithful

LEMMA RelinkAsioFaithful == Onward /\ Relink("asio") => Faithful
<1>. SUFFICES ASSUME SInv, GInv', overlap' = {}, Remember, Relink("asio") PROVE Faithful
  BY DEF Onward
<1>1. /\ up /\ pc.asio = "relink" /\ pc'.asio = "resume"
      /\ pc'.main = "idle" /\ pc.main = "idle"
      /\ pc' \in [asio : AsioLabels, main : MainLabels]
  BY AsioStep DEF SInv, GInv, Relink, AsioLabels
<1>2. up' = up /\ location' # Garbage
  BY <1>1, NoFaultNext DEF SInv, GInv, TypeOK, Relink, Abort
<1>3. shot' = shot /\ shot' \in Shot /\ UNCHANGED Abstract!vars
  BY <1>1, <1>2, NextStatement
<1>4. SoFar'
  BY <1>1, <1>3, AsioOnly, NoFaultNext
  DEF SInv, GInv, Relink, SoFar, ClearSoFar, AppendSoFar, PlaySoFar, RemoveSoFar,
      ConfigureSoFar, ClearLabels, Halted, Silenced, CommandOf
<1>. QED
  BY <1>1, <1>2, <1>3, <1>4 DEF Faithful

LEMMA PlayIndexFaithful == Onward /\ PlayIndex => Faithful
<1>. SUFFICES ASSUME SInv, GInv', overlap' = {}, Remember, PlayIndex PROVE Faithful
  BY DEF Onward
<1>1. /\ up /\ pc.asio = "play_index" /\ pc'.asio = "play_halt"
      /\ pc'.main = "idle" /\ pc.main = "idle"
      /\ pc' \in [asio : AsioLabels, main : MainLabels]
  BY AsioStep DEF SInv, GInv, PlayIndex, AsioLabels
<1>2. up' = up /\ location' # Garbage
  BY <1>1 DEF SInv, GInv, TypeOK, PlayIndex
<1>3. shot' = shot /\ shot' \in Shot /\ UNCHANGED Abstract!vars
  BY <1>1, <1>2, NextStatement
<1>4. SoFar'
  BY <1>1, <1>3, AsioOnly
  DEF SInv, PlayIndex, SoFar, ClearSoFar, AppendSoFar, PlaySoFar, RemoveSoFar,
      ConfigureSoFar, ClearLabels, PlayLabels, Running
<1>. QED
  BY <1>1, <1>2, <1>3, <1>4 DEF Faithful

LEMMA PlayHaltFaithful == Onward /\ PlayHalt => Faithful
<1>. SUFFICES ASSUME SInv, GInv', overlap' = {}, Remember, PlayHalt PROVE Faithful
  BY DEF Onward
<1>1. /\ up /\ pc.asio = "play_halt" /\ pc'.asio = "play_peek"
      /\ pc'.main = "idle" /\ pc.main = "idle"
      /\ pc' \in [asio : AsioLabels, main : MainLabels]
  BY AsioStep DEF SInv, GInv, PlayHalt, AsioLabels
<1>2. up' = up /\ location' # Garbage
  BY <1>1 DEF SInv, GInv, TypeOK, PlayHalt, SetReady
<1>3. shot' = shot /\ shot' \in Shot /\ UNCHANGED Abstract!vars
  BY <1>1, <1>2, NextStatement
<1>4. SoFar'
  BY <1>1, <1>3, AsioOnly
  DEF SInv, PlayHalt, SetReady, SoFar, ClearSoFar, AppendSoFar, PlaySoFar, RemoveSoFar,
      ConfigureSoFar, ClearLabels, PlayLabels, Running, Halted
<1>. QED
  BY <1>1, <1>2, <1>3, <1>4 DEF Faithful

LEMMA PlayPeekFaithful == Onward /\ PlayPeek => Faithful
<1>. SUFFICES ASSUME SInv, GInv', overlap' = {}, Remember, PlayPeek PROVE Faithful
  BY DEF Onward
<1>1. /\ up /\ pc.asio = "play_peek" /\ pc'.asio = "play_drop"
      /\ pc'.main = "idle" /\ pc.main = "idle"
      /\ pc' \in [asio : AsioLabels, main : MainLabels]
  BY AsioStep DEF SInv, GInv, Rewound, PlayPeek, AsioLabels
<1>2. up' = up /\ location' # Garbage
  BY <1>1 DEF SInv, GInv, TypeOK, PlayPeek, Step
<1>3. shot' = shot /\ shot' \in Shot /\ UNCHANGED Abstract!vars
  BY <1>1, <1>2, NextStatement
<1>4. SoFar'
  BY <1>1, <1>3, AsioOnly
  DEF SInv, PlayPeek, SoFar, ClearSoFar, AppendSoFar, PlaySoFar, RemoveSoFar,
      ConfigureSoFar, ClearLabels, PlayLabels, Halted
<1>. QED
  BY <1>1, <1>2, <1>3, <1>4 DEF Faithful

LEMMA PlayDropFaithful == Onward /\ PlayDrop => Faithful
<1>. SUFFICES ASSUME SInv, GInv', overlap' = {}, Remember, PlayDrop PROVE Faithful
  BY DEF Onward
<1>1. /\ up /\ pc.asio = "play_drop" /\ pc'.asio = "play_link"
      /\ pc'.main = "idle" /\ pc.main = "idle"
      /\ pc' \in [asio : AsioLabels, main : MainLabels]
  BY AsioStep DEF SInv, GInv, PlayDrop, AsioLabels
<1>2. up' = up /\ location' # Garbage
  BY <1>1 DEF SInv, GInv, TypeOK, PlayDrop
<1>3. shot' = shot /\ shot' \in Shot /\ UNCHANGED Abstract!vars
  BY <1>1, <1>2, NextStatement
<1>4. SoFar'
  BY <1>1, <1>3, AsioOnly
  DEF SInv, PlayDrop, SoFar, ClearSoFar, AppendSoFar, PlaySoFar, RemoveSoFar,
      ConfigureSoFar, ClearLabels, PlayLabels, Halted
<1>. QED
  BY <1>1, <1>2, <1>3, <1>4 DEF Faithful

LEMMA PlayLinkFaithful == Onward /\ PlayLink => Faithful
<1>. SUFFICES ASSUME SInv, GInv', overlap' = {}, Remember, PlayLink PROVE Faithful
  BY DEF Onward
<1>1. /\ up /\ pc.asio = "play_link" /\ pc'.asio = "resume"
      /\ pc'.main = "idle" /\ pc.main = "idle"
      /\ pc' \in [asio : AsioLabels, main : MainLabels]
  BY AsioStep DEF SInv, GInv, PlayLink, AsioLabels
<1>2. up' = up /\ location' # Garbage
  <2>1. current_file_index = 0 /\ filelist # << >> /\ filelist \in Seq(File)
    BY <1>1 DEF SInv, GInv, TypeOK, SoFar, PlaySoFar, PlayLabels
  <2>2. InBounds(current_file_index) /\ filelist[current_file_index + 1] \in File
    BY <2>1 DEF InBounds
  <2>3. up' = up /\ location' = filelist[current_file_index + 1]
    BY <2>2, NoFaultNext DEF PlayLink
  <2>. QED
    BY <2>2, <2>3, CoreAssumption
<1>3. shot' = shot /\ shot' \in Shot /\ UNCHANGED Abstract!vars
  BY <1>1, <1>2, NextStatement
<1>4. SoFar'
  BY <1>1, <1>3, AsioOnly, NoFaultNext
  DEF SInv, GInv, PlayLink, InBounds, SoFar, ClearSoFar, AppendSoFar, PlaySoFar,
      RemoveSoFar, ConfigureSoFar, PlayLabels, Halted, CommandOf, Linked
<1>. QED
  BY <1>1, <1>2, <1>3, <1>4 DEF Faithful

LEMMA RemoveNullFaithful == Onward /\ RemoveNull => Faithful
<1>. SUFFICES ASSUME SInv, GInv', overlap' = {}, Remember, RemoveNull PROVE Faithful
  BY DEF Onward
<1>1. /\ up /\ pc.asio = "remove" /\ pc'.asio = "unref"
      /\ pc'.main = "idle" /\ pc.main = "idle"
      /\ pc' \in [asio : AsioLabels, main : MainLabels]
  BY AsioStep DEF SInv, GInv, RemoveNull, AsioLabels
<1>2. up' = up /\ location' # Garbage
  BY <1>1 DEF SInv, GInv, TypeOK, RemoveNull
<1>3. shot' = shot /\ shot' \in Shot /\ UNCHANGED Abstract!vars
  BY <1>1, <1>2, NextStatement
<1>4. SoFar'
  BY <1>1, <1>3, AsioOnly
  DEF SInv, RemoveNull, SoFar, ClearSoFar, AppendSoFar, PlaySoFar, RemoveSoFar,
      ConfigureSoFar, ClearLabels, PlayLabels, ListKept, ChainKept
<1>. QED
  BY <1>1, <1>2, <1>3, <1>4 DEF Faithful

LEMMA ConfigureFaithful == Onward /\ Configure => Faithful
<1>. SUFFICES ASSUME SInv, GInv', overlap' = {}, Remember, Configure PROVE Faithful
  BY DEF Onward
<1>1. /\ up /\ pc.asio = "configure" /\ pc'.asio = "resume"
      /\ pc'.main = "idle" /\ pc.main = "idle"
      /\ pc' \in [asio : AsioLabels, main : MainLabels]
  BY AsioStep DEF SInv, GInv, Configure, AsioLabels
<1>2. up' = up /\ location' # Garbage
  BY <1>1 DEF SInv, GInv, TypeOK, Configure
<1>3. shot' = shot /\ shot' \in Shot /\ UNCHANGED Abstract!vars
  BY <1>1, <1>2, NextStatement
<1>4. SoFar'
  BY <1>1, <1>3, AsioOnly
  DEF SInv, GInv, Configure, SoFar, ClearSoFar, AppendSoFar, PlaySoFar, RemoveSoFar,
      ConfigureSoFar, ListKept, Running, CommandOf
<1>. QED
  BY <1>1, <1>2, <1>3, <1>4 DEF Faithful

\* The same in bus_callback.
LEMMA EosTestFaithful == Onward /\ EosTest => Faithful
<1>. SUFFICES ASSUME SInv, GInv', overlap' = {}, Remember, EosTest PROVE Faithful
  BY DEF Onward
<1>1. /\ up /\ pc.main = "eos" /\ pc'.main \in {"gc_halt", "skip_halt"}
      /\ pc'.asio = "idle" /\ pc.asio = "idle"
      /\ pc' \in [asio : AsioLabels, main : MainLabels]
  BY MainStep DEF SInv, GInv, EosTest, MainLabels
<1>2. up' = up /\ location' # Garbage
  BY <1>1 DEF SInv, GInv, TypeOK, EosTest, Step
<1>3. shot' = shot /\ shot' \in Shot /\ UNCHANGED Abstract!vars
  BY <1>1, <1>2, NextStatement
<1>4. SoFar'
  BY <1>1, <1>3, MainOnly
  DEF SInv, EosTest, Step, SoFar, EosSoFar, GstClearSoFar, SkipSoFar, ListKept, ChainKept,
      Running
<1>. QED
  BY <1>1, <1>2, <1>3, <1>4 DEF Faithful

LEMMA GstClearHaltFaithful == Onward /\ GstClearHalt => Faithful
<1>. SUFFICES ASSUME SInv, GInv', overlap' = {}, Remember, GstClearHalt PROVE Faithful
  BY DEF Onward
<1>1. /\ up /\ pc.main = "gc_halt" /\ pc'.main = "gc_peek"
      /\ pc'.asio = "idle" /\ pc.asio = "idle"
      /\ pc' \in [asio : AsioLabels, main : MainLabels]
  BY MainStep DEF SInv, GInv, GstClearHalt, MainLabels
<1>2. up' = up /\ location' # Garbage
  BY <1>1 DEF SInv, GInv, TypeOK, GstClearHalt, SetReady
<1>3. shot' = shot /\ shot' \in Shot /\ UNCHANGED Abstract!vars
  BY <1>1, <1>2, NextStatement
<1>4. SoFar'
  BY <1>1, <1>3, MainOnly
  DEF SInv, GstClearHalt, SetReady, SoFar, EosSoFar, GstClearSoFar, SkipSoFar, ListKept,
      ChainKept, Running, Halted
<1>. QED
  BY <1>1, <1>2, <1>3, <1>4 DEF Faithful

LEMMA DropMainFaithful == Onward /\ Drop("main") => Faithful
<1>. SUFFICES ASSUME SInv, GInv', overlap' = {}, Remember, Drop("main") PROVE Faithful
  BY DEF Onward
<1>1. /\ up /\ pc.main = "drop" /\ pc'.main = "relink"
      /\ pc'.asio = "idle" /\ pc.asio = "idle"
      /\ pc' \in [asio : AsioLabels, main : MainLabels]
  BY MainStep DEF SInv, GInv, Drop, MainLabels
<1>2. up' = up /\ location' # Garbage
  BY <1>1, CoreAssumption DEF SInv, GInv, TypeOK, Drop
<1>3. shot' = shot /\ shot' \in Shot /\ UNCHANGED Abstract!vars
  BY <1>1, <1>2, NextStatement
<1>4. SoFar'
  BY <1>1, <1>3, MainOnly
  DEF SInv, Drop, SoFar, EosSoFar, GstClearSoFar, SkipSoFar, ListKept, ChainKept, Halted,
      Silenced
<1>. QED
  BY <1>1, <1>2, <1>3, <1>4 DEF Faithful

LEMMA RelinkMainFaithful == Onward /\ Relink("main") => Faithful
<1>. SUFFICES ASSUME SInv, GInv', overlap' = {}, Remember, Relink("main") PROVE Faithful
  BY DEF Onward
<1>1. /\ up /\ pc.main = "relink" /\ pc'.main = "resume"
      /\ pc'.asio = "idle" /\ pc.asio = "idle"
      /\ pc' \in [asio : AsioLabels, main : MainLabels]
  BY MainStep DEF SInv, GInv, Relink, MainLabels
<1>2. up' = up /\ location' # Garbage
  BY <1>1, NoFaultNext DEF SInv, GInv, TypeOK, Relink, Abort
<1>3. shot' = shot /\ shot' \in Shot /\ UNCHANGED Abstract!vars
  BY <1>1, <1>2, NextStatement
<1>4. SoFar'
  BY <1>1, <1>3, MainOnly, NoFaultNext
  DEF SInv, Relink, SoFar, EosSoFar, GstClearSoFar, SkipSoFar, ListKept, Halted, Silenced
<1>. QED
  BY <1>1, <1>2, <1>3, <1>4 DEF Faithful

LEMMA SkipHaltFaithful == Onward /\ SkipHalt => Faithful
<1>. SUFFICES ASSUME SInv, GInv', overlap' = {}, Remember, SkipHalt PROVE Faithful
  BY DEF Onward
<1>1. /\ up /\ pc.main = "skip_halt" /\ pc'.main = "skip_load"
      /\ pc'.asio = "idle" /\ pc.asio = "idle"
      /\ pc' \in [asio : AsioLabels, main : MainLabels]
  BY MainStep DEF SInv, GInv, SkipHalt, MainLabels
<1>2. up' = up /\ location' # Garbage
  BY <1>1 DEF SInv, GInv, TypeOK, SkipHalt, SetReady
<1>3. shot' = shot /\ shot' \in Shot /\ UNCHANGED Abstract!vars
  BY <1>1, <1>2, NextStatement
<1>4. SoFar'
  BY <1>1, <1>3, MainOnly
  DEF SInv, SkipHalt, SetReady, SoFar, EosSoFar, GstClearSoFar, SkipSoFar, Running, Halted
<1>. QED
  BY <1>1, <1>2, <1>3, <1>4 DEF Faithful

LEMMA SkipLoadFaithful == Onward /\ SkipLoad => Faithful
<1>. SUFFICES ASSUME SInv, GInv', overlap' = {}, Remember, SkipLoad PROVE Faithful
  BY DEF Onward
<1>1. /\ up /\ pc.main = "skip_load" /\ pc'.main = "skip_store"
      /\ pc'.asio = "idle" /\ pc.asio = "idle"
      /\ pc' \in [asio : AsioLabels, main : MainLabels]
  BY MainStep DEF SInv, GInv, SkipLoad, MainLabels
<1>2. up' = up /\ location' # Garbage
  BY <1>1 DEF SInv, GInv, TypeOK, SkipLoad
<1>3. shot' = shot /\ shot' \in Shot /\ UNCHANGED Abstract!vars
  BY <1>1, <1>2, NextStatement
<1>4. SoFar'
  BY <1>1, <1>3, MainOnly
  DEF SInv, SkipLoad, SoFar, EosSoFar, GstClearSoFar, SkipSoFar, Halted
<1>. QED
  BY <1>1, <1>2, <1>3, <1>4 DEF Faithful

LEMMA SkipStoreFaithful == Onward /\ SkipStore => Faithful
<1>. SUFFICES ASSUME SInv, GInv', overlap' = {}, Remember, SkipStore PROVE Faithful
  BY DEF Onward
<1>1. /\ up /\ pc.main = "skip_store" /\ pc'.main = "skip_find"
      /\ pc'.asio = "idle" /\ pc.asio = "idle"
      /\ pc' \in [asio : AsioLabels, main : MainLabels]
  BY MainStep DEF SInv, GInv, SkipStore, MainLabels
<1>2. up' = up /\ location' # Garbage
  BY <1>1 DEF SInv, GInv, TypeOK, SkipStore
<1>3. shot' = shot /\ shot' \in Shot /\ UNCHANGED Abstract!vars
  BY <1>1, <1>2, NextStatement
<1>4. SoFar'
  BY <1>1, <1>3, MainOnly
  DEF SInv, GInv, SkipStore, SoFar, EosSoFar, GstClearSoFar, SkipSoFar, Halted, Bounded,
      InBounds
<1>. QED
  BY <1>1, <1>2, <1>3, <1>4 DEF Faithful

LEMMA SkipFindFaithful == Onward /\ SkipFind => Faithful
<1>. SUFFICES ASSUME SInv, GInv', overlap' = {}, Remember, SkipFind PROVE Faithful
  BY DEF Onward
<1>1. /\ up /\ pc.main = "skip_find" /\ pc'.main = "skip_fetch"
      /\ pc'.asio = "idle" /\ pc.asio = "idle"
      /\ pc' \in [asio : AsioLabels, main : MainLabels]
  BY MainStep DEF SInv, GInv, SkipFind, MainLabels
<1>2. up' = up /\ location' # Garbage
  BY <1>1 DEF SInv, GInv, TypeOK, SkipFind
<1>3. shot' = shot /\ shot' \in Shot /\ UNCHANGED Abstract!vars
  BY <1>1, <1>2, NextStatement
<1>4. SoFar'
  BY <1>1, <1>3, MainOnly
  DEF SInv, SkipFind, SoFar, EosSoFar, GstClearSoFar, SkipSoFar, Halted, InBounds
<1>. QED
  BY <1>1, <1>2, <1>3, <1>4 DEF Faithful

LEMMA SkipFetchFaithful == Onward /\ SkipFetch => Faithful
<1>. SUFFICES ASSUME SInv, GInv', overlap' = {}, Remember, SkipFetch PROVE Faithful
  BY DEF Onward
<1>1. /\ up /\ pc.main = "skip_fetch" /\ pc'.main = "skip_set"
      /\ pc'.asio = "idle" /\ pc.asio = "idle"
      /\ pc' \in [asio : AsioLabels, main : MainLabels]
  BY MainStep DEF SInv, GInv, SkipFetch, MainLabels
<1>2. up' = up /\ location' # Garbage
  BY <1>1, NoFaultNext DEF SInv, GInv, TypeOK, SkipFetch, InBounds
<1>3. shot' = shot /\ shot' \in Shot /\ UNCHANGED Abstract!vars
  BY <1>1, <1>2, NextStatement
<1>4. SoFar'
  BY <1>1, <1>3, MainOnly, NoFaultNext
  DEF SInv, SkipFetch, InBounds, SoFar, EosSoFar, GstClearSoFar, SkipSoFar, Halted
<1>. QED
  BY <1>1, <1>2, <1>3, <1>4 DEF Faithful

LEMMA SkipSetFaithful == Onward /\ SkipSet => Faithful
<1>. SUFFICES ASSUME SInv, GInv', overlap' = {}, Remember, SkipSet PROVE Faithful
  BY DEF Onward
<1>1. /\ up /\ pc.main = "skip_set" /\ pc'.main = "skip_resume"
      /\ pc'.asio = "idle" /\ pc.asio = "idle"
      /\ pc' \in [asio : AsioLabels, main : MainLabels]
  BY MainStep DEF SInv, GInv, SkipSet, MainLabels
<1>2. up' = up /\ location' # Garbage
  BY <1>1, CoreAssumption
  DEF SInv, GInv, TypeOK, SkipSet, SoFar, SkipSoFar, InBounds
<1>3. shot' = shot /\ shot' \in Shot /\ UNCHANGED Abstract!vars
  BY <1>1, <1>2, NextStatement
<1>4. SoFar'
  BY <1>1, <1>3, MainOnly
  DEF SInv, SkipSet, SoFar, EosSoFar, GstClearSoFar, SkipSoFar, Halted
<1>. QED
  BY <1>1, <1>2, <1>3, <1>4 DEF Faithful

-----------------------------------------------------------------------------
\* The statements a handler may end with. ClearPlayList, with audiotestsrc in place:
LEMMA ClearPeekFaithful == Onward /\ ClearPeek => Faithful
<1>. SUFFICES ASSUME SInv, GInv', overlap' = {}, Remember, ClearPeek PROVE Faithful
  BY DEF Onward
<1>1. /\ up /\ pc.asio = "peek" /\ pc'.asio \in {"idle", "halt"}
      /\ pc'.main = "idle" /\ pc.main = "idle"
      /\ pc' \in [asio : AsioLabels, main : MainLabels]
  BY AsioStep DEF SInv, GInv, ClearPeek, AsioLabels
<1>2. UNCHANGED <<playlist, elements, stream, up, locals, history>>
  BY DEF ClearPeek
<1>3. CASE pc'.asio = "halt"
  <2>1. shot' = shot /\ shot' \in Shot /\ UNCHANGED Abstract!vars
    BY <1>1, <1>2, <1>3, NextStatement
  <2>2. source = "file"
    BY <1>1, <1>3 DEF ClearPeek, Step, SInv, SoFar, ClearSoFar, ClearLabels, ChainKept
  <2>3. SoFar'
    BY <1>1, <1>2, <2>1, <2>2, AsioOnly
    DEF SInv, SoFar, ClearSoFar, AppendSoFar, PlaySoFar, RemoveSoFar, ConfigureSoFar,
        ClearLabels, PlayLabels, ChainKept, Running
  <2>. QED
    BY <1>1, <1>2, <2>1, <2>3 DEF SInv, Faithful
<1>4. CASE pc'.asio = "idle"
  <2>1. /\ Seen = shot
        /\ Seen'.filelist = filelist' /\ Seen'.current_file_index = current_file_index'
        /\ Seen'.source = source' /\ Seen'.location = location'
        /\ Seen'.state = state' /\ Seen'.ended = ended' /\ Seen'.bus = bus'
        /\ shot' = shot /\ shot' \in Shot
    BY <1>1, <1>4, LastStatement
  <2>2. source = "test"
    BY <1>1, <1>4 DEF ClearPeek, Step, SInv, GInv, TypeOK
  <2>3. Abstract!ClearPlayList
    BY <1>1, <1>2, <2>1, <2>2
    DEF SInv, SoFar, ClearSoFar, ClearLabels, ChainKept, Running, Abstract!ClearPlayList
  <2>4. SoFar'
    BY <1>1, <1>4, AsioOnly, MainOnly DEF SoFar
  <2>. QED
    BY <1>1, <1>2, <2>1, <2>3, <2>4 DEF SInv, Faithful, Abstract!Next, Abstract!Command
<1>. QED
  BY <1>1, <1>3, <1>4

\* ClearPlayList, PlayFile and set_config end with PLAYING.
LEMMA ResumeAsioFaithful == Onward /\ Resume("asio") => Faithful
<1>. SUFFICES ASSUME SInv, GInv', overlap' = {}, Remember, Resume("asio") PROVE Faithful
  BY DEF Onward
<1>1. /\ up /\ pc.asio = "resume" /\ pc'.asio = "idle"
      /\ pc'.main = "idle" /\ pc.main = "idle"
      /\ pc' \in [asio : AsioLabels, main : MainLabels]
  BY AsioStep DEF SInv, GInv, Resume, AsioLabels
<1>2. /\ Seen = shot
      /\ Seen'.filelist = filelist' /\ Seen'.current_file_index = current_file_index'
      /\ Seen'.source = source' /\ Seen'.location = location'
      /\ Seen'.state = state' /\ Seen'.ended = ended' /\ Seen'.bus = bus'
      /\ shot' = shot /\ shot' \in Shot
  BY <1>1, LastStatement
<1>3. /\ state' = "PLAYING" /\ cmd \in {"clear", "play", "configure"}
      /\ UNCHANGED <<playlist, elements, ended, bus, up, locals, history>>
  BY <1>1 DEF Resume, SInv, GInv, CommandOf
<1>4. cmd = "clear" => Abstract!ClearPlayList
  BY <1>1, <1>2, <1>3
  DEF SInv, SoFar, ClearSoFar, Halted, Silenced, Abstract!ClearPlayList, Abstract!ToSilence,
      Abstract!Restart, Abstract!Outdated, Outdated
<1>5. cmd = "play" => Abstract!PlayFile
  BY <1>1, <1>2, <1>3
  DEF SInv, SoFar, PlaySoFar, Halted, Abstract!PlayFile, Abstract!ToSilence,
      Abstract!Restart, Abstract!Outdated, Outdated
<1>6. cmd = "configure" => Abstract!Configure
  BY <1>1, <1>2, <1>3 DEF SInv, SoFar, ConfigureSoFar, ListKept, Running, Abstract!Configure
<1>7. SoFar'
  BY <1>1, AsioOnly, MainOnly DEF SoFar
<1>. QED
  BY <1>1, <1>2, <1>3, <1>4, <1>5, <1>6, <1>7
  DEF SInv, Faithful, Abstract!Next, Abstract!Command

\* A play that changes nothing is no step of Playlist at all.
LEMMA PlayTestFaithful == Onward /\ PlayTest => Faithful
<1>. SUFFICES ASSUME SInv, GInv', overlap' = {}, Remember, PlayTest PROVE Faithful
  BY DEF Onward
<1>1. /\ up /\ pc.asio = "play" /\ pc'.asio \in {"idle", "play_index"}
      /\ pc'.main = "idle" /\ pc.main = "idle"
      /\ pc' \in [asio : AsioLabels, main : MainLabels]
  BY AsioStep DEF SInv, GInv, PlayTest, AsioLabels
<1>2. UNCHANGED <<playlist, elements, stream, up, locals, history>>
  BY DEF PlayTest
<1>3. CASE pc'.asio = "play_index"
  <2>1. shot' = shot /\ shot' \in Shot /\ UNCHANGED Abstract!vars
    BY <1>1, <1>2, <1>3, NextStatement
  <2>2. current_file_index < 0 /\ filelist # << >>
    BY <1>1, <1>3 DEF PlayTest, Step, SInv, GInv, TypeOK
  <2>3. source = "test"
    BY <1>1, <2>2 DEF SInv, GInv, Rewound, SoFar, PlaySoFar, PlayLabels, ChainKept
  <2>4. SoFar'
    BY <1>1, <1>2, <2>1, <2>2, <2>3, AsioOnly
    DEF SInv, SoFar, ClearSoFar, AppendSoFar, PlaySoFar, RemoveSoFar, ConfigureSoFar,
        ClearLabels, PlayLabels, ChainKept, Running
  <2>. QED
    BY <1>1, <1>2, <2>1, <2>4 DEF SInv, Faithful
<1>4. CASE pc'.asio = "idle"
  <2>1. /\ Seen = shot
        /\ Seen'.filelist = filelist' /\ Seen'.current_file_index = current_file_index'
        /\ Seen'.source = source' /\ Seen'.location = location'
        /\ Seen'.state = state' /\ Seen'.ended = ended' /\ Seen'.bus = bus'
        /\ shot' = shot /\ shot' \in Shot
    BY <1>1, <1>4, LastStatement
  <2>2. UNCHANGED Abstract!vars
    BY <1>1, <1>2, <2>1
    DEF SInv, SoFar, PlaySoFar, PlayLabels, ChainKept, Running, Abstract!vars
  <2>3. SoFar'
    BY <1>1, <1>4, AsioOnly, MainOnly DEF SoFar
  <2>. QED
    BY <1>1, <1>2, <2>1, <2>2, <2>3 DEF SInv, Faithful
<1>. QED
  BY <1>1, <1>3, <1>4

\* remove ends with the pipeline.
LEMMA RemoveUnrefFaithful == Onward /\ RemoveUnref => Faithful
<1>. SUFFICES ASSUME SInv, GInv', overlap' = {}, Remember, RemoveUnref PROVE Faithful
  BY DEF Onward
<1>1. /\ up /\ pc.asio = "unref" /\ pc'.asio = "idle"
      /\ pc'.main = "idle" /\ pc.main = "idle"
      /\ pc' \in [asio : AsioLabels, main : MainLabels]
  BY AsioStep DEF SInv, GInv, RemoveUnref, AsioLabels
<1>2. /\ Seen = shot
      /\ Seen'.filelist = filelist' /\ Seen'.current_file_index = current_file_index'
      /\ Seen'.source = source' /\ Seen'.location = location'
      /\ Seen'.state = state' /\ Seen'.ended = ended' /\ Seen'.bus = bus'
      /\ shot' = shot /\ shot' \in Shot
  BY <1>1, LastStatement
<1>3. Abstract!Remove
  BY <1>1, <1>2
  DEF SInv, SoFar, RemoveSoFar, ListKept, ChainKept, RemoveUnref, Abstract!Remove
<1>4. SoFar'
  BY <1>1, AsioOnly, MainOnly DEF SoFar
<1>5. location' # Garbage
  BY CoreAssumption DEF RemoveUnref
<1>. QED
  BY <1>1, <1>2, <1>3, <1>4, <1>5 DEF Faithful, Abstract!Next, Abstract!Command

\* GstClear, with audiotestsrc in place, ends in READY.
LEMMA GstClearPeekFaithful == Onward /\ GstClearPeek => Faithful
<1>. SUFFICES ASSUME SInv, GInv', overlap' = {}, Remember, GstClearPeek PROVE Faithful
  BY DEF Onward
<1>1. /\ up /\ pc.main = "gc_peek" /\ pc'.main \in {"idle", "drop"}
      /\ pc'.asio = "idle" /\ pc.asio = "idle"
      /\ pc' \in [asio : AsioLabels, main : MainLabels]
  BY MainStep DEF SInv, GInv, GstClearPeek, MainLabels
<1>2. UNCHANGED <<playlist, elements, stream, up, locals, history>>
  BY DEF GstClearPeek
<1>3. CASE pc'.main = "drop"
  <2>1. shot' = shot /\ shot' \in Shot /\ UNCHANGED Abstract!vars
    BY <1>1, <1>2, <1>3, NextStatement
  <2>2. source = "file"
    BY <1>1, <1>3 DEF GstClearPeek, Step, SInv, SoFar, EosSoFar, GstClearSoFar, ChainKept
  <2>3. SoFar'
    BY <1>1, <1>2, <2>1, <2>2, MainOnly
    DEF SInv, SoFar, EosSoFar, GstClearSoFar, SkipSoFar, ListKept, ChainKept, Halted
  <2>. QED
    BY <1>1, <1>2, <2>1, <2>3 DEF SInv, Faithful
<1>4. CASE pc'.main = "idle"
  <2>1. /\ Seen = shot
        /\ Seen'.filelist = filelist' /\ Seen'.current_file_index = current_file_index'
        /\ Seen'.source = source' /\ Seen'.location = location'
        /\ Seen'.state = state' /\ Seen'.ended = ended' /\ Seen'.bus = bus'
        /\ shot' = shot /\ shot' \in Shot
    BY <1>1, <1>4, LastStatement
  <2>2. source = "test"
    BY <1>1, <1>4 DEF GstClearPeek, Step, SInv, GInv, TypeOK
  <2>3. Abstract!BusEos
    BY <1>1, <1>2, <2>1, <2>2
    DEF SInv, SoFar, EosSoFar, GstClearSoFar, ListKept, ChainKept, Halted, Abstract!BusEos,
        Abstract!GstClear, Abstract!Outdated, Outdated
  <2>4. SoFar'
    BY <1>1, <1>4, AsioOnly, MainOnly DEF SoFar
  <2>. QED
    BY <1>1, <1>2, <2>1, <2>3, <2>4 DEF SInv, Faithful, Abstract!Next, Abstract!BusCallback
<1>. QED
  BY <1>1, <1>3, <1>4

\* Both branches of bus_callback end with PLAYING.
LEMMA ResumeMainFaithful == Onward /\ Resume("main") => Faithful
<1>. SUFFICES ASSUME SInv, GInv', overlap' = {}, Remember, Resume("main") PROVE Faithful
  BY DEF Onward
<1>1. /\ up /\ pc.main \in {"resume", "skip_resume"} /\ pc'.main = "idle"
      /\ pc'.asio = "idle" /\ pc.asio = "idle"
      /\ pc' \in [asio : AsioLabels, main : MainLabels]
  BY MainStep DEF SInv, GInv, Resume, MainLabels
<1>2. /\ Seen = shot
      /\ Seen'.filelist = filelist' /\ Seen'.current_file_index = current_file_index'
      /\ Seen'.source = source' /\ Seen'.location = location'
      /\ Seen'.state = state' /\ Seen'.ended = ended' /\ Seen'.bus = bus'
      /\ shot' = shot /\ shot' \in Shot
  BY <1>1, LastStatement
<1>3. /\ state' = "PLAYING"
      /\ UNCHANGED <<playlist, elements, ended, bus, up, locals, history>>
  BY DEF Resume
<1>4. pc.main = "resume" => Abstract!BusEos
  BY <1>1, <1>2, <1>3
  DEF SInv, SoFar, EosSoFar, GstClearSoFar, ListKept, Halted, Silenced, Abstract!BusEos,
      Abstract!GstClear, Abstract!ToSilence, Abstract!Restart, Abstract!Outdated, Outdated
<1>5. pc.main = "skip_resume" => Abstract!BusEos
  BY <1>1, <1>2, <1>3
  DEF SInv, SoFar, EosSoFar, SkipSoFar, Halted, Shot, Abstract!BusEos, Abstract!Advance,
      Abstract!Restart, Abstract!Outdated, Outdated
<1>6. SoFar'
  BY <1>1, AsioOnly, MainOnly DEF SoFar
<1>. QED
  BY <1>1, <1>2, <1>3, <1>4, <1>5, <1>6
  DEF SInv, Faithful, Abstract!Next, Abstract!BusCallback

\* One name more is on the list, one less is to come.
LEMMA Push ==
  ASSUME NEW list \in Seq(File), NEW names \in Seq(File), names # << >>
  PROVE  /\ Append(list, Head(names)) \o Tail(names) = list \o names
         /\ Head(names) \notin Foreign => Strange(Tail(names)) = Strange(names)
         /\ Head(names) \in Foreign => Strange(names) # {}
<1>1. /\ Len(names) \in Nat \ {0} /\ Len(Tail(names)) = Len(names) - 1
      /\ Head(names) = names[1] /\ Head(names) \in File /\ Tail(names) \in Seq(File)
      /\ \A i \in 1 .. Len(names) - 1 : Tail(names)[i] = names[i + 1]
  OBVIOUS
<1>2. Append(list, Head(names)) \o Tail(names) = list \o names
  BY <1>1
<1>3. Head(names) \notin Foreign => Strange(Tail(names)) = Strange(names)
  <2>. SUFFICES ASSUME Head(names) \notin Foreign PROVE Strange(Tail(names)) = Strange(names)
    OBVIOUS
  <2>1. Strange(Tail(names)) \subseteq Strange(names)
    BY <1>1 DEF Strange
  <2>2. ASSUME NEW n \in Strange(names) PROVE n \in Strange(Tail(names))
    <3>1. PICK i \in 1 .. Len(names) : n = names[i]
      BY <1>1 DEF Strange
    <3>2. n \in Foreign
      BY DEF Strange
    <3>3. i # 1
      BY <1>1, <3>1, <3>2
    <3>4. i - 1 \in 1 .. Len(Tail(names)) /\ Tail(names)[i - 1] = n
      BY <1>1, <3>1, <3>3
    <3>5. DOMAIN Tail(names) = 1 .. Len(Tail(names))
      BY <1>1
    <3>. QED
      BY <3>2, <3>4, <3>5 DEF Strange
  <2>. QED
    BY <2>1, <2>2
<1>4. Head(names) \in Foreign => Strange(names) # {}
  BY <1>1 DEF Strange
<1>. QED
  BY <1>2, <1>3, <1>4

\* The last name, and a name that throws, are what AppandPlayList of Playlist says.
LEMMA AppandPlayListFaithful == Onward /\ AppandPlayList => Faithful
<1>. SUFFICES ASSUME SInv, GInv', overlap' = {}, Remember, AppandPlayList PROVE Faithful
  BY DEF Onward
<1>1. /\ up /\ pc.asio = "append" /\ pc'.asio \in {"idle", "append"}
      /\ pc'.main = "idle" /\ pc.main = "idle"
      /\ pc' \in [asio : AsioLabels, main : MainLabels]
  BY AsioStep DEF SInv, GInv, AppandPlayList, AsioLabels
<1>2. /\ pending \in Seq(File) /\ pending # << >> /\ pending' = Tail(pending)
      /\ filelist \in Seq(File)
      /\ UNCHANGED <<current_file_index, elements, stream>>
  BY <1>1 DEF AppandPlayList, SInv, GInv, TypeOK, CommandOf
<1>3. PICK list \in Requests :
        /\ Len(shot.filelist) + Len(list) <= MaxList
        /\ filelist \o pending = shot.filelist \o list
        /\ Strange(pending) = Strange(list)
  BY <1>1 DEF SInv, SoFar, AppendSoFar
<1>4. Len(pending) \in Nat \ {0} /\ Tail(pending) \in Seq(File)
  BY <1>2
<1>5. CASE Head(pending) \in Foreign
  <2>1. UNCHANGED filelist /\ up' = FALSE /\ pc'.asio = "append"
    BY <1>1, <1>5 DEF AppandPlayList, Step, SInv, GInv, TypeOK
  <2>2. shot' = shot /\ shot' \in Shot
    BY <1>1, <1>2, <2>1, NextStatement
  <2>3. Seen = shot /\ Seen' = shot'
    BY <1>1, <2>1, <2>2, QuietMeans DEF Seen, Quiet, SInv, GInv, TypeOK
  <2>4. \E i \in DOMAIN list : list[i] \in Foreign
    <3>1. Strange(list) # {}
      BY <1>2, <1>3, <1>5, Push
    <3>. QED
      BY <3>1 DEF Strange
  <2>5. Abstract!AppandPlayList(list)
    BY <1>1, <1>3, <2>1, <2>2, <2>3, <2>4 DEF Abstract!AppandPlayList
  <2>. QED
    BY <1>1, <1>2, <2>1, <2>2, <2>5 DEF SInv, Faithful, Abstract!Next, Abstract!Command
<1>6. CASE Head(pending) \notin Foreign /\ Len(pending) # 1
  <2>1. filelist' = Append(filelist, Head(pending)) /\ up' = up /\ pc'.asio = "append"
    BY <1>1, <1>6 DEF AppandPlayList, Step, SInv, GInv, TypeOK
  <2>2. shot' = shot /\ shot' \in Shot /\ UNCHANGED Abstract!vars
    BY <1>1, <1>2, <2>1, NextStatement
  <2>3. filelist' \o pending' = shot'.filelist \o list /\ Strange(pending') = Strange(list)
    BY <1>2, <1>3, <1>6, <2>1, <2>2, Push
  <2>4. AppendSoFar'
    BY <1>1, <1>2, <1>3, <2>2, <2>3 DEF SInv, SoFar, AppendSoFar, ChainKept, Running
  <2>5. ClearSoFar' /\ PlaySoFar' /\ RemoveSoFar' /\ ConfigureSoFar'
    BY <2>1 DEF ClearSoFar, PlaySoFar, RemoveSoFar, ConfigureSoFar, ClearLabels, PlayLabels
  <2>. QED
    BY <1>1, <1>2, <2>2, <2>4, <2>5, AsioOnly DEF SInv, SoFar, Faithful
<1>7. CASE Head(pending) \notin Foreign /\ Len(pending) = 1
  <2>1. filelist' = Append(filelist, Head(pending)) /\ up' = up /\ pc'.asio = "idle"
    BY <1>1, <1>7 DEF AppandPlayList, Step, SInv, GInv, TypeOK
  <2>2. /\ Seen = shot
        /\ Seen'.filelist = filelist' /\ Seen'.current_file_index = current_file_index'
        /\ Seen'.source = source' /\ Seen'.location = location'
        /\ Seen'.state = state' /\ Seen'.ended = ended' /\ Seen'.bus = bus'
        /\ shot' = shot /\ shot' \in Shot
    BY <1>1, <2>1, LastStatement
  <2>3. Tail(pending) = << >>
    BY <1>2, <1>4, <1>7
  <2>4. filelist' = shot.filelist \o list
    <3>1. filelist' \o << >> = shot.filelist \o list
      BY <1>2, <1>3, <2>1, <2>3, Push
    <3>2. filelist' \in Seq(File)
      BY <1>2, <2>1
    <3>. QED
      BY <3>1, <3>2
  <2>5. ~ \E i \in DOMAIN list : list[i] \in Foreign
    <3>1. Strange(list) = Strange(<< >>)
      BY <1>2, <1>3, <1>7, <2>3, Push
    <3>. QED
      BY <3>1 DEF Strange
  <2>6. Abstract!AppandPlayList(list)
    BY <1>1, <1>2, <1>3, <2>1, <2>2, <2>4, <2>5
    DEF SInv, SoFar, AppendSoFar, ChainKept, Running, Abstract!AppandPlayList
  <2>7. SoFar'
    BY <1>1, <2>1, AsioOnly, MainOnly DEF SoFar
  <2>. QED
    BY <1>1, <1>2, <2>1, <2>2, <2>6, <2>7 DEF SInv, Faithful, Abstract!Next, Abstract!Command
<1>. QED
  BY <1>5, <1>6, <1>7

-----------------------------------------------------------------------------
\* A command begins.
LEMMA BeginFaithful ==
  ASSUME NEW c \in Commands, NEW list, c = "append" => list \in Requests, Onward, Begin(c, list)
  PROVE  Faithful
<1>. USE DEF Onward
<1>1. /\ up /\ pc.asio = "idle" /\ pc'.asio = c /\ pc'.main = pc.main
      /\ pc' \in [asio : AsioLabels, main : MainLabels]
  BY DEF SInv, GInv, TypeOK, Begin, Commands, AsioLabels
<1>2. pc.main = "idle"
  BY DEF Begin
<1>3. UNCHANGED <<playlist, elements, stream, up>> /\ pending' = list
  BY DEF Begin
<1>4. /\ UNCHANGED Abstract!vars
      /\ shot' \in Shot
      /\ shot'.filelist = filelist /\ shot'.current_file_index = current_file_index
      /\ shot'.source = source /\ shot'.location = location
      /\ shot'.state = state /\ shot'.ended = ended /\ shot'.bus = bus
  BY <1>1, <1>2, <1>3, FirstStatement DEF Commands
<1>5. ListKept' /\ ChainKept' /\ Running(shot.bus)'
  BY <1>3, <1>4 DEF ListKept, ChainKept, Running
<1>6. source # "gap" /\ (c \in {"clear", "play", "remove"} => source # "none")
      /\ (c = "configure" => source = "none")
  BY <1>1, <1>2 DEF Begin, SInv, GInv, Linked
<1>7. AppendSoFar'
  BY <1>1, <1>3, <1>4, <1>5 DEF Begin, AppendSoFar, ListKept
<1>8. ClearSoFar' /\ PlaySoFar' /\ RemoveSoFar' /\ ConfigureSoFar'
  BY <1>1, <1>3, <1>5, <1>6
  DEF Commands, GInv, TypeOK, ListKept, ChainKept, ClearSoFar, PlaySoFar, RemoveSoFar,
      ConfigureSoFar, ClearLabels, PlayLabels
<1>. QED
  BY <1>1, <1>2, <1>3, <1>4, <1>7, <1>8, AsioOnly DEF SInv, SoFar, Faithful

-----------------------------------------------------------------------------
\* What READY leaves of a bus is popped as the bus itself is.
LEMMA OutdatedQueue ==
  ASSUME NEW queue \in Seq(Message), queue # << >>
  PROVE  /\ Outdated(queue) # << >>
         /\ Head(Outdated(queue)).kind = Head(queue).kind
         /\ Tail(Outdated(queue)) = Outdated(Tail(queue))
<1>1. /\ Len(queue) \in Nat \ {0} /\ DOMAIN queue = 1 .. Len(queue)
      /\ Tail(queue) \in Seq(Message) /\ Len(Tail(queue)) = Len(queue) - 1
      /\ \A i \in 1 .. Len(queue) - 1 : Tail(queue)[i] = queue[i + 1]
  OBVIOUS
<1>2. /\ Outdated(queue) \in Seq(Message) /\ Outdated(Tail(queue)) \in Seq(Message)
  BY <1>1, OutdatedType
<1>3. /\ DOMAIN Outdated(queue) = 1 .. Len(queue)
      /\ DOMAIN Outdated(Tail(queue)) = 1 .. Len(queue) - 1
      /\ \A i \in 1 .. Len(queue) : Outdated(queue)[i] = [queue[i] EXCEPT !.stale = TRUE]
      /\ \A i \in 1 .. Len(queue) - 1 :
           Outdated(Tail(queue))[i] = [Tail(queue)[i] EXCEPT !.stale = TRUE]
  BY <1>1 DEF Outdated
<1>4. Len(Outdated(queue)) = Len(queue) /\ Len(Outdated(Tail(queue))) = Len(queue) - 1
  <2>1. \A n, k \in Nat : 1 .. n = 1 .. k => n = k
    <3>. TAKE n, k \in Nat
    <3>. HAVE 1 .. n = 1 .. k
    <3>1. n > 0 => n \in 1 .. k
      OBVIOUS
    <3>2. k > 0 => k \in 1 .. n
      OBVIOUS
    <3>. QED
      BY <3>1, <3>2
  <2>2. /\ Len(Outdated(queue)) \in Nat /\ Len(Outdated(Tail(queue))) \in Nat
        /\ DOMAIN Outdated(queue) = 1 .. Len(Outdated(queue))
        /\ DOMAIN Outdated(Tail(queue)) = 1 .. Len(Outdated(Tail(queue)))
    BY <1>2
  <2>3. Len(queue) - 1 \in Nat
    BY <1>1
  <2>. QED
    BY <1>1, <1>3, <2>1, <2>2, <2>3
<1>5. Outdated(queue) # << >> /\ Head(Outdated(queue)) = [queue[1] EXCEPT !.stale = TRUE]
  BY <1>1, <1>2, <1>3, <1>4
<1>6. queue[1] \in Message /\ Head(queue) = queue[1]
  BY <1>1
<1>7. Tail(Outdated(queue)) = Outdated(Tail(queue))
  <2>1. /\ Tail(Outdated(queue)) \in Seq(Message)
        /\ Len(Tail(Outdated(queue))) = Len(queue) - 1
        /\ \A i \in 1 .. Len(queue) - 1 : Tail(Outdated(queue))[i] = Outdated(queue)[i + 1]
    BY <1>1, <1>2, <1>4, <1>5
  <2>2. \A i \in 1 .. Len(queue) - 1 : Tail(Outdated(queue))[i] = Outdated(Tail(queue))[i]
    BY <1>1, <1>3, <2>1
  <2>. QED
    BY <1>1, <1>2, <1>4, <2>1, <2>2
<1>. QED
  BY <1>5, <1>6, <1>7 DEF Message

\* A message that comes goes to the end of either bus.
LEMMA AppendQueue ==
  ASSUME NEW queue \in Seq(Message), NEW m \in Message
  PROVE  /\ Append(queue, m) \in Seq(Message)
         /\ Len(Append(queue, m)) = Len(queue) + 1
         /\ Append(queue, m)[Len(queue) + 1] = m
         /\ queue # << >> => Tail(Append(queue, m)) = Append(Tail(queue), m)
         /\ queue # << >> => Append(queue, m) # << >> /\ Head(Append(queue, m)) = Head(queue)
  OBVIOUS

\* Between handlers Playlist sees the state itself.
LEMMA BetweenHandlers ==
  ASSUME SInv, Remember, pc' = pc, pc.asio = "idle", pc.main = "idle"
  PROVE  /\ Seen.filelist = filelist /\ Seen.current_file_index = current_file_index
         /\ Seen.source = source /\ Seen.location = location
         /\ Seen.state = state /\ Seen.ended = ended /\ Seen.bus = bus
         /\ Seen'.filelist = filelist' /\ Seen'.current_file_index = current_file_index'
         /\ Seen'.source = source' /\ Seen'.location = location'
         /\ Seen'.state = state' /\ Seen'.ended = ended' /\ Seen'.bus = bus'
         /\ shot' \in Shot
<1>1. Quiet /\ Quiet'
  BY QuietMeans DEF SInv, GInv, TypeOK, Quiet
<1>2. Seen = Snapshot /\ Seen' = Snapshot' /\ shot' = Snapshot
  BY <1>1 DEF Seen, Remember
<1>3. Snapshot \in Shot
  BY DEF SInv, GInv, TypeOK, Snapshot, Shot, Message
<1>. QED
  BY <1>2, <1>3 DEF Snapshot

\* Within a handler Playlist sees shot, to which the bus is added.
LEMMA WithinHandler ==
  ASSUME SInv, Remember, pc' = pc, bus' # bus, pc.asio # "idle" \/ pc.main # "idle"
  PROVE  Seen = shot /\ Seen' = shot' /\ shot' = Meanwhile
<1>1. ~Quiet /\ ~Quiet'
  BY QuietMeans DEF SInv, GInv, TypeOK, Quiet
<1>. QED
  BY <1>1 DEF Seen, Remember

\* An EOS begins a handler.
LEMMA EosFaithful ==
  ASSUME Onward, Dispatch, Head(bus).kind = "eos"
  PROVE  Faithful
<1>. USE DEF Onward
<1>1. /\ up /\ pc.main = "idle" /\ pc'.main = "eos" /\ pc'.asio = pc.asio /\ pc.asio = "idle"
      /\ pc' \in [asio : AsioLabels, main : MainLabels]
  BY DEF Dispatch, SInv, GInv, TypeOK, MainLabels
<1>2. /\ bus # << >> /\ bus' = Tail(bus)
      /\ UNCHANGED <<playlist, source, location, found, state, ended, up, locals, fault>>
  BY DEF Dispatch
<1>3. /\ UNCHANGED Abstract!vars
      /\ shot' \in Shot
      /\ shot'.filelist = filelist /\ shot'.current_file_index = current_file_index
      /\ shot'.source = source /\ shot'.location = location
      /\ shot'.state = state /\ shot'.ended = ended /\ shot'.bus = bus
  BY <1>1, <1>2, FirstStatement
<1>4. source \in {"test", "file"}
  BY <1>1, <1>2 DEF SInv, GInv, TypeOK, Removed, Linked
<1>5. EosSoFar' /\ GstClearSoFar' /\ SkipSoFar'
  BY <1>1, <1>2, <1>3, <1>4
  DEF EosSoFar, GstClearSoFar, SkipSoFar, ListKept, ChainKept, Running
<1>. QED
  BY <1>1, <1>2, <1>3, <1>5, MainOnly DEF SInv, SoFar, Faithful

\* An ERROR is dropped from both buses.
LEMMA ErrorFaithful ==
  ASSUME Onward, Dispatch, Head(bus).kind # "eos"
  PROVE  Faithful
<1>. USE DEF Onward
<1>1. /\ up /\ pc.main = "idle" /\ pc' = pc
      /\ bus \in Seq(Message) /\ bus # << >> /\ bus' = Tail(bus)
      /\ UNCHANGED <<playlist, source, location, found, state, ended, up, locals, fault>>
  BY DEF Dispatch, SInv, GInv, TypeOK, Message
<1>2. Head(bus).kind = "error" /\ Len(bus') = Len(bus) - 1 /\ Len(bus) \in Nat
  <2>1. Head(bus) \in Message /\ Len(bus) \in Nat /\ Len(Tail(bus)) = Len(bus) - 1
    BY <1>1
  <2>. QED
    BY <1>1, <2>1 DEF Message
<1>3. CASE pc.asio = "idle"
  <2>1. Abstract!BusError /\ shot' \in Shot
    BY <1>1, <1>2, <1>3, BetweenHandlers DEF Abstract!BusError
  <2>2. SoFar'
    BY <1>1, <1>3, AsioOnly, MainOnly DEF SoFar
  <2>. QED
    BY <1>1, <1>3, <2>1, <2>2 DEF SInv, Faithful, Abstract!Next, Abstract!BusCallback
<1>4. CASE pc.asio # "idle"
  <2>1. Seen = shot /\ Seen' = shot' /\ shot' = [shot EXCEPT !.bus = Tail(@)]
    <3>1. bus' # bus /\ ~(Len(bus') > Len(bus))
      BY <1>2
    <3>2. Seen = shot /\ Seen' = shot' /\ shot' = Meanwhile
      BY <1>1, <1>4, <3>1, WithinHandler
    <3>. QED
      BY <3>1, <3>2 DEF Meanwhile
  <2>2. /\ shot'.filelist = shot.filelist /\ shot'.current_file_index = shot.current_file_index
        /\ shot'.source = shot.source /\ shot'.location = shot.location
        /\ shot'.state = shot.state /\ shot'.ended = shot.ended
        /\ shot'.bus = Tail(shot.bus)
        /\ shot.bus \in Seq(Message)
    BY <2>1 DEF SInv, Shot
  <2>3. bus = shot.bus \/ bus = Outdated(shot.bus)
    BY <1>1, <1>4
    DEF SInv, GInv, TypeOK, AsioLabels, CommandOf, SoFar, ClearSoFar, AppendSoFar,
        PlaySoFar, RemoveSoFar, ConfigureSoFar, ClearLabels, PlayLabels, Running, Halted
  <2>4. shot.bus # << >>
    BY <1>1, <2>2, <2>3, OutdatedType
  <2>5. /\ Head(shot.bus).kind = "error"
        /\ Tail(Outdated(shot.bus)) = Outdated(Tail(shot.bus))
    BY <1>2, <2>2, <2>3, <2>4, OutdatedQueue
  <2>6. shot' \in Shot
    <3>1. Tail(shot.bus) \in Seq(Message)
      BY <2>2, <2>4
    <3>. QED
      BY <2>1, <3>1 DEF SInv, Shot
  <2>7. Abstract!BusError
    BY <1>1, <2>1, <2>2, <2>4, <2>5 DEF Abstract!BusError
  <2>8. /\ Running(shot.bus) => Running(shot.bus)'
        /\ Halted(shot.bus) => Halted(shot.bus)'
        /\ ChainKept => ChainKept'
        /\ ListKept => ListKept'
        /\ \A at : Silenced(at) => Silenced(at)'
    BY <1>1, <2>2, <2>5 DEF Running, Halted, ChainKept, ListKept, Silenced
  <2>9. ClearSoFar' /\ PlaySoFar' /\ ConfigureSoFar'
    BY <1>1, <2>2, <2>8 DEF SInv, SoFar, ClearSoFar, PlaySoFar, ConfigureSoFar
  <2>10. AppendSoFar' /\ RemoveSoFar'
    BY <1>1, <2>2, <2>8 DEF SInv, SoFar, AppendSoFar, RemoveSoFar
  <2>. QED
    BY <1>1, <2>6, <2>7, <2>9, <2>10, AsioOnly
    DEF SInv, SoFar, Faithful, Abstract!Next, Abstract!BusCallback
<1>. QED
  BY <1>3, <1>4

\* A run ends on both buses.
LEMMA EndOfRunFaithful ==
  ASSUME Onward, EndOfRun
  PROVE  Faithful
<1>. USE DEF Onward
<1>1. /\ up /\ state = "PLAYING" /\ source = "file" /\ ~ended /\ ended' = TRUE
      /\ bus \in Seq(Message) /\ Len(bus) < MaxBus
      /\ UNCHANGED <<playlist, elements, state, up, pc, locals, history>>
      /\ pc \in [asio : AsioLabels, main : MainLabels]
  BY DEF EndOfRun, SInv, GInv, TypeOK, Message
<1>. DEFINE m == [kind |-> IF location \in Broken THEN "error" ELSE "eos", stale |-> FALSE]
<1>2. bus' = Append(bus, m) /\ m \in Message
  BY DEF EndOfRun, SInv, Message
<1>. HIDE DEF m
<1>3. /\ Len(bus) \in Nat /\ Len(bus') = Len(bus) + 1 /\ bus'[Len(bus')] = m /\ bus' # bus
  BY <1>1, <1>2, AppendQueue
<1>4. CASE pc.asio = "idle" /\ pc.main = "idle"
  <2>1. Abstract!EndOfRun /\ shot' \in Shot
    <3>1. Len(bus) < MaxBus + 1
      BY <1>1, <1>3, CoreAssumption
    <3>. QED
      BY <1>1, <1>2, <1>4, <3>1, BetweenHandlers DEF Abstract!EndOfRun, m
  <2>2. SoFar'
    BY <1>1, <1>4, AsioOnly, MainOnly DEF SoFar
  <2>. QED
    BY <1>1, <1>4, <2>1, <2>2 DEF SInv, Faithful, Abstract!Next
<1>5. CASE pc.asio # "idle" \/ pc.main # "idle"
  <2>1. /\ Seen = shot /\ Seen' = shot'
        /\ shot' = [shot EXCEPT !.ended = TRUE, !.bus = Append(@, m)]
    BY <1>1, <1>3, <1>5, WithinHandler DEF Meanwhile
  <2>2. /\ shot'.filelist = shot.filelist /\ shot'.current_file_index = shot.current_file_index
        /\ shot'.source = shot.source /\ shot'.location = shot.location
        /\ shot'.state = shot.state /\ shot'.ended = TRUE
        /\ shot'.bus = Append(shot.bus, m)
        /\ shot.bus \in Seq(Message)
    BY <2>1 DEF SInv, Shot
  <2>3. shot' \in Shot
    BY <1>2, <2>1, <2>2, AppendQueue DEF SInv, Shot
  <2>4. CASE pc.main = "idle"
    <3>1. Running(shot.bus) /\ ChainKept
      BY <1>1, <1>5, <2>4
      DEF SInv, GInv, AsioLabels, Rewound, CommandOf, Removed, SoFar, ClearSoFar,
          AppendSoFar, PlaySoFar, RemoveSoFar, ConfigureSoFar, ClearLabels, PlayLabels,
          Halted
    <3>2. Abstract!EndOfRun
      BY <1>1, <1>2, <1>3, <2>1, <2>2, <3>1, CoreAssumption
      DEF Running, ChainKept, Abstract!EndOfRun, m
    <3>3. /\ Running(shot.bus)' /\ ChainKept'
          /\ ListKept => ListKept'
      BY <1>1, <1>2, <2>2, <3>1 DEF Running, ChainKept, ListKept
    <3>4. ClearSoFar' /\ PlaySoFar' /\ ConfigureSoFar'
      BY <1>1, <2>2, <3>3 DEF SInv, SoFar, ClearSoFar, PlaySoFar, ConfigureSoFar, Halted
    <3>5. AppendSoFar' /\ RemoveSoFar'
      BY <1>1, <2>2, <3>3 DEF SInv, GInv, Removed, SoFar, AppendSoFar, RemoveSoFar
    <3>. QED
      BY <1>1, <2>3, <2>4, <3>2, <3>4, <3>5, AsioOnly DEF SInv, SoFar, Faithful, Abstract!Next
  <2>5. CASE pc.main # "idle"
    <3>1. /\ pc.main \in {"eos", "gc_halt", "skip_halt"} /\ Running(Tail(shot.bus)) /\ ChainKept
          /\ shot.bus # << >>
      BY <1>1, <2>5 DEF SInv, SoFar, EosSoFar, GstClearSoFar, SkipSoFar, ChainKept, Halted
    <3>2. Len(Tail(shot.bus)) = Len(shot.bus) - 1 /\ Len(shot.bus) \in Nat
      BY <2>2, <3>1
    <3>3. Abstract!EndOfRun
      BY <1>1, <1>2, <1>3, <2>1, <2>2, <3>1, <3>2, CoreAssumption
      DEF Running, ChainKept, Abstract!EndOfRun, m
    <3>4. /\ Running(Tail(shot.bus))' /\ ChainKept'
          /\ shot'.bus # << >> /\ Head(shot'.bus) = Head(shot.bus)
          /\ ListKept => ListKept'
      <4>1. Tail(shot'.bus) = Append(Tail(shot.bus), m)
        BY <1>2, <2>2, <3>1, AppendQueue
      <4>2. shot'.bus # << >> /\ Head(shot'.bus) = Head(shot.bus)
        BY <1>2, <2>2, <3>1, AppendQueue
      <4>. QED
        BY <1>1, <1>2, <2>2, <3>1, <4>1, <4>2 DEF Running, ChainKept, ListKept
    <3>5. EosSoFar' /\ GstClearSoFar' /\ SkipSoFar'
      BY <1>1, <2>2, <3>1, <3>4 DEF SInv, SoFar, EosSoFar, GstClearSoFar, SkipSoFar
    <3>. QED
      BY <1>1, <2>3, <2>5, <3>3, <3>5, MainOnly DEF SInv, SoFar, Faithful, Abstract!Next
  <2>. QED
    BY <2>4, <2>5
<1>. QED
  BY <1>4, <1>5

\* No pipeline is freed under a handler.
LEMMA UseFreedNever == Onward => ~UseFreed
  BY NoFaultNext DEF Onward, UseFreed, Abort

\* A process that has terminated does nothing more.
LEMMA OverFaithful == Onward /\ UNCHANGED vars => Faithful
<1>. SUFFICES ASSUME SInv, Remember, UNCHANGED vars PROVE Faithful
  BY DEF Onward
<1>1. UNCHANGED <<playlist, elements, stream, up, pc, locals, history>>
  BY DEF vars
<1>2. CASE pc.asio = "idle" /\ pc.main = "idle"
  <2>1. UNCHANGED Abstract!vars /\ shot' \in Shot
    BY <1>1, <1>2, BetweenHandlers DEF Abstract!vars
  <2>2. SoFar'
    BY <1>1, <1>2, AsioOnly, MainOnly DEF SoFar
  <2>. QED
    BY <1>1, <2>1, <2>2 DEF SInv, Faithful
<1>3. CASE pc.asio # "idle" \/ pc.main # "idle"
  <2>1. pc' \in [asio : AsioLabels, main : MainLabels]
    BY <1>1 DEF SInv, GInv, TypeOK
  <2>2. shot' = shot /\ shot' \in Shot /\ UNCHANGED Abstract!vars
    BY <1>1, <1>3, <2>1, NextStatement
  <2>3. up => ClearSoFar' /\ AppendSoFar' /\ PlaySoFar' /\ RemoveSoFar' /\ ConfigureSoFar'
    BY <1>1, <2>2
    DEF SInv, SoFar, ClearSoFar, AppendSoFar, PlaySoFar, RemoveSoFar, ConfigureSoFar,
        ListKept, ChainKept, Running, Halted, Silenced
  <2>4. up => EosSoFar' /\ GstClearSoFar' /\ SkipSoFar'
    BY <1>1, <2>2
    DEF SInv, SoFar, EosSoFar, GstClearSoFar, SkipSoFar, InBounds, ListKept, ChainKept,
        Running, Halted, Silenced
  <2>. QED
    BY <1>1, <2>2, <2>3, <2>4 DEF SInv, SoFar, Faithful
<1>. QED
  BY <1>2, <1>3

-----------------------------------------------------------------------------
\* Whatever the step, it is one of Playlist or none.
LEMMA StepFaithful == Onward /\ [Next]_vars => Faithful
<1>. SUFFICES ASSUME Onward, [Next]_vars PROVE Faithful
  OBVIOUS
<1>1. CASE Request
  BY <1>1, BeginFaithful DEF Request, Commands
<1>2. CASE Asio
  BY <1>2, ClearListFaithful, RewindFaithful, ClearPeekFaithful, ClearHaltFaithful,
     AppandPlayListFaithful, PlayTestFaithful, PlayIndexFaithful, PlayHaltFaithful,
     PlayPeekFaithful, PlayDropFaithful, PlayLinkFaithful, RemoveNullFaithful,
     RemoveUnrefFaithful, ConfigureFaithful, DropAsioFaithful, RelinkAsioFaithful,
     ResumeAsioFaithful
  DEF Asio
<1>3. CASE Main
  BY <1>3, EosFaithful, ErrorFaithful, EosTestFaithful, GstClearHaltFaithful,
     GstClearPeekFaithful, SkipHaltFaithful, SkipLoadFaithful, SkipStoreFaithful,
     SkipFindFaithful, SkipFetchFaithful, SkipSetFaithful, DropMainFaithful,
     RelinkMainFaithful, ResumeMainFaithful, UseFreedNever
  DEF Main
<1>4. CASE EndOfRun
  BY <1>4, EndOfRunFaithful
<1>5. CASE UNCHANGED vars
  BY <1>5, OverFaithful
<1>. QED
  BY <1>1, <1>2, <1>3, <1>4, <1>5 DEF Next, Over

\* The invariant holds at first, and goes from step to step.
LEMMA InitSInv == SerialInit => SInv /\ Abstract!Init
<1>. SUFFICES ASSUME SerialInit PROVE SInv /\ Abstract!Init
  OBVIOUS
<1>1. Init /\ shot = Snapshot /\ GInv
  BY InitGInv DEF SerialInit
<1>2. pc.asio = "idle" /\ pc.main = "idle" /\ Quiet /\ overlap = {} /\ location # Garbage
  BY <1>1, CoreAssumption DEF Init, Quiet
<1>3. shot \in Shot
  BY <1>1, <1>2 DEF GInv, TypeOK, Snapshot, Shot, Message
<1>4. SoFar
  BY <1>2
  DEF SoFar, ClearSoFar, AppendSoFar, PlaySoFar, RemoveSoFar, ConfigureSoFar, EosSoFar,
      GstClearSoFar, SkipSoFar, ClearLabels, PlayLabels
<1>5. Abstract!Init
  BY <1>1, <1>2 DEF Init, Seen, Snapshot, Abstract!Init
<1>. QED
  BY <1>1, <1>2, <1>3, <1>4, <1>5 DEF SInv

LEMMA NextSInv ==
  SInv /\ [SerialNext]_<<vars, shot>> => SInv' /\ [Abstract!Next]_(Abstract!vars)
<1>1. ASSUME SInv, SerialNext PROVE SInv' /\ [Abstract!Next]_(Abstract!vars)
  <2>1. GInv'
    BY <1>1, NextGInv DEF SInv, SerialNext
  <2>2. Onward
    BY <1>1, <2>1 DEF SerialNext, Onward
  <2>3. Faithful
    BY <1>1, <2>2, StepFaithful DEF SerialNext
  <2>. QED
    BY <2>2, <2>3 DEF Onward, Faithful, SInv
<1>2. ASSUME SInv, UNCHANGED <<vars, shot>> PROVE SInv' /\ [Abstract!Next]_(Abstract!vars)
  <2>1. UNCHANGED <<playlist, elements, stream, up, pc, locals, history>> /\ shot' = shot
    BY <1>2 DEF vars
  <2>2. GInv'
    BY <1>2, NextGInv DEF SInv
  <2>3. UNCHANGED Abstract!vars
    BY <2>1 DEF Abstract!vars, Seen, Quiet, Snapshot
  <2>4. up => ClearSoFar' /\ AppendSoFar' /\ PlaySoFar' /\ RemoveSoFar' /\ ConfigureSoFar'
    BY <1>2, <2>1
    DEF SInv, SoFar, ClearSoFar, AppendSoFar, PlaySoFar, RemoveSoFar, ConfigureSoFar,
        ListKept, ChainKept, Running, Halted, Silenced
  <2>5. up => EosSoFar' /\ GstClearSoFar' /\ SkipSoFar'
    BY <1>2, <2>1
    DEF SInv, SoFar, EosSoFar, GstClearSoFar, SkipSoFar, InBounds, ListKept, ChainKept,
        Running, Halted, Silenced
  <2>. QED
    BY <1>2, <2>1, <2>2, <2>3, <2>4, <2>5 DEF SInv, SoFar
<1>. QED
  BY <1>1, <1>2

\* As long as no command meets the handling of an EOS, the statements of each
\* handler do together what Playlist says the handler does, and Playlist sees
\* nothing in between, for lists, buses and requests of any size.
THEOREM SerialImplements == SerialSpec => ImplementsPlaylist
  BY InitSInv, NextSInv, PTL DEF SerialSpec, ImplementsPlaylist, Abstract!Spec

-----------------------------------------------------------------------------
\* What PlaylistProofs proves of Playlist, of the states Playlist is shown here.
Promised == INSTANCE PlaylistProofs WITH
  filelist <- Seen.filelist,
  current_file_index <- Seen.current_file_index,
  source <- Seen.source,
  location <- Seen.location,
  state <- Seen.state,
  ended <- Seen.ended,
  bus <- Seen.bus,
  MaxBus <- MaxBus + 1

\* Abstract and Promised are the same Playlist.
LEMMA SerialPromised == SerialSpec => Promised!Spec
<1>1. Abstract!Init => Promised!Init
  BY DEF Abstract!Init, Promised!Init
<1>2. [Abstract!Next]_(Abstract!vars) => [Promised!Next]_(Promised!vars)
  BY DEF Abstract!Next, Abstract!vars, Abstract!Command, Abstract!BusCallback, Abstract!BusEos,
         Abstract!BusError, Abstract!EndOfRun, Abstract!Terminated, Abstract!ClearPlayList,
         Abstract!AppandPlayList, Abstract!PlayFile, Abstract!Remove, Abstract!Configure,
         Abstract!GstClear, Abstract!Advance, Abstract!Restart, Abstract!ToSilence,
         Abstract!Outdated, Abstract!Message, Promised!Next, Promised!vars, Promised!Command,
         Promised!BusCallback, Promised!BusEos, Promised!BusError, Promised!EndOfRun,
         Promised!Terminated, Promised!ClearPlayList, Promised!AppandPlayList,
         Promised!PlayFile, Promised!Remove, Promised!Configure, Promised!GstClear,
         Promised!Advance, Promised!Restart, Promised!ToSilence, Promised!Outdated,
         Promised!Message
<1>. QED
  BY SerialImplements, <1>1, <1>2, PTL DEF ImplementsPlaylist, Abstract!Spec, Promised!Spec

LEMMA PromisedAssumption == Promised!PlaylistAssumption
  BY CoreAssumption DEF Promised!PlaylistAssumption

\* Down the chain of refinements: as long as no command meets the handling of an
\* EOS, the listener of the code, taken statement by statement, hears each list in
\* its order, every file of it at most once and nothing after its end.
THEOREM SerialServed == SerialSpec => Promised!PlaysLists
<1>1. Promised!Spec => Promised!PlaysLists
  BY PromisedAssumption, Promised!ListenerServed
<1>. QED
  BY <1>1, SerialPromised, PTL

\* So do the promises about EOS messages that come late: without overlaps no
\* handler as a whole leaves the pipeline in READY or cuts a file short but for a
\* stale EOS, a clear or a remove, none starts a list that has ended again, and
\* none loses the EOS a file that is over is to be followed by.
THEOREM SerialStale ==
  SerialSpec => /\ Promised!StallNeedsStaleEos
                /\ Promised!CutShortOnlyByStaleEos
                /\ Promised!EndedListStaysSilent
                /\ []Promised!FileGoesOn
<1>1. Promised!Spec => Promised!StallNeedsStaleEos
  BY PromisedAssumption, Promised!StallSafe
<1>2. Promised!Spec => Promised!CutShortOnlyByStaleEos
  BY PromisedAssumption, Promised!CutShortSafe
<1>3. Promised!Spec => Promised!EndedListStaysSilent
  BY PromisedAssumption, Promised!SilentSafe
<1>4. Promised!Spec => []Promised!FileGoesOn
  BY PromisedAssumption, Promised!FilesGoOn
<1>. QED
  BY <1>1, <1>2, <1>3, <1>4, SerialPromised, PTL

=============================================================================

------------------------------ MODULE Playlist ------------------------------
(***************************************************************************)
(* One RTP sender of the IVR, a GstreamerCore with its GStreamer pipeline, *)
(* seen one handler at a time: a play-list command of the control channel, *)
(* or one message of the pipeline's bus, is one step.  GstreamerCore.tla   *)
(* takes the same handlers apart into the steps two threads interleave;    *)
(* GstreamerCoreSerial.tla shows that without overlaps it implements this. *)
(*                                                                         *)
(* The pipeline always ends in  audioconvert ! amrnbenc ! rtppay ! udpsink *)
(* and is fed by audiotestsrc or by the chain filesrc ! wavparse ! alawdec.*)
(* audiotestsrc gives a tone until the first file and silence later; both  *)
(* are called silence here.  Taking the pipeline to READY and back to      *)
(* PLAYING exchanges the one source for the other, or the file the chain   *)
(* reads.                                                                  *)
(***************************************************************************)
EXTENDS Integers, Sequences

CONSTANTS
  File,      \* names a play_list_append may carry
  Broken,    \* those of them filesrc cannot open: ERROR, never EOS
  Foreign,   \* those of them without the "/home/sta/" AppandPlayList replaces
  NoFile,    \* what there is to read when there is no filesrc
  Requests,  \* the lists of names a play_list_append may carry
  MaxList,   \* bound of the model: length of filelist
  MaxBus     \* bound of the model: messages waiting on the bus

ASSUME PlaylistAssumption ==
  /\ Broken \subseteq File
  /\ Foreign \subseteq File
  /\ NoFile \notin File
  /\ Requests \subseteq Seq(File)
  /\ MaxList \in Nat
  /\ MaxBus \in Nat

VARIABLES
  filelist,            \* GstreamerCore::filelist
  current_file_index,  \* GstreamerCore::current_file_index, counted from 0
  source,              \* what feeds audioconvert; "none" without a pipeline
  location,            \* the "location" of filesrc
  state,               \* the state last asked of the pipeline
  ended,               \* the file has posted the message that ends its run
  bus,                 \* messages posted and not yet handled
  up                   \* FALSE once an exception has terminated the process

vars == <<filelist, current_file_index, source, location, state, ended, bus, up>>

\* A message ends the run of a file.  It is stale once the pipeline has left
\* that run for another reason; the code cannot tell, the properties do.
Message == [kind : {"eos", "error"}, stale : BOOLEAN]

Outdated(queue) == [i \in DOMAIN queue |-> [queue[i] EXCEPT !.stale = TRUE]]

Init ==
  /\ filelist = << >>
  /\ current_file_index = -1
  /\ source = "test"
  /\ location = NoFile
  /\ state = "PLAYING"
  /\ ended = FALSE
  /\ bus = << >>
  /\ up = TRUE

-----------------------------------------------------------------------------
\* READY and PLAYING in one handler.  READY ends the run but leaves the bus
\* alone: only NULL flushes it.
Restart(queue) ==
  /\ state' = "PLAYING"
  /\ ended' = FALSE
  /\ bus' = Outdated(queue)

\* Mutant: the final gst_element_set_state(PLAYING) is forgotten.
ToSilenceNotResumed(queue) ==
  /\ state' = "READY"
  /\ ended' = FALSE
  /\ bus' = Outdated(queue)
  /\ source' = "test"
  /\ location' = NoFile

\* Replace the file chain by audiotestsrc.
ToSilence(queue) ==
  /\ Restart(queue)
  /\ source' = "test"
  /\ location' = NoFile

-----------------------------------------------------------------------------
\* The commands, on the asio thread.

\* Mutant: current_file_index is not reset.
ClearPlayListKeepsIndex ==
  /\ up /\ source # "none"
  /\ filelist' = << >>
  /\ \/ source = "test" /\ UNCHANGED <<source, location, state, ended, bus>>
     \/ source = "file" /\ ToSilence(bus)
  /\ UNCHANGED <<current_file_index, up>>

\* Mutant: only the list is cleared, the file plays on.
ClearPlayListKeepsSource ==
  /\ up /\ source # "none"
  /\ filelist' = << >>
  /\ current_file_index' = -1
  /\ UNCHANGED <<source, location, state, ended, bus, up>>

\* The list goes first, whatever the pipeline is doing.
ClearPlayList ==
  /\ up /\ source # "none"
  /\ filelist' = << >>
  /\ current_file_index' = -1
  /\ \/ source = "test" /\ UNCHANGED <<source, location, state, ended, bus>>
     \/ source = "file" /\ ToSilence(bus)
  /\ UNCHANGED up

\* std::string::replace throws std::out_of_range at a name that lacks the
\* prefix, and nothing on the asio thread catches it.
AppandPlayList(list) ==
  /\ up
  /\ Len(filelist) + Len(list) <= MaxList
  /\ IF \E i \in DOMAIN list : list[i] \in Foreign
       THEN up' = FALSE /\ UNCHANGED filelist
       ELSE filelist' = filelist \o list /\ UNCHANGED up
  /\ UNCHANGED <<current_file_index, source, location, state, ended, bus>>

\* Mutant: the test of current_file_index is dropped.
PlayFileAlways ==
  /\ up /\ source # "none"
  /\ filelist # << >>
  /\ current_file_index' = 0
  /\ source' = "file"
  /\ location' = filelist[1]
  /\ Restart(bus)
  /\ UNCHANGED <<filelist, up>>

\* A play that finds current_file_index >= 0 or an empty list does nothing.
\* Otherwise it asks for READY, and for PLAYING only if it finds audiotestsrc
\* to replace: the else branch is empty.
PlayFile ==
  /\ up /\ source # "none"
  /\ current_file_index < 0
  /\ filelist # << >>
  /\ current_file_index' = 0
  /\ IF source = "test"
       THEN /\ source' = "file"
            /\ location' = filelist[1]
            /\ Restart(bus)
       ELSE /\ state' = "READY"
            /\ ended' = FALSE
            /\ bus' = Outdated(bus)
            /\ UNCHANGED <<source, location>>
  /\ UNCHANGED <<filelist, up>>

\* Mutant: the pipeline is dropped without being taken to NULL.
RemoveNotStopped ==
  /\ up /\ source # "none"
  /\ source' = "none"
  /\ location' = NoFile
  /\ ended' = FALSE
  /\ bus' = << >>
  /\ UNCHANGED <<filelist, current_file_index, state, up>>

\* NULL flushes the bus and unref frees the pipeline; the core, its list and
\* its index stay in CoreList.
Remove ==
  /\ up /\ source # "none"
  /\ source' = "none"
  /\ location' = NoFile
  /\ state' = "NULL"
  /\ ended' = FALSE
  /\ bus' = << >>
  /\ UNCHANGED <<filelist, current_file_index, up>>

\* set_config for a tool whose core exists: a new pipeline for the old core.
Configure ==
  /\ up /\ source = "none"
  /\ source' = "test"
  /\ state' = "PLAYING"
  /\ UNCHANGED <<filelist, current_file_index, location, ended, bus, up>>

-----------------------------------------------------------------------------
\* bus_callback, on the GLib main loop thread; rest is the bus without the
\* message being handled.

\* With audiotestsrc in place nothing takes the pipeline out of READY again.
GstClear(rest) ==
  /\ \/ /\ source = "test"
        /\ state' = "READY"
        /\ ended' = FALSE
        /\ bus' = Outdated(rest)
        /\ UNCHANGED <<source, location>>
     \/ source = "file" /\ ToSilence(rest)
  /\ UNCHANGED current_file_index

\* Mutant: filesrc is given the name before the index moves.
AdvanceTooEarly(rest) ==
  /\ current_file_index' = current_file_index + 1
  /\ location' = IF source = "file" THEN filelist[current_file_index + 1] ELSE location
  /\ Restart(rest)
  /\ UNCHANGED source

\* Mutant: the index is not moved.
AdvanceNotMoved(rest) == Restart(rest) /\ UNCHANGED <<current_file_index, location, source>>

\* Without a filesrc the new location is lost and the index moves all the same.
Advance(rest) ==
  /\ current_file_index' = current_file_index + 1
  /\ location' = IF source = "file" THEN filelist[current_file_index + 2] ELSE location
  /\ Restart(rest)
  /\ UNCHANGED source

BusEos ==
  /\ up /\ source # "none"
  /\ bus # << >> /\ Head(bus).kind = "eos"
  /\ IF current_file_index + 1 = Len(filelist)
       THEN GstClear(Tail(bus))
       ELSE Advance(Tail(bus))
  /\ UNCHANGED <<filelist, up>>

\* An ERROR is printed and dropped.
BusError ==
  /\ up
  /\ bus # << >> /\ Head(bus).kind = "error"
  /\ bus' = Tail(bus)
  /\ UNCHANGED <<filelist, current_file_index, source, location, state, ended, up>>

BusCallback == BusEos \/ BusError

\* The pipeline's own threads: the file is over, or it could not be opened.
EndOfRun ==
  /\ up
  /\ state = "PLAYING" /\ source = "file" /\ ~ended
  /\ Len(bus) < MaxBus
  /\ ended' = TRUE
  /\ bus' = Append(bus, [kind |-> IF location \in Broken THEN "error" ELSE "eos",
                         stale |-> FALSE])
  /\ UNCHANGED <<filelist, current_file_index, source, location, state, up>>

\* After std::terminate nothing happens any more.
Terminated == ~up /\ UNCHANGED vars

Command ==
  \/ ClearPlayList
  \/ \E list \in Requests : AppandPlayList(list)
  \/ PlayFile
  \/ Remove
  \/ Configure

Next == Command \/ BusCallback \/ EndOfRun \/ Terminated

Spec == Init /\ [][Next]_vars

\* The main loop goes on dispatching and files are finite; clients owe nothing.
FairSpec == Spec /\ WF_vars(BusCallback) /\ WF_vars(EndOfRun)

-----------------------------------------------------------------------------
\* The variables of a core and its pipeline hold what they may hold; there is no
\* pipeline exactly when it has been taken to NULL.
TypeOK ==
  /\ filelist \in Seq(File)
  /\ current_file_index \in Int
  /\ source \in {"test", "file", "none"}
  /\ location \in File \cup {NoFile}
  /\ state \in {"PLAYING", "READY", "NULL"}
  /\ ended \in BOOLEAN
  /\ bus \in Seq(Message)
  /\ up \in BOOLEAN
  /\ source = "none" <=> state = "NULL"

\* No handler ever indexes filelist out of bounds: whatever EOS messages are
\* left over from earlier lists, the signed index of the EOS handler and of
\* PlayFile stays below the length of the list.
IndexWithinList == current_file_index \in -1 .. Len(filelist) - 1

\* The file being sent is the one the index names: list, index and filesrc
\* agree through clear, append, play, remove and end of stream.
NowPlaying ==
  source = "file" =>
    current_file_index \in 0 .. Len(filelist) - 1 /\ location = filelist[current_file_index + 1]

\* An index of -1 means that audiotestsrc is in place, so that the empty else
\* branch of PlayFile, which would leave the pipeline in READY, is not reached.
SilenceBeforePlay == current_file_index = -1 => source # "file"

\* The pipeline is left in READY, sending nothing, only by an EOS whose run
\* was already over when the EOS was handled.
StallNeedsStaleEos ==
  [][state = "PLAYING" /\ state' = "READY" => bus # << >> /\ Head(bus).stale]_vars

\* A file is cut short only by a clear, a remove or a stale EOS: no file loses
\* its end to a repeated play or to its predecessor's handler.
CutShortOnlyByStaleEos ==
  [][source = "file" /\ ~ended /\ (source' # "file" \/ current_file_index' # current_file_index)
       => \/ filelist' = << >>
          \/ source' = "none"
          \/ bus # << >> /\ Head(bus).stale]_vars

\* A list that has ended stays ended until a clear: neither play, nor more
\* names, nor a leftover EOS, nor a new pipeline starts a file while the index
\* is not -1.
EndedListStaysSilent ==
  [][source # "file" /\ current_file_index >= 0 => source' # "file"]_vars

\* Every file that can be opened is followed, in the end, by the silence source
\* or by a file that cannot be opened, unless the process terminates: lists are
\* finite and each EOS moves on.
FileEnds == source = "file" ~> (source # "file" \/ location \in Broken \/ ~up)

\* The list, how far it has got and what is heard of it, for Announcer.
Listener == INSTANCE Announcer WITH
  Silence <- NoFile,
  list <- filelist,
  at <- current_file_index + 1,
  heard <- IF source = "file" THEN location ELSE NoFile,
  open <- source # "none"

\* Whatever commands, end-of-stream messages, stale or not, and errors come in
\* whatever order, the listener hears what Announcer promises.
PlaysLists == Listener!Spec

=============================================================================

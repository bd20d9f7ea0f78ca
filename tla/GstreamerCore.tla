--------------------------- MODULE GstreamerCore ----------------------------
(***************************************************************************)
(* One RTP sender, at the grain at which its two threads interleave.       *)
(*                                                                         *)
(*   asio   the thread that runs tcpio.run(): play_list_clear,             *)
(*          play_list_append, play and remove                              *)
(*   main   the thread that runs the GLib main loop: bus_callback          *)
(*                                                                         *)
(* Both work on filelist, current_file_index and the elements of the       *)
(* pipeline without any lock.  A step is one statement that touches them;  *)
(* each GStreamer call is atomic, as its own locks make it.                *)
(***************************************************************************)
EXTENDS Integers, Sequences

CONSTANTS
  File, Broken, Foreign, NoFile, Requests, MaxList, MaxBus,  \* as in Playlist
  Garbage   \* what a read of a string that is not there may yield

ASSUME CoreAssumption ==
  /\ Broken \subseteq File
  /\ Foreign \subseteq File
  /\ NoFile \notin File
  /\ Garbage \notin File \cup {NoFile}
  /\ Requests \subseteq Seq(File)
  /\ MaxList \in Nat
  /\ MaxBus \in Nat

VARIABLES
  filelist, current_file_index, location, state, ended, bus, up,  \* as in Playlist
  source,   \* as in Playlist, or "gap" while nothing feeds audioconvert
  pc,       \* the statement each thread is at
  cmd,      \* the command asio is running
  pending,  \* names AppandPlayList has still to push
  index,    \* main: current_file_index as loaded by += 1
  held,     \* main: the pipeline bus_callback loaded has not been freed
  found,    \* main: filesrc was found and is still in the pipeline
  name,     \* main: the string passed to g_object_set
  fault,    \* history: what went wrong
  overlap   \* history: the commands that ran while an EOS was being handled

playlist == <<filelist, current_file_index>>
elements == <<source, location, held, found>>
stream == <<state, ended, bus>>
locals == <<cmd, pending, index, name>>
history == <<fault, overlap>>
vars == <<playlist, elements, stream, up, pc, locals, history>>

Commands == {"clear", "append", "play", "remove", "configure"}
Faults == {"bounds", "dangling", "link", "freed", "disposed"}
AsioLabels == {"idle", "clear", "rewind", "peek", "halt", "drop", "relink", "resume", "append",
               "play", "play_index", "play_halt", "play_peek", "play_drop", "play_link",
               "remove", "unref", "configure"}
MainLabels == {"idle", "eos", "gc_halt", "gc_peek", "drop", "relink", "resume",
               "skip_halt", "skip_load", "skip_store", "skip_find", "skip_fetch", "skip_set",
               "skip_resume"}

Outdated(queue) == [i \in DOMAIN queue |-> [queue[i] EXCEPT !.stale = TRUE]]

InBounds(i) == i \in 0 .. Len(filelist) - 1

Init ==
  /\ filelist = << >> /\ current_file_index = -1
  /\ source = "test" /\ location = NoFile /\ held = FALSE /\ found = FALSE
  /\ state = "PLAYING" /\ ended = FALSE /\ bus = << >>
  /\ up = TRUE
  /\ pc = [asio |-> "idle", main |-> "idle"]
  /\ cmd = "clear" /\ pending = << >> /\ index = 0 /\ name = NoFile
  /\ fault = {} /\ overlap = {}

\* GstClear goes through core->pipeline, the rest of bus_callback through the
\* pointer it loaded at the start: main is about to use a pipeline that is gone.
Lost ==
  \/ pc.main \in {"gc_halt", "gc_peek", "drop", "relink", "resume"} /\ source = "none"
  \/ pc.main \in {"skip_halt", "skip_find", "skip_resume"} /\ ~held

\* Thread t of a running process goes from one statement to the next.
Step(t, from, to) ==
  /\ up
  /\ pc[t] = from
  /\ t = "main" => ~Lost
  /\ pc' = [pc EXCEPT ![t] = to]

\* An error the process does not survive.
Abort(what) == up' = FALSE /\ fault' = fault \cup {what}

-----------------------------------------------------------------------------
\* Steps both threads make: GstClear and ClearPlayList share their ending.

SetReady == state' = "READY" /\ ended' = FALSE /\ bus' = Outdated(bus)

\* filesrc, wavparse and alawdec leave the pipeline; NULL handles are ignored.
Drop(t) ==
  /\ Step(t, "drop", "relink")
  /\ source' = IF source = "file" THEN "gap" ELSE source
  /\ location' = NoFile
  /\ found' = FALSE
  /\ UNCHANGED <<playlist, held, stream, up, locals, history>>

\* A second element of that name is refused and an occupied audioconvert is not
\* linked again: either way gst_element_link fails and g_error aborts.
Relink(t) ==
  /\ Step(t, "relink", "resume")
  /\ IF source = "gap"
       THEN source' = "test" /\ UNCHANGED <<up, fault>>
       ELSE Abort("link") /\ UNCHANGED source
  /\ UNCHANGED <<playlist, location, held, found, stream, locals, overlap>>

Resume(t) ==
  /\ Step(t, IF t = "main" /\ pc.main = "skip_resume" THEN "skip_resume" ELSE "resume", "idle")
  /\ state' = "PLAYING"
  /\ UNCHANGED <<playlist, elements, ended, bus, up, locals, history>>

-----------------------------------------------------------------------------
\* asio: a command arrives when the previous one has returned.
Begin(c, list) ==
  /\ up /\ fault = {}
  /\ pc.asio = "idle"
  /\ c \in {"clear", "play", "remove"} => source # "none"
  /\ c = "configure" => source = "none"
  /\ c = "append" => list # << >> /\ Len(filelist) + Len(list) <= MaxList
  /\ pc' = [pc EXCEPT !.asio = c]
  /\ cmd' = c
  /\ pending' = list
  /\ overlap' = IF pc.main = "idle" THEN overlap ELSE overlap \cup {c}
  /\ UNCHANGED <<playlist, elements, stream, up, index, name, fault>>

\* main holds a pointer into filelist between the read and the call it is for.
Holding == pc.main = "skip_set" /\ name # Garbage

\* clear() destroys the strings.
ClearList ==
  /\ Step("asio", "clear", "rewind")
  /\ filelist' = << >>
  /\ IF Holding
       THEN name' \in {name, Garbage} /\ fault' = fault \cup {"dangling"}
       ELSE UNCHANGED <<name, fault>>
  /\ UNCHANGED <<current_file_index, elements, stream, up, cmd, pending, index, overlap>>

Rewind ==
  /\ Step("asio", "rewind", "peek")
  /\ current_file_index' = -1
  /\ UNCHANGED <<filelist, elements, stream, up, locals, history>>

\* Mutant: the test for audiotestsrc is inverted.
ClearPeekInverted ==
  /\ Step("asio", "peek", IF source = "test" THEN "halt" ELSE "idle")
  /\ UNCHANGED <<playlist, elements, stream, up, locals, history>>

ClearPeek ==
  /\ Step("asio", "peek", IF source = "test" THEN "idle" ELSE "halt")
  /\ UNCHANGED <<playlist, elements, stream, up, locals, history>>

\* Mutant: PAUSED is asked for instead of READY.
ClearHaltPaused ==
  /\ Step("asio", "halt", "drop")
  /\ state' = "PAUSED"
  /\ UNCHANGED <<playlist, elements, ended, bus, up, locals, history>>

ClearHalt ==
  /\ Step("asio", "halt", "drop")
  /\ SetReady
  /\ UNCHANGED <<playlist, elements, up, locals, history>>

\* push_back may move the strings; a name without the prefix throws, and the
\* command never returns.
AppandPlayList ==
  /\ Step("asio", "append",
          IF Len(pending) = 1 /\ Head(pending) \notin Foreign THEN "idle" ELSE "append")
  /\ pending' = Tail(pending)
  /\ IF Head(pending) \in Foreign
       THEN up' = FALSE /\ UNCHANGED <<filelist, name, fault>>
       ELSE /\ filelist' = Append(filelist, Head(pending))
            /\ UNCHANGED up
            /\ \/ UNCHANGED <<name, fault>>
               \/ /\ Holding
                  /\ name' \in {name, Garbage}
                  /\ fault' = fault \cup {"dangling"}
  /\ UNCHANGED <<current_file_index, elements, stream, cmd, index, overlap>>

PlayTest ==
  /\ Step("asio", "play",
          IF current_file_index < 0 /\ filelist # << >> THEN "play_index" ELSE "idle")
  /\ UNCHANGED <<playlist, elements, stream, up, locals, history>>

PlayIndex ==
  /\ Step("asio", "play_index", "play_halt")
  /\ current_file_index' = 0
  /\ UNCHANGED <<filelist, elements, stream, up, locals, history>>

PlayHalt ==
  /\ Step("asio", "play_halt", "play_peek")
  /\ SetReady
  /\ UNCHANGED <<playlist, elements, up, locals, history>>

PlayPeek ==
  /\ Step("asio", "play_peek", IF source = "test" THEN "play_drop" ELSE "idle")
  /\ UNCHANGED <<playlist, elements, stream, up, locals, history>>

\* audiotestsrc leaves the pipeline.
PlayDrop ==
  /\ Step("asio", "play_drop", "play_link")
  /\ source' = "gap"
  /\ UNCHANGED <<playlist, location, held, found, stream, up, locals, history>>

\* The chain is made for filelist[current_file_index] and linked.
PlayLink ==
  /\ Step("asio", "play_link", "resume")
  /\ LET missing == IF InBounds(current_file_index) THEN {} ELSE {"bounds"}
     IN  \/ /\ source = "gap"
            /\ source' = "file"
            /\ location' = IF missing = {} THEN filelist[current_file_index + 1] ELSE Garbage
            /\ fault' = fault \cup missing
            /\ UNCHANGED up
         \/ /\ source # "gap"
            /\ up' = FALSE
            /\ fault' = fault \cup missing \cup {"link"}
            /\ UNCHANGED <<source, location>>
  /\ UNCHANGED <<playlist, held, found, stream, locals, overlap>>

\* Mutant: READY is asked for instead of NULL.
RemoveReady ==
  /\ Step("asio", "remove", "unref")
  /\ SetReady
  /\ UNCHANGED <<playlist, elements, up, locals, history>>

\* NULL flushes the bus.
RemoveNull ==
  /\ Step("asio", "remove", "unref")
  /\ state' = "NULL" /\ ended' = FALSE /\ bus' = << >>
  /\ UNCHANGED <<playlist, elements, up, locals, history>>

\* A pipeline main has restarted meanwhile is freed while it runs.
RemoveUnref ==
  /\ Step("asio", "unref", "idle")
  /\ source' = "none" /\ location' = NoFile /\ held' = FALSE /\ found' = FALSE
  /\ state' = "NULL" /\ ended' = FALSE /\ bus' = << >>
  /\ fault' = IF state = "NULL" THEN fault ELSE fault \cup {"disposed"}
  /\ UNCHANGED <<playlist, up, locals, overlap>>

\* A new pipeline, with a bus of its own, in the core of the removed one;
\* PAUSED on the way to PLAYING is not told apart.
Configure ==
  /\ Step("asio", "configure", "resume")
  /\ source' = "test"
  /\ UNCHANGED <<playlist, location, held, found, stream, up, locals, history>>

Asio ==
  \/ Drop("asio") \/ Relink("asio") \/ Resume("asio")
  \/ ClearList \/ Rewind \/ ClearPeek \/ ClearHalt
  \/ AppandPlayList
  \/ PlayTest \/ PlayIndex \/ PlayHalt \/ PlayPeek \/ PlayDrop \/ PlayLink
  \/ RemoveNull \/ RemoveUnref \/ Configure

-----------------------------------------------------------------------------
\* main: the bus watch pops a message; an ERROR is printed and dropped.
Dispatch ==
  /\ up /\ fault = {}
  /\ pc.main = "idle"
  /\ bus # << >>
  /\ bus' = Tail(bus)
  /\ IF Head(bus).kind = "eos"
       THEN /\ pc' = [pc EXCEPT !.main = "eos"]
            /\ overlap' = IF pc.asio = "idle" THEN overlap ELSE overlap \cup {cmd}
            /\ held' = (source # "none")
       ELSE UNCHANGED <<pc, overlap, held>>
  /\ UNCHANGED <<playlist, source, location, found, state, ended, up, locals, fault>>

\* Mutant: the index of the last file is taken for the length of the list.
EosTestOffByOne ==
  /\ Step("main", "eos",
          IF current_file_index = Len(filelist) THEN "gc_halt" ELSE "skip_halt")
  /\ UNCHANGED <<playlist, elements, stream, up, locals, history>>

EosTest ==
  /\ Step("main", "eos",
          IF current_file_index + 1 = Len(filelist) THEN "gc_halt" ELSE "skip_halt")
  /\ UNCHANGED <<playlist, elements, stream, up, locals, history>>

GstClearHalt ==
  /\ Step("main", "gc_halt", "gc_peek")
  /\ SetReady
  /\ UNCHANGED <<playlist, elements, up, locals, history>>

\* Mutant: audiotestsrc is not looked for.
GstClearAlways ==
  /\ Step("main", "gc_peek", "drop")
  /\ UNCHANGED <<playlist, elements, stream, up, locals, history>>

\* With audiotestsrc in place the pipeline is left in READY.
GstClearPeek ==
  /\ Step("main", "gc_peek", IF source = "test" THEN "idle" ELSE "drop")
  /\ UNCHANGED <<playlist, elements, stream, up, locals, history>>

SkipHalt ==
  /\ Step("main", "skip_halt", "skip_load")
  /\ SetReady
  /\ UNCHANGED <<playlist, elements, up, locals, history>>

\* current_file_index += 1 is a load and a store.
SkipLoad ==
  /\ Step("main", "skip_load", "skip_store")
  /\ index' = current_file_index
  /\ UNCHANGED <<playlist, elements, stream, up, cmd, pending, name, history>>

SkipStore ==
  /\ Step("main", "skip_store", "skip_find")
  /\ current_file_index' = index + 1
  /\ index' = 0
  /\ UNCHANGED <<filelist, elements, stream, up, cmd, pending, name, history>>

SkipFind ==
  /\ Step("main", "skip_find", "skip_fetch")
  /\ found' = (source = "file")
  /\ UNCHANGED <<playlist, source, location, held, stream, up, locals, history>>

\* filelist[current_file_index] is not checked.
SkipFetch ==
  /\ Step("main", "skip_fetch", "skip_set")
  /\ IF InBounds(current_file_index)
       THEN name' = filelist[current_file_index + 1] /\ UNCHANGED <<up, fault>>
       ELSE /\ name' = Garbage
            /\ up' \in BOOLEAN
            /\ fault' = fault \cup {"bounds"}
  /\ UNCHANGED <<playlist, elements, stream, cmd, pending, index, overlap>>

\* Mutant: the new name reaches a filesrc in NULL only.
SkipSetDropped ==
  /\ Step("main", "skip_set", "skip_resume")
  /\ location' = IF found /\ state = "NULL" THEN name ELSE location
  /\ found' = FALSE
  /\ name' = NoFile
  /\ UNCHANGED <<playlist, source, held, stream, up, cmd, pending, index, history>>

\* filesrc refuses a new location while its file is open.
SkipSet ==
  /\ Step("main", "skip_set", "skip_resume")
  /\ location' = IF found /\ state # "PLAYING" THEN name ELSE location
  /\ found' = FALSE
  /\ name' = NoFile
  /\ UNCHANGED <<playlist, source, held, stream, up, cmd, pending, index, history>>

\* The pipeline has been freed under the handler.
UseFreed ==
  /\ up /\ Lost
  /\ Abort("freed")
  /\ UNCHANGED <<playlist, elements, stream, pc, locals, overlap>>

Main ==
  \/ Dispatch
  \/ Drop("main") \/ Relink("main") \/ Resume("main")
  \/ EosTest \/ GstClearHalt \/ GstClearPeek
  \/ SkipHalt \/ SkipLoad \/ SkipStore \/ SkipFind \/ SkipFetch \/ SkipSet
  \/ UseFreed

-----------------------------------------------------------------------------
\* The pipeline's own threads.
EndOfRun ==
  /\ up
  /\ state = "PLAYING" /\ source = "file" /\ ~ended
  /\ Len(bus) < MaxBus
  /\ ended' = TRUE
  /\ bus' = Append(bus, [kind |-> IF location \in Broken \cup {Garbage} THEN "error" ELSE "eos",
                         stale |-> FALSE])
  /\ UNCHANGED <<playlist, elements, state, up, pc, locals, history>>

Quiet == pc = [asio |-> "idle", main |-> "idle"]

\* The process has terminated, or the handlers in which the first fault
\* happened have returned.
Over ==
  /\ ~up \/ (Quiet /\ fault # {})
  /\ UNCHANGED vars

Request ==
  \/ \E c \in Commands \ {"append"} : Begin(c, << >>)
  \/ \E list \in Requests : Begin("append", list)

Next == Request \/ Asio \/ Main \/ EndOfRun \/ Over

Spec == Init /\ [][Next]_vars

-----------------------------------------------------------------------------
\* Core, pipeline and the locals of both threads hold what they may hold.
TypeOK ==
  /\ filelist \in Seq(File)
  /\ current_file_index \in Int
  /\ source \in {"test", "file", "gap", "none"}
  /\ location \in File \cup {NoFile, Garbage}
  /\ state \in {"PLAYING", "READY", "NULL"}
  /\ held \in BOOLEAN /\ found \in BOOLEAN /\ ended \in BOOLEAN /\ up \in BOOLEAN
  /\ bus \in Seq([kind : {"eos", "error"}, stale : BOOLEAN])
  /\ pc \in [asio : AsioLabels, main : MainLabels]
  /\ cmd \in Commands
  /\ pending \in Seq(File)
  /\ index \in Int
  /\ name \in File \cup {NoFile, Garbage}
  /\ fault \subseteq Faults
  /\ overlap \subseteq Commands

\* filelist[current_file_index] is out of bounds only after a clear or a play
\* ran while an EOS was being handled: one handler at a time, and with appends
\* or removes in between, the unchecked index is right.
BoundsNeedOverlap ==
  "bounds" \in fault => overlap \cap {"clear", "play"} # {}

\* The g_error of GstClear, ClearPlayList and PlayFile, which aborts the server,
\* is reached only after a clear, a play or a remove overlapped an EOS.
LinkNeedsOverlap ==
  "link" \in fault => overlap \cap {"clear", "play", "remove"} # {}

\* A name is freed under the handler that holds it only when a clear or an
\* append overlaps an EOS, the pipeline only when a remove does.
LifetimesNeedOverlap ==
  /\ "dangling" \in fault => overlap \cap {"clear", "append"} # {}
  /\ fault \cap {"freed", "disposed"} # {} => "remove" \in overlap

\* PlayFile, once it has found the index at -1, finds audiotestsrc too, however
\* the two threads interleave: its empty else branch is dead code.
PlayFindsSilence == pc.asio \in {"play_peek", "play_drop"} => source = "test"

\* Between handlers the file of filesrc is the one the index names, unless a
\* play has overlapped an EOS: with any other overlap the two threads either
\* fail or leave list, index and filesrc in agreement.
ListAndFilesrcAgree ==
  Quiet /\ up /\ fault = {} /\ "play" \notin overlap /\ source = "file" => InBounds(current_file_index) /\ location = filelist[current_file_index + 1]

\* What the text of the g_error states must not happen: linking audiotestsrc or
\* the file chain to audioconvert fails.
LinkNeverFails == "link" \notin fault

=============================================================================

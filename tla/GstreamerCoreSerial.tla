------------------------ MODULE GstreamerCoreSerial -------------------------
(***************************************************************************)
(* GstreamerCore when no command overlaps the handling of an EOS: its      *)
(* steps, taken a handler at a time, implement Playlist.                   *)
(*                                                                         *)
(* To Playlist a handler happens at its last step.  Until then it sees the *)
(* state from before the handler, which shot keeps; what happens on the    *)
(* bus meanwhile is entered there too.                                     *)
(***************************************************************************)
EXTENDS GstreamerCore

VARIABLE shot

Snapshot ==
  [filelist |-> filelist, current_file_index |-> current_file_index, source |-> source,
   location |-> location, state |-> state, ended |-> ended, bus |-> bus]

\* What happens to the bus while a handler runs, and is not of its doing: a run
\* ends, or an ERROR is dispatched.
Meanwhile ==
  IF Len(bus') > Len(bus)
    THEN [shot EXCEPT !.ended = TRUE, !.bus = Append(@, bus'[Len(bus')])]
    ELSE [shot EXCEPT !.bus = Tail(@)]

Remember ==
  shot' = IF Quiet THEN Snapshot
          ELSE IF pc' = pc /\ bus' # bus THEN Meanwhile
          ELSE shot

SerialInit == Init /\ shot = Snapshot

SerialNext == Next /\ overlap' = {} /\ Remember

SerialSpec == SerialInit /\ [][SerialNext]_<<vars, shot>>

Seen == IF Quiet THEN Snapshot ELSE shot

\* The message being handled is still on Playlist's bus.
Abstract == INSTANCE Playlist WITH
  filelist <- Seen.filelist,
  current_file_index <- Seen.current_file_index,
  source <- Seen.source,
  location <- Seen.location,
  state <- Seen.state,
  ended <- Seen.ended,
  bus <- Seen.bus,
  MaxBus <- MaxBus + 1

-----------------------------------------------------------------------------
\* Every handler, taken statement by statement, does what Playlist says in one
\* step: the order in which ClearPlayList, PlayFile, GstClear and bus_callback
\* touch list, index, elements and states does not show as long as the other
\* thread is idle.
ImplementsPlaylist == Abstract!Spec

=============================================================================

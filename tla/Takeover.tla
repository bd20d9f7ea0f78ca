------------------------------ MODULE Takeover ------------------------------
(***************************************************************************)
(* A set_config for a tool whose sender is up: GstParseLaunchSender puts a *)
(* new pipeline in the place of core->pipeline and leaves the old one as   *)
(* it is.  Nobody can stop that one any more, and its bus watch still has  *)
(* this core for its data: the end of its file is handled, by the index    *)
(* and the list of the core, on the new pipeline.                          *)
(*                                                                         *)
(* A pipeline that was replaced is never restarted, so all it can still do *)
(* to the core is the EOS messages on its bus and the one of its file.     *)
(* The new pipeline has a payloader of its own, whose numbers the stray    *)
(* messages hand on as any others do.                                      *)
(***************************************************************************)
EXTENDS RtpNumbering, FiniteSets

CONSTANT MaxOld  \* bound of the model: pipelines replaced

ASSUME TakeoverAssumption == MaxOld \in Nat

VARIABLES
  old,    \* pipelines that were replaced, for all their senders still running
  stray   \* EOS messages of theirs that are still to be handled

tvars == <<vars, numbers, old, stray>>

TakeoverInit == NumberingInit /\ old = 0 /\ stray = 0

-----------------------------------------------------------------------------
\* The EOS messages the pipeline has posted and will post.
Owed ==
  Cardinality({i \in DOMAIN bus : bus[i].kind = "eos"})
    + (IF state = "PLAYING" /\ source = "file" /\ ~ended /\ location \notin Broken THEN 1 ELSE 0)

\* Mutant: list and index of the core are reset as well, as if it were new.
GstParseLaunchSenderResets ==
  /\ up /\ source # "none"
  /\ old < MaxOld
  /\ old' = old + 1
  /\ stray' = stray + Owed
  /\ source' = "test" /\ location' = NoFile /\ state' = "PLAYING"
  /\ ended' = FALSE /\ bus' = << >>
  /\ current_file_index' = 0
  /\ NewPayloader
  /\ UNCHANGED <<filelist, up>>

\* List and index of the core are left as they are.
GstParseLaunchSender ==
  /\ up /\ source # "none"
  /\ old < MaxOld
  /\ old' = old + 1
  /\ stray' = stray + Owed
  /\ source' = "test" /\ location' = NoFile /\ state' = "PLAYING"
  /\ ended' = FALSE /\ bus' = << >>
  /\ NewPayloader
  /\ UNCHANGED <<filelist, current_file_index, up>>

\* bus_callback for an EOS of an old pipeline: core->pipeline is the newest one.
StrayEos ==
  /\ up /\ source # "none"
  /\ stray > 0 /\ stray' = stray - 1
  /\ IF current_file_index + 1 = Len(filelist) THEN GstClear(bus) ELSE Advance(bus)
  /\ EosNumbers
  /\ UNCHANGED <<filelist, up, old>>

\* After a remove core->pipeline is the one that was freed: the process is lost.
StrayEosFreed ==
  /\ up /\ source = "none"
  /\ stray > 0 /\ stray' = stray - 1
  /\ up' = FALSE
  /\ UNCHANGED <<filelist, current_file_index, source, location, state, ended, bus, numbers, old>>

TakeoverNext ==
  \/ NumberingNext /\ UNCHANGED <<old, stray>>
  \/ GstParseLaunchSender
  \/ StrayEos
  \/ StrayEosFreed

TakeoverSpec == TakeoverInit /\ [][TakeoverNext]_tvars

-----------------------------------------------------------------------------
\* Types, and no more stray messages than the old pipelines' buses can hold.
TypeOKTakeover ==
  /\ TypeOK /\ TypeOKNumbers
  /\ old \in 0 .. MaxOld
  /\ stray \in 0 .. old * (MaxBus + 1)

\* At the moment of a set_config what is heard breaks off.  At every other step,
\* stray messages included, the listener of the new pipeline hears what Announcer
\* promises: a stray EOS may pass files over, or move on to the next before its
\* time; it repeats none, and starts none once the list has ended.
PlaysListsBetween == [][GstParseLaunchSender \/ Listener!Next \/ UNCHANGED Listener!avars]_tvars

\* The EOS handled in this step was stale, or came from a pipeline that has been
\* replaced.
OldEosHandled ==
  \/ stray' < stray
  \/ bus # << >> /\ Head(bus).stale /\ bus' = Outdated(Tail(bus))

\* The new pipeline is left in READY, or a file it has not sent to the end gives
\* way to another or to silence, only by an EOS that was stale or came from a
\* pipeline it has replaced.  No command leaves it in READY; a clear, a remove and
\* a set_config do take the file from it.
SilentOnlyByOldEos ==
  [][/\ state = "PLAYING" /\ state' = "READY" => OldEosHandled
     /\ source = "file" /\ ~ended /\ (source' # "file" \/ current_file_index' # current_file_index)
          => OldEosHandled \/ filelist' = << >> \/ source' = "none" \/ old' > old]_tvars

=============================================================================

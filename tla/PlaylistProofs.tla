--------------------------- MODULE PlaylistProofs ---------------------------
(***************************************************************************)
(* What Playlist's runs check on three names and lists of three, proved    *)
(* for every set of names, every length of the list and of the bus.        *)
(*                                                                         *)
(* The invariant is inductive because its parts lean on each other: the    *)
(* empty else branch of PlayFile is excluded by SilenceBeforePlay, and     *)
(* Advance stays within the list because the test for its end, an equality *)
(* of a signed and an unsigned number, is exact as long as                 *)
(* IndexWithinList holds.                                                  *)
(***************************************************************************)
EXTENDS Playlist, TLAPS

\* A message that is not stale ends the run of the file now being sent.
FreshMeansEnded ==
  \A i \in DOMAIN bus : ~bus[i].stale => source = "file" /\ ended

IInv == TypeOK /\ IndexWithinList /\ NowPlaying /\ SilenceBeforePlay /\ FreshMeansEnded

-----------------------------------------------------------------------------
\* A READY leaves as many messages on the bus, all of them stale.
LEMMA OutdatedType ==
  ASSUME NEW queue \in Seq(Message)
  PROVE  /\ Outdated(queue) \in Seq(Message)
         /\ \A i \in DOMAIN Outdated(queue) : Outdated(queue)[i].stale
<1>1. \A i \in DOMAIN queue : queue[i] \in Message
  OBVIOUS
<1>2. \A i \in DOMAIN queue : [queue[i] EXCEPT !.stale = TRUE] \in Message
  BY <1>1 DEF Message
<1>3. \A i \in DOMAIN queue : [queue[i] EXCEPT !.stale = TRUE].stale
  BY <1>1 DEF Message
<1>4. DOMAIN queue = 1 .. Len(queue) /\ Len(queue) \in Nat
  OBVIOUS
<1>5. Outdated(queue) \in Seq(Message)
  BY <1>2, <1>4 DEF Outdated
<1>. QED
  BY <1>3, <1>5 DEF Outdated

\* Handling a message keeps the order and the contents of the others.
LEMMA TailType ==
  ASSUME NEW queue \in Seq(Message), queue # << >>
  PROVE  /\ Tail(queue) \in Seq(Message)
         /\ \A i \in DOMAIN Tail(queue) : i + 1 \in DOMAIN queue /\ Tail(queue)[i] = queue[i + 1]
         /\ Head(queue) \in Message /\ Head(queue) = queue[1] /\ 1 \in DOMAIN queue
  OBVIOUS

\* Restart and ToSilence keep the bus well typed and leave nothing fresh on it.
LEMMA RestartType ==
  ASSUME NEW queue \in Seq(Message), Restart(queue)
  PROVE  /\ state' = "PLAYING" /\ ended' \in BOOLEAN
         /\ bus' \in Seq(Message)
         /\ FreshMeansEnded'
  BY OutdatedType DEF Restart, FreshMeansEnded

-----------------------------------------------------------------------------
\* The first pipeline sends silence and has nothing on its bus.
LEMMA InitIInv == Init => IInv
<1>. SUFFICES ASSUME Init
              PROVE  IInv
  OBVIOUS
<1>1. TypeOK
  <2>1. ended \in BOOLEAN /\ up \in BOOLEAN
    BY DEF Init
  <2>2. filelist \in Seq(File) /\ bus \in Seq(Message)
    BY DEF Init
  <2>. QED
    BY <2>1, <2>2 DEF Init, TypeOK
<1>2. IndexWithinList /\ NowPlaying /\ SilenceBeforePlay
  BY DEF Init, IndexWithinList, NowPlaying, SilenceBeforePlay
<1>3. FreshMeansEnded
  BY DEF Init, FreshMeansEnded
<1>. QED
  BY <1>1, <1>2, <1>3 DEF IInv

\* A clear resets list and index together, and takes the file away with them.
LEMMA ClearPlayListIInv == IInv /\ ClearPlayList => IInv'
<1>. SUFFICES ASSUME IInv, ClearPlayList
              PROVE  IInv'
  OBVIOUS
<1>. USE DEF IInv, TypeOK, ClearPlayList
<1>1. filelist' = << >> /\ current_file_index' = -1 /\ up' \in BOOLEAN
  OBVIOUS
<1>2. CASE source = "test" /\ UNCHANGED <<source, location, state, ended, bus>>
  BY <1>1, <1>2 DEF IndexWithinList, NowPlaying, SilenceBeforePlay, FreshMeansEnded
<1>3. CASE source = "file" /\ ToSilence(bus)
  <2>1. Restart(bus) /\ source' = "test" /\ location' = NoFile
    BY <1>3 DEF ToSilence
  <2>2. TypeOK'
    BY <1>1, <2>1, RestartType
  <2>3. IndexWithinList' /\ NowPlaying' /\ SilenceBeforePlay'
    BY <1>1, <2>1 DEF IndexWithinList, NowPlaying, SilenceBeforePlay
  <2>. QED
    BY <2>1, <2>2, <2>3, RestartType
<1>. QED
  BY <1>2, <1>3

\* An append leaves the names before it, and so the file being sent, in place.
LEMMA AppandPlayListIInv ==
  ASSUME NEW list \in Requests
  PROVE  IInv /\ AppandPlayList(list) => IInv'
<1>. SUFFICES ASSUME IInv, AppandPlayList(list)
              PROVE  IInv'
  OBVIOUS
<1>. USE DEF IInv, TypeOK, AppandPlayList
<1>1. list \in Seq(File)
  BY PlaylistAssumption
<1>2. UNCHANGED <<current_file_index, source, location, state, ended, bus>>
  OBVIOUS
<1>3. CASE up' = FALSE /\ UNCHANGED filelist
  <2>1. TypeOK'
    BY <1>2, <1>3
  <2>. QED
    BY <1>2, <1>3, <2>1 DEF IndexWithinList, NowPlaying, SilenceBeforePlay, FreshMeansEnded
<1>4. CASE filelist' = filelist \o list /\ UNCHANGED up
  <2>1. /\ filelist' \in Seq(File)
        /\ Len(filelist') = Len(filelist) + Len(list)
        /\ \A i \in 1 .. Len(filelist) : filelist'[i] = filelist[i]
    BY <1>1, <1>4
  <2>2. TypeOK' /\ FreshMeansEnded' /\ SilenceBeforePlay'
    BY <1>2, <1>4, <2>1 DEF FreshMeansEnded, SilenceBeforePlay
  <2>3. Len(filelist) \in Nat /\ Len(list) \in Nat
    BY <1>1
  <2>4. IndexWithinList' /\ NowPlaying'
    BY <1>2, <2>1, <2>3 DEF IndexWithinList, NowPlaying
  <2>. QED
    BY <2>2, <2>4
<1>. QED
  BY <1>3, <1>4

\* A play that acts finds audiotestsrc and starts the first name of the list.
LEMMA PlayFileIInv == IInv /\ PlayFile => IInv'
<1>. SUFFICES ASSUME IInv, PlayFile
              PROVE  IInv'
  OBVIOUS
<1>. USE DEF IInv, TypeOK, PlayFile
<1>1. source = "test"
  BY DEF IndexWithinList, SilenceBeforePlay
<1>2. /\ current_file_index' = 0 /\ source' = "file" /\ location' = filelist[1]
      /\ Restart(bus) /\ UNCHANGED <<filelist, up>>
  BY <1>1
<1>3. Len(filelist) \in Nat \ {0} /\ filelist[1] \in File
  OBVIOUS
<1>4. TypeOK' /\ FreshMeansEnded'
  BY <1>2, <1>3, RestartType
<1>5. IndexWithinList' /\ NowPlaying' /\ SilenceBeforePlay'
  BY <1>2, <1>3 DEF IndexWithinList, NowPlaying, SilenceBeforePlay
<1>. QED
  BY <1>4, <1>5

\* A remove leaves list and index as they are, and no message of the pipeline.
LEMMA RemoveIInv == IInv /\ Remove => IInv'
<1>. SUFFICES ASSUME IInv, Remove
              PROVE  IInv'
  OBVIOUS
<1>1. TypeOK'
  <2>1. ended' \in BOOLEAN /\ up' \in BOOLEAN
    BY DEF IInv, TypeOK, Remove
  <2>2. bus' \in Seq(Message)
    BY DEF Remove
  <2>. QED
    BY <2>1, <2>2 DEF IInv, TypeOK, Remove
<1>2. IndexWithinList' /\ NowPlaying' /\ SilenceBeforePlay' /\ FreshMeansEnded'
  BY DEF IInv, IndexWithinList, NowPlaying, SilenceBeforePlay, FreshMeansEnded, Remove
<1>. QED
  BY <1>1, <1>2 DEF IInv

\* A new pipeline starts with silence, whatever list and index the core kept.
LEMMA ConfigureIInv == IInv /\ Configure => IInv'
<1>. SUFFICES ASSUME IInv, Configure
              PROVE  IInv'
  OBVIOUS
<1>1. TypeOK'
  BY DEF IInv, TypeOK, Configure
<1>2. IndexWithinList' /\ NowPlaying' /\ SilenceBeforePlay'
  BY DEF IInv, IndexWithinList, NowPlaying, SilenceBeforePlay, Configure
<1>3. FreshMeansEnded'
  BY DEF IInv, FreshMeansEnded, Configure
<1>. QED
  BY <1>1, <1>2, <1>3 DEF IInv

\* The end of a list leaves index and list alone and takes the file away.
LEMMA GstClearIInv ==
  ASSUME NEW rest \in Seq(Message), GstClear(rest), UNCHANGED <<filelist, up>>, source # "none"
  PROVE  IInv => IInv'
<1>. SUFFICES ASSUME IInv
              PROVE  IInv'
  OBVIOUS
<1>2. CASE source = "test" /\ state' = "READY" /\ ended' = FALSE
           /\ bus' = Outdated(rest) /\ UNCHANGED <<source, location, current_file_index>>
  <2>1. TypeOK'
    BY <1>2, OutdatedType DEF IInv, TypeOK
  <2>2. IndexWithinList' /\ NowPlaying' /\ SilenceBeforePlay'
    BY <1>2 DEF IInv, IndexWithinList, NowPlaying, SilenceBeforePlay
  <2>3. FreshMeansEnded'
    BY <1>2, OutdatedType DEF FreshMeansEnded
  <2>. QED
    BY <2>1, <2>2, <2>3 DEF IInv
<1>3. CASE ToSilence(rest) /\ UNCHANGED current_file_index
  <2>1. Restart(rest) /\ source' = "test" /\ location' = NoFile
    BY <1>3 DEF ToSilence
  <2>2. TypeOK'
    BY <1>3, <2>1, RestartType DEF IInv, TypeOK
  <2>3. IndexWithinList' /\ NowPlaying' /\ SilenceBeforePlay'
    BY <1>3, <2>1 DEF IInv, IndexWithinList, NowPlaying, SilenceBeforePlay
  <2>. QED
    BY <2>1, <2>2, <2>3, RestartType DEF IInv
<1>. QED
  BY <1>2, <1>3 DEF GstClear

\* An EOS before the end of the list moves index and filesrc together.
LEMMA AdvanceIInv ==
  ASSUME NEW rest \in Seq(Message), Advance(rest), UNCHANGED <<filelist, up>>, source # "none",
         current_file_index + 1 # Len(filelist)
  PROVE  IInv => IInv'
<1>. SUFFICES ASSUME IInv
              PROVE  IInv'
  OBVIOUS
<1>2. Restart(rest) /\ current_file_index' = current_file_index + 1 /\ source' = source
  BY DEF Advance
<1>3. filelist \in Seq(File) /\ Len(filelist) \in Nat
  BY DEF IInv, TypeOK
<1>4. current_file_index' \in 0 .. Len(filelist) - 1
  BY <1>2, <1>3 DEF IInv, IndexWithinList
<1>5. location' \in File \cup {NoFile} /\ NowPlaying'
  BY <1>2, <1>3, <1>4 DEF IInv, TypeOK, IndexWithinList, NowPlaying, Advance
<1>6. TypeOK'
  <2>1. current_file_index' \in Int
    BY <1>3, <1>4
  <2>2. state' = "PLAYING" /\ ended' \in BOOLEAN /\ bus' \in Seq(Message)
    BY <1>2, RestartType
  <2>. QED
    BY <1>2, <1>5, <2>1, <2>2 DEF IInv, TypeOK
<1>7. IndexWithinList' /\ SilenceBeforePlay'
  BY <1>3, <1>4 DEF IndexWithinList, SilenceBeforePlay
<1>. QED
  BY <1>2, <1>5, <1>6, <1>7, RestartType DEF IInv

\* What the EOS branch does, whatever is left on the bus after it.
EosBranch(rest) ==
  /\ source # "none"
  /\ IF current_file_index + 1 = Len(filelist) THEN GstClear(rest) ELSE Advance(rest)
  /\ UNCHANGED <<filelist, up>>

\* Either way an EOS is handled keeps the invariant.
LEMMA EosBranchIInv ==
  ASSUME NEW rest \in Seq(Message), EosBranch(rest)
  PROVE  IInv => IInv'
  BY GstClearIInv, AdvanceIInv DEF EosBranch

\* Of an EOS message the bus without it is left.
LEMMA BusEosBranch == IInv /\ BusEos => Tail(bus) \in Seq(Message) /\ EosBranch(Tail(bus))
  BY TailType DEF IInv, TypeOK, BusEos, EosBranch

LEMMA BusEosIInv == IInv /\ BusEos => IInv'
  BY BusEosBranch, EosBranchIInv

\* Dropping an ERROR touches nothing but the bus.
LEMMA BusErrorIInv == IInv /\ BusError => IInv'
<1>. SUFFICES ASSUME IInv, BusError
              PROVE  IInv'
  OBVIOUS
<1>1. bus \in Seq(Message) /\ bus # << >> /\ bus' = Tail(bus)
  BY DEF IInv, TypeOK, BusError
<1>2. TypeOK'
  BY <1>1, TailType DEF IInv, TypeOK, BusError
<1>3. IndexWithinList' /\ NowPlaying' /\ SilenceBeforePlay'
  BY DEF IInv, IndexWithinList, NowPlaying, SilenceBeforePlay, BusError
<1>4. FreshMeansEnded'
  BY <1>1, TailType DEF IInv, FreshMeansEnded, BusError
<1>. QED
  BY <1>2, <1>3, <1>4 DEF IInv

\* The message that ends a run is the only fresh one.
LEMMA EndOfRunIInv == IInv /\ EndOfRun => IInv'
<1>. SUFFICES ASSUME IInv, EndOfRun
              PROVE  IInv'
  OBVIOUS
<1>. DEFINE message == [kind |-> IF location \in Broken THEN "error" ELSE "eos", stale |-> FALSE]
<1>1. message \in Message /\ bus \in Seq(Message)
  BY DEF IInv, TypeOK, Message
<1>2. bus' = Append(bus, message) /\ ended' = TRUE /\ source = "file"
      /\ UNCHANGED <<filelist, current_file_index, source, location, state, up>>
  BY DEF EndOfRun
<1>3. TypeOK'
  BY <1>1, <1>2 DEF IInv, TypeOK
<1>4. IndexWithinList' /\ NowPlaying' /\ SilenceBeforePlay'
  BY <1>2 DEF IInv, IndexWithinList, NowPlaying, SilenceBeforePlay
<1>5. FreshMeansEnded'
  BY <1>2 DEF FreshMeansEnded
<1>. QED
  BY <1>3, <1>4, <1>5 DEF IInv

\* Every handler keeps the invariant.
LEMMA NextIInv == IInv /\ [Next]_vars => IInv'
<1>. SUFFICES ASSUME IInv, [Next]_vars
              PROVE  IInv'
  OBVIOUS
<1>1. CASE ClearPlayList
  BY <1>1, ClearPlayListIInv
<1>2. CASE \E list \in Requests : AppandPlayList(list)
  BY <1>2, AppandPlayListIInv
<1>3. CASE PlayFile
  BY <1>3, PlayFileIInv
<1>4. CASE Remove
  BY <1>4, RemoveIInv
<1>5. CASE Configure
  BY <1>5, ConfigureIInv
<1>6. CASE BusEos
  BY <1>6, BusEosIInv
<1>7. CASE BusError
  BY <1>7, BusErrorIInv
<1>8. CASE EndOfRun
  BY <1>8, EndOfRunIInv
<1>9. CASE UNCHANGED vars
  BY <1>9 DEF IInv, TypeOK, IndexWithinList, NowPlaying, SilenceBeforePlay, FreshMeansEnded, vars
<1>. QED
  BY <1>1, <1>2, <1>3, <1>4, <1>5, <1>6, <1>7, <1>8, <1>9
  DEF Next, Command, BusCallback, Terminated

-----------------------------------------------------------------------------
\* The invariant holds of every reachable state.
LEMMA IInvHolds == Spec => []IInv
  BY InitIInv, NextIInv, PTL DEF Spec

\* Every variable of a core has its type in every reachable state.
THEOREM TypeCorrect == Spec => []TypeOK
<1>1. IInv => TypeOK
  BY DEF IInv
<1>. QED
  BY <1>1, IInvHolds, PTL

\* No handler ever indexes filelist out of bounds when handlers do not overlap.
THEOREM IndexSafe == Spec => []IndexWithinList
<1>1. IInv => IndexWithinList
  BY DEF IInv
<1>. QED
  BY <1>1, IInvHolds, PTL

\* List, index and filesrc agree on the file being sent.
THEOREM AgreementSafe == Spec => []NowPlaying
<1>1. IInv => NowPlaying
  BY DEF IInv
<1>. QED
  BY <1>1, IInvHolds, PTL

\* PlayFile never takes its empty else branch.
THEOREM ElseBranchDead == Spec => []SilenceBeforePlay
<1>1. IInv => SilenceBeforePlay
  BY DEF IInv
<1>. QED
  BY <1>1, IInvHolds, PTL

-----------------------------------------------------------------------------
\* Only GstClear with audiotestsrc in place leaves READY, and then the EOS is stale.
LEMMA StallStep ==
  IInv /\ [Next]_vars =>
    [state = "PLAYING" /\ state' = "READY" => bus # << >> /\ Head(bus).stale]_vars
<1>. SUFFICES ASSUME IInv, Next, state = "PLAYING", state' = "READY"
              PROVE  bus # << >> /\ Head(bus).stale
  OBVIOUS
<1>1. BusEos /\ source = "test"
  BY DEF IInv, TypeOK, IndexWithinList, SilenceBeforePlay, Next, Command, ClearPlayList,
         AppandPlayList, PlayFile, Remove, Configure, BusCallback, BusEos, BusError, EndOfRun,
         Terminated, GstClear, Advance, ToSilence, Restart, vars
<1>2. bus # << >> /\ bus \in Seq(Message)
  BY <1>1 DEF IInv, TypeOK, BusEos
<1>. QED
  BY <1>1, <1>2, TailType DEF IInv, FreshMeansEnded

\* Silence is never lost: the pipeline is left in READY only by an EOS whose run
\* was over before the EOS was handled.
THEOREM StallSafe == Spec => StallNeedsStaleEos
  BY IInvHolds, StallStep, PTL DEF Spec, StallNeedsStaleEos

\* A run that has not ended has no fresh message on the bus.
LEMMA CutShortStep ==
  IInv /\ [Next]_vars =>
    [source = "file" /\ ~ended /\ (source' # "file" \/ current_file_index' # current_file_index)
       => \/ filelist' = << >>
          \/ source' = "none"
          \/ bus # << >> /\ Head(bus).stale]_vars
<1>. SUFFICES ASSUME IInv, Next, source = "file", ~ended,
                     source' # "file" \/ current_file_index' # current_file_index
              PROVE  \/ filelist' = << >>
                     \/ source' = "none"
                     \/ bus # << >> /\ Head(bus).stale
  OBVIOUS
<1>1. ClearPlayList \/ Remove \/ BusEos
  BY DEF IInv, TypeOK, IndexWithinList, SilenceBeforePlay, Next, Command, AppandPlayList,
         PlayFile, Configure, BusCallback, BusError, EndOfRun, Terminated, vars
<1>2. CASE ClearPlayList
  BY <1>2 DEF ClearPlayList
<1>3. CASE Remove
  BY <1>3 DEF Remove
<1>4. CASE BusEos
  <2>1. bus # << >> /\ bus \in Seq(Message)
    BY <1>4 DEF IInv, TypeOK, BusEos
  <2>. QED
    BY <2>1, TailType DEF IInv, FreshMeansEnded
<1>. QED
  BY <1>1, <1>2, <1>3, <1>4

\* No file loses its end to a repeated play or to the handler of the file
\* before it.
THEOREM CutShortSafe == Spec => CutShortOnlyByStaleEos
  BY IInvHolds, CutShortStep, PTL DEF Spec, CutShortOnlyByStaleEos

\* Only PlayFile puts a file in place of silence, and it needs a negative index.
LEMMA SilentStep ==
  IInv /\ [Next]_vars => [source # "file" /\ current_file_index >= 0 => source' # "file"]_vars
<1>. SUFFICES ASSUME IInv, Next, source # "file", current_file_index >= 0
              PROVE  source' # "file"
  OBVIOUS
<1>. QED
  BY DEF IInv, TypeOK, Next, Command, ClearPlayList, AppandPlayList, PlayFile, Remove,
         Configure, BusCallback, BusEos, BusError, EndOfRun, Terminated, GstClear, Advance,
         ToSilence, Restart, vars

\* A list that has ended stays silent until a clear.
THEOREM SilentSafe == Spec => EndedListStaysSilent
  BY IInvHolds, SilentStep, PTL DEF Spec, EndedListStaysSilent

-----------------------------------------------------------------------------
\* The pipeline that sends a file plays it, and when one that could be opened is
\* over, the EOS that moves the list on is still on the bus.
FileGoesOn ==
  up /\ source = "file" =>
    /\ state = "PLAYING"
    /\ ended /\ location \notin Broken =>
         \E i \in DOMAIN bus : bus[i].kind = "eos" /\ ~bus[i].stale

\* Whoever takes the pipeline through READY starts the run anew.
LEMMA RestartGoesOn ==
  ASSUME NEW queue, Restart(queue)
  PROVE  FileGoesOn'
  BY DEF Restart, FileGoesOn

LEMMA CommandGoesOn == IInv /\ FileGoesOn /\ Command => FileGoesOn'
<1>. SUFFICES ASSUME IInv, FileGoesOn, Command
              PROVE  FileGoesOn'
  OBVIOUS
<1>1. CASE ClearPlayList
  BY <1>1, RestartGoesOn DEF ClearPlayList, ToSilence, FileGoesOn
<1>2. ASSUME NEW list, AppandPlayList(list) PROVE FileGoesOn'
  BY <1>2 DEF AppandPlayList, FileGoesOn
<1>3. CASE PlayFile
  <2>1. source = "test"
    BY <1>3 DEF PlayFile, IInv, TypeOK, IndexWithinList, SilenceBeforePlay
  <2>. QED BY <1>3, <2>1, RestartGoesOn DEF PlayFile
<1>4. CASE Remove \/ Configure
  BY <1>4 DEF Remove, Configure, FileGoesOn
<1>. QED
  BY <1>1, <1>2, <1>3, <1>4 DEF Command

\* An ERROR that is dropped leaves the EOS behind it.
LEMMA BusGoesOn == IInv /\ FileGoesOn /\ BusCallback => FileGoesOn'
<1>. SUFFICES ASSUME IInv, FileGoesOn, BusCallback
              PROVE  FileGoesOn'
  OBVIOUS
<1>1. CASE BusEos
  BY <1>1, RestartGoesOn DEF BusEos, GstClear, ToSilence, Advance, FileGoesOn
<1>2. CASE BusError
  <2>1. /\ bus \in Seq(Message) /\ bus # << >> /\ bus[1].kind = "error" /\ bus' = Tail(bus)
        /\ UNCHANGED <<source, location, state, ended, up>>
    BY <1>2, TailType DEF IInv, TypeOK, BusError
  <2>2. ASSUME NEW i \in DOMAIN bus, bus[i].kind = "eos"
        PROVE  i - 1 \in DOMAIN bus' /\ bus'[i - 1] = bus[i]
    <3>1. i # 1
      BY <2>1, <2>2
    <3>. QED BY <2>1, <3>1
  <2>. QED BY <2>1, <2>2 DEF FileGoesOn
<1>. QED
  BY <1>1, <1>2 DEF BusCallback

\* No handler ever leaves a file to itself: neither clears, plays and removes nor
\* stale EOS messages nor the READY of another command lose the EOS the rest of the
\* list depends on, or the pipeline's PLAYING; what FileEnds needs besides
\* fairness (ClearPlayList, PlayFile, bus_callback).
THEOREM FilesGoOn == Spec => []FileGoesOn
<1>1. Init => FileGoesOn
  BY DEF Init, FileGoesOn
<1>2. IInv /\ FileGoesOn /\ [Next]_vars => FileGoesOn'
  <2>1. CASE EndOfRun
    <3>. SUFFICES ASSUME IInv, FileGoesOn PROVE FileGoesOn'
      OBVIOUS
    <3>. DEFINE message == [kind |-> IF location \in Broken THEN "error" ELSE "eos",
                            stale |-> FALSE]
    <3>1. /\ bus \in Seq(Message) /\ message \in Message /\ bus' = Append(bus, message)
          /\ state = "PLAYING" /\ UNCHANGED <<source, location, state, up>>
      BY <2>1 DEF IInv, TypeOK, EndOfRun, Message
    <3>2. Len(bus) + 1 \in DOMAIN bus' /\ bus'[Len(bus) + 1] = message
      BY <3>1
    <3>. QED BY <3>1, <3>2 DEF FileGoesOn
  <2>2. CASE UNCHANGED vars
    BY <2>2 DEF vars, FileGoesOn
  <2>. QED
    BY <2>1, <2>2, CommandGoesOn, BusGoesOn DEF Next, Terminated
<1>. QED
  BY <1>1, <1>2, IInvHolds, PTL DEF Spec

-----------------------------------------------------------------------------
\* A file is being sent exactly when the listener hears one.
LEMMA HeardIsAFile == IInv /\ source = "file" => location # NoFile
  BY PlaylistAssumption DEF IInv, TypeOK, NowPlaying

\* At the last file GstClear finishes the list; with nothing being sent, the
\* listener does not notice it.  Any other EOS moves on, aloud or in silence.
LEMMA EosBranchListener ==
  ASSUME NEW rest \in Seq(Message), EosBranch(rest)
  PROVE  IInv => [Listener!Next]_(Listener!avars)
<1>. SUFFICES ASSUME IInv
              PROVE  [Listener!Next]_(Listener!avars)
  OBVIOUS
<1>1. /\ UNCHANGED filelist /\ source \in {"test", "file"}
      /\ current_file_index \in -1 .. Len(filelist) - 1 /\ Len(filelist) \in Nat
  BY DEF IInv, TypeOK, IndexWithinList, EosBranch
<1>2. CASE GstClear(rest) /\ current_file_index + 1 = Len(filelist) /\ source = "test"
  BY <1>1, <1>2 DEF GstClear, Listener!avars
<1>3. CASE GstClear(rest) /\ current_file_index + 1 = Len(filelist) /\ source = "file"
  <2>1. source' = "test" /\ current_file_index' = current_file_index
    BY <1>3 DEF GstClear, ToSilence
  <2>2. Listener!Finish
    BY <1>1, <1>3, <2>1, HeardIsAFile DEF Listener!Finish
  <2>. QED
    BY <2>2 DEF Listener!Next
<1>4. CASE Advance(rest) /\ current_file_index + 1 # Len(filelist)
  <2>1. current_file_index + 1 < Len(filelist)
    BY <1>1, <1>4
  <2>2. source' = source /\ current_file_index' = current_file_index + 1
    BY <1>4 DEF Advance
  <2>3. CASE source = "file"
    <3>1. location' = filelist[(current_file_index + 1) + 1]
      BY <1>1, <1>4, <2>3 DEF Advance
    <3>2. Listener!Move
      BY <1>1, <2>1, <2>2, <2>3, <3>1, HeardIsAFile DEF Listener!Move
    <3>. QED
      BY <3>2 DEF Listener!Next
  <2>4. CASE source = "test"
    <3>1. Listener!PassOver
      BY <1>1, <2>1, <2>2, <2>4 DEF Listener!PassOver
    <3>. QED
      BY <3>1 DEF Listener!Next
  <2>. QED
    BY <1>1, <2>3, <2>4
<1>. QED
  BY <1>1, <1>2, <1>3, <1>4 DEF EosBranch

LEMMA BusEosListener == IInv /\ BusEos => [Listener!Next]_(Listener!avars)
  BY BusEosBranch, EosBranchListener

\* A play that acts is the start of the list: the index was -1 and silence was
\* being sent.
LEMMA PlayFileListener == IInv /\ PlayFile => Listener!Start
<1>. SUFFICES ASSUME IInv, PlayFile
              PROVE  Listener!Start
  OBVIOUS
<1>1. current_file_index = -1 /\ source = "test"
  BY DEF IInv, TypeOK, IndexWithinList, SilenceBeforePlay, PlayFile
<1>2. /\ filelist # << >> /\ UNCHANGED filelist
      /\ source' = "file" /\ location' = filelist[1] /\ current_file_index' = 0
  BY <1>1 DEF PlayFile
<1>. QED
  BY <1>1, <1>2 DEF Listener!Start

\* The other commands.
LEMMA CommandListener == IInv /\ Command => [Listener!Next]_(Listener!avars)
<1>. SUFFICES ASSUME IInv, Command
              PROVE  [Listener!Next]_(Listener!avars)
  OBVIOUS
<1>1. CASE ClearPlayList
  <2>1. source' = "test" /\ source # "none"
    BY <1>1 DEF ClearPlayList, ToSilence
  <2>2. Listener!Clear
    BY <1>1, <2>1 DEF ClearPlayList, Listener!Clear
  <2>. QED
    BY <2>2 DEF Listener!Next
<1>2. ASSUME NEW list \in Requests, AppandPlayList(list)
      PROVE  [Listener!Next]_(Listener!avars)
  <2>1. UNCHANGED filelist => UNCHANGED Listener!avars
    BY <1>2 DEF AppandPlayList, Listener!avars
  <2>2. filelist' = filelist \o list => Listener!Add(list)
    BY <1>2 DEF AppandPlayList, Listener!Add
  <2>3. filelist' = filelist \/ filelist' = filelist \o list
    BY <1>2 DEF AppandPlayList
  <2>. QED
    BY <2>1, <2>2, <2>3 DEF Listener!Next
<1>3. CASE PlayFile
  BY <1>3, PlayFileListener DEF Listener!Next
<1>4. CASE Remove
  <2>1. Listener!HangUp
    BY <1>4 DEF Remove, Listener!HangUp
  <2>. QED
    BY <2>1 DEF Listener!Next
<1>5. CASE Configure
  <2>1. Listener!PickUp
    BY <1>5 DEF Configure, Listener!PickUp
  <2>. QED
    BY <2>1 DEF Listener!Next
<1>. QED
  BY <1>1, <1>2, <1>3, <1>4, <1>5 DEF Command

\* Every step is a step of the listener's or one he does not notice.
LEMMA NextListener == IInv /\ [Next]_vars => [Listener!Next]_(Listener!avars)
<1>. SUFFICES ASSUME IInv, [Next]_vars
              PROVE  [Listener!Next]_(Listener!avars)
  OBVIOUS
<1>1. CASE BusError \/ EndOfRun \/ UNCHANGED vars
  BY <1>1 DEF BusError, EndOfRun, vars, Listener!avars
<1>. QED
  BY <1>1, CommandListener, BusEosListener DEF Next, BusCallback, Terminated

\* A sender plays its list as Announcer promises, for every set of names and
\* whatever messages are left over on the bus.
THEOREM ListenerServed == Spec => PlaysLists
<1>1. Init => Listener!Init
  BY DEF Init, Listener!Init
<1>. QED
  BY <1>1, IInvHolds, NextListener, PTL DEF Spec, PlaysLists, Listener!Spec

=============================================================================

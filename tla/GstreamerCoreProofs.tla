------------------------- MODULE GstreamerCoreProofs -------------------------
(***************************************************************************)
(* What GstreamerCore promises of every interleaving of its two threads,   *)
(* for lists, buses and requests of any size.  The history variable        *)
(* overlap is what makes this inductive: while a command is not in it, the *)
(* handler of an EOS and that command have not been under way together, so *)
(* what one of them tested still holds when it acts.                       *)
(***************************************************************************)
EXTENDS GstreamerCore, TLAPS

\* The statements of each command; what is shared comes last.
ClearLabels == {"clear", "rewind", "peek", "halt", "drop", "relink"}
PlayLabels == {"play", "play_index", "play_halt", "play_peek", "play_drop", "play_link"}

CommandOf ==
  /\ pc.asio \in ClearLabels => cmd = "clear"
  /\ pc.asio = "append" => cmd = "append" /\ (up => pending # << >>)
  /\ pc.asio \in PlayLabels => cmd = "play"
  /\ pc.asio \in {"remove", "unref"} => cmd = "remove"
  /\ pc.asio = "configure" => cmd = "configure"
  /\ pc.asio = "resume" => cmd \in {"clear", "play", "configure"}

\* A command and a handler that are both under way have overlapped.
Recorded == pc.main # "idle" /\ pc.asio # "idle" => cmd \in overlap

\* Without a pipeline there is no message, and only some commands run; a handler
\* finds it gone, or restarts one that is in NULL, only beside a remove.
Removed ==
  /\ source = "none" => bus = << >> /\ pc.asio \in {"idle", "append", "configure"}
  /\ pc.asio = "configure" => source = "none"
  /\ pc.main # "idle" /\ (source = "none" \/ ~held) => "remove" \in overlap
  /\ pc.asio = "unref" /\ state # "NULL" => "remove" \in overlap

\* The index is -1 only while audiotestsrc plays, but for a clear on its way there.
Rewound ==
  /\ current_file_index >= -1 /\ index >= -1
  /\ up /\ current_file_index < 0 /\ pc.asio \notin {"peek", "halt", "drop", "relink"}
       => source \in {"test", "none"}
  /\ pc.asio \in {"play_index", "play_halt", "play_peek", "play_drop"} => source = "test"
  /\ pc.asio \in {"play_halt", "play_peek", "play_drop", "play_link"} => current_file_index >= 0

\* Without a clear or a play at the wrong time, the index is within the list, and
\* a handler that skips has found that the next one is.
Bounded ==
  overlap \cap {"clear", "play"} = {} =>
    /\ pc.asio # "rewind" => current_file_index < Len(filelist)
    /\ pc.asio = "play_index" => Len(filelist) > 0
    /\ pc.main \in {"skip_halt", "skip_load"} => current_file_index + 1 < Len(filelist)
    /\ pc.main = "skip_store" => index + 1 < Len(filelist)
    /\ pc.main \in {"skip_find", "skip_fetch"} => current_file_index >= 0
    /\ "bounds" \notin fault

\* Without a clear, a play or a remove at the wrong time, nothing feeds
\* audioconvert just while one thread is between unlinking and linking.
Linked ==
  overlap \cap {"clear", "play", "remove"} = {} =>
    /\ up /\ source = "gap" => pc.asio \in {"relink", "play_link"} \/ pc.main = "relink"
    /\ up /\ (pc.asio \in {"relink", "play_link"} \/ pc.main = "relink") => source = "gap"
    /\ up /\ (pc.asio \in {"halt", "drop"} \/ pc.main = "drop") => source = "file"
    /\ "link" \notin fault

\* What filesrc plays, from the handler's point of view: the file the index names,
\* and, from where it has asked for READY, the file it is about to name.
Playing ==
  /\ pc.main \notin {"skip_find", "skip_fetch", "skip_set"} =>
       InBounds(current_file_index) /\ location = filelist[current_file_index + 1]
  /\ pc.main \in {"skip_load", "skip_store", "skip_find", "skip_fetch", "skip_set"} =>
       state # "PLAYING"
  /\ pc.main \in {"skip_fetch", "skip_set"} => found
  /\ pc.main = "skip_set" =>
       InBounds(current_file_index) /\ name = filelist[current_file_index + 1]

\* Without a play at the wrong time or another fault, that is so whenever filesrc
\* plays, but for a clear, which ends with audiotestsrc.
Agreed ==
  up /\ fault = {} /\ "play" \notin overlap =>
    /\ source = "file" /\ pc.asio \notin {"rewind", "peek", "halt", "drop"} => Playing
    /\ pc.asio = "relink" => source # "file"
    /\ pc.asio = "resume" /\ cmd # "play" => source # "file"

GInv ==
  /\ TypeOK
  /\ CommandOf /\ Recorded /\ Removed /\ LifetimesNeedOverlap
  /\ Rewound /\ Bounded /\ Linked /\ Agreed

-----------------------------------------------------------------------------
\* The groups of variables are always seen through.
USE DEF playlist, elements, stream, locals, history

\* A step moves its own thread only.
LEMMA AsioStep ==
  ASSUME NEW from \in AsioLabels, NEW to \in AsioLabels, TypeOK, Step("asio", from, to)
  PROVE  /\ up /\ pc.asio = from /\ pc'.asio = to /\ pc'.main = pc.main
         /\ pc' \in [asio : AsioLabels, main : MainLabels]
  BY DEF Step, TypeOK

LEMMA MainStep ==
  ASSUME NEW from \in MainLabels, NEW to \in MainLabels, TypeOK, Step("main", from, to)
  PROVE  /\ up /\ pc.main = from /\ pc'.main = to /\ pc'.asio = pc.asio
         /\ pc' \in [asio : AsioLabels, main : MainLabels]
  BY DEF Step, TypeOK

\* What is on a bus.
Message == [kind : {"eos", "error"}, stale : BOOLEAN]

\* A READY leaves messages messages, and none where there was none.
LEMMA OutdatedType ==
  ASSUME NEW queue \in Seq(Message)
  PROVE  Outdated(queue) \in Seq(Message) /\ (queue = << >> => Outdated(queue) = << >>)
<1>1. DOMAIN queue = 1 .. Len(queue) /\ Len(queue) \in Nat
  OBVIOUS
<1>2. \A i \in 1 .. Len(queue) : [queue[i] EXCEPT !.stale = TRUE] \in Message
  <2>. TAKE i \in 1 .. Len(queue)
  <2>1. queue[i] \in Message
    OBVIOUS
  <2>. QED
    BY <2>1 DEF Message
<1>3. Outdated(queue) \in Seq(Message)
  BY <1>1, <1>2 DEF Outdated
<1>4. queue = << >> => Outdated(queue) = << >>
  BY DEF Outdated
<1>. QED
  BY <1>3, <1>4

-----------------------------------------------------------------------------
\* ClearPlayList. From here until audiotestsrc is back nothing is asked of filesrc; a
\* handler under way makes the clear overlap.
LEMMA ClearListInv == GInv /\ ClearList => GInv'
<1>. SUFFICES ASSUME GInv, ClearList PROVE GInv'
  OBVIOUS
<1>1. /\ up /\ pc.asio = "clear" /\ pc'.asio = "rewind" /\ pc'.main = pc.main
      /\ pc' \in [asio : AsioLabels, main : MainLabels]
  BY AsioStep DEF GInv, ClearList, AsioLabels
<1>2. TypeOK'
  <2>1. filelist' = << >> /\ name' \in {name, Garbage} /\ fault' \subseteq fault \cup {"dangling"}
    BY DEF ClearList
  <2>. QED
    BY <1>1, <2>1 DEF GInv, ClearList, TypeOK, Faults
<1>3. CommandOf' /\ Recorded' /\ Removed' /\ LifetimesNeedOverlap'
  BY <1>1
  DEF GInv, ClearList, Holding, CommandOf, Recorded, Removed, LifetimesNeedOverlap,
      ClearLabels, PlayLabels
<1>4. Rewound' /\ Bounded' /\ Linked'
  BY <1>1 DEF GInv, ClearList, CommandOf, Recorded, Rewound, Bounded, Linked, ClearLabels
<1>5. Agreed'
  BY <1>1 DEF GInv, ClearList, Agreed
<1>. QED
  BY <1>2, <1>3, <1>4, <1>5 DEF GInv

LEMMA RewindInv == GInv /\ Rewind => GInv'
<1>. SUFFICES ASSUME GInv, Rewind PROVE GInv'
  OBVIOUS
<1>1. /\ up /\ pc.asio = "rewind" /\ pc'.asio = "peek" /\ pc'.main = pc.main
      /\ pc' \in [asio : AsioLabels, main : MainLabels]
  BY AsioStep DEF GInv, Rewind, AsioLabels
<1>2. TypeOK'
  BY <1>1 DEF GInv, Rewind, TypeOK
<1>3. CommandOf' /\ Recorded' /\ Removed' /\ LifetimesNeedOverlap'
  BY <1>1
  DEF GInv, Rewind, CommandOf, Recorded, Removed, LifetimesNeedOverlap, ClearLabels,
      PlayLabels
<1>4. Rewound' /\ Bounded' /\ Linked'
  BY <1>1 DEF GInv, Rewind, CommandOf, Recorded, Rewound, Bounded, Linked, ClearLabels
<1>5. Agreed'
  BY <1>1 DEF GInv, Rewind, Agreed
<1>. QED
  BY <1>2, <1>3, <1>4, <1>5 DEF GInv

\* With no handler under way what is not audiotestsrc is filesrc.
LEMMA ClearPeekInv == GInv /\ ClearPeek => GInv'
<1>. SUFFICES ASSUME GInv, ClearPeek PROVE GInv'
  OBVIOUS
<1>1. /\ up /\ pc.asio = "peek" /\ pc'.asio \in {"idle", "halt"} /\ pc'.main = pc.main
      /\ pc' \in [asio : AsioLabels, main : MainLabels]
  BY AsioStep DEF GInv, ClearPeek, AsioLabels
<1>2. /\ UNCHANGED <<playlist, elements, stream, up, locals, history>>
      /\ pc'.asio = "idle" => source = "test"
      /\ pc'.asio = "halt" => source # "test"
  BY <1>1 DEF ClearPeek, Step, GInv, TypeOK
<1>3. TypeOK' /\ CommandOf' /\ Recorded' /\ Removed' /\ LifetimesNeedOverlap'
  BY <1>1, <1>2
  DEF GInv, TypeOK, CommandOf, Recorded, Removed, LifetimesNeedOverlap, ClearLabels, PlayLabels
<1>4. Rewound' /\ Bounded'
  BY <1>1, <1>2 DEF GInv, Rewound, Bounded
<1>5. Linked'
  <2>1. overlap \cap {"clear", "play", "remove"} = {} => pc.main = "idle"
    BY <1>1 DEF GInv, Recorded, CommandOf, ClearLabels
  <2>2. source # "none"
    BY <1>1 DEF GInv, Removed
  <2>. QED
    BY <1>1, <1>2, <2>1, <2>2 DEF GInv, TypeOK, Linked
<1>6. Agreed'
  BY <1>1, <1>2 DEF GInv, Agreed, Playing, InBounds
<1>. QED
  BY <1>3, <1>4, <1>5, <1>6 DEF GInv

LEMMA ClearHaltInv == GInv /\ ClearHalt => GInv'
<1>. SUFFICES ASSUME GInv, ClearHalt PROVE GInv'
  OBVIOUS
<1>1. /\ up /\ pc.asio = "halt" /\ pc'.asio = "drop" /\ pc'.main = pc.main
      /\ pc' \in [asio : AsioLabels, main : MainLabels]
  BY AsioStep DEF GInv, ClearHalt, AsioLabels
<1>2. TypeOK'
  BY <1>1, OutdatedType DEF GInv, ClearHalt, SetReady, TypeOK, Message
<1>3. CommandOf' /\ Recorded' /\ Removed' /\ LifetimesNeedOverlap'
  BY <1>1
  DEF GInv, ClearHalt, CommandOf, Recorded, Removed, LifetimesNeedOverlap, ClearLabels,
      PlayLabels
<1>4. Rewound' /\ Bounded' /\ Linked'
  BY <1>1 DEF GInv, ClearHalt, Rewound, Bounded, Linked
<1>5. Agreed'
  BY <1>1 DEF GInv, ClearHalt, Agreed
<1>. QED
  BY <1>2, <1>3, <1>4, <1>5 DEF GInv

\* What was in bounds and agreed stays so when the list grows, but for a name the
\* handler holds.
LEMMA AppandPlayListInv == GInv /\ AppandPlayList => GInv'
<1>. SUFFICES ASSUME GInv, AppandPlayList PROVE GInv'
  OBVIOUS
<1>1. /\ up /\ pc.asio = "append" /\ pc'.asio \in {"idle", "append"} /\ pc'.main = pc.main
      /\ pc' \in [asio : AsioLabels, main : MainLabels]
  BY AsioStep DEF GInv, AppandPlayList, AsioLabels
<1>2. /\ pending # << >> /\ pending' = Tail(pending) /\ cmd = "append"
      /\ UNCHANGED <<current_file_index, elements, stream, cmd, index, overlap>>
  BY <1>1 DEF AppandPlayList, GInv, CommandOf
<1>3. /\ Head(pending) \in File /\ Tail(pending) \in Seq(File)
      /\ Len(pending) # 1 => Tail(pending) # << >>
  <2>1. pending \in Seq(File) /\ Len(pending) \in Nat \ {0}
    BY <1>2 DEF GInv, TypeOK
  <2>2. Tail(pending) \in Seq(File) /\ Len(Tail(pending)) = Len(pending) - 1
    BY <1>2, <2>1
  <2>3. Head(pending) \in File
    BY <1>2, <2>1
  <2>4. Len(pending) # 1 => Tail(pending) # << >>
    BY <2>1, <2>2
  <2>. QED
    BY <2>2, <2>3, <2>4
<1>4. \/ up' = FALSE /\ UNCHANGED <<filelist, name, fault>>
      \/ /\ filelist' = Append(filelist, Head(pending)) /\ up'
         /\ pc'.asio = "append" => Tail(pending) # << >>
         /\ \/ UNCHANGED <<name, fault>>
            \/ /\ pc.main = "skip_set" /\ name' \in {name, Garbage}
               /\ fault' = fault \cup {"dangling"}
  BY <1>1, <1>3 DEF AppandPlayList, Step, Holding, GInv, TypeOK
<1>5. /\ filelist' \in Seq(File) /\ Len(filelist) \in Nat /\ Len(filelist') \in Nat
      /\ Len(filelist') >= Len(filelist)
      /\ \A i \in 1 .. Len(filelist) : filelist'[i] = filelist[i]
  <2>1. /\ filelist \in Seq(File)
        /\ filelist' = filelist \/ filelist' = Append(filelist, Head(pending))
    BY <1>4 DEF GInv, TypeOK
  <2>2. CASE filelist' = filelist
    BY <2>1, <2>2
  <2>3. CASE filelist' = Append(filelist, Head(pending))
    BY <1>3, <2>1, <2>3
  <2>. QED
    BY <2>1, <2>2, <2>3
<1>6. /\ fault \subseteq fault' /\ fault' \subseteq fault \cup {"dangling"}
      /\ "dangling" \notin fault' \ fault \/ pc.main = "skip_set"
      /\ name' \in {name, Garbage} /\ up' \in BOOLEAN
      /\ fault' = {} => name' = name
  BY <1>1, <1>4
<1>7. TypeOK'
  BY <1>1, <1>2, <1>3, <1>5, <1>6 DEF GInv, TypeOK, Faults
<1>8. CommandOf' /\ Recorded' /\ Removed'
  BY <1>1, <1>2, <1>4 DEF GInv, CommandOf, Recorded, Removed, ClearLabels, PlayLabels
<1>9. LifetimesNeedOverlap'
  BY <1>1, <1>2, <1>6 DEF GInv, Recorded, LifetimesNeedOverlap
<1>10. Rewound'
  BY <1>1, <1>2 DEF GInv, Rewound
<1>11. Bounded'
  BY <1>1, <1>2, <1>5, <1>6 DEF GInv, TypeOK, Bounded
<1>12. Linked'
  BY <1>1, <1>2, <1>6 DEF GInv, Linked
<1>13. Agreed'
  BY <1>1, <1>2, <1>5, <1>6 DEF GInv, TypeOK, Agreed, Playing, InBounds
<1>. QED
  BY <1>7, <1>8, <1>9, <1>10, <1>11, <1>12, <1>13 DEF GInv

\* PlayFile. An index of -1 means audiotestsrc.
LEMMA PlayTestInv == GInv /\ PlayTest => GInv'
<1>. SUFFICES ASSUME GInv, PlayTest PROVE GInv'
  OBVIOUS
<1>1. /\ up /\ pc.asio = "play" /\ pc'.asio \in {"play_index", "idle"} /\ pc'.main = pc.main
      /\ pc' \in [asio : AsioLabels, main : MainLabels]
  BY AsioStep DEF GInv, PlayTest, AsioLabels
<1>2. TypeOK'
  BY <1>1 DEF GInv, PlayTest, TypeOK
<1>3. CommandOf' /\ Recorded' /\ Removed' /\ LifetimesNeedOverlap'
  BY <1>1
  DEF GInv, PlayTest, CommandOf, Recorded, Removed, LifetimesNeedOverlap, ClearLabels,
      PlayLabels
<1>4. Rewound' /\ Bounded' /\ Linked'
  <2>1. /\ UNCHANGED <<playlist, elements, stream, up, locals, history>>
        /\ pc'.asio = "play_index" => current_file_index < 0 /\ filelist # << >>
    BY <1>1 DEF PlayTest, Step, GInv, TypeOK
  <2>2. source # "none" /\ (filelist # << >> => Len(filelist) > 0)
    BY <1>1 DEF GInv, TypeOK, Removed
  <2>. QED
    BY <1>1, <2>1, <2>2 DEF GInv, TypeOK, Rewound, Bounded, Linked
<1>5. Agreed'
  BY <1>1 DEF GInv, PlayTest, Agreed, Playing, InBounds
<1>. QED
  BY <1>2, <1>3, <1>4, <1>5 DEF GInv

LEMMA PlayIndexInv == GInv /\ PlayIndex => GInv'
<1>. SUFFICES ASSUME GInv, PlayIndex PROVE GInv'
  OBVIOUS
<1>1. /\ up /\ pc.asio = "play_index" /\ pc'.asio = "play_halt" /\ pc'.main = pc.main
      /\ pc' \in [asio : AsioLabels, main : MainLabels]
  BY AsioStep DEF GInv, PlayIndex, AsioLabels
<1>2. TypeOK'
  BY <1>1 DEF GInv, PlayIndex, TypeOK
<1>3. CommandOf' /\ Recorded' /\ Removed' /\ LifetimesNeedOverlap'
  BY <1>1
  DEF GInv, PlayIndex, CommandOf, Recorded, Removed, LifetimesNeedOverlap, ClearLabels,
      PlayLabels
<1>4. Rewound' /\ Bounded' /\ Linked'
  BY <1>1 DEF GInv, PlayIndex, CommandOf, Recorded, Rewound, Bounded, Linked, PlayLabels
<1>5. Agreed'
  <2>1. source' = "test"
    BY <1>1 DEF PlayIndex, GInv, Rewound
  <2>. QED
    BY <1>1, <2>1 DEF Agreed
<1>. QED
  BY <1>2, <1>3, <1>4, <1>5 DEF GInv

LEMMA PlayHaltInv == GInv /\ PlayHalt => GInv'
<1>. SUFFICES ASSUME GInv, PlayHalt PROVE GInv'
  OBVIOUS
<1>1. /\ up /\ pc.asio = "play_halt" /\ pc'.asio = "play_peek" /\ pc'.main = pc.main
      /\ pc' \in [asio : AsioLabels, main : MainLabels]
  BY AsioStep DEF GInv, PlayHalt, AsioLabels
<1>2. TypeOK'
  BY <1>1, OutdatedType DEF GInv, PlayHalt, SetReady, TypeOK, Message
<1>3. CommandOf' /\ Recorded' /\ Removed' /\ LifetimesNeedOverlap'
  BY <1>1
  DEF GInv, PlayHalt, CommandOf, Recorded, Removed, LifetimesNeedOverlap, ClearLabels,
      PlayLabels
<1>4. Rewound' /\ Bounded' /\ Linked'
  BY <1>1 DEF GInv, PlayHalt, Rewound, Bounded, Linked
<1>5. Agreed'
  BY <1>1 DEF GInv, PlayHalt, SetReady, Agreed, Playing, InBounds
<1>. QED
  BY <1>2, <1>3, <1>4, <1>5 DEF GInv

LEMMA PlayPeekInv == GInv /\ PlayPeek => GInv'
<1>. SUFFICES ASSUME GInv, PlayPeek PROVE GInv'
  OBVIOUS
<1>1. /\ up /\ pc.asio = "play_peek" /\ pc'.asio \in {"play_drop", "idle"} /\ pc'.main = pc.main
      /\ pc' \in [asio : AsioLabels, main : MainLabels]
  BY AsioStep DEF GInv, PlayPeek, AsioLabels
<1>2. TypeOK'
  BY <1>1 DEF GInv, PlayPeek, TypeOK
<1>3. CommandOf' /\ Recorded' /\ Removed' /\ LifetimesNeedOverlap'
  BY <1>1
  DEF GInv, PlayPeek, CommandOf, Recorded, Removed, LifetimesNeedOverlap, ClearLabels,
      PlayLabels
<1>4. Rewound' /\ Bounded' /\ Linked'
  BY <1>1 DEF GInv, PlayPeek, Rewound, Bounded, Linked
<1>5. Agreed'
  BY <1>1 DEF GInv, PlayPeek, Agreed, Playing, InBounds
<1>. QED
  BY <1>2, <1>3, <1>4, <1>5 DEF GInv

LEMMA PlayDropInv == GInv /\ PlayDrop => GInv'
<1>. SUFFICES ASSUME GInv, PlayDrop PROVE GInv'
  OBVIOUS
<1>1. /\ up /\ pc.asio = "play_drop" /\ pc'.asio = "play_link" /\ pc'.main = pc.main
      /\ pc' \in [asio : AsioLabels, main : MainLabels]
  BY AsioStep DEF GInv, PlayDrop, AsioLabels
<1>2. TypeOK'
  BY <1>1 DEF GInv, PlayDrop, TypeOK
<1>3. CommandOf' /\ Recorded' /\ Removed' /\ LifetimesNeedOverlap'
  BY <1>1
  DEF GInv, PlayDrop, CommandOf, Recorded, Removed, LifetimesNeedOverlap, ClearLabels,
      PlayLabels
<1>4. Rewound' /\ Bounded' /\ Linked'
  BY <1>1 DEF GInv, PlayDrop, TypeOK, Rewound, Bounded, Linked
<1>5. Agreed'
  BY <1>1 DEF GInv, PlayDrop, Agreed
<1>. QED
  BY <1>2, <1>3, <1>4, <1>5 DEF GInv

\* No handler has been under way since the index was tested, or the play overlaps.
LEMMA PlayLinkInv == GInv /\ PlayLink => GInv'
<1>. SUFFICES ASSUME GInv, PlayLink PROVE GInv'
  OBVIOUS
<1>1. /\ up /\ pc.asio = "play_link" /\ pc'.asio = "resume" /\ pc'.main = pc.main
      /\ pc' \in [asio : AsioLabels, main : MainLabels]
  BY AsioStep DEF GInv, PlayLink, AsioLabels
<1>2. UNCHANGED <<playlist, held, found, stream, locals, overlap>>
  BY DEF PlayLink
<1>3. /\ source' \in {source, "file"} /\ source # "none" /\ cmd = "play"
      /\ pc.main # "idle" => "play" \in overlap
  BY <1>1 DEF PlayLink, GInv, CommandOf, Recorded, Removed, PlayLabels
<1>4. /\ fault \subseteq fault' /\ fault' \subseteq fault \cup {"bounds", "link"}
      /\ "bounds" \in fault' => "bounds" \in fault \/ ~InBounds(current_file_index)
      /\ "link" \in fault' => "link" \in fault \/ source # "gap"
      /\ up' \in BOOLEAN
  BY <1>1 DEF PlayLink
<1>5. up' => /\ source = "gap" /\ source' = "file"
             /\ fault' = {} => /\ InBounds(current_file_index)
                               /\ location' = filelist[current_file_index + 1]
  BY <1>1 DEF PlayLink
<1>6. TypeOK'
  <2>1. location' \in File \cup {NoFile, Garbage}
    BY DEF PlayLink, GInv, TypeOK, InBounds
  <2>. QED
    BY <1>1, <1>2, <1>3, <1>4, <2>1 DEF GInv, TypeOK, Faults
<1>7. CommandOf' /\ Recorded' /\ Removed' /\ LifetimesNeedOverlap'
  BY <1>1, <1>2, <1>3, <1>4
  DEF GInv, CommandOf, Recorded, Removed, LifetimesNeedOverlap, ClearLabels, PlayLabels
<1>8. Rewound'
  BY <1>1, <1>2, <1>3 DEF GInv, TypeOK, Rewound
<1>9. Bounded'
  BY <1>1, <1>2, <1>4 DEF GInv, TypeOK, Rewound, Bounded, InBounds
<1>10. Linked'
  BY <1>1, <1>2, <1>3, <1>4, <1>5 DEF GInv, Linked
<1>11. Agreed'
  BY <1>1, <1>2, <1>3, <1>4, <1>5 DEF GInv, Agreed, Playing, InBounds
<1>. QED
  BY <1>6, <1>7, <1>8, <1>9, <1>10, <1>11 DEF GInv

\* remove and set_config.
LEMMA RemoveNullInv == GInv /\ RemoveNull => GInv'
<1>. SUFFICES ASSUME GInv, RemoveNull PROVE GInv'
  OBVIOUS
<1>1. /\ up /\ pc.asio = "remove" /\ pc'.asio = "unref" /\ pc'.main = pc.main
      /\ pc' \in [asio : AsioLabels, main : MainLabels]
  BY AsioStep DEF GInv, RemoveNull, AsioLabels
<1>2. TypeOK'
  <2>1. << >> \in Seq(Message)
    OBVIOUS
  <2>. QED
    BY <1>1, <2>1 DEF GInv, RemoveNull, TypeOK, Message
<1>3. CommandOf' /\ Recorded' /\ Removed' /\ LifetimesNeedOverlap'
  BY <1>1
  DEF GInv, RemoveNull, CommandOf, Recorded, Removed, LifetimesNeedOverlap, ClearLabels,
      PlayLabels
<1>4. Rewound' /\ Bounded' /\ Linked'
  BY <1>1 DEF GInv, RemoveNull, Rewound, Bounded, Linked
<1>5. Agreed'
  BY <1>1 DEF GInv, RemoveNull, Agreed, Playing, InBounds
<1>. QED
  BY <1>2, <1>3, <1>4, <1>5 DEF GInv

LEMMA RemoveUnrefInv == GInv /\ RemoveUnref => GInv'
<1>. SUFFICES ASSUME GInv, RemoveUnref PROVE GInv'
  OBVIOUS
<1>1. /\ up /\ pc.asio = "unref" /\ pc'.asio = "idle" /\ pc'.main = pc.main
      /\ pc' \in [asio : AsioLabels, main : MainLabels]
  BY AsioStep DEF GInv, RemoveUnref, AsioLabels
<1>2. TypeOK'
  <2>1. << >> \in Seq(Message) /\ fault' \subseteq fault \cup {"disposed"}
    BY DEF RemoveUnref
  <2>. QED
    BY <1>1, <2>1 DEF GInv, RemoveUnref, TypeOK, Message, Faults
<1>3. CommandOf' /\ Recorded' /\ Removed' /\ LifetimesNeedOverlap'
  BY <1>1
  DEF GInv, RemoveUnref, CommandOf, Recorded, Removed, LifetimesNeedOverlap, ClearLabels,
      PlayLabels
<1>4. Rewound' /\ Bounded' /\ Linked'
  BY <1>1 DEF GInv, RemoveUnref, CommandOf, Recorded, Rewound, Bounded, Linked
<1>5. Agreed'
  BY <1>1 DEF GInv, RemoveUnref, Agreed
<1>. QED
  BY <1>2, <1>3, <1>4, <1>5 DEF GInv

LEMMA ConfigureInv == GInv /\ Configure => GInv'
<1>. SUFFICES ASSUME GInv, Configure PROVE GInv'
  OBVIOUS
<1>1. /\ up /\ pc.asio = "configure" /\ pc'.asio = "resume" /\ pc'.main = pc.main
      /\ pc' \in [asio : AsioLabels, main : MainLabels]
  BY AsioStep DEF GInv, Configure, AsioLabels
<1>2. TypeOK'
  BY <1>1 DEF GInv, Configure, TypeOK
<1>3. CommandOf' /\ Recorded' /\ Removed' /\ LifetimesNeedOverlap'
  BY <1>1
  DEF GInv, Configure, CommandOf, Recorded, Removed, LifetimesNeedOverlap, ClearLabels,
      PlayLabels
<1>4. Rewound' /\ Bounded'
  BY <1>1 DEF GInv, Configure, TypeOK, Rewound, Bounded
<1>5. Linked'
  <2>1. overlap \cap {"clear", "play", "remove"} = {} => pc.main = "idle"
    BY <1>1 DEF GInv, Removed
  <2>. QED
    BY <1>1, <2>1 DEF GInv, Configure, Linked
<1>6. Agreed'
  BY <1>1 DEF GInv, Configure, CommandOf, Agreed
<1>. QED
  BY <1>2, <1>3, <1>4, <1>5, <1>6 DEF GInv

\* What ClearPlayList ends with.
LEMMA DropAsioInv == GInv /\ Drop("asio") => GInv'
<1>. SUFFICES ASSUME GInv, Drop("asio") PROVE GInv'
  OBVIOUS
<1>1. /\ up /\ pc.asio = "drop" /\ pc'.asio = "relink" /\ pc'.main = pc.main
      /\ pc' \in [asio : AsioLabels, main : MainLabels]
  BY AsioStep DEF GInv, Drop, AsioLabels
<1>2. TypeOK'
  BY <1>1 DEF GInv, Drop, TypeOK
<1>3. CommandOf' /\ Recorded' /\ Removed' /\ LifetimesNeedOverlap'
  BY <1>1
  DEF GInv, Drop, CommandOf, Recorded, Removed, LifetimesNeedOverlap, ClearLabels,
      PlayLabels
<1>4. Rewound' /\ Bounded' /\ Linked'
  BY <1>1 DEF GInv, Drop, CommandOf, Recorded, Rewound, Bounded, Linked, ClearLabels
<1>5. Agreed'
  BY <1>1 DEF GInv, Drop, Agreed
<1>. QED
  BY <1>2, <1>3, <1>4, <1>5 DEF GInv

LEMMA RelinkAsioInv == GInv /\ Relink("asio") => GInv'
<1>. SUFFICES ASSUME GInv, Relink("asio") PROVE GInv'
  OBVIOUS
<1>1. /\ up /\ pc.asio = "relink" /\ pc'.asio = "resume" /\ pc'.main = pc.main
      /\ pc' \in [asio : AsioLabels, main : MainLabels]
  BY AsioStep DEF GInv, Relink, AsioLabels
<1>2. /\ UNCHANGED <<playlist, location, held, found, stream, locals, overlap>>
      /\ \/ source = "gap" /\ source' = "test" /\ UNCHANGED <<up, fault>>
         \/ source # "gap" /\ source' = source /\ up' = FALSE /\ fault' = fault \cup {"link"}
  BY DEF Relink, Abort
<1>3. /\ fault \subseteq fault' /\ fault' \subseteq fault \cup {"link"}
      /\ "link" \in fault' => "link" \in fault \/ source # "gap"
      /\ up' \in BOOLEAN /\ (up' => source' = "test")
      /\ source = "none" <=> source' = "none"
  BY <1>1, <1>2
<1>4. TypeOK'
  BY <1>1, <1>2, <1>3 DEF GInv, TypeOK, Faults
<1>5. CommandOf' /\ Recorded' /\ Removed' /\ LifetimesNeedOverlap'
  BY <1>1, <1>2, <1>3
  DEF GInv, CommandOf, Recorded, Removed, LifetimesNeedOverlap, ClearLabels, PlayLabels
<1>6. Rewound'
  BY <1>1, <1>2 DEF GInv, Rewound
<1>7. Bounded'
  BY <1>1, <1>2, <1>3 DEF GInv, Bounded
<1>8. Linked'
  <2>1. overlap \cap {"clear", "play", "remove"} = {} => pc.main = "idle"
    BY <1>1 DEF GInv, CommandOf, Recorded, ClearLabels, PlayLabels
  <2>. QED
    BY <1>1, <1>2, <1>3, <2>1 DEF GInv, Linked
<1>9. Agreed'
  BY <1>1, <1>2, <1>3 DEF GInv, Agreed
<1>. QED
  BY <1>4, <1>5, <1>6, <1>7, <1>8, <1>9 DEF GInv

LEMMA ResumeAsioInv == GInv /\ Resume("asio") => GInv'
<1>. SUFFICES ASSUME GInv, Resume("asio") PROVE GInv'
  OBVIOUS
<1>1. /\ up /\ pc.asio = "resume" /\ pc'.asio = "idle" /\ pc'.main = pc.main
      /\ pc' \in [asio : AsioLabels, main : MainLabels]
  BY AsioStep DEF GInv, Resume, AsioLabels
<1>2. TypeOK'
  BY <1>1 DEF GInv, Resume, TypeOK
<1>3. CommandOf' /\ Recorded' /\ Removed' /\ LifetimesNeedOverlap'
  BY <1>1
  DEF GInv, Resume, CommandOf, Recorded, Removed, LifetimesNeedOverlap, ClearLabels,
      PlayLabels
<1>4. Rewound' /\ Bounded' /\ Linked'
  BY <1>1 DEF GInv, Resume, Rewound, Bounded, Linked
<1>5. Agreed'
  BY <1>1 DEF GInv, Resume, Recorded, Agreed, Playing, InBounds
<1>. QED
  BY <1>2, <1>3, <1>4, <1>5 DEF GInv

-----------------------------------------------------------------------------
\* bus_callback. The test of the index holds on as long as no clear or play does.
LEMMA EosTestInv == GInv /\ EosTest => GInv'
<1>. SUFFICES ASSUME GInv, EosTest PROVE GInv'
  OBVIOUS
<1>1. /\ up /\ pc.main = "eos" /\ pc'.main \in {"gc_halt", "skip_halt"} /\ pc'.asio = pc.asio
      /\ pc' \in [asio : AsioLabels, main : MainLabels]
  BY MainStep DEF GInv, EosTest, MainLabels
<1>2. TypeOK'
  BY <1>1 DEF GInv, EosTest, TypeOK
<1>3. CommandOf' /\ Recorded' /\ Removed' /\ LifetimesNeedOverlap'
  BY <1>1 DEF GInv, EosTest, CommandOf, Recorded, Removed, LifetimesNeedOverlap
<1>4. Rewound' /\ Linked'
  BY <1>1 DEF GInv, EosTest, Rewound, Linked
<1>5. Bounded'
  <2>1. pc'.main = "skip_halt" => current_file_index + 1 # Len(filelist)
    BY <1>1 DEF EosTest, Step, GInv, TypeOK
  <2>2. overlap \cap {"clear", "play"} = {} => pc.asio # "rewind"
    BY <1>1 DEF GInv, CommandOf, Recorded, ClearLabels
  <2>. QED
    BY <1>1, <2>1, <2>2 DEF GInv, EosTest, TypeOK, Bounded
<1>6. Agreed'
  BY <1>1 DEF GInv, EosTest, Agreed, Playing, InBounds
<1>. QED
  BY <1>2, <1>3, <1>4, <1>5, <1>6 DEF GInv

LEMMA GstClearHaltInv == GInv /\ GstClearHalt => GInv'
<1>. SUFFICES ASSUME GInv, GstClearHalt PROVE GInv'
  OBVIOUS
<1>1. /\ up /\ pc.main = "gc_halt" /\ pc'.main = "gc_peek" /\ pc'.asio = pc.asio
      /\ pc' \in [asio : AsioLabels, main : MainLabels]
  BY MainStep DEF GInv, GstClearHalt, MainLabels
<1>2. TypeOK'
  BY <1>1, OutdatedType DEF GInv, GstClearHalt, SetReady, TypeOK, Message
<1>3. CommandOf' /\ Recorded' /\ Removed' /\ LifetimesNeedOverlap'
  BY <1>1, OutdatedType
  DEF GInv, GstClearHalt, SetReady, TypeOK, CommandOf, Recorded, Removed,
      LifetimesNeedOverlap
<1>4. Rewound' /\ Bounded' /\ Linked'
  BY <1>1 DEF GInv, GstClearHalt, Rewound, Bounded, Linked
<1>5. Agreed'
  BY <1>1 DEF GInv, GstClearHalt, Agreed, Playing, InBounds
<1>. QED
  BY <1>2, <1>3, <1>4, <1>5 DEF GInv

\* With no command under way what is not audiotestsrc is filesrc.
LEMMA GstClearPeekInv == GInv /\ GstClearPeek => GInv'
<1>. SUFFICES ASSUME GInv, GstClearPeek PROVE GInv'
  OBVIOUS
<1>1. /\ up /\ pc.main = "gc_peek" /\ pc'.main \in {"idle", "drop"} /\ pc'.asio = pc.asio
      /\ pc' \in [asio : AsioLabels, main : MainLabels]
  BY MainStep DEF GInv, GstClearPeek, MainLabels
<1>2. TypeOK'
  BY <1>1 DEF GInv, GstClearPeek, TypeOK
<1>3. CommandOf' /\ Recorded' /\ Removed' /\ LifetimesNeedOverlap'
  BY <1>1 DEF GInv, GstClearPeek, CommandOf, Recorded, Removed, LifetimesNeedOverlap
<1>4. Rewound' /\ Bounded'
  BY <1>1 DEF GInv, GstClearPeek, Rewound, Bounded
<1>5. Linked'
  <2>1. pc'.main = "drop" => source # "test"
    BY <1>1 DEF GstClearPeek, Step, GInv, TypeOK
  <2>2. overlap \cap {"clear", "play", "remove"} = {}
          => source # "none" /\ pc.asio \notin ClearLabels \cup PlayLabels
    BY <1>1 DEF GInv, Removed, CommandOf, Recorded, ClearLabels, PlayLabels
  <2>. QED
    BY <1>1, <2>1, <2>2 DEF GInv, GstClearPeek, TypeOK, Linked, ClearLabels, PlayLabels
<1>6. Agreed'
  BY <1>1 DEF GInv, GstClearPeek, Agreed, Playing, InBounds
<1>. QED
  BY <1>2, <1>3, <1>4, <1>5, <1>6 DEF GInv

\* The branch that plays the next file.
LEMMA SkipHaltInv == GInv /\ SkipHalt => GInv'
<1>. SUFFICES ASSUME GInv, SkipHalt PROVE GInv'
  OBVIOUS
<1>1. /\ up /\ pc.main = "skip_halt" /\ pc'.main = "skip_load" /\ pc'.asio = pc.asio
      /\ pc' \in [asio : AsioLabels, main : MainLabels]
  BY MainStep DEF GInv, SkipHalt, MainLabels
<1>2. TypeOK'
  BY <1>1, OutdatedType DEF GInv, SkipHalt, SetReady, TypeOK, Message
<1>3. CommandOf' /\ Recorded' /\ Removed' /\ LifetimesNeedOverlap'
  BY <1>1, OutdatedType
  DEF GInv, SkipHalt, SetReady, TypeOK, CommandOf, Recorded, Removed, LifetimesNeedOverlap
<1>4. Rewound' /\ Bounded' /\ Linked'
  BY <1>1 DEF GInv, SkipHalt, Rewound, Bounded, Linked
<1>5. Agreed'
  BY <1>1 DEF GInv, SkipHalt, SetReady, Agreed, Playing, InBounds
<1>. QED
  BY <1>2, <1>3, <1>4, <1>5 DEF GInv

LEMMA SkipLoadInv == GInv /\ SkipLoad => GInv'
<1>. SUFFICES ASSUME GInv, SkipLoad PROVE GInv'
  OBVIOUS
<1>1. /\ up /\ pc.main = "skip_load" /\ pc'.main = "skip_store" /\ pc'.asio = pc.asio
      /\ pc' \in [asio : AsioLabels, main : MainLabels]
  BY MainStep DEF GInv, SkipLoad, MainLabels
<1>2. TypeOK'
  BY <1>1 DEF GInv, SkipLoad, TypeOK
<1>3. CommandOf' /\ Recorded' /\ Removed' /\ LifetimesNeedOverlap'
  BY <1>1 DEF GInv, SkipLoad, CommandOf, Recorded, Removed, LifetimesNeedOverlap
<1>4. Rewound' /\ Bounded' /\ Linked'
  BY <1>1 DEF GInv, SkipLoad, Rewound, Bounded, Linked
<1>5. Agreed'
  BY <1>1 DEF GInv, SkipLoad, Agreed, Playing, InBounds
<1>. QED
  BY <1>2, <1>3, <1>4, <1>5 DEF GInv

LEMMA SkipStoreInv == GInv /\ SkipStore => GInv'
<1>. SUFFICES ASSUME GInv, SkipStore PROVE GInv'
  OBVIOUS
<1>1. /\ up /\ pc.main = "skip_store" /\ pc'.main = "skip_find" /\ pc'.asio = pc.asio
      /\ pc' \in [asio : AsioLabels, main : MainLabels]
  BY MainStep DEF GInv, SkipStore, MainLabels
<1>2. TypeOK'
  BY <1>1 DEF GInv, SkipStore, TypeOK
<1>3. CommandOf' /\ Recorded' /\ Removed' /\ LifetimesNeedOverlap'
  BY <1>1 DEF GInv, SkipStore, CommandOf, Recorded, Removed, LifetimesNeedOverlap
<1>4. Rewound' /\ Bounded' /\ Linked'
  BY <1>1 DEF GInv, SkipStore, TypeOK, Rewound, Bounded, Linked
<1>5. Agreed'
  BY <1>1 DEF GInv, SkipStore, Agreed, Playing
<1>. QED
  BY <1>2, <1>3, <1>4, <1>5 DEF GInv

LEMMA SkipFindInv == GInv /\ SkipFind => GInv'
<1>. SUFFICES ASSUME GInv, SkipFind PROVE GInv'
  OBVIOUS
<1>1. /\ up /\ pc.main = "skip_find" /\ pc'.main = "skip_fetch" /\ pc'.asio = pc.asio
      /\ pc' \in [asio : AsioLabels, main : MainLabels]
  BY MainStep DEF GInv, SkipFind, MainLabels
<1>2. TypeOK'
  BY <1>1 DEF GInv, SkipFind, TypeOK
<1>3. CommandOf' /\ Recorded' /\ Removed' /\ LifetimesNeedOverlap'
  BY <1>1 DEF GInv, SkipFind, CommandOf, Recorded, Removed, LifetimesNeedOverlap
<1>4. Rewound' /\ Bounded' /\ Linked'
  BY <1>1 DEF GInv, SkipFind, Rewound, Bounded, Linked
<1>5. Agreed'
  BY <1>1 DEF GInv, SkipFind, Agreed, Playing
<1>. QED
  BY <1>2, <1>3, <1>4, <1>5 DEF GInv

\* The index is within the list, or that is a fault.
LEMMA SkipFetchInv == GInv /\ SkipFetch => GInv'
<1>. SUFFICES ASSUME GInv, SkipFetch PROVE GInv'
  OBVIOUS
<1>1. /\ up /\ pc.main = "skip_fetch" /\ pc'.main = "skip_set" /\ pc'.asio = pc.asio
      /\ pc' \in [asio : AsioLabels, main : MainLabels]
  BY MainStep DEF GInv, SkipFetch, MainLabels
<1>2. UNCHANGED <<playlist, elements, stream, cmd, pending, index, overlap>>
  BY DEF SkipFetch
<1>3. /\ fault \subseteq fault' /\ fault' \subseteq fault \cup {"bounds"}
      /\ "bounds" \in fault' => "bounds" \in fault \/ ~InBounds(current_file_index)
      /\ up' \in BOOLEAN
      /\ fault' = {} => /\ InBounds(current_file_index)
                        /\ name' = filelist[current_file_index + 1]
  BY <1>1 DEF SkipFetch
<1>4. TypeOK'
  <2>1. name' \in File \cup {Garbage}
    BY DEF SkipFetch, GInv, TypeOK, InBounds
  <2>. QED
    BY <1>1, <1>2, <1>3, <2>1 DEF GInv, TypeOK, Faults
<1>5. CommandOf' /\ Recorded' /\ Removed' /\ LifetimesNeedOverlap'
  BY <1>1, <1>2, <1>3
  DEF GInv, CommandOf, Recorded, Removed, LifetimesNeedOverlap, ClearLabels, PlayLabels
<1>6. Rewound'
  BY <1>1, <1>2 DEF GInv, Rewound
<1>7. Bounded'
  <2>1. overlap \cap {"clear", "play"} = {} => pc.asio # "rewind"
    BY <1>1 DEF GInv, CommandOf, Recorded, ClearLabels
  <2>. QED
    BY <1>1, <1>2, <1>3, <2>1 DEF GInv, TypeOK, Bounded, InBounds
<1>8. Linked'
  BY <1>1, <1>2, <1>3 DEF GInv, Linked
<1>9. Agreed'
  BY <1>1, <1>2, <1>3 DEF GInv, Agreed, Playing, InBounds
<1>. QED
  BY <1>4, <1>5, <1>6, <1>7, <1>8, <1>9 DEF GInv

LEMMA SkipSetInv == GInv /\ SkipSet => GInv'
<1>. SUFFICES ASSUME GInv, SkipSet PROVE GInv'
  OBVIOUS
<1>1. /\ up /\ pc.main = "skip_set" /\ pc'.main = "skip_resume" /\ pc'.asio = pc.asio
      /\ pc' \in [asio : AsioLabels, main : MainLabels]
  BY MainStep DEF GInv, SkipSet, MainLabels
<1>2. TypeOK'
  BY <1>1 DEF GInv, SkipSet, TypeOK
<1>3. CommandOf' /\ Recorded' /\ Removed' /\ LifetimesNeedOverlap'
  BY <1>1 DEF GInv, SkipSet, CommandOf, Recorded, Removed, LifetimesNeedOverlap
<1>4. Rewound' /\ Bounded' /\ Linked'
  BY <1>1 DEF GInv, SkipSet, Rewound, Bounded, Linked
<1>5. Agreed'
  BY <1>1 DEF GInv, SkipSet, Agreed, Playing, InBounds
<1>. QED
  BY <1>2, <1>3, <1>4, <1>5 DEF GInv

\* What GstClear ends with.
LEMMA DropMainInv == GInv /\ Drop("main") => GInv'
<1>. SUFFICES ASSUME GInv, Drop("main") PROVE GInv'
  OBVIOUS
<1>1. /\ up /\ pc.main = "drop" /\ pc'.main = "relink" /\ pc'.asio = pc.asio
      /\ pc' \in [asio : AsioLabels, main : MainLabels]
  BY MainStep DEF GInv, Drop, MainLabels
<1>2. TypeOK'
  BY <1>1 DEF GInv, Drop, TypeOK
<1>3. CommandOf' /\ Recorded' /\ Removed' /\ LifetimesNeedOverlap'
  BY <1>1 DEF GInv, Drop, CommandOf, Recorded, Removed, LifetimesNeedOverlap
<1>4. Rewound' /\ Bounded' /\ Linked'
  BY <1>1 DEF GInv, Drop, CommandOf, Recorded, Rewound, Bounded, Linked, ClearLabels
<1>5. Agreed'
  BY <1>1 DEF GInv, Drop, Agreed
<1>. QED
  BY <1>2, <1>3, <1>4, <1>5 DEF GInv

LEMMA RelinkMainInv == GInv /\ Relink("main") => GInv'
<1>. SUFFICES ASSUME GInv, Relink("main") PROVE GInv'
  OBVIOUS
<1>1. /\ up /\ pc.main = "relink" /\ pc'.main = "resume" /\ pc'.asio = pc.asio
      /\ pc' \in [asio : AsioLabels, main : MainLabels]
  BY MainStep DEF GInv, Relink, MainLabels
<1>2. /\ UNCHANGED <<playlist, location, held, found, stream, locals, overlap>>
      /\ \/ source = "gap" /\ source' = "test" /\ UNCHANGED <<up, fault>>
         \/ source # "gap" /\ source' = source /\ up' = FALSE /\ fault' = fault \cup {"link"}
  BY DEF Relink, Abort
<1>3. /\ fault \subseteq fault' /\ fault' \subseteq fault \cup {"link"}
      /\ "link" \in fault' => "link" \in fault \/ source # "gap"
      /\ up' \in BOOLEAN /\ (up' => source' = "test")
      /\ source = "none" <=> source' = "none"
  BY <1>1, <1>2
<1>4. TypeOK'
  BY <1>1, <1>2, <1>3 DEF GInv, TypeOK, Faults
<1>5. CommandOf' /\ Recorded' /\ Removed' /\ LifetimesNeedOverlap'
  BY <1>1, <1>2, <1>3
  DEF GInv, CommandOf, Recorded, Removed, LifetimesNeedOverlap, ClearLabels, PlayLabels
<1>6. Rewound'
  BY <1>1, <1>2 DEF GInv, Rewound
<1>7. Bounded'
  BY <1>1, <1>2, <1>3 DEF GInv, Bounded
<1>8. Linked'
  <2>1. overlap \cap {"clear", "play", "remove"} = {} => pc.asio \notin ClearLabels \cup PlayLabels
    BY <1>1 DEF GInv, CommandOf, Recorded, ClearLabels, PlayLabels
  <2>. QED
    BY <1>1, <1>2, <1>3, <2>1 DEF GInv, Linked, ClearLabels, PlayLabels
<1>9. Agreed'
  BY <1>1, <1>2, <1>3 DEF GInv, Agreed
<1>. QED
  BY <1>4, <1>5, <1>6, <1>7, <1>8, <1>9 DEF GInv

LEMMA ResumeMainInv == GInv /\ Resume("main") => GInv'
<1>. SUFFICES ASSUME GInv, Resume("main") PROVE GInv'
  OBVIOUS
<1>1. /\ up /\ pc.main \in {"resume", "skip_resume"} /\ pc'.main = "idle" /\ pc'.asio = pc.asio
      /\ pc' \in [asio : AsioLabels, main : MainLabels]
  BY MainStep DEF GInv, Resume, MainLabels
<1>2. TypeOK'
  BY <1>1 DEF GInv, Resume, TypeOK
<1>3. CommandOf' /\ Recorded' /\ Removed' /\ LifetimesNeedOverlap'
  BY <1>1 DEF GInv, Resume, CommandOf, Recorded, Removed, LifetimesNeedOverlap
<1>4. Rewound' /\ Bounded' /\ Linked'
  BY <1>1 DEF GInv, Resume, Rewound, Bounded, Linked
<1>5. Agreed'
  BY <1>1 DEF GInv, Resume, Agreed, Playing, InBounds
<1>. QED
  BY <1>2, <1>3, <1>4, <1>5 DEF GInv

-----------------------------------------------------------------------------
\* A command arrives.
LEMMA BeginInv ==
  ASSUME GInv, NEW c \in Commands, NEW list \in Seq(File), Begin(c, list)
  PROVE  GInv'
<1>1. /\ up /\ fault = {} /\ pc.asio = "idle" /\ pc'.asio = c /\ pc'.main = pc.main
      /\ pc' \in [asio : AsioLabels, main : MainLabels]
      /\ cmd' = c /\ pending' = list
      /\ UNCHANGED <<playlist, elements, stream, up, index, name, fault>>
  BY DEF Begin, GInv, TypeOK, Commands, AsioLabels
<1>2. /\ c \in {"clear", "play", "remove"} => source # "none"
      /\ c = "configure" => source = "none"
      /\ c = "append" => list # << >>
      /\ overlap \subseteq overlap' /\ overlap' \subseteq overlap \cup {c}
      /\ pc.main # "idle" => c \in overlap'
  BY DEF Begin
<1>3. TypeOK'
  BY <1>1, <1>2 DEF GInv, TypeOK
<1>4. CommandOf' /\ Recorded' /\ Removed' /\ LifetimesNeedOverlap'
  BY <1>1, <1>2
  DEF GInv, Commands, CommandOf, Recorded, Removed, LifetimesNeedOverlap, ClearLabels, PlayLabels
<1>5. Rewound' /\ Bounded' /\ Linked'
  BY <1>1, <1>2 DEF GInv, Commands, Rewound, Bounded, Linked
<1>6. Agreed'
  BY <1>1, <1>2 DEF GInv, Commands, Agreed, Playing, InBounds
<1>. QED
  BY <1>3, <1>4, <1>5, <1>6 DEF GInv

\* bus_callback gets a message; a pipeline it can come from is there.
LEMMA DispatchInv == GInv /\ Dispatch => GInv'
<1>. SUFFICES ASSUME GInv, Dispatch PROVE GInv'
  OBVIOUS
<1>1. /\ up /\ fault = {} /\ pc.main = "idle" /\ bus # << >> /\ bus' = Tail(bus)
      /\ UNCHANGED <<playlist, source, location, found, state, ended, up, locals, fault>>
      /\ pc'.asio = pc.asio /\ pc'.main \in {"idle", "eos"}
      /\ pc' \in [asio : AsioLabels, main : MainLabels]
  BY DEF Dispatch, GInv, TypeOK, MainLabels
<1>2. /\ overlap \subseteq overlap' /\ overlap' \subseteq overlap \cup {cmd}
      /\ pc'.main = "eos" => held' = (source # "none") /\ (pc.asio # "idle" => cmd \in overlap')
      /\ held' \in BOOLEAN
  BY <1>1 DEF Dispatch, GInv, TypeOK
<1>3. bus' \in Seq(Message) /\ source # "none"
  BY <1>1 DEF GInv, TypeOK, Message, Removed
<1>4. TypeOK'
  BY <1>1, <1>2, <1>3 DEF GInv, TypeOK
<1>5. CommandOf' /\ Recorded' /\ Removed' /\ LifetimesNeedOverlap'
  BY <1>1, <1>2, <1>3
  DEF GInv, CommandOf, Recorded, Removed, LifetimesNeedOverlap, ClearLabels, PlayLabels
<1>6. Rewound' /\ Bounded' /\ Linked'
  BY <1>1, <1>2 DEF GInv, Rewound, Bounded, Linked
<1>7. Agreed'
  BY <1>1, <1>2 DEF GInv, Agreed, Playing, InBounds
<1>. QED
  BY <1>4, <1>5, <1>6, <1>7 DEF GInv

\* The handler has lost its pipeline to a remove.
LEMMA UseFreedInv == GInv /\ UseFreed => GInv'
<1>. SUFFICES ASSUME GInv, UseFreed PROVE GInv'
  OBVIOUS
<1>1. /\ up' = FALSE /\ fault' = fault \cup {"freed"}
      /\ UNCHANGED <<playlist, elements, stream, pc, locals, overlap>>
      /\ pc.main # "idle" /\ (source = "none" \/ ~held)
  BY DEF UseFreed, Abort, Lost
<1>2. TypeOK'
  BY <1>1 DEF GInv, TypeOK, Faults
<1>3. CommandOf' /\ Recorded' /\ Removed' /\ LifetimesNeedOverlap'
  BY <1>1 DEF GInv, CommandOf, Recorded, Removed, LifetimesNeedOverlap
<1>4. Rewound' /\ Bounded' /\ Linked' /\ Agreed'
  BY <1>1 DEF GInv, Rewound, Bounded, Linked, Agreed
<1>. QED
  BY <1>2, <1>3, <1>4 DEF GInv

\* The pipeline ends a run.
LEMMA EndOfRunInv == GInv /\ EndOfRun => GInv'
<1>. SUFFICES ASSUME GInv, EndOfRun PROVE GInv'
  OBVIOUS
<1>1. /\ source = "file" /\ ended' = TRUE
      /\ UNCHANGED <<playlist, elements, state, up, pc, locals, history>>
  BY DEF EndOfRun
<1>2. bus' \in Seq(Message)
  <2>1. PICK kind \in {"eos", "error"} : bus' = Append(bus, [kind |-> kind, stale |-> FALSE])
    BY DEF EndOfRun
  <2>. QED
    BY <2>1 DEF GInv, TypeOK, Message
<1>3. TypeOK'
  BY <1>1, <1>2 DEF GInv, TypeOK, Message
<1>4. CommandOf' /\ Recorded' /\ Removed' /\ LifetimesNeedOverlap'
  BY <1>1 DEF GInv, CommandOf, Recorded, Removed, LifetimesNeedOverlap
<1>5. Rewound' /\ Bounded' /\ Linked' /\ Agreed'
  BY <1>1 DEF GInv, Rewound, Bounded, Linked, Agreed, Playing, InBounds
<1>. QED
  BY <1>3, <1>4, <1>5 DEF GInv

-----------------------------------------------------------------------------
\* The invariant holds at first and at every step, and so always.
LEMMA InitGInv == Init => GInv
<1>. SUFFICES ASSUME Init PROVE GInv
  OBVIOUS
<1>1. pc.asio = "idle" /\ pc.main = "idle" /\ pc \in [asio : AsioLabels, main : MainLabels]
  BY DEF Init, AsioLabels, MainLabels
<1>2. filelist \in Seq(File) /\ pending \in Seq(File) /\ bus \in Seq(Message)
  BY DEF Init
<1>3. fault \subseteq Faults /\ overlap \subseteq Commands /\ cmd \in Commands
  BY DEF Init, Commands
<1>4. TypeOK
  <2>1. /\ current_file_index \in Int /\ index \in Int
        /\ source = "test" /\ state = "PLAYING" /\ location = NoFile /\ name = NoFile
        /\ held = FALSE /\ found = FALSE /\ ended = FALSE /\ up = TRUE
    BY DEF Init
  <2>. QED
    BY <1>1, <1>2, <1>3, <2>1 DEF TypeOK, Message
<1>5. Len(filelist) = 0
  BY DEF Init
<1>. QED
  BY <1>1, <1>4, <1>5
  DEF Init, GInv, CommandOf, Recorded, Removed, LifetimesNeedOverlap, Rewound, Bounded, Linked,
      Agreed, ClearLabels, PlayLabels

LEMMA NextGInv == GInv /\ [Next]_vars => GInv'
<1>. SUFFICES ASSUME GInv, [Next]_vars PROVE GInv'
  OBVIOUS
<1>1. CASE Request
  <2>1. CASE \E c \in Commands \ {"append"} : Begin(c, << >>)
    <3>1. << >> \in Seq(File)
      OBVIOUS
    <3>. QED
      BY <2>1, <3>1, BeginInv
  <2>2. CASE \E list \in Requests : Begin("append", list)
    BY <2>2, BeginInv, CoreAssumption DEF Commands
  <2>. QED
    BY <1>1, <2>1, <2>2 DEF Request
<1>2. CASE Asio
  BY <1>2, ClearListInv, RewindInv, ClearPeekInv, ClearHaltInv, AppandPlayListInv, PlayTestInv,
     PlayIndexInv, PlayHaltInv, PlayPeekInv, PlayDropInv, PlayLinkInv, RemoveNullInv,
     RemoveUnrefInv, ConfigureInv, DropAsioInv, RelinkAsioInv, ResumeAsioInv
  DEF Asio
<1>3. CASE Main
  BY <1>3, DispatchInv, EosTestInv, GstClearHaltInv, GstClearPeekInv, SkipHaltInv, SkipLoadInv,
     SkipStoreInv, SkipFindInv, SkipFetchInv, SkipSetInv, DropMainInv, RelinkMainInv,
     ResumeMainInv, UseFreedInv
  DEF Main
<1>4. CASE EndOfRun
  BY <1>4, EndOfRunInv
<1>5. CASE UNCHANGED vars
  <2>1. UNCHANGED <<playlist, elements, stream, up, pc, locals, history>>
    BY <1>5 DEF vars
  <2>2. TypeOK' /\ CommandOf' /\ Recorded' /\ Removed' /\ LifetimesNeedOverlap'
    BY <2>1 DEF GInv, TypeOK, CommandOf, Recorded, Removed, LifetimesNeedOverlap
  <2>3. Rewound' /\ Bounded' /\ Linked' /\ Agreed'
    BY <2>1 DEF GInv, Rewound, Bounded, Linked, Agreed, Playing, InBounds
  <2>. QED
    BY <2>2, <2>3 DEF GInv
<1>. QED
  BY <1>1, <1>2, <1>3, <1>4, <1>5 DEF Next, Over

LEMMA SpecGInv == Spec => []GInv
  BY InitGInv, NextGInv, PTL DEF Spec

-----------------------------------------------------------------------------
\* The core, the pipeline and what each thread has in hand keep their types at
\* every statement.
THEOREM CoreTypeCorrect == Spec => []TypeOK
  BY SpecGInv, PTL DEF GInv

\* bus_callback and PlayFile read filelist out of bounds only when a clear or a
\* play meets an EOS.
THEOREM CoreBounds == Spec => []BoundsNeedOverlap
<1>1. GInv => BoundsNeedOverlap
  BY DEF GInv, Bounded, BoundsNeedOverlap
<1>. QED
  BY <1>1, SpecGInv, PTL

\* The g_error after a failed gst_element_link needs a clear, a play or a remove
\* that meets an EOS.
THEOREM CoreLinks == Spec => []LinkNeedsOverlap
<1>1. GInv => LinkNeedsOverlap
  BY DEF GInv, Linked, LinkNeedsOverlap
<1>. QED
  BY <1>1, SpecGInv, PTL

\* Names are freed under the handler only by a clear or an append that meets it,
\* the pipeline only by a remove.
THEOREM CoreLifetimes == Spec => []LifetimesNeedOverlap
  BY SpecGInv, PTL DEF GInv

\* PlayFile, at an index of -1, finds audiotestsrc in every interleaving.
THEOREM CorePlayFindsSilence == Spec => []PlayFindsSilence
<1>1. GInv => PlayFindsSilence
  BY DEF GInv, Rewound, PlayFindsSilence
<1>. QED
  BY <1>1, SpecGInv, PTL

\* Once the handlers have returned, filesrc has the file the index names, unless
\* PlayFile met an EOS.
THEOREM CoreAgreement == Spec => []ListAndFilesrcAgree
<1>1. GInv => ListAndFilesrcAgree
  BY DEF GInv, Agreed, Playing, ListAndFilesrcAgree, Quiet
<1>. QED
  BY <1>1, SpecGInv, PTL

=============================================================================

---------------------------- MODULE ToolRouting -----------------------------
(***************************************************************************)
(* Which pipeline a tool request reaches.  HmpServer::proc runs the        *)
(* requests of all connections one after the other on the asio thread;     *)
(* two tables outlive them:                                                *)
(*                                                                         *)
(*   tool_req_list  the set_config that made the sender a tool sends by    *)
(*   CoreList       the GstreamerCore of a tool, never taken out again     *)
(*                                                                         *)
(* A core's pipeline is a raw pointer: remove frees it, and neither table  *)
(* forgets it.                                                             *)
(***************************************************************************)
EXTENDS Naturals

CONSTANTS
  Tool,    \* tool ids, all below the 10000 of the two arrays
  NoTool,  \* a null entry of tool_req_list
  Codec,   \* values of decoder.type
  AMR_NB   \* the one GetCommandSender knows

ASSUME ToolAssumption ==
  /\ NoTool \notin Tool
  /\ AMR_NB \in Codec

VARIABLES
  tool_req_list,  \* the tool_id of the set_config kept for each tool
  core,           \* CoreList: what the pipeline of each tool is
  fault,          \* what ended the process, or the sense of going on
  careless        \* history: what clients did that they should not

vars == <<tool_req_list, core, fault, careless>>

Alive == {"sender", "receiver"}

Init ==
  /\ tool_req_list = [n \in Tool |-> NoTool]
  /\ core = [n \in Tool |-> "none"]
  /\ fault = "none"
  /\ careless = {}

Note(what, holds) == careless' = IF holds THEN careless \cup {what} ELSE careless

-----------------------------------------------------------------------------
\* The codecs for which GetCommandSender writes a description of a pipeline; for
\* any other it is empty, gst_parse_launch returns NULL and g_assert aborts.
GetCommandSender(codec) == codec = AMR_NB

\* A sender for n and a receiver, on its socket, for the backend tool.  Cores are
\* made where there are none, a pipeline that is already there is overwritten,
\* neither stopped nor freed.
MakePipelines(n, backend) == core' = [core EXCEPT ![n] = "sender", ![backend] = "receiver"]

\* Mutant: the request is entered for the backend tool.
FirstConfigMixedUp(n, backend, codec) ==
  /\ fault = "none" /\ GetCommandSender(codec)
  /\ MakePipelines(n, backend)
  /\ tool_req_list' = [tool_req_list EXCEPT ![n] = backend]
  /\ Note("taken", core[n] \in Alive \/ core[backend] \in Alive)
  /\ UNCHANGED fault

\* Mutant: the core of the sender is made only after the table is filled in.
FirstConfigLate(n, backend, codec) ==
  /\ fault = "none"
  /\ tool_req_list' = [tool_req_list EXCEPT ![n] = n]
  /\ Note("taken", core[n] \in Alive \/ core[backend] \in Alive)
  /\ IF GetCommandSender(codec)
       THEN MakePipelines(n, backend) /\ UNCHANGED fault
       ELSE UNCHANGED <<core, fault>>

\* set_config without dst_tool_ids.
FirstConfig(n, backend, codec) ==
  /\ fault = "none"
  /\ Note("taken", core[n] \in Alive \/ core[backend] \in Alive)
  /\ IF GetCommandSender(codec)
       THEN /\ MakePipelines(n, backend)
            /\ tool_req_list' = [tool_req_list EXCEPT ![n] = n]
            /\ UNCHANGED fault
       ELSE fault' = "codec" /\ UNCHANGED <<core, tool_req_list>>

\* set_config with dst_tool_ids, or of a file_reader: n sends by what dst sends
\* by, even if that is nothing.
ShareConfig(n, dst) ==
  /\ fault = "none"
  /\ tool_req_list' = [tool_req_list EXCEPT ![n] = tool_req_list[dst]]
  /\ UNCHANGED <<core, fault, careless>>

-----------------------------------------------------------------------------
\* A command on the pipeline of a core: without a core HmpParser returns, a
\* receiver has no audioconvert to link to, a freed pipeline is used.
Reach(kind) ==
  fault' = CASE kind \in {"none", "sender"} -> "none"
             [] kind = "receiver" -> "receiver"
             [] kind = "freed" -> "freed"

\* Without a set_config tool_id is null, and as_integer throws json_exception,
\* which nothing on the asio thread catches.
Unrouted(n) ==
  /\ fault = "none"
  /\ tool_req_list[n] = NoTool
  /\ fault' = "unrouted"
  /\ UNCHANGED <<tool_req_list, core, careless>>

\* play_list_clear uses the pipeline, and so does play if there is something to
\* play.  A play_list_append, and a play of nothing, touch neither pipeline nor
\* tables: they are stuttering steps here.
Command(n) ==
  /\ fault = "none"
  /\ tool_req_list[n] # NoTool
  /\ Reach(core[tool_req_list[n]])
  /\ UNCHANGED <<tool_req_list, core, careless>>

\* Without a core nothing happens; a pipeline is freed, a freed one once more.
PlayRemove(n) ==
  /\ core' = [core EXCEPT ![n] = IF @ = "none" THEN @ ELSE "freed"]
  /\ fault' = IF core[n] = "freed" THEN "freed" ELSE "none"

\* What is wrong with removing n now.
Wrongs(n) ==
  (IF core[n] = "freed" THEN {"again"} ELSE {})
    \cup (IF \E m \in Tool \ {n} : tool_req_list[m] = n THEN {"orphan"} ELSE {})

\* Mutant: the entry of the tool is kept.
RemoveToolKeepsRequest(n) ==
  /\ fault = "none"
  /\ PlayRemove(n)
  /\ careless' = careless \cup Wrongs(n)
  /\ UNCHANGED tool_req_list

\* Mutant: the test for a missing core is dropped.
RemoveToolUnchecked(n) ==
  /\ fault = "none"
  /\ core' = [core EXCEPT ![n] = "freed"]
  /\ fault' = CASE core[n] \in Alive -> "none" [] core[n] = "freed" -> "freed"
                 [] core[n] = "none" -> "null"
  /\ tool_req_list' = [tool_req_list EXCEPT ![n] = NoTool]
  /\ UNCHANGED careless

\* The pipeline of n itself goes, whoever else sends by it; the entries of
\* those are left.
RemoveTool(n) ==
  /\ fault = "none"
  /\ PlayRemove(n)
  /\ careless' = careless \cup Wrongs(n)
  /\ tool_req_list' = [tool_req_list EXCEPT ![n] = NoTool]

Over == fault # "none" /\ UNCHANGED vars

Next ==
  \/ \E n, b \in Tool : \E codec \in Codec : n # b /\ FirstConfig(n, b, codec)
  \/ \E n, d \in Tool : ShareConfig(n, d)
  \/ \E n \in Tool : Unrouted(n) \/ Command(n) \/ RemoveTool(n)
  \/ Over

Spec == Init /\ [][Next]_vars

-----------------------------------------------------------------------------
\* The two tables hold what they may hold.
TypeOK ==
  /\ tool_req_list \in [Tool -> Tool \cup {NoTool}]
  /\ core \in [Tool -> {"none", "sender", "receiver", "freed"}]
  /\ fault \in {"none", "codec", "unrouted", "receiver", "freed"}
  /\ careless \subseteq {"taken", "again", "orphan"}

\* A command that has an entry in tool_req_list finds a core in CoreList: the
\* "if(!core) return" of HmpParser is never what answers it, however entries
\* are copied, overwritten and removed.
RouteHasCore ==
  \A n \in Tool : tool_req_list[n] # NoTool => core[tool_req_list[n]] # "none"

\* As long as no client takes a tool id that is in use or removes a sender
\* others send by, every entry leads to a live sender: sharing may go on through
\* any number of tools, and removing a tool twice does no harm to the others.
CarefulClientsReachSenders ==
  careless \cap {"taken", "orphan"} = {} =>
    \A n \in Tool : tool_req_list[n] # NoTool => core[tool_req_list[n]] = "sender"

\* A freed pipeline is used only after a client removed a tool twice or removed
\* a sender others send by.
FreedNeedsRemoval == fault = "freed" => careless \cap {"again", "orphan"} # {}

\* A play-list command reaches a receiver only after a client took an id in use
\* or removed a sender others send by.
ReceiverNeedsMixup == fault = "receiver" => careless \cap {"taken", "orphan"} # {}

\* What the list of possible codecs above GetCommandSender says: none of them
\* aborts the process.
CodecsAccepted == fault # "codec"

=============================================================================

-------------------------- MODULE ToolRoutingProofs -------------------------
(***************************************************************************)
(* The properties of ToolRouting for any set of tools and codecs, finite   *)
(* or not.  A command goes wrong where the entry it follows leads, so that *)
(* the two properties of fault rest on two properties of the entries.      *)
(***************************************************************************)
EXTENDS ToolRouting, TLAPS

Entry(n) == tool_req_list[n] # NoTool

\* Without a removal that is one too many no entry leads to a freed pipeline.
NoEntryFreed ==
  careless \cap {"again", "orphan"} = {} =>
    \A n \in Tool : Entry(n) => core[tool_req_list[n]] # "freed"

IInv ==
  /\ TypeOK
  /\ RouteHasCore
  /\ CarefulClientsReachSenders
  /\ NoEntryFreed
  /\ FreedNeedsRemoval
  /\ ReceiverNeedsMixup

-----------------------------------------------------------------------------
\* Two empty tables satisfy all of it.
LEMMA InitIInv == Init => IInv
  BY ToolAssumption
  DEF Init, IInv, TypeOK, RouteHasCore, CarefulClientsReachSenders, NoEntryFreed,
      FreedNeedsRemoval, ReceiverNeedsMixup, Entry

\* A set_config makes a sender of a tool and a receiver of its backend; only an
\* id in use takes a sender away from an entry.
LEMMA FirstConfigIInv ==
  ASSUME NEW n \in Tool, NEW b \in Tool, NEW codec \in Codec, n # b,
         IInv, FirstConfig(n, b, codec)
  PROVE  IInv'
<1>. USE DEF IInv, Note, FirstConfig, GetCommandSender, MakePipelines
<1>1. TypeOK'
  BY ToolAssumption DEF TypeOK
<1>2. CASE codec = AMR_NB
  <2>1. /\ core' = [core EXCEPT ![n] = "sender", ![b] = "receiver"]
        /\ tool_req_list' = [tool_req_list EXCEPT ![n] = n]
        /\ fault' = "none"
    BY <1>2
  <2>2. \A m \in Tool : core'[m] = IF m = b THEN "receiver" ELSE IF m = n THEN "sender" ELSE core[m]
    BY <2>1 DEF TypeOK
  <2>3. \A m \in Tool : tool_req_list'[m] = IF m = n THEN n ELSE tool_req_list[m]
    BY <2>1 DEF TypeOK
  <2>4. \A m \in Tool : tool_req_list[m] # NoTool => tool_req_list[m] \in Tool
    BY DEF TypeOK
  <2>5. RouteHasCore'
    BY <2>2, <2>3, <2>4 DEF RouteHasCore
  <2>6. CarefulClientsReachSenders'
    BY <2>2, <2>3, <2>4 DEF CarefulClientsReachSenders, Alive
  <2>7. NoEntryFreed'
    BY <2>2, <2>3, <2>4 DEF NoEntryFreed, Entry
  <2>. QED
    BY <1>1, <2>1, <2>5, <2>6, <2>7 DEF FreedNeedsRemoval, ReceiverNeedsMixup
<1>3. CASE codec # AMR_NB
  BY <1>1, <1>3 DEF RouteHasCore, CarefulClientsReachSenders, NoEntryFreed, Entry,
                    FreedNeedsRemoval, ReceiverNeedsMixup
<1>. QED
  BY <1>2, <1>3

\* A copied entry leads where its original leads.
LEMMA ShareConfigIInv ==
  ASSUME NEW n \in Tool, NEW dst \in Tool, IInv, ShareConfig(n, dst)
  PROVE  IInv'
<1>. USE DEF IInv, ShareConfig
<1>1. TypeOK'
  BY DEF TypeOK
<1>2. \A m \in Tool : tool_req_list'[m] = IF m = n THEN tool_req_list[dst] ELSE tool_req_list[m]
  BY DEF TypeOK
<1>. QED
  BY <1>1, <1>2 DEF RouteHasCore, CarefulClientsReachSenders, NoEntryFreed, Entry,
                    FreedNeedsRemoval, ReceiverNeedsMixup

\* What a command meets is what its entry leads to.
LEMMA CommandIInv ==
  ASSUME NEW n \in Tool, IInv, Command(n)
  PROVE  IInv'
<1>. USE DEF IInv, Command
<1>1. tool_req_list[n] \in Tool
  BY DEF TypeOK
<1>2. core[tool_req_list[n]] \in {"none", "sender", "receiver", "freed"}
  BY <1>1 DEF TypeOK
<1>3. fault' = CASE core[tool_req_list[n]] \in {"none", "sender"} -> "none"
                 [] core[tool_req_list[n]] = "receiver" -> "receiver"
                 [] core[tool_req_list[n]] = "freed" -> "freed"
  BY DEF Reach
<1>4. TypeOK'
  BY <1>2, <1>3 DEF TypeOK
<1>5. FreedNeedsRemoval'
  BY <1>2, <1>3 DEF FreedNeedsRemoval, NoEntryFreed, Entry
<1>6. ReceiverNeedsMixup'
  BY <1>2, <1>3 DEF ReceiverNeedsMixup, CarefulClientsReachSenders
<1>. QED
  BY <1>4, <1>5, <1>6 DEF RouteHasCore, CarefulClientsReachSenders, NoEntryFreed, Entry

\* A remove frees the pipeline of one tool; entries that lead to it belong to
\* that tool or make the remove a careless one.
LEMMA RemoveToolIInv ==
  ASSUME NEW n \in Tool, IInv, RemoveTool(n)
  PROVE  IInv'
<1>. USE DEF IInv, RemoveTool, PlayRemove, Wrongs
<1>1. \A m \in Tool : core'[m] = IF m = n /\ core[n] # "none" THEN "freed" ELSE core[m]
  BY DEF TypeOK
<1>2. \A m \in Tool : tool_req_list'[m] = IF m = n THEN NoTool ELSE tool_req_list[m]
  BY DEF TypeOK
<1>3. /\ core[n] = "freed" => "again" \in careless'
      /\ (\E m \in Tool \ {n} : tool_req_list[m] = n) => "orphan" \in careless'
      /\ careless \subseteq careless'
  OBVIOUS
<1>4. \A m \in Tool : tool_req_list[m] # NoTool => tool_req_list[m] \in Tool
  BY DEF TypeOK
<1>5. TypeOK'
  BY DEF TypeOK
<1>6. RouteHasCore'
  BY <1>1, <1>2, <1>4 DEF RouteHasCore
<1>7. CarefulClientsReachSenders'
  BY <1>1, <1>2, <1>3, <1>4 DEF CarefulClientsReachSenders
<1>8. NoEntryFreed'
  BY <1>1, <1>2, <1>3, <1>4 DEF NoEntryFreed, Entry
<1>9. FreedNeedsRemoval' /\ ReceiverNeedsMixup'
  BY <1>3 DEF FreedNeedsRemoval, ReceiverNeedsMixup
<1>. QED
  BY <1>5, <1>6, <1>7, <1>8, <1>9

\* Every request, taken alone, keeps the invariant.
LEMMA NextIInv == IInv /\ [Next]_vars => IInv'
<1>. SUFFICES ASSUME IInv, [Next]_vars
              PROVE  IInv'
  OBVIOUS
<1>1. ASSUME NEW n \in Tool, Unrouted(n)
      PROVE  IInv'
  BY <1>1 DEF Unrouted, IInv, TypeOK, RouteHasCore, CarefulClientsReachSenders, NoEntryFreed,
              Entry, FreedNeedsRemoval, ReceiverNeedsMixup
<1>2. CASE UNCHANGED vars
  BY <1>2 DEF vars, IInv, TypeOK, RouteHasCore, CarefulClientsReachSenders, NoEntryFreed,
              Entry, FreedNeedsRemoval, ReceiverNeedsMixup
<1>. QED
  BY <1>1, <1>2, FirstConfigIInv, ShareConfigIInv, CommandIInv, RemoveToolIInv
  DEF Next, Over

\* The invariant holds of every reachable state.
LEMMA IInvHolds == Spec => []IInv
  BY InitIInv, NextIInv, PTL DEF Spec

-----------------------------------------------------------------------------
\* The tables and the history have their types.
THEOREM TypeCorrect == Spec => []TypeOK
<1>1. IInv => TypeOK
  BY DEF IInv
<1>. QED
  BY <1>1, IInvHolds, PTL

\* No routed command is answered by a null check of HmpParser.
THEOREM RouteCorrect == Spec => []RouteHasCore
<1>1. IInv => RouteHasCore
  BY DEF IInv
<1>. QED
  BY <1>1, IInvHolds, PTL

\* Clients that take free ids and remove a sender last always reach live senders.
THEOREM CarefulCorrect == Spec => []CarefulClientsReachSenders
<1>1. IInv => CarefulClientsReachSenders
  BY DEF IInv
<1>. QED
  BY <1>1, IInvHolds, PTL

\* A freed pipeline is used only after a remove that was one too many.
THEOREM FreedCorrect == Spec => []FreedNeedsRemoval
<1>1. IInv => FreedNeedsRemoval
  BY DEF IInv
<1>. QED
  BY <1>1, IInvHolds, PTL

\* A play-list command reaches a receiver only after ids were mixed up.
THEOREM ReceiverCorrect == Spec => []ReceiverNeedsMixup
<1>1. IInv => ReceiverNeedsMixup
  BY DEF IInv
<1>. QED
  BY <1>1, IInvHolds, PTL

=============================================================================

-------------------------- MODULE DtmfSenderProofs ---------------------------
(***************************************************************************)
(* What DtmfSender promises, for any number of streaming threads and of    *)
(* interrupts.  The invariant follows the one handler there is while none  *)
(* overlap through its statements: what it has read of the flag is still   *)
(* the flag, and the count of interrupts says on which branch it is.       *)
(***************************************************************************)
EXTENDS DtmfSender, TLAPS

\* Handlers overlap only if the history says so.
Alone == "overlap" \notin slips => \A t, u \in Active : t = u

\* Before the first interrupt nothing has moved.
Fresh == interrupts = 0 => Active = {} /\ sending_dtmf = FALSE /\ tone = FALSE

\* Interrupts before the loop are in the history.
Precocious ==
  /\ at = "reset" /\ "unset" \notin slips => interrupts = 0
  /\ at = "run" /\ "unset" \notin slips /\ "early" \notin slips => interrupts = 0

\* And so are the handlers that run once it has been left.
Belated == at \in {"stop", "free"} /\ Active # {} => "late" \in slips

\* And those on a thread that holds a lock.
Captive == inside # {} \/ (pc[main] # "idle" /\ at \in Locked) => "locked" \in slips

\* The first interrupt is alone, and not on the branch that quits.
First ==
  interrupts = 1 =>
    /\ \A t, u \in Active : t = u
    /\ \A t \in Thread : /\ pc[t] = "test" => sending_dtmf = FALSE
                         /\ pc[t] \in {"toggle", "send"} => stop[t] = FALSE
                         /\ pc[t] # "quit"

\* A handler that is alone knows the flag, and by its branch what it is; until it
\* sends, the digit follows the flag.
FlagKnown ==
  at \notin {"free", "done"} /\ "unset" \notin slips /\ "overlap" \notin slips =>
    /\ \A t \in Thread : /\ pc[t] \in {"toggle", "send"} => flag[t] = sending_dtmf
                         /\ pc[t] = "toggle" => stop[t] = sending_dtmf
                         /\ pc[t] = "send" => stop[t] = ~sending_dtmf
                         /\ pc[t] = "quit" => sending_dtmf = FALSE
    /\ (\A t \in Thread : pc[t] # "send") => tone = sending_dtmf

\* While the loop runs on, handlers that came one by one have not come more than
\* twice; the first has only set the flag, the second has found it set.
Branch ==
  main_loop = "running" /\ "unset" \notin slips /\ "early" \notin slips /\ "overlap" \notin slips =>
    /\ interrupts \in {0, 1, 2}
    /\ interrupts = 1 => \A t \in Thread :
         /\ pc[t] \in {"test", "toggle"} => sending_dtmf = FALSE
         /\ pc[t] \in {"toggle", "send"} => stop[t] = FALSE
         /\ pc[t] # "quit"
    /\ interrupts = 1 /\ (\A t \in Thread : pc[t] \notin {"test", "toggle"}) => sending_dtmf = TRUE
    /\ interrupts = 2 => Active # {} /\ \A t \in Thread :
         /\ pc[t] = "test" => sending_dtmf = TRUE
         /\ pc[t] \in {"toggle", "send"} => stop[t] = TRUE

DInv ==
  /\ TypeOK
  /\ Alone /\ Fresh /\ First
  /\ Precocious /\ Belated /\ Captive
  /\ FlagKnown /\ Branch
  /\ FaultsHaveCauses

-----------------------------------------------------------------------------
LEMMA InitDInv == Init => DInv
<1>. SUFFICES ASSUME Init PROVE DInv
  OBVIOUS
<1>1. Active = {}
  BY DEF Init, Active
<1>2. /\ pc \in [Thread -> {"idle", "test", "toggle", "send", "quit"}]
      /\ flag \in [Thread -> BOOLEAN] /\ stop \in [Thread -> BOOLEAN]
  BY DEF Init
<1>3. interrupts \in 0 .. MaxInterrupts /\ inside = {} /\ slips = {} /\ fault = "none"
  BY DtmfAssumption DEF Init
<1>4. at = "reset" /\ main_loop = "none" /\ sending_dtmf \in BOOLEAN /\ tone \in BOOLEAN
  BY DEF Init
<1>5. TypeOK
  BY <1>2, <1>3, <1>4 DEF TypeOK, Loop, Locked
<1>. QED
  BY <1>1, <1>5
  DEF Init, DInv, Alone, Fresh, First, Precocious, Belated, Captive, FlagKnown, Branch,
      FaultsHaveCauses, Locked

\* A step of main() finds no handler on its thread, and leaves the others alone.
LEMMA ProceedStep ==
  ASSUME NEW from, NEW to, DInv, Proceed(from, to), slips \subseteq slips'
  PROVE  /\ UNCHANGED <<pc, flag, stop, interrupts, inside, fault>> /\ Active' = Active
         /\ fault = "none" /\ pc[main] = "idle" /\ main \in Thread
         /\ Alone' /\ Captive' /\ FaultsHaveCauses'
<1>1. /\ UNCHANGED <<pc, flag, stop, interrupts, inside, fault>> /\ Active' = Active
      /\ fault = "none" /\ pc[main] = "idle" /\ main \in Thread
  BY DEF Proceed, Running, handlers, Active, Thread
<1>. QED
  BY <1>1 DEF DInv, Alone, Captive, FaultsHaveCauses

\* The statements of main() before the loop.
LEMMA BeginDInv == DInv /\ (Reset \/ Run) => DInv'
<1>. SUFFICES ASSUME DInv, Reset \/ Run PROVE DInv'
  OBVIOUS
<1>1. /\ UNCHANGED <<pc, flag, stop, interrupts, inside, fault, tone, slips>> /\ Active' = Active
      /\ Alone' /\ Captive' /\ FaultsHaveCauses'
  BY ProceedStep DEF Reset, Run
<1>2. \/ at = "reset" /\ at' = "run" /\ main_loop' = main_loop /\ sending_dtmf' = FALSE
      \/ at = "run" /\ at' = "again" /\ main_loop' = "running" /\ sending_dtmf' = sending_dtmf
  BY DEF Reset, Run, Proceed
<1>3. TypeOK'
  BY <1>1, <1>2 DEF DInv, TypeOK, Loop, Locked
<1>4. Fresh' /\ First' /\ Precocious' /\ Belated'
  BY <1>1, <1>2 DEF DInv, Fresh, First, Precocious, Belated
<1>5. FlagKnown'
  <2>1. CASE at = "reset"
    <3>. SUFFICES ASSUME "unset" \notin slips PROVE FlagKnown'
      BY <1>1 DEF FlagKnown
    <3>1. Active = {} /\ tone = FALSE
      BY <2>1 DEF DInv, Precocious, Fresh
    <3>2. \A t \in Thread : pc'[t] = "idle"
      BY <1>1, <3>1 DEF Active
    <3>. QED
      BY <1>1, <1>2, <2>1, <3>1, <3>2 DEF FlagKnown
  <2>2. CASE at = "run"
    BY <1>1, <1>2, <2>2 DEF DInv, FlagKnown
  <2>. QED
    BY <1>2, <2>1, <2>2
<1>6. Branch'
  BY <1>1, <1>2 DEF DInv, TypeOK, Branch, Fresh, Precocious, Active
<1>. QED
  BY <1>1, <1>3, <1>4, <1>5, <1>6 DEF DInv

\* An iteration of the loop.
LEMMA LoopDInv == DInv /\ (Prepare \/ Check \/ Dispatch \/ Dispatched) => DInv'
<1>. SUFFICES ASSUME DInv, Prepare \/ Check \/ Dispatch \/ Dispatched PROVE DInv'
  OBVIOUS
<1>1. /\ UNCHANGED <<pc, flag, stop, interrupts, inside, fault>> /\ Active' = Active
      /\ Alone' /\ Captive' /\ FaultsHaveCauses'
  BY ProceedStep DEF Prepare, Check, Dispatch, Dispatched
<1>2. UNCHANGED <<sending_dtmf, main_loop, tone, slips>> /\ at \in Loop /\ at' \in Loop
  BY DEF Prepare, Check, Dispatch, Dispatched, Proceed, Loop, Locked
<1>3. TypeOK'
  BY <1>1, <1>2 DEF DInv, TypeOK, Loop, Locked
<1>4. Fresh' /\ First' /\ Precocious' /\ Belated'
  BY <1>1, <1>2 DEF DInv, Fresh, First, Precocious, Belated, Loop, Locked
<1>5. FlagKnown' /\ Branch'
  BY <1>1, <1>2 DEF DInv, FlagKnown, Branch, Loop, Locked
<1>. QED
  BY <1>1, <1>3, <1>4, <1>5 DEF DInv

\* A message that ends the loop, and what follows it.
LEMMA EndDInv == DInv /\ (bus_call \/ LeaveLoop \/ Stop \/ Free) => DInv'
<1>. SUFFICES ASSUME DInv, bus_call \/ LeaveLoop \/ Stop \/ Free PROVE DInv'
  OBVIOUS
<1>1. slips \subseteq slips' /\ slips' \subseteq slips \cup {"late"}
  BY DEF bus_call, LeaveLoop, Stop, Free, Slip
<1>2. /\ UNCHANGED <<pc, flag, stop, interrupts, inside, fault, sending_dtmf>> /\ Active' = Active
      /\ Alone' /\ Captive' /\ FaultsHaveCauses'
  BY <1>1, ProceedStep DEF bus_call, LeaveLoop, Stop, Free
<1>3. main_loop' = "quit"
  BY DEF DInv, TypeOK, bus_call, LeaveLoop, Stop, Free, Proceed, Loop, Locked
<1>4. /\ at' \in {"again", "stop", "free", "done"}
      /\ at' \notin {"free", "done"} => at \notin {"free", "done"}
      /\ at' = "stop" => (Active # {} => "late" \in slips')
      /\ at' \in {"free", "done"} => Active \subseteq {main}
      /\ at' = "free" => Active = {}
      /\ tone' = tone \/ (tone' = FALSE /\ at' = "free")
      /\ interrupts = 0 => tone' = FALSE
  BY DEF DInv, TypeOK, Fresh, bus_call, LeaveLoop, Stop, Free, Proceed, Active, Slip
<1>5. TypeOK'
  BY <1>1, <1>2, <1>3, <1>4 DEF DInv, TypeOK, Loop, Locked
<1>6. Fresh' /\ First' /\ Precocious' /\ Belated'
  BY <1>1, <1>2, <1>4 DEF DInv, Fresh, First, Precocious, Belated
<1>7. FlagKnown' /\ Branch'
  BY <1>1, <1>2, <1>3, <1>4 DEF DInv, FlagKnown, Branch
<1>. QED
  BY <1>2, <1>5, <1>6, <1>7 DEF DInv

\* An interrupt that does not overlap finds every thread idle.
LEMMA InterruptDInv ==
  ASSUME NEW t \in Thread, DInv, Interrupt(t)
  PROVE  DInv'
<1>1. /\ UNCHANGED <<at, sending_dtmf, main_loop, tone, flag, stop, fault>>
      /\ Running /\ pc[t] = "idle" /\ (t # main => at # "free")
      /\ interrupts' = interrupts + 1 /\ interrupts < MaxInterrupts
      /\ pc' = [pc EXCEPT ![t] = "test"]
      /\ inside' = inside \/ inside' = inside \cup {t}
  BY DEF Interrupt
<1>2. /\ slips \subseteq slips' /\ slips' \subseteq {"unset", "early", "late", "overlap", "locked"}
      /\ at = "reset" => "unset" \in slips'
      /\ at = "run" => "early" \in slips'
      /\ at \in {"stop", "free"} => "late" \in slips'
      /\ Active # {} => "overlap" \in slips'
      /\ (t = main /\ at \in Locked) \/ t \in inside' => "locked" \in slips'
  BY DEF DInv, TypeOK, Interrupt, Slip
<1>3. Active' = Active \cup {t}
  BY <1>1 DEF DInv, TypeOK, Active
<1>4. interrupts \in Nat /\ interrupts + 1 # 0 /\ interrupts + 1 \in 0 .. MaxInterrupts
  BY <1>1, DtmfAssumption DEF DInv, TypeOK
<1>5. TypeOK'
  BY <1>1, <1>2, <1>3, <1>4 DEF DInv, TypeOK, Running
<1>6. Alone'
  BY <1>2, <1>3 DEF Alone
<1>7. Fresh' /\ First' /\ Precocious' /\ Belated' /\ Captive' /\ FaultsHaveCauses'
  <2>1. Fresh' /\ Precocious' /\ Belated'
    BY <1>1, <1>2, <1>4 DEF DInv, Fresh, Precocious, Belated
  <2>2. First'
    <3>. SUFFICES ASSUME interrupts' = 1 PROVE First'
      BY DEF First
    <3>1. Active = {} /\ sending_dtmf = FALSE
      BY <1>1, <1>4 DEF DInv, Fresh
    <3>2. \A u \in Thread : pc'[u] = IF u = t THEN "test" ELSE "idle"
      BY <1>1, <3>1 DEF DInv, TypeOK, Active
    <3>. QED
      BY <1>1, <1>3, <3>1, <3>2 DEF First
  <2>3. Captive'
    <3>1. t # main => pc'[main] = pc[main]
      BY <1>1 DEF DInv, TypeOK, Thread
    <3>2. inside' # {} => inside # {} \/ t \in inside'
      BY <1>1
    <3>. QED
      BY <1>1, <1>2, <3>1, <3>2 DEF DInv, Captive
  <2>4. FaultsHaveCauses'
    BY <1>1 DEF Running, FaultsHaveCauses
  <2>. QED
    BY <2>1, <2>2, <2>3, <2>4
<1>8. FlagKnown'
  BY <1>1, <1>2 DEF DInv, TypeOK, FlagKnown
<1>9. Branch'
  <2>. SUFFICES ASSUME main_loop = "running", "unset" \notin slips', "early" \notin slips',
                       "overlap" \notin slips'
                PROVE  Branch'
    BY <1>1 DEF Branch
  <2>1. Active = {} /\ \A u \in Thread : pc[u] = "idle"
    BY <1>2 DEF Active
  <2>2. interrupts \in {0, 1}
    BY <1>2, <2>1 DEF DInv, Branch
  <2>3. \A u \in Thread : pc'[u] = IF u = t THEN "test" ELSE "idle"
    BY <1>1, <2>1 DEF DInv, TypeOK
  <2>4. interrupts = 0 => sending_dtmf = FALSE
    BY DEF DInv, Fresh
  <2>5. interrupts = 1 => sending_dtmf = TRUE
    BY <1>2, <2>1 DEF DInv, Branch
  <2>6. /\ interrupts' \in {1, 2} /\ Active' # {}
        /\ interrupts' = 1 => sending_dtmf' = FALSE
        /\ interrupts' = 2 => sending_dtmf' = TRUE
    BY <1>1, <1>3, <2>2, <2>4, <2>5
  <2>. QED
    BY <2>3, <2>6 DEF Branch
<1>. QED
  BY <1>5, <1>6, <1>7, <1>8, <1>9 DEF DInv

-----------------------------------------------------------------------------
\* What a step of the handler on t does: the others stand, and were idle if none
\* overlap.
StepOf(t, from, to) ==
  /\ UNCHANGED <<at, interrupts, inside, slips>> /\ fault = "none"
  /\ pc' \in [Thread -> {"idle", "test", "toggle", "send", "quit"}]
  /\ pc[t] = from /\ pc'[t] = to
  /\ t \in Active /\ Active # {} /\ Active' \subseteq Active
  /\ \A u \in Thread \ {t} : pc'[u] = pc[u]
  /\ interrupts > 0 /\ interrupts # 0
  /\ at \in {"stop", "free"} => "late" \in slips
  /\ "overlap" \notin slips \/ interrupts = 1 =>
       \A u \in Thread \ {t} : pc[u] = "idle" /\ pc'[u] = "idle"

LEMMA HandleStep ==
  ASSUME NEW t \in Thread, NEW from, NEW to \in {"idle", "test", "toggle", "send", "quit"},
         DInv, Handle(t, from, to), from # "idle"
  PROVE  StepOf(t, from, to)
<1>1. /\ UNCHANGED <<at, interrupts, inside, slips>> /\ Running
      /\ pc[t] = from /\ pc' = [pc EXCEPT ![t] = to]
  BY DEF Handle
<1>2. t \in Active /\ Active' \subseteq Active
  BY <1>1 DEF DInv, TypeOK, Active
<1>3. interrupts > 0 /\ interrupts # 0
  BY <1>2, DtmfAssumption DEF DInv, TypeOK, Fresh
<1>4. at \in {"stop", "free"} => "late" \in slips
  BY <1>2 DEF DInv, Belated
<1>5. "overlap" \notin slips \/ interrupts = 1 =>
        \A u \in Thread \ {t} : pc[u] = "idle" /\ pc'[u] = "idle"
  BY <1>1, <1>2 DEF DInv, TypeOK, Alone, First, Active
<1>6. \A u \in Thread \ {t} : pc'[u] = pc[u]
  BY <1>1 DEF DInv, TypeOK
<1>. QED
  BY <1>1, <1>2, <1>3, <1>4, <1>5, <1>6 DEF DInv, TypeOK, StepOf, Running

\* What holds of the history holds after any step of a handler, and the types of
\* what it leaves alone.
LEMMA HandleHistory ==
  ASSUME NEW t \in Thread, NEW from, NEW to, from # "idle", DInv, StepOf(t, from, to)
  PROVE  Alone' /\ Fresh' /\ Precocious' /\ Belated' /\ Captive'
<1>1. Alone' /\ Fresh' /\ Precocious' /\ Belated'
  BY DEF StepOf, DInv, Alone, Fresh, Precocious, Belated
<1>2. pc'[main] # "idle" => pc[main] # "idle"
  BY DEF StepOf, Thread
<1>. QED
  BY <1>1, <1>2 DEF StepOf, DInv, Captive

LEMMA HandleType ==
  ASSUME NEW t \in Thread, NEW from, NEW to, DInv, StepOf(t, from, to),
         sending_dtmf' \in BOOLEAN, tone' \in BOOLEAN,
         flag' \in [Thread -> BOOLEAN], stop' \in [Thread -> BOOLEAN],
         main_loop' = main_loop \/ (main_loop = "running" /\ main_loop' = "quit"),
         fault' \in {"none", "freed", "state", "element", "context"}
  PROVE  TypeOK'
<1>1. at' \in {"free", "done"} => Active' \subseteq {main}
  BY DEF StepOf, DInv, TypeOK
<1>. QED
  BY <1>1 DEF StepOf, DInv, TypeOK, Loop, Locked

LEMMA TestDInv ==
  ASSUME NEW t \in Thread, DInv, Test(t)
  PROVE  DInv'
<1>1. /\ Handle(t, "test", "toggle")
      /\ flag' = [flag EXCEPT ![t] = sending_dtmf] /\ stop' = [stop EXCEPT ![t] = sending_dtmf]
      /\ UNCHANGED <<sending_dtmf, main_loop, tone, fault>>
  BY DEF Test
<1>2. StepOf(t, "test", "toggle")
  BY <1>1, HandleStep
<1>3. /\ sending_dtmf \in BOOLEAN /\ tone \in BOOLEAN
      /\ flag' \in [Thread -> BOOLEAN] /\ stop' \in [Thread -> BOOLEAN]
      /\ flag'[t] = sending_dtmf /\ stop'[t] = sending_dtmf
  BY <1>1 DEF DInv, TypeOK
<1>4. TypeOK' /\ FaultsHaveCauses'
  BY <1>1, <1>2, <1>3, HandleType DEF StepOf, DInv, TypeOK, FaultsHaveCauses
<1>5. First'
  BY <1>1, <1>2, <1>3 DEF StepOf, DInv, First
<1>6. FlagKnown'
  BY <1>1, <1>2, <1>3 DEF StepOf, DInv, FlagKnown
<1>7. Branch'
  BY <1>1, <1>2, <1>3 DEF StepOf, DInv, Branch, Active
<1>. QED
  BY <1>2, <1>4, <1>5, <1>6, <1>7, HandleHistory DEF DInv

LEMMA ToggleDInv ==
  ASSUME NEW t \in Thread, DInv, Toggle(t)
  PROVE  DInv'
<1>1. /\ Handle(t, "toggle", "send")
      /\ sending_dtmf' \in {~sending_dtmf, ~flag[t]}
      /\ flag' = [flag EXCEPT ![t] = sending_dtmf']
      /\ UNCHANGED <<main_loop, tone, stop, fault>>
  BY DEF Toggle
<1>2. StepOf(t, "toggle", "send")
  BY <1>1, HandleStep
<1>3. /\ sending_dtmf \in BOOLEAN /\ sending_dtmf' \in BOOLEAN /\ tone \in BOOLEAN
      /\ flag' \in [Thread -> BOOLEAN] /\ stop \in [Thread -> BOOLEAN] /\ stop[t] \in BOOLEAN
      /\ flag'[t] = sending_dtmf'
  BY <1>1 DEF DInv, TypeOK
<1>4. TypeOK' /\ FaultsHaveCauses'
  BY <1>1, <1>2, <1>3, HandleType DEF StepOf, DInv, TypeOK, FaultsHaveCauses
<1>5. First'
  BY <1>1, <1>2, <1>3 DEF StepOf, DInv, First
<1>6. at \notin {"free", "done"} /\ "unset" \notin slips /\ "overlap" \notin slips =>
        flag[t] = sending_dtmf /\ stop[t] = sending_dtmf
  BY <1>2 DEF StepOf, DInv, FlagKnown
<1>7. FlagKnown'
  <2>. SUFFICES ASSUME at \notin {"free", "done"}, "unset" \notin slips, "overlap" \notin slips
                PROVE  FlagKnown'
    BY <1>2 DEF StepOf, FlagKnown
  <2>1. stop[t] = ~sending_dtmf'
    BY <1>1, <1>3, <1>6
  <2>. QED
    BY <1>1, <1>2, <1>3, <2>1 DEF StepOf, FlagKnown
<1>8. Branch'
  <2>. SUFFICES ASSUME main_loop = "running", "unset" \notin slips, "early" \notin slips,
                       "overlap" \notin slips
                PROVE  Branch'
    BY <1>1, <1>2 DEF StepOf, Branch
  <2>1. flag[t] = sending_dtmf
    BY <1>6 DEF DInv, TypeOK, Loop, Locked
  <2>2. sending_dtmf' = ~sending_dtmf
    BY <1>1, <2>1
  <2>3. /\ interrupts \in {1, 2}
        /\ interrupts = 1 => sending_dtmf = FALSE /\ stop[t] = FALSE
        /\ interrupts = 2 => stop[t] = TRUE
    BY <1>2 DEF StepOf, DInv, Branch
  <2>4. interrupts = 1 => sending_dtmf' = TRUE
    BY <2>2, <2>3
  <2>5. Active' # {}
    BY <1>2 DEF StepOf, Active
  <2>. QED
    BY <1>1, <1>2, <2>3, <2>4, <2>5 DEF StepOf, Branch
<1>. QED
  BY <1>2, <1>4, <1>5, <1>7, <1>8, HandleHistory DEF DInv

LEMMA SendDInv ==
  ASSUME NEW t \in Thread, DInv, Send(t)
  PROVE  DInv'
<1>. DEFINE to == IF stop[t] THEN "quit" ELSE "idle"
<1>1. /\ Handle(t, "send", to) /\ to \in {"idle", "test", "toggle", "send", "quit"}
      /\ at # "free" => tone' \in {sending_dtmf, flag[t]} /\ fault' = "none"
      /\ at = "free" => tone' = tone /\ fault' \in {"none", "freed"}
      /\ UNCHANGED <<sending_dtmf, main_loop, flag, stop>>
  BY DEF Send
<1>2. StepOf(t, "send", to)
  BY <1>1, HandleStep
<1>3. /\ sending_dtmf \in BOOLEAN /\ tone \in BOOLEAN /\ flag[t] \in BOOLEAN
      /\ flag \in [Thread -> BOOLEAN] /\ stop \in [Thread -> BOOLEAN]
      /\ stop[t] \in BOOLEAN /\ fault' \in {"none", "freed"}
  BY <1>1 DEF DInv, TypeOK
<1>4. TypeOK'
  <2>1. tone' \in BOOLEAN
    BY <1>1, <1>3
  <2>. QED
    BY <1>1, <1>2, <1>3, <2>1, HandleType
<1>5. FaultsHaveCauses'
  BY <1>1, <1>2, <1>3 DEF StepOf, DInv, FaultsHaveCauses
<1>6. First'
  <2>. SUFFICES ASSUME interrupts = 1 PROVE First'
    BY <1>2 DEF StepOf, First
  <2>1. stop[t] = FALSE
    BY <1>2 DEF StepOf, DInv, First
  <2>2. pc'[t] = "idle" /\ \A u \in Thread \ {t} : pc'[u] = "idle"
    BY <1>2, <2>1 DEF StepOf
  <2>. QED
    BY <2>2 DEF First, Active
<1>7. FlagKnown'
  <2>. SUFFICES ASSUME at \notin {"free", "done"}, "unset" \notin slips, "overlap" \notin slips
                PROVE  /\ tone' = sending_dtmf
                       /\ \A u \in Thread : /\ pc'[u] \notin {"toggle", "send"}
                                            /\ pc'[u] = "quit" => sending_dtmf = FALSE
    BY <1>1, <1>2 DEF StepOf, FlagKnown
  <2>1. flag[t] = sending_dtmf /\ stop[t] = ~sending_dtmf
    BY <1>2 DEF StepOf, DInv, FlagKnown
  <2>. QED
    BY <1>1, <1>2, <1>3, <2>1 DEF StepOf
<1>8. Branch'
  <2>. SUFFICES ASSUME main_loop = "running", "unset" \notin slips, "early" \notin slips,
                       "overlap" \notin slips
                PROVE  Branch'
    BY <1>1, <1>2 DEF StepOf, Branch
  <2>1. /\ interrupts \in {1, 2}
        /\ interrupts = 1 => sending_dtmf = TRUE /\ stop[t] = FALSE
        /\ interrupts = 2 => stop[t] = TRUE
    BY <1>2 DEF StepOf, DInv, Branch
  <2>2. /\ interrupts = 1 => pc'[t] = "idle"
        /\ interrupts = 2 => pc'[t] = "quit"
    BY <1>2, <2>1 DEF StepOf
  <2>. QED
    BY <1>1, <1>2, <2>1, <2>2 DEF StepOf, Branch, Active
<1>. QED
  BY <1>2, <1>4, <1>5, <1>6, <1>7, <1>8, HandleHistory DEF DInv

\* A handler that waits for a lock in gst_element_send_event.
LEMMA SendHangsDInv ==
  ASSUME NEW t \in Thread, DInv, Deadlock(t), fault' \in {"state", "element"}
  PROVE  DInv'
<1>1. /\ Handle(t, "send", "send")
      /\ fault' = "state" => at = "stop"
      /\ fault' = "element" => t \in inside
      /\ UNCHANGED <<sending_dtmf, main_loop, tone, flag, stop>>
  BY DEF Deadlock
<1>2. StepOf(t, "send", "send") /\ pc' = pc /\ Active' = Active
  BY <1>1, HandleStep DEF Handle, DInv, TypeOK, Active
<1>3. TypeOK'
  BY <1>1, <1>2, HandleType DEF DInv, TypeOK
<1>4. First' /\ FlagKnown' /\ Branch'
  BY <1>1, <1>2 DEF StepOf, DInv, First, FlagKnown, Branch
<1>5. FaultsHaveCauses'
  BY <1>1, <1>2 DEF StepOf, DInv, Captive, FaultsHaveCauses
<1>. QED
  BY <1>2, <1>3, <1>4, <1>5, HandleHistory DEF DInv

\* One that waits for the loop's mutex: it is not the first, and if it is alone it
\* has stopped the digit.
LEMMA QuitHangsDInv ==
  ASSUME NEW t \in Thread, DInv, Deadlock(t), fault' = "context"
  PROVE  DInv'
<1>1. /\ Handle(t, "quit", "quit") /\ t = main /\ at \in Locked
      /\ UNCHANGED <<sending_dtmf, main_loop, tone, flag, stop>>
  BY DEF Deadlock
<1>2. StepOf(t, "quit", "quit") /\ pc' = pc /\ Active' = Active
  BY <1>1, HandleStep DEF Handle, DInv, TypeOK, Active
<1>3. TypeOK'
  BY <1>1, <1>2, HandleType DEF DInv, TypeOK
<1>4. First' /\ FlagKnown' /\ Branch'
  BY <1>1, <1>2 DEF StepOf, DInv, First, FlagKnown, Branch
<1>5. "locked" \in slips
  BY <1>1, <1>2 DEF StepOf, DInv, Captive
<1>6. interrupts >= 2
  BY <1>2, DtmfAssumption DEF StepOf, DInv, TypeOK, First
<1>7. slips \cap {"unset", "overlap"} = {} => ~tone
  <2>. SUFFICES ASSUME "unset" \notin slips, "overlap" \notin slips PROVE tone = FALSE
    OBVIOUS
  <2>1. sending_dtmf = FALSE
    BY <1>1, <1>2 DEF StepOf, DInv, FlagKnown, Locked
  <2>2. \A u \in Thread : pc[u] # "send"
    BY <1>2 DEF StepOf
  <2>. QED
    BY <1>1, <2>1, <2>2 DEF DInv, FlagKnown, Locked
<1>8. FaultsHaveCauses'
  BY <1>1, <1>2, <1>5, <1>6, <1>7 DEF StepOf, FaultsHaveCauses
<1>. QED
  BY <1>2, <1>3, <1>4, <1>8, HandleHistory DEF DInv

LEMMA DeadlockDInv ==
  ASSUME NEW t \in Thread, DInv, Deadlock(t)
  PROVE  DInv'
<1>1. fault' \in {"state", "element"} \/ fault' = "context"
  BY DEF Deadlock
<1>. QED
  BY <1>1, SendHangsDInv, QuitHangsDInv

LEMMA QuitDInv ==
  ASSUME NEW t \in Thread, DInv, Quit(t)
  PROVE  DInv'
<1>1. /\ Handle(t, "quit", "idle")
      /\ main_loop' = IF main_loop = "running" THEN "quit" ELSE main_loop
      /\ fault' = "none" \/ (fault' = "freed" /\ at = "free")
      /\ UNCHANGED <<sending_dtmf, tone, flag, stop>>
  BY DEF Quit
<1>2. StepOf(t, "quit", "idle")
  BY <1>1, HandleStep
<1>3. TypeOK'
  BY <1>1, <1>2, HandleType DEF DInv, TypeOK
<1>4. First' /\ FlagKnown'
  BY <1>1, <1>2 DEF StepOf, DInv, First, FlagKnown
<1>5. Branch' /\ FaultsHaveCauses'
  BY <1>1, <1>2 DEF StepOf, DInv, Branch, FaultsHaveCauses
<1>. QED
  BY <1>2, <1>3, <1>4, <1>5, HandleHistory DEF DInv

LEMMA NextDInv == DInv /\ [Next]_vars => DInv'
<1>. SUFFICES ASSUME DInv, [Next]_vars PROVE DInv'
  OBVIOUS
<1>1. CASE Main \/ Check \/ bus_call
  BY <1>1, BeginDInv, LoopDInv, EndDInv DEF Main
<1>2. CASE \E t \in Thread : Interrupt(t) \/ signal_handler(t)
  BY <1>2, InterruptDInv, TestDInv, ToggleDInv, SendDInv, DeadlockDInv, QuitDInv
  DEF signal_handler
<1>3. CASE UNCHANGED vars
  BY <1>3
  DEF vars, handlers, DInv, TypeOK, Alone, Fresh, First, Precocious, Belated, Captive, FlagKnown,
      Branch, FaultsHaveCauses, Active
<1>. QED
  BY <1>1, <1>2, <1>3 DEF Next, Over

LEMMA SpecDInv == Spec => []DInv
  BY InitDInv, NextDInv, PTL DEF Spec

-----------------------------------------------------------------------------
\* The statements of main(), of the handlers and their flags fit together, on any
\* number of threads.
THEOREM DtmfTypeCorrect == Spec => []TypeOK
  BY SpecDInv, PTL DEF DInv

\* The event signal_handler sends last says what sending_dtmf says.
THEOREM DtmfToneFollows == Spec => []ToneFollowsFlag
<1>1. DInv => ToneFollowsFlag
  BY DEF DInv, FlagKnown, ToneFollowsFlag, Active
<1>. QED
  BY <1>1, SpecDInv, PTL

\* The second call of signal_handler quits the loop.
THEOREM DtmfSecondQuits == Spec => []SecondInterruptQuits
<1>1. DInv => SecondInterruptQuits
  <2>. SUFFICES ASSUME DInv, Active = {}, interrupts >= 2, main_loop = "running",
                       slips \cap {"unset", "early", "overlap"} = {}
                PROVE  FALSE
    BY DEF SecondInterruptQuits
  <2>1. interrupts = 2
    BY DEF DInv, Branch
  <2>. QED
    BY <2>1 DEF DInv, Branch
<1>. QED
  BY <1>1, SpecDInv, PTL

\* No event is sent to a freed pipeline, and gst_element_set_state does not wait
\* for a handler, unless one runs after the loop has been left; g_main_loop_quit
\* hangs only in a handler that met the loop with its mutex, never in the first,
\* and once the digit has been stopped.
THEOREM DtmfFaults == Spec => []FaultsHaveCauses
  BY SpecDInv, PTL DEF DInv

=============================================================================

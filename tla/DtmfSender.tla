----------------------------- MODULE DtmfSender -----------------------------
(***************************************************************************)
(* ms_demo.cpp, the sender of DTMF events the receiver is tried out with.  *)
(* An interrupt starts the digit, the next one stops it and ends the       *)
(* program; so does a message EOS or ERROR on the bus.                     *)
(*                                                                         *)
(* The handler of SIGINT runs on whatever thread the system picks: on main *)
(* that thread stands still meanwhile, on a streaming thread of the        *)
(* pipeline it runs beside main, and beside a second handler.  Locks that  *)
(* the interrupted thread holds are not let go of while it runs.           *)
(***************************************************************************)
EXTENDS Naturals

CONSTANTS
  Streaming,     \* the threads of the pipeline
  main,          \* the thread of main()
  MaxInterrupts  \* bound of the model: interrupts sent

ASSUME DtmfAssumption == main \notin Streaming /\ MaxInterrupts \in Nat

VARIABLES
  at,            \* the statement of main() to come, from sigaction on
  sending_dtmf,
  main_loop,     \* "running" is GLib's is_running
  tone,          \* the digit is being sent
  pc,            \* the statement of the handler on each thread
  flag,          \* the handler's last view of sending_dtmf
  stop,          \* the handler is on the branch that quits
  interrupts,    \* how many there have been
  inside,        \* the threads interrupted while they held a lock of the pipeline's
  fault,         \* what was used after it was freed, or what a handler waits for
                 \* for ever
  slips          \* history: handlers before the flag was set, before the loop ran,
                 \* after it was left, two at a time, or on a thread that held a lock

handlers == <<pc, flag, stop, interrupts, inside>>
vars == <<at, sending_dtmf, main_loop, tone, handlers, fault, slips>>

Thread == Streaming \cup {main}

Init ==
  /\ at = "reset"
  /\ sending_dtmf = FALSE /\ main_loop = "none" /\ tone = FALSE
  /\ pc = [t \in Thread |-> "idle"]
  /\ flag = [t \in Thread |-> FALSE] /\ stop = [t \in Thread |-> FALSE]
  /\ interrupts = 0 /\ inside = {} /\ fault = "none" /\ slips = {}

Running == at # "done" /\ fault = "none"

\* GLib's loop holds the mutex of the main context except while it polls and while
\* it dispatches; the mutex is not recursive.
Locked == {"again", "check"}

Loop == Locked \cup {"poll", "dispatch"}

Active == {t \in Thread : pc[t] # "idle"}

Slip(what, holds) == IF holds THEN {what} ELSE {}

-----------------------------------------------------------------------------
\* main() goes on when no handler runs on its thread.
Proceed(from, to) ==
  /\ Running /\ pc[main] = "idle"
  /\ at = from /\ at' = to
  /\ UNCHANGED <<handlers, fault>>

\* The flag, FALSE from the start, is reset once the handler has been installed.
Reset == Proceed("reset", "run") /\ sending_dtmf' = FALSE /\ UNCHANGED <<main_loop, tone, slips>>

Run == Proceed("run", "again") /\ main_loop' = "running" /\ UNCHANGED <<sending_dtmf, tone, slips>>

\* One iteration: prepare and query the sources, poll, check and dispatch them.
Prepare ==
  /\ main_loop = "running" /\ Proceed("again", "poll")
  /\ UNCHANGED <<sending_dtmf, main_loop, tone, slips>>

Check == Proceed("poll", "check") /\ UNCHANGED <<sending_dtmf, main_loop, tone, slips>>

Dispatch == Proceed("check", "dispatch") /\ UNCHANGED <<sending_dtmf, main_loop, tone, slips>>

Dispatched == Proceed("dispatch", "again") /\ UNCHANGED <<sending_dtmf, main_loop, tone, slips>>

\* Mutant: bus_call takes the program down by itself.
bus_callExits ==
  /\ Proceed("dispatch", "free")
  /\ main_loop' = "quit"
  /\ UNCHANGED <<sending_dtmf, tone, slips>>

\* EOS and ERROR, dispatched by the loop.
bus_call ==
  /\ Proceed("dispatch", "again")
  /\ main_loop' = "quit"
  /\ UNCHANGED <<sending_dtmf, tone, slips>>

\* Mutant: the loop is run again.
LeaveLoopAgain ==
  /\ main_loop = "quit" /\ Proceed("again", "run")
  /\ UNCHANGED <<sending_dtmf, main_loop, tone, slips>>

\* gst_element_set_state(NULL) holds the pipeline's state lock while it waits for
\* the streaming threads.
LeaveLoop ==
  /\ main_loop = "quit" /\ Proceed("again", "stop")
  /\ slips' = slips \cup Slip("late", Active # {})
  /\ UNCHANGED <<sending_dtmf, main_loop, tone>>

Stop == Active = {} /\ Proceed("stop", "free") /\ tone' = FALSE /\ UNCHANGED <<sending_dtmf, main_loop, slips>>

\* Pipeline and loop are freed, and the process ends.
Free == Proceed("free", "done") /\ UNCHANGED <<sending_dtmf, main_loop, tone, slips>>

Main == Reset \/ Run \/ Prepare \/ Dispatch \/ Dispatched \/ LeaveLoop \/ Stop \/ Free

-----------------------------------------------------------------------------
\* SIGINT is blocked on a thread that is handling one, not on the others; once
\* the pipeline is in NULL there are no others.  A streaming thread may hold a lock
\* of an element or of its queue, and so may main while it takes the pipeline down.
Interrupt(t) ==
  /\ Running
  /\ pc[t] = "idle" /\ (t # main => at # "free")
  /\ interrupts < MaxInterrupts
  /\ interrupts' = interrupts + 1
  /\ pc' = [pc EXCEPT ![t] = "test"]
  /\ \/ inside' = inside
     \/ (t # main \/ at \in {"stop", "free"}) /\ inside' = inside \cup {t}
  /\ slips' = slips \cup Slip("unset", at = "reset") \cup Slip("early", at = "run")
                    \cup Slip("late", at \in {"stop", "free"}) \cup Slip("overlap", Active # {})
                    \cup Slip("locked", (t = main /\ at \in Locked) \/ t \in inside')
  /\ UNCHANGED <<at, sending_dtmf, main_loop, tone, flag, stop, fault>>

Handle(t, from, to) ==
  /\ Running
  /\ pc[t] = from /\ pc' = [pc EXCEPT ![t] = to]
  /\ UNCHANGED <<at, interrupts, inside, slips>>

\* Mutant: the branches are the wrong way round.
TestSwapped(t) ==
  /\ Handle(t, "test", "toggle")
  /\ flag' = [flag EXCEPT ![t] = sending_dtmf]
  /\ stop' = [stop EXCEPT ![t] = ~sending_dtmf]
  /\ UNCHANGED <<sending_dtmf, main_loop, tone, fault>>

Test(t) ==
  /\ Handle(t, "test", "toggle")
  /\ flag' = [flag EXCEPT ![t] = sending_dtmf]
  /\ stop' = [stop EXCEPT ![t] = sending_dtmf]
  /\ UNCHANGED <<sending_dtmf, main_loop, tone, fault>>

\* The flag is neither volatile nor locked: what is inverted may be the value read
\* by the test, what is sent the value just written.
Toggle(t) ==
  /\ Handle(t, "toggle", "send")
  /\ \E v \in {~sending_dtmf, ~flag[t]} : sending_dtmf' = v /\ flag' = [flag EXCEPT ![t] = v]
  /\ UNCHANGED <<main_loop, tone, stop, fault>>

\* Mutant: the event carries the value from before the toggle.
SendStale(t) ==
  /\ at = "stop" => t = main
  /\ Handle(t, "send", IF stop[t] THEN "quit" ELSE "idle")
  /\ tone' = stop[t]
  /\ UNCHANGED <<sending_dtmf, main_loop, flag, stop, fault>>

\* gst_element_send_event takes the state lock, which main may hold, and locks of
\* the elements; in the last statements of main() the pipeline is in NULL, which
\* drops the event, or freed.
Send(t) ==
  /\ t \notin inside /\ (at = "stop" => t = main)
  /\ Handle(t, "send", IF stop[t] THEN "quit" ELSE "idle")
  /\ tone' \in (IF at = "free" THEN {tone} ELSE {sending_dtmf, flag[t]})
  /\ fault' \in (IF at = "free" THEN {"none", "freed"} ELSE {"none"})
  /\ UNCHANGED <<sending_dtmf, main_loop, flag, stop>>

\* The handler waits for a lock: the pipeline's state lock, whose holder waits for
\* the thread the handler is on, or one its own thread holds.
Deadlock(t) ==
  /\ \/ at = "stop" /\ t # main /\ Handle(t, "send", "send") /\ fault' = "state"
     \/ t \in inside /\ Handle(t, "send", "send") /\ fault' = "element"
     \/ t = main /\ at \in Locked /\ Handle(t, "quit", "quit") /\ fault' = "context"
  /\ UNCHANGED <<sending_dtmf, main_loop, tone, flag, stop>>

\* Mutant: the loop is not asked to quit.
QuitForgotten(t) ==
  /\ Handle(t, "quit", "idle")
  /\ UNCHANGED <<sending_dtmf, main_loop, tone, flag, stop, fault>>

\* g_main_loop_quit does nothing without a loop, and g_main_loop_run forgets a
\* quit that came before it.  It takes the context's mutex; in the last statements
\* of main() the loop may be freed.
Quit(t) ==
  /\ at \notin Locked
  /\ Handle(t, "quit", "idle")
  /\ main_loop' = IF main_loop = "running" THEN "quit" ELSE main_loop
  /\ fault' \in (IF at = "free" THEN {"none", "freed"} ELSE {"none"})
  /\ UNCHANGED <<sending_dtmf, tone, flag, stop>>

signal_handler(t) == Test(t) \/ Toggle(t) \/ Send(t) \/ Deadlock(t) \/ Quit(t)

Over == ~Running /\ UNCHANGED vars

Next == Main \/ Check \/ bus_call \/ Over \/ \E t \in Thread : Interrupt(t) \/ signal_handler(t)

Spec == Init /\ [][Next]_vars

\* Threads are scheduled, and g_main_loop_quit wakes the poll; nobody owes an
\* interrupt or a message.
FairSpec ==
  /\ Spec
  /\ WF_vars(Main) /\ WF_vars(main_loop = "quit" /\ Check)
  /\ \A t \in Thread : WF_vars(signal_handler(t))

-----------------------------------------------------------------------------
\* The variables hold what they may hold; past the loop, its quit has been seen
\* and the streaming threads are gone in time.
TypeOK ==
  /\ at \in {"reset", "run", "stop", "free", "done"} \cup Loop
  /\ main_loop = "none" <=> at \in {"reset", "run"}
  /\ main_loop = "running" => at \in Loop
  /\ main_loop \in {"none", "running", "quit"}
  /\ sending_dtmf \in BOOLEAN /\ tone \in BOOLEAN
  /\ pc \in [Thread -> {"idle", "test", "toggle", "send", "quit"}]
  /\ flag \in [Thread -> BOOLEAN] /\ stop \in [Thread -> BOOLEAN]
  /\ interrupts \in 0 .. MaxInterrupts
  /\ inside \subseteq Thread
  /\ fault \in {"none", "freed", "state", "element", "context"}
  /\ slips \subseteq {"unset", "early", "late", "overlap", "locked"}
  /\ at \in {"free", "done"} => Active \subseteq {main}

\* Between handlers the digit is being sent exactly when sending_dtmf says so,
\* unless an interrupt came before main() set the flag or while another was
\* handled: the next interrupt then does what its message says.
ToneFollowsFlag ==
  Active = {} /\ at \notin {"free", "done"} /\ slips \cap {"unset", "overlap"} = {}
    => tone = sending_dtmf

\* Every second interrupt ends the loop: after two that did not overlap, and whose
\* handlers have returned, there is no loop left running, unless one came before
\* it ran.
SecondInterruptQuits ==
  Active = {} /\ interrupts >= 2 /\ slips \cap {"unset", "early", "overlap"} = {}
    => main_loop # "running"

\* A freed pipeline or loop is used, or main and handler wait for each other, only
\* when a handler runs after the loop has been left; a handler waits for a lock of
\* its own thread only when the interrupt met the thread with one.  The interrupt
\* that starts the digit never hangs on the loop's mutex, and the one that does has
\* stopped the digit before.
FaultsHaveCauses ==
  /\ fault \in {"freed", "state"} => "late" \in slips
  /\ fault \in {"element", "context"} => "locked" \in slips
  /\ fault = "context" => interrupts >= 2 /\ (slips \cap {"unset", "overlap"} = {} => ~tone)

\* Once the loop has quit the program ends, whatever the handlers do on the way,
\* unless one of them comes late or waits for a lock of its own thread.
QuitEnds == main_loop = "quit" ~> (at = "done" \/ "late" \in slips \/ fault # "none")

=============================================================================

----------------------------- MODULE Announcer ------------------------------
(***************************************************************************)
(* What a sender of the IVR promises to whoever listens, without pipeline, *)
(* bus or states: the files of a list are heard in its order, one at a     *)
(* time and each at most once, from the first on; the silence after the    *)
(* last file, or after the line went dead, lasts until the list is cleared.*)
(* A file may be passed over in silence, never out of turn.                *)
(***************************************************************************)
EXTENDS Naturals, Sequences

CONSTANTS
  Requests,  \* the lists of names that may be added
  Silence    \* what is heard when no file is, the tone of a new pipeline included

VARIABLES
  list,      \* the files asked for since the last clear
  at,        \* how many of them have had their turn, the current one included
  heard,     \* the file being played, or Silence
  open       \* there is a pipeline

avars == <<list, at, heard, open>>

Init == list = << >> /\ at = 0 /\ heard = Silence /\ open = TRUE

Add(more) == list' = list \o more /\ UNCHANGED <<at, heard, open>>

Clear ==
  /\ open
  /\ list' = << >> /\ at' = 0 /\ heard' = Silence
  /\ UNCHANGED open

Start ==
  /\ open
  /\ at = 0 /\ list # << >> /\ heard = Silence
  /\ at' = 1 /\ heard' = list[1]
  /\ UNCHANGED <<list, open>>

Move ==
  /\ open
  /\ heard # Silence /\ at < Len(list)
  /\ at' = at + 1 /\ heard' = list[at + 1]
  /\ UNCHANGED <<list, open>>

PassOver ==
  /\ open
  /\ heard = Silence /\ at < Len(list)
  /\ at' = at + 1
  /\ UNCHANGED <<list, heard, open>>

\* Only the last file is followed by silence while the line is open.
Finish ==
  /\ open
  /\ heard # Silence /\ at = Len(list)
  /\ heard' = Silence
  /\ UNCHANGED <<list, at, open>>

HangUp ==
  /\ open
  /\ open' = FALSE /\ heard' = Silence
  /\ UNCHANGED <<list, at>>

PickUp == ~open /\ open' = TRUE /\ UNCHANGED <<list, at, heard>>

Next ==
  \/ \E more \in Requests : Add(more)
  \/ Clear \/ Start \/ Move \/ PassOver \/ Finish \/ HangUp \/ PickUp

Spec == Init /\ [][Next]_avars

=============================================================================

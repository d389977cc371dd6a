------------------------------ MODULE ChatRoom ------------------------------
(***************************************************************************)
(* What a chat promises.  Everything said is numbered, and one member      *)
(* speaks at a time.  Members come and go between two things said; whoever *)
(* is a member when something is said hears it, once, before anything else *)
(* is said, and so reads a contiguous part of the log that begins with the *)
(* first thing said after joining.  A member who leaves may miss what is   *)
(* said from then on, but there is no gap in what it hears.  Nobody is let *)
(* go who has not left, and the chat ends only when somebody has left, or  *)
(* when one more than it has room for wants to join.                       *)
(*                                                                         *)
(* A chat that has become confused about its members keeps less of that:   *)
(* one speaks at a time, and what anybody hears is what is being said.     *)
(***************************************************************************)
EXTENDS Naturals, FiniteSets, Sequences

CONSTANTS
  Clients,
  Nobody,
  Capacity   \* how many members there may be at a time

VARIABLES
  status,    \* of each client: "out", "in", "left" by itself, "gone"
  said,      \* number of things said so far
  speaker,   \* the member who is speaking, or Nobody
  heard,     \* of each client: what it has heard
  confused,  \* the chat may take one member for another
  running    \* the chat has not ended

vars == <<status, said, speaker, heard, confused, running>>

Members == {c \in Clients : status[c] \in {"in", "left"}}

Init ==
  /\ status = [c \in Clients |-> "out"]
  /\ said = 0
  /\ speaker = Nobody
  /\ heard = [c \in Clients |-> <<>>]
  /\ confused = FALSE
  /\ running = TRUE

\* A client may leave before it has been let in.
Join(c) ==
  /\ running /\ speaker = Nobody
  /\ Cardinality(Members) < Capacity
  /\ status[c] = "out"
  /\ \E s \in {"in", "left"} : status' = [status EXCEPT ![c] = s]
  /\ UNCHANGED <<said, speaker, heard, confused, running>>

Leave(c) ==
  /\ status[c] = "in"
  /\ status' = [status EXCEPT ![c] = "left"]
  /\ UNCHANGED <<said, speaker, heard, confused, running>>

LetGo(c) ==
  /\ running /\ speaker = Nobody
  /\ status[c] = "left" \/ (confused /\ c \in Members)
  /\ status' = [status EXCEPT ![c] = "gone"]
  /\ UNCHANGED <<said, speaker, heard, confused, running>>

Say(c) ==
  /\ running /\ speaker = Nobody
  /\ c \in Members
  /\ speaker' = c
  /\ said' = said + 1
  /\ UNCHANGED <<status, heard, confused, running>>

\* What was said last is the last that c has heard.
Heard(c) == heard[c] # <<>> /\ heard[c][Len(heard[c])] = said

\* c has heard nothing yet, or what was said before.
Follows(c) == heard[c] # <<>> => heard[c][Len(heard[c])] + 1 = said

Hear(c) ==
  /\ running /\ speaker # Nobody
  /\ confused \/ (c \in Members /\ Follows(c))
  /\ heard' = [heard EXCEPT ![c] = Append(@, said)]
  /\ UNCHANGED <<status, said, speaker, confused, running>>

\* Everybody has heard it.
Finish ==
  /\ running /\ speaker # Nobody
  /\ confused \/ \A c \in Clients : status[c] = "in" => Heard(c)
  /\ speaker' = Nobody
  /\ UNCHANGED <<status, said, heard, confused, running>>

Confuse ==
  /\ running /\ Members # {}
  /\ confused' = TRUE
  /\ UNCHANGED <<status, said, speaker, heard, running>>

End ==
  /\ running /\ speaker # Nobody
  /\ confused \/ \E c \in Clients : status[c] = "left"
  /\ running' = FALSE
  /\ UNCHANGED <<status, said, speaker, heard, confused>>

\* All places are taken.
Overflow ==
  /\ running /\ speaker = Nobody
  /\ Cardinality(Members) = Capacity
  /\ running' = FALSE
  /\ UNCHANGED <<status, said, speaker, heard, confused>>

Next ==
  \/ Finish \/ Confuse \/ End \/ Overflow
  \/ \E c \in Clients : Join(c) \/ Leave(c) \/ LetGo(c) \/ Say(c) \/ Hear(c)

Spec == Init /\ [][Next]_vars
=============================================================================

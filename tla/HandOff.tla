------------------------------- MODULE HandOff -------------------------------
(***************************************************************************)
(* Values handed from one thread to another, one at a time: each value     *)
(* given is taken once, in order, before the next one is given.            *)
(***************************************************************************)
EXTENDS Naturals, Sequences

CONSTANTS
  Values,
  Count    \* number of values

VARIABLES
  given,   \* the values given so far
  taken    \* those of them that were taken

vars == <<given, taken>>

Init ==
  /\ given = <<>>
  /\ taken = <<>>

Give(v) ==
  /\ Len(given) < Count
  /\ Len(taken) = Len(given)
  /\ given' = Append(given, v)
  /\ UNCHANGED taken

Take ==
  /\ Len(taken) < Len(given)
  /\ taken' = Append(taken, given[Len(taken) + 1])
  /\ UNCHANGED given

Next == Take \/ \E v \in Values : Give(v)

Spec == Init /\ [][Next]_vars
=============================================================================

----------------------------- MODULE Repertoire -----------------------------
(***************************************************************************)
(* The small programs of one topic each are modelled in modules of their   *)
(* own, Threads, Processes and Datagrams, which share the choice of the    *)
(* program that runs.                                                      *)
(***************************************************************************)

VARIABLE program  \* the program, chosen in the initial state
=============================================================================

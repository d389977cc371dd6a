---------------------------- MODULE MCChatServer ----------------------------
(***************************************************************************)
(* Model checking of ChatServer with a few symmetric sessions.             *)
(***************************************************************************)
EXTENDS ChatServer, TLC

Symmetric == Permutations(Sessions)
=============================================================================

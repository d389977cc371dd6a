--------------------------- MODULE MCEventServer ---------------------------
(***************************************************************************)
(* Model checking of EventServer with a few symmetric connections.         *)
(***************************************************************************)
EXTENDS EventServer, TLC

Symmetric == Permutations(Conns)
=============================================================================

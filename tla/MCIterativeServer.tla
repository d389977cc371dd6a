------------------------- MODULE MCIterativeServer -------------------------
(***************************************************************************)
(* Model checking of IterativeServer with a few connections.  The run checks *)
(* liveness, too, for which the connections are not taken as symmetric.    *)
(***************************************************************************)
EXTENDS IterativeServer
=============================================================================

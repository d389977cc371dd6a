---------------------------- MODULE MCForkServer ----------------------------
(***************************************************************************)
(* Model checking of ForkServer with a few connections.  The run checks    *)
(* liveness, too, for which the connections are not taken as symmetric.    *)
(***************************************************************************)
EXTENDS ForkServer
=============================================================================

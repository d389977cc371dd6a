---------------------------- MODULE MCWebServer ----------------------------
(***************************************************************************)
(* Model checking of WebServer with a few connections.  The run checks     *)
(* liveness, too, for which the connections are not taken as symmetric.    *)
(***************************************************************************)
EXTENDS WebServer
=============================================================================

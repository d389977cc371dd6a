---------------------------- MODULE MCPoolLimits ----------------------------
(***************************************************************************)
(* Model checking of the liveness of PreforkPool for two pools at once,    *)
(* one as large as its table, where one wake-up makes up for a part of     *)
(* what is missing, and a smaller one, where servers are stopped as well.  *)
(***************************************************************************)
EXTENDS PreforkPool

CONSTANT FewerServers     \* both limits of the smaller pool

VARIABLE smaller          \* which of the two pools it is

Smaller == INSTANCE PreforkPool
  WITH MINSPARSESERVERS <- FewerServers, MAXSPARSESERVERS <- FewerServers

EitherInit == smaller \in BOOLEAN /\ Init

EitherNext ==
  /\ UNCHANGED smaller
  /\ \/ ~smaller /\ Next
     \/ smaller /\ Smaller!Next

EitherSpec ==
  /\ EitherInit /\ [][EitherNext]_<<vars, smaller>>
  /\ WF_vars(~smaller /\ Parent)
  /\ WF_vars(smaller /\ Smaller!Parent)
  /\ ServersFair

\* Refill of whichever pool it is.
EitherRefill == (~smaller => Refill) /\ (smaller => Smaller!Refill)

\* Accepted of whichever pool it is.
EitherAccepted == (~smaller => Accepted) /\ (smaller => Smaller!Accepted)
=============================================================================

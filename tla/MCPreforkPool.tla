--------------------------- MODULE MCPreforkPool ---------------------------
(***************************************************************************)
(* Model checking of PreforkPool: the constants of the program cut down to *)
(* a table of a few slots, and processes and clients that are symmetric.   *)
(***************************************************************************)
EXTENDS PreforkPool, TLC

Symmetric == Permutations(Pids) \cup Permutations(Clients)
============================================================================

------------------------------- MODULE SigChld -------------------------------
(***************************************************************************)
(* How the parents of this repository reap their children: handleZombie of *)
(* process/remove_zombie.c, childProcessHandle of tcp/echo_mpserver.c and  *)
(* tcp/echo_store_server.c.  A child that ends becomes a zombie and raises *)
(* SIGCHLD; the handler waits for one child, without blocking.  A SIGCHLD  *)
(* that comes while another is pending merges with it, and the handler     *)
(* runs with SIGCHLD blocked.                                              *)
(***************************************************************************)
EXTENDS Naturals, FiniteSets

VARIABLES
  zombies,   \* children that have ended and were not waited for
  pending,   \* SIGCHLD is pending
  handling,  \* the handler runs
  merged     \* history: number of signals that merged with a pending one

sigchld == <<zombies, pending, handling, merged>>

SigInit ==
  /\ zombies = {}
  /\ pending = FALSE
  /\ handling = FALSE
  /\ merged = 0

\* Mutant: a signal that comes while the handler runs is lost.
EndsIgnored(p) ==
  /\ zombies' = zombies \cup {p}
  /\ pending' = (pending \/ ~handling)
  /\ merged' = IF pending THEN merged + 1 ELSE merged
  /\ UNCHANGED handling

\* Child p ends.
Ends(p) ==
  /\ zombies' = zombies \cup {p}
  /\ pending' = TRUE
  /\ merged' = IF pending THEN merged + 1 ELSE merged
  /\ UNCHANGED handling

\* The handler is called.
Deliver ==
  /\ pending /\ ~handling
  /\ pending' = FALSE
  /\ handling' = TRUE
  /\ UNCHANGED <<zombies, merged>>

\* The handler: waitpid() takes one zombie, or returns 0 and leaves status as it was.
Reap ==
  /\ handling
  /\ \/ \E p \in zombies : zombies' = zombies \ {p}
     \/ zombies = {} /\ UNCHANGED zombies
  /\ handling' = FALSE
  /\ UNCHANGED <<pending, merged>>

----------------------------------------------------------------------------
One(b) == IF b THEN 1 ELSE 0

\* Every signal reaps one child: the zombies that stay for good are as many as signals
\* merged, and the others have a signal on its way.
ZombiesBalance == Cardinality(zombies) = merged + One(pending) + One(handling)

\* The handler is never called in vain: it never looks at a status that waitpid() did not set.
StatusIsSet == handling => zombies # {}
=============================================================================

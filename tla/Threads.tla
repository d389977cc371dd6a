------------------------------- MODULE Threads -------------------------------
(***************************************************************************)
(* The programs of thread/ whose main starts threads that share a number:  *)
(*                                                                         *)
(*   thread1   one thread, which main does not wait for                    *)
(*   thread2   one thread, whose result main takes with pthread_join()     *)
(*   thread3   two threads add up the numbers 1 .. 5 and 6 .. 10           *)
(*   thread4   every other thread counts up, the others down, no lock      *)
(*   mutex     the same under a mutex, held for all rounds of a thread     *)
(*                                                                         *)
(* The Debug build of CMakeLists.txt does not optimise: num++ is a load    *)
(* and a store, and the other threads run in between.                      *)
(***************************************************************************)
EXTENDS Repertoire, Integers, FiniteSets

CONSTANTS
  NUM_THREAD,  \* threads of thread4 and mutex
  Loops,       \* rounds of each of them
  NoThread

ASSUME ThreadsAssumption ==
  /\ NUM_THREAD \in Nat /\ NUM_THREAD % 2 = 0 /\ NUM_THREAD >= 2
  /\ Loops \in Nat
  /\ NoThread \notin Nat

Indices == 0 .. NUM_THREAD - 1

VARIABLES
  main,      \* what main does next
  created,   \* threads created so far
  joined,    \* threads joined so far
  step,      \* per thread: what it does next
  round,     \* per thread: rounds of its loop done
  register,  \* per thread: the value it loaded and did not use yet
  total,     \* the shared number: num, or sum in thread3
  mutex      \* the thread that holds the mutex

threadVars == <<main, created, joined, step, round, register, total, mutex>>

Lone == {"thread1", "thread2"}
Counters == {"thread4", "mutex"}
ThreadPrograms == Lone \cup {"thread3"} \cup Counters

Number == CASE program \in Lone -> 1 [] program = "thread3" -> 2 [] OTHER -> NUM_THREAD
Rounds == IF program \in Counters THEN Loops ELSE 5

\* What thread t adds in the round after k rounds.
Addend(t, k) ==
  IF program = "thread3" THEN 5 * t + k + 1 ELSE IF t % 2 = 0 THEN 1 ELSE -1

ThreadInit ==
  /\ main = IF program \in ThreadPrograms THEN "create" ELSE "end"
  /\ created = 0
  /\ joined = 0
  /\ step = [t \in Indices |-> "none"]
  /\ round = [t \in Indices |-> 0]
  /\ register = [t \in Indices |-> 0]
  /\ total = 0
  /\ mutex = NoThread

----------------------------------------------------------------------------
(***************************************************************************)
(* main()                                                                  *)
(***************************************************************************)

CreateThread ==
  /\ main = "create"
  /\ step' = [step EXCEPT ![created] = IF program = "mutex" THEN "lock" ELSE "loop"]
  /\ created' = created + 1
  /\ main' = IF created' < Number THEN "create"
             ELSE IF program = "thread1" THEN "sleep" ELSE "join"
  /\ UNCHANGED <<joined, round, register, total, mutex>>

\* The programs of one thread end when it cannot be created.
CreateFails ==
  /\ main = "create" /\ program \in Lone
  /\ main' = "end"
  /\ UNCHANGED <<created, joined, step, round, register, total, mutex>>

JoinedBy(t) == step[t] = "done"

Join ==
  /\ main = "join"
  /\ JoinedBy(joined)
  /\ joined' = joined + 1
  /\ main' = IF joined' < Number THEN "join" ELSE "end"
  /\ UNCHANGED <<created, step, round, register, total, mutex>>

\* The time main sleeps is not tied to what the thread does.  The end of main is the end of
\* the process and all of its threads.
SleepEnds ==
  /\ main = "sleep"
  /\ main' = "end"
  /\ UNCHANGED <<created, joined, step, round, register, total, mutex>>

MainThread == CreateThread \/ CreateFails \/ Join \/ SleepEnds

----------------------------------------------------------------------------
(***************************************************************************)
(* threadMain(), inc() and dec()                                           *)
(***************************************************************************)

ThreadAt(t, s) == main # "end" /\ step[t] = s

\* Mutant: the mutex does not exclude.
MutexFreeAlways == TRUE

MutexFree == mutex = NoThread

Lock(t) ==
  /\ ThreadAt(t, "lock")
  /\ MutexFree
  /\ mutex' = t
  /\ step' = [step EXCEPT ![t] = "loop"]
  /\ UNCHANGED <<main, created, joined, round, register, total>>

\* A round of thread1 or thread2: text and a second of sleep.
Work(t) ==
  /\ ThreadAt(t, "loop") /\ program \in Lone
  /\ round[t] < Rounds
  /\ round' = [round EXCEPT ![t] = @ + 1]
  /\ UNCHANGED <<main, created, joined, step, register, total, mutex>>

Load(t) ==
  /\ ThreadAt(t, "loop") /\ program \notin Lone
  /\ round[t] < Rounds
  /\ register' = [register EXCEPT ![t] = total]
  /\ step' = [step EXCEPT ![t] = "store"]
  /\ UNCHANGED <<main, created, joined, round, total, mutex>>

Store(t) ==
  /\ ThreadAt(t, "store")
  /\ total' = register[t] + Addend(t, round[t])
  /\ register' = [register EXCEPT ![t] = 0]
  /\ round' = [round EXCEPT ![t] = @ + 1]
  /\ step' = [step EXCEPT ![t] = "loop"]
  /\ UNCHANGED <<main, created, joined, mutex>>

\* The loop is over: unlock the mutex and return.
Return(t) ==
  /\ ThreadAt(t, "loop")
  /\ round[t] = Rounds
  /\ mutex' = NoThread
  /\ step' = [step EXCEPT ![t] = "done"]
  /\ UNCHANGED <<main, created, joined, round, register, total>>

Thread(t) == Lock(t) \/ Work(t) \/ Load(t) \/ Store(t) \/ Return(t)

ThreadNext == (MainThread \/ \E t \in Indices : Thread(t)) /\ UNCHANGED program

ThreadSpec ==
  program \in ThreadPrograms /\ ThreadInit /\ [][ThreadNext]_<<program, threadVars>>

----------------------------------------------------------------------------
(***************************************************************************)
(* Properties.                                                             *)
(***************************************************************************)

\* Every variable has its type.
ThreadTypeOK ==
  /\ main \in {"create", "join", "sleep", "end"}
  /\ created \in 0 .. NUM_THREAD
  /\ joined \in 0 .. NUM_THREAD
  /\ step \in [Indices -> {"none", "lock", "loop", "store", "done"}]
  /\ round \in [Indices -> Nat]
  /\ register \in [Indices -> Int]
  /\ total \in Int
  /\ mutex \in Indices \cup {NoThread}

\* What main finds when it prints.  Under the mutex nothing is lost and the counts cancel
\* out; without it all that one side counted may be lost.  In thread3 the first addend of one
\* thread and the last one of the other are the least that stays.  The thread of thread2 has
\* come to its end when its result is taken.
Totals ==
  main = "end" =>
    /\ program = "mutex" => total = 0
    /\ program = "thread4" => total \in -(NUM_THREAD \div 2) * Loops .. (NUM_THREAD \div 2) * Loops
    /\ program = "thread3" => total \in 11 .. 55
    /\ program = "thread2" /\ created = 1 => round[0] = Rounds
=============================================================================

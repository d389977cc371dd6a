----------------------------- MODULE Semaphores -----------------------------
(***************************************************************************)
(* thread/semaphore.c: one thread scans numbers into the variable num, the *)
(* other adds them up.  sem2 counts the free places of num, sem1 the       *)
(* numbers in it.  num itself is shared without any lock, and each thread  *)
(* does what is between its sem_wait() and its sem_post() in its own time. *)
(***************************************************************************)
EXTENDS Integers, Sequences

CONSTANTS
  Numbers,   \* numbers that may be typed in
  Count      \* rounds of each thread

ASSUME SemaphoresAssumption ==
  /\ Numbers \subseteq Int
  /\ Count \in Nat

VARIABLES
  num,     \* the shared variable
  sem1,    \* numbers to be added
  sem2,    \* places for a number
  reader,  \* what thread read() does next
  writer,  \* what thread write() does next
  i, j,    \* loop variables of read() and write()
  sum,
  scanned, \* history: the values num had after each scanf()
  added    \* history: the values added to sum

vars == <<num, sem1, sem2, reader, writer, i, j, sum, scanned, added>>

\* Mutant: the place is counted twice.
FreePlacesTwo == 2

\* The initial value of sem2.
FreePlaces == 1

\* num is static: 0.
Init ==
  /\ num = 0
  /\ sem1 = 0
  /\ sem2 = FreePlaces
  /\ reader = "wait"
  /\ writer = "wait"
  /\ i = 0
  /\ j = 0
  /\ sum = 0
  /\ scanned = <<>>
  /\ added = <<>>

----------------------------------------------------------------------------
ReadWait ==
  /\ reader = "wait" /\ i < Count
  /\ sem2 > 0
  /\ sem2' = sem2 - 1
  /\ reader' = "scan"
  /\ UNCHANGED <<num, sem1, writer, i, j, sum, scanned, added>>

\* scanf() stores a number, or finds none and leaves num as it is.
Scan ==
  /\ reader = "scan"
  /\ num' \in Numbers \cup {num}
  /\ scanned' = Append(scanned, num')
  /\ reader' = "post"
  /\ UNCHANGED <<sem1, sem2, writer, i, j, sum, added>>

ReadPost ==
  /\ reader = "post"
  /\ sem1' = sem1 + 1
  /\ i' = i + 1
  /\ reader' = "wait"
  /\ UNCHANGED <<num, sem2, writer, j, sum, scanned, added>>

WriteWait ==
  /\ writer = "wait" /\ j < Count
  /\ sem1 > 0
  /\ sem1' = sem1 - 1
  /\ writer' = "add"
  /\ UNCHANGED <<num, sem2, reader, i, j, sum, scanned, added>>

Add ==
  /\ writer = "add"
  /\ sum' = sum + num
  /\ added' = Append(added, num)
  /\ writer' = "post"
  /\ UNCHANGED <<num, sem1, sem2, reader, i, j, scanned>>

WritePost ==
  /\ writer = "post"
  /\ sem2' = sem2 + 1
  /\ j' = j + 1
  /\ writer' = "wait"
  /\ UNCHANGED <<num, sem1, reader, i, sum, scanned, added>>

Reader == ReadWait \/ Scan \/ ReadPost
Writer == WriteWait \/ Add \/ WritePost

Next == Reader \/ Writer

Spec == Init /\ [][Next]_vars

----------------------------------------------------------------------------
(***************************************************************************)
(* Properties.                                                             *)
(***************************************************************************)

\* Every variable has its type.
TypeOK ==
  /\ num \in Numbers \cup {0}
  /\ sem1 \in 0 .. 1
  /\ sem2 \in 0 .. 1
  /\ reader \in {"wait", "scan", "post"}
  /\ writer \in {"wait", "add", "post"}
  /\ i \in 0 .. Count
  /\ j \in 0 .. Count
  /\ sum \in Int
  /\ scanned \in Seq(Numbers \cup {0})
  /\ added \in Seq(Numbers \cup {0})

\* The two threads are never at num at the same time, although no lock protects it.
NoRace == ~(reader = "scan" /\ writer = "add")

Channel == INSTANCE HandOff WITH
  Values <- Numbers \cup {0}, given <- scanned, taken <- added

\* Each number scanned is added once, before the next one is scanned.
ImplementsHandOff == Channel!Spec
=============================================================================

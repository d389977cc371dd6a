---------------------------- MODULE ThreadsProofs ----------------------------
(***************************************************************************)
(* Proofs about the programs of thread/.                                   *)
(*                                                                         *)
(* Semaphores, for every number of rounds and all numbers: the threads     *)
(* exclude each other at num, and the program implements HandOff.          *)
(*                                                                         *)
(* Threads, for every number of threads and rounds: under the mutex the    *)
(* counts of all threads cancel out, although each is a load and a store   *)
(* in every round; without it no more is lost than what one side counted;  *)
(* and thread2 takes the result of a thread that has ended.                *)
(***************************************************************************)
EXTENDS Semaphores, Threads, FiniteSetTheorems, TLAPS

----------------------------------------------------------------------------
(***************************************************************************)
(* The semaphores.                                                         *)
(***************************************************************************)

\* One token goes round: the free place in sem2, the reader that took it, the number in sem1,
\* the writer that took it.
Turn ==
  \/ sem2 = 1 /\ sem1 = 0 /\ reader = "wait" /\ writer = "wait"
  \/ sem2 = 0 /\ sem1 = 0 /\ reader \in {"scan", "post"} /\ writer = "wait"
  \/ sem2 = 0 /\ sem1 = 1 /\ reader = "wait" /\ writer = "wait"
  \/ sem2 = 0 /\ sem1 = 0 /\ reader = "wait" /\ writer \in {"add", "post"}

\* The reader is a round ahead while a number is on its way to the writer.
Ahead == sem1 = 1 \/ writer \in {"add", "post"}

Lag ==
  /\ i = j + (IF Ahead THEN 1 ELSE 0)
  /\ reader # "wait" => i < Count

\* What was scanned and added, at every point of the two loops.
Progress ==
  /\ Len(scanned) = i + (IF reader = "post" THEN 1 ELSE 0)
  /\ Len(added) = j + (IF writer = "post" THEN 1 ELSE 0)

\* num holds the number that is on its way.
Carried ==
  sem1 = 1 \/ writer = "add" \/ reader = "post" => num = scanned[Len(scanned)]

TokenInv == TypeOK /\ Turn /\ Lag /\ Progress /\ Carried

----------------------------------------------------------------------------
LEMMA InitTokenInv == Init => TokenInv
<1> SUFFICES ASSUME Init PROVE TokenInv
  OBVIOUS
<1>1. TypeOK
  BY SemaphoresAssumption DEF Init, FreePlaces, TypeOK
<1>2. Turn /\ Lag /\ Progress /\ Carried
  BY DEF Init, FreePlaces, Turn, Ahead, Lag, Progress, Carried
<1> QED
  BY <1>1, <1>2 DEF TokenInv

\* A thread takes or gives back a semaphore: the histories stay as they are.
LEMMA SemaphoreTokenInv ==
  ASSUME TokenInv, ReadWait \/ ReadPost \/ WriteWait \/ WritePost
  PROVE  TokenInv'
<1> USE SemaphoresAssumption DEF TokenInv
<1>1. UNCHANGED <<num, sum, scanned, added>>
  BY DEF ReadWait, ReadPost, WriteWait, WritePost
<1>2. Len(scanned) \in Nat /\ Len(added) \in Nat
  BY DEF TypeOK
<1>3. CASE ReadWait
  BY <1>1, <1>2, <1>3 DEF ReadWait, TypeOK, Turn, Ahead, Lag, Progress, Carried
<1>4. CASE ReadPost
  BY <1>1, <1>2, <1>4 DEF ReadPost, TypeOK, Turn, Ahead, Lag, Progress, Carried
<1>5. CASE WriteWait
  BY <1>1, <1>2, <1>5 DEF WriteWait, TypeOK, Turn, Ahead, Lag, Progress, Carried
<1>6. CASE WritePost
  BY <1>1, <1>2, <1>6 DEF WritePost, TypeOK, Turn, Ahead, Lag, Progress, Carried
<1> QED
  BY <1>3, <1>4, <1>5, <1>6

\* scanf() puts a number into num and into the history.
LEMMA ScanTokenInv == ASSUME TokenInv, Scan PROVE TokenInv'
<1> USE SemaphoresAssumption DEF TokenInv
<1>1. num' \in Numbers \cup {0}
  BY DEF Scan, TypeOK
<1>2. /\ scanned' \in Seq(Numbers \cup {0})
      /\ Len(scanned') = Len(scanned) + 1
      /\ scanned'[Len(scanned')] = num'
  BY <1>1 DEF Scan, TypeOK
<1>3. TypeOK'
  BY <1>1, <1>2 DEF Scan, TypeOK
<1>4. Turn' /\ Lag' /\ Progress' /\ Carried'
  BY <1>2 DEF Scan, TypeOK, Turn, Ahead, Lag, Progress, Carried
<1> QED
  BY <1>3, <1>4

\* num is added to sum and to the history.
LEMMA AddTokenInv == ASSUME TokenInv, Add PROVE TokenInv'
<1> USE SemaphoresAssumption DEF TokenInv
<1>1. /\ added' \in Seq(Numbers \cup {0})
      /\ Len(added') = Len(added) + 1
  BY DEF Add, TypeOK
<1>2. sum' \in Int
  BY DEF Add, TypeOK
<1>3. TypeOK'
  BY <1>1, <1>2 DEF Add, TypeOK
<1>4. Turn' /\ Lag' /\ Progress' /\ Carried'
  BY <1>1 DEF Add, TypeOK, Turn, Ahead, Lag, Progress, Carried
<1> QED
  BY <1>3, <1>4

\* Every reachable state of the two threads satisfies the inductive invariant.
THEOREM TokenInvariance == Spec => []TokenInv
<1>1. TokenInv /\ [Next]_vars => TokenInv'
  <2> SUFFICES ASSUME TokenInv, [Next]_vars PROVE TokenInv'
    OBVIOUS
  <2>1. CASE Next
    BY <2>1, SemaphoreTokenInv, ScanTokenInv, AddTokenInv DEF Next, Reader, Writer
  <2>2. CASE UNCHANGED vars
    BY <2>2 DEF vars, TokenInv, TypeOK, Turn, Ahead, Lag, Progress, Carried
  <2> QED
    BY <2>1, <2>2
<1> QED
  BY <1>1, InitTokenInv, PTL DEF Spec

\* The two threads are never at num at the same time.
THEOREM RaceFree == Spec => []NoRace
<1>1. TokenInv => NoRace
  BY DEF TokenInv, Turn, NoRace
<1> QED
  BY <1>1, TokenInvariance, PTL

----------------------------------------------------------------------------
(***************************************************************************)
(* The refinement of HandOff.                                              *)
(***************************************************************************)

\* scanf() gives a value, the addition takes it, and every other step is a stutter.
LEMMA StepHandsOff ==
  ASSUME TokenInv, [Next]_vars
  PROVE  [Channel!Next]_Channel!vars
<1> USE SemaphoresAssumption DEF TokenInv
<1>1. CASE Scan
  <2>1. num' \in Numbers \cup {0}
    BY <1>1 DEF Scan, TypeOK
  <2>2. Len(scanned) < Count /\ Len(added) = Len(scanned)
    BY <1>1 DEF Scan, TypeOK, Turn, Ahead, Lag, Progress
  <2>3. Channel!Give(num')
    BY <1>1, <2>2 DEF Scan, Channel!Give
  <2> QED
    BY <2>1, <2>3 DEF Channel!Next
<1>2. CASE Add
  <2>1. Len(added) + 1 = Len(scanned) /\ num = scanned[Len(scanned)]
    BY <1>2 DEF Add, TypeOK, Turn, Ahead, Lag, Progress, Carried
  <2>2. Len(added) < Len(scanned) /\ num = scanned[Len(added) + 1]
    BY <2>1 DEF TypeOK
  <2>3. Channel!Take
    BY <1>2, <2>2 DEF Add, Channel!Take
  <2> QED
    BY <2>3 DEF Channel!Next
<1>3. CASE ReadWait \/ ReadPost \/ WriteWait \/ WritePost \/ UNCHANGED vars
  BY <1>3 DEF ReadWait, ReadPost, WriteWait, WritePost, vars, Channel!vars
<1> QED
  BY <1>1, <1>2, <1>3 DEF Next, Reader, Writer

\* Each number scanned is added once, in order, before the next one is scanned.
THEOREM Refines == Spec => ImplementsHandOff
<1>1. Init => Channel!Init
  BY DEF Init, Channel!Init
<1>2. TokenInv /\ [Next]_vars => [Channel!Next]_Channel!vars
  BY StepHandsOff
<1> QED
  BY <1>1, <1>2, TokenInvariance, PTL DEF Spec, ImplementsHandOff, Channel!Spec

----------------------------------------------------------------------------
(***************************************************************************)
(* The threads that add to one number.                                     *)
(***************************************************************************)

Inc == {t \in Indices : t % 2 = 0}
Dec == {t \in Indices : t % 2 # 0}
Done(S) == {t \in S : step[t] = "done"}

\* What the threads that have ended counted, in rounds of a thread.
Net == Cardinality(Done(Inc)) - Cardinality(Done(Dec))

\* What the thread that holds the mutex has counted up to now.
Current ==
  IF mutex = NoThread THEN 0 ELSE IF mutex % 2 = 0 THEN round[mutex] ELSE -round[mutex]

\* main creates all threads, then joins them one after the other.
MainOrder ==
  /\ created <= Number
  /\ main = "create" => created < Number /\ joined = 0
  /\ main = "join" => joined < Number
  /\ main = "end" /\ program # "thread1" /\ ~(program = "thread2" /\ created = 0) =>
       joined = Number
  /\ main = "sleep" => program = "thread1"
  /\ \A t \in Indices : t >= created => step[t] = "none"
  /\ \A t \in Indices : t < joined => step[t] = "done"

\* A thread ends after its last round.
RoundOrder ==
  \A t \in Indices :
    /\ round[t] <= Rounds
    /\ step[t] \in {"none", "lock"} => round[t] = 0
    /\ step[t] = "store" => round[t] < Rounds
    /\ step[t] = "done" => round[t] = Rounds

\* The holder of the mutex is the one thread in its loop; between load and store the number
\* does not change.
Exclusion ==
  program = "mutex" =>
    \A t \in Indices :
      /\ step[t] \in {"loop", "store"} => mutex = t
      /\ mutex = t => step[t] \in {"loop", "store"}
      /\ step[t] = "store" => register[t] = total

Exact == program = "mutex" => total = Loops * Net + Current

IInv == ThreadTypeOK /\ program \in ThreadPrograms /\ MainOrder /\ RoundOrder /\ Exclusion

----------------------------------------------------------------------------
(***************************************************************************)
(* The threads that count up are as many as those that count down.         *)
(***************************************************************************)

LEMMA IndicesFinite == IsFiniteSet(Indices) /\ IsFiniteSet(Inc) /\ IsFiniteSet(Dec)
<1>1. NUM_THREAD - 1 \in Int
  BY ThreadsAssumption
<1>2. IsFiniteSet(Indices)
  BY <1>1, FS_Interval DEF Indices
<1>3. Inc \in SUBSET Indices /\ Dec \in SUBSET Indices
  BY DEF Inc, Dec
<1> QED
  BY <1>2, <1>3, FS_Subset

LEMMA AsMany == Cardinality(Inc) = Cardinality(Dec)
<1> DEFINE f == [t \in Inc |-> t + 1]
<1>1. \A t \in Inc : t + 1 \in Dec
  BY ThreadsAssumption, SMT DEF Inc, Dec, Indices
<1>2. \A t \in Dec : t - 1 \in Inc
  BY ThreadsAssumption, SMT DEF Inc, Dec, Indices
<1>3. f \in Injection(Inc, Dec)
  <2>1. f \in [Inc -> Dec]
    BY <1>1
  <2>2. \A s, t \in Inc : f[s] = f[t] => s = t
    BY DEF Inc, Indices
  <2> QED
    BY <2>1, <2>2 DEF Injection, IsInjective
<1>4. f \in Surjection(Inc, Dec)
  <2>1. f \in [Inc -> Dec]
    BY <1>1
  <2>2. \A d \in Dec : \E t \in Inc : f[t] = d
    <3> SUFFICES ASSUME NEW d \in Dec PROVE \E t \in Inc : f[t] = d
      OBVIOUS
    <3>1. d - 1 \in Inc /\ f[d - 1] = d
      BY <1>2 DEF Dec, Indices
    <3> QED
      BY <3>1
  <2> QED
    BY <2>1, <2>2 DEF Surjection
<1>5. ExistsBijection(Inc, Dec)
  BY <1>3, <1>4 DEF ExistsBijection, Bijection
<1> QED
  BY <1>5, IndicesFinite, FS_Bijection

LEMMA NetType == Net \in Int
<1>1. IsFiniteSet(Done(Inc)) /\ IsFiniteSet(Done(Dec))
  BY IndicesFinite, FS_Subset DEF Done
<1>2. Cardinality(Done(Inc)) \in Nat /\ Cardinality(Done(Dec)) \in Nat
  BY <1>1, FS_CardinalityType
<1> QED
  BY <1>2 DEF Net

----------------------------------------------------------------------------
(***************************************************************************)
(* Who does what when.                                                     *)
(***************************************************************************)

LEMMA InitIInv ==
  ASSUME program \in ThreadPrograms, ThreadInit
  PROVE  IInv
<1> USE ThreadsAssumption DEF IInv, ThreadInit
<1>1. Number \in Nat /\ 0 < Number /\ Number <= NUM_THREAD /\ Rounds \in Nat
  BY DEF Number, Rounds, ThreadPrograms
<1>2. ThreadTypeOK
  BY DEF ThreadTypeOK
<1>3. MainOrder
  BY <1>1 DEF MainOrder, Indices
<1>4. RoundOrder
  BY <1>1 DEF RoundOrder
<1>5. Exclusion
  BY DEF Exclusion, Indices
<1> QED
  BY <1>2, <1>3, <1>4, <1>5

LEMMA NumberType ==
  Number \in Nat /\ 1 <= Number /\ Number <= NUM_THREAD /\ Rounds \in Nat
BY ThreadsAssumption DEF Number, Rounds

LEMMA MainIInv ==
  ASSUME IInv, MainThread, UNCHANGED program
  PROVE  IInv'
<1> USE ThreadsAssumption, NumberType DEF IInv
<1>1. Number' = Number /\ Rounds' = Rounds
  BY DEF Number, Rounds
<1>2. CASE CreateThread
  <2>1. created \in Indices /\ step[created] = "none" /\ round[created] = 0
    BY <1>2 DEF CreateThread, MainOrder, RoundOrder, ThreadTypeOK, Indices
  <2>2. step' = [step EXCEPT ![created] = IF program = "mutex" THEN "lock" ELSE "loop"]
    BY <1>2 DEF CreateThread
  <2>3. ThreadTypeOK'
    BY <1>2, <2>1 DEF CreateThread, ThreadTypeOK, MainOrder
  <2>4. MainOrder'
    BY <1>1, <1>2, <2>1 DEF CreateThread, ThreadTypeOK, MainOrder, Indices
  <2>5. RoundOrder'
    BY <1>1, <1>2, <2>1 DEF CreateThread, ThreadTypeOK, RoundOrder
  <2>6. Exclusion'
    BY <1>2, <2>1 DEF CreateThread, ThreadTypeOK, Exclusion
  <2> QED
    BY <2>3, <2>4, <2>5, <2>6
<1>3. CASE CreateFails
  BY <1>1, <1>3 DEF CreateFails, ThreadTypeOK, MainOrder, RoundOrder, Exclusion, Lone, Number
<1>4. CASE Join
  <2>1. joined < Number /\ joined \in Indices /\ step[joined] = "done"
    BY <1>4 DEF Join, JoinedBy, MainOrder, ThreadTypeOK, Indices
  <2>2. ThreadTypeOK'
    BY <1>4, <2>1 DEF Join, ThreadTypeOK
  <2>3. MainOrder'
    BY <1>1, <1>4, <2>1 DEF Join, ThreadTypeOK, MainOrder, Indices
  <2>4. RoundOrder' /\ Exclusion'
    BY <1>1, <1>4 DEF Join, RoundOrder, Exclusion
  <2> QED
    BY <2>2, <2>3, <2>4
<1>5. CASE SleepEnds
  BY <1>1, <1>5 DEF SleepEnds, ThreadTypeOK, MainOrder, RoundOrder, Exclusion
<1> QED
  BY <1>2, <1>3, <1>4, <1>5 DEF MainThread

LEMMA ThreadIInv ==
  ASSUME IInv, NEW t \in Indices, Thread(t), UNCHANGED program
  PROVE  IInv'
<1> USE ThreadsAssumption, NumberType DEF IInv
<1>1. Number' = Number /\ Rounds' = Rounds
  BY DEF Number, Rounds
<1>2. /\ UNCHANGED <<main, created, joined>>
      /\ \A s \in Indices : s # t =>
           step'[s] = step[s] /\ round'[s] = round[s] /\ register'[s] = register[s]
      /\ step[t] \in {"lock", "loop", "store"} /\ step'[t] \in {"loop", "store", "done"}
  BY DEF Thread, Lock, Work, Load, Store, Return, ThreadAt, ThreadTypeOK
<1>3. Addend(t, round[t]) \in Int
  BY DEF Addend, Indices, ThreadTypeOK
<1>4. ThreadTypeOK'
  BY <1>3 DEF Thread, Lock, Work, Load, Store, Return, ThreadTypeOK
<1>5. MainOrder'
  BY <1>1, <1>2 DEF MainOrder
<1>6. RoundOrder'
  <2>1. /\ round'[t] <= Rounds
        /\ step'[t] = "store" => round'[t] < Rounds
        /\ step'[t] = "done" => round'[t] = Rounds
    BY DEF Thread, Lock, Work, Load, Store, Return, ThreadAt, ThreadTypeOK, RoundOrder
  <2> QED
    BY <1>1, <1>2, <2>1 DEF RoundOrder
<1>7. Exclusion'
  <2> SUFFICES ASSUME program = "mutex" PROVE Exclusion'
    BY DEF Exclusion
  <2> USE DEF ThreadAt, ThreadTypeOK, Exclusion
  <2>1. NoThread \notin Indices
    BY DEF Indices
  <2>2. CASE Lock(t)
    BY <1>2, <2>1, <2>2 DEF Lock, MutexFree
  <2>3. CASE Work(t)
    BY <2>3 DEF Work, Lone
  <2>4. CASE Load(t)
    BY <1>2, <2>4 DEF Load
  <2>5. CASE Store(t)
    BY <1>2, <2>5 DEF Store
  <2>6. CASE Return(t)
    BY <1>2, <2>1, <2>6 DEF Return
  <2> QED
    BY <2>2, <2>3, <2>4, <2>5, <2>6 DEF Thread
<1> QED
  BY <1>4, <1>5, <1>6, <1>7

----------------------------------------------------------------------------
(***************************************************************************)
(* What is counted.                                                        *)
(***************************************************************************)

\* A step in which no thread ends and nothing is counted.
LEMMA NothingCounted ==
  ASSUME IInv, Exact, UNCHANGED <<program, total>>,
         \A t \in Indices : step'[t] = "done" <=> step[t] = "done",
         Current' = Current
  PROVE  Exact'
<1>1. Done(Inc)' = Done(Inc) /\ Done(Dec)' = Done(Dec)
  BY DEF Done, Inc, Dec
<1> QED
  BY <1>1 DEF Exact, Net

LEMMA InitExact ==
  ASSUME ThreadInit
  PROVE  Exact
<1>1. Done(Inc) = {} /\ Done(Dec) = {}
  BY DEF ThreadInit, Done, Inc, Dec
<1>2. Net = 0
  BY <1>1, FS_EmptySet DEF Net
<1> QED
  BY <1>2, ThreadsAssumption DEF Exact, Current, ThreadInit

LEMMA MainExact ==
  ASSUME IInv, Exact, MainThread, UNCHANGED program
  PROVE  Exact'
<1>1. UNCHANGED <<round, total, mutex>>
  BY DEF MainThread, CreateThread, CreateFails, Join, SleepEnds
<1>2. \A t \in Indices : step'[t] = "done" <=> step[t] = "done"
  <2>1. CASE CreateThread
    <3>1. created \in Indices /\ step[created] = "none"
      BY <2>1, ThreadsAssumption, NumberType
         DEF IInv, ThreadTypeOK, MainOrder, Indices, CreateThread
    <3>2. step'[created] \in {"lock", "loop"}
          /\ \A t \in Indices : t # created => step'[t] = step[t]
      BY <2>1, <3>1 DEF IInv, ThreadTypeOK, CreateThread
    <3> QED
      BY <3>1, <3>2
  <2>2. CASE CreateFails \/ Join \/ SleepEnds
    BY <2>2 DEF CreateFails, Join, SleepEnds
  <2> QED
    BY <2>1, <2>2 DEF MainThread
<1> QED
  BY <1>1, <1>2, NothingCounted DEF Current

LEMMA ThreadExact ==
  ASSUME IInv, Exact, NEW t \in Indices, Thread(t), UNCHANGED program
  PROVE  Exact'
<1> SUFFICES ASSUME program = "mutex" PROVE Exact'
  BY DEF Exact
<1> USE DEF IInv
<1>1. t # NoThread /\ t \in Nat /\ round[t] \in Nat /\ Rounds = Loops /\ Loops \in Nat
      /\ NoThread \notin Indices
  BY ThreadsAssumption DEF Indices, ThreadTypeOK, Rounds, Counters
<1>2. CASE Lock(t)
  <2>1. Current' = Current
    BY <1>1, <1>2 DEF Lock, MutexFree, ThreadAt, Current, RoundOrder
  <2> QED
    BY <1>2, <2>1, NothingCounted DEF Lock, ThreadAt, ThreadTypeOK
<1>3. CASE Work(t)
  BY <1>3 DEF Work, Lone
<1>4. CASE Load(t)
  <2>1. Current' = Current
    BY <1>4 DEF Load, Current
  <2> QED
    BY <1>4, <2>1, NothingCounted DEF Load, ThreadAt, ThreadTypeOK
<1>5. CASE Store(t)
  <2>1. mutex = t /\ register[t] = total /\ mutex' = t /\ round'[t] = round[t] + 1
    BY <1>5 DEF Store, ThreadAt, Exclusion, ThreadTypeOK
  <2>2. total' = total + (IF t % 2 = 0 THEN 1 ELSE -1)
    BY <1>5, <2>1 DEF Store, Addend
  <2>3. Current' = Current + (IF t % 2 = 0 THEN 1 ELSE -1)
    BY <1>1, <2>1 DEF Current
  <2>4. \A s \in Indices : step'[s] = "done" <=> step[s] = "done"
    BY <1>5 DEF Store, ThreadAt, ThreadTypeOK
  <2>5. Net' = Net
    <3>1. Done(Inc)' = Done(Inc) /\ Done(Dec)' = Done(Dec)
      BY <2>4 DEF Done, Inc, Dec
    <3> QED
      BY <3>1 DEF Net
  <2>6. Current \in Int /\ Loops * Net \in Int
    BY <1>1, <2>1, NetType DEF Current
  <2> QED
    BY <2>2, <2>3, <2>5, <2>6 DEF Exact
<1>6. CASE Return(t)
  <2>1. mutex = t /\ mutex' = NoThread /\ round[t] = Loops /\ total' = total
    BY <1>1, <1>6 DEF Return, ThreadAt, Exclusion
  <2>2. step[t] # "done" /\ step' = [step EXCEPT ![t] = "done"]
    BY <1>6 DEF Return, ThreadAt
  <2>3. IsFiniteSet(Done(Inc)) /\ IsFiniteSet(Done(Dec))
    BY IndicesFinite, FS_Subset DEF Done
  <2>4. Cardinality(Done(Inc)) \in Nat /\ Cardinality(Done(Dec)) \in Nat
    BY <2>3, FS_CardinalityType
  <2>5. t \notin Done(Inc) /\ t \notin Done(Dec)
    BY <2>2 DEF Done
  <2>6. CASE t % 2 = 0
    <3>1. Done(Inc)' = Done(Inc) \cup {t} /\ Done(Dec)' = Done(Dec)
      BY <2>2, <2>6 DEF Done, Inc, Dec, ThreadTypeOK
    <3>2. Net' = Net + 1
      <4>1. Cardinality(Done(Inc) \cup {t}) = Cardinality(Done(Inc)) + 1
        BY <2>3, <2>5, FS_AddElement
      <4> QED
        BY <2>4, <3>1, <4>1 DEF Net
    <3>3. Current = Loops /\ Current' = 0
      BY <1>1, <2>1, <2>6 DEF Current
    <3>4. Loops * (Net + 1) = Loops * Net + Loops
      BY <1>1, NetType
    <3> QED
      BY <1>1, <2>1, <3>2, <3>3, <3>4, NetType DEF Exact
  <2>7. CASE t % 2 # 0
    <3>1. Done(Dec)' = Done(Dec) \cup {t} /\ Done(Inc)' = Done(Inc)
      BY <2>2, <2>7 DEF Done, Inc, Dec, ThreadTypeOK
    <3>2. Net' = Net - 1
      <4>1. Cardinality(Done(Dec) \cup {t}) = Cardinality(Done(Dec)) + 1
        BY <2>3, <2>5, FS_AddElement
      <4> QED
        BY <2>4, <3>1, <4>1 DEF Net
    <3>3. Current = -Loops /\ Current' = 0
      BY <1>1, <2>1, <2>7 DEF Current
    <3>4. Loops * (Net - 1) = Loops * Net - Loops
      BY <1>1, NetType
    <3> QED
      BY <1>1, <2>1, <3>2, <3>3, <3>4, NetType DEF Exact
  <2> QED
    BY <2>6, <2>7
<1> QED
  BY <1>2, <1>3, <1>4, <1>5, <1>6 DEF Thread

----------------------------------------------------------------------------
(***************************************************************************)
(* thread4: the threads that count up have counted Rise, the others Fall.  *)
(* Whatever is lost, the number stays between them.                        *)
(***************************************************************************)

\* The rounds that the threads of S have made.
Counted(S) == {r \in S \X (0 .. Loops - 1) : r[2] < round[r[1]]}

Rise == Cardinality(Counted(Inc))
Fall == Cardinality(Counted(Dec))

Drift ==
  program = "thread4" =>
    /\ -Fall <= total /\ total <= Rise
    /\ \A t \in Indices : step[t] = "store" => -Fall <= register[t] /\ register[t] <= Rise

LEMMA CountedFinite ==
  ASSUME NEW S \in {Inc, Dec}
  PROVE  /\ IsFiniteSet(S \X (0 .. Loops - 1))
         /\ Cardinality(S \X (0 .. Loops - 1)) = Cardinality(S) * Loops
         /\ IsFiniteSet(Counted(S)) /\ Cardinality(Counted(S)) \in Nat
<1>1. 0 \in Int /\ Loops - 1 \in Int /\ Loops \in Nat
  BY ThreadsAssumption
<1>2. IsFiniteSet(0 .. Loops - 1) /\ Cardinality(0 .. Loops - 1) = Loops
  BY <1>1, FS_Interval
<1>3. IsFiniteSet(S)
  BY IndicesFinite
<1>4. /\ IsFiniteSet(S \X (0 .. Loops - 1))
      /\ Cardinality(S \X (0 .. Loops - 1)) = Cardinality(S) * Loops
  BY <1>2, <1>3, FS_Product
<1>5. IsFiniteSet(Counted(S))
  <2>1. Counted(S) \in SUBSET (S \X (0 .. Loops - 1))
    BY DEF Counted
  <2> QED
    BY <1>4, <2>1, FS_Subset
<1> QED
  BY <1>4, <1>5, FS_CardinalityType

\* As each side has half of the threads, it makes no more than its half of all rounds.
LEMMA HalfEach ==
  /\ Rise \in Nat /\ Rise <= (NUM_THREAD \div 2) * Loops
  /\ Fall \in Nat /\ Fall <= (NUM_THREAD \div 2) * Loops
<1>1. /\ IsFiniteSet(Inc) /\ IsFiniteSet(Dec)
      /\ Cardinality(Inc) \in Nat /\ Cardinality(Dec) \in Nat
  BY IndicesFinite, FS_CardinalityType
<1>2. Cardinality(Inc) = NUM_THREAD \div 2
  <2>1. Inc \cup Dec = Indices /\ Inc \cap Dec = {}
    BY DEF Inc, Dec
  <2>2. Cardinality(Inc \cap Dec) = 0
    BY <2>1, FS_EmptySet
  <2>3. Cardinality(Inc \cup Dec) = Cardinality(Inc) + Cardinality(Dec)
    <3>1. Cardinality(Inc \cup Dec) =
            Cardinality(Inc) + Cardinality(Dec) - Cardinality(Inc \cap Dec)
      BY <1>1, FS_Union
    <3> QED
      BY <1>1, <2>2, <3>1
  <2>4. Cardinality(Indices) = NUM_THREAD
    <3>1. 0 \in Int /\ NUM_THREAD - 1 \in Int /\ NUM_THREAD >= 2
      BY ThreadsAssumption
    <3> QED
      BY <3>1, FS_Interval, ThreadsAssumption DEF Indices
  <2>5. Cardinality(Inc \cup Dec) = NUM_THREAD
    BY <2>1, <2>4, Zenon
  <2> QED
    BY <1>1, <2>3, <2>5, AsMany
<1>3. ASSUME NEW S \in {Inc, Dec}
      PROVE  Cardinality(Counted(S)) <= (NUM_THREAD \div 2) * Loops
  <2>1. Counted(S) \in SUBSET (S \X (0 .. Loops - 1))
    BY DEF Counted
  <2>2. Cardinality(Counted(S)) <= Cardinality(S \X (0 .. Loops - 1))
    BY <2>1, CountedFinite, FS_Subset
  <2>3. Cardinality(S) = NUM_THREAD \div 2
    BY <1>2, AsMany
  <2> QED
    BY <2>2, <2>3, CountedFinite
<1> QED
  BY <1>3, CountedFinite DEF Rise, Fall

\* A step in which no round ends and nothing is stored.
LEMMA NothingStored ==
  ASSUME IInv, Drift, UNCHANGED <<program, total, round>>,
         \A t \in Indices :
           step'[t] = "store" => register'[t] = total \/ (step[t] = "store" /\ register'[t] = register[t])
  PROVE  Drift'
<1>1. Rise' = Rise /\ Fall' = Fall
  BY DEF Rise, Fall, Counted
<1> QED
  BY <1>1 DEF Drift

\* Thread t ends a round: its side has counted one more.
LEMMA OneMore ==
  ASSUME IInv, NEW t \in Indices, Store(t), program = "thread4"
  PROVE  /\ t % 2 = 0 => Rise' = Rise + 1 /\ Fall' = Fall
         /\ t % 2 # 0 => Fall' = Fall + 1 /\ Rise' = Rise
<1> USE DEF IInv
<1>1. round[t] \in 0 .. Loops - 1 /\ round' = [round EXCEPT ![t] = @ + 1]
      /\ round \in [Indices -> Nat]
  BY ThreadsAssumption DEF Store, ThreadAt, RoundOrder, ThreadTypeOK, Rounds, Counters
<1>2. ASSUME NEW S \in {Inc, Dec}, t \in S
      PROVE  Cardinality(Counted(S)') = Cardinality(Counted(S)) + 1
  <2> DEFINE r == <<t, round[t]>>
  <2>1. S \subseteq Indices
    BY DEF Inc, Dec
  <2>2. r \notin Counted(S)
    BY <1>1 DEF Counted
  <2>3. Counted(S)' = Counted(S) \cup {r}
    BY <1>1, <1>2, <2>1 DEF Counted
  <2> HIDE DEF r
  <2>4. IsFiniteSet(Counted(S))
    BY CountedFinite
  <2>5. Cardinality(Counted(S) \cup {r}) = Cardinality(Counted(S)) + 1
    BY <2>2, <2>4, FS_AddElement
  <2> QED
    BY <2>3, <2>5
<1>3. ASSUME NEW S \in {Inc, Dec}, t \notin S
      PROVE  Counted(S)' = Counted(S)
  BY <1>1, <1>3 DEF Counted, Inc, Dec
<1>4. Inc' = Inc /\ Dec' = Dec
  BY DEF Inc, Dec
<1>5. CASE t % 2 = 0
  BY <1>2, <1>3, <1>4, <1>5 DEF Inc, Dec, Rise, Fall
<1>6. CASE t % 2 # 0
  BY <1>2, <1>3, <1>4, <1>6 DEF Inc, Dec, Rise, Fall
<1> QED
  BY <1>5, <1>6

LEMMA InitDrift ==
  ASSUME ThreadInit
  PROVE  Drift
<1>1. Rise \in Nat /\ Fall \in Nat
  BY HalfEach
<1> QED
  BY <1>1 DEF ThreadInit, Drift

LEMMA MainDrift ==
  ASSUME IInv, Drift, MainThread, UNCHANGED program
  PROVE  Drift'
<1>1. UNCHANGED <<round, register, total>>
      /\ \A t \in Indices : step'[t] = "store" => step[t] = "store"
  BY DEF MainThread, CreateThread, CreateFails, Join, SleepEnds, IInv, ThreadTypeOK
<1> QED
  BY <1>1, NothingStored

LEMMA ThreadDrift ==
  ASSUME IInv, Drift, NEW t \in Indices, Thread(t), UNCHANGED program
  PROVE  Drift'
<1> SUFFICES ASSUME program = "thread4" PROVE Drift'
  BY DEF Drift
<1>1. CASE Lock(t) \/ Load(t) \/ Return(t)
  <2>1. UNCHANGED <<round, total>>
        /\ \A s \in Indices :
             step'[s] = "store" => register'[s] = total \/ (step[s] = "store" /\ register'[s] = register[s])
    BY <1>1 DEF Lock, Load, Return, IInv, ThreadTypeOK
  <2> QED
    BY <2>1, NothingStored
<1>2. CASE Work(t)
  BY <1>2 DEF Work, Lone
<1>3. CASE Store(t)
  <2>1. /\ Rise \in Nat /\ Fall \in Nat /\ total \in Int
        /\ \A s \in Indices : register[s] \in Int
    BY HalfEach DEF IInv, ThreadTypeOK
  <2>2. -Fall <= register[t] /\ register[t] <= Rise
    BY <1>3 DEF Drift, Store, ThreadAt
  <2>3. total' = register[t] + (IF t % 2 = 0 THEN 1 ELSE -1)
    BY <1>3 DEF Store, Addend
  <2>4. \A s \in Indices : step'[s] = "store" => step[s] = "store" /\ register'[s] = register[s]
    BY <1>3 DEF Store, IInv, ThreadTypeOK
  <2>5. \A s \in Indices : step'[s] = "store" => -Fall <= register'[s] /\ register'[s] <= Rise
    BY <2>4 DEF Drift
  <2>6. Rise <= Rise' /\ Fall <= Fall' /\ -Fall' <= total' /\ total' <= Rise'
        /\ Rise' \in Nat /\ Fall' \in Nat
    BY <1>3, <2>1, <2>2, <2>3, OneMore
  <2>7. \A s \in Indices : step'[s] = "store" => register'[s] \in Int
    BY <2>1, <2>4
  <2> QED
    BY <2>1, <2>5, <2>6, <2>7 DEF Drift
<1> QED
  BY <1>1, <1>2, <1>3 DEF Thread

----------------------------------------------------------------------------
(***************************************************************************)
(* thread3: what the threads have added at most, and what must be left     *)
(* when one has overwritten the other's sums.                              *)
(***************************************************************************)

\* 1 + ... + k.
SumTo(k) ==
  CASE k = 0 -> 0 [] k = 1 -> 1 [] k = 2 -> 3 [] k = 3 -> 6 [] k = 4 -> 10 [] OTHER -> 15

Most == SumTo(round[0]) + SumTo(round[1]) + 5 * round[1]

\* What thread 0 loads after its first k rounds is no less than it has added, or than 6, what
\* thread 1 stores at least.
Left(k) == IF k < 3 THEN SumTo(k) ELSE 6

Summed ==
  program = "thread3" =>
    /\ total \in Left(round[0]) .. Most
    /\ round[1] >= 1 => total >= 1
    /\ step[0] = "store" => register[0] \in Left(round[0]) .. Most
    /\ step[1] = "store" => register[1] \in 0 .. Most /\ (round[1] >= 1 => register[1] >= 1)
    /\ round[0] = 5 /\ round[1] = 5 => total >= 11

LEMMA TwoThreads ==
  /\ 0 \in Indices /\ 1 \in Indices
  /\ program = "thread3" /\ IInv =>
       /\ round[0] \in 0 .. 5 /\ round[1] \in 0 .. 5
       /\ step[0] = "store" => round[0] < 5
       /\ step[1] = "store" => round[1] < 5
       /\ \A t \in Indices : t \notin {0, 1} => step[t] = "none"
       /\ total \in Int /\ register[0] \in Int /\ register[1] \in Int
<1>1. 0 \in Indices /\ 1 \in Indices
  BY ThreadsAssumption DEF Indices
<1>2. ASSUME program = "thread3", IInv
      PROVE  \A t \in Indices : t \notin {0, 1} => step[t] = "none"
  <2>1. created <= 2
    BY <1>2, ThreadsAssumption DEF IInv, MainOrder, ThreadTypeOK, Number, Lone
  <2> QED
    BY <1>2, <2>1 DEF IInv, MainOrder, ThreadTypeOK, Indices
<1>3. program = "thread3" => Rounds = 5
  BY DEF Rounds, Counters
<1> QED
  BY <1>1, <1>2, <1>3 DEF IInv, RoundOrder, ThreadTypeOK

LEMMA InitSummed ==
  ASSUME ThreadInit
  PROVE  Summed
<1>1. round[0] = 0 /\ round[1] = 0 /\ step[0] = "none" /\ step[1] = "none" /\ total = 0
  BY TwoThreads DEF ThreadInit
<1> QED
  BY <1>1 DEF Summed, Left, Most, SumTo

\* A step in which no round ends and nothing is stored.
LEMMA NothingAdded ==
  ASSUME IInv, Summed, UNCHANGED <<program, total, round>>,
         \A t \in {0, 1} :
           step'[t] = "store" => register'[t] = total \/ (step[t] = "store" /\ register'[t] = register[t])
  PROVE  Summed'
<1> SUFFICES ASSUME program = "thread3" PROVE Summed'
  BY DEF Summed
<1>1. round[0] \in 0 .. 5 /\ round[1] \in 0 .. 5
  BY TwoThreads
<1>2. Left(round[0]) \in Nat /\ Most \in Nat
  BY <1>1 DEF Left, Most, SumTo
<1>3. total \in 0 .. Most
  BY <1>2 DEF Summed
<1>4. Left(round'[0]) = Left(round[0]) /\ Most' = Most
  BY DEF Most
<1> QED
  BY <1>2, <1>3, <1>4 DEF Summed

LEMMA MainSummed ==
  ASSUME IInv, Summed, MainThread, UNCHANGED program
  PROVE  Summed'
<1>1. UNCHANGED <<round, register, total>>
      /\ \A t \in {0, 1} : step'[t] = "store" => step[t] = "store"
  BY TwoThreads DEF MainThread, CreateThread, CreateFails, Join, SleepEnds, IInv, ThreadTypeOK
<1> QED
  BY <1>1, NothingAdded

LEMMA ThreadSummed ==
  ASSUME IInv, Summed, NEW t \in Indices, Thread(t), UNCHANGED program
  PROVE  Summed'
<1> SUFFICES ASSUME program = "thread3" PROVE Summed'
  BY DEF Summed
<1>1. CASE Lock(t) \/ Load(t) \/ Return(t)
  <2>1. UNCHANGED <<round, total>>
        /\ \A s \in {0, 1} :
             step'[s] = "store" => register'[s] = total \/ (step[s] = "store" /\ register'[s] = register[s])
    BY <1>1, TwoThreads DEF Lock, Load, Return, IInv, ThreadTypeOK
  <2> QED
    BY <2>1, NothingAdded
<1>2. CASE Work(t)
  BY <1>2 DEF Work, Lone
<1>3. CASE Store(t)
  <2>1. t \in {0, 1} /\ step[t] = "store" /\ round[t] \in 0 .. 4
    BY <1>3, TwoThreads DEF Store, ThreadAt
  <2>2. /\ step'[t] = "loop" /\ round'[t] = round[t] + 1
        /\ total' = register[t] + (5 * t + round[t] + 1)
        /\ \A s \in {0, 1} : s # t =>
             step'[s] = step[s] /\ round'[s] = round[s] /\ register'[s] = register[s]
    BY <1>3, <2>1, TwoThreads DEF Store, Addend, IInv, ThreadTypeOK
  <2>3. /\ round[0] \in 0 .. 5 /\ round[1] \in 0 .. 5
        /\ total \in Int /\ register[0] \in Int /\ register[1] \in Int
    BY TwoThreads
  <2>4. CASE t = 0
    <3>1. /\ Left(round'[0]) \in Nat /\ Left(round[0]) <= Left(round'[0])
          /\ Left(round'[0]) <= Left(round[0]) + round[0] + 1
          /\ SumTo(round'[0]) = SumTo(round[0]) + round[0] + 1
          /\ Left(round[0]) \in Nat /\ SumTo(round[0]) \in Nat /\ SumTo(round[1]) \in Nat
          /\ round[0] = 4 => Left(round[0]) = 6
      BY <2>1, <2>2, <2>3, <2>4 DEF Left, SumTo
    <3>2. Most' = Most + round[0] + 1 /\ Most \in Nat
      BY <2>2, <2>3, <2>4, <3>1 DEF Most
    <3> QED
      BY <2>1, <2>2, <2>3, <2>4, <3>1, <3>2 DEF Summed
  <2>5. CASE t = 1
    <3>1. /\ SumTo(round'[1]) = SumTo(round[1]) + round[1] + 1
          /\ Left(round[0]) \in 0 .. 6 /\ SumTo(round[0]) \in Nat /\ SumTo(round[1]) \in Nat
      BY <2>1, <2>2, <2>3, <2>5 DEF Left, SumTo
    <3>2. Most' = Most + round[1] + 6 /\ Most \in Nat
      BY <2>2, <2>3, <2>5, <3>1 DEF Most
    <3> QED
      BY <2>1, <2>2, <2>3, <2>5, <3>1, <3>2 DEF Summed
  <2> QED
    BY <2>1, <2>4, <2>5
<1> QED
  BY <1>1, <1>2, <1>3 DEF Thread

----------------------------------------------------------------------------
\* Of the programs with threads: what is counted is known at every step.
Counts == Exact /\ Drift /\ Summed

LEMMA StutterIInv ==
  ASSUME IInv, Counts, UNCHANGED <<program, threadVars>>
  PROVE  IInv' /\ Counts'
<1>1. IInv'
  BY DEF threadVars, IInv, ThreadTypeOK, MainOrder, RoundOrder, Exclusion, Number, Rounds
<1>2. Current' = Current
  BY DEF threadVars, Current
<1>3. Exact' /\ Drift' /\ Summed'
  BY <1>2, NothingCounted, NothingStored, NothingAdded DEF threadVars, Counts
<1> QED
  BY <1>1, <1>3 DEF Counts

LEMMA Inductive == ThreadSpec => [](IInv /\ Counts)
<1>1. program \in ThreadPrograms /\ ThreadInit => IInv /\ Counts
  BY InitIInv, InitExact, InitDrift, InitSummed DEF Counts
<1>2. IInv /\ Counts /\ [ThreadNext]_<<program, threadVars>> => (IInv /\ Counts)'
  BY MainIInv, MainExact, MainDrift, MainSummed, ThreadIInv, ThreadExact, ThreadDrift,
     ThreadSummed, StutterIInv DEF ThreadNext, Counts
<1> QED
  BY <1>1, <1>2, PTL DEF ThreadSpec

\* Every variable of the programs of threads keeps its type.
THEOREM TypeCorrect == ThreadSpec => []ThreadTypeOK
<1>1. IInv => ThreadTypeOK
  BY DEF IInv
<1> QED
  BY <1>1, Inductive, PTL

\* mutex.c prints 0, as many threads as there are, as many rounds as each of them makes.
THEOREM MutexExact == ThreadSpec => [](program = "mutex" /\ main = "end" => total = 0)
<1>1. ASSUME IInv, Exact, program = "mutex", main = "end"
      PROVE  total = 0
  <2> USE <1>1 DEF IInv
  <2>1. joined = NUM_THREAD
    BY DEF MainOrder, Number, Lone
  <2>2. \A t \in Indices : step[t] = "done"
    BY <2>1, ThreadsAssumption DEF MainOrder, Indices
  <2>3. mutex = NoThread
    BY <2>2 DEF Exclusion, ThreadTypeOK
  <2>4. Done(Inc) = Inc /\ Done(Dec) = Dec
    BY <2>2 DEF Done, Inc, Dec
  <2>5. Net = 0
    <3>1. Cardinality(Inc) \in Nat
      BY IndicesFinite, FS_CardinalityType
    <3> QED
      BY <2>4, <3>1, AsMany DEF Net
  <2> QED
    BY <2>3, <2>5, ThreadsAssumption DEF Exact, Current
<1> QED
  BY <1>1, Inductive, PTL DEF Counts

\* The thread whose result main of thread2.c takes and frees has ended.
THEOREM ResultTaken ==
  ThreadSpec => [](program = "thread2" /\ main = "end" /\ created = 1 => round[0] = Rounds)
<1>1. ASSUME IInv, program = "thread2", main = "end", created = 1
      PROVE  round[0] = Rounds
  BY <1>1, ThreadsAssumption DEF IInv, MainOrder, RoundOrder, Number, Lone, Indices
<1> QED
  BY <1>1, Inductive, PTL

\* What main prints, or takes, in every program of threads: without a lock the number is off by
\* no more than one side of the threads counts, and of the two sums at least the first addend of
\* one thread and the last one of the other is left.
THEOREM TotalsCorrect == ThreadSpec => []Totals
<1>1. ASSUME IInv, Drift, program = "thread4"
      PROVE  total \in -(NUM_THREAD \div 2) * Loops .. (NUM_THREAD \div 2) * Loops
  BY <1>1, HalfEach, ThreadsAssumption DEF IInv, ThreadTypeOK, Drift
<1>2. ASSUME IInv, Summed, program = "thread3", main = "end"
      PROVE  total \in 11 .. 55
  <2>1. joined = 2
    BY <1>2 DEF IInv, MainOrder, Number, Lone
  <2>2. round[0] = 5 /\ round[1] = 5
    BY <1>2, <2>1, TwoThreads DEF IInv, MainOrder, RoundOrder, Rounds, Counters
  <2> QED
    BY <1>2, <2>2, TwoThreads DEF Summed, Most, SumTo
<1>3. (program = "mutex" /\ main = "end" => total = 0)
      /\ (program = "thread2" /\ main = "end" /\ created = 1 => round[0] = Rounds)
      /\ IInv /\ Counts => Totals
  BY <1>1, <1>2 DEF Totals, Counts
<1> QED
  BY <1>3, MutexExact, ResultTaken, Inductive, PTL
=============================================================================

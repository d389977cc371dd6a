-------------------------- MODULE RepertoireProofs --------------------------
(***************************************************************************)
(* Proofs about the programs of process/, process_communication/, udp/ and *)
(* broadcast/, and about the small programs together.                      *)
(*                                                                         *)
(* Processes: a message through a pipe reaches the other process whole and *)
(* once, unless the child of pipe2 took its own one back; the statuses of  *)
(* all children that were started are taken once each.  The invariants say *)
(* for each program what is in the pipes, and what was read, from how far  *)
(* its processes are.                                                      *)
(*                                                                         *)
(* Datagrams, for every number of clients and messages: an echo client     *)
(* prints the echo of its own last message, because a message, or its      *)
(* echo, is at one place at most; bound_host takes its messages in order,  *)
(* and of the news only the last line is taken twice.                      *)
(*                                                                         *)
(* Together: a step of the repertoire is a step of one program, or of none *)
(* of the others, so that each invariant holds among them as well.         *)
(***************************************************************************)
EXTENDS MCRepertoire, ThreadsProofs, FiniteSetTheorems, TLAPS

----------------------------------------------------------------------------
(***************************************************************************)
(* Scripts: which operation a process is at says how far it is, and the    *)
(* other way round; one lemma for each program.                            *)
(***************************************************************************)

\* Every process is at a step of its script, or behind the last one.
Begun == at \in [Family -> Nat] /\ \A p \in Family : at[p] >= 1

LEMMA Pipe1Ops ==
  ASSUME program = "pipe1", Begun, NEW p \in Family
  PROVE  /\ Does(p, "fork") => p = "parent" /\ at[p] = 1 /\ Arg(p) = "child"
         /\ Does(p, "read") => p = "parent" /\ at[p] = 2 /\ Arg(p) = 1
         /\ Does(p, "write") => p = "child" /\ at[p] = 1 /\ Arg(p) = 1
         /\ Does(p, "exit") => p = "child" /\ at[p] = 2 /\ Arg(p) = 0
         /\ \A n \in {"sleep", "count", "wait", "poll", "alarm", "pause"} : ~Does(p, n)
         /\ Len(Script["parent"]) = 2
<1>1. Script = pipe1
  BY DEF Script
<1>2. /\ Len(Script["parent"]) = 2 /\ Len(Script["child"]) = 2 /\ Len(Script["second"]) = 0
      /\ Script["parent"][1] = Op("fork", "child")
      /\ Script["parent"][2] = Op("read", 1)
      /\ Script["child"][1] = Op("write", 1)
      /\ Script["child"][2] = Op("exit", 0)
  BY <1>1 DEF pipe1, Text, Fork, Read, Write, Exit
<1> HIDE DEF Script
<1>3. \A n, a : Op(n, a).name = n /\ Op(n, a).arg = a
  BY DEF Op
<1>4. p \in {"parent", "child", "second"} /\ at[p] \in Nat /\ at[p] >= 1
  BY DEF Begun, Family
<1>5. CASE p = "parent"
  <2>1. Len(Script[p]) = 2
    BY <1>2, <1>5
  <2>2. /\ Script[p][1].name = "fork" /\ Script[p][1].arg = "child"
        /\ Script[p][2].name = "read" /\ Script[p][2].arg = 1
    BY <1>2, <1>3, <1>5
  <2>3. at[p] <= Len(Script[p]) => at[p] \in {1, 2}
    BY <1>4, <2>1
  <2> QED
    BY <1>2, <1>5, <2>2, <2>3 DEF Does, Arg
<1>6. CASE p = "child"
  <2>1. Len(Script[p]) = 2
    BY <1>2, <1>6
  <2>2. /\ Script[p][1].name = "write" /\ Script[p][1].arg = 1
        /\ Script[p][2].name = "exit" /\ Script[p][2].arg = 0
    BY <1>2, <1>3, <1>6
  <2>3. at[p] <= Len(Script[p]) => at[p] \in {1, 2}
    BY <1>4, <2>1
  <2> QED
    BY <1>2, <1>6, <2>2, <2>3 DEF Does, Arg
<1>7. CASE p = "second"
  <2>1. Len(Script[p]) = 0
    BY <1>2, <1>7
  <2> QED
    BY <1>2, <1>4, <1>7, <2>1 DEF Does
<1> QED
  BY <1>4, <1>5, <1>6, <1>7

LEMMA Pipe2Ops ==
  ASSUME program = "pipe2", Begun, NEW p \in Family
  PROVE  /\ Does(p, "fork") => p = "parent" /\ at[p] = 1 /\ Arg(p) = "child"
         /\ Does(p, "read") => \/ p = "parent" /\ at[p] = 2 /\ Arg(p) = 1
                               \/ p = "child" /\ at[p] = 3 /\ Arg(p) = 1
         /\ Does(p, "write") => \/ p = "parent" /\ at[p] = 3 /\ Arg(p) = 1
                                \/ p = "child" /\ at[p] = 1 /\ Arg(p) = 1
         /\ Does(p, "sleep") => \/ p = "parent" /\ at[p] = 4
                                \/ p = "child" /\ at[p] = 2
         /\ Does(p, "exit") => p = "child" /\ at[p] = 4 /\ Arg(p) = 0
         /\ \A n \in {"count", "wait", "poll", "alarm", "pause"} : ~Does(p, n)
         /\ Len(Script["parent"]) = 4
<1>1. Script = pipe2
  BY DEF Script
<1>2. /\ Len(Script["parent"]) = 4 /\ Len(Script["child"]) = 4 /\ Len(Script["second"]) = 0
      /\ Script["parent"][1] = Op("fork", "child")
      /\ Script["parent"][2] = Op("read", 1)
      /\ Script["parent"][3] = Op("write", 1)
      /\ Script["parent"][4] = Op("sleep", 0)
      /\ Script["child"][1] = Op("write", 1)
      /\ Script["child"][2] = Op("sleep", 0)
      /\ Script["child"][3] = Op("read", 1)
      /\ Script["child"][4] = Op("exit", 0)
  BY <1>1 DEF pipe2, Text, Fork, Read, Write, Sleep, Exit
<1> HIDE DEF Script
<1>3. \A n, a : Op(n, a).name = n /\ Op(n, a).arg = a
  BY DEF Op
<1>4. p \in {"parent", "child", "second"} /\ at[p] \in Nat /\ at[p] >= 1
  BY DEF Begun, Family
<1>5. CASE p = "parent"
  <2>1. Len(Script[p]) = 4
    BY <1>2, <1>5
  <2>2. /\ Script[p][1].name = "fork" /\ Script[p][1].arg = "child"
        /\ Script[p][2].name = "read" /\ Script[p][2].arg = 1
        /\ Script[p][3].name = "write" /\ Script[p][3].arg = 1
        /\ Script[p][4].name = "sleep" /\ Script[p][4].arg = 0
    BY <1>2, <1>3, <1>5
  <2>3. at[p] <= Len(Script[p]) => at[p] \in {1, 2, 3, 4}
    BY <1>4, <2>1
  <2> QED
    BY <1>2, <1>5, <2>2, <2>3 DEF Does, Arg
<1>6. CASE p = "child"
  <2>1. Len(Script[p]) = 4
    BY <1>2, <1>6
  <2>2. /\ Script[p][1].name = "write" /\ Script[p][1].arg = 1
        /\ Script[p][2].name = "sleep" /\ Script[p][2].arg = 0
        /\ Script[p][3].name = "read" /\ Script[p][3].arg = 1
        /\ Script[p][4].name = "exit" /\ Script[p][4].arg = 0
    BY <1>2, <1>3, <1>6
  <2>3. at[p] <= Len(Script[p]) => at[p] \in {1, 2, 3, 4}
    BY <1>4, <2>1
  <2> QED
    BY <1>2, <1>6, <2>2, <2>3 DEF Does, Arg
<1>7. CASE p = "second"
  <2>1. Len(Script[p]) = 0
    BY <1>2, <1>7
  <2> QED
    BY <1>2, <1>4, <1>7, <2>1 DEF Does
<1> QED
  BY <1>4, <1>5, <1>6, <1>7

LEMMA Pipe3Ops ==
  ASSUME program = "pipe3", Begun, NEW p \in Family
  PROVE  /\ Does(p, "fork") => p = "parent" /\ at[p] = 1 /\ Arg(p) = "child"
         /\ Does(p, "read") => \/ p = "parent" /\ at[p] = 3 /\ Arg(p) = 2
                               \/ p = "child" /\ at[p] = 1 /\ Arg(p) = 1
         /\ Does(p, "write") => \/ p = "parent" /\ at[p] = 2 /\ Arg(p) = 1
                                \/ p = "child" /\ at[p] = 2 /\ Arg(p) = 2
         /\ Does(p, "exit") => p = "child" /\ at[p] = 3 /\ Arg(p) = 0
         /\ \A n \in {"sleep", "count", "wait", "poll", "alarm", "pause"} : ~Does(p, n)
         /\ Len(Script["parent"]) = 3
<1>1. Script = pipe3
  BY DEF Script
<1>2. /\ Len(Script["parent"]) = 3 /\ Len(Script["child"]) = 3 /\ Len(Script["second"]) = 0
      /\ Script["parent"][1] = Op("fork", "child")
      /\ Script["parent"][2] = Op("write", 1)
      /\ Script["parent"][3] = Op("read", 2)
      /\ Script["child"][1] = Op("read", 1)
      /\ Script["child"][2] = Op("write", 2)
      /\ Script["child"][3] = Op("exit", 0)
  BY <1>1 DEF pipe3, Text, Fork, Read, Write, Exit
<1> HIDE DEF Script
<1>3. \A n, a : Op(n, a).name = n /\ Op(n, a).arg = a
  BY DEF Op
<1>4. p \in {"parent", "child", "second"} /\ at[p] \in Nat /\ at[p] >= 1
  BY DEF Begun, Family
<1>5. CASE p = "parent"
  <2>1. Len(Script[p]) = 3
    BY <1>2, <1>5
  <2>2. /\ Script[p][1].name = "fork" /\ Script[p][1].arg = "child"
        /\ Script[p][2].name = "write" /\ Script[p][2].arg = 1
        /\ Script[p][3].name = "read" /\ Script[p][3].arg = 2
    BY <1>2, <1>3, <1>5
  <2>3. at[p] <= Len(Script[p]) => at[p] \in {1, 2, 3}
    BY <1>4, <2>1
  <2> QED
    BY <1>2, <1>5, <2>2, <2>3 DEF Does, Arg
<1>6. CASE p = "child"
  <2>1. Len(Script[p]) = 3
    BY <1>2, <1>6
  <2>2. /\ Script[p][1].name = "read" /\ Script[p][1].arg = 1
        /\ Script[p][2].name = "write" /\ Script[p][2].arg = 2
        /\ Script[p][3].name = "exit" /\ Script[p][3].arg = 0
    BY <1>2, <1>3, <1>6
  <2>3. at[p] <= Len(Script[p]) => at[p] \in {1, 2, 3}
    BY <1>4, <2>1
  <2> QED
    BY <1>2, <1>6, <2>2, <2>3 DEF Does, Arg
<1>7. CASE p = "second"
  <2>1. Len(Script[p]) = 0
    BY <1>2, <1>7
  <2> QED
    BY <1>2, <1>4, <1>7, <2>1 DEF Does
<1> QED
  BY <1>4, <1>5, <1>6, <1>7

LEMMA ForkOps ==
  ASSUME program = "fork", Begun, NEW p \in Family
  PROVE  /\ Does(p, "fork") => p = "parent" /\ at[p] = 1 /\ Arg(p) = "child"
         /\ Does(p, "exit") => p = "child" /\ at[p] = 2 /\ Arg(p) = 0
         /\ Does(p, "count") => \/ p = "parent" /\ at[p] = 2 /\ Arg(p) = -1
                                \/ p = "child" /\ at[p] = 1 /\ Arg(p) = 1
         /\ \A n \in {"read", "write", "sleep", "wait", "poll", "alarm", "pause"} : ~Does(p, n)
         /\ Len(Script["parent"]) = 2
<1>1. Script = fork
  BY DEF Script
<1>2. /\ Len(Script["parent"]) = 2 /\ Len(Script["child"]) = 2 /\ Len(Script["second"]) = 0
      /\ Script["parent"][1] = Op("fork", "child")
      /\ Script["parent"][2] = Op("count", -1)
      /\ Script["child"][1] = Op("count", 1)
      /\ Script["child"][2] = Op("exit", 0)
  BY <1>1 DEF fork, Text, Fork, Exit
<1> HIDE DEF Script
<1>3. \A n, a : Op(n, a).name = n /\ Op(n, a).arg = a
  BY DEF Op
<1>4. p \in {"parent", "child", "second"} /\ at[p] \in Nat /\ at[p] >= 1
  BY DEF Begun, Family
<1>5. CASE p = "parent"
  <2>1. Len(Script[p]) = 2
    BY <1>2, <1>5
  <2>2. /\ Script[p][1].name = "fork" /\ Script[p][1].arg = "child"
        /\ Script[p][2].name = "count" /\ Script[p][2].arg = -1
    BY <1>2, <1>3, <1>5
  <2>3. at[p] <= Len(Script[p]) => at[p] \in {1, 2}
    BY <1>4, <2>1
  <2> QED
    BY <1>2, <1>5, <2>2, <2>3 DEF Does, Arg
<1>6. CASE p = "child"
  <2>1. Len(Script[p]) = 2
    BY <1>2, <1>6
  <2>2. /\ Script[p][1].name = "count" /\ Script[p][1].arg = 1
        /\ Script[p][2].name = "exit" /\ Script[p][2].arg = 0
    BY <1>2, <1>3, <1>6
  <2>3. at[p] <= Len(Script[p]) => at[p] \in {1, 2}
    BY <1>4, <2>1
  <2> QED
    BY <1>2, <1>6, <2>2, <2>3 DEF Does, Arg
<1>7. CASE p = "second"
  <2>1. Len(Script[p]) = 0
    BY <1>2, <1>7
  <2> QED
    BY <1>2, <1>4, <1>7, <2>1 DEF Does
<1> QED
  BY <1>4, <1>5, <1>6, <1>7

LEMMA WaitOps ==
  ASSUME program = "wait", Begun, NEW p \in Family
  PROVE  /\ Does(p, "fork") => \/ p = "parent" /\ at[p] = 1 /\ Arg(p) = "child"
                               \/ p = "parent" /\ at[p] = 2 /\ Arg(p) = "second"
         /\ Does(p, "sleep") => p = "parent" /\ at[p] = 5
         /\ Does(p, "exit") => \/ p = "child" /\ at[p] = 1 /\ Arg(p) = 1
                               \/ p = "second" /\ at[p] = 1 /\ Arg(p) = 2
         /\ Does(p, "wait") => \/ p = "parent" /\ at[p] = 3
                               \/ p = "parent" /\ at[p] = 4
         /\ \A n \in {"read", "write", "count", "poll", "alarm", "pause"} : ~Does(p, n)
         /\ Len(Script["parent"]) = 5
<1>1. Script = wait
  BY DEF Script
<1>2. /\ Len(Script["parent"]) = 5 /\ Len(Script["child"]) = 1 /\ Len(Script["second"]) = 1
      /\ Script["parent"][1] = Op("fork", "child")
      /\ Script["parent"][2] = Op("fork", "second")
      /\ Script["parent"][3] = Op("wait", 0)
      /\ Script["parent"][4] = Op("wait", 0)
      /\ Script["parent"][5] = Op("sleep", 0)
      /\ Script["child"][1] = Op("exit", 1)
      /\ Script["second"][1] = Op("exit", 2)
  BY <1>1 DEF wait, Text, Fork, Sleep, Exit
<1> HIDE DEF Script
<1>3. \A n, a : Op(n, a).name = n /\ Op(n, a).arg = a
  BY DEF Op
<1>4. p \in {"parent", "child", "second"} /\ at[p] \in Nat /\ at[p] >= 1
  BY DEF Begun, Family
<1>5. CASE p = "parent"
  <2>1. Len(Script[p]) = 5
    BY <1>2, <1>5
  <2>2. /\ Script[p][1].name = "fork" /\ Script[p][1].arg = "child"
        /\ Script[p][2].name = "fork" /\ Script[p][2].arg = "second"
        /\ Script[p][3].name = "wait" /\ Script[p][3].arg = 0
        /\ Script[p][4].name = "wait" /\ Script[p][4].arg = 0
        /\ Script[p][5].name = "sleep" /\ Script[p][5].arg = 0
    BY <1>2, <1>3, <1>5
  <2>3. at[p] <= Len(Script[p]) => at[p] \in {1, 2, 3, 4, 5}
    BY <1>4, <2>1
  <2> QED
    BY <1>2, <1>5, <2>2, <2>3 DEF Does, Arg
<1>6. CASE p = "child"
  <2>1. Len(Script[p]) = 1
    BY <1>2, <1>6
  <2>2. /\ Script[p][1].name = "exit" /\ Script[p][1].arg = 1
    BY <1>2, <1>3, <1>6
  <2>3. at[p] <= Len(Script[p]) => at[p] \in {1}
    BY <1>4, <2>1
  <2> QED
    BY <1>2, <1>6, <2>2, <2>3 DEF Does, Arg
<1>7. CASE p = "second"
  <2>1. Len(Script[p]) = 1
    BY <1>2, <1>7
  <2>2. /\ Script[p][1].name = "exit" /\ Script[p][1].arg = 2
    BY <1>2, <1>3, <1>7
  <2>3. at[p] <= Len(Script[p]) => at[p] \in {1}
    BY <1>4, <2>1
  <2> QED
    BY <1>2, <1>7, <2>2, <2>3 DEF Does, Arg
<1> QED
  BY <1>4, <1>5, <1>6, <1>7

LEMMA WaitPidOps ==
  ASSUME program = "wait_pid", Begun, NEW p \in Family
  PROVE  /\ Does(p, "fork") => p = "parent" /\ at[p] = 1 /\ Arg(p) = "child"
         /\ Does(p, "sleep") => p = "child" /\ at[p] = 1
         /\ Does(p, "exit") => p = "child" /\ at[p] = 2 /\ Arg(p) = 1
         /\ Does(p, "poll") => p = "parent" /\ at[p] = 2
         /\ \A n \in {"read", "write", "count", "wait", "alarm", "pause"} : ~Does(p, n)
         /\ Len(Script["parent"]) = 2
<1>1. Script = wait_pid
  BY DEF Script
<1>2. /\ Len(Script["parent"]) = 2 /\ Len(Script["child"]) = 2 /\ Len(Script["second"]) = 0
      /\ Script["parent"][1] = Op("fork", "child")
      /\ Script["parent"][2] = Op("poll", 0)
      /\ Script["child"][1] = Op("sleep", 0)
      /\ Script["child"][2] = Op("exit", 1)
  BY <1>1 DEF wait_pid, Text, Fork, Sleep, Exit
<1> HIDE DEF Script
<1>3. \A n, a : Op(n, a).name = n /\ Op(n, a).arg = a
  BY DEF Op
<1>4. p \in {"parent", "child", "second"} /\ at[p] \in Nat /\ at[p] >= 1
  BY DEF Begun, Family
<1>5. CASE p = "parent"
  <2>1. Len(Script[p]) = 2
    BY <1>2, <1>5
  <2>2. /\ Script[p][1].name = "fork" /\ Script[p][1].arg = "child"
        /\ Script[p][2].name = "poll" /\ Script[p][2].arg = 0
    BY <1>2, <1>3, <1>5
  <2>3. at[p] <= Len(Script[p]) => at[p] \in {1, 2}
    BY <1>4, <2>1
  <2> QED
    BY <1>2, <1>5, <2>2, <2>3 DEF Does, Arg
<1>6. CASE p = "child"
  <2>1. Len(Script[p]) = 2
    BY <1>2, <1>6
  <2>2. /\ Script[p][1].name = "sleep" /\ Script[p][1].arg = 0
        /\ Script[p][2].name = "exit" /\ Script[p][2].arg = 1
    BY <1>2, <1>3, <1>6
  <2>3. at[p] <= Len(Script[p]) => at[p] \in {1, 2}
    BY <1>4, <2>1
  <2> QED
    BY <1>2, <1>6, <2>2, <2>3 DEF Does, Arg
<1>7. CASE p = "second"
  <2>1. Len(Script[p]) = 0
    BY <1>2, <1>7
  <2> QED
    BY <1>2, <1>4, <1>7, <2>1 DEF Does
<1> QED
  BY <1>4, <1>5, <1>6, <1>7

LEMMA ZombieOps ==
  ASSUME program = "zombie", Begun, NEW p \in Family
  PROVE  /\ Does(p, "fork") => p = "parent" /\ at[p] = 1 /\ Arg(p) = "child"
         /\ Does(p, "sleep") => p = "parent" /\ at[p] = 2
         /\ Does(p, "exit") => p = "child" /\ at[p] = 1 /\ Arg(p) = 0
         /\ \A n \in {"read", "write", "count", "wait", "poll", "alarm", "pause"} : ~Does(p, n)
         /\ Len(Script["parent"]) = 2
<1>1. Script = zombie
  BY DEF Script
<1>2. /\ Len(Script["parent"]) = 2 /\ Len(Script["child"]) = 1 /\ Len(Script["second"]) = 0
      /\ Script["parent"][1] = Op("fork", "child")
      /\ Script["parent"][2] = Op("sleep", 0)
      /\ Script["child"][1] = Op("exit", 0)
  BY <1>1 DEF zombie, Text, Fork, Sleep, Exit
<1> HIDE DEF Script
<1>3. \A n, a : Op(n, a).name = n /\ Op(n, a).arg = a
  BY DEF Op
<1>4. p \in {"parent", "child", "second"} /\ at[p] \in Nat /\ at[p] >= 1
  BY DEF Begun, Family
<1>5. CASE p = "parent"
  <2>1. Len(Script[p]) = 2
    BY <1>2, <1>5
  <2>2. /\ Script[p][1].name = "fork" /\ Script[p][1].arg = "child"
        /\ Script[p][2].name = "sleep" /\ Script[p][2].arg = 0
    BY <1>2, <1>3, <1>5
  <2>3. at[p] <= Len(Script[p]) => at[p] \in {1, 2}
    BY <1>4, <2>1
  <2> QED
    BY <1>2, <1>5, <2>2, <2>3 DEF Does, Arg
<1>6. CASE p = "child"
  <2>1. Len(Script[p]) = 1
    BY <1>2, <1>6
  <2>2. /\ Script[p][1].name = "exit" /\ Script[p][1].arg = 0
    BY <1>2, <1>3, <1>6
  <2>3. at[p] <= Len(Script[p]) => at[p] \in {1}
    BY <1>4, <2>1
  <2> QED
    BY <1>2, <1>6, <2>2, <2>3 DEF Does, Arg
<1>7. CASE p = "second"
  <2>1. Len(Script[p]) = 0
    BY <1>2, <1>7
  <2> QED
    BY <1>2, <1>4, <1>7, <2>1 DEF Does
<1> QED
  BY <1>4, <1>5, <1>6, <1>7

LEMMA SignalOps ==
  ASSUME program = "signal", Begun, NEW p \in Family
  PROVE  /\ Does(p, "alarm") => p = "parent" /\ at[p] = 1
         /\ Does(p, "pause") => \/ p = "parent" /\ at[p] = 2
                                \/ p = "parent" /\ at[p] = 3
                                \/ p = "parent" /\ at[p] = 4
         /\ \A n \in {"fork", "read", "write", "sleep", "exit", "count", "wait", "poll"} : ~Does(p, n)
         /\ Len(Script["parent"]) = 4
<1>1. Script = signal
  BY DEF Script
<1>2. /\ Len(Script["parent"]) = 4 /\ Len(Script["child"]) = 0 /\ Len(Script["second"]) = 0
      /\ Script["parent"][1] = Op("alarm", 0)
      /\ Script["parent"][2] = Op("pause", 1)
      /\ Script["parent"][3] = Op("pause", 2)
      /\ Script["parent"][4] = Op("pause", 3)
  BY <1>1 DEF signal, Text
<1> HIDE DEF Script
<1>3. \A n, a : Op(n, a).name = n /\ Op(n, a).arg = a
  BY DEF Op
<1>4. p \in {"parent", "child", "second"} /\ at[p] \in Nat /\ at[p] >= 1
  BY DEF Begun, Family
<1>5. CASE p = "parent"
  <2>1. Len(Script[p]) = 4
    BY <1>2, <1>5
  <2>2. /\ Script[p][1].name = "alarm" /\ Script[p][1].arg = 0
        /\ Script[p][2].name = "pause" /\ Script[p][2].arg = 1
        /\ Script[p][3].name = "pause" /\ Script[p][3].arg = 2
        /\ Script[p][4].name = "pause" /\ Script[p][4].arg = 3
    BY <1>2, <1>3, <1>5
  <2>3. at[p] <= Len(Script[p]) => at[p] \in {1, 2, 3, 4}
    BY <1>4, <2>1
  <2> QED
    BY <1>2, <1>5, <2>2, <2>3 DEF Does, Arg
<1>6. CASE p = "child"
  <2>1. Len(Script[p]) = 0
    BY <1>2, <1>6
  <2> QED
    BY <1>2, <1>4, <1>6, <2>1 DEF Does
<1>7. CASE p = "second"
  <2>1. Len(Script[p]) = 0
    BY <1>2, <1>7
  <2> QED
    BY <1>2, <1>4, <1>7, <2>1 DEF Does
<1> QED
  BY <1>4, <1>5, <1>6, <1>7

\* What an operation is about: a child, a pipe, a number to add, a status.
LEMMA OpTypes ==
  ASSUME program \in ProcessPrograms, Begun, NEW p \in Family
  PROVE  /\ Does(p, "fork") => p = "parent" /\ Arg(p) \in Children
         /\ Does(p, "read") \/ Does(p, "write") => Arg(p) \in 1 .. 2
         /\ Does(p, "count") => Arg(p) \in Int
         /\ Does(p, "exit") => p \in Children /\ Arg(p) \in 0 .. 2
<1> "child" \in Children /\ "second" \in Children
  BY DEF Children, Family
<1> QED
  BY Pipe1Ops, Pipe2Ops, Pipe3Ops, ForkOps, WaitOps, WaitPidOps, ZombieOps, SignalOps
     DEF ProcessPrograms

----------------------------------------------------------------------------
(***************************************************************************)
(* Types.                                                                  *)
(***************************************************************************)

\* With the types: a process that ended stands at its exit, whose argument is its status.
ProcessTypes ==
  /\ ProcessTypeOK
  /\ \A p \in Family : at[p] >= 1
  /\ pipe \in [1 .. 2 -> Seq(Family)]
  /\ \A c \in Children : state[c] = "zombie" => Arg(c) \in 0 .. 2

LEMMA TypesBegun == ProcessTypes => Begun
BY DEF ProcessTypes, ProcessTypeOK, Begun

LEMMA InitProcessTypes ==
  ASSUME ProcessInit
  PROVE  ProcessTypes
<1>1. pipe \in [1 .. 2 -> Seq(Family)]
  <2>1. <<>> \in Seq(Family)
    OBVIOUS
  <2>2. <<<<>>, <<>>>> = [k \in 1 .. 2 |-> <<>>]
    OBVIOUS
  <2> QED
    BY <2>1, <2>2 DEF ProcessInit
<1>2. ProcessTypeOK
  <2>1. state \in [Family -> {"none", "on", "zombie", "gone"}] /\ noFork \in 0 .. MaxForkFail
    BY ProcessesAssumption DEF ProcessInit
  <2>2. got \in [Family -> Seq(Family)] /\ status \in Seq({Unset, 0, 1, 2})
    BY DEF ProcessInit
  <2>3. at \in [Family -> Nat] /\ value \in [Family -> Int]
    BY DEF ProcessInit
  <2>4. alarm \in BOOLEAN
    BY DEF ProcessInit
  <2> QED
    BY <1>1, <2>1, <2>2, <2>3, <2>4 DEF ProcessTypeOK
<1>3. \A c \in Children : state[c] = "none"
  BY DEF ProcessInit, Children
<1>4. \A p \in Family : at[p] >= 1
  BY DEF ProcessInit
<1> QED
  BY <1>1, <1>2, <1>3, <1>4 DEF ProcessTypes

\* The process that advances is one step further, the others are where they were.
LEMMA Advances ==
  ASSUME ProcessTypes, NEW p \in Family, Advance(p)
  PROVE  /\ at'[p] = at[p] + 1
         /\ \A q \in Family : q # p => at'[q] = at[q]
         /\ at' \in [Family -> Nat] /\ \A q \in Family : at'[q] >= 1
BY DEF ProcessTypes, ProcessTypeOK, Advance

\* A step in which nobody becomes a zombie and no zombie moves leaves the statuses as they are.
LEMMA StatusStays ==
  ASSUME ProcessTypes, UNCHANGED program,
         \A c \in Children : state'[c] = "zombie" => state[c] = "zombie" /\ at'[c] = at[c]
  PROVE  \A c \in Children : state'[c] = "zombie" => Script'[c][at'[c]].arg \in 0 .. 2
<1>1. Script' = Script
  BY DEF Script
<1> QED
  BY <1>1 DEF ProcessTypes, Arg

\* Who does something is there.
LEMMA DoesOn ==
  ASSUME NEW p, NEW name, Does(p, name)
  PROVE  state[p] = "on"
BY DEF Does

\* Each operation keeps the types.
LEMMA StepTypes ==
  ASSUME ProcessTypes, program \in ProcessPrograms, ProcessNext
  PROVE  ProcessTypes'
<1> USE DEF ProcessTypes, ProcessTypeOK
<1> SUFFICES /\ ProcessTypeOK'
             /\ \A p \in Family : at'[p] >= 1
             /\ pipe' \in [1 .. 2 -> Seq(Family)]
             /\ \A c \in Children : state'[c] = "zombie" => Script'[c][at'[c]].arg \in 0 .. 2
  BY DEF Arg
<1>1. program' = program /\ Script' = Script
  BY DEF ProcessNext, Script
<1>2. Children \subseteq Family /\ "parent" \in Family /\ "parent" \notin Children
  BY DEF Children, Family
<1>3. \A p \in Family :
        /\ Does(p, "fork") => p = "parent" /\ Arg(p) \in Children
        /\ Does(p, "read") \/ Does(p, "write") => Arg(p) \in 1 .. 2
        /\ Does(p, "count") => Arg(p) \in Int
        /\ Does(p, "exit") => p \in Children /\ Arg(p) \in 0 .. 2
  BY TypesBegun, OpTypes
<1>4. CASE ForkChild
  <2>1. Arg("parent") \in Children /\ Advance("parent")
    <3>1. Does("parent", "fork") /\ Advance("parent")
      BY <1>4 DEF ForkChild
    <3> QED
      BY <1>2, <1>3, <3>1
  <2>2. state' = [state EXCEPT ![Arg("parent")] = "on"]
        /\ value' = [value EXCEPT ![Arg("parent")] = value["parent"]]
    BY <1>4 DEF ForkChild
  <2>3. /\ state' \in [Family -> {"none", "on", "zombie", "gone"}] /\ value' \in [Family -> Int]
        /\ \A c \in Children : state'[c] = "zombie" => state[c] = "zombie" /\ at'[c] = at[c]
    BY <1>2, <2>1, <2>2, Advances
  <2> QED
    BY <1>1, <1>2, <1>4, <2>1, <2>3, Advances, StatusStays DEF ForkChild
<1>5. CASE ForkFails
  <2>1. Advance("parent") /\ noFork' \in 0 .. MaxForkFail
    BY <1>5, ProcessesAssumption DEF ForkFails
  <2> QED
    BY <1>1, <1>2, <1>5, <2>1, Advances, StatusStays DEF ForkFails
<1>6. CASE Reap
  <2>1. Advance("parent")
    BY <1>6 DEF Reap
  <2>2. PICK c \in Children :
          /\ state[c] = "zombie"
          /\ state' = [state EXCEPT ![c] = "gone"]
          /\ status' = Append(status, Arg(c))
    BY <1>6 DEF Reap, Arg
  <2>3. status' \in Seq({Unset, 0, 1, 2})
    BY <2>2
  <2>4. /\ state' \in [Family -> {"none", "on", "zombie", "gone"}]
        /\ \A d \in Children : state'[d] = "zombie" => state[d] = "zombie" /\ at'[d] = at[d]
    BY <1>2, <2>1, <2>2, Advances
  <2> QED
    BY <1>1, <1>2, <1>6, <2>1, <2>3, <2>4, Advances, StatusStays DEF Reap
<1>7. CASE NoChild
  <2>1. Advance("parent") /\ status' \in Seq({Unset, 0, 1, 2})
    BY <1>7 DEF NoChild
  <2> QED
    BY <1>1, <1>2, <1>7, <2>1, Advances, StatusStays DEF NoChild
<1>8. CASE SetAlarm
  <2>1. Advance("parent")
    BY <1>8 DEF SetAlarm
  <2> QED
    BY <1>1, <1>2, <1>8, <2>1, Advances, StatusStays DEF SetAlarm
<1>9. CASE ParentExit
  <2>1. /\ state' \in [Family -> {"none", "on", "zombie", "gone"}]
        /\ \A c \in Children : state'[c] # "zombie"
    BY <1>2, <1>9 DEF ParentExit
  <2> QED
    BY <1>9, <2>1 DEF ParentExit
<1>10. CASE Timeout
  <2>1. Advance("parent") \/ UNCHANGED at
    BY <1>10 DEF Timeout
  <2>2. at' \in [Family -> Nat] /\ (\A p \in Family : at'[p] >= 1)
        /\ \A c \in Children : at'[c] = at[c]
    BY <1>2, <2>1, Advances
  <2> QED
    BY <1>1, <1>10, <2>2, StatusStays DEF Timeout, Rearmed
<1>11. CASE Interrupt
  <2>1. Advance("parent")
    BY <1>11 DEF Interrupt
  <2> QED
    BY <1>1, <1>2, <1>11, <2>1, Advances, StatusStays DEF Interrupt
<1>12. ASSUME NEW p \in Family, WritePipe(p)
       PROVE  ProcessTypes'
  <2>1. Advance(p) /\ Arg(p) \in 1 .. 2 /\ state[p] = "on"
    <3>1. Does(p, "write") /\ Advance(p)
      BY <1>12 DEF WritePipe
    <3> QED
      BY <1>3, <3>1, DoesOn
  <2>2. pipe' \in [1 .. 2 -> Seq(Family)]
    BY <1>12, <2>1 DEF WritePipe
  <2> QED
    BY <1>1, <1>2, <1>12, <2>1, <2>2, Advances, StatusStays DEF WritePipe, Arg
<1>13. ASSUME NEW p \in Family, ReadPipe(p)
       PROVE  ProcessTypes'
  <2>1. Advance(p) /\ Arg(p) \in 1 .. 2 /\ state[p] = "on"
    <3>1. Does(p, "read") /\ Advance(p)
      BY <1>13 DEF ReadPipe
    <3> QED
      BY <1>3, <3>1, DoesOn
  <2>2. pipe' \in [1 .. 2 -> Seq(Family)] /\ got' \in [Family -> Seq(Family)]
    BY <1>13, <2>1 DEF ReadPipe
  <2> QED
    BY <1>1, <1>2, <1>13, <2>1, <2>2, Advances, StatusStays DEF ReadPipe, Arg
<1>14. ASSUME NEW p \in Family, CountUp(p)
       PROVE  ProcessTypes'
  <2>1. Advance(p) /\ Arg(p) \in Int /\ state[p] = "on"
    <3>1. Does(p, "count") /\ Advance(p)
      BY <1>14 DEF CountUp
    <3> QED
      BY <1>3, <3>1, DoesOn
  <2>2. value' \in [Family -> Int]
    BY <1>14, <2>1 DEF CountUp
  <2> QED
    BY <1>1, <1>2, <1>14, <2>1, <2>2, Advances, StatusStays DEF CountUp, Arg
<1>15. ASSUME NEW p \in Family, SleepDone(p)
       PROVE  ProcessTypes'
  <2>1. Advance(p) /\ state[p] = "on"
    BY <1>15, DoesOn DEF SleepDone
  <2> QED
    BY <1>1, <1>2, <1>15, <2>1, Advances, StatusStays DEF SleepDone, Arg
<1>16. ASSUME NEW p \in Family, ChildExit(p)
       PROVE  ProcessTypes'
  <2>1. p \in Children /\ Script[p][at[p]].arg \in 0 .. 2 /\ UNCHANGED at
    <3>1. Does(p, "exit") /\ UNCHANGED at
      BY <1>16 DEF ChildExit
    <3> QED
      BY <1>3, <3>1 DEF Arg
  <2>2. /\ state' \in [Family -> {"none", "on", "zombie", "gone"}]
        /\ \A c \in Family : c # p => state'[c] = state[c]
    BY <1>16 DEF ChildExit
  <2>3. \A c \in Children : state'[c] = "zombie" => Script[c][at[c]].arg \in 0 .. 2
    BY <1>2, <2>1, <2>2 DEF Arg
  <2> QED
    BY <1>1, <1>16, <2>1, <2>2, <2>3 DEF ChildExit, Arg
<1> QED
  BY <1>4, <1>5, <1>6, <1>7, <1>8, <1>9, <1>10, <1>11, <1>12, <1>13, <1>14, <1>15, <1>16
     DEF ProcessNext, Process, Parent, Arg

----------------------------------------------------------------------------
(***************************************************************************)
(* Pipes: how far writer and reader are says what is in them, and what was *)
(* read.                                                                   *)
(***************************************************************************)

Pipe1Inv ==
  program = "pipe1" =>
    /\ at["parent"] \in 1 .. 3 /\ at["child"] \in 1 .. 2
    /\ at["parent"] = 3 => at["child"] = 2
    /\ pipe[1] = IF at["child"] = 2 /\ at["parent"] < 3 THEN <<"child">> ELSE <<>>
    /\ got["parent"] = IF at["parent"] = 3 THEN <<"child">> ELSE <<>>
    /\ got["child"] = <<>> /\ got["second"] = <<>>

\* The one pipe holds the message of the child, until either of them takes it, and then, if it
\* was the parent, its answer.
Pipe2Inv ==
  program = "pipe2" =>
    /\ at["parent"] \in 1 .. 5 /\ at["child"] \in 1 .. 4
    /\ at["parent"] >= 3 => at["child"] \in {2, 3} \/ (at["child"] = 4 /\ at["parent"] > 3)
    /\ at["parent"] < 5 => state["parent"] = "on"
    /\ pipe[1] = IF at["parent"] < 3 /\ at["child"] \in {2, 3} THEN <<"child">>
                 ELSE IF at["parent"] > 3 /\ at["child"] < 4 THEN <<"parent">>
                 ELSE <<>>
    /\ got["parent"] = IF at["parent"] < 3 THEN <<>> ELSE <<"child">>
    /\ got["child"] = IF at["child"] < 4 THEN <<>>
                      ELSE IF at["parent"] > 3 THEN <<"parent">> ELSE <<"child">>
    /\ got["second"] = <<>>

Pipe3Inv ==
  program = "pipe3" =>
    /\ at["parent"] \in 1 .. 4 /\ at["child"] \in 1 .. 3
    /\ at["child"] >= 2 => at["parent"] >= 3
    /\ at["parent"] = 4 => at["child"] = 3
    /\ pipe[1] = IF at["parent"] >= 3 /\ at["child"] = 1 THEN <<"parent">> ELSE <<>>
    /\ pipe[2] = IF at["parent"] = 3 /\ at["child"] = 3 THEN <<"child">> ELSE <<>>
    /\ got["parent"] = IF at["parent"] = 4 THEN <<"child">> ELSE <<>>
    /\ got["child"] = IF at["child"] = 1 THEN <<>> ELSE <<"parent">>
    /\ got["second"] = <<>>

\* Who has no pipe reads nothing.
Quiet == program \notin {"pipe1", "pipe2", "pipe3"} => got = [p \in Family |-> <<>>]

PipesInv == Pipe1Inv /\ Pipe2Inv /\ Pipe3Inv /\ Quiet

\* Process p goes on with an operation that has nothing to do with pipes.
Passes(p) ==
  /\ Advance(p)
  /\ UNCHANGED <<pipe, got>>
  /\ state'["parent"] = state["parent"]
  /\ \E name \in {"fork", "sleep", "count", "wait", "poll", "alarm", "pause"} : Does(p, name)

\* A process ends, or the alarm goes off outside of sleep().
Stays ==
  /\ UNCHANGED <<at, pipe, got>>
  /\ state'["parent"] = state["parent"] \/ at["parent"] > Len(Script["parent"])

\* A step of any program, as far as its messages are concerned.
LEMMA MessageStep ==
  ASSUME ProcessTypes, program \in ProcessPrograms, ProcessNext
  PROVE  Stays \/ \E p \in Family : Passes(p) \/ WritePipe(p) \/ ReadPipe(p)
<1>1. "parent" \in Family /\ "parent" \notin Children
  BY DEF Family, Children
<1>2. CASE ForkChild
  <2>1. Does("parent", "fork")
    BY <1>2 DEF ForkChild
  <2>2. Arg("parent") # "parent"
    BY <1>1, <2>1, TypesBegun, OpTypes
  <2>3. state'["parent"] = state["parent"]
    BY <1>1, <1>2, <2>2 DEF ForkChild, ProcessTypes, ProcessTypeOK
  <2> QED
    BY <1>1, <1>2, <2>1, <2>3 DEF ForkChild, Passes
<1>3. CASE ForkFails \/ SetAlarm \/ Interrupt \/ NoChild
  BY <1>1, <1>3 DEF ForkFails, SetAlarm, Interrupt, NoChild, Passes
<1>4. CASE Reap
  <2>1. state'["parent"] = state["parent"]
    BY <1>1, <1>4 DEF Reap, ProcessTypes, ProcessTypeOK
  <2> QED
    BY <1>1, <1>4, <2>1 DEF Reap, Passes
<1>5. CASE Timeout
  BY <1>1, <1>5 DEF Timeout, Passes, Stays
<1>6. CASE ParentExit
  BY <1>6 DEF ParentExit, Stays
<1>7. ASSUME NEW p \in Family, ChildExit(p)
      PROVE  Stays
  <2>1. p \in Children
    BY <1>7, TypesBegun, OpTypes DEF ChildExit
  <2> QED
    BY <1>1, <1>7, <2>1 DEF ChildExit, Stays, ProcessTypes, ProcessTypeOK
<1>8. ASSUME NEW p \in Family, CountUp(p) \/ SleepDone(p)
      PROVE  Passes(p)
  BY <1>8 DEF CountUp, SleepDone, Passes
<1> QED
  BY <1>2, <1>3, <1>4, <1>5, <1>6, <1>7, <1>8 DEF ProcessNext, Process, Parent

\* What a write() and a read() leave in the pipes, and with the processes.
LEMMA WriteEffect ==
  ASSUME ProcessTypes, program \in ProcessPrograms, NEW p \in Family, WritePipe(p)
  PROVE  /\ UNCHANGED <<state, got>>
         /\ pipe'[Arg(p)] = Append(pipe[Arg(p)], p)
         /\ \A k \in 1 .. 2 : k # Arg(p) => pipe'[k] = pipe[k]
<1>1. Arg(p) \in 1 .. 2
  BY TypesBegun, OpTypes DEF WritePipe
<1> QED
  BY <1>1 DEF WritePipe, ProcessTypes

LEMMA ReadEffect ==
  ASSUME ProcessTypes, program \in ProcessPrograms, NEW p \in Family, ReadPipe(p)
  PROVE  /\ UNCHANGED state
         /\ pipe[Arg(p)] # <<>> /\ pipe'[Arg(p)] = <<>>
         /\ \A k \in 1 .. 2 : k # Arg(p) => pipe'[k] = pipe[k]
         /\ got[p] = <<>> => got'[p] = pipe[Arg(p)]
         /\ \A q \in Family : q # p => got'[q] = got[q]
<1>1. Arg(p) \in 1 .. 2
  BY TypesBegun, OpTypes DEF ReadPipe
<1>2. got[p] = <<>> => got'[p] = pipe[Arg(p)]
  <2>1. pipe[Arg(p)] \in Seq(Family) /\ got'[p] = got[p] \o pipe[Arg(p)]
    BY <1>1 DEF ReadPipe, ProcessTypes, ProcessTypeOK
  <2> QED
    BY <2>1
<1> QED
  BY <1>1, <1>2 DEF ReadPipe, ProcessTypes, ProcessTypeOK

LEMMA Members ==
  /\ "parent" \in Family /\ "child" \in Family /\ "second" \in Family
  /\ Children = {"child", "second"}
BY DEF Family, Children

\* The child writes before the parent reads.
LEMMA Pipe1Step ==
  ASSUME ProcessTypes, program = "pipe1", Pipe1Inv, ProcessNext
  PROVE  Pipe1Inv'
<1> program \in ProcessPrograms /\ program' = program
  BY DEF ProcessPrograms, ProcessNext
<1> USE Members DEF Pipe1Inv
<1>1. CASE Stays
  BY <1>1 DEF Stays
<1>2. ASSUME NEW p \in Family, Passes(p)
      PROVE  Pipe1Inv'
  <2>1. p = "parent" /\ at["parent"] = 1
    BY <1>2, TypesBegun, Pipe1Ops DEF Passes
  <2>2. at'["parent"] = 2 /\ at'["child"] = at["child"]
    BY <1>2, <2>1, Advances DEF Passes
  <2> QED
    BY <1>2, <2>1, <2>2 DEF Passes
<1>3. ASSUME NEW p \in Family, WritePipe(p)
      PROVE  Pipe1Inv'
  <2>1. p = "child" /\ at["child"] = 1 /\ Arg(p) = 1
    BY <1>3, TypesBegun, Pipe1Ops DEF WritePipe
  <2>2. at'["child"] = 2 /\ at'["parent"] = at["parent"]
    BY <1>3, <2>1, Advances DEF WritePipe
  <2>3. pipe'[1] = <<"child">> /\ UNCHANGED got
    BY <1>3, <2>1, WriteEffect
  <2> QED
    BY <2>1, <2>2, <2>3
<1>4. ASSUME NEW p \in Family, ReadPipe(p)
      PROVE  Pipe1Inv'
  <2>1. p = "parent" /\ at["parent"] = 2 /\ Arg(p) = 1
    BY <1>4, TypesBegun, Pipe1Ops DEF ReadPipe
  <2>2. at'["parent"] = 3 /\ at'["child"] = at["child"]
    BY <1>4, <2>1, Advances DEF ReadPipe
  <2>3. at["child"] = 2 /\ pipe[1] = <<"child">> /\ pipe'[1] = <<>>
    BY <1>4, <2>1, ReadEffect
  <2>4. got'["parent"] = <<"child">> /\ got'["child"] = <<>> /\ got'["second"] = <<>>
    BY <1>4, <2>1, <2>3, ReadEffect
  <2> QED
    BY <2>2, <2>3, <2>4
<1> QED
  BY <1>1, <1>2, <1>3, <1>4, MessageStep

\* Whoever comes first takes what is in the one pipe.
LEMMA Pipe2Step ==
  ASSUME ProcessTypes, program = "pipe2", Pipe2Inv, ProcessNext
  PROVE  Pipe2Inv'
<1> program \in ProcessPrograms /\ program' = program
  BY DEF ProcessPrograms, ProcessNext
<1> USE Members DEF Pipe2Inv
<1>1. CASE Stays
  <2>1. Len(Script["parent"]) = 4
    BY TypesBegun, Pipe2Ops
  <2> QED
    BY <1>1, <2>1 DEF Stays
<1>2. ASSUME NEW p \in Family, Passes(p)
      PROVE  Pipe2Inv'
  <2>1. \/ p = "parent" /\ at["parent"] \in {1, 4}
        \/ p = "child" /\ at["child"] = 2
    BY <1>2, TypesBegun, Pipe2Ops DEF Passes
  <2>2. at'[p] = at[p] + 1 /\ \A q \in {"parent", "child"} : q # p => at'[q] = at[q]
    BY <1>2, Advances DEF Passes
  <2>3. UNCHANGED <<pipe, got>> /\ state'["parent"] = state["parent"]
    BY <1>2 DEF Passes
  <2>4. CASE p = "parent"
    BY <2>1, <2>2, <2>3, <2>4
  <2>5. CASE p = "child"
    BY <2>1, <2>2, <2>3, <2>5
  <2> QED
    BY <2>1, <2>4, <2>5
<1>3. ASSUME NEW p \in Family, WritePipe(p)
      PROVE  Pipe2Inv'
  <2>1. /\ Arg(p) = 1
        /\ \/ p = "parent" /\ at["parent"] = 3
           \/ p = "child" /\ at["child"] = 1
    BY <1>3, TypesBegun, Pipe2Ops DEF WritePipe
  <2>2. at'[p] = at[p] + 1 /\ \A q \in {"parent", "child"} : q # p => at'[q] = at[q]
    BY <1>3, Advances DEF WritePipe
  <2>3. pipe'[1] = Append(pipe[1], p) /\ UNCHANGED <<state, got>>
    BY <1>3, <2>1, WriteEffect
  <2>4. pipe[1] = <<>>
    BY <2>1
  <2>5. pipe'[1] = <<p>>
    BY <2>3, <2>4
  <2>6. CASE p = "parent"
    BY <2>1, <2>2, <2>3, <2>5, <2>6
  <2>7. CASE p = "child"
    BY <2>1, <2>2, <2>3, <2>5, <2>7
  <2> QED
    BY <2>1, <2>6, <2>7
<1>4. ASSUME NEW p \in Family, ReadPipe(p)
      PROVE  Pipe2Inv'
  <2>1. /\ Arg(p) = 1
        /\ \/ p = "parent" /\ at["parent"] = 2
           \/ p = "child" /\ at["child"] = 3
    BY <1>4, TypesBegun, Pipe2Ops DEF ReadPipe
  <2>2. at'[p] = at[p] + 1 /\ \A q \in {"parent", "child"} : q # p => at'[q] = at[q]
    BY <1>4, Advances DEF ReadPipe
  <2>3. /\ pipe[1] # <<>> /\ pipe'[1] = <<>> /\ UNCHANGED state
        /\ got[p] = <<>> => got'[p] = pipe[1]
        /\ \A q \in Family : q # p => got'[q] = got[q]
    BY <1>4, <2>1, ReadEffect
  <2>4. got[p] = <<>>
    BY <2>1
  <2>5. got'[p] = pipe[1]
    BY <2>3, <2>4
  <2>6. CASE p = "parent"
    BY <2>1, <2>2, <2>3, <2>5, <2>6
  <2>7. CASE p = "child"
    BY <2>1, <2>2, <2>3, <2>5, <2>7
  <2> QED
    BY <2>1, <2>6, <2>7
<1> QED
  BY <1>1, <1>2, <1>3, <1>4, MessageStep

\* Each pipe is written at one end and read at the other.
LEMMA Pipe3Step ==
  ASSUME ProcessTypes, program = "pipe3", Pipe3Inv, ProcessNext
  PROVE  Pipe3Inv'
<1> program \in ProcessPrograms /\ program' = program
  BY DEF ProcessPrograms, ProcessNext
<1> USE Members DEF Pipe3Inv
<1>1. CASE Stays
  BY <1>1 DEF Stays
<1>2. ASSUME NEW p \in Family, Passes(p)
      PROVE  Pipe3Inv'
  <2>1. p = "parent" /\ at["parent"] = 1
    BY <1>2, TypesBegun, Pipe3Ops DEF Passes
  <2>2. at'["parent"] = 2 /\ at'["child"] = at["child"]
    BY <1>2, <2>1, Advances DEF Passes
  <2> QED
    BY <1>2, <2>1, <2>2 DEF Passes
<1>3. ASSUME NEW p \in Family, WritePipe(p)
      PROVE  Pipe3Inv'
  <2>1. \/ p = "parent" /\ at["parent"] = 2 /\ Arg(p) = 1
        \/ p = "child" /\ at["child"] = 2 /\ Arg(p) = 2
    BY <1>3, TypesBegun, Pipe3Ops DEF WritePipe
  <2>2. at'[p] = at[p] + 1 /\ \A q \in {"parent", "child"} : q # p => at'[q] = at[q]
    BY <1>3, Advances DEF WritePipe
  <2>3. /\ pipe'[Arg(p)] = Append(pipe[Arg(p)], p) /\ UNCHANGED got
        /\ \A k \in 1 .. 2 : k # Arg(p) => pipe'[k] = pipe[k]
    BY <1>3, <2>1, WriteEffect
  <2>4. pipe[Arg(p)] = <<>>
    BY <2>1
  <2>5. pipe'[Arg(p)] = <<p>>
    BY <2>3, <2>4
  <2>6. CASE p = "parent"
    BY <2>1, <2>2, <2>3, <2>5, <2>6
  <2>7. CASE p = "child"
    BY <2>1, <2>2, <2>3, <2>5, <2>7
  <2> QED
    BY <2>1, <2>6, <2>7
<1>4. ASSUME NEW p \in Family, ReadPipe(p)
      PROVE  Pipe3Inv'
  <2>1. \/ p = "parent" /\ at["parent"] = 3 /\ Arg(p) = 2
        \/ p = "child" /\ at["child"] = 1 /\ Arg(p) = 1
    BY <1>4, TypesBegun, Pipe3Ops DEF ReadPipe
  <2>2. at'[p] = at[p] + 1 /\ \A q \in {"parent", "child"} : q # p => at'[q] = at[q]
    BY <1>4, Advances DEF ReadPipe
  <2>3. /\ pipe[Arg(p)] # <<>> /\ pipe'[Arg(p)] = <<>>
        /\ \A k \in 1 .. 2 : k # Arg(p) => pipe'[k] = pipe[k]
        /\ got[p] = <<>> => got'[p] = pipe[Arg(p)]
        /\ \A q \in Family : q # p => got'[q] = got[q]
    BY <1>4, <2>1, ReadEffect
  <2>4. got[p] = <<>>
    BY <2>1
  <2>5. got'[p] = pipe[Arg(p)]
    BY <2>3, <2>4
  <2>6. CASE p = "parent"
    BY <2>1, <2>2, <2>3, <2>5, <2>6
  <2>7. CASE p = "child"
    BY <2>1, <2>2, <2>3, <2>5, <2>7
  <2> QED
    BY <2>1, <2>6, <2>7
<1> QED
  BY <1>1, <1>2, <1>3, <1>4, MessageStep

LEMMA QuietStep ==
  ASSUME ProcessTypes, program \in ProcessPrograms, Quiet, ProcessNext
  PROVE  Quiet'
<1> SUFFICES ASSUME program \notin {"pipe1", "pipe2", "pipe3"}
             PROVE  got' = got
  BY DEF Quiet, ProcessNext
<1>1. \A p \in Family : ~Does(p, "read")
  BY TypesBegun, ForkOps, WaitOps, WaitPidOps, ZombieOps, SignalOps DEF ProcessPrograms
<1>2. \A p \in Family : ~ReadPipe(p)
  BY <1>1 DEF ReadPipe
<1> QED
  BY <1>2, MessageStep DEF Stays, Passes, WritePipe

----------------------------------------------------------------------------
(***************************************************************************)
(* Children and their statuses.                                            *)
(***************************************************************************)

NotStarted(c) == IF state[c] = "none" THEN 1 ELSE 0

\* wait(): the statuses taken so far are those of the children that are gone; a call fails when
\* no child is left.
OneTaken ==
  \/ state["child"] = "none" /\ state["second"] = "none" /\ status = <<Unset>>
  \/ state["child"] = "gone" /\ state["second"] # "gone" /\ status = <<1>>
  \/ state["child"] # "gone" /\ state["second"] = "gone" /\ status = <<2>>

AllTaken ==
  \/ state["child"] = "none" /\ state["second"] = "none" /\ status = <<Unset, Unset>>
  \/ state["child"] = "gone" /\ state["second"] = "none" /\ status = <<1, Unset>>
  \/ state["child"] = "none" /\ state["second"] = "gone" /\ status = <<2, Unset>>
  \/ state["child"] = "gone" /\ state["second"] = "gone" /\ status \in {<<1, 2>>, <<2, 1>>}

WaitInv ==
  program = "wait" =>
    /\ at["parent"] \in 1 .. 6 /\ at["child"] = 1 /\ at["second"] = 1
    /\ at["parent"] < 6 => state["parent"] = "on"
    /\ at["parent"] = 1 => noFork = 0 /\ state["child"] = "none"
    /\ at["parent"] = 2 => noFork = NotStarted("child")
    /\ at["parent"] >= 3 => noFork = NotStarted("child") + NotStarted("second")
    /\ at["parent"] < 3 => state["second"] = "none"
    /\ at["parent"] < 4 => status = <<>> /\ state["child"] # "gone" /\ state["second"] # "gone"
    /\ at["parent"] = 4 => OneTaken
    /\ at["parent"] > 4 => AllTaken

WaitPidInv ==
  program = "wait_pid" =>
    /\ at["parent"] \in 1 .. 3 /\ at["child"] \in 1 .. 2
    /\ state["second"] = "none"
    /\ state["child"] = "zombie" => at["child"] = 2
    /\ at["parent"] < 3 => state["parent"] = "on" /\ status = <<>> /\ state["child"] # "gone"
    /\ at["parent"] = 1 => noFork = 0 /\ state["child"] = "none"
    /\ at["parent"] >= 2 => noFork = NotStarted("child")
    /\ at["parent"] = 3 => status = <<IF noFork = 0 THEN 1 ELSE Unset>>

\* fork(): each process has its own globalVal, and its end comes after it has counted.
ForkInv ==
  program = "fork" =>
    /\ at["parent"] \in 1 .. 3 /\ at["child"] \in 1 .. 2
    /\ state["parent"] = "gone" => at["parent"] = 3
    /\ at["parent"] = 1 => state["child"] = "none"
    /\ state["child"] = "none" => at["child"] = 1
    /\ state["child"] \in {"zombie", "gone"} => at["child"] = 2
    /\ value["parent"] = IF at["parent"] = 3 THEN 9 ELSE 10
    /\ value["child"] = IF at["child"] = 2 THEN 11 ELSE 10

StatusInv == WaitInv /\ WaitPidInv /\ ForkInv

\* The statuses of the scripts.
LEMMA ExitStatus ==
  /\ program = "wait" => Script["child"][1].arg = 1 /\ Script["second"][1].arg = 2
  /\ program = "wait_pid" => Script["child"][2].arg = 1
<1>1. \A n, a : Op(n, a).arg = a
  BY DEF Op
<1>2. ASSUME program = "wait"
      PROVE  Script["child"][1] = Exit(1) /\ Script["second"][1] = Exit(2)
  BY <1>2 DEF Script, wait, Text
<1>3. ASSUME program = "wait_pid"
      PROVE  Script["child"][2] = Exit(1)
  BY <1>3 DEF Script, wait_pid, Text
<1> HIDE DEF Script
<1> QED
  BY <1>1, <1>2, <1>3 DEF Exit

\* A child ends while its parent is there, or after it.
LEMMA ExitEffect ==
  ASSUME ProcessTypes, NEW p \in Family, ChildExit(p)
  PROVE  /\ state[p] = "on"
         /\ state'[p] = IF state["parent"] = "gone" THEN "gone" ELSE "zombie"
         /\ \A q \in Family : q # p => state'[q] = state[q]
         /\ UNCHANGED <<at, value, status, noFork>>
BY DoesOn DEF ChildExit, ProcessTypes, ProcessTypeOK

LEMMA ParentExitEffect ==
  ASSUME ParentExit
  PROVE  /\ at["parent"] > Len(Script["parent"]) /\ state'["parent"] = "gone"
         /\ \A c \in Children :
              state'[c] = IF state[c] = "zombie" THEN "gone" ELSE state[c]
         /\ UNCHANGED <<at, value, status, noFork>>
BY Members DEF ParentExit

LEMMA ForkEffect ==
  ASSUME ProcessTypes, NEW c \in Children, ForkChild, Arg("parent") = c
  PROVE  /\ state'[c] = "on" /\ \A q \in Family : q # c => state'[q] = state[q]
         /\ value'[c] = value["parent"] /\ \A q \in Family : q # c => value'[q] = value[q]
         /\ UNCHANGED <<status, noFork>>
BY Members DEF ForkChild, ProcessTypes, ProcessTypeOK

LEMMA ReapEffect ==
  ASSUME ProcessTypes, Reap
  PROVE  /\ \E c \in Children :
              /\ state[c] = "zombie" /\ state'[c] = "gone"
              /\ \A q \in Family : q # c => state'[q] = state[q]
              /\ status' = Append(status, Script[c][at[c]].arg)
         /\ UNCHANGED <<value, noFork>>
BY Members DEF Reap, ProcessTypes, ProcessTypeOK

\* A step of a program without pipes, of the parent if nothing else is said.
LEMMA ChildrenStep ==
  ASSUME ProcessTypes, program \in {"wait", "wait_pid", "fork"}, ProcessNext
  PROVE  \/ ForkChild \/ ForkFails \/ Reap \/ NoChild \/ ParentExit
         \/ \E p \in Family : CountUp(p) \/ SleepDone(p) \/ ChildExit(p)
<1>1. \A p \in Family : \A name \in {"read", "write", "alarm", "pause"} : ~Does(p, name)
  BY TypesBegun, ForkOps, WaitOps, WaitPidOps
<1>2. "parent" \in Family
  BY Members
<1> QED
  BY <1>1, <1>2 DEF ProcessNext, Process, Parent, WritePipe, ReadPipe, SetAlarm, Timeout, Interrupt

\* One status behind another.
LEMMA Followed ==
  ASSUME NEW a \in Int, NEW b \in Int
  PROVE  Append(<<a>>, b) = <<a, b>>
<1> DEFINE s == Append(<<a>>, b)
<1>1. <<a>> \in Seq(Int) /\ Len(<<a>>) = 1 /\ <<a>>[1] = a
  OBVIOUS
<1>2. s \in Seq(Int) /\ Len(s) = 2 /\ s[1] = a /\ s[2] = b
  BY <1>1
<1> HIDE DEF s
<1>3. s = [k \in 1 .. 2 |-> s[k]]
  BY <1>2
<1>4. <<a, b>> = [k \in 1 .. 2 |-> IF k = 1 THEN a ELSE b]
  OBVIOUS
<1>5. [k \in 1 .. 2 |-> s[k]] = [k \in 1 .. 2 |-> IF k = 1 THEN a ELSE b]
  BY <1>2
<1>6. s = <<a, b>>
  BY <1>3, <1>4, <1>5
<1> QED
  BY <1>6 DEF s

LEMMA FailedAfter ==
  ASSUME NEW a \in Int
  PROVE  Append(<<a>>, Unset) = <<a, Unset>> /\ Append(<<Unset>>, Unset) = <<Unset, Unset>>
<1>1. Unset \in Int
  BY DEF Unset
<1> QED
  BY <1>1, Followed

\* Two forks and two calls of wait().
LEMMA WaitStep ==
  ASSUME ProcessTypes, program = "wait", WaitInv, ProcessNext
  PROVE  WaitInv'
<1> USE Members DEF WaitInv, NotStarted
<1>1. program' = program /\ program \in ProcessPrograms
  BY DEF ProcessNext, ProcessPrograms
<1>2. ASSUME Advance("parent")
      PROVE  /\ at'["parent"] = at["parent"] + 1
             /\ at'["child"] = at["child"] /\ at'["second"] = at["second"]
  BY <1>2, Advances
<1>3. CASE ForkChild
  <2>1. /\ Advance("parent")
        /\ \/ at["parent"] = 1 /\ Arg("parent") = "child"
           \/ at["parent"] = 2 /\ Arg("parent") = "second"
    BY <1>3, TypesBegun, WaitOps DEF ForkChild
  <2>2. CASE at["parent"] = 1
    <3>1. /\ state'["child"] = "on" /\ state'["parent"] = state["parent"]
          /\ state'["second"] = state["second"] /\ UNCHANGED <<status, noFork>>
      BY <1>3, <2>1, <2>2, ForkEffect
    <3> QED
      BY <1>1, <1>2, <2>1, <2>2, <3>1
  <2>3. CASE at["parent"] = 2
    <3>1. /\ state'["second"] = "on" /\ state'["parent"] = state["parent"]
          /\ state'["child"] = state["child"] /\ UNCHANGED <<status, noFork>>
      BY <1>3, <2>1, <2>3, ForkEffect
    <3> QED
      BY <1>1, <1>2, <2>1, <2>3, <3>1
  <2> QED
    BY <2>1, <2>2, <2>3
<1>4. CASE ForkFails
  <2>1. /\ Advance("parent") /\ at["parent"] \in {1, 2}
        /\ noFork' = noFork + 1 /\ UNCHANGED <<state, status>>
    BY <1>4, TypesBegun, WaitOps DEF ForkFails
  <2> QED
    BY <1>1, <1>2, <2>1
<1>5. CASE Reap
  <2>1. Advance("parent") /\ at["parent"] \in {3, 4}
    BY <1>5, TypesBegun, WaitOps DEF Reap
  <2>2. PICK c \in Children :
          /\ state[c] = "zombie" /\ state'[c] = "gone"
          /\ \A q \in Family : q # c => state'[q] = state[q]
          /\ status' = Append(status, Script[c][at[c]].arg)
    BY <1>5, ReapEffect
  <2>3. UNCHANGED noFork
    BY <1>5 DEF Reap
  <2>4. Script[c][at[c]].arg = IF c = "child" THEN 1 ELSE 2
    BY ExitStatus
  <2>5. CASE at["parent"] = 3
    <3>1. status' = <<IF c = "child" THEN 1 ELSE 2>>
      BY <2>2, <2>4, <2>5
    <3>2. OneTaken'
      BY <2>2, <2>5, <3>1 DEF OneTaken
    <3> QED
      BY <1>1, <1>2, <2>1, <2>2, <2>3, <2>5, <3>2
  <2>6. CASE at["parent"] = 4
    <3>1. ASSUME c = "child"
          PROVE  AllTaken'
      <4>1. /\ status' = Append(status, 1) /\ state'["child"] = "gone"
            /\ state'["second"] = state["second"] /\ state["child"] = "zombie"
        BY <2>2, <2>4, <3>1
      <4>2. state["second"] = "gone" /\ status = <<2>>
        BY <2>6, <4>1 DEF OneTaken
      <4>3. status' = <<2, 1>>
        BY <4>1, <4>2, Followed
      <4>4. state'["second"] = "gone" /\ status' \in {<<1, 2>>, <<2, 1>>}
        BY <4>1, <4>2, <4>3
      <4> QED
        BY <4>1, <4>4 DEF AllTaken
    <3>2. ASSUME c = "second"
          PROVE  AllTaken'
      <4>1. /\ status' = Append(status, 2) /\ state'["second"] = "gone"
            /\ state'["child"] = state["child"] /\ state["second"] = "zombie"
        BY <2>2, <2>4, <3>2
      <4>2. state["child"] = "gone" /\ status = <<1>>
        BY <2>6, <4>1 DEF OneTaken
      <4>3. status' = <<1, 2>>
        BY <4>1, <4>2, Followed
      <4>4. state'["child"] = "gone" /\ status' \in {<<1, 2>>, <<2, 1>>}
        BY <4>1, <4>2, <4>3
      <4> QED
        BY <4>1, <4>4 DEF AllTaken
    <3>3. AllTaken'
      BY <2>2, <3>1, <3>2
    <3> QED
      BY <1>1, <1>2, <2>1, <2>2, <2>3, <2>6, <3>3
  <2> QED
    BY <2>1, <2>5, <2>6
<1>6. CASE NoChild
  <2>1. /\ Advance("parent") /\ at["parent"] \in {3, 4}
        /\ status' = Append(status, Unset) /\ UNCHANGED <<state, noFork>>
        /\ state["child"] \in {"none", "gone"} /\ state["second"] \in {"none", "gone"}
    BY <1>6, TypesBegun, WaitOps DEF NoChild
  <2>2. CASE at["parent"] = 3
    <3>1. OneTaken'
      BY <2>1, <2>2 DEF OneTaken
    <3> QED
      BY <1>1, <1>2, <2>1, <2>2, <3>1
  <2>3. CASE at["parent"] = 4
    <3>1. AllTaken'
      <4>1. CASE state["child"] = "none"
        <5>1. \/ state["second"] = "none" /\ status = <<Unset>>
              \/ state["second"] = "gone" /\ status = <<2>>
          BY <2>1, <2>3, <4>1 DEF OneTaken
        <5>2. \/ state["second"] = "none" /\ status' = <<Unset, Unset>>
              \/ state["second"] = "gone" /\ status' = <<2, Unset>>
          <6>1. Append(<<Unset>>, Unset) = <<Unset, Unset>> /\ Append(<<2>>, Unset) = <<2, Unset>>
            BY FailedAfter
          <6>2. status' = Append(status, Unset)
            BY <2>1
          <6>3. CASE state["second"] = "none" /\ status = <<Unset>>
            BY <6>1, <6>2, <6>3
          <6>4. CASE state["second"] = "gone" /\ status = <<2>>
            BY <6>1, <6>2, <6>4
          <6> QED
            BY <5>1, <6>3, <6>4
        <5> QED
          BY <2>1, <4>1, <5>2 DEF AllTaken
      <4>2. CASE state["child"] = "gone"
        <5>1. state["second"] = "none" /\ status = <<1>>
          BY <2>1, <2>3, <4>2 DEF OneTaken
        <5>2. status' = <<1, Unset>>
          BY <2>1, <5>1, FailedAfter
        <5> QED
          BY <2>1, <4>2, <5>1, <5>2 DEF AllTaken
      <4> QED
        BY <2>1, <4>1, <4>2
    <3> QED
      BY <1>1, <1>2, <2>1, <2>3, <3>1
  <2> QED
    BY <2>1, <2>2, <2>3
<1>7. ASSUME NEW p \in Family, SleepDone(p)
      PROVE  WaitInv'
  <2>1. Advance("parent") /\ at["parent"] = 5 /\ UNCHANGED <<state, status, noFork>>
    BY <1>7, TypesBegun, WaitOps DEF SleepDone
  <2> QED
    BY <1>1, <1>2, <2>1 DEF AllTaken
<1>8. ASSUME NEW p \in Family, CountUp(p)
      PROVE  WaitInv'
  BY <1>8, TypesBegun, WaitOps DEF CountUp
<1>9. ASSUME NEW p \in Family, ChildExit(p)
      PROVE  WaitInv'
  <2>1. p \in Children
    BY <1>9, <1>1, TypesBegun, OpTypes DEF ChildExit
  <2>2. /\ state[p] = "on" /\ state'["parent"] = state["parent"]
        /\ state'[p] = IF state["parent"] = "gone" THEN "gone" ELSE "zombie"
        /\ \A q \in Family : q # p => state'[q] = state[q]
        /\ UNCHANGED <<at, status, noFork>>
    BY <1>9, <2>1, ExitEffect
  <2>3. at["parent"] <= 4
    BY <2>1, <2>2 DEF AllTaken
  <2>4. state'[p] = "zombie"
    BY <2>2, <2>3
  <2>5. at["parent"] = 4 => OneTaken'
    BY <2>1, <2>2, <2>4 DEF OneTaken
  <2> QED
    BY <1>1, <2>1, <2>2, <2>3, <2>4, <2>5
<1>10. CASE ParentExit
  <2>1. at["parent"] = 6
    <3>1. Len(Script["parent"]) = 5
      BY TypesBegun, WaitOps
    <3>2. at["parent"] > 5 /\ at["parent"] \in 1 .. 6
      BY <1>10, <3>1, ParentExitEffect
    <3> QED
      BY <3>2
  <2>2. /\ UNCHANGED <<at, status, noFork>>
        /\ state'["child"] = state["child"] /\ state'["second"] = state["second"]
    BY <1>10, <2>1, ParentExitEffect DEF AllTaken
  <2> QED
    BY <1>1, <2>1, <2>2 DEF AllTaken
<1> QED
  BY <1>3, <1>4, <1>5, <1>6, <1>7, <1>8, <1>9, <1>10, ChildrenStep

\* One fork, and one call that ends the loop of waitpid().
LEMMA WaitPidStep ==
  ASSUME ProcessTypes, program = "wait_pid", WaitPidInv, ProcessNext
  PROVE  WaitPidInv'
<1> USE Members DEF WaitPidInv, NotStarted
<1>1. program' = program /\ program \in ProcessPrograms
  BY DEF ProcessNext, ProcessPrograms
<1>2. ASSUME NEW p \in Family, Advance(p)
      PROVE  at'[p] = at[p] + 1 /\ \A q \in Family : q # p => at'[q] = at[q]
  BY <1>2, Advances
<1>3. CASE ForkChild
  <2>1. Advance("parent") /\ at["parent"] = 1 /\ Arg("parent") = "child"
    BY <1>3, TypesBegun, WaitPidOps DEF ForkChild
  <2>2. /\ state'["child"] = "on" /\ state'["parent"] = state["parent"]
        /\ state'["second"] = state["second"] /\ UNCHANGED <<status, noFork>>
    BY <1>3, <2>1, ForkEffect
  <2> QED
    BY <1>1, <1>2, <2>1, <2>2
<1>4. CASE ForkFails
  <2>1. Advance("parent") /\ at["parent"] = 1 /\ noFork' = noFork + 1 /\ UNCHANGED <<state, status>>
    BY <1>4, TypesBegun, WaitPidOps DEF ForkFails
  <2> QED
    BY <1>1, <1>2, <2>1
<1>5. CASE Reap
  <2>1. Advance("parent") /\ at["parent"] = 2
    BY <1>5, TypesBegun, WaitPidOps DEF Reap
  <2>2. PICK c \in Children :
          /\ state[c] = "zombie" /\ state'[c] = "gone"
          /\ \A q \in Family : q # c => state'[q] = state[q]
          /\ status' = Append(status, Script[c][at[c]].arg)
    BY <1>5, ReapEffect
  <2>3. c = "child" /\ at["child"] = 2
    BY <2>2
  <2>4. Script[c][at[c]].arg = 1
    BY <2>3, ExitStatus
  <2>5. status' = <<1>> /\ noFork' = noFork /\ noFork = 0
    BY <1>5, <2>1, <2>2, <2>3, <2>4 DEF Reap
  <2> QED
    BY <1>1, <1>2, <2>1, <2>2, <2>3, <2>5
<1>6. CASE NoChild
  <2>1. /\ Advance("parent") /\ at["parent"] = 2
        /\ status' = Append(status, Unset) /\ UNCHANGED <<state, noFork>>
        /\ state["child"] \in {"none", "gone"}
    BY <1>6, TypesBegun, WaitPidOps DEF NoChild
  <2>2. status' = <<Unset>> /\ noFork = 1
    BY <2>1
  <2> QED
    BY <1>1, <1>2, <2>1, <2>2
<1>7. ASSUME NEW p \in Family, SleepDone(p)
      PROVE  WaitPidInv'
  <2>1. p = "child" /\ at[p] = 1 /\ Advance(p) /\ state[p] = "on" /\ UNCHANGED <<state, status, noFork>>
    BY <1>7, TypesBegun, WaitPidOps, DoesOn DEF SleepDone
  <2> QED
    BY <1>1, <1>2, <2>1
<1>8. ASSUME NEW p \in Family, CountUp(p)
      PROVE  WaitPidInv'
  BY <1>8, TypesBegun, WaitPidOps DEF CountUp
<1>9. ASSUME NEW p \in Family, ChildExit(p)
      PROVE  WaitPidInv'
  <2>1. p = "child" /\ at[p] = 2
    BY <1>9, TypesBegun, WaitPidOps DEF ChildExit
  <2>2. /\ state[p] = "on"
        /\ state'[p] = IF state["parent"] = "gone" THEN "gone" ELSE "zombie"
        /\ \A q \in Family : q # p => state'[q] = state[q]
        /\ UNCHANGED <<at, status, noFork>>
    BY <1>9, ExitEffect
  <2> QED
    BY <1>1, <2>1, <2>2
<1>10. CASE ParentExit
  <2>1. at["parent"] = 3
    <3>1. Len(Script["parent"]) = 2
      BY TypesBegun, WaitPidOps
    <3>2. at["parent"] > 2
      BY <1>10, <3>1, ParentExitEffect
    <3> QED
      BY <3>2
  <2>2. /\ UNCHANGED <<at, status, noFork>>
        /\ state'["second"] = state["second"] /\ state'["child"] # "zombie"
        /\ state'["child"] = "none" <=> state["child"] = "none"
    BY <1>10, ParentExitEffect
  <2> QED
    BY <1>1, <2>1, <2>2
<1> QED
  BY <1>3, <1>4, <1>5, <1>6, <1>7, <1>8, <1>9, <1>10, ChildrenStep

\* Each process counts in its own memory.
LEMMA ForkStep ==
  ASSUME ProcessTypes, program = "fork", ForkInv, ProcessNext
  PROVE  ForkInv'
<1> USE Members DEF ForkInv
<1>1. program' = program /\ program \in ProcessPrograms
  BY DEF ProcessNext, ProcessPrograms
<1>2. ASSUME NEW p \in Family, Advance(p)
      PROVE  at'[p] = at[p] + 1 /\ \A q \in Family : q # p => at'[q] = at[q]
  BY <1>2, Advances
<1>3. CASE ForkChild
  <2>1. Advance("parent") /\ at["parent"] = 1 /\ Arg("parent") = "child" /\ state["parent"] = "on"
    BY <1>3, TypesBegun, ForkOps, DoesOn DEF ForkChild
  <2>2. /\ state'["child"] = "on" /\ state'["parent"] = state["parent"]
        /\ value'["child"] = value["parent"] /\ value'["parent"] = value["parent"]
    BY <1>3, <2>1, ForkEffect
  <2> QED
    BY <1>1, <1>2, <2>1, <2>2
<1>4. CASE ForkFails
  <2>1. Advance("parent") /\ at["parent"] = 1 /\ UNCHANGED <<state, value>> /\ state["parent"] = "on"
    BY <1>4, TypesBegun, ForkOps, DoesOn DEF ForkFails
  <2> QED
    BY <1>1, <1>2, <2>1
<1>5. CASE Reap
  BY <1>5, TypesBegun, ForkOps DEF Reap
<1>6. CASE NoChild
  BY <1>6, TypesBegun, ForkOps DEF NoChild
<1>7. ASSUME NEW p \in Family, SleepDone(p)
      PROVE  ForkInv'
  BY <1>7, TypesBegun, ForkOps DEF SleepDone
<1>8. ASSUME NEW p \in Family, CountUp(p)
      PROVE  ForkInv'
  <2>1. /\ Does(p, "count") /\ Advance(p) /\ UNCHANGED state
        /\ value' = [value EXCEPT ![p] = @ + Arg(p)]
    BY <1>8 DEF CountUp
  <2>2. /\ \/ p = "parent" /\ at[p] = 2 /\ Arg(p) = -1
           \/ p = "child" /\ at[p] = 1 /\ Arg(p) = 1
        /\ state[p] = "on"
    BY <2>1, TypesBegun, ForkOps, DoesOn
  <2>3. value'[p] = value[p] + Arg(p) /\ \A q \in Family : q # p => value'[q] = value[q]
    BY <2>1 DEF ProcessTypes, ProcessTypeOK
  <2>4. CASE p = "parent"
    BY <1>1, <1>2, <2>1, <2>2, <2>3, <2>4
  <2>5. CASE p = "child"
    BY <1>1, <1>2, <2>1, <2>2, <2>3, <2>5
  <2> QED
    BY <2>2, <2>4, <2>5
<1>9. ASSUME NEW p \in Family, ChildExit(p)
      PROVE  ForkInv'
  <2>1. p = "child" /\ at[p] = 2
    BY <1>9, TypesBegun, ForkOps DEF ChildExit
  <2>2. /\ state[p] = "on"
        /\ state'[p] = IF state["parent"] = "gone" THEN "gone" ELSE "zombie"
        /\ \A q \in Family : q # p => state'[q] = state[q]
        /\ UNCHANGED <<at, value>>
    BY <1>9, ExitEffect
  <2> QED
    BY <1>1, <2>1, <2>2
<1>10. CASE ParentExit
  <2>1. at["parent"] = 3
    <3>1. Len(Script["parent"]) = 2
      BY TypesBegun, ForkOps
    <3>2. at["parent"] > 2
      BY <1>10, <3>1, ParentExitEffect
    <3> QED
      BY <3>2
  <2>2. /\ UNCHANGED <<at, value>>
        /\ state'["child"] = IF state["child"] = "zombie" THEN "gone" ELSE state["child"]
    BY <1>10, ParentExitEffect
  <2> QED
    BY <1>1, <2>1, <2>2
<1> QED
  BY <1>3, <1>4, <1>5, <1>6, <1>7, <1>8, <1>9, <1>10, ChildrenStep

----------------------------------------------------------------------------
(***************************************************************************)
(* The invariant of the processes.                                         *)
(***************************************************************************)

ProcessInv ==
  program \in ProcessPrograms => ProcessTypes /\ PipesInv /\ StatusInv

LEMMA InitProcessInv ==
  ASSUME ProcessInit
  PROVE  ProcessInv
<1> USE Members
<1>1. ProcessTypes
  BY InitProcessTypes
<1>2. /\ at["parent"] = 1 /\ at["child"] = 1 /\ at["second"] = 1
      /\ state["child"] = "none" /\ state["second"] = "none" /\ status = <<>> /\ noFork = 0
      /\ value["parent"] = 10 /\ value["child"] = 10
      /\ got = [p \in Family |-> <<>>]
      /\ got["parent"] = <<>> /\ got["child"] = <<>> /\ got["second"] = <<>>
      /\ program \in ProcessPrograms => state["parent"] = "on"
  BY DEF ProcessInit
<1>3. pipe[1] = <<>> /\ pipe[2] = <<>>
  BY DEF ProcessInit
<1>4. program \in ProcessPrograms => PipesInv
  BY <1>2, <1>3 DEF PipesInv, Pipe1Inv, Pipe2Inv, Pipe3Inv, Quiet
<1>5. program \in ProcessPrograms => StatusInv
  BY <1>2 DEF StatusInv, WaitInv, WaitPidInv, ForkInv, NotStarted, OneTaken, AllTaken
<1> QED
  BY <1>1, <1>4, <1>5 DEF ProcessInv

LEMMA StepProcessInv ==
  ASSUME program \in ProcessPrograms, ProcessInv, ProcessNext
  PROVE  ProcessInv'
<1>1. program' = program
  BY DEF ProcessNext
<1>2. ProcessTypes /\ Pipe1Inv /\ Pipe2Inv /\ Pipe3Inv /\ Quiet /\ WaitInv /\ WaitPidInv /\ ForkInv
  BY DEF ProcessInv, PipesInv, StatusInv
<1>3. ProcessTypes' /\ Pipe1Inv' /\ Pipe2Inv' /\ Pipe3Inv' /\ Quiet'
  <2>1. ProcessTypes'
    BY <1>2, StepTypes
  <2>2. Pipe1Inv'
    BY <1>1, <1>2, Pipe1Step DEF Pipe1Inv
  <2>3. Pipe2Inv'
    BY <1>1, <1>2, Pipe2Step DEF Pipe2Inv
  <2>4. Pipe3Inv'
    BY <1>1, <1>2, Pipe3Step DEF Pipe3Inv
  <2>5. Quiet'
    BY <1>2, QuietStep
  <2> QED
    BY <2>1, <2>2, <2>3, <2>4, <2>5
<1>4. WaitInv' /\ WaitPidInv' /\ ForkInv'
  <2>1. WaitInv'
    BY <1>1, <1>2, WaitStep DEF WaitInv
  <2>2. WaitPidInv'
    BY <1>1, <1>2, WaitPidStep DEF WaitPidInv
  <2>3. ForkInv'
    BY <1>1, <1>2, ForkStep DEF ForkInv
  <2> QED
    BY <2>1, <2>2, <2>3
<1> QED
  BY <1>3, <1>4 DEF ProcessInv, PipesInv, StatusInv

----------------------------------------------------------------------------
(***************************************************************************)
(* What follows from it.                                                   *)
(***************************************************************************)

LEMMA InvMessagesCross ==
  ASSUME ProcessInv, program \in ProcessPrograms
  PROVE  MessagesCross
<1> USE Members
<1>1. Pipe1Inv /\ Pipe2Inv /\ Pipe3Inv /\ Quiet
  BY DEF ProcessInv, PipesInv
<1>2. <<"parent">> # <<"child">> /\ <<>> # <<"child">>
  OBVIOUS
<1>3. CASE program = "pipe1"
  <2>1. ~TookBack
    BY <1>1, <1>2, <1>3 DEF Pipe1Inv, TookBack
  <2> QED
    BY <1>1, <1>3, <2>1 DEF Pipe1Inv, MessagesCross, Family
<1>4. CASE program = "pipe2"
  <2>1. /\ got["parent"] \in {<<>>, <<"child">>} /\ got["second"] = <<>>
        /\ got["child"] \in {<<>>, <<"parent">>} \/ TookBack
    BY <1>1, <1>4 DEF Pipe2Inv, TookBack
  <2>2. TookBack => got["parent"] = <<>> /\ state["parent"] = "on" /\ pipe[1] = <<>>
    <3> SUFFICES ASSUME TookBack
                 PROVE  got["parent"] = <<>> /\ state["parent"] = "on" /\ pipe[1] = <<>>
      OBVIOUS
    <3>1. at["child"] = 4 /\ at["parent"] <= 3
      BY <1>1, <1>2, <1>4 DEF Pipe2Inv, TookBack
    <3>2. at["parent"] \in {1, 2}
      BY <1>1, <1>4, <3>1 DEF Pipe2Inv
    <3> QED
      BY <1>1, <1>4, <3>1, <3>2 DEF Pipe2Inv
  <2> QED
    BY <1>4, <2>1, <2>2 DEF MessagesCross, Family
<1>5. CASE program = "pipe3"
  <2>1. ~TookBack
    BY <1>1, <1>2, <1>5 DEF Pipe3Inv, TookBack
  <2> QED
    BY <1>1, <1>5, <2>1 DEF Pipe3Inv, MessagesCross, Family
<1>6. CASE program \notin {"pipe1", "pipe2", "pipe3"}
  <2>1. \A p \in Family : got[p] = <<>>
    BY <1>1, <1>6 DEF Quiet
  <2>2. ~TookBack
    BY <1>2, <2>1 DEF TookBack
  <2> QED
    BY <2>1, <2>2 DEF MessagesCross
<1> QED
  BY <1>3, <1>4, <1>5, <1>6

\* Two calls of wait(), by the statuses they gave.
LEMMA TwoWaits ==
  ASSUME NEW x \in {1, 2, Unset}, NEW y \in {1, 2, Unset}, status = <<x, y>>,
         x = y => x = Unset,
         NEW n \in Nat,
         n = (IF x = Unset THEN 1 ELSE 0) + (IF y = Unset THEN 1 ELSE 0)
  PROVE  \E failed \in SUBSET {1, 2} :
           /\ Cardinality(failed) = n
           /\ {status[k] : k \in 1 .. 2} \ {Unset} = {1, 2} \ failed
           /\ Cardinality({k \in 1 .. 2 : status[k] = Unset}) = n
<1> DEFINE failed == {1, 2} \ {x, y}
           calls == {k \in 1 .. 2 : status[k] = Unset}
<1>1. Unset \notin {1, 2} /\ status[1] = x /\ status[2] = y
  BY DEF Unset
<1>2. {status[k] : k \in 1 .. 2} \ {Unset} = {1, 2} \ failed
  BY <1>1
<1>3. Cardinality({}) = 0 /\ Cardinality({1}) = 1 /\ Cardinality({2}) = 1 /\ Cardinality({1, 2}) = 2
  <2>1. 2 \notin {1} /\ {1} \cup {2} = {1, 2}
    OBVIOUS
  <2>2. Cardinality({1} \cup {2}) = Cardinality({1}) + 1
    <3>1. IsFiniteSet({1})
      BY FS_Singleton
    <3> QED
      BY <2>1, <3>1, FS_AddElement
  <2>3. Cardinality({}) = 0 /\ Cardinality({1}) = 1 /\ Cardinality({2}) = 1
    BY FS_EmptySet, FS_Singleton
  <2>4. Cardinality({1, 2}) = Cardinality({1} \cup {2})
    BY <2>1, Zenon
  <2> QED
    BY <2>2, <2>3, <2>4
<1>4. CASE x # Unset /\ y # Unset
  <2>1. failed = {} /\ calls = {} /\ n = 0
    BY <1>1, <1>4
  <2> QED
    BY <1>2, <1>3, <2>1
<1>5. CASE x = Unset /\ y # Unset
  <2>1. failed \in {{1}, {2}} /\ calls = {1} /\ n = 1
    BY <1>1, <1>5
  <2> QED
    BY <1>2, <1>3, <2>1
<1>6. CASE x # Unset /\ y = Unset
  <2>1. failed \in {{1}, {2}} /\ calls = {2} /\ n = 1
    BY <1>1, <1>6
  <2> QED
    BY <1>2, <1>3, <2>1
<1>7. CASE x = Unset /\ y = Unset
  <2>1. failed = {1, 2} /\ calls = {1, 2} /\ n = 2
    BY <1>1, <1>7
  <2> QED
    BY <1>2, <1>3, <2>1
<1> QED
  BY <1>4, <1>5, <1>6, <1>7

LEMMA InvCollected ==
  ASSUME ProcessInv, program \in ProcessPrograms
  PROVE  Collected
<1> USE Members
<1>1. WaitInv /\ WaitPidInv /\ ForkInv /\ noFork \in Nat
  BY ProcessesAssumption DEF ProcessInv, StatusInv, ProcessTypes, ProcessTypeOK
<1> SUFFICES ASSUME state["parent"] = "gone"
             PROVE  /\ program = "wait" => Collected
                    /\ program = "wait_pid" => status = <<IF noFork = 0 THEN 1 ELSE Unset>>
                    /\ program = "fork" => /\ value["parent"] = 9
                                           /\ state["child"] = "gone" => value["child"] = 11
  BY DEF Collected
<1>2. ASSUME program = "wait"
      PROVE  Collected
  <2>1. AllTaken /\ noFork = NotStarted("child") + NotStarted("second")
    BY <1>1, <1>2 DEF WaitInv
  <2>2. PICK x \in {1, 2, Unset}, y \in {1, 2, Unset} :
          /\ status = <<x, y>>
          /\ x = y => x = Unset
          /\ noFork = (IF x = Unset THEN 1 ELSE 0) + (IF y = Unset THEN 1 ELSE 0)
    <3>1. Unset # 1 /\ Unset # 2
      BY DEF Unset
    <3>2. CASE state["child"] = "none" /\ state["second"] = "none" /\ status = <<Unset, Unset>>
      BY <2>1, <3>2 DEF NotStarted
    <3>3. CASE state["child"] = "gone" /\ state["second"] = "none" /\ status = <<1, Unset>>
      BY <2>1, <3>1, <3>3 DEF NotStarted
    <3>4. CASE state["child"] = "none" /\ state["second"] = "gone" /\ status = <<2, Unset>>
      BY <2>1, <3>1, <3>4 DEF NotStarted
    <3>5. CASE state["child"] = "gone" /\ state["second"] = "gone" /\ status = <<1, 2>>
      BY <2>1, <3>1, <3>5 DEF NotStarted
    <3>6. CASE state["child"] = "gone" /\ state["second"] = "gone" /\ status = <<2, 1>>
      BY <2>1, <3>1, <3>6 DEF NotStarted
    <3> QED
      BY <2>1, <3>2, <3>3, <3>4, <3>5, <3>6 DEF AllTaken
  <2>3. Len(status) = 2
    BY <2>2
  <2>4. \E failed \in SUBSET {1, 2} :
          /\ Cardinality(failed) = noFork
          /\ {status[k] : k \in 1 .. 2} \ {Unset} = {1, 2} \ failed
          /\ Cardinality({k \in 1 .. 2 : status[k] = Unset}) = noFork
    BY <1>1, <2>2, TwoWaits, Zenon
  <2> QED
    BY <1>2, <2>3, <2>4 DEF Collected
<1>3. ASSUME program = "wait_pid"
      PROVE  status = <<IF noFork = 0 THEN 1 ELSE Unset>>
  BY <1>1, <1>3 DEF WaitPidInv
<1>4. ASSUME program = "fork"
      PROVE  value["parent"] = 9 /\ (state["child"] = "gone" => value["child"] = 11)
  BY <1>1, <1>4 DEF ForkInv
<1> QED
  BY <1>2, <1>3, <1>4

LEMMA ProcessFacts ==
  ASSUME ProcessInv, program \in ProcessPrograms
  PROVE  ProcessTypeOK /\ MessagesCross /\ Collected
BY InvMessagesCross, InvCollected DEF ProcessInv, ProcessTypes

\* A program without processes leaves them alone.
LEMMA IdleProcesses ==
  ASSUME program \notin ProcessPrograms, ProcessInit
  PROVE  /\ ProcessTypeOK /\ MessagesCross /\ Collected
         /\ ~ProcessNext
<1>1. /\ \A p \in Family : state[p] = "none" /\ got[p] = <<>>
      /\ "parent" \in Family /\ "child" \in Family
  BY DEF ProcessInit, Family
<1>2. \A p \in Family : \A name : ~Does(p, name)
  BY <1>1, DoesOn
<1>3. ~ProcessNext
  BY <1>1, <1>2 DEF ProcessNext, Process, Parent, Timeout, Interrupt, ForkChild, ForkFails, Reap,
       NoChild, SetAlarm, ParentExit, WritePipe, ReadPipe, CountUp, SleepDone, ChildExit
<1>4. MessagesCross
  <2>1. <<>> # <<"child">>
    OBVIOUS
  <2>2. ~TookBack
    BY <1>1, <2>1 DEF TookBack
  <2> QED
    BY <1>1, <2>2 DEF MessagesCross
<1>5. Collected
  BY <1>1 DEF Collected
<1> QED
  BY <1>3, <1>4, <1>5, InitProcessTypes DEF ProcessTypes

LEMMA ProcessStutter ==
  ASSUME ProcessInv, UNCHANGED <<program, processVars>>
  PROVE  ProcessInv'
BY DEF ProcessInv, processVars, ProcessTypes, ProcessTypeOK, Arg, Script, PipesInv, Pipe1Inv,
       Pipe2Inv, Pipe3Inv, Quiet, StatusInv, WaitInv, WaitPidInv, ForkInv, NotStarted, OneTaken,
       AllTaken

\* Every reachable state of a program of processes satisfies the invariant.
THEOREM ProcessInductive == ProcessSpec => [](program \in ProcessPrograms /\ ProcessInv)
<1>1. program \in ProcessPrograms /\ ProcessInit => program \in ProcessPrograms /\ ProcessInv
  BY InitProcessInv
<1>2. /\ program \in ProcessPrograms /\ ProcessInv
      /\ [ProcessNext]_<<program, processVars>>
      => (program \in ProcessPrograms /\ ProcessInv)'
  BY StepProcessInv, ProcessStutter DEF ProcessNext
<1> QED
  BY <1>1, <1>2, PTL DEF ProcessSpec

\* A message through a pipe reaches the other process whole and once, but for the one that the
\* child of pipe2 reads back: then the parent waits for ever.
THEOREM PipesCross == ProcessSpec => []MessagesCross
<1>1. program \in ProcessPrograms /\ ProcessInv => MessagesCross
  BY ProcessFacts
<1> QED
  BY <1>1, ProcessInductive, PTL

\* wait() and waitpid() give the status of each child that was started once, and fail as often as
\* fork() did; the counts of the two processes of fork.c do not meet.
THEOREM StatusesCollected == ProcessSpec => []Collected
<1>1. program \in ProcessPrograms /\ ProcessInv => Collected
  BY ProcessFacts
<1> QED
  BY <1>1, ProcessInductive, PTL

----------------------------------------------------------------------------
(***************************************************************************)
(* Datagrams: types.                                                       *)
(***************************************************************************)

\* With the types: the server holds a datagram only while it has to reply.
DatagramTypes ==
  /\ DatagramTypeOK
  /\ server # "reply" => held = Nothing

\* What is left of a sequence without its element k.
LEMMA RemovedAt ==
  ASSUME NEW S, NEW s \in Seq(S), NEW k \in DOMAIN s
  PROVE  /\ RemoveAt(s, k) \in Seq(S)
         /\ DOMAIN RemoveAt(s, k) = 1 .. Len(s) - 1
         /\ \A m \in 1 .. Len(s) - 1 :
              RemoveAt(s, k)[m] = IF m < k THEN s[m] ELSE s[m + 1]
         /\ s[k] \in S
<1> DEFINE before == SubSeq(s, 1, k - 1)
           after == SubSeq(s, k + 1, Len(s))
<1>1. k \in 1 .. Len(s) /\ Len(s) \in Nat /\ s[k] \in S
  OBVIOUS
<1>2. before \in Seq(S) /\ Len(before) = k - 1 /\ \A m \in 1 .. k - 1 : before[m] = s[m]
  BY <1>1
<1>3. after \in Seq(S) /\ Len(after) = Len(s) - k /\ \A m \in 1 .. Len(s) - k : after[m] = s[m + k]
  BY <1>1
<1>4. RemoveAt(s, k) = before \o after
  BY DEF RemoveAt
<1> HIDE DEF before, after
<1>5. RemoveAt(s, k) \in Seq(S) /\ Len(RemoveAt(s, k)) = Len(s) - 1
  BY <1>1, <1>2, <1>3, <1>4
<1>6. ASSUME NEW m \in 1 .. Len(s) - 1
      PROVE  RemoveAt(s, k)[m] = IF m < k THEN s[m] ELSE s[m + 1]
  <2>1. CASE m < k
    BY <1>1, <1>2, <1>3, <1>4, <2>1
  <2>2. CASE m >= k
    <3>1. m - (k - 1) \in 1 .. Len(s) - k /\ (m - (k - 1)) + k = m + 1
      BY <1>1, <2>2
    <3>2. (before \o after)[m] = after[m - Len(before)]
      <4>1. m \in Len(before) + 1 .. Len(before) + Len(after)
        BY <1>1, <1>2, <1>3, <2>2
      <4>2. before \in Seq(S) /\ after \in Seq(S)
        BY <1>2, <1>3
      <4> QED
        BY <4>1, <4>2
    <3>3. after[m - (k - 1)] = s[m + 1]
      BY <1>3, <3>1
    <3>4. RemoveAt(s, k)[m] = s[m + 1]
      BY <1>2, <1>4, <3>2, <3>3
    <3> QED
      BY <1>1, <2>2, <3>4
  <2> QED
    BY <1>1, <2>1, <2>2
<1> QED
  BY <1>1, <1>5, <1>6

LEMMA DatagramOf ==
  ASSUME NEW c \in Clients, NEW n \in Nat
  PROVE  [from |-> c, number |-> n] \in Datagram /\ Nothing \in Datagram
BY DatagramsAssumption DEF Datagram, Nothing

LEMMA InitDatagramTypes ==
  ASSUME DatagramInit
  PROVE  DatagramTypes
<1>1. held \in Datagram /\ held = Nothing
  BY DatagramsAssumption DEF DatagramInit, Datagram, Nothing
<1>2. /\ bound \in BOOLEAN /\ server \in {"receive", "reply", "done"}
      /\ refused \subseteq Clients /\ lost \subseteq Datagram /\ newline \in BOOLEAN
  BY DEF DatagramInit
<1>3. queue \in Seq(Datagram) /\ received \in Seq(Datagram)
  BY DEF DatagramInit
<1>4. /\ client \in [Clients -> {"input", "receive", "done"}]
      /\ number \in [Clients -> Nat] /\ output \in [Clients -> Nat \cup {Error}]
  BY DEF DatagramInit
<1>5. answers \in [Clients -> Seq(Nat)]
  BY DEF DatagramInit
<1> QED
  BY <1>1, <1>2, <1>3, <1>4, <1>5 DEF DatagramTypes, DatagramTypeOK

\* A message of a client: it arrives at a server that is there, or is lost.
LEMMA SendEffect ==
  ASSUME DatagramTypes, NEW c \in Clients, SendNext(c)
  PROVE  /\ number' \in [Clients -> Nat] /\ number'[c] = number[c] + 1
         /\ \A d \in Clients : d # c => number'[d] = number[d]
         /\ LineSent(number'[c]) \in Nat
         /\ \/ /\ bound /\ queue' = Append(queue, [from |-> c, number |-> LineSent(number'[c])])
               /\ UNCHANGED <<lost, refused>>
            \/ /\ lost' = lost \cup {[from |-> c, number |-> LineSent(number'[c])]}
               /\ refused' = IF program = "echo_con" /\ ~bound THEN refused \cup {c} ELSE refused
               /\ UNCHANGED queue
<1>1. /\ number' \in [Clients -> Nat] /\ number'[c] = number[c] + 1
      /\ \A d \in Clients : d # c => number'[d] = number[d]
  BY DEF SendNext, DatagramTypes, DatagramTypeOK
<1>2. LineSent(number'[c]) \in Nat
  BY <1>1, DatagramsAssumption DEF LineSent
<1> QED
  BY <1>1, <1>2 DEF SendNext, Transmit

LEMMA DatagramStepTypes ==
  ASSUME DatagramTypes, DatagramNext
  PROVE  DatagramTypes'
<1> USE DEF DatagramTypes
<1>1. Nothing \in Datagram /\ Nothing' = Nothing
  BY DatagramsAssumption DEF Datagram, Nothing
<1>2. CASE Bind
  BY <1>1, <1>2 DEF Bind, DatagramTypeOK
<1>3. CASE Stop
  <2>1. ToSet(queue) \subseteq Datagram
    BY DEF DatagramTypeOK, ToSet
  <2>2. lost' \subseteq Datagram
    BY <1>3, <2>1 DEF Stop, DatagramTypeOK
  <2>3. queue' \in Seq(Datagram) /\ received' \in Seq(Datagram)
    BY <1>3 DEF Stop
  <2> QED
    BY <1>1, <1>3, <2>2, <2>3 DEF Stop, DatagramTypeOK
<1>4. CASE ServerReceive
  <2>1. PICK k \in DOMAIN queue :
          /\ queue' = RemoveAt(queue, k)
          /\ IF program \in Echoing
             THEN held' = queue[k] /\ server' = "reply" /\ UNCHANGED <<received, bound>>
             ELSE /\ received' = Append(received, queue[k])
                  /\ bound' = (program = "news" \/ Len(received') < 3)
                  /\ server' = IF bound' THEN "receive" ELSE "done"
                  /\ UNCHANGED held
    BY <1>4 DEF ServerReceive
  <2>2. queue' \in Seq(Datagram) /\ queue[k] \in Datagram
    BY <2>1, RemovedAt DEF DatagramTypeOK
  <2>3. /\ received' \in Seq(Datagram) /\ held' \in Datagram
        /\ server' \in {"receive", "reply", "done"} /\ bound' \in BOOLEAN
    <3>1. received' \in Seq(Datagram) /\ held' \in Datagram
      <4>1. received' = received \/ received' = Append(received, queue[k])
        BY <2>1, Zenon
      <4>2. held' = held \/ held' = queue[k]
        BY <2>1, Zenon
      <4>3. Append(received, queue[k]) \in Seq(Datagram)
        BY <2>2 DEF DatagramTypeOK
      <4> QED
        BY <2>2, <4>1, <4>2, <4>3 DEF DatagramTypeOK
    <3>2. server' \in {"receive", "reply", "done"}
      BY <2>1
    <3>3. bound' \in BOOLEAN
      <4>1. CASE program \in Echoing
        BY <2>1, <4>1 DEF DatagramTypeOK
      <4>2. CASE program \notin Echoing
        BY <2>1, <4>2, Zenon
      <4> QED
        BY <4>1, <4>2
    <3> QED
      BY <3>1, <3>2, <3>3
  <2>4. server' # "reply" => held' = Nothing
    BY <1>4, <2>1 DEF ServerReceive
  <2> QED
    BY <1>1, <1>4, <2>2, <2>3, <2>4 DEF ServerReceive, DatagramTypeOK
<1>5. CASE ServerReply
  <2>1. held.from \in Clients /\ held.number \in Nat
    BY DEF DatagramTypeOK, Datagram
  <2>2. answers' \in [Clients -> Seq(Nat)]
    <3>1. CASE UNCHANGED answers
      BY <3>1 DEF DatagramTypeOK
    <3>2. CASE answers' = [answers EXCEPT ![held.from] = Append(@, held.number)]
      <4>1. Append(answers[held.from], held.number) \in Seq(Nat)
        BY <2>1 DEF DatagramTypeOK
      <4> QED
        BY <2>1, <3>2, <4>1 DEF DatagramTypeOK
    <3> QED
      BY <1>5, <3>1, <3>2 DEF ServerReply, Sender
  <2>3. lost' \subseteq Datagram
    BY <1>5 DEF ServerReply, DatagramTypeOK
  <2> QED
    BY <1>1, <1>5, <2>2, <2>3 DEF ServerReply, DatagramTypeOK
<1>6. ASSUME NEW c \in Clients, SendNext(c)
      PROVE  DatagramTypes'
  <2>1. /\ number' \in [Clients -> Nat] /\ LineSent(number'[c]) \in Nat
    BY <1>6, SendEffect
  <2> DEFINE m == [from |-> c, number |-> LineSent(number'[c])]
  <2>2. m \in Datagram
    BY <2>1, DatagramOf
  <2>3. /\ queue' = Append(queue, m) \/ UNCHANGED queue
        /\ lost' = lost \cup {m} \/ UNCHANGED lost
        /\ refused' \subseteq refused \cup {c}
    BY <1>6, SendEffect
  <2> HIDE DEF m
  <2>5. queue' \in Seq(Datagram) /\ lost' \subseteq Datagram /\ refused' \subseteq Clients
    <3>1. Append(queue, m) \in Seq(Datagram)
      BY <2>2 DEF DatagramTypeOK
    <3>2. queue' \in Seq(Datagram)
      BY <2>3, <3>1 DEF DatagramTypeOK
    <3>3. lost' \subseteq Datagram
      BY <2>2, <2>3 DEF DatagramTypeOK
    <3>4. refused' \subseteq Clients
      BY <1>6, <2>3 DEF DatagramTypeOK
    <3> QED
      BY <3>2, <3>3, <3>4
  <2>4. client' \in [Clients -> {"input", "receive", "done"}]
    BY <1>6 DEF SendNext, DatagramTypeOK
  <2> QED
    BY <1>1, <1>6, <2>1, <2>4, <2>5 DEF SendNext, DatagramTypeOK
<1>7. ASSUME NEW c \in Clients, ReceiveEcho(c)
      PROVE  DatagramTypes'
  <2>1. answers[c] \in Seq(Nat) /\ answers[c] # <<>>
    BY <1>7 DEF ReceiveEcho, DatagramTypeOK
  <2>2. Head(answers[c]) \in Nat /\ Tail(answers[c]) \in Seq(Nat)
    BY <2>1
  <2>3. answers' \in [Clients -> Seq(Nat)] /\ output' \in [Clients -> Nat \cup {Error}]
    BY <1>7, <2>2 DEF ReceiveEcho, DatagramTypeOK
  <2> QED
    BY <1>1, <1>7, <2>3 DEF ReceiveEcho, DatagramTypeOK
<1>8. ASSUME NEW c \in Clients, ReceiveRefused(c)
      PROVE  DatagramTypes'
  BY <1>1, <1>8 DEF ReceiveRefused, DatagramTypeOK
<1>9. ASSUME NEW c \in Clients, Leave(c)
      PROVE  DatagramTypes'
  BY <1>1, <1>9 DEF Leave, DatagramTypeOK
<1> QED
  BY <1>2, <1>3, <1>4, <1>5, <1>6, <1>7, <1>8, <1>9 DEF DatagramNext, Server, Client

----------------------------------------------------------------------------
(***************************************************************************)
(* Echoes: a message, or its echo, is at one place at most.                *)
(***************************************************************************)

InQueue(c) == \E k \in DOMAIN queue : queue[k].from = c
WithServer(c) == server = "reply" /\ held.from = c
InFlight(c) == InQueue(c) \/ WithServer(c) \/ answers[c] # <<>>

\* What the server has are the latest messages of different clients.
AtServer ==
  /\ \A k \in DOMAIN queue : queue[k] = Latest(queue[k].from)
  /\ \A k, l \in DOMAIN queue : k # l => queue[k].from # queue[l].from
  /\ server = "reply" => held = Latest(held.from) /\ ~InQueue(held.from)
  /\ server # "done"
  /\ ~bound => queue = <<>> /\ server = "receive"

\* A client whose message is on its way waits, and gets no error.
AtClient(c) ==
  /\ answers[c] # <<>> => answers[c] = <<number[c]>> /\ ~InQueue(c) /\ ~WithServer(c)
  /\ InFlight(c) => client[c] = "receive"
  /\ c \in refused => /\ client[c] = "receive" /\ program = "echo_con"
                      /\ Latest(c) \in lost /\ ~InFlight(c)
  /\ client[c] = "input" =>
       output[c] = number[c] \/ (output[c] = Error /\ program = "echo_con" /\ Latest(c) \in lost)

EchoInv == program \in Echoing => AtServer /\ \A c \in Clients : AtClient(c)

LEMMA InitEchoInv ==
  ASSUME DatagramInit
  PROVE  EchoInv
<1>1. /\ queue = <<>> /\ server = "receive" /\ refused = {}
      /\ \A c \in Clients : answers[c] = <<>> /\ output[c] = 0 /\ number[c] = 0
  BY DEF DatagramInit
<1>2. \A c : ~InQueue(c) /\ ~WithServer(c)
  BY <1>1 DEF InQueue, WithServer
<1>3. AtServer
  BY <1>1 DEF AtServer
<1>4. \A c \in Clients : AtClient(c)
  BY <1>1, <1>2 DEF AtClient, InFlight
<1> QED
  BY <1>3, <1>4 DEF EchoInv

\* Nothing about client c changes.
LEMMA ClientSame ==
  ASSUME NEW c \in Clients, AtClient(c), UNCHANGED program,
         answers'[c] = answers[c], number'[c] = number[c], client'[c] = client[c],
         output'[c] = output[c], c \in refused' => c \in refused, lost \subseteq lost',
         InQueue(c)' => InQueue(c), WithServer(c)' => WithServer(c)
  PROVE  AtClient(c)'
BY DEF AtClient, InFlight, Latest

\* The server ends, with all that it has.
LEMMA StopEcho ==
  ASSUME DatagramTypes, program \in Echoing, UNCHANGED program, EchoInv, Stop
  PROVE  EchoInv'
<1>1. /\ queue' = <<>> /\ server' = "receive" /\ lost \subseteq lost'
      /\ UNCHANGED <<client, number, answers, refused, output>>
  BY DEF Stop
<1>2. AtServer'
  BY <1>1 DEF AtServer
<1>3. \A c : ~InQueue(c)' /\ ~WithServer(c)'
  BY <1>1 DEF InQueue, WithServer
<1>4. ASSUME NEW c \in Clients
      PROVE  AtClient(c)'
  BY <1>1, <1>3, ClientSame DEF EchoInv
<1> QED
  BY <1>2, <1>4 DEF EchoInv

\* The datagram moves from the queue to the server.
LEMMA ReceiveAtServer ==
  ASSUME DatagramTypes, program \in Echoing, UNCHANGED program, EchoInv, ServerReceive
  PROVE  EchoInv'
<1>1. /\ 1 \in DOMAIN queue /\ queue' = RemoveAt(queue, 1)
      /\ held' = queue[1] /\ server' = "reply"
      /\ bound /\ server = "receive"
      /\ UNCHANGED <<bound, client, number, answers, refused, output, lost>>
  BY DEF ServerReceive, NextDatagram, Echoing
<1>2. /\ queue \in Seq(Datagram) /\ DOMAIN queue = 1 .. Len(queue) /\ Len(queue) \in Nat
      /\ DOMAIN queue' = 1 .. Len(queue) - 1
      /\ \A m \in 1 .. Len(queue) - 1 : queue'[m] = queue[m + 1]
  <2>1. queue \in Seq(Datagram)
    BY DEF DatagramTypes, DatagramTypeOK
  <2> QED
    BY <1>1, <2>1, RemovedAt
<1>3. AtServer /\ \A c \in Clients : AtClient(c)
  BY DEF EchoInv
<1>4. \A k \in DOMAIN queue' : k + 1 \in DOMAIN queue /\ k + 1 # 1 /\ queue'[k] = queue[k + 1]
  BY <1>2
<1>5. \A c : Latest(c)' = Latest(c)
  BY <1>1 DEF Latest
<1>6. \A c : InQueue(c)' => InQueue(c) /\ c # queue[1].from
  BY <1>1, <1>3, <1>4 DEF InQueue, AtServer
<1>7. AtServer'
  <2>1. (\A k \in DOMAIN queue : queue[k] = Latest(queue[k].from))'
    BY <1>3, <1>4, <1>5 DEF AtServer
  <2>2. \A k, l \in DOMAIN queue' : k # l => queue'[k].from # queue'[l].from
    <3> TAKE k, l \in DOMAIN queue'
    <3>1. k # l => k + 1 # l + 1
      BY <1>2
    <3> QED
      BY <1>3, <1>4, <3>1 DEF AtServer
  <2>3. (held = Latest(held.from))' /\ ~InQueue(held.from)'
    BY <1>1, <1>3, <1>5, <1>6 DEF AtServer
  <2> QED
    BY <1>1, <2>1, <2>2, <2>3 DEF AtServer
<1>8. ASSUME NEW c \in Clients
      PROVE  AtClient(c)'
  <2>1. WithServer(c)' => InQueue(c) /\ ~InQueue(c)'
    BY <1>1, <1>6 DEF WithServer, InQueue
  <2> QED
    BY <1>1, <1>3, <1>5, <1>6, <2>1 DEF AtClient, InFlight
<1> QED
  BY <1>7, <1>8 DEF EchoInv

\* It moves on to its client, or is lost.
LEMMA ReplyAtServer ==
  ASSUME DatagramTypes, program \in Echoing, UNCHANGED program, EchoInv, ServerReply
  PROVE  EchoInv'
<1> DEFINE a == held.from
<1>1. /\ bound /\ server = "reply" /\ server' = "receive"
      /\ UNCHANGED <<bound, queue, client, number, refused, output>>
      /\ lost \subseteq lost'
      /\ UNCHANGED answers \/ answers' = [answers EXCEPT ![a] = Append(@, held.number)]
  BY DEF ServerReply, Sender
<1>2. AtServer /\ \A c \in Clients : AtClient(c)
  BY DEF EchoInv
<1>3. a \in Clients /\ held.number = number[a] /\ WithServer(a) /\ ~InQueue(a)
  <2>1. held \in Datagram
    BY DEF DatagramTypes, DatagramTypeOK
  <2>2. held = Latest(a)
    BY <1>1, <1>2 DEF AtServer
  <2>3. held.number = number[a]
    BY <2>2 DEF Latest
  <2> QED
    BY <1>1, <1>2, <2>1, <2>3 DEF AtServer, WithServer, Datagram
<1>4. /\ \A c : (InQueue(c)' <=> InQueue(c)) /\ ~WithServer(c)'
      /\ \A c : Latest(c)' = Latest(c)
  BY <1>1 DEF InQueue, WithServer, Latest
<1>5. AtServer'
  BY <1>1, <1>2, <1>4 DEF AtServer
<1>6. ASSUME NEW c \in Clients
      PROVE  AtClient(c)'
  <2>1. CASE answers'[c] = answers[c]
    BY <1>1, <1>2, <1>4, <2>1, ClientSame
  <2>2. CASE answers'[c] # answers[c]
    <3>1. c = a
      BY <1>1, <2>2 DEF DatagramTypes, DatagramTypeOK
    <3>2. answers[a] = <<>> /\ client[a] = "receive" /\ a \notin refused
      BY <1>2, <1>3 DEF AtClient, InFlight
    <3>3. answers'[a] = Append(answers[a], number[a])
      BY <1>1, <1>3, <2>2, <3>1 DEF DatagramTypes, DatagramTypeOK
    <3>4. answers'[a] = <<number[a]>>
      BY <3>2, <3>3
    <3> HIDE DEF a
    <3> QED
      BY <1>1, <1>3, <1>4, <3>1, <3>2, <3>4 DEF AtClient, InFlight
  <2> QED
    BY <2>1, <2>2
<1> QED
  BY <1>5, <1>6 DEF EchoInv

\* A client whose last message is not on its way any more sends the next one.
LEMMA SendEcho ==
  ASSUME DatagramTypes, program \in Echoing, UNCHANGED program, EchoInv,
         NEW c \in Clients, SendNext(c)
  PROVE  EchoInv'
<1> DEFINE m == [from |-> c, number |-> number'[c]]
<1>1. /\ client[c] = "input" /\ client' = [client EXCEPT ![c] = "receive"]
      /\ UNCHANGED <<bound, server, held, answers, output>>
  BY DEF SendNext
<1>2. /\ number'[c] \in Nat /\ \A d \in Clients : d # c => number'[d] = number[d]
      /\ \/ /\ bound /\ queue' = Append(queue, m)
            /\ UNCHANGED <<lost, refused>>
         \/ /\ lost' = lost \cup {m}
            /\ refused' = IF program = "echo_con" /\ ~bound THEN refused \cup {c} ELSE refused
            /\ UNCHANGED queue
  <2>1. LineSent(number'[c]) = number'[c]
    BY DEF LineSent, Echoing
  <2> QED
    BY <2>1, SendEffect
<1>3. AtServer /\ \A d \in Clients : AtClient(d)
  BY DEF EchoInv
<1>4. ~InFlight(c) /\ c \notin refused
  BY <1>1, <1>3 DEF AtClient
<1>5. /\ m = Latest(c)' /\ m.from = c
      /\ \A d \in Clients : d # c => Latest(d)' = Latest(d)
  BY <1>2 DEF Latest
<1>6. /\ queue \in Seq(Datagram) /\ DOMAIN queue = 1 .. Len(queue) /\ Len(queue) \in Nat
      /\ \A k \in DOMAIN queue : queue[k].from \in Clients
      /\ server = "reply" => held.from \in Clients
      /\ client \in [Clients -> {"input", "receive", "done"}]
  <2>1. queue \in Seq(Datagram) /\ held \in Datagram
    BY DEF DatagramTypes, DatagramTypeOK
  <2>2. \A k \in DOMAIN queue : queue[k] \in Datagram
    BY <2>1
  <2>3. client \in [Clients -> {"input", "receive", "done"}]
    BY DEF DatagramTypes, DatagramTypeOK
  <2>4. \A d \in Datagram : d.from \in Clients
    BY DEF Datagram
  <2>5. DOMAIN queue = 1 .. Len(queue) /\ Len(queue) \in Nat
    BY <2>1
  <2> QED
    BY <2>1, <2>2, <2>3, <2>4, <2>5
<1>7. /\ \A k \in DOMAIN queue : queue[k].from # c
      /\ server = "reply" => held.from # c
      /\ answers[c] = <<>>
  BY <1>4 DEF InFlight, InQueue, WithServer
<1> HIDE DEF m
<1>8. \/ /\ bound /\ DOMAIN queue' = 1 .. Len(queue) + 1 /\ queue'[Len(queue) + 1] = m
         /\ \A k \in DOMAIN queue : queue'[k] = queue[k]
         /\ UNCHANGED <<lost, refused>>
      \/ /\ UNCHANGED queue /\ lost' = lost \cup {m}
         /\ refused' = IF program = "echo_con" /\ ~bound THEN refused \cup {c} ELSE refused
  <2>1. CASE bound /\ queue' = Append(queue, m) /\ UNCHANGED <<lost, refused>>
    <3>1. m \in Datagram
      BY <1>2 DEF m, Datagram
    <3>2. DOMAIN queue' = 1 .. Len(queue) + 1
      BY <1>6, <2>1, <3>1
    <3>3. /\ queue'[Len(queue) + 1] = m
          /\ \A k \in DOMAIN queue : queue'[k] = queue[k]
      BY <1>6, <2>1, <3>1
    <3> QED
      BY <2>1, <3>2, <3>3
  <2> QED
    BY <1>2, <2>1
<1>9. \A k \in DOMAIN queue' :
        \/ k \in DOMAIN queue /\ queue'[k] = queue[k]
        \/ k = Len(queue) + 1 /\ queue'[k] = m
  BY <1>6, <1>8
<1>10. \A d \in Clients : d # c => (InQueue(d)' => InQueue(d)) /\ (WithServer(d)' => WithServer(d))
  BY <1>1, <1>5, <1>9 DEF InQueue, WithServer
<1>11. AtServer'
  <2>1. (\A k \in DOMAIN queue : queue[k] = Latest(queue[k].from))'
    BY <1>3, <1>5, <1>6, <1>7, <1>9 DEF AtServer
  <2>2. \A k, l \in DOMAIN queue' : k # l => queue'[k].from # queue'[l].from
    BY <1>3, <1>5, <1>7, <1>9 DEF AtServer
  <2>3. server' = "reply" => (held = Latest(held.from))' /\ ~InQueue(held.from)'
    BY <1>1, <1>3, <1>5, <1>6, <1>7, <1>10 DEF AtServer
  <2>4. ~bound' => queue' = <<>> /\ server' = "receive"
    BY <1>1, <1>3, <1>8 DEF AtServer
  <2> QED
    BY <1>1, <1>3, <2>1, <2>2, <2>3, <2>4 DEF AtServer
<1>12. AtClient(c)'
  <2>1. client'[c] = "receive"
    BY <1>1, <1>6
  <2>2. ~WithServer(c)' /\ answers'[c] = <<>>
    BY <1>1, <1>7 DEF WithServer
  <2>3. c \in refused' => program = "echo_con" /\ Latest(c)' \in lost' /\ ~InQueue(c)'
    BY <1>4, <1>5, <1>7, <1>8 DEF InQueue
  <2> QED
    BY <2>1, <2>2, <2>3 DEF AtClient, InFlight
<1>13. ASSUME NEW d \in Clients, d # c
       PROVE  AtClient(d)'
  <2>1. /\ client'[d] = client[d] /\ number'[d] = number[d]
        /\ d \in refused' => d \in refused
        /\ lost \subseteq lost'
    BY <1>1, <1>2, <1>6, <1>13
  <2> QED
    BY <1>1, <1>3, <1>10, <1>13, <2>1, ClientSame
<1> QED
  BY <1>11, <1>12, <1>13 DEF EchoInv

\* A client takes the echo, or the error, or leaves.
LEMMA ClientEcho ==
  ASSUME DatagramTypes, program \in Echoing, UNCHANGED program, EchoInv,
         NEW c \in Clients, ReceiveEcho(c) \/ ReceiveRefused(c) \/ Leave(c)
  PROVE  EchoInv'
<1>1. /\ UNCHANGED <<bound, server, held, queue, number, lost>>
      /\ refused' \subseteq refused
  BY DEF ReceiveEcho, ReceiveRefused, Leave
<1>2. AtServer /\ \A d \in Clients : AtClient(d)
  BY DEF EchoInv
<1>3. /\ \A d : (InQueue(d)' <=> InQueue(d)) /\ (WithServer(d)' <=> WithServer(d))
      /\ \A d : Latest(d)' = Latest(d)
  BY <1>1 DEF InQueue, WithServer, Latest
<1>4. AtServer'
  BY <1>1, <1>2, <1>3 DEF AtServer
<1>5. ASSUME NEW d \in Clients, d # c
      PROVE  AtClient(d)'
  <2>1. client'[d] = client[d] /\ answers'[d] = answers[d] /\ output'[d] = output[d]
    BY <1>5 DEF ReceiveEcho, ReceiveRefused, Leave, DatagramTypes, DatagramTypeOK
  <2> QED
    BY <1>1, <1>2, <1>3, <2>1, ClientSame
<1>6. ASSUME ReceiveEcho(c)
      PROVE  AtClient(c)'
  <2>1. /\ answers[c] = <<number[c]>> /\ ~InQueue(c) /\ ~WithServer(c)
        /\ c \notin refused
    BY <1>2, <1>6 DEF ReceiveEcho, AtClient, InFlight
  <2>2. client'[c] = "input" /\ output'[c] = Head(answers[c]) /\ answers'[c] = Tail(answers[c])
    BY <1>6 DEF ReceiveEcho, DatagramTypes, DatagramTypeOK
  <2>3. output'[c] = number[c] /\ answers'[c] = <<>>
    BY <2>1, <2>2
  <2> QED
    BY <1>1, <1>3, <2>1, <2>2, <2>3 DEF AtClient, InFlight
<1>7. ASSUME ReceiveRefused(c)
      PROVE  AtClient(c)'
  <2>1. Latest(c) \in lost /\ program = "echo_con" /\ ~InFlight(c)
    BY <1>2, <1>7 DEF ReceiveRefused, AtClient
  <2>2. /\ client'[c] = "input" /\ output'[c] = Error /\ answers'[c] = answers[c]
        /\ c \notin refused'
    BY <1>7 DEF ReceiveRefused, DatagramTypes, DatagramTypeOK
  <2> QED
    BY <1>1, <1>3, <2>1, <2>2 DEF AtClient, InFlight
<1>8. ASSUME Leave(c)
      PROVE  AtClient(c)'
  <2>1. ~InFlight(c) /\ c \notin refused
    BY <1>2, <1>8 DEF Leave, AtClient
  <2>2. client'[c] = "done" /\ UNCHANGED <<answers, refused>>
    BY <1>8 DEF Leave, DatagramTypes, DatagramTypeOK
  <2> QED
    BY <1>1, <1>3, <2>1, <2>2 DEF AtClient, InFlight
<1> QED
  BY <1>4, <1>5, <1>6, <1>7, <1>8 DEF EchoInv

LEMMA EchoStep ==
  ASSUME DatagramTypes, EchoInv, DatagramNext
  PROVE  EchoInv'
<1> SUFFICES ASSUME program \in Echoing
             PROVE  EchoInv'
  BY DEF EchoInv, DatagramNext
<1>1. UNCHANGED program
  BY DEF DatagramNext
<1>2. CASE Bind
  <2>1. bound' /\ UNCHANGED <<server, held, queue, client, number, answers, refused, output, lost>>
    BY <1>2 DEF Bind
  <2> QED
    BY <1>1, <2>1 DEF EchoInv, AtServer, AtClient, InFlight, InQueue, WithServer, Latest
<1> QED
  BY <1>1, <1>2, StopEcho, ReceiveAtServer, ReplyAtServer, SendEcho, ClientEcho
     DEF DatagramNext, Server, Client

----------------------------------------------------------------------------
(***************************************************************************)
(* Messages in a row, and the news.                                        *)
(***************************************************************************)

\* Message m may be taken before n.
Before(m, n) ==
  IF program = "bound_host" THEN m.number < n.number
  ELSE m.number # n.number \/ m.number = MaxSends

\* Of what was taken and what waits, in that order, each is before the next; and nothing has a
\* number that was not sent.
RowInv ==
  program \in {"bound_host", "news"} =>
    /\ \A c \in Clients : c # Loner => client[c] = "done"
    /\ \A k \in DOMAIN queue : queue[k].number <= number[Loner]
    /\ \A k \in DOMAIN received : received[k].number <= number[Loner]
    /\ \A k, l \in DOMAIN queue : k < l => Before(queue[k], queue[l])
    /\ \A k, l \in DOMAIN received : k < l => Before(received[k], received[l])
    /\ \A k \in DOMAIN received, l \in DOMAIN queue : Before(received[k], queue[l])

LEMMA InitRowInv ==
  ASSUME DatagramInit
  PROVE  RowInv
<1>1. queue = <<>> /\ received = <<>>
  BY DEF DatagramInit
<1>2. ASSUME program \in {"bound_host", "news"}, NEW c \in Clients, c # Loner
      PROVE  client[c] = "done"
  BY <1>2 DEF DatagramInit, Users, Echoing
<1> QED
  BY <1>1, <1>2 DEF RowInv

LEMMA RowTypes ==
  ASSUME DatagramTypes
  PROVE  /\ queue \in Seq(Datagram) /\ DOMAIN queue = 1 .. Len(queue) /\ Len(queue) \in Nat
         /\ received \in Seq(Datagram) /\ DOMAIN received = 1 .. Len(received)
         /\ Len(received) \in Nat
         /\ \A k \in DOMAIN queue : queue[k] \in Datagram /\ queue[k].number \in Nat
         /\ \A k \in DOMAIN received : received[k] \in Datagram /\ received[k].number \in Nat
         /\ Loner \in Clients /\ MaxSends \in Nat /\ number[Loner] \in Nat
<1>1. queue \in Seq(Datagram) /\ received \in Seq(Datagram) /\ number \in [Clients -> Nat]
  BY DEF DatagramTypes, DatagramTypeOK
<1>2. \A d \in Datagram : d.number \in Nat
  BY DEF Datagram
<1>3. /\ \A k \in DOMAIN queue : queue[k] \in Datagram
      /\ \A k \in DOMAIN received : received[k] \in Datagram
  BY <1>1
<1>4. /\ DOMAIN queue = 1 .. Len(queue) /\ Len(queue) \in Nat
      /\ DOMAIN received = 1 .. Len(received) /\ Len(received) \in Nat
  BY <1>1
<1>5. Loner \in Clients /\ MaxSends \in Nat
  BY DatagramsAssumption
<1> QED
  BY <1>1, <1>2, <1>3, <1>4, <1>5

\* A datagram moves from the queue behind those that were taken.
LEMMA RowReceive ==
  ASSUME DatagramTypes, program \in {"bound_host", "news"}, UNCHANGED program, RowInv, ServerReceive
  PROVE  RowInv'
<1>1. PICK k \in DOMAIN queue :
        /\ program = "bound_host" => k = 1
        /\ queue' = RemoveAt(queue, k)
        /\ received' = Append(received, queue[k])
  BY DEF ServerReceive, NextDatagram, Echoing
<1>2. UNCHANGED <<client, number>>
  BY DEF ServerReceive
<1>3. /\ DOMAIN queue' = 1 .. Len(queue) - 1
      /\ \A m \in 1 .. Len(queue) - 1 : queue'[m] = IF m < k THEN queue[m] ELSE queue[m + 1]
  BY <1>1, RowTypes, RemovedAt
<1>4. /\ k \in 1 .. Len(queue) /\ Len(queue) \in Nat /\ DOMAIN queue = 1 .. Len(queue)
      /\ Len(received) \in Nat /\ DOMAIN received = 1 .. Len(received)
  BY <1>1, RowTypes
<1>5. /\ DOMAIN received' = 1 .. Len(received) + 1
      /\ received'[Len(received) + 1] = queue[k]
      /\ \A m \in DOMAIN received : received'[m] = received[m]
  <2>1. received \in Seq(Datagram) /\ queue[k] \in Datagram
    BY <1>1, RowTypes
  <2> QED
    BY <1>1, <2>1
\* Where the datagrams were.
<1> DEFINE old(m) == IF m < k THEN m ELSE m + 1
<1>6. \A m \in DOMAIN queue' : old(m) \in DOMAIN queue /\ old(m) # k /\ queue'[m] = queue[old(m)]
  BY <1>3, <1>4
<1>7. \A m, n \in DOMAIN queue' : m < n => old(m) < old(n)
  BY <1>3, <1>4
<1>8. \A m \in DOMAIN received' : \/ m \in DOMAIN received /\ received'[m] = received[m]
                                  \/ m = Len(received) + 1 /\ received'[m] = queue[k]
  BY <1>4, <1>5
<1>9. \A m, n : Before(m, n)' <=> Before(m, n)
  BY DEF Before
<1> HIDE DEF old
<1>10. /\ \A m \in DOMAIN queue' : queue'[m].number <= number'[Loner]
       /\ \A m \in DOMAIN received' : received'[m].number <= number'[Loner]
  BY <1>1, <1>2, <1>6, <1>8 DEF RowInv
<1>11. \A m, n \in DOMAIN queue' : m < n => Before(queue[m], queue[n])'
  BY <1>6, <1>7 DEF RowInv, Before
<1>12. \A m, n \in DOMAIN received' : m < n => Before(received[m], received[n])'
  <2> SUFFICES ASSUME NEW m \in DOMAIN received', NEW n \in DOMAIN received', m < n
               PROVE  Before(received[m], received[n])'
    OBVIOUS
  <2>1. m \in DOMAIN received /\ received'[m] = received[m]
    BY <1>4, <1>5, <1>8
  <2> QED
    BY <1>1, <1>8, <2>1 DEF RowInv, Before
<1>13. \A m \in DOMAIN received', n \in DOMAIN queue' : Before(received[m], queue[n])'
  <2> SUFFICES ASSUME NEW m \in DOMAIN received', NEW n \in DOMAIN queue'
               PROVE  Before(received[m], queue[n])'
    OBVIOUS
  <2>1. CASE m \in DOMAIN received /\ received'[m] = received[m]
    BY <1>6, <2>1 DEF RowInv, Before
  <2>2. CASE received'[m] = queue[k]
    <3>1. old(n) \in DOMAIN queue /\ old(n) # k /\ queue'[n] = queue[old(n)]
      BY <1>6
    <3>2. old(n) > k \/ old(n) < k
      BY <1>4, <3>1
    <3>3. CASE old(n) > k
      BY <1>1, <2>2, <3>1, <3>3 DEF RowInv, Before
    <3>4. CASE old(n) < k
      <4>1. program = "news"
        BY <1>1, <1>4, <3>1, <3>4
      <4>2. Before(queue[old(n)], queue[k])
        BY <1>1, <3>1, <3>4 DEF RowInv
      <4> QED
        BY <2>2, <3>1, <4>1, <4>2 DEF Before
    <3> QED
      BY <3>2, <3>3, <3>4
  <2> QED
    BY <1>8, <2>1, <2>2
<1> QED
  BY <1>2, <1>10, <1>11, <1>12, <1>13 DEF RowInv

\* The number of the message, or line, is higher than all before, but for the last line.
LEMMA RowSend ==
  ASSUME DatagramTypes, program \in {"bound_host", "news"}, UNCHANGED program, RowInv,
         NEW c \in Clients, SendNext(c)
  PROVE  RowInv'
<1>1. c = Loner
  BY DEF SendNext, RowInv
<1> DEFINE n == LineSent(number'[c])
           m == [from |-> c, number |-> n]
<1>2. client' = client /\ received' = received
  BY DEF SendNext, Echoing
<1>3. /\ number'[Loner] = number[Loner] + 1 /\ n \in Nat
      /\ queue' = Append(queue, m) \/ UNCHANGED queue
  BY <1>1, SendEffect
<1>4. /\ n <= number'[Loner]
      /\ \A l \in Nat : l <= number[Loner] =>
           IF program = "bound_host" THEN l < n ELSE l # n \/ l = MaxSends
  <2>1. n = IF program = "news" /\ number[Loner] + 1 > MaxSends THEN MaxSends ELSE number[Loner] + 1
    BY <1>1, <1>3 DEF LineSent
  <2> HIDE DEF n
  <2> QED
    BY <1>3, <2>1, RowTypes
<1>5. m \in Datagram /\ m.number = n
  BY <1>3, DatagramOf
<1> HIDE DEF m, n
<1>6. \A k \in DOMAIN queue' : \/ k \in DOMAIN queue /\ queue'[k] = queue[k]
                               \/ k = Len(queue) + 1 /\ queue'[k] = m
  <2>1. CASE queue' = Append(queue, m)
    <3>1. /\ DOMAIN queue' = 1 .. Len(queue) + 1 /\ queue'[Len(queue) + 1] = m
          /\ \A k \in 1 .. Len(queue) : queue'[k] = queue[k]
      BY <1>5, <2>1, RowTypes
    <3> QED
      BY <3>1, RowTypes
  <2> QED
    BY <1>3, <2>1
<1>7. \A k \in DOMAIN queue : queue[k].number \in Nat /\ queue[k].number <= number[Loner]
  BY RowTypes DEF RowInv
<1>8. \A k \in DOMAIN received : received[k].number \in Nat /\ received[k].number <= number[Loner]
  BY RowTypes DEF RowInv
<1>9. /\ \A k \in DOMAIN queue' : queue'[k].number <= number'[Loner]
      /\ \A k \in DOMAIN received' : received'[k].number <= number'[Loner]
  BY <1>2, <1>3, <1>4, <1>5, <1>6, <1>7, <1>8, RowTypes
<1>10. \A k, l \in DOMAIN queue' : k < l => Before(queue[k], queue[l])'
  <2> SUFFICES ASSUME NEW k \in DOMAIN queue', NEW l \in DOMAIN queue', k < l
               PROVE  Before(queue[k], queue[l])'
    OBVIOUS
  <2>1. k \in DOMAIN queue /\ queue'[k] = queue[k]
    BY <1>6, RowTypes
  <2>2. CASE l \in DOMAIN queue /\ queue'[l] = queue[l]
    BY <2>1, <2>2 DEF RowInv, Before
  <2>3. CASE queue'[l] = m
    BY <1>4, <1>5, <1>7, <2>1, <2>3 DEF Before
  <2> QED
    BY <1>6, <2>2, <2>3
<1>11. \A k, l \in DOMAIN received' : k < l => Before(received[k], received[l])'
  BY <1>2 DEF RowInv, Before
<1>12. \A k \in DOMAIN received', l \in DOMAIN queue' : Before(received[k], queue[l])'
  <2> SUFFICES ASSUME NEW k \in DOMAIN received', NEW l \in DOMAIN queue'
               PROVE  Before(received[k], queue[l])'
    OBVIOUS
  <2>1. CASE l \in DOMAIN queue /\ queue'[l] = queue[l]
    BY <1>2, <2>1 DEF RowInv, Before
  <2>2. CASE queue'[l] = m
    BY <1>2, <1>4, <1>5, <1>8, <2>2 DEF Before
  <2> QED
    BY <1>6, <2>1, <2>2
<1> QED
  BY <1>2, <1>9, <1>10, <1>11, <1>12 DEF RowInv

LEMMA RowStep ==
  ASSUME DatagramTypes, RowInv, DatagramNext
  PROVE  RowInv'
<1> SUFFICES ASSUME program \in {"bound_host", "news"}
             PROVE  RowInv'
  BY DEF RowInv, DatagramNext
<1>1. UNCHANGED program
  BY DEF DatagramNext
<1>2. ASSUME UNCHANGED <<queue, received, number>>,
             \A c \in Clients : client[c] = "done" => client'[c] = "done"
      PROVE  RowInv'
  BY <1>1, <1>2 DEF RowInv, Before
<1>3. CASE Bind \/ ServerReply
  BY <1>2, <1>3 DEF Bind, ServerReply
<1>4. CASE Stop
  <2>1. queue' = <<>> /\ received' = <<>> /\ UNCHANGED client
    BY <1>4 DEF Stop
  <2> QED
    BY <1>1, <2>1 DEF RowInv
<1>5. ASSUME NEW c \in Clients, ReceiveEcho(c) \/ ReceiveRefused(c) \/ Leave(c)
      PROVE  RowInv'
  <2>1. /\ UNCHANGED <<queue, received, number>> /\ client[c] # "done"
        /\ \A d \in Clients : d # c => client'[d] = client[d]
    BY <1>5 DEF ReceiveEcho, ReceiveRefused, Leave, DatagramTypes, DatagramTypeOK
  <2> QED
    BY <1>2, <2>1
<1> QED
  BY <1>1, <1>3, <1>4, <1>5, RowReceive, RowSend DEF DatagramNext, Server, Client

----------------------------------------------------------------------------
(***************************************************************************)
(* The invariant of the datagrams, and what follows from it.               *)
(***************************************************************************)

DatagramInv == DatagramTypes /\ EchoInv /\ RowInv

LEMMA DatagramFacts ==
  ASSUME DatagramInv
  PROVE  DatagramTypeOK /\ OwnEcho /\ OncePerMessage
<1>1. OwnEcho
  BY DEF DatagramInv, EchoInv, AtClient, OwnEcho, Users
<1>2. OncePerMessage
  BY DEF DatagramInv, RowInv, Before, OncePerMessage
<1> QED
  BY <1>1, <1>2 DEF DatagramInv, DatagramTypes

LEMMA DatagramStutter ==
  ASSUME DatagramInv, UNCHANGED <<program, datagramVars>>
  PROVE  DatagramInv'
<1>1. DatagramTypes'
  BY DEF DatagramInv, datagramVars, DatagramTypes, DatagramTypeOK, Nothing
<1>2. EchoInv'
  BY DEF DatagramInv, datagramVars, EchoInv, AtServer, AtClient, InFlight, InQueue, WithServer,
         Latest
<1>3. RowInv'
  BY DEF DatagramInv, datagramVars, RowInv, Before
<1> QED
  BY <1>1, <1>2, <1>3 DEF DatagramInv

LEMMA InitDatagramInv ==
  ASSUME DatagramInit
  PROVE  DatagramInv
BY InitDatagramTypes, InitEchoInv, InitRowInv DEF DatagramInv

LEMMA StepDatagramInv ==
  ASSUME DatagramInv, DatagramNext
  PROVE  DatagramInv'
BY DatagramStepTypes, EchoStep, RowStep DEF DatagramInv

\* Every reachable state of the programs with datagrams satisfies the invariant.
THEOREM DatagramInductive == DatagramSpec => []DatagramInv
<1>1. DatagramInv /\ [DatagramNext]_<<program, datagramVars>> => DatagramInv'
  BY StepDatagramInv, DatagramStutter
<1> QED
  BY <1>1, InitDatagramInv, PTL DEF DatagramSpec

\* What an echo client prints is the echo of its own last message.
THEOREM EchoesOwn == DatagramSpec => []OwnEcho
<1>1. DatagramInv => OwnEcho
  BY DatagramFacts
<1> QED
  BY <1>1, DatagramInductive, PTL

\* bound_host_server takes its messages in order, and of the news only the last line comes twice.
THEOREM TakenOnce == DatagramSpec => []OncePerMessage
<1>1. DatagramInv => OncePerMessage
  BY DatagramFacts
<1> QED
  BY <1>1, DatagramInductive, PTL

----------------------------------------------------------------------------
(***************************************************************************)
(* The small programs together: the specification of each of them holds    *)
(* when it was chosen, and when it was not its variables keep their        *)
(* initial values.                                                         *)
(***************************************************************************)

LEMMA ThreadsIdle ==
  ASSUME program \notin ThreadPrograms, ThreadInit
  PROVE  ThreadTypeOK /\ Totals /\ ~ThreadNext
<1>1. main = "end" /\ program \notin {"mutex", "thread2", "thread3", "thread4"}
  BY DEF ThreadInit, ThreadPrograms, Lone, Counters
<1>2. ThreadTypeOK
  BY ThreadsAssumption DEF ThreadInit, ThreadTypeOK
<1>3. Totals
  BY <1>1 DEF Totals
<1>4. ~ThreadNext
  BY <1>1 DEF ThreadNext, MainThread, CreateThread, CreateFails, Join, SleepEnds, Thread, ThreadAt,
       Lock, Work, Load, Store, Return
<1> QED
  BY <1>2, <1>3, <1>4

\* A step of one program is a step of it by itself.
LEMMA StepOfOne ==
  ASSUME [RepertoireNext]_allVars
  PROVE  /\ [Next]_vars
         /\ [ThreadNext]_<<program, threadVars>>
         /\ [ProcessNext]_<<program, processVars>>
         /\ [DatagramNext]_<<program, datagramVars>>
BY DEF RepertoireNext, SemaphoreRuns, NoThreads, NoProcesses, NoDatagrams, allVars

LEMMA SemaphoresRun == RepertoireSpec => Spec
BY StepOfOne, PTL DEF RepertoireSpec, RepertoireInit, Spec

LEMMA ThreadsRun ==
  RepertoireSpec => ThreadSpec \/ [](program \notin ThreadPrograms /\ ThreadInit)
<1>1. /\ program \notin ThreadPrograms /\ ThreadInit
      /\ [ThreadNext]_<<program, threadVars>>
      => (program \notin ThreadPrograms /\ ThreadInit)'
  BY ThreadsIdle DEF threadVars, ThreadInit
<1>2. RepertoireInit => ThreadInit
  BY DEF RepertoireInit
<1>3. program \in ThreadPrograms \/ program \notin ThreadPrograms
  OBVIOUS
<1> QED
  BY <1>1, <1>2, <1>3, StepOfOne, PTL DEF RepertoireSpec, ThreadSpec

LEMMA ProcessesRun ==
  RepertoireSpec => ProcessSpec \/ [](program \notin ProcessPrograms /\ ProcessInit)
<1>1. /\ program \notin ProcessPrograms /\ ProcessInit
      /\ [ProcessNext]_<<program, processVars>>
      => (program \notin ProcessPrograms /\ ProcessInit)'
  BY IdleProcesses DEF processVars, ProcessInit
<1>2. RepertoireInit => ProcessInit
  BY DEF RepertoireInit
<1>3. program \in ProcessPrograms \/ program \notin ProcessPrograms
  OBVIOUS
<1> QED
  BY <1>1, <1>2, <1>3, StepOfOne, PTL DEF RepertoireSpec, ProcessSpec

\* The invariant of the datagrams is kept whatever program was chosen.
LEMMA DatagramsRun == RepertoireSpec => []DatagramInv
<1>1. DatagramInv /\ [DatagramNext]_<<program, datagramVars>> => DatagramInv'
  BY StepDatagramInv, DatagramStutter
<1>2. RepertoireInit => DatagramInv
  BY InitDatagramInv DEF RepertoireInit
<1> QED
  BY <1>1, <1>2, StepOfOne, PTL DEF RepertoireSpec

----------------------------------------------------------------------------
\* Every variable of every program keeps its type.
THEOREM AllTypesKept == RepertoireSpec => []AllTypeOK
<1>1. TokenInv => TypeOK
  BY DEF TokenInv
<1>2. program \notin ThreadPrograms /\ ThreadInit => ThreadTypeOK
  BY ThreadsIdle
<1>3. program \in ProcessPrograms /\ ProcessInv => ProcessTypeOK
  BY ProcessFacts
<1>4. program \notin ProcessPrograms /\ ProcessInit => ProcessTypeOK
  BY IdleProcesses
<1>5. DatagramInv => DatagramTypeOK
  BY DatagramFacts
<1>6. TypeOK /\ ThreadTypeOK /\ ProcessTypeOK /\ DatagramTypeOK => AllTypeOK
  BY DEF AllTypeOK
<1> QED
  BY <1>1, <1>2, <1>3, <1>4, <1>5, <1>6, SemaphoresRun, TokenInvariance, ThreadsRun, TypeCorrect,
     ProcessesRun, ProcessInductive, DatagramsRun, PTL

\* What a program of threads prints and what wait() gave is right when the program has ended.
THEOREM ResultsRight == RepertoireSpec => []Results
<1>1. program \notin ThreadPrograms /\ ThreadInit => Totals
  BY ThreadsIdle
<1>2. program \notin ProcessPrograms /\ ProcessInit => Collected
  BY IdleProcesses
<1>3. Totals /\ Collected => Results
  BY DEF Results
<1> QED
  BY <1>1, <1>2, <1>3, ThreadsRun, TotalsCorrect, ProcessesRun, StatusesCollected, PTL

\* Messages through pipes and in datagrams reach whom they are meant for.
THEOREM MessagesReach == RepertoireSpec => []Messages
<1>1. program \notin ProcessPrograms /\ ProcessInit => MessagesCross
  BY IdleProcesses
<1>2. DatagramInv => OwnEcho /\ OncePerMessage
  BY DatagramFacts
<1>3. MessagesCross /\ OwnEcho /\ OncePerMessage => Messages
  BY DEF Messages
<1> QED
  BY <1>1, <1>2, <1>3, ProcessesRun, PipesCross, DatagramsRun, PTL

\* Among the other programs as well the threads of the semaphores exclude each other, and hand
\* each number over once.
THEOREM SemaphoresKept == RepertoireSpec => []NoRace /\ ImplementsHandOff
BY SemaphoresRun, RaceFree, Refines
=============================================================================

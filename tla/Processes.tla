------------------------------ MODULE Processes ------------------------------
(***************************************************************************)
(* The programs of process/ and process_communication/: a parent, its      *)
(* children, the pipes between them, exit statuses and the alarm clock.    *)
(* Each of them is a short script without branches once fork() has told    *)
(* the processes apart.  How long a process sleeps is not tied to what the *)
(* others do meanwhile.                                                    *)
(*                                                                         *)
(* A process holds both ends of its pipes until it ends, so that a read    *)
(* from an empty pipe waits, and never finds the end or a broken pipe.     *)
(***************************************************************************)
EXTENDS Repertoire, Integers, Sequences, FiniteSets

CONSTANT MaxForkFail  \* bound on the forks that fail

ASSUME ProcessesAssumption == MaxForkFail \in Nat

VARIABLES
  state,   \* per process: "none", "on", "zombie", "gone"
  at,      \* per process: the step of its script it takes next
  pipe,    \* per pipe: the messages in it, each named after its writer
  got,     \* per process: the messages it read
  value,   \* per process: its globalVal
  status,  \* the statuses wait() and waitpid() gave, Unset when they failed
  alarm,   \* the alarm clock is set
  noFork   \* number of forks that failed

processVars == <<state, at, pipe, got, value, status, alarm, noFork>>

Unset == -1

Family == {"parent", "child", "second"}
Children == Family \ {"parent"}
ProcessPrograms == {"pipe1", "pipe2", "pipe3", "fork", "wait", "wait_pid", "zombie", "signal"}

Op(name, arg) == [name |-> name, arg |-> arg]
Fork(p) == Op("fork", p)
Read(k) == Op("read", k)
Write(k) == Op("write", k)
Sleep == Op("sleep", 0)

----------------------------------------------------------------------------
(***************************************************************************)
(* The programs.  A process ends after its script; the status of a child   *)
(* is the argument of "exit".                                              *)
(***************************************************************************)

Exit(n) == Op("exit", n)
Text(parent, child, second) == [parent |-> parent, child |-> child, second |-> second]

\* The child tells the parent.
pipe1 == Text(<<Fork("child"), Read(1)>>, <<Write(1), Exit(0)>>, <<>>)

\* One pipe for both directions.
pipe2 == Text(<<Fork("child"), Read(1), Write(1), Sleep>>,
              <<Write(1), Sleep, Read(1), Exit(0)>>, <<>>)

\* A pipe for each direction.
pipe3 == Text(<<Fork("child"), Write(1), Read(2)>>, <<Read(1), Write(2), Exit(0)>>, <<>>)

\* Parent and child count in opposite directions, each in its own memory.
fork == Text(<<Fork("child"), Op("count", -1)>>, <<Op("count", 1), Exit(0)>>, <<>>)

\* Two children, waited for.
wait == Text(<<Fork("child"), Fork("second"), Op("wait", 0), Op("wait", 0), Sleep>>,
             <<Exit(1)>>, <<Exit(2)>>)

\* A child asked for again and again.
wait_pid == Text(<<Fork("child"), Op("poll", 0)>>, <<Sleep, Exit(1)>>, <<>>)

\* A child nobody waits for.
zombie == Text(<<Fork("child"), Sleep>>, <<Exit(0)>>, <<>>)

\* Three sleeps, longer than the program is to run, that the alarm cuts short; the program of
\* sigaction.c as well.
signal == Text(<<Op("alarm", 0), Op("pause", 1), Op("pause", 2), Op("pause", 3)>>, <<>>, <<>>)

Script ==
  CASE program = "pipe1" -> pipe1
    [] program = "pipe2" -> pipe2
    [] program = "pipe3" -> pipe3
    [] program = "fork" -> fork
    [] program = "wait" -> wait
    [] program = "wait_pid" -> wait_pid
    [] program = "zombie" -> zombie
    [] program = "signal" -> signal
    [] OTHER -> Text(<<>>, <<>>, <<>>)

ProcessInit ==
  /\ state = [p \in Family |->
                IF p = "parent" /\ program \in ProcessPrograms THEN "on" ELSE "none"]
  /\ at = [p \in Family |-> 1]
  /\ pipe = <<<<>>, <<>>>>
  /\ got = [p \in Family |-> <<>>]
  /\ value = [p \in Family |-> 10]
  /\ status = <<>>
  /\ alarm = FALSE
  /\ noFork = 0

----------------------------------------------------------------------------
(***************************************************************************)
(* The steps.                                                              *)
(***************************************************************************)

\* Process p is at an operation of that name.
Does(p, name) ==
  state[p] = "on" /\ at[p] <= Len(Script[p]) /\ Script[p][at[p]].name = name

Arg(p) == Script[p][at[p]].arg
Advance(p) == at' = [at EXCEPT ![p] = @ + 1]

\* The child begins with a copy of its parent's memory.
ForkChild ==
  /\ Does("parent", "fork")
  /\ state' = [state EXCEPT ![Arg("parent")] = "on"]
  /\ value' = [value EXCEPT ![Arg("parent")] = value["parent"]]
  /\ Advance("parent")
  /\ UNCHANGED <<pipe, got, status, alarm, noFork>>

\* -1 is not told from the id of a child: the parent goes on.
ForkFails ==
  /\ Does("parent", "fork")
  /\ noFork < MaxForkFail
  /\ noFork' = noFork + 1
  /\ Advance("parent")
  /\ UNCHANGED <<state, pipe, got, value, status, alarm>>

WritePipe(p) ==
  /\ Does(p, "write")
  /\ pipe' = [pipe EXCEPT ![Arg(p)] = Append(@, p)]
  /\ Advance(p)
  /\ UNCHANGED <<state, got, value, status, alarm, noFork>>

\* One read takes all that is in the pipe, whoever wrote it.
ReadPipe(p) ==
  /\ Does(p, "read")
  /\ pipe[Arg(p)] # <<>>
  /\ got' = [got EXCEPT ![p] = @ \o pipe[Arg(p)]]
  /\ pipe' = [pipe EXCEPT ![Arg(p)] = <<>>]
  /\ Advance(p)
  /\ UNCHANGED <<state, value, status, alarm, noFork>>

CountUp(p) ==
  /\ Does(p, "count")
  /\ value' = [value EXCEPT ![p] = @ + Arg(p)]
  /\ Advance(p)
  /\ UNCHANGED <<state, pipe, got, status, alarm, noFork>>

SleepDone(p) ==
  /\ Does(p, "sleep")
  /\ Advance(p)
  /\ UNCHANGED <<state, pipe, got, value, status, alarm, noFork>>

\* A child ends, and stays a zombie unless its parent is gone.
ChildExit(p) ==
  /\ Does(p, "exit")
  /\ state' = [state EXCEPT ![p] = IF state["parent"] = "gone" THEN "gone" ELSE "zombie"]
  /\ UNCHANGED <<at, pipe, got, value, status, alarm, noFork>>

\* wait() and waitpid() take one zombie, whichever it is.
Reap ==
  /\ Does("parent", "wait") \/ Does("parent", "poll")
  /\ \E c \in Children :
       /\ state[c] = "zombie"
       /\ state' = [state EXCEPT ![c] = "gone"]
       /\ status' = Append(status, Script[c][at[c]].arg)
  /\ Advance("parent")
  /\ UNCHANGED <<pipe, got, value, alarm, noFork>>

\* Without a child they fail, and leave status as it is.
NoChild ==
  /\ Does("parent", "wait") \/ Does("parent", "poll")
  /\ \A c \in Children : state[c] \in {"none", "gone"}
  /\ status' = Append(status, Unset)
  /\ Advance("parent")
  /\ UNCHANGED <<state, pipe, got, value, alarm, noFork>>

\* alarm() of main.
SetAlarm ==
  /\ Does("parent", "alarm")
  /\ alarm' = TRUE
  /\ Advance("parent")
  /\ UNCHANGED <<state, pipe, got, value, status, noFork>>

\* Mutant: the handler does not set the alarm again.
RearmedNot == FALSE

\* The handler ends with alarm().
Rearmed == TRUE

\* The alarm goes off, in a sleep() of the loop, which ends with that, or outside of it.
Timeout ==
  /\ program = "signal" /\ state["parent"] = "on"
  /\ alarm
  /\ alarm' = Rearmed
  /\ (Does("parent", "pause") /\ Advance("parent")) \/ UNCHANGED at
  /\ UNCHANGED <<state, pipe, got, value, status, noFork>>

\* SIGINT, whose handler in signal.c prints a line, ends a sleep() as well.
Interrupt ==
  /\ Does("parent", "pause")
  /\ Advance("parent")
  /\ UNCHANGED <<state, pipe, got, value, status, alarm, noFork>>

\* The parent ends, and the zombies with it.
ParentExit ==
  /\ state["parent"] = "on" /\ at["parent"] > Len(Script["parent"])
  /\ state' = [p \in Family |->
                 IF p = "parent" \/ state[p] = "zombie" THEN "gone" ELSE state[p]]
  /\ UNCHANGED <<at, pipe, got, value, status, alarm, noFork>>

Parent ==
  \/ ForkChild \/ ForkFails \/ Reap \/ NoChild \/ SetAlarm \/ ParentExit

Process(p) ==
  \/ p = "parent" /\ Parent
  \/ WritePipe(p) \/ ReadPipe(p) \/ CountUp(p) \/ SleepDone(p) \/ ChildExit(p)

ProcessNext ==
  /\ Timeout \/ Interrupt \/ \E p \in Family : Process(p)
  /\ UNCHANGED program

ProcessSpec ==
  program \in ProcessPrograms /\ ProcessInit /\ [][ProcessNext]_<<program, processVars>>

----------------------------------------------------------------------------
(***************************************************************************)
(* Properties.                                                             *)
(***************************************************************************)

\* Every variable has its type.
ProcessTypeOK ==
  /\ state \in [Family -> {"none", "on", "zombie", "gone"}]
  /\ at \in [Family -> Nat]
  /\ \A k \in 1 .. 2 : pipe[k] \in Seq(Family)
  /\ got \in [Family -> Seq(Family)]
  /\ value \in [Family -> Int]
  /\ status \in Seq({Unset, 0, 1, 2})
  /\ alarm \in BOOLEAN
  /\ noFork \in 0 .. MaxForkFail

\* The child of pipe2 slept too short and read back what it had written.
TookBack == got["child"] = <<"child">>

\* A message reaches the other process, whole and once, but for the one the child of pipe2
\* takes back: then the parent has read nothing and never will.
MessagesCross ==
  /\ \A p \in Family :
       got[p] \in {<<>>, <<IF p = "parent" THEN "child" ELSE "parent">>}
         \/ (p = "child" /\ program = "pipe2" /\ TookBack)
  /\ TookBack => got["parent"] = <<>> /\ state["parent"] = "on" /\ pipe[1] = <<>>

\* The statuses of all children that were started are taken once each, in any order, and the
\* calls that fail are as many as the forks that did; parent and child of fork.c do not see
\* each other's count.
Collected ==
  state["parent"] = "gone" =>
    /\ program = "wait" =>
         /\ Len(status) = 2
         /\ \E failed \in SUBSET {1, 2} :
              /\ Cardinality(failed) = noFork
              /\ {status[k] : k \in 1 .. 2} \ {Unset} = {1, 2} \ failed
              /\ Cardinality({k \in 1 .. 2 : status[k] = Unset}) = noFork
    /\ program = "wait_pid" => status = <<IF noFork = 0 THEN 1 ELSE Unset>>
    /\ program = "fork" =>
         /\ value["parent"] = 9
         /\ state["child"] = "gone" => value["child"] = 11
=============================================================================

---------------------------- MODULE MCRepertoire ----------------------------
(***************************************************************************)
(* Model checking of the small programs: the semaphores, and what Threads, *)
(* Processes and Datagrams model.  One program is chosen in the initial    *)
(* state; the variables of the others keep their initial values.           *)
(***************************************************************************)
EXTENDS Semaphores, Threads, Processes, Datagrams

allVars == <<program, vars, threadVars, processVars, datagramVars>>

RepertoireInit ==
  /\ program \in {"semaphore"} \cup ThreadPrograms \cup ProcessPrograms \cup DatagramPrograms
  /\ Init /\ ThreadInit /\ ProcessInit /\ DatagramInit

NoThreads == UNCHANGED <<program, vars, processVars, datagramVars>>
NoProcesses == UNCHANGED <<program, vars, threadVars, datagramVars>>
NoDatagrams == UNCHANGED <<program, vars, threadVars, processVars>>

SemaphoreRuns(Step) ==
  program = "semaphore" /\ Step /\ UNCHANGED <<program, threadVars, processVars, datagramVars>>

RepertoireNext ==
  \/ SemaphoreRuns(Next)
  \/ ThreadNext /\ NoThreads
  \/ ProcessNext /\ NoProcesses
  \/ DatagramNext /\ NoDatagrams

\* Some thread, or process, that can go on does, the alarm goes off while the program sleeps,
\* and the users of the echo clients go on: as each of them has finitely many steps to take,
\* this is as much as fairness to each.
RepertoireSpec ==
  /\ RepertoireInit /\ [][RepertoireNext]_allVars
  /\ WF_allVars(SemaphoreRuns(Reader)) /\ WF_allVars(SemaphoreRuns(Writer))
  /\ WF_allVars(MainThread /\ NoThreads)
  /\ WF_allVars((\E t \in Indices : Thread(t)) /\ NoThreads)
  /\ WF_allVars(Timeout /\ NoProcesses)
  /\ WF_allVars((\E p \in Family : Process(p)) /\ NoProcesses)
  /\ WF_allVars(Server /\ NoDatagrams)
  /\ WF_allVars((\E c \in Clients : Client(c)) /\ NoDatagrams)

----------------------------------------------------------------------------
\* Every variable has its type.
AllTypeOK == TypeOK /\ ThreadTypeOK /\ ProcessTypeOK /\ DatagramTypeOK

\* What a program has computed, or collected, when it ends: the sums of the threads, the
\* statuses of the children.
Results == Totals /\ Collected

\* Messages reach whom they are meant for, through pipes and as datagrams.
Messages == MessagesCross /\ OwnEcho /\ OncePerMessage

\* A parent that waits at a pipe has no child that could write to it.
Childless == noFork > 0 /\ program \in {"pipe1", "pipe2", "pipe3"}

\* The programs that are to end do: the semaphores never leave both threads waiting, and no
\* wait() or waitpid() blocks for good, also when fork() failed; unless the child of pipe2 took
\* its own message back, or the parent reads from a pipe without a child.  A datagram client is
\* answered as long as nothing was lost.
AllEnd ==
  /\ <>(program = "semaphore" => i = Count /\ j = Count)
  /\ <>(main = "end")
  /\ <>(state["parent"] # "on" \/ TookBack \/ Childless)
  /\ Echoed
=============================================================================

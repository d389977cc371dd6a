----------------------------- MODULE ForkServer -----------------------------
(***************************************************************************)
(* The echo servers that fork a process for each client:                   *)
(*                                                                         *)
(*   tcp/echo_mpserver.c      echoes what the client sends                 *)
(*   tcp/echo_store_server.c  also writes it to a pipe, from which another *)
(*                            child reads a fixed number of times to store *)
(*                            it in a file                                 *)
(*                                                                         *)
(* Parent and children run concurrently.  A client's connection is closed  *)
(* when both of them have closed their descriptor of it, or have ended; no *)
(* other process has one, as the parent closes its own before it forks     *)
(* again.  The child of a connection is named by the connection.  Nobody   *)
(* closes the read end of the pipe, so a write to it never fails: it waits *)
(* for room.                                                               *)
(***************************************************************************)
EXTENDS EchoNet, SigChld, Sequences

CONSTANTS
  Nobody,       \* the child that stores messages, and the absence of a connection
  Programs,     \* the servers considered, one is chosen in the initial state
  BUF_SIZE,     \* most units a read takes
  PIPE_SIZE,    \* units the pipe holds
  Rounds,       \* number of reads after which the storing child ends
  MaxForkFail   \* bound on failing fork() calls

ASSUME ForkAssumption ==
  /\ Nobody \notin Conns
  /\ Programs \subseteq {"echo_mpserver", "echo_store_server"}
  /\ BUF_SIZE \in Nat \ {0}
  /\ PIPE_SIZE \in Nat /\ BUF_SIZE <= PIPE_SIZE
  /\ Rounds \in Nat \ {0}
  /\ MaxForkFail \in Nat

VARIABLES
  program,      \* the server that runs
  server,       \* what the parent does next
  clientSocket, \* the connection the parent's descriptor is open on
  accepted,     \* connections accepted so far
  failures,     \* failed fork() calls so far
  child,        \* per connection: what its child does next
  strLen,       \* per connection: units read by its child and not dealt with
  pipe,         \* units in the pipe, each named by its connection
  log,          \* units stored
  rounds        \* reads the storing child has yet to do

parent == <<server, clientSocket, accepted, failures>>
storing == <<pipe, log, rounds>>
vars == <<program, parent, child, strLen, storing, sigchld, net>>

Stores == program = "echo_store_server"

Init ==
  /\ program \in Programs
  /\ server = "accept"
  /\ clientSocket = Nobody
  /\ accepted = {}
  /\ failures = 0
  /\ child = [c \in Conns |-> "none"]
  /\ strLen = [c \in Conns |-> 0]
  /\ pipe = <<>>
  /\ log = <<>>
  /\ rounds = IF Stores THEN Rounds ELSE 0
  /\ SigInit
  /\ NetInit

----------------------------------------------------------------------------
(***************************************************************************)
(* The parent.  While the handler runs it does nothing else.               *)
(***************************************************************************)

\* A signal that interrupts accept() makes it fail; the loop calls it again.
Accept(c) ==
  /\ server = "accept" /\ ~handling
  /\ peer[c] # "none" /\ c \notin accepted
  /\ accepted' = accepted \cup {c}
  /\ clientSocket' = c
  /\ server' = "fork"
  /\ UNCHANGED <<program, failures, child, strLen, storing, sigchld, net>>

Fork ==
  /\ server = "fork" /\ ~handling
  /\ child' = [child EXCEPT ![clientSocket] = "read"]
  /\ server' = "close"
  /\ UNCHANGED <<program, clientSocket, accepted, failures, strLen, storing, sigchld, net>>

\* fork() fails, which the parent takes for its own side of a fork.
ForkFails ==
  /\ server = "fork" /\ ~handling
  /\ failures < MaxForkFail
  /\ failures' = failures + 1
  /\ server' = "close"
  /\ UNCHANGED <<program, clientSocket, accepted, child, strLen, storing, sigchld, net>>

\* The parent closes its descriptor of the connection.
Close ==
  /\ server = "close" /\ ~handling
  /\ clientSocket' = Nobody
  /\ server' = "accept"
  /\ UNCHANGED <<program, accepted, failures, child, strLen, storing, sigchld, net>>

Handler == (Deliver \/ Reap) /\ UNCHANGED <<program, parent, child, strLen, storing, net>>

Parent == Fork \/ Close \/ Handler \/ \E c \in Conns : Accept(c)

----------------------------------------------------------------------------
(***************************************************************************)
(* The child of connection c.                                              *)
(***************************************************************************)

\* Mutant: the last unit is not echoed.
WriteBackShort(c) == Write(c, strLen[c] - 1)

WriteBack(c) == Write(c, strLen[c])

ChildRead(c) ==
  /\ child[c] = "read"
  /\ \E n \in 1 .. BUF_SIZE : ReadUnits(c, n) /\ strLen' = [strLen EXCEPT ![c] = n]
  /\ child' = [child EXCEPT ![c] = "write"]
  /\ UNCHANGED <<program, parent, storing, sigchld>>

\* read() returns -1 once for a connection that was reset, and nothing is written for it.
ChildReadError(c) ==
  /\ child[c] = "read"
  /\ ReadReset(c)
  /\ UNCHANGED <<program, parent, child, strLen, storing, sigchld>>

\* Mutant: the connection is closed as soon as its client has left.
EndedEarly(c) == peer[c] \in {"fin", "broken"}

Ended(c) == AtEnd(c)

\* read() returns 0: close the connection and end.
ChildEnd(c) ==
  /\ child[c] = "read"
  /\ Ended(c)
  /\ child' = [child EXCEPT ![c] = "done"]
  /\ Ends(c)
  /\ UNCHANGED <<program, parent, strLen, storing, net>>

\* Echo what was read.
ChildWrite(c) ==
  /\ child[c] = "write"
  /\ WriteBack(c)
  /\ child' = [child EXCEPT ![c] = IF Stores THEN "store" ELSE "read"]
  /\ strLen' = IF Stores THEN strLen ELSE [strLen EXCEPT ![c] = 0]
  /\ UNCHANGED <<program, parent, storing, sigchld>>

\* SIGPIPE ends the child: what it had read and not yet written to the pipe goes with it.
ChildKilled(c) ==
  /\ child[c] = "write"
  /\ BrokenPipe(c)
  /\ child' = [child EXCEPT ![c] = "killed"]
  /\ strLen' = [strLen EXCEPT ![c] = 0]
  /\ Ends(c)
  /\ UNCHANGED <<program, parent, storing, net>>

\* Mutant: the pipe takes more than there is room for.
PipedAlways(c) == pipe' = pipe \o [k \in 1 .. strLen[c] |-> c]

\* Mutant: the pipe takes only what there is room for.
PipedShort(c) ==
  pipe' = pipe \o [k \in 1 .. IF Len(pipe) + strLen[c] <= PIPE_SIZE THEN strLen[c] ELSE 0 |-> c]

\* Write what was read to the pipe, when there is room for all of it.
Piped(c) ==
  /\ Len(pipe) + strLen[c] <= PIPE_SIZE
  /\ pipe' = pipe \o [k \in 1 .. strLen[c] |-> c]

ChildStore(c) ==
  /\ child[c] = "store"
  /\ Piped(c)
  /\ child' = [child EXCEPT ![c] = "read"]
  /\ strLen' = [strLen EXCEPT ![c] = 0]
  /\ UNCHANGED <<program, parent, log, rounds, sigchld, net>>

Child(c) ==
  \/ ChildRead(c) \/ ChildReadError(c) \/ ChildEnd(c)
  \/ ChildWrite(c) \/ ChildKilled(c) \/ ChildStore(c)

----------------------------------------------------------------------------
\* The storing child reads from the pipe and stores what it got; it ends after the last read.
Store ==
  /\ rounds > 0
  /\ pipe # <<>>
  /\ LET n == IF Len(pipe) < BUF_SIZE THEN Len(pipe) ELSE BUF_SIZE
     IN  /\ log' = log \o SubSeq(pipe, 1, n)
         /\ pipe' = SubSeq(pipe, n + 1, Len(pipe))
  /\ rounds' = rounds - 1
  /\ IF rounds = 1 THEN Ends(Nobody) ELSE UNCHANGED sigchld
  /\ UNCHANGED <<program, parent, child, strLen, net>>

\* No process has a descriptor of the connection any more.
Dropped(c) == c \in accepted /\ clientSocket # c /\ child[c] \in {"none", "done", "killed"}

\* read() of a client whose connection the server has closed returns without an answer.  What
\* it sends from then on stays unread.
HungUp(c) ==
  /\ c \in waiting /\ outbox[c] = 0
  /\ Dropped(c)
  /\ waiting' = waiting \ {c}
  /\ UNCHANGED <<peer, inbox, outbox, sent>>

Client(c) ==
  /\ Connect(c) \/ Send(c) \/ Receive(c) \/ HungUp(c) \/ Quit(c)
  /\ UNCHANGED <<program, parent, child, strLen, storing, sigchld>>

Next == Parent \/ ForkFails \/ Store \/ \E c \in Conns : Child(c) \/ Client(c)

Spec == Init /\ [][Next]_vars

\* Every process of the server is scheduled again, and so is a client that waits in read().
FairSpec ==
  /\ Spec
  /\ WF_vars(Parent)
  /\ WF_vars(Store)
  /\ \A c \in Conns : WF_vars(Child(c)) /\ WF_vars(Client(c) /\ (Receive(c) \/ HungUp(c)))

----------------------------------------------------------------------------
(***************************************************************************)
(* Properties.                                                             *)
(***************************************************************************)

\* Every variable has its type.
TypeOK ==
  /\ program \in Programs
  /\ server \in {"accept", "fork", "close"}
  /\ clientSocket \in Conns \cup {Nobody}
  /\ accepted \subseteq Conns
  /\ failures \in 0 .. MaxForkFail
  /\ child \in [Conns -> {"none", "read", "write", "store", "done", "killed"}]
  /\ strLen \in [Conns -> 0 .. BUF_SIZE]
  /\ pipe \in Seq(Conns) /\ Len(pipe) <= PIPE_SIZE
  /\ log \in Seq(Conns)
  /\ rounds \in 0 .. Rounds
  /\ zombies \subseteq Conns \cup {Nobody}
  /\ pending \in BOOLEAN /\ handling \in BOOLEAN
  /\ merged \in Nat
  /\ NetTypeOK

UnitsOf(s, c) == Cardinality({k \in DOMAIN s : s[k] = c})

\* Units read from a client that are neither stored nor on their way to the file.
Missing(c) ==
  sent[c] - inbox[c] - (UnitsOf(log, c) + UnitsOf(pipe, c) + strLen[c])

\* No unit is lost or stored twice between the clients, the children that share one pipe and
\* the file: what was read from a client is stored, in the pipe, or in its child's hands.
\* Only a child that SIGPIPE killed has lost some, its last read: it dies in the write() to its
\* client, before the one to the pipe.
StoredOnce ==
  Stores => \A c \in Conns :
    IF child[c] = "killed" THEN Missing(c) \in 1 .. BUF_SIZE ELSE Missing(c) = 0

\* The server as an echo service.  How a connection looks that no process has open any more
\* tells its child: it ended in order, it was killed, or there was none as fork() failed.
Service == INSTANCE EchoService WITH
  status <- [c \in Conns |->
    IF Dropped(c)
      THEN IF child[c] = "done" THEN "closed" ELSE IF child[c] = "killed" THEN "cut" ELSE "refused"
    ELSE IF peer[c] = "none" THEN "none"
    ELSE IF peer[c] = "up" THEN "open" ELSE "left"],
  echoed <- [c \in Conns |-> sent[c] - inbox[c]],
  running <- TRUE,
  PerClient <- TRUE,
  MaxRefused <- MaxForkFail

\* Each unit is taken once.  A connection that no process has open any more was closed after
\* its client had left and all it had sent was taken; or its child was killed after the client
\* had left and some of its units were taken; or none was taken and fork() failed for it, which
\* happens to no more connections than fork() failed for.
ImplementsService == Service!Spec

\* No client waits for good, whatever happens to the other clients: it is answered or, when
\* fork() failed for it, finds the connection closed.  Only when the storing child has ended
\* nobody empties the pipe any more, and a child may wait for room in it for ever.
Answered ==
  \A c \in Conns : (c \in waiting) ~> (c \notin waiting \/ (Stores /\ rounds = 0))
=============================================================================

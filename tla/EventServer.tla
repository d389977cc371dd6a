----------------------------- MODULE EventServer -----------------------------
(***************************************************************************)
(* The echo servers of one thread, built on select() or epoll.             *)
(*                                                                         *)
(*   echo_select_server        copies the set of watched descriptors, lets *)
(*                             select() reduce the copy, and goes through  *)
(*                             it in ascending order                       *)
(*   epoll_server              level triggered, one read per event; stands *)
(*                             for epoll_eplt_server too                   *)
(*   epoll_epet_test_server    edge triggered, one read per event          *)
(*   epoll_epet_server         edge triggered, reads in an endless loop    *)
(*                                                                         *)
(* Which one runs is chosen in the initial state.  Clients send, read and  *)
(* leave while the server handles what was reported before.  Descriptors   *)
(* are numbers, the lowest free one is given to the next connection: one   *)
(* that is closed in a round may be in use again before the next round.    *)
(***************************************************************************)
EXTENDS EchoNet

CONSTANTS
  Programs,      \* the servers considered
  serverSocket,  \* descriptor of the listening socket
  MaxFd,         \* highest descriptor of the process
  BUF_SIZE,      \* most units a read takes
  NoConn

Fds == serverSocket + 1 .. MaxFd

ASSUME EventAssumption ==
  /\ Programs \subseteq {"echo_select_server", "epoll_server",
                         "epoll_epet_test_server", "epoll_epet_server"}
  /\ serverSocket \in Nat
  /\ MaxFd \in Nat
  /\ Cardinality(Conns) <= MaxFd - serverSocket  \* accept() finds a descriptor
  /\ BUF_SIZE \in Nat \ {0}
  /\ NoConn \notin Conns

VARIABLES
  program,  \* the server that runs
  server,   \* what it does next
  ready,    \* descriptors reported and not handled yet: cpySocks, epEvents
  current,  \* the descriptor it handles
  strLen,   \* units the last read returned
  socks,    \* descriptors watched
  fdMax,    \* highest descriptor select() looks at
  fdTable,  \* per descriptor: the connection it is open on
  served,   \* connections accepted so far
  edge      \* descriptors on which something arrived since they were last reported

fds == <<socks, fdMax, fdTable, served>>
vars == <<program, server, ready, current, strLen, fds, edge, net>>

Selects == program = "echo_select_server"

\* EPOLLET is set for the clients' sockets.
EdgeTriggered == program \in {"epoll_epet_test_server", "epoll_epet_server"}

\* The handler reads in a loop that nothing ends.
Loop == program = "epoll_epet_server"

Init ==
  /\ program \in Programs
  /\ server = "wait"
  /\ ready = {}
  /\ current = serverSocket
  /\ strLen = 0
  /\ socks = {serverSocket}
  /\ fdMax = serverSocket + 1
  /\ fdTable = [f \in Fds |-> NoConn]
  /\ served = {}
  /\ edge = {}
  /\ NetInit

----------------------------------------------------------------------------
(***************************************************************************)
(* The system: what is ready.                                              *)
(***************************************************************************)

Backlog == {c \in Conns : peer[c] # "none" /\ c \notin served}

\* read() or accept() on the descriptor returns at once.
IsReady(f) ==
  IF f = serverSocket THEN Backlog # {} ELSE fdTable[f] # NoConn /\ Readable(fdTable[f])

\* Something arrives on connection c.
Arrives(c) ==
  edge' = IF EdgeTriggered THEN edge \cup {f \in Fds : fdTable[f] = c} ELSE edge

----------------------------------------------------------------------------
(***************************************************************************)
(* The server's loop.                                                      *)
(***************************************************************************)

\* What the server is told: select() looks at the descriptors up to fdMax.
Reported ==
  {f \in socks : /\ IsReady(f)
                 /\ Selects => f <= fdMax
                 /\ (EdgeTriggered /\ f # serverSocket) => f \in edge}

\* select() or epoll_wait() returns.  When select() times out nothing changes.
Wait ==
  /\ server = "wait"
  /\ ready' = Reported
  /\ ready' # {}
  /\ edge' = edge \ ready'
  /\ server' = "loop"
  /\ UNCHANGED <<program, current, strLen, fds, net>>

AllHandled == ready = {}

LoopDone ==
  /\ server = "loop"
  /\ AllHandled
  /\ server' = "wait"
  /\ UNCHANGED <<program, ready, current, strLen, fds, edge, net>>

\* Mutant: a descriptor handled stays in the list.
TakeKeeps(f) == f \in ready /\ UNCHANGED ready

\* The next descriptor of the loop; select()'s are taken in ascending order.
Take(f) ==
  /\ f \in ready
  /\ Selects => \A g \in ready : f <= g
  /\ ready' = ready \ {f}

\* Mutant: fdMax does not follow the new descriptor.
RaisedNot(f) == fdMax

Raised(f) == IF Selects /\ f > fdMax THEN f ELSE fdMax

\* Accept one connection and watch its descriptor.
Accept ==
  /\ server = "loop"
  /\ Take(serverSocket)
  /\ \E c \in Backlog, f \in Fds :
       /\ fdTable[f] = NoConn
       /\ \A g \in Fds : g < f => fdTable[g] # NoConn
       /\ fdTable' = [fdTable EXCEPT ![f] = c]
       /\ served' = served \cup {c}
       /\ socks' = socks \cup {f}
       /\ fdMax' = Raised(f)
       /\ edge' = IF EdgeTriggered THEN edge \cup {f} ELSE edge
  /\ UNCHANGED <<program, server, current, strLen, net>>

\* The descriptor of a client: read from it next.
Handle ==
  /\ server = "loop"
  /\ current' \in Fds
  /\ Take(current')
  /\ server' = "read"
  /\ UNCHANGED <<program, strLen, fds, edge, net>>

\* The handler is done with what it read, or reads again.
Continue == server' = IF Loop THEN "read" ELSE "loop"

Units(c) == IF inbox[c] < BUF_SIZE THEN inbox[c] ELSE BUF_SIZE

\* read() returns what has arrived, up to the size of the buffer.
Read ==
  /\ server = "read"
  /\ fdTable[current] # NoConn
  /\ strLen' = Units(fdTable[current])
  /\ ReadUnits(fdTable[current], strLen')
  /\ server' = "write"
  /\ UNCHANGED <<program, ready, current, fds, edge>>

\* read() returns -1: write() is called with that length and fails.
ReadError ==
  /\ server = "read"
  /\ fdTable[current] # NoConn
  /\ ReadReset(fdTable[current])
  /\ Continue
  /\ UNCHANGED <<program, ready, current, strLen, fds, edge>>

\* Mutant: the connection is closed as soon as its client has left.
EndedEarly(c) == peer[c] \in {"fin", "broken"}

Ended(c) == AtEnd(c)

\* Mutant: the descriptor is not closed.
CloseFdNot == UNCHANGED fdTable

CloseFd == fdTable' = [fdTable EXCEPT ![current] = NoConn]

\* read() returns 0: stop watching the descriptor and close it.  The endless loop goes on to
\* read from the closed descriptor, which fails each time: the server does nothing else.
ReadEnd ==
  /\ server = "read"
  /\ fdTable[current] # NoConn
  /\ Ended(fdTable[current])
  /\ socks' = socks \ {current}
  /\ CloseFd
  /\ edge' = edge \ {current}
  /\ server' = IF Loop THEN "spin" ELSE "loop"
  /\ UNCHANGED <<program, ready, current, strLen, fdMax, served, net>>

\* Mutant: the last unit is not echoed.
WriteBackShort(c) == Write(c, strLen - 1)

WriteBack(c) == Write(c, strLen)

\* Echo what was read.  A reset that comes back is an event.
EchoData ==
  /\ server = "write"
  /\ LET c == fdTable[current] IN
       /\ WriteBack(c)
       /\ IF peer[c] = "fin" /\ peer' # peer THEN Arrives(c) ELSE UNCHANGED edge
  /\ strLen' = 0
  /\ Continue
  /\ UNCHANGED <<program, ready, current, fds>>

\* SIGPIPE ends the server.
Killed ==
  /\ server = "write"
  /\ BrokenPipe(fdTable[current])
  /\ server' = "dead"
  /\ UNCHANGED <<program, ready, current, strLen, fds, edge, net>>

Server ==
  \/ Wait \/ LoopDone \/ Accept \/ Handle
  \/ Read \/ ReadError \/ ReadEnd \/ EchoData \/ Killed

\* The clients; what they send and that they leave are events.
Client(c) ==
  /\ \/ (Connect(c) \/ Receive(c)) /\ UNCHANGED edge
     \/ (Send(c) \/ Quit(c)) /\ Arrives(c)
  /\ UNCHANGED <<program, server, ready, current, strLen, fds>>

Next == Server \/ \E c \in Conns : Client(c)

Spec == Init /\ [][Next]_vars

\* The server's process is scheduled again, select() and epoll_wait() report what is ready,
\* and a client that waits for its echo reads it.
FairSpec ==
  /\ Spec
  /\ WF_vars(Server)
  /\ \A c \in Conns : WF_vars(Receive(c) /\ Client(c))

----------------------------------------------------------------------------
(***************************************************************************)
(* Properties.                                                             *)
(***************************************************************************)

\* Every variable has its type.
TypeOK ==
  /\ program \in Programs
  /\ server \in {"wait", "loop", "read", "write", "spin", "dead"}
  /\ ready \subseteq Fds \cup {serverSocket}
  /\ current \in Fds \cup {serverSocket}
  /\ strLen \in 0 .. BUF_SIZE
  /\ socks \subseteq Fds \cup {serverSocket}
  /\ fdMax \in Nat
  /\ fdTable \in [Fds -> Conns \cup {NoConn}]
  /\ served \subseteq Conns
  /\ edge \subseteq Fds
  /\ NetTypeOK

\* The descriptors watched are those that are open, also after the numbers of closed ones
\* were given out again, and select() sees them all: fdMax follows the descriptors up.
WatchesOpen ==
  /\ socks = {serverSocket} \cup {f \in Fds : fdTable[f] # NoConn}
  /\ Selects => \A f \in socks : f <= fdMax

\* What was reported before the events of other clients were handled still holds when its
\* turn comes: the descriptor is open, read() and accept() return at once.
NeverBlocks ==
  /\ server = "read" => fdTable[current] # NoConn /\ Readable(fdTable[current])
  /\ server = "loop" => \A f \in ready : IsReady(f)

\* The one thread of the servers that read once per event never blocks but for events.
WaitsForEventsOnly == Loop \/ NeverBlocks

IsOpen(c) == \E f \in Fds : fdTable[f] = c

\* The server as an echo service.
Service == INSTANCE EchoService WITH
  status <- [c \in Conns |->
    IF c \in served /\ ~IsOpen(c) THEN "closed"
    ELSE IF peer[c] = "none" THEN "none"
    ELSE IF peer[c] = "up" THEN "open" ELSE "left"],
  echoed <- [c \in Conns |-> sent[c] - inbox[c]],
  running <- server # "dead",
  PerClient <- FALSE,
  MaxRefused <- 0

\* Each unit is taken once, and a connection is closed only after its client has left and all
\* it had sent was taken, whatever is pending when the client leaves.
ImplementsService == Service!Spec

\* A server that is not edge triggered echoes all that is sent, as what a read left is reported
\* again, and closes the connection of every client that left.
LevelCompletes ==
  \A c \in Conns :
    /\ (~EdgeTriggered /\ inbox[c] > 0) ~> (inbox[c] = 0 \/ server = "dead")
    /\ (~EdgeTriggered /\ peer[c] \in {"fin", "reset", "broken"})
         ~> ((c \in served /\ ~IsOpen(c)) \/ server = "dead")

\* No client of a server that reads once per event waits for an echo for good: also the edge
\* triggered one answers each message, with a part of it at least.
Answered == \A c \in Conns : (~Loop /\ c \in waiting) ~> (c \notin waiting \/ server = "dead")
=============================================================================

----------------------------- MODULE ChatServer -----------------------------
(***************************************************************************)
(* The chat server of chat_server.c.  The main thread accepts connections, *)
(* enters each socket in clientSockets and starts a thread for it; the     *)
(* thread reads from its client and writes what it read to every socket    *)
(* in clientSockets, until it reads end of file and removes its socket.    *)
(* clientSockets and clientCnt are protected by a mutex.                   *)
(*                                                                         *)
(* The thread is not given its socket but the address of main's variable   *)
(* clientSocket, which main overwrites when accept() returns again: what   *)
(* the thread finds there depends on who runs first.  Descriptors are      *)
(* small numbers, the lowest free one is used first, so a closed one comes *)
(* back with the next connection.                                          *)
(*                                                                         *)
(* Every connection has a session: its life from accept() to the end of    *)
(* the thread started for it.  Chunks of text are numbered by the order in *)
(* which they are broadcast.                                               *)
(***************************************************************************)
EXTENDS Integers, FiniteSets, Sequences

CONSTANTS
  Sessions,    \* connections, and the threads started for them
  NoSession,
  Fds,         \* descriptors that accept() may return
  MAX_CLNT,    \* size of clientSockets
  MaxChunks,   \* bound on the chunks all clients send
  MaxOut       \* chunks that fit between a write() and the client that reads it

NoFd == -1     \* what a failing accept() returns

ASSUME ChatAssumption ==
  /\ IsFiniteSet(Sessions)
  /\ NoSession \notin Sessions
  /\ Fds \subseteq Nat
  /\ MAX_CLNT \in Nat
  /\ MaxChunks \in Nat
  /\ MaxOut \in Nat \ {0}

VARIABLES
  clientCnt,
  clientSockets,
  clientSocket,  \* main's variable, whose address every thread is given
  mutex,         \* the thread that holds it in sendMessage, else NoSession
  pos,           \* per session: the loop variable of its thread in sendMessage
  main,          \* what main does next
  current,       \* the session main is about to register or start a thread for
  thread,        \* per session: what its thread does next
  sock,          \* per session: the thread's variable sock
  source,        \* per session: the connection its read() was issued on
  own,           \* per session: the descriptor accept() returned for it
  fdTable,       \* per descriptor: the connection it is open on
  peer,          \* per connection: its state as seen at the server's side
  inbox,         \* per connection: chunks sent by the client and not yet read
  outbox,        \* per connection: chunks written and not yet read by the client
  chunks,        \* number of chunks clients sent
  broadcasts,    \* history: number of chunks that entered sendMessage
  number,        \* history, per session: the number of the broadcast its thread is at
  stream,        \* history, per connection: the broadcasts written to it
  alive          \* the server process runs, and has written to its own variables only

registry == <<clientCnt, clientSockets>>
mainVars == <<clientSocket, main, current>>
network == <<fdTable, peer, inbox, outbox, chunks>>
history == <<broadcasts, number, stream>>
vars == <<registry, mainVars, mutex, pos, thread, sock, source, own, network, history, alive>>

Slots == 0 .. MAX_CLNT - 1

\* The connection a descriptor is open on, NoSession if it is not open.
OpenOn(f) == IF f \in Fds THEN fdTable[f] ELSE NoSession

\* The connection the next write() of thread c's loop in sendMessage goes to.
Target(c) == OpenOn(clientSockets[pos[c]])

\* The descriptors in the registry.
Registered == {clientSockets[k] : k \in 0 .. clientCnt - 1}

Init ==
  /\ clientCnt = 0
  /\ clientSockets = [k \in Slots |-> 0]
  /\ clientSocket = 0
  /\ mutex = NoSession
  /\ pos = [c \in Sessions |-> 0]
  /\ main = "accept"
  /\ current = NoSession
  /\ thread = [c \in Sessions |-> "none"]
  /\ sock = [c \in Sessions |-> NoFd]
  /\ source = [c \in Sessions |-> NoSession]
  /\ own = [c \in Sessions |-> NoFd]
  /\ fdTable = [f \in Fds |-> NoSession]
  /\ peer = [c \in Sessions |-> "none"]
  /\ inbox = [c \in Sessions |-> 0]
  /\ outbox = [c \in Sessions |-> 0]
  /\ chunks = 0
  /\ broadcasts = 0
  /\ number = [c \in Sessions |-> 0]
  /\ stream = [c \in Sessions |-> <<>>]
  /\ alive = TRUE

----------------------------------------------------------------------------
(***************************************************************************)
(* The main thread.                                                        *)
(***************************************************************************)

\* Mutant: the mutex keeps nobody out.
MutexFreeAlways == TRUE

MutexFree == mutex = NoSession

FreeFds == {f \in Fds : fdTable[f] = NoSession}

\* accept() returns a descriptor of a connection that waits, the lowest free one.
Accept(c) ==
  /\ alive /\ main = "accept"
  /\ peer[c] \notin {"none", "failed"} /\ own[c] = NoFd
  /\ \E f \in FreeFds :
       /\ \A g \in FreeFds : f <= g
       /\ fdTable' = [fdTable EXCEPT ![f] = c]
       /\ own' = [own EXCEPT ![c] = f]
       /\ clientSocket' = f
  /\ current' = c
  /\ main' = "register"
  /\ UNCHANGED <<registry, mutex, pos, thread, sock, source, peer, inbox, outbox, chunks,
                 history, alive>>

\* accept() fails because no descriptor is free; main goes on as if it had not.
AcceptFails(c) ==
  /\ alive /\ main = "accept"
  /\ FreeFds = {}
  /\ peer[c] = "none"
  /\ peer' = [peer EXCEPT ![c] = "failed"]
  /\ clientSocket' = NoFd
  /\ current' = c
  /\ main' = "register"
  /\ UNCHANGED <<registry, mutex, pos, thread, sock, source, own, fdTable, inbox, outbox, chunks,
                 history, alive>>

\* Enter the socket in the registry, with the mutex held.
Register ==
  /\ alive /\ main = "register"
  /\ MutexFree
  /\ clientCnt < MAX_CLNT
  /\ clientSockets' = [clientSockets EXCEPT ![clientCnt] = clientSocket]
  /\ clientCnt' = clientCnt + 1
  /\ main' = "create"
  /\ UNCHANGED <<clientSocket, current, mutex, pos, thread, sock, source, own, network, history, alive>>

\* The code compares clientCnt with no bound: when the registry is full it writes behind the
\* array, over whatever the build has put there.  What it does from then on is undefined, and
\* the server is not followed any further.
Overrun ==
  /\ alive /\ main = "register"
  /\ MutexFree
  /\ clientCnt >= MAX_CLNT
  /\ main' = "overrun"
  /\ alive' = FALSE
  /\ UNCHANGED <<registry, clientSocket, current, mutex, pos, thread, sock, source, own, network, history>>

\* pthread_create hands over the address of clientSocket.
Create ==
  /\ alive /\ main = "create"
  /\ thread' = [thread EXCEPT ![current] = "start"]
  /\ current' = NoSession
  /\ main' = "accept"
  /\ UNCHANGED <<registry, clientSocket, mutex, pos, sock, source, own, network, history, alive>>

Main == Register \/ Overrun \/ Create \/ \E c \in Sessions : Accept(c) \/ AcceptFails(c)

----------------------------------------------------------------------------
(***************************************************************************)
(* The threads: threadMain and sendMessage.                                *)
(***************************************************************************)

\* sock = *((int *) arg): whatever main's variable holds by now.
Start(c) ==
  /\ alive /\ thread[c] = "start"
  /\ sock' = [sock EXCEPT ![c] = clientSocket]
  /\ thread' = [thread EXCEPT ![c] = "issue"]
  /\ UNCHANGED <<registry, mainVars, mutex, pos, source, own, network, history, alive>>

\* read() is issued on the connection the descriptor is open on.  On a descriptor that is not
\* open it returns -1; sendMessage is called with that length and writes nothing, so the
\* thread spins without effect, which is a stuttering step.
Issue(c) ==
  /\ alive /\ thread[c] = "issue"
  /\ OpenOn(sock[c]) # NoSession
  /\ source' = [source EXCEPT ![c] = OpenOn(sock[c])]
  /\ thread' = [thread EXCEPT ![c] = "read"]
  /\ UNCHANGED <<registry, mainVars, mutex, pos, sock, own, network, history, alive>>

\* read() returns chunks that have arrived, as one.
Read(c) ==
  /\ alive /\ thread[c] = "read"
  /\ \E k \in 1 .. inbox[source[c]] : inbox' = [inbox EXCEPT ![source[c]] = @ - k]
  /\ thread' = [thread EXCEPT ![c] = "lock"]
  /\ UNCHANGED <<registry, mainVars, mutex, pos, sock, source, own, fdTable, peer, outbox,
                 chunks, history, alive>>

\* read() returns 0.
ReadEnd(c) ==
  /\ alive /\ thread[c] = "read"
  /\ inbox[source[c]] = 0 /\ peer[source[c]] \in {"fin", "broken"}
  /\ thread' = [thread EXCEPT ![c] = "remove"]
  /\ UNCHANGED <<registry, mainVars, mutex, pos, sock, source, own, network, history, alive>>

\* read() returns -1 once for a connection that was reset; nothing is written for it.
ReadError(c) ==
  /\ alive /\ thread[c] = "read"
  /\ inbox[source[c]] = 0 /\ peer[source[c]] = "reset"
  /\ peer' = [peer EXCEPT ![source[c]] = "broken"]
  /\ thread' = [thread EXCEPT ![c] = "issue"]
  /\ UNCHANGED <<registry, mainVars, mutex, pos, sock, source, own, fdTable, inbox, outbox,
                 chunks, history, alive>>

\* sendMessage takes the mutex.
Lock(c) ==
  /\ alive /\ thread[c] = "lock"
  /\ MutexFree
  /\ mutex' = c
  /\ pos' = [pos EXCEPT ![c] = 0]
  /\ broadcasts' = broadcasts + 1
  /\ number' = [number EXCEPT ![c] = broadcasts']
  /\ thread' = [thread EXCEPT ![c] = "send"]
  /\ UNCHANGED <<registry, mainVars, sock, source, own, network, stream, alive>>

\* One write() of the loop, to a connection whose client may still read: it blocks, with the
\* mutex held, while there is no room.
Write(c) ==
  /\ alive /\ thread[c] = "send" /\ pos[c] < clientCnt
  /\ Target(c) # NoSession /\ peer[Target(c)] = "up"
  /\ outbox[Target(c)] < MaxOut
  /\ outbox' = [outbox EXCEPT ![Target(c)] = @ + 1]
  /\ stream' = [stream EXCEPT ![Target(c)] = Append(@, number[c])]
  /\ pos' = [pos EXCEPT ![c] = @ + 1]
  /\ UNCHANGED <<registry, mainVars, mutex, thread, sock, source, own, fdTable, peer, inbox, chunks,
                 broadcasts, number, alive>>

\* The client has closed: the data is sent, and answered by a reset now or later.
WriteClosed(c) ==
  /\ alive /\ thread[c] = "send" /\ pos[c] < clientCnt
  /\ Target(c) # NoSession /\ peer[Target(c)] = "fin"
  /\ peer' \in {peer, [peer EXCEPT ![Target(c)] = "reset"]}
  /\ stream' = [stream EXCEPT ![Target(c)] = Append(@, number[c])]
  /\ pos' = [pos EXCEPT ![c] = @ + 1]
  /\ UNCHANGED <<registry, mainVars, mutex, thread, sock, source, own, fdTable, inbox, outbox, chunks,
                 broadcasts, number, alive>>

\* The descriptor is not open, or the reset is reported once: the write fails, nobody looks.
WriteFails(c) ==
  /\ alive /\ thread[c] = "send" /\ pos[c] < clientCnt
  /\ \/ Target(c) = NoSession /\ UNCHANGED peer
     \/ /\ Target(c) # NoSession /\ peer[Target(c)] = "reset"
        /\ peer' = [peer EXCEPT ![Target(c)] = "broken"]
  /\ pos' = [pos EXCEPT ![c] = @ + 1]
  /\ UNCHANGED <<registry, mainVars, mutex, thread, sock, source, own, fdTable, inbox, outbox, chunks,
                 history, alive>>

\* A write to a connection known to be reset raises SIGPIPE, which ends the process.
WriteKills(c) ==
  /\ alive /\ thread[c] = "send" /\ pos[c] < clientCnt
  /\ Target(c) # NoSession /\ peer[Target(c)] \in {"reset", "broken"}
  /\ alive' = FALSE
  /\ UNCHANGED <<registry, mainVars, mutex, pos, thread, sock, source, own, network, history>>

\* Mutant: sendMessage returns with the mutex held.
ReleaseNot == UNCHANGED mutex

Release == mutex' = NoSession

\* The loop is over: release the mutex, read again.
Unlock(c) ==
  /\ alive /\ thread[c] = "send" /\ pos[c] >= clientCnt
  /\ Release
  /\ pos' = [pos EXCEPT ![c] = 0]
  /\ number' = [number EXCEPT ![c] = 0]
  /\ thread' = [thread EXCEPT ![c] = "issue"]
  /\ UNCHANGED <<registry, mainVars, sock, source, own, network, broadcasts, stream, alive>>

\* Mutant: the entries behind the gap stay where they are.
GapClosedNot(k) == clientSockets

\* clientSockets without entry k: those behind it move up.
GapClosed(k) ==
  [l \in Slots |-> IF k <= l /\ l < clientCnt - 1 THEN clientSockets[l + 1] ELSE clientSockets[l]]

\* Mutant: a session is counted down only if its socket is found.
CountDownFound(f) == clientCnt' = IF f \in Registered THEN clientCnt - 1 ELSE clientCnt

\* Mutant: a session whose socket is found is counted down in the loop as well.
CountDownTwice(f) == clientCnt' = IF f \in Registered THEN clientCnt - 2 ELSE clientCnt - 1

\* One client less, whether its descriptor f was found or not.
CountDown(f) == clientCnt' = clientCnt - 1

\* With the mutex held: take out the first entry equal to sock, if there is one.
Remove(c) ==
  /\ alive /\ thread[c] = "remove"
  /\ MutexFree
  /\ \/ \E k \in 0 .. clientCnt - 1 :
          /\ clientSockets[k] = sock[c]
          /\ \A l \in 0 .. k - 1 : clientSockets[l] # sock[c]
          /\ clientSockets' = GapClosed(k)
     \/ /\ sock[c] \notin Registered
        /\ UNCHANGED clientSockets
  /\ CountDown(sock[c])
  /\ thread' = [thread EXCEPT ![c] = "close"]
  /\ UNCHANGED <<mainVars, mutex, pos, sock, source, own, network, history, alive>>

\* close(sock), whatever it is open on by now; the thread ends.
Close(c) ==
  /\ alive /\ thread[c] = "close"
  /\ fdTable' = IF sock[c] \in Fds THEN [fdTable EXCEPT ![sock[c]] = NoSession] ELSE fdTable
  /\ thread' = [thread EXCEPT ![c] = "done"]
  /\ UNCHANGED <<registry, mainVars, mutex, pos, sock, source, own, peer, inbox, outbox, chunks,
                 history, alive>>

Thread(c) ==
  \/ Start(c) \/ Issue(c) \/ Read(c) \/ ReadEnd(c) \/ ReadError(c)
  \/ Lock(c) \/ Write(c) \/ WriteClosed(c) \/ WriteFails(c) \/ WriteKills(c) \/ Unlock(c)
  \/ Remove(c) \/ Close(c)

----------------------------------------------------------------------------
(***************************************************************************)
(* The clients, as chat_client.c plays them.                               *)
(***************************************************************************)

Connect(c) ==
  /\ peer[c] = "none"
  /\ peer' = [peer EXCEPT ![c] = "up"]
  /\ UNCHANGED <<registry, mainVars, mutex, pos, thread, sock, source, own, fdTable, inbox, outbox,
                 chunks, history, alive>>

Send(c) ==
  /\ peer[c] = "up"
  /\ chunks < MaxChunks
  /\ chunks' = chunks + 1
  /\ inbox' = [inbox EXCEPT ![c] = @ + 1]
  /\ UNCHANGED <<registry, mainVars, mutex, pos, thread, sock, source, own, fdTable, peer, outbox,
                 history, alive>>

\* recvMsg takes what has arrived.
Receive(c) ==
  /\ peer[c] = "up"
  /\ outbox[c] > 0
  /\ outbox' = [outbox EXCEPT ![c] = @ - 1]
  /\ UNCHANGED <<registry, mainVars, mutex, pos, thread, sock, source, own, fdTable, peer, inbox,
                 chunks, history, alive>>

\* The client closes and exits.  With data left unread its system sends a reset.
Quit(c) ==
  /\ peer[c] = "up"
  /\ peer' = [peer EXCEPT ![c] = IF outbox[c] > 0 THEN "reset" ELSE "fin"]
  /\ outbox' = [outbox EXCEPT ![c] = 0]
  /\ UNCHANGED <<registry, mainVars, mutex, pos, thread, sock, source, own, fdTable, inbox, chunks,
                 history, alive>>

Client(c) == Connect(c) \/ Send(c) \/ Receive(c) \/ Quit(c)

----------------------------------------------------------------------------
Next == Main \/ \E c \in Sessions : Thread(c) \/ Client(c)

Spec == Init /\ [][Next]_vars

\* Every thread of the server is scheduled again, and a client reads what has arrived.
FairSpec ==
  /\ Spec
  /\ WF_vars(Main)
  /\ \A c \in Sessions : WF_vars(Thread(c)) /\ WF_vars(Receive(c))

----------------------------------------------------------------------------
(***************************************************************************)
(* Properties.                                                             *)
(***************************************************************************)

Jobs == {"none", "start", "issue", "read", "lock", "send", "remove", "close", "done"}

\* Every variable has its type.
TypeOK ==
  /\ clientCnt \in Nat
  /\ clientSockets \in [Slots -> Fds \cup {NoFd, 0}]
  /\ clientSocket \in Fds \cup {NoFd, 0}
  /\ mutex \in Sessions \cup {NoSession}
  /\ pos \in [Sessions -> Nat]
  /\ main \in {"accept", "register", "overrun", "create"}
  /\ current \in Sessions \cup {NoSession}
  /\ thread \in [Sessions -> Jobs]
  /\ sock \in [Sessions -> Fds \cup {NoFd, 0}]
  /\ source \in [Sessions -> Sessions \cup {NoSession}]
  /\ own \in [Sessions -> Fds \cup {NoFd}]
  /\ fdTable \in [Fds -> Sessions \cup {NoSession}]
  /\ peer \in [Sessions -> {"none", "up", "fin", "reset", "broken", "failed"}]
  /\ inbox \in [Sessions -> Nat]
  /\ outbox \in [Sessions -> Nat]
  /\ chunks \in Nat
  /\ broadcasts \in Nat
  /\ number \in [Sessions -> Nat]
  /\ stream \in [Sessions -> Seq(Nat)]
  /\ alive \in BOOLEAN

\* The sessions entered in the registry and not yet removed by their thread.
OpenSessions ==
  {c \in Sessions : \/ thread[c] \in {"start", "issue", "read", "lock", "send", "remove"}
                    \/ main = "create" /\ current = c}

\* Some thread found another session's descriptor, or none, at the address it was given.
Mixup == \E c \in Sessions : thread[c] \notin {"none", "start"} /\ sock[c] # own[c]

\* clientCnt counts the sessions entered and not removed, although a thread counts down
\* whether or not it found its socket, and also when threads read the wrong descriptor.
CountIsSessions == clientCnt = Cardinality(OpenSessions)

\* As long as every thread got its own descriptor the registry holds the descriptors of the
\* sessions in progress and no other, each open on the connection of its session: a descriptor
\* that was closed and given out again never stands for the connection before.
RegistryExact ==
  ~Mixup =>
    /\ Registered = {own[c] : c \in OpenSessions}
    /\ \A c \in OpenSessions : own[c] \in Fds => fdTable[own[c]] = c

\* All clients see the broadcasts in the one order in which they entered sendMessage, however
\* many threads broadcast, and whichever descriptors they use.
SameOrder ==
  \A c \in Sessions : \A k, l \in DOMAIN stream[c] : k < l => stream[c][k] <= stream[c][l]

\* As long as every thread got its own descriptor, a client sees each broadcast once and
\* misses none between the first and the last it sees.
NoGap ==
  ~Mixup => \A c \in Sessions : \A k \in 1 .. Len(stream[c]) - 1 :
              stream[c][k + 1] = stream[c][k] + 1

\* What a session looks like to the other clients: outside until its socket is entered, in
\* the chat until its thread has removed it.  Its client may leave at any moment.
Standing(c) ==
  IF c \in OpenSessions THEN IF peer[c] = "up" THEN "in" ELSE "left"
  ELSE IF thread[c] = "none" THEN "out" ELSE "gone"

Standings == [c \in Sessions |-> Standing(c)]

Room == INSTANCE ChatRoom WITH
  Clients <- Sessions,
  Nobody <- NoSession,
  status <- Standings,
  said <- broadcasts,
  speaker <- mutex,
  heard <- stream,
  confused <- Mixup,
  running <- alive,
  Capacity <- MAX_CLNT

\* The server is a chat room: a client hears every broadcast from the first one after its
\* socket was entered, in order and once, before the next one begins, however accepts, reads,
\* removals and failing writes fall; until a thread finds another session's descriptor.  It
\* breaks down only over a client that left, or over one too many: when as many clients as the
\* registry has room for have entered and not been removed.
ImplementsRoom == Room!Spec

\* What the comment in threadMain says: a thread that has read 0 has lost its client.
EndMeansGone == \A c \in Sessions : thread[c] = "remove" => peer[c] # "up"

\* What a client has sent is read, unless a thread got a wrong descriptor, SIGPIPE ended the
\* server or the registry was overrun.
Relayed ==
  \A c \in Sessions :
    (own[c] # NoFd /\ inbox[c] > 0) ~> (inbox[c] = 0 \/ Mixup \/ ~alive)

\* The session of a client that left is removed and its descriptor closed, with the same
\* exceptions.
Reaped ==
  \A c \in Sessions :
    (own[c] # NoFd /\ peer[c] # "up") ~> (thread[c] = "done" \/ Mixup \/ ~alive)
=============================================================================

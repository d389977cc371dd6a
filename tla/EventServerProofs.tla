-------------------------- MODULE EventServerProofs --------------------------
(***************************************************************************)
(* Proofs about the servers of EventServer, for every number of clients,   *)
(* of descriptors and of units: the descriptors watched are those that are *)
(* open, what was reported still holds when its turn comes, so that the    *)
(* servers that read once per event wait for events only, and each of them *)
(* is an echo service.                                                     *)
(***************************************************************************)
EXTENDS EventServer, TLAPS

\* A connection has one descriptor, from accept() on until its client has left.
Tables ==
  /\ \A f, g \in Fds : fdTable[f] # NoConn /\ fdTable[f] = fdTable[g] => f = g
  /\ \A f \in Fds : fdTable[f] # NoConn => fdTable[f] \in served
  /\ \A c \in served : peer[c] # "none" /\ (peer[c] = "up" => IsOpen(c))
  /\ \A c \in Conns : inbox[c] <= sent[c]

\* What was reported and not handled can be handled.
ReadyHolds == \A f \in ready : IsReady(f)

\* The descriptor that is handled is open, and not reported a second time.
Position ==
  /\ server \in {"read", "write"} =>
       current \in Fds /\ fdTable[current] # NoConn /\ current \notin ready
  /\ server = "read" /\ ~Loop => Readable(fdTable[current])
  /\ server = "write" => strLen >= 1

IInv == TypeOK /\ WatchesOpen /\ Tables /\ ReadyHolds /\ Position

----------------------------------------------------------------------------
LEMMA FdsType == serverSocket \in Nat /\ Fds \subseteq Nat /\ serverSocket \notin Fds
BY EventAssumption DEF Fds

LEMMA InitIInv == Init => IInv
<1> SUFFICES ASSUME Init PROVE IInv
  OBVIOUS
<1> USE EventAssumption, FdsType DEF Init, NetInit
<1>1. TypeOK
  BY DEF TypeOK, NetTypeOK
<1>2. WatchesOpen
  BY DEF WatchesOpen
<1>3. Tables /\ ReadyHolds /\ Position
  BY DEF Tables, ReadyHolds, Position
<1> QED
  BY <1>1, <1>2, <1>3 DEF IInv

----------------------------------------------------------------------------
(***************************************************************************)
(* Waiting and taking the next descriptor.                                 *)
(***************************************************************************)

LEMMA WaitIInv ==
  ASSUME IInv, Wait \/ LoopDone
  PROVE  IInv'
<1> USE DEF IInv, Wait, LoopDone, fds, net
<1>1. ready' \subseteq {f \in socks : IsReady(f)} \cup ready
  BY DEF Reported
<1>2. TypeOK'
  BY <1>1 DEF TypeOK, NetTypeOK
<1>3. WatchesOpen' /\ Tables'
  BY DEF WatchesOpen, Tables, IsOpen, Selects
<1>4. \A f \in ready' : IsReady(f)
  BY <1>1 DEF ReadyHolds
<1>5. ReadyHolds'
  BY <1>4 DEF ReadyHolds, IsReady, Backlog, Readable
<1>6. Position'
  BY DEF Position
<1> QED
  BY <1>2, <1>3, <1>5, <1>6

LEMMA HandleIInv ==
  ASSUME IInv, Handle
  PROVE  IInv'
<1> USE DEF IInv, Handle, Take, fds, net
<1>1. current' \in Fds /\ current' \in ready /\ ready' = ready \ {current'}
  OBVIOUS
<1>2. fdTable[current'] # NoConn /\ Readable(fdTable[current'])
  BY <1>1, FdsType DEF ReadyHolds, IsReady
<1>3. TypeOK'
  BY <1>1 DEF TypeOK, NetTypeOK
<1>4. WatchesOpen' /\ Tables'
  BY DEF WatchesOpen, Tables, IsOpen, Selects
<1>5. ReadyHolds'
  BY <1>1 DEF ReadyHolds, IsReady, Backlog, Readable
<1>6. Position'
  BY <1>1, <1>2 DEF Position, Loop, Readable
<1> QED
  BY <1>3, <1>4, <1>5, <1>6

----------------------------------------------------------------------------
(***************************************************************************)
(* Accepting.                                                              *)
(***************************************************************************)

LEMMA AcceptIInv ==
  ASSUME IInv, Accept
  PROVE  IInv'
<1> USE DEF IInv
<1>1. PICK c \in Backlog, f \in Fds :
        /\ fdTable[f] = NoConn
        /\ fdTable' = [fdTable EXCEPT ![f] = c]
        /\ served' = served \cup {c}
        /\ socks' = socks \cup {f}
        /\ fdMax' = Raised(f)
        /\ edge' = IF EdgeTriggered THEN edge \cup {f} ELSE edge
  BY DEF Accept
<1>2. /\ server = "loop" /\ Take(serverSocket)
      /\ UNCHANGED <<program, server, current, strLen, net>>
  BY DEF Accept
<1>3. c \in Conns /\ peer[c] # "none" /\ c \notin served /\ c # NoConn
  BY EventAssumption DEF Backlog
<1>4. ready' = ready \ {serverSocket}
  BY <1>2 DEF Take
<1>5. fdMax' \in Nat /\ (Selects => fdMax <= fdMax' /\ f <= fdMax')
  BY <1>1, FdsType DEF Raised, TypeOK
<1>6. fdTable' \in [Fds -> Conns \cup {NoConn}] /\ fdTable'[f] = c
      /\ \A g \in Fds : g # f => fdTable'[g] = fdTable[g]
  BY <1>1, <1>3 DEF TypeOK
<1>7. TypeOK'
  BY <1>1, <1>2, <1>3, <1>4, <1>5, <1>6 DEF TypeOK, NetTypeOK, net
<1>8. WatchesOpen'
  <2>1. socks' = {serverSocket} \cup {g \in Fds : fdTable'[g] # NoConn}
    BY <1>1, <1>3, <1>6 DEF WatchesOpen
  <2>2. ASSUME Selects, NEW g \in socks' PROVE g <= fdMax'
    <3>1. g \in Nat /\ fdMax \in Nat
      BY <2>1, FdsType DEF TypeOK
    <3> QED
      BY <1>1, <1>5, <2>2, <3>1 DEF WatchesOpen
  <2> QED
    BY <1>2, <2>1, <2>2 DEF WatchesOpen, Selects
<1>9. Tables'
  <2>1. \A g, h \in Fds : fdTable'[g] # NoConn /\ fdTable'[g] = fdTable'[h] => g = h
    BY <1>3, <1>6 DEF Tables
  <2>2. \A g \in Fds : fdTable'[g] # NoConn => fdTable'[g] \in served'
    BY <1>1, <1>6 DEF Tables
  <2>3. \A d \in Conns : IsOpen(d) => IsOpen(d)'
    BY <1>1, <1>6, EventAssumption DEF IsOpen
  <2>4. IsOpen(c)'
    BY <1>6 DEF IsOpen
  <2>5. UNCHANGED <<peer, inbox, sent>>
    BY <1>2 DEF net
  <2>6. \A d \in served' : peer'[d] # "none" /\ (peer'[d] = "up" => IsOpen(d)')
    BY <1>1, <1>3, <2>3, <2>4, <2>5 DEF Tables, TypeOK
  <2> QED
    BY <2>1, <2>2, <2>5, <2>6 DEF Tables, IsOpen
<1>10. ReadyHolds'
  <2> SUFFICES ASSUME NEW g \in ready' PROVE IsReady(g)'
    BY DEF ReadyHolds
  <2>1. g \in ready /\ g # serverSocket /\ fdTable[g] # NoConn /\ Readable(fdTable[g])
    BY <1>4 DEF ReadyHolds, IsReady
  <2>2. g \in Fds /\ g # f
    BY <1>1, <2>1 DEF TypeOK
  <2> QED
    BY <1>2, <1>6, <2>1, <2>2 DEF IsReady, Readable, net
<1>11. Position'
  BY <1>2 DEF Position
<1> QED
  BY <1>7, <1>8, <1>9, <1>10, <1>11

----------------------------------------------------------------------------
(***************************************************************************)
(* Steps that change the connection of the descriptor handled.             *)
(***************************************************************************)

\* What was reported of the other descriptors still holds, as each has a connection of its own.
LEMMA OthersReady ==
  ASSUME IInv, server \in {"read", "write"},
         \A c \in Conns : c # fdTable[current] => inbox'[c] = inbox[c] /\ peer'[c] = peer[c],
         \A f \in Fds : f # current => fdTable'[f] = fdTable[f],
         \A c \in Conns : peer[c] # "none" => peer'[c] # "none",
         UNCHANGED <<ready, served>>
  PROVE  ReadyHolds'
<1> SUFFICES ASSUME NEW f \in ready PROVE IsReady(f)'
  BY DEF ReadyHolds
<1> USE DEF IInv
<1>1. IsReady(f) /\ f # current /\ current \in Fds /\ fdTable[current] # NoConn
  BY DEF ReadyHolds, Position
<1>2. CASE f = serverSocket
  BY <1>1, <1>2 DEF IsReady, Backlog
<1>3. CASE f # serverSocket
  <2>1. f \in Fds /\ fdTable[f] # NoConn /\ fdTable[f] \in Conns /\ Readable(fdTable[f])
    BY <1>1, <1>3 DEF TypeOK, IsReady
  <2>2. fdTable[f] # fdTable[current] /\ fdTable'[f] = fdTable[f]
    BY <1>1, <2>1 DEF Tables
  <2> QED
    BY <1>3, <2>1, <2>2 DEF IsReady, Readable
<1> QED
  BY <1>2, <1>3

LEMMA HandledConn ==
  ASSUME IInv, server \in {"read", "write"}
  PROVE  /\ current \in Fds /\ current \notin ready
         /\ fdTable[current] \in Conns /\ fdTable[current] # NoConn
         /\ fdTable[current] \in served /\ peer[fdTable[current]] # "none"
         /\ inbox[fdTable[current]] \in Nat /\ sent[fdTable[current]] \in Nat
BY DEF IInv, Position, Tables, TypeOK, NetTypeOK

LEMMA ReadIInv ==
  ASSUME IInv, Read
  PROVE  IInv'
<1> USE DEF IInv, fds
<1> DEFINE c == fdTable[current]
<1>1. /\ server = "read" /\ server' = "write" /\ strLen' = Units(c) /\ ReadUnits(c, strLen')
      /\ UNCHANGED <<program, ready, current, fds, edge>>
  BY DEF Read
<1>2. /\ current \in Fds /\ current \notin ready /\ c \in Conns /\ c # NoConn
      /\ inbox[c] \in Nat /\ sent[c] \in Nat
  BY <1>1, HandledConn
<1>3. strLen' \in 1 .. BUF_SIZE /\ strLen' <= inbox[c]
  BY <1>1, <1>2, EventAssumption DEF Units, ReadUnits
<1>4. /\ inbox' = [inbox EXCEPT ![c] = inbox[c] - strLen']
      /\ UNCHANGED <<peer, outbox, sent, waiting>>
  BY <1>1 DEF ReadUnits
<1>5. inbox \in [Conns -> Nat] /\ sent \in [Conns -> Nat] /\ BUF_SIZE \in Nat
  BY EventAssumption DEF TypeOK, NetTypeOK
<1>6. inbox' \in [Conns -> Nat] /\ inbox'[c] <= inbox[c]
      /\ \A d \in Conns : d # c => inbox'[d] = inbox[d]
  BY <1>2, <1>3, <1>4, <1>5
<1>7. TypeOK'
  BY <1>1, <1>3, <1>4, <1>5, <1>6 DEF TypeOK, NetTypeOK
<1>8. WatchesOpen'
  BY <1>1 DEF WatchesOpen, Selects
<1>9. Tables'
  <2>1. \A d \in Conns : inbox'[d] <= sent[d]
    BY <1>2, <1>5, <1>6 DEF Tables
  <2> QED
    BY <1>1, <1>4, <2>1 DEF Tables, IsOpen
<1>10. ReadyHolds'
  BY <1>1, <1>4, <1>6, OthersReady
<1>11. Position'
  BY <1>1, <1>2, <1>3 DEF Position
<1> QED
  BY <1>7, <1>8, <1>9, <1>10, <1>11

LEMMA ReadErrorIInv ==
  ASSUME IInv, ReadError
  PROVE  IInv'
<1> USE DEF IInv, fds
<1> DEFINE c == fdTable[current]
<1>1. /\ server = "read" /\ ReadReset(c) /\ Continue
      /\ UNCHANGED <<program, ready, current, strLen, fds, edge>>
  BY DEF ReadError
<1>2. /\ current \in Fds /\ current \notin ready /\ c \in Conns /\ c # NoConn
  BY <1>1, HandledConn
<1>3. /\ peer' = [peer EXCEPT ![c] = "broken"] /\ peer[c] = "reset"
      /\ UNCHANGED <<inbox, outbox, sent, waiting>>
  BY <1>1 DEF ReadReset
<1>4. peer' \in [Conns -> {"none", "up", "fin", "reset", "broken"}]
      /\ \A d \in Conns : peer'[d] = IF d = c THEN "broken" ELSE peer[d]
  BY <1>2, <1>3 DEF TypeOK, NetTypeOK
<1>5. TypeOK'
  BY <1>1, <1>3, <1>4 DEF TypeOK, NetTypeOK, Continue
<1>6. WatchesOpen'
  BY <1>1 DEF WatchesOpen, Selects
<1>7. Tables'
  BY <1>1, <1>3, <1>4 DEF Tables, IsOpen, TypeOK
<1>8. ReadyHolds'
  BY <1>1, <1>3, <1>4, OthersReady
<1>9. Position'
  BY <1>1, <1>2 DEF Position, Continue, Loop
<1> QED
  BY <1>5, <1>6, <1>7, <1>8, <1>9

LEMMA ReadEndIInv ==
  ASSUME IInv, ReadEnd
  PROVE  IInv'
<1> USE DEF IInv
<1> DEFINE c == fdTable[current]
<1>1. /\ server = "read" /\ AtEnd(c) /\ socks' = socks \ {current}
      /\ fdTable' = [fdTable EXCEPT ![current] = NoConn]
      /\ edge' = edge \ {current} /\ server' = IF Loop THEN "spin" ELSE "loop"
      /\ UNCHANGED <<program, ready, current, strLen, fdMax, served, net>>
  BY DEF ReadEnd, Ended, CloseFd
<1>2. /\ current \in Fds /\ current \notin ready /\ c \in Conns /\ c # NoConn
  BY <1>1, HandledConn
<1>3. fdTable' \in [Fds -> Conns \cup {NoConn}]
      /\ \A f \in Fds : fdTable'[f] = IF f = current THEN NoConn ELSE fdTable[f]
  BY <1>1, <1>2 DEF TypeOK
<1>4. TypeOK'
  BY <1>1, <1>3 DEF TypeOK, NetTypeOK, net
<1>5. WatchesOpen'
  BY <1>1, <1>2, <1>3, FdsType DEF WatchesOpen, Selects
<1>6. Tables'
  <2>1. peer[c] # "up" /\ peer' = peer /\ inbox' = inbox /\ sent' = sent
    BY <1>1 DEF AtEnd, net
  <2>2. \A d \in Conns : IsOpen(d) /\ d # c => IsOpen(d)'
    BY <1>3 DEF IsOpen
  <2>3. \A d \in served' : peer'[d] # "none" /\ (peer'[d] = "up" => IsOpen(d)')
    BY <1>1, <2>1, <2>2 DEF Tables, TypeOK
  <2>4. \A f, g \in Fds : fdTable'[f] # NoConn /\ fdTable'[f] = fdTable'[g] => f = g
    BY <1>3 DEF Tables
  <2>5. \A f \in Fds : fdTable'[f] # NoConn => fdTable'[f] \in served'
    BY <1>1, <1>3 DEF Tables
  <2> QED
    BY <2>1, <2>3, <2>4, <2>5 DEF Tables, IsOpen
<1>7. ReadyHolds'
  <2>1. peer' = peer /\ inbox' = inbox
    BY <1>1 DEF net
  <2> QED
    BY <1>1, <1>3, <2>1, OthersReady
<1>8. Position'
  BY <1>1 DEF Position
<1> QED
  BY <1>4, <1>5, <1>6, <1>7, <1>8

LEMMA EchoIInv ==
  ASSUME IInv, EchoData
  PROVE  IInv'
<1> USE DEF IInv, fds
<1> DEFINE c == fdTable[current]
<1>1. /\ server = "write" /\ Write(c, strLen) /\ strLen' = 0 /\ Continue
      /\ UNCHANGED <<program, ready, current, fds>>
      /\ edge' \in {edge, edge \cup {f \in Fds : fdTable[f] = c}}
  BY DEF EchoData, WriteBack, Arrives
<1>2. /\ current \in Fds /\ current \notin ready /\ c \in Conns /\ c # NoConn
  BY <1>1, HandledConn
<1>3. /\ UNCHANGED <<inbox, sent, waiting>>
      /\ peer' = peer
         \/ /\ peer[c] \in {"fin", "reset"}
            /\ \E p \in {"reset", "broken"} : peer' = [peer EXCEPT ![c] = p]
  BY <1>1 DEF Write, WriteOpen, WriteClosed, WriteReset
<1>4. peer' \in [Conns -> {"none", "up", "fin", "reset", "broken"}]
      /\ \A d \in Conns : /\ peer'[d] = "up" <=> peer[d] = "up"
                          /\ peer'[d] = "none" <=> peer[d] = "none"
                          /\ d # c => peer'[d] = peer[d]
  BY <1>2, <1>3 DEF TypeOK, NetTypeOK
<1>5. outbox' \in [Conns -> Nat]
  <2>1. outbox \in [Conns -> Nat] /\ strLen \in Nat
    BY EventAssumption DEF TypeOK, NetTypeOK
  <2>2. outbox' = outbox \/ outbox' = [outbox EXCEPT ![c] = outbox[c] + strLen]
    BY <1>1 DEF Write, WriteOpen, WriteClosed, WriteReset
  <2> QED
    BY <1>2, <2>1, <2>2
<1>6. TypeOK'
  <2>1. 0 \in 0 .. BUF_SIZE
    BY EventAssumption
  <2> QED
    BY <1>1, <1>3, <1>4, <1>5, <2>1 DEF TypeOK, NetTypeOK, Continue
<1>7. WatchesOpen'
  BY <1>1 DEF WatchesOpen, Selects
<1>8. Tables'
  BY <1>1, <1>3, <1>4 DEF Tables, IsOpen, TypeOK
<1>9. ReadyHolds'
  BY <1>1, <1>3, <1>4, OthersReady
<1>10. Position'
  BY <1>1, <1>2 DEF Position, Continue, Loop
<1> QED
  BY <1>6, <1>7, <1>8, <1>9, <1>10

LEMMA KilledIInv ==
  ASSUME IInv, Killed
  PROVE  IInv'
<1> USE DEF IInv, Killed, fds, net
<1>1. TypeOK'
  BY DEF TypeOK, NetTypeOK
<1>2. WatchesOpen' /\ Tables' /\ Position'
  BY DEF WatchesOpen, Selects, Tables, IsOpen, Position
<1>3. ReadyHolds'
  BY DEF ReadyHolds, IsReady, Backlog, Readable
<1> QED
  BY <1>1, <1>2, <1>3

----------------------------------------------------------------------------
(***************************************************************************)
(* The clients.                                                            *)
(***************************************************************************)

LEMMA ClientIInv ==
  ASSUME IInv, NEW c \in Conns, Client(c)
  PROVE  IInv'
<1> USE DEF IInv
<1>1. /\ UNCHANGED <<program, server, ready, current, strLen, socks, fdMax, fdTable, served>>
      /\ edge' \in {edge, edge \cup {f \in Fds : fdTable[f] = c}}
  BY DEF Client, Arrives, fds
<1>2. /\ peer \in [Conns -> {"none", "up", "fin", "reset", "broken"}]
      /\ inbox \in [Conns -> Nat] /\ outbox \in [Conns -> Nat] /\ sent \in [Conns -> Nat]
      /\ waiting \subseteq Conns /\ MaxSent \in Nat
  BY NetAssumption DEF TypeOK, NetTypeOK
<1>3. /\ NetTypeOK'
      /\ \A d \in Conns : /\ peer[d] # "none" => peer'[d] # "none"
                          /\ peer[d] \notin {"none", "up"} => peer'[d] = peer[d]
                          /\ peer'[d] = "up" => peer[d] \in {"none", "up"}
                          /\ inbox'[d] >= inbox[d]
                          /\ inbox'[d] <= sent'[d]
  <2>1. CASE Connect(c)
    BY <1>2, <2>1 DEF Connect, NetTypeOK, Tables
  <2>2. CASE Send(c)
    <3>1. PICK n \in 1 .. MaxSent - sent[c] :
            /\ sent' = [sent EXCEPT ![c] = sent[c] + n]
            /\ inbox' = [inbox EXCEPT ![c] = inbox[c] + n]
      BY <2>2 DEF Send
    <3>2. n \in Nat
      BY <1>2, <3>1
    <3>3. sent' \in [Conns -> Nat] /\ inbox' \in [Conns -> Nat]
      BY <1>2, <3>1, <3>2
    <3>4. \A d \in Conns : inbox'[d] >= inbox[d] /\ inbox'[d] <= sent'[d]
      BY <1>2, <3>1, <3>2 DEF Tables
    <3> QED
      BY <1>2, <2>2, <3>3, <3>4 DEF Send, NetTypeOK
  <2>3. CASE Receive(c)
    BY <1>2, <2>3 DEF Receive, NetTypeOK, Tables
  <2>4. CASE Quit(c)
    BY <1>2, <2>4 DEF Quit, NetTypeOK, Tables
  <2> QED
    BY <2>1, <2>2, <2>3, <2>4 DEF Client
<1>4. TypeOK'
  BY <1>1, <1>3 DEF TypeOK
<1>5. WatchesOpen'
  BY <1>1 DEF WatchesOpen, Selects
<1>6. Tables'
  BY <1>1, <1>3 DEF Tables, IsOpen, TypeOK
<1>7. \A f \in Fds : fdTable[f] # NoConn /\ Readable(fdTable[f]) => Readable(fdTable[f])'
  <2> SUFFICES ASSUME NEW f \in Fds, fdTable[f] # NoConn, Readable(fdTable[f])
               PROVE  Readable(fdTable[f])'
    OBVIOUS
  <2>1. fdTable[f] \in Conns /\ peer[fdTable[f]] # "none"
    BY DEF Tables, TypeOK
  <2>2. /\ inbox[fdTable[f]] > 0 => inbox'[fdTable[f]] > 0
        /\ peer[fdTable[f]] # "up" => peer'[fdTable[f]] # "up"
    BY <1>2, <1>3, <2>1 DEF NetTypeOK
  <2> QED
    BY <1>1, <2>2 DEF Readable
<1>8. ReadyHolds'
  <2> SUFFICES ASSUME NEW f \in ready PROVE IsReady(f)'
    BY <1>1 DEF ReadyHolds
  <2>1. IsReady(f) /\ f \in Fds \cup {serverSocket}
    BY DEF ReadyHolds, TypeOK
  <2>2. CASE f = serverSocket
    BY <1>1, <1>3, <2>1, <2>2 DEF IsReady, Backlog
  <2>3. CASE f # serverSocket
    BY <1>1, <1>7, <2>1, <2>3 DEF IsReady
  <2> QED
    BY <2>2, <2>3
<1>9. Position'
  BY <1>1, <1>7 DEF Position, Loop
<1> QED
  BY <1>4, <1>5, <1>6, <1>8, <1>9

----------------------------------------------------------------------------
LEMMA StutterIInv ==
  ASSUME IInv, UNCHANGED vars
  PROVE  IInv'
<1> USE DEF IInv, vars, fds, net
<1>1. TypeOK' /\ WatchesOpen' /\ Tables'
  BY DEF TypeOK, NetTypeOK, WatchesOpen, Selects, Tables, IsOpen
<1>2. ReadyHolds' /\ Position'
  BY DEF ReadyHolds, IsReady, Backlog, Readable, Position, Loop
<1> QED
  BY <1>1, <1>2

LEMMA Inductive == Spec => []IInv
<1>1. IInv /\ [Next]_vars => IInv'
  BY WaitIInv, HandleIInv, AcceptIInv, ReadIInv, ReadErrorIInv, ReadEndIInv, EchoIInv,
     KilledIInv, ClientIInv, StutterIInv DEF Next, Server
<1> QED
  BY InitIInv, <1>1, PTL DEF Spec

\* Every variable of the servers keeps its type.
THEOREM TypeCorrect == Spec => []TypeOK
<1>1. IInv => TypeOK
  BY DEF IInv
<1> QED
  BY <1>1, Inductive, PTL

\* The descriptors the server watches are those that are open, whatever numbers it was given
\* again, and none of them is above what select() looks at.
THEOREM WatchCorrect == Spec => []WatchesOpen
<1>1. IInv => WatchesOpen
  BY DEF IInv
<1> QED
  BY <1>1, Inductive, PTL

\* The thread of a server that reads once per event blocks in select() or epoll_wait() only.
THEOREM OnlyWaits == Spec => []WaitsForEventsOnly
<1>1. IInv => WaitsForEventsOnly
  BY DEF IInv, WaitsForEventsOnly, NeverBlocks, ReadyHolds, Position
<1> QED
  BY <1>1, Inductive, PTL
----------------------------------------------------------------------------
(***************************************************************************)
(* The servers as echo services.                                           *)
(***************************************************************************)

Status ==
  [c \in Conns |->
    IF c \in served /\ ~IsOpen(c) THEN "closed"
    ELSE IF peer[c] = "none" THEN "none"
    ELSE IF peer[c] = "up" THEN "open" ELSE "left"]
Echoed == [c \in Conns |-> sent[c] - inbox[c]]
Running == server # "dead"

LEMMA ServiceVars ==
  /\ Service!vars = <<Status, sent, Echoed, Running>>
  /\ Service!Init <=> /\ Status = [c \in Conns |-> "none"]
                      /\ sent = [c \in Conns |-> 0]
                      /\ Echoed = [c \in Conns |-> 0]
                      /\ Running = TRUE
BY DEF Service!vars, Service!Init, Status, Echoed, Running

LEMMA InitRefines == Init => Service!Init
<1> SUFFICES ASSUME Init PROVE Service!Init
  OBVIOUS
<1>1. Status = [c \in Conns |-> "none"]
  BY DEF Init, NetInit, Status
<1>2. Echoed = [c \in Conns |-> 0] /\ sent = [c \in Conns |-> 0]
  BY DEF Init, NetInit, Echoed
<1>3. Running = TRUE
  BY DEF Init, Running
<1> QED
  BY <1>1, <1>2, <1>3, ServiceVars

\* A step that changes no connection as the service sees it.
LEMMA Unseen ==
  ASSUME UNCHANGED <<fdTable, served, inbox, sent>>,
         \A c \in Conns : /\ peer'[c] = "up" <=> peer[c] = "up"
                          /\ peer'[c] = "none" <=> peer[c] = "none",
         Running' = Running
  PROVE  UNCHANGED Service!vars
<1>1. Status' = Status
  BY DEF Status, IsOpen
<1>2. Echoed' = Echoed
  BY DEF Echoed
<1> QED
  BY <1>1, <1>2 DEF Service!vars, Status, Echoed, Running

LEMMA QuietRefines ==
  ASSUME IInv, Wait \/ LoopDone \/ Handle \/ ReadError \/ EchoData
  PROVE  UNCHANGED Service!vars
<1>1. UNCHANGED <<fdTable, served>>
  BY DEF Wait, LoopDone, Handle, ReadError, EchoData, fds
<1>2. Running' = Running
  BY DEF Wait, LoopDone, Handle, ReadError, EchoData, Continue, Running
<1>3. CASE Wait \/ LoopDone \/ Handle
  <2>1. UNCHANGED <<peer, inbox, sent>>
    BY <1>3 DEF Wait, LoopDone, Handle, net
  <2> QED
    BY <1>1, <1>2, <2>1, Unseen
<1>4. CASE ReadError \/ EchoData
  <2> DEFINE c == fdTable[current]
  <2>1. c \in Conns
    BY <1>4, HandledConn DEF ReadError, EchoData
  <2>2. /\ UNCHANGED <<inbox, sent>>
        /\ peer' = peer
           \/ /\ peer[c] \in {"fin", "reset"}
              /\ \E p \in {"reset", "broken"} : peer' = [peer EXCEPT ![c] = p]
    BY <1>4 DEF ReadError, ReadReset, EchoData, WriteBack, Write, WriteOpen, WriteClosed,
                WriteReset
  <2>3. \A d \in Conns : /\ peer'[d] = "up" <=> peer[d] = "up"
                         /\ peer'[d] = "none" <=> peer[d] = "none"
    BY <2>1, <2>2 DEF IInv, TypeOK, NetTypeOK
  <2> QED
    BY <1>1, <1>2, <2>2, <2>3, Unseen
<1> QED
  BY <1>3, <1>4

\* Accepting changes nothing that the client could see.
LEMMA AcceptRefines ==
  ASSUME IInv, Accept
  PROVE  UNCHANGED Service!vars
<1>1. PICK c \in Backlog, f \in Fds :
        /\ fdTable[f] = NoConn
        /\ fdTable' = [fdTable EXCEPT ![f] = c]
        /\ served' = served \cup {c}
  BY DEF Accept
<1>2. UNCHANGED <<server, peer, inbox, outbox, sent, waiting>>
  BY DEF Accept, net
<1>3. c \in Conns /\ c \notin served
  BY <1>1 DEF Backlog
<1>4. \A d \in Conns : d # c => (IsOpen(d)' <=> IsOpen(d))
  BY <1>1, EventAssumption DEF IInv, TypeOK, IsOpen
<1>5. IsOpen(c)'
  BY <1>1, <1>3 DEF IInv, TypeOK, IsOpen
<1>6. \A d \in Conns : (d \in served' /\ ~IsOpen(d)') <=> (d \in served /\ ~IsOpen(d))
  BY <1>1, <1>3, <1>4, <1>5
<1>7. Status' = Status /\ Echoed' = Echoed /\ Running' = Running
  BY <1>2, <1>6 DEF Status, Echoed, Running
<1> QED
  BY <1>2, <1>7, ServiceVars DEF Service!vars, Status, Echoed, Running

LEMMA OpenStatus ==
  ASSUME IInv, server \in {"read", "write"}
  PROVE  LET c == fdTable[current] IN
         /\ c \in Conns /\ Status[c] = IF peer[c] = "up" THEN "open" ELSE "left"
         /\ Running
<1> DEFINE c == fdTable[current]
<1>1. c \in Conns /\ current \in Fds /\ peer[c] # "none"
  BY HandledConn
<1>2. IsOpen(c)
  BY <1>1 DEF IsOpen
<1> QED
  BY <1>1, <1>2 DEF Status, Running

LEMMA ReadRefines ==
  ASSUME IInv, Read
  PROVE  Service!Next
<1>0. PICK c \in Conns : c = fdTable[current] /\ c # NoConn /\ c \in served
  BY HandledConn DEF Read
<1>1. /\ server = "read" /\ server' = "write" /\ strLen' = Units(c) /\ ReadUnits(c, strLen')
      /\ UNCHANGED <<fdTable, served>>
  BY <1>0 DEF Read, fds
<1>2. c \in Conns /\ Status[c] \in {"open", "left"} /\ Running /\ Running'
  BY <1>0, <1>1, OpenStatus DEF Running
<1>3. strLen' \in Nat /\ 1 <= strLen' /\ strLen' <= inbox[c]
  BY <1>1, <1>2, EventAssumption DEF Units, ReadUnits, IInv, TypeOK, NetTypeOK
<1>4. /\ inbox \in [Conns -> Nat] /\ sent \in [Conns -> Nat]
      /\ inbox' = [inbox EXCEPT ![c] = inbox[c] - strLen'] /\ UNCHANGED <<peer, sent>>
  BY <1>1 DEF ReadUnits, IInv, TypeOK, NetTypeOK
<1>5. Status' = Status
  BY <1>1, <1>4 DEF Status, IsOpen
<1>6. Echoed' = [Echoed EXCEPT ![c] = sent[c] - inbox[c] + strLen']
  <2>1. sent[c] - (inbox[c] - strLen') = sent[c] - inbox[c] + strLen'
    BY <1>3, <1>4
  <2>2. Echoed' = [d \in Conns |-> IF d = c THEN sent[c] - (inbox[c] - strLen') ELSE Echoed[d]]
    BY <1>4 DEF Echoed
  <2> QED
    BY <2>1, <2>2 DEF Echoed
<1>7. sent[c] - inbox[c] + strLen' \in Echoed[c] + 1 .. sent[c]
  BY <1>2, <1>3, <1>4 DEF Echoed
<1>8. Running' = Running
  BY <1>2 DEF Running
<1>9. Service!Echo(c)
  BY <1>2, <1>4, <1>5, <1>6, <1>7, <1>8 DEF Service!Echo, Status, Echoed, Running
<1> QED
  BY <1>2, <1>9 DEF Service!Next

LEMMA ReadEndRefines ==
  ASSUME IInv, ReadEnd
  PROVE  Service!Next
<1>0. PICK c \in Conns : c = fdTable[current] /\ c # NoConn /\ c \in served
  BY HandledConn DEF ReadEnd
<1>1. /\ server = "read" /\ AtEnd(c) /\ fdTable' = [fdTable EXCEPT ![current] = NoConn]
      /\ server' \in {"spin", "loop"} /\ UNCHANGED <<served, peer, inbox, sent>>
  BY <1>0 DEF ReadEnd, Ended, CloseFd, net
<1>2. /\ current \in Fds /\ Status[c] = "left" /\ Running /\ Running'
  BY <1>0, <1>1, HandledConn, OpenStatus DEF AtEnd, Running
<1>3. ~IsOpen(c)' /\ \A d \in Conns : d # c => (IsOpen(d)' <=> IsOpen(d))
  BY <1>0, <1>1, <1>2, EventAssumption DEF IInv, TypeOK, Tables, IsOpen
<1>4. Status' = [Status EXCEPT ![c] = "closed"]
  BY <1>0, <1>1, <1>2, <1>3 DEF Status
<1>5. Echoed' = Echoed /\ Echoed[c] = sent[c]
  BY <1>1, <1>2 DEF Echoed, AtEnd, IInv, TypeOK, NetTypeOK
<1>6. Running' = Running
  BY <1>2 DEF Running
<1>7. Service!Close(c)
  BY <1>1, <1>2, <1>4, <1>5, <1>6 DEF Service!Close, Status, Echoed, Running
<1> QED
  BY <1>2, <1>7 DEF Service!Next

LEMMA KilledRefines ==
  ASSUME IInv, Killed
  PROVE  Service!Next
<1> DEFINE c == fdTable[current]
<1>1. /\ server = "write" /\ peer[c] \in {"reset", "broken"} /\ server' = "dead"
      /\ UNCHANGED <<fdTable, served, peer, inbox, sent>>
  BY DEF Killed, BrokenPipe, fds, net
<1>2. c \in Conns /\ Status[c] = "left"
  BY <1>1, OpenStatus
<1>3. Status' = Status /\ Echoed' = Echoed
  BY <1>1 DEF Status, Echoed, IsOpen
<1>4. Running /\ Running' = FALSE
  BY <1>1 DEF Running
<1>5. Service!Stop
  BY <1>1, <1>2, <1>3, <1>4 DEF Service!Stop, Status, Echoed, Running
<1> QED
  BY <1>5 DEF Service!Next

LEMMA ClientRefines ==
  ASSUME IInv, NEW c \in Conns, Client(c)
  PROVE  Service!Next \/ UNCHANGED Service!vars
<1>1. UNCHANGED <<server, fdTable, served>>
  BY DEF Client, fds
<1>2. /\ peer \in [Conns -> {"none", "up", "fin", "reset", "broken"}]
      /\ inbox \in [Conns -> Nat] /\ sent \in [Conns -> Nat]
  BY DEF IInv, TypeOK, NetTypeOK
<1>3. Running' = Running /\ \A d \in Conns : IsOpen(d)' <=> IsOpen(d)
  BY <1>1 DEF Running, IsOpen
<1>4. peer[c] = "none" => c \notin served
  BY DEF IInv, Tables
<1>5. peer[c] = "up" => ~(c \in served /\ ~IsOpen(c))
  BY DEF IInv, Tables
<1>6. CASE Connect(c)
  <2>1. peer[c] = "none" /\ peer' = [peer EXCEPT ![c] = "up"] /\ UNCHANGED <<inbox, sent>>
    BY <1>6 DEF Connect
  <2>2. Status[c] = "none" /\ Status' = [Status EXCEPT ![c] = "open"]
    BY <1>1, <1>2, <1>3, <1>4, <2>1 DEF Status
  <2>3. Echoed' = Echoed
    BY <2>1 DEF Echoed
  <2>4. Service!Open(c)
    BY <1>3, <2>1, <2>2, <2>3 DEF Service!Open, Status, Echoed, Running
  <2> QED
    BY <2>4 DEF Service!Next
<1>7. CASE Send(c)
  <2>1. PICK n \in 1 .. MaxSent - sent[c] :
          /\ sent' = [sent EXCEPT ![c] = sent[c] + n]
          /\ inbox' = [inbox EXCEPT ![c] = inbox[c] + n]
    BY <1>7 DEF Send
  <2>2. n \in Nat /\ n >= 1 /\ peer[c] = "up" /\ peer' = peer
    BY <1>2, <1>7, <2>1, NetAssumption DEF Send
  <2>3. Status[c] = "open" /\ Status' = Status
    BY <1>1, <1>2, <1>3, <1>5, <2>2 DEF Status
  <2>4. sent' = [sent EXCEPT ![c] = sent'[c]] /\ sent'[c] \in Nat /\ sent'[c] > sent[c]
    BY <1>2, <2>1, <2>2
  <2>5. Echoed' = Echoed
    BY <1>2, <2>1, <2>2 DEF Echoed
  <2>6. Service!Send(c)
    BY <1>3, <2>3, <2>4, <2>5 DEF Service!Send, Status, Echoed, Running
  <2> QED
    BY <2>6 DEF Service!Next
<1>8. CASE Receive(c)
  BY <1>1, <1>3, <1>8, Unseen DEF Receive
<1>9. CASE Quit(c)
  <2>1. /\ peer[c] = "up" /\ UNCHANGED <<inbox, sent>>
        /\ \E p \in {"fin", "reset"} : peer' = [peer EXCEPT ![c] = p]
    BY <1>9 DEF Quit
  <2>2. Status[c] = "open" /\ Status' = [Status EXCEPT ![c] = "left"]
    BY <1>1, <1>2, <1>3, <1>5, <2>1 DEF Status
  <2>3. Echoed' = Echoed
    BY <2>1 DEF Echoed
  <2>4. Service!Leave(c)
    BY <1>3, <2>1, <2>2, <2>3 DEF Service!Leave, Status, Echoed, Running
  <2> QED
    BY <2>4 DEF Service!Next
<1> QED
  BY <1>6, <1>7, <1>8, <1>9 DEF Client

\* Every server is an echo service: it takes each unit once, and closes a connection only
\* after its client has left and all it sent was taken.
THEOREM Refines == Spec => ImplementsService
<1>1. IInv /\ [Next]_vars => [Service!Next]_Service!vars
  <2> SUFFICES ASSUME IInv, [Next]_vars
               PROVE  Service!Next \/ UNCHANGED Service!vars
    OBVIOUS
  <2>1. CASE Next
    BY <2>1, QuietRefines, AcceptRefines, ReadRefines, ReadEndRefines, KilledRefines,
       ClientRefines DEF Next, Server
  <2>2. CASE UNCHANGED vars
    BY <2>2, Unseen DEF vars, fds, net, Running
  <2> QED
    BY <2>1, <2>2
<1> QED
  BY <1>1, InitRefines, Inductive, PTL DEF Spec, ImplementsService, Service!Spec
=============================================================================

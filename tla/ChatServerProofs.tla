-------------------------- MODULE ChatServerProofs --------------------------
(***************************************************************************)
(* Proofs about the chat server of ChatServer, for every number of         *)
(* sessions, descriptors and chunks: clientCnt is the number of sessions   *)
(* entered and not removed, so clientSockets is left only when as many     *)
(* sessions as it has entries are entered and not removed, and all clients *)
(* see the broadcasts in the same order.  Both hold whichever descriptors  *)
(* the threads read.  As long as the threads read the right ones, the      *)
(* registry holds the descriptors of the sessions in progress, no client   *)
(* misses a broadcast between two that it sees, and the server is the chat *)
(* room of ChatRoom.                                                       *)
(***************************************************************************)
EXTENDS ChatServer, FiniteSetTheorems, TLAPS

\* Sessions begin with accept(): a thread, or main's work for one, has a past.
Begun ==
  \A c \in Sessions :
    /\ thread[c] # "none" => own[c] # NoFd \/ peer[c] = "failed"
    /\ c = current => own[c] # NoFd \/ peer[c] = "failed"
    /\ own[c] # NoFd => peer[c] \notin {"none", "failed"}

\* The session main works on has no thread yet.
Pending ==
  main \in {"register", "create"} => current \in Sessions /\ thread[current] = "none"

\* What was written to a connection are broadcasts so far, in order.
Ordered ==
  \A c \in Sessions :
    /\ \A k \in DOMAIN stream[c] : stream[c][k] <= broadcasts
    /\ \A k, l \in DOMAIN stream[c] : k < l => stream[c][k] <= stream[c][l]

\* The thread whose writes are under way holds the mutex, and its broadcast is the latest.
Exclusive == \A c \in Sessions : thread[c] = "send" => mutex = c /\ number[c] = broadcasts

\* clientCnt stays in the array; main went beyond it only from a full one, and the server with it.
InArray ==
  /\ clientCnt <= MAX_CLNT
  /\ main = "overrun" => clientCnt = MAX_CLNT /\ ~alive

IInv == TypeOK /\ Begun /\ Pending /\ CountIsSessions /\ InArray /\ Ordered /\ Exclusive

----------------------------------------------------------------------------
\* The sessions in progress are finitely many, no more than there are sessions.
LEMMA OpenFinite ==
  /\ IsFiniteSet(OpenSessions)
  /\ Cardinality(OpenSessions) \in Nat
  /\ Cardinality(OpenSessions) <= Cardinality(Sessions)
<1>1. OpenSessions \in SUBSET Sessions
  BY DEF OpenSessions
<1>2. IsFiniteSet(OpenSessions) /\ Cardinality(OpenSessions) <= Cardinality(Sessions)
  BY <1>1, FS_Subset, ChatAssumption
<1> QED
  BY <1>2, FS_CardinalityType

\* The connection a descriptor is open on is one of the sessions.
LEMMA OpenOnType ==
  ASSUME TypeOK, NEW f
  PROVE  OpenOn(f) \in Sessions \cup {NoSession}
BY DEF TypeOK, OpenOn

\* Appending the current broadcast keeps a stream in order.
LEMMA OrderedAppend ==
  ASSUME TypeOK, Ordered, NEW d \in Sessions,
         stream' = [stream EXCEPT ![d] = Append(@, broadcasts)], broadcasts' = broadcasts
  PROVE  Ordered' /\ stream' \in [Sessions -> Seq(Nat)]
<1>1. stream[d] \in Seq(Nat) /\ broadcasts \in Nat
  BY DEF TypeOK
<1>2. stream' \in [Sessions -> Seq(Nat)]
  BY <1>1 DEF TypeOK
<1>3. ASSUME NEW c \in Sessions
      PROVE  /\ \A k \in DOMAIN stream'[c] : stream'[c][k] <= broadcasts'
             /\ \A k, l \in DOMAIN stream'[c] : k < l => stream'[c][k] <= stream'[c][l]
  <2>1. CASE c # d
    <3>1. stream'[c] = stream[c]
      BY <2>1 DEF TypeOK
    <3> QED
      BY <3>1 DEF Ordered
  <2>2. CASE c = d
    <3>1. stream'[c] = Append(stream[c], broadcasts)
      BY <2>2 DEF TypeOK
    <3>2. DOMAIN stream'[c] = 1 .. Len(stream[c]) + 1 /\ DOMAIN stream[c] = 1 .. Len(stream[c])
      BY <1>1, <2>2, <3>1
    <3>3. /\ \A k \in 1 .. Len(stream[c]) : stream'[c][k] = stream[c][k]
          /\ stream'[c][Len(stream[c]) + 1] = broadcasts
      BY <1>1, <2>2, <3>1
    <3>4. Len(stream[c]) \in Nat
      BY <1>1, <2>2
    <3>5. /\ \A k \in 1 .. Len(stream[c]) : stream[c][k] <= broadcasts
          /\ \A k, l \in 1 .. Len(stream[c]) : k < l => stream[c][k] <= stream[c][l]
      BY <3>2 DEF Ordered
    <3> QED
      BY <1>1, <3>2, <3>3, <3>4, <3>5
  <2> QED
    BY <2>1, <2>2
<1> QED
  BY <1>2, <1>3 DEF Ordered

----------------------------------------------------------------------------
\* The server starts in the invariant.
LEMMA InitIInv == Init => IInv
<1> SUFFICES ASSUME Init PROVE IInv
  OBVIOUS
<1>1. TypeOK
  <2>1. /\ clientSockets \in [Slots -> Fds \cup {NoFd, 0}]
        /\ thread \in [Sessions -> Jobs]
        /\ sock \in [Sessions -> Fds \cup {NoFd, 0}]
        /\ source \in [Sessions -> Sessions \cup {NoSession}]
        /\ own \in [Sessions -> Fds \cup {NoFd}]
        /\ fdTable \in [Fds -> Sessions \cup {NoSession}]
        /\ peer \in [Sessions -> {"none", "up", "fin", "reset", "broken", "failed"}]
        /\ inbox \in [Sessions -> Nat]
        /\ outbox \in [Sessions -> Nat]
    BY DEF Init, Jobs
  <2>2. stream \in [Sessions -> Seq(Nat)]
    BY DEF Init
  <2>3. alive \in BOOLEAN
    BY DEF Init
  <2> QED
    BY <2>1, <2>2, <2>3 DEF Init, TypeOK
<1>2. Begun /\ Pending
  BY ChatAssumption DEF Init, Begun, Pending
<1>3. OpenSessions = {}
  BY DEF Init, OpenSessions
<1>4. CountIsSessions
  <2>1. Cardinality(OpenSessions) = 0
    BY <1>3, FS_EmptySet
  <2> QED
    BY <2>1 DEF Init, CountIsSessions
<1>5. Ordered /\ Exclusive
  BY DEF Init, Ordered, Exclusive
<1>6. InArray
  BY ChatAssumption DEF Init, InArray
<1> QED
  BY <1>1, <1>2, <1>4, <1>5, <1>6 DEF IInv

\* Steps that neither enter nor remove a session nor write to a client.
LEMMA QuietIInv ==
  ASSUME IInv, TypeOK', Begun', Pending', Exclusive', OpenSessions' = OpenSessions,
         UNCHANGED clientCnt, UNCHANGED stream,
         main' = main \/ main' # "overrun", alive' = alive \/ alive' = FALSE,
         broadcasts' = broadcasts \/ broadcasts' = broadcasts + 1
  PROVE  IInv'
<1>1. CountIsSessions'
  BY DEF IInv, CountIsSessions
<1>2. Ordered'
  <2> SUFFICES ASSUME NEW c \in Sessions, NEW k \in DOMAIN stream[c]
               PROVE  stream[c][k] <= broadcasts'
    BY DEF IInv, Ordered
  <2>1. stream[c][k] <= broadcasts /\ broadcasts \in Nat
    BY DEF IInv, Ordered, TypeOK
  <2>2. stream[c] \in Seq(Nat)
    BY DEF IInv, TypeOK
  <2>3. stream[c][k] \in Nat
    BY <2>2
  <2> QED
    BY <2>1, <2>3
<1>3. InArray'
  BY DEF IInv, InArray
<1> QED
  BY <1>1, <1>2, <1>3 DEF IInv

----------------------------------------------------------------------------
(***************************************************************************)
(* The steps of the main thread.                                           *)
(***************************************************************************)

\* accept() returns: a session begins, which is not entered yet.
LEMMA AcceptIInv ==
  ASSUME IInv, NEW c \in Sessions, Accept(c) \/ AcceptFails(c)
  PROVE  IInv'
<1> USE DEF IInv
<1>1. /\ main = "accept" /\ main' = "register" /\ current' = c
      /\ UNCHANGED <<clientCnt, thread, stream, broadcasts, alive>>
  BY DEF Accept, AcceptFails, registry, history
<1>2. thread[c] = "none"
  BY DEF Accept, AcceptFails, Begun
<1>3. TypeOK'
  <2>1. CASE Accept(c)
    <3>1. PICK f \in Fds : /\ fdTable' = [fdTable EXCEPT ![f] = c]
                           /\ own' = [own EXCEPT ![c] = f]
                           /\ clientSocket' = f
      BY <2>1 DEF Accept, FreeFds
    <3> QED
      BY <2>1, <3>1 DEF Accept, TypeOK, registry, history
  <2>2. CASE AcceptFails(c)
    BY <2>2 DEF AcceptFails, TypeOK, registry, history
  <2> QED
    BY <2>1, <2>2
<1>4. Begun'
  <2>1. CASE Accept(c)
    <3>1. PICK f \in Fds : own' = [own EXCEPT ![c] = f]
      BY <2>1 DEF Accept, FreeFds
    <3>2. f # NoFd
      BY ChatAssumption DEF NoFd
    <3> QED
      BY <1>1, <2>1, <3>1, <3>2 DEF Accept, Begun, TypeOK
  <2>2. CASE AcceptFails(c)
    BY <1>1, <2>2 DEF AcceptFails, Begun, TypeOK
  <2> QED
    BY <2>1, <2>2
<1>5. Pending'
  BY <1>1, <1>2 DEF Pending
<1>6. OpenSessions' = OpenSessions
  BY <1>1 DEF OpenSessions
<1>7. Exclusive'
  BY DEF Accept, AcceptFails, Exclusive, history
<1> QED
  BY <1>1, <1>3, <1>4, <1>5, <1>6, <1>7, QuietIInv

\* One session more is entered and counted.
LEMMA RegisterIInv == ASSUME IInv, Register PROVE IInv'
<1> USE DEF IInv
<1>1. /\ main = "register" /\ main' = "create"
      /\ clientCnt < MAX_CLNT /\ clientCnt' = clientCnt + 1
      /\ UNCHANGED <<current, thread, own, peer, stream, broadcasts>>
  BY DEF Register, network, history
<1>2. current \in Sessions /\ thread[current] = "none"
  BY <1>1 DEF Pending
<1>3. TypeOK'
  <2>1. clientSockets' \in [Slots -> Fds \cup {NoFd, 0}]
    BY DEF Register, TypeOK
  <2> QED
    BY <2>1 DEF Register, TypeOK, network, history
<1>4. Begun' /\ Pending' /\ Ordered' /\ Exclusive'
  BY <1>1, <1>2 DEF Register, Begun, Pending, Ordered, Exclusive, history
<1>5. OpenSessions' = OpenSessions \cup {current} /\ current \notin OpenSessions
  BY <1>1, <1>2 DEF OpenSessions
<1>6. Cardinality(OpenSessions') = Cardinality(OpenSessions) + 1
  BY <1>5, OpenFinite, FS_AddElement
<1>7. CountIsSessions'
  BY <1>1, <1>6 DEF CountIsSessions
<1>8. InArray'
  BY <1>1, ChatAssumption DEF InArray, TypeOK
<1> QED
  BY <1>3, <1>4, <1>7, <1>8

\* From a full registry main writes behind it: nothing of what is modelled is changed before.
LEMMA OverrunIInv == ASSUME IInv, Overrun PROVE IInv'
<1> USE DEF IInv
<1>1. /\ main' = "overrun" /\ clientCnt >= MAX_CLNT /\ alive' = FALSE
      /\ UNCHANGED <<clientCnt, clientSockets, clientSocket, current, mutex, pos, thread, sock,
                     source, own, network, history>>
  BY DEF Overrun, registry
<1>2. TypeOK'
  BY <1>1 DEF TypeOK, network, history
<1>3. Begun' /\ Pending' /\ Ordered' /\ Exclusive'
  BY <1>1 DEF Begun, Pending, Ordered, Exclusive, network, history
<1>4. CountIsSessions'
  <2>1. main # "create"
    BY DEF Overrun
  <2>2. OpenSessions' = OpenSessions
    BY <1>1, <2>1 DEF OpenSessions
  <2> QED
    BY <1>1, <2>2 DEF CountIsSessions
<1>5. InArray'
  BY <1>1, ChatAssumption DEF InArray, TypeOK
<1> QED
  BY <1>2, <1>3, <1>4, <1>5

\* The session passes from main to its thread.
LEMMA CreateIInv == ASSUME IInv, Create PROVE IInv'
<1> USE DEF IInv
<1>1. /\ main = "create" /\ main' = "accept" /\ current' = NoSession
      /\ thread' = [thread EXCEPT ![current] = "start"]
      /\ UNCHANGED <<clientCnt, own, peer, stream, broadcasts, alive>>
  BY DEF Create, registry, network, history
<1>2. current \in Sessions /\ thread[current] = "none"
  BY <1>1 DEF Pending
<1>3. TypeOK'
  BY <1>1, <1>2 DEF Create, TypeOK, Jobs, registry, network, history
<1>4. Begun' /\ Pending'
  BY <1>1, <1>2, ChatAssumption DEF Begun, Pending, TypeOK
<1>5. OpenSessions' = OpenSessions
  BY <1>1, <1>2, ChatAssumption DEF OpenSessions, TypeOK
<1>6. Exclusive'
  BY <1>1, <1>2 DEF Create, Exclusive, TypeOK, history
<1> QED
  BY <1>1, <1>3, <1>4, <1>5, <1>6, QuietIInv

----------------------------------------------------------------------------
(***************************************************************************)
(* The steps of the threads and the clients.                               *)
(***************************************************************************)

\* A thread that goes on to another part of its session leaves the session open.
LEMMA AdvanceIInv ==
  ASSUME IInv, TypeOK', Exclusive', NEW c \in Sessions,
         thread[c] \in {"start", "issue", "read", "lock", "send"},
         NEW j \in {"issue", "read", "lock", "send", "remove"},
         thread' = [thread EXCEPT ![c] = j],
         UNCHANGED <<clientCnt, stream, main, current, own, alive>>,
         \/ peer' = peer
         \/ \E d \in Sessions : peer[d] = "reset" /\ peer' = [peer EXCEPT ![d] = "broken"],
         broadcasts' = broadcasts \/ broadcasts' = broadcasts + 1
  PROVE  IInv'
<1> USE DEF IInv
<1>1. Begun'
  BY DEF Begun, TypeOK
<1>2. Pending'
  BY DEF Pending, TypeOK
<1>3. OpenSessions' = OpenSessions
  BY DEF OpenSessions, TypeOK
<1> QED
  BY <1>1, <1>2, <1>3, QuietIInv

LEMMA StartIInv == ASSUME IInv, NEW c \in Sessions, Start(c) PROVE IInv'
<1>1. TypeOK'
  BY DEF IInv, Start, TypeOK, Jobs, registry, mainVars, network, history
<1>3. Exclusive'
  BY DEF IInv, Start, Exclusive, TypeOK, history
<1> QED
  BY <1>1, <1>3, AdvanceIInv DEF Start, registry, mainVars, network, history

LEMMA IssueIInv == ASSUME IInv, NEW c \in Sessions, Issue(c) PROVE IInv'
<1>1. OpenOn(sock[c]) \in Sessions \cup {NoSession}
  BY OpenOnType DEF IInv
<1>2. TypeOK'
  BY <1>1 DEF IInv, Issue, TypeOK, Jobs, registry, mainVars, network, history
<1>3. Exclusive'
  BY DEF IInv, Issue, Exclusive, TypeOK, history
<1> QED
  BY <1>2, <1>3, AdvanceIInv DEF Issue, registry, mainVars, network, history

LEMMA ReadIInv == ASSUME IInv, NEW c \in Sessions, Read(c) PROVE IInv'
<1>1. inbox' \in [Sessions -> Nat]
  <2>1. PICK k \in 1 .. inbox[source[c]] : inbox' = [inbox EXCEPT ![source[c]] = @ - k]
    BY DEF Read
  <2>2. ASSUME NEW d \in Sessions PROVE inbox'[d] \in Nat
    <3>1. inbox[d] \in Nat /\ inbox \in [Sessions -> Nat]
      BY DEF IInv, TypeOK
    <3>2. CASE d = source[c]
      BY <2>1, <3>1, <3>2
    <3>3. CASE d # source[c]
      BY <2>1, <3>1, <3>3
    <3> QED
      BY <3>2, <3>3
  <2> QED
    BY <2>1, <2>2 DEF IInv, TypeOK
<1>2. TypeOK'
  BY <1>1 DEF IInv, Read, TypeOK, Jobs, registry, mainVars, history
<1>3. Exclusive'
  BY DEF IInv, Read, Exclusive, TypeOK, history
<1> QED
  BY <1>2, <1>3, AdvanceIInv DEF Read, registry, mainVars, history

LEMMA ReadEndIInv == ASSUME IInv, NEW c \in Sessions, ReadEnd(c) PROVE IInv'
<1>1. TypeOK'
  BY DEF IInv, ReadEnd, TypeOK, Jobs, registry, mainVars, network, history
<1>3. Exclusive'
  BY DEF IInv, ReadEnd, Exclusive, TypeOK, history
<1> QED
  BY <1>1, <1>3, AdvanceIInv DEF ReadEnd, registry, mainVars, network, history

LEMMA LockIInv == ASSUME IInv, NEW c \in Sessions, Lock(c) PROVE IInv'
<1>1. TypeOK'
  BY DEF IInv, Lock, MutexFree, TypeOK, Jobs, registry, mainVars, network
<1>2. \A d \in Sessions : thread[d] # "send"
  BY ChatAssumption DEF IInv, Lock, MutexFree, Exclusive
<1>3. Exclusive'
  BY <1>2 DEF IInv, Lock, MutexFree, Exclusive, TypeOK
<1> QED
  BY <1>1, <1>3, AdvanceIInv DEF Lock, MutexFree, registry, mainVars, network

LEMMA UnlockIInv == ASSUME IInv, NEW c \in Sessions, Unlock(c) PROVE IInv'
<1>1. TypeOK'
  BY DEF IInv, Unlock, Release, TypeOK, Jobs, registry, mainVars, network, history
<1>2. \A d \in Sessions : d # c => thread[d] # "send"
  BY DEF IInv, Unlock, Release, Exclusive
<1>3. Exclusive'
  BY <1>2 DEF IInv, Unlock, Release, Exclusive, TypeOK
<1> QED
  BY <1>1, <1>3, AdvanceIInv DEF Unlock, Release, registry, mainVars, network

LEMMA ReadErrorIInv == ASSUME IInv, NEW c \in Sessions, ReadError(c) PROVE IInv'
<1>1. TypeOK'
  BY DEF IInv, ReadError, TypeOK, Jobs, registry, mainVars, history
<1>2. \/ peer' = peer
      \/ \E d \in Sessions : peer[d] = "reset" /\ peer' = [peer EXCEPT ![d] = "broken"]
  <2>1. CASE source[c] \in Sessions
    BY <2>1 DEF ReadError
  <2>2. CASE source[c] \notin Sessions
    BY <2>2 DEF ReadError, IInv, TypeOK
  <2> QED
    BY <2>1, <2>2
<1>3. Exclusive'
  BY DEF IInv, ReadError, Exclusive, TypeOK, history
<1> QED
  BY <1>1, <1>2, <1>3, AdvanceIInv DEF ReadError, registry, mainVars, history

\* A write appends the current broadcast, which is the latest.
LEMMA WriteIInv ==
  ASSUME IInv, NEW c \in Sessions, Write(c) \/ WriteClosed(c)
  PROVE  IInv'
<1> USE DEF IInv
<1>1. Target(c) \in Sessions
  BY OpenOnType DEF Write, WriteClosed, Target
<1>2. /\ stream' = [stream EXCEPT ![Target(c)] = Append(@, number[c])]
      /\ number[c] = broadcasts
      /\ UNCHANGED <<clientCnt, main, current, thread, own, broadcasts>>
  BY DEF Write, WriteClosed, Exclusive, registry, mainVars
<1>3. Ordered' /\ stream' \in [Sessions -> Seq(Nat)]
  BY <1>1, <1>2, OrderedAppend
<1>7. alive' \in BOOLEAN
  BY DEF Write, WriteClosed, TypeOK
<1>8. UNCHANGED <<registry, mainVars, mutex, thread, sock, source, own, fdTable, inbox,
                  chunks, broadcasts, number>>
  BY DEF Write, WriteClosed
<1>10. pos' \in [Sessions -> Nat]
  <2>1. pos \in [Sessions -> Nat] /\ pos' = [pos EXCEPT ![c] = @ + 1]
    BY DEF Write, WriteClosed, TypeOK
  <2> QED
    BY <2>1
<1>4. TypeOK' /\ Begun'
  <2>1. CASE Write(c)
    <3>1. outbox' \in [Sessions -> Nat]
      <4>1. outbox \in [Sessions -> Nat] /\ outbox' = [outbox EXCEPT ![Target(c)] = @ + 1]
        BY <2>1 DEF Write, TypeOK
      <4> QED
        BY <1>1, <4>1
    <3>2. UNCHANGED peer
      BY <2>1 DEF Write
    <3> QED
      BY <1>3, <1>7, <1>8, <1>10, <3>1, <3>2 DEF TypeOK, Begun, registry, mainVars
  <2>2. CASE WriteClosed(c)
    <3>1. peer' = peer \/ peer' = [peer EXCEPT ![Target(c)] = "reset"]
      BY <2>2 DEF WriteClosed
    <3>2. peer[Target(c)] = "fin"
      BY <2>2 DEF WriteClosed
    <3>3. peer' \in [Sessions -> {"none", "up", "fin", "reset", "broken", "failed"}]
      BY <3>1 DEF TypeOK
    <3>4. TypeOK'
      <4>1. UNCHANGED outbox
        BY <2>2 DEF WriteClosed
      <4> QED
        BY <1>3, <1>7, <1>8, <1>10, <3>3, <4>1 DEF TypeOK, registry, mainVars
    <3> QED
      BY <1>1, <1>2, <3>1, <3>2, <3>4 DEF Begun, TypeOK
  <2> QED
    BY <2>1, <2>2
<1>5. Pending'
  BY <1>2 DEF Pending
<1>6. CountIsSessions'
  BY <1>2 DEF CountIsSessions, OpenSessions
<1>9. Exclusive'
  BY <1>8 DEF Exclusive
<1>11. InArray'
  BY <1>2 DEF Write, WriteClosed, InArray
<1> QED
  BY <1>3, <1>4, <1>5, <1>6, <1>9, <1>11

\* Steps that change neither the sessions in progress nor what was written: failing writes,
\* the end of the process, the closing of a descriptor and the clients' own steps.
LEMMA AsideIInv ==
  ASSUME IInv, TypeOK', UNCHANGED <<clientCnt, mutex, history, main, current, own>>,
         alive' = alive \/ alive' = FALSE,
         thread' = thread \/ \E c \in Sessions :
           thread[c] = "close" /\ thread' = [thread EXCEPT ![c] = "done"],
         \A c \in Sessions :
           \/ peer'[c] = peer[c]
           \/ peer[c] = "none" /\ own[c] = NoFd
           \/ peer[c] \notin {"none", "failed"} /\ peer'[c] \notin {"none", "failed"},
         \A c \in Sessions : peer[c] = "failed" => peer'[c] = "failed"
  PROVE  IInv'
<1> USE DEF IInv
<1>1. Begun'
  BY DEF Begun, TypeOK
<1>2. Pending'
  BY DEF Pending, TypeOK
<1>3. OpenSessions' = OpenSessions
  BY DEF OpenSessions, TypeOK
<1>4. Exclusive'
  BY DEF Exclusive, TypeOK, history
<1> QED
  BY <1>1, <1>2, <1>3, <1>4, QuietIInv DEF history

LEMMA WriteFailsIInv ==
  ASSUME IInv, NEW c \in Sessions, WriteFails(c) \/ WriteKills(c)
  PROVE  IInv'
<1>1. \/ peer' = peer
      \/ peer[Target(c)] = "reset" /\ peer' = [peer EXCEPT ![Target(c)] = "broken"]
  BY DEF WriteFails, WriteKills, network
<1>2. peer' \in [Sessions -> {"none", "up", "fin", "reset", "broken", "failed"}]
  BY <1>1 DEF IInv, TypeOK
<1>3. alive' \in BOOLEAN
  BY DEF WriteFails, WriteKills, IInv, TypeOK
<1>7. pos' \in [Sessions -> Nat]
  <2>1. pos \in [Sessions -> Nat] /\ (pos' = pos \/ pos' = [pos EXCEPT ![c] = @ + 1])
    BY DEF WriteFails, WriteKills, IInv, TypeOK
  <2> QED
    BY <2>1
<1>4. /\ UNCHANGED <<registry, mainVars, mutex, thread, sock, source, own, fdTable, inbox, outbox,
                     chunks, history>>
      /\ alive' = alive \/ alive' = FALSE
  BY DEF WriteFails, WriteKills, network
<1>5. TypeOK'
  BY <1>2, <1>3, <1>4, <1>7 DEF IInv, TypeOK, registry, mainVars, history
<1>6. \A d \in Sessions : \/ peer'[d] = peer[d]
                          \/ peer[d] = "reset" /\ peer'[d] = "broken"
  BY <1>1 DEF IInv, TypeOK
<1> QED
  BY <1>4, <1>5, <1>6, AsideIInv DEF registry, mainVars, history

\* One session is removed and counted down, whatever descriptor its thread uses.
LEMMA RemoveIInv == ASSUME IInv, NEW c \in Sessions, Remove(c) PROVE IInv'
<1> USE DEF IInv
<1>1. /\ thread[c] = "remove" /\ thread' = [thread EXCEPT ![c] = "close"]
      /\ clientCnt' = clientCnt - 1
      /\ alive
      /\ UNCHANGED <<mainVars, mutex, pos, sock, source, own, network, history, alive>>
  BY DEF Remove, GapClosed, CountDown
<1>2. c \in OpenSessions
  BY <1>1 DEF OpenSessions
<1>3. OpenSessions' = OpenSessions \ {c}
  BY <1>1 DEF OpenSessions, Pending, TypeOK, mainVars
<1>4. Cardinality(OpenSessions') = Cardinality(OpenSessions) - 1
  BY <1>2, <1>3, OpenFinite, FS_RemoveElement
<1>5. CountIsSessions'
  BY <1>1, <1>4 DEF CountIsSessions
<1>6. clientCnt' \in Nat
  <2>1. Cardinality(OpenSessions) # 0
    BY <1>2, OpenFinite, FS_EmptySet
  <2> QED
    BY <1>1, <2>1, OpenFinite DEF CountIsSessions
<1>7. clientSockets' \in [Slots -> Fds \cup {NoFd, 0}]
  <2>1. clientCnt <= MAX_CLNT
    BY DEF InArray
  <2>2. CASE UNCHANGED clientSockets
    BY <2>2 DEF TypeOK
  <2>3. ASSUME NEW k \in 0 .. clientCnt - 1,
               clientSockets' = [l \in Slots |->
                 IF k <= l /\ l < clientCnt - 1 THEN clientSockets[l + 1] ELSE clientSockets[l]]
        PROVE  clientSockets' \in [Slots -> Fds \cup {NoFd, 0}]
    <3>1. \A l \in Slots : l < clientCnt - 1 => l + 1 \in Slots
      BY <2>1, ChatAssumption DEF Slots, TypeOK
    <3> QED
      BY <2>3, <3>1 DEF TypeOK
  <2> QED
    BY <2>2, <2>3 DEF Remove, GapClosed, CountDown
<1>8. TypeOK'
  BY <1>1, <1>6, <1>7 DEF TypeOK, Jobs, mainVars, network, history
<1>9. Begun' /\ Pending' /\ Ordered' /\ Exclusive'
  BY <1>1 DEF Begun, Pending, Ordered, Exclusive, TypeOK, mainVars, network, history
<1>10. InArray'
  BY <1>1, ChatAssumption DEF InArray, TypeOK, mainVars
<1> QED
  BY <1>5, <1>8, <1>9, <1>10

LEMMA CloseIInv == ASSUME IInv, NEW c \in Sessions, Close(c) PROVE IInv'
<1>1. fdTable' \in [Fds -> Sessions \cup {NoSession}]
  BY DEF Close, IInv, TypeOK
<1>2. TypeOK'
  BY <1>1 DEF Close, IInv, TypeOK, Jobs, registry, mainVars, history
<1> QED
  BY <1>2, AsideIInv DEF Close, registry, mainVars, history

\* Clients come, write, read and leave.
LEMMA ClientIInv == ASSUME IInv, NEW c \in Sessions, Client(c) PROVE IInv'
<1>1. UNCHANGED <<registry, mainVars, mutex, pos, thread, sock, source, own, fdTable,
                  history, alive>>
  BY DEF Client, Connect, Send, Receive, Quit
<1>2. /\ inbox' \in [Sessions -> Nat]
      /\ outbox' \in [Sessions -> Nat]
      /\ chunks' \in Nat
  <2>5. inbox \in [Sessions -> Nat] /\ outbox \in [Sessions -> Nat] /\ chunks \in Nat
    BY DEF IInv, TypeOK
  <2>1. CASE Connect(c)
    BY <2>1, <2>5 DEF Connect
  <2>2. CASE Send(c)
    BY <2>2, <2>5 DEF Send
  <2>3. CASE Receive(c)
    BY <2>3, <2>5 DEF Receive
  <2>4. CASE Quit(c)
    BY <2>4, <2>5 DEF Quit
  <2> QED
    BY <2>1, <2>2, <2>3, <2>4 DEF Client
<1>3. peer' \in {peer, [peer EXCEPT ![c] = "up"], [peer EXCEPT ![c] = "fin"],
                 [peer EXCEPT ![c] = "reset"]}
  BY DEF Client, Connect, Send, Receive, Quit
<1>4. TypeOK'
  BY <1>1, <1>2, <1>3 DEF IInv, TypeOK, registry, mainVars, history
<1>5. \A d \in Sessions : d # c => peer'[d] = peer[d]
  BY <1>3 DEF IInv, TypeOK
<1>6. \/ peer'[c] = peer[c]
      \/ peer[c] = "none" /\ own[c] = NoFd
      \/ peer[c] = "up" /\ peer'[c] \in {"fin", "reset"}
  BY DEF Client, Connect, Send, Receive, Quit, IInv, TypeOK, Begun
<1> QED
  BY <1>1, <1>4, <1>5, <1>6, AsideIInv DEF registry, mainVars, history

----------------------------------------------------------------------------
(***************************************************************************)
(* The theorems.                                                           *)
(***************************************************************************)

\* Every reachable state of the server satisfies the inductive invariant.
THEOREM Invariance == Spec => []IInv
<1>1. Init => IInv
  BY InitIInv
<1>2. IInv /\ [Next]_vars => IInv'
  <2> SUFFICES ASSUME IInv, [Next]_vars PROVE IInv'
    OBVIOUS
  <2>1. CASE Main
    BY <2>1, AcceptIInv, RegisterIInv, OverrunIInv, CreateIInv DEF Main
  <2>2. CASE \E c \in Sessions : Thread(c)
    BY <2>2, StartIInv, IssueIInv, ReadIInv, ReadEndIInv, ReadErrorIInv, LockIInv, WriteIInv,
       WriteFailsIInv, UnlockIInv, RemoveIInv, CloseIInv
    DEF Thread
  <2>3. CASE \E c \in Sessions : Client(c)
    BY <2>3, ClientIInv
  <2>4. CASE UNCHANGED vars
    <3>1. TypeOK'
      BY <2>4 DEF vars, registry, mainVars, network, history, IInv, TypeOK
    <3> QED
      BY <2>4, <3>1, AsideIInv DEF vars, registry, mainVars, network, history
  <2> QED
    BY <2>1, <2>2, <2>3, <2>4 DEF Next
<1> QED
  BY <1>1, <1>2, PTL DEF Spec

\* Every variable keeps its type.
THEOREM TypeCorrect == Spec => []TypeOK
<1>1. IInv => TypeOK
  BY DEF IInv
<1> QED
  BY <1>1, Invariance, PTL

\* clientCnt is the number of sessions entered and not removed, whichever descriptor a thread
\* found at the address it was given.
THEOREM CountCorrect == Spec => []CountIsSessions
<1>1. IInv => CountIsSessions
  BY DEF IInv
<1> QED
  BY <1>1, Invariance, PTL

\* clientSockets is left only when there is no entry free in it: when as many sessions as it
\* has entries are entered and not removed, and one more is.
THEOREM InBounds ==
  Spec => [](clientCnt \in 0 .. MAX_CLNT /\ (main = "overrun" => Cardinality(OpenSessions) = MAX_CLNT))
<1>1. IInv => clientCnt \in 0 .. MAX_CLNT /\ (main = "overrun" => Cardinality(OpenSessions) = MAX_CLNT)
  BY ChatAssumption DEF IInv, TypeOK, InArray, CountIsSessions
<1> QED
  BY <1>1, Invariance, PTL

\* All clients see the broadcasts in the same order.
THEOREM OrderCorrect == Spec => []SameOrder
<1>1. IInv => SameOrder
  BY DEF IInv, Ordered, SameOrder
<1> QED
  BY <1>1, Invariance, PTL

----------------------------------------------------------------------------
(***************************************************************************)
(* The registry and the sessions, while every thread has its descriptor.   *)
(***************************************************************************)

\* What main is about to enter is the descriptor accept() returned.
HandedOver == main = "register" => current \in Sessions /\ clientSocket = own[current]

\* A thread that has read has a descriptor.
Reading ==
  \A c \in Sessions :
    thread[c] \in {"read", "lock", "send", "remove", "close", "done"} => sock[c] \in Fds

Entries == 0 .. clientCnt - 1

\* The registry and the sessions in progress correspond to each other; no descriptor is
\* entered twice, and one that accept() returned stays open on its connection until the
\* session's thread has closed it.
Matched ==
  /\ \A k \in Entries : \E c \in OpenSessions : clientSockets[k] = own[c]
  /\ \A c \in OpenSessions : \E k \in Entries : clientSockets[k] = own[c]
  /\ \A k, l \in Entries :
       clientSockets[k] = clientSockets[l] /\ clientSockets[k] \in Fds => k = l
  /\ \A c \in Sessions : own[c] \in Fds /\ thread[c] # "done" => fdTable[own[c]] = c

Registry == HandedOver /\ Reading /\ (~Mixup => Matched)

\* A descriptor is not what a failing accept() returns.
LEMMA FdIsNoError == NoFd \notin Fds
BY ChatAssumption DEF NoFd

\* A thread keeps the descriptor it found, and a session the one it got.
LEMMA MixupLasts ==
  ASSUME IInv, [Next]_vars, Mixup
  PROVE  Mixup'
<1> USE DEF IInv, TypeOK
<1>1. PICK c \in Sessions : thread[c] \notin {"none", "start"} /\ sock[c] # own[c]
  BY DEF Mixup
<1>2. UNCHANGED own \/ \E d \in Sessions : Accept(d)
  BY DEF Next, Main, AcceptFails, Register, Overrun, Create, Thread, Start, Issue, Read, ReadEnd, ReadError,
         Lock, Write, WriteClosed, WriteFails, WriteKills, Unlock, Remove, Close,
         Client, Connect, Send, Receive, Quit, vars
<1>3. own'[c] = own[c]
  BY <1>1, <1>2 DEF Accept, Begun
<1>4. sock'[c] = sock[c]
  BY <1>1 DEF Next, Main, Accept, AcceptFails, Register, Overrun, Create, Thread, Start, Issue, Read, ReadEnd,
         ReadError, Lock, Write, WriteClosed, WriteFails, WriteKills, Unlock, Remove, Close,
         Client, Connect, Send, Receive, Quit, vars
<1>5. thread'[c] \notin {"none", "start"}
  <2>1. CASE Create
    BY <1>1, <2>1 DEF Create, Pending
  <2>2. CASE \E d \in Sessions : Thread(d)
    BY <1>1, <2>2 DEF Thread, Start, Issue, Read, ReadEnd, ReadError, Lock, Write, WriteClosed,
       WriteFails, WriteKills, Unlock, Remove, Close
  <2>3. CASE UNCHANGED thread
    BY <1>1, <2>3
  <2> QED
    BY <2>1, <2>2, <2>3 DEF Next, Main, Accept, AcceptFails, Register, Overrun,
       Client, Connect, Send, Receive, Quit, vars
<1> QED
  BY <1>1, <1>3, <1>4, <1>5 DEF Mixup

\* Between accept() and the registry main's variable is not overwritten.
LEMMA HandedOverStep == ASSUME IInv, HandedOver, [Next]_vars PROVE HandedOver'
<1>1. CASE \E c \in Sessions : Accept(c)
  BY <1>1 DEF Accept, HandedOver, IInv, TypeOK
<1>2. CASE \E c \in Sessions : AcceptFails(c)
  BY <1>2 DEF AcceptFails, HandedOver, IInv, Begun
<1>3. CASE Register \/ Overrun \/ Create
  BY <1>3 DEF Register, Overrun, Create, HandedOver
<1>4. CASE UNCHANGED <<mainVars, own>>
  BY <1>4 DEF mainVars, HandedOver
<1> QED
  BY <1>1, <1>2, <1>3, <1>4 DEF Next, Main, Thread, Start, Issue, Read, ReadEnd, ReadError, Lock,
     Write, WriteClosed, WriteFails, WriteKills, Unlock, Remove, Close,
     Client, Connect, Send, Receive, Quit, vars

\* read() on something that is not open does not get a thread any further.
LEMMA ReadingStep == ASSUME IInv, Reading, [Next]_vars PROVE Reading'
<1> USE DEF IInv, TypeOK
<1>1. CASE Create
  BY <1>1 DEF Create, Reading, Pending
<1>2. CASE \E c \in Sessions : Start(c)
  BY <1>2 DEF Start, Reading
<1>3. CASE \E c \in Sessions : Issue(c)
  BY <1>3 DEF Issue, OpenOn, Reading
<1>4. CASE \E c \in Sessions : Read(c) \/ ReadEnd(c) \/ ReadError(c) \/ Lock(c) \/ Unlock(c)
                               \/ Remove(c) \/ Close(c)
  BY <1>4 DEF Read, ReadEnd, ReadError, Lock, Unlock, Remove, Close, Reading
<1>5. CASE UNCHANGED <<thread, sock>>
  BY <1>5 DEF Reading
<1> QED
  BY <1>1, <1>2, <1>3, <1>4, <1>5 DEF Next, Main, Accept, AcceptFails, Register, Overrun, Thread,
     Write, WriteClosed, WriteFails, WriteKills, Client, Connect, Send, Receive, Quit, vars

\* Steps that touch neither the registry nor a descriptor, and revive no session.
LEMMA MatchedAside ==
  ASSUME Matched, UNCHANGED <<registry, own, fdTable>>, OpenSessions' = OpenSessions,
         \A c \in Sessions : thread[c] = "done" => thread'[c] = "done"
  PROVE  Matched'
<1>1. UNCHANGED <<clientSockets, own, fdTable>> /\ Entries' = Entries
  BY DEF registry, Entries
<1>2. \A c \in Sessions : own[c] \in Fds /\ thread'[c] # "done" => fdTable'[own[c]] = c
  BY <1>1 DEF Matched
<1> QED
  BY <1>1, <1>2 DEF Matched

\* Sessions that are not over and have a descriptor have one each.
LEMMA OwnDiffers ==
  ASSUME Matched, NEW c \in Sessions, NEW d \in Sessions, c # d,
         thread[c] # "done", thread[d] # "done", own[c] \in Fds
  PROVE  own[d] # own[c]
BY DEF Matched

\* A session in progress is not over.
LEMMA OpenNotDone == ASSUME IInv, NEW c \in OpenSessions PROVE c \in Sessions /\ thread[c] # "done"
BY DEF OpenSessions, IInv, Pending

\* accept() gives out a descriptor that is nobody's.
LEMMA AcceptMatched ==
  ASSUME IInv, Matched, NEW c \in Sessions, Accept(c) \/ AcceptFails(c)
  PROVE  Matched'
<1>1. /\ UNCHANGED <<clientCnt, clientSockets, thread>>
      /\ main = "accept" /\ main' = "register"
  BY DEF Accept, AcceptFails, registry
<1>2. OpenSessions' = OpenSessions
  BY <1>1 DEF OpenSessions
<1>3. CASE AcceptFails(c)
  BY <1>1, <1>2, <1>3, MatchedAside DEF AcceptFails, registry
<1>4. CASE Accept(c)
  <2>1. thread[c] = "none" /\ c \notin OpenSessions
    BY <1>1, <1>4 DEF Accept, IInv, Begun, OpenSessions
  <2>2. PICK f \in Fds : /\ fdTable[f] = NoSession
                         /\ fdTable' = [fdTable EXCEPT ![f] = c]
                         /\ own' = [own EXCEPT ![c] = f]
    BY <1>4 DEF Accept, FreeFds
  <2>3. \A d \in Sessions : d # c => own'[d] = own[d]
    BY <2>2 DEF IInv, TypeOK
  <2>4. \A d \in OpenSessions : d \in Sessions /\ own'[d] = own[d]
    BY <2>1, <2>3 DEF OpenSessions
  <2>5. ASSUME NEW d \in Sessions, own'[d] \in Fds, thread[d] # "done"
        PROVE  fdTable'[own'[d]] = d
    <3>1. CASE d = c
      BY <2>2, <3>1 DEF IInv, TypeOK
    <3>2. CASE d # c
      <4>1. own'[d] = own[d] /\ fdTable[own[d]] = d
        BY <2>3, <2>5, <3>2 DEF Matched
      <4>2. own[d] # f
        BY <2>2, <4>1, ChatAssumption
      <4> QED
        BY <2>2, <4>1, <4>2 DEF IInv, TypeOK
    <3> QED
      BY <3>1, <3>2
  <2> QED
    BY <1>1, <1>2, <2>4, <2>5 DEF Matched, Entries
<1> QED
  BY <1>3, <1>4

\* The session that is entered has a descriptor that is not in the registry.
LEMMA RegisterMatched == ASSUME IInv, HandedOver, Matched, Register PROVE Matched'
<1>1. /\ main = "register" /\ main' = "create"
      /\ clientSockets' = [clientSockets EXCEPT ![clientCnt] = clientSocket]
      /\ clientCnt < MAX_CLNT /\ clientCnt' = clientCnt + 1
      /\ UNCHANGED <<current, thread, own, fdTable>>
  BY DEF Register, network
<1>2. current \in Sessions /\ thread[current] = "none" /\ clientSocket = own[current]
  BY <1>1 DEF IInv, Pending, HandedOver
<1>3. OpenSessions' = OpenSessions \cup {current} /\ current \notin OpenSessions
  BY <1>1, <1>2 DEF OpenSessions
<1>4. clientCnt \in Slots /\ clientCnt \in Nat
  BY <1>1, ChatAssumption DEF IInv, TypeOK, Slots
<1>5. /\ clientSockets'[clientCnt] = own[current]
      /\ \A k \in Entries : clientSockets'[k] = clientSockets[k]
  BY <1>1, <1>2, <1>4 DEF IInv, TypeOK, Entries
<1>6. Entries' = Entries \cup {clientCnt} /\ clientCnt \notin Entries
  BY <1>1, <1>4 DEF Entries
<1>7. \A k \in Entries' : \E c \in OpenSessions' : clientSockets'[k] = own'[c]
  BY <1>1, <1>3, <1>5, <1>6 DEF Matched
<1>8. \A c \in OpenSessions' : \E k \in Entries' : clientSockets'[k] = own'[c]
  BY <1>1, <1>3, <1>5, <1>6 DEF Matched
<1>9. \A k \in Entries : own[current] \in Fds => clientSockets[k] # own[current]
  <2> SUFFICES ASSUME NEW k \in Entries, own[current] \in Fds
               PROVE  clientSockets[k] # own[current]
    OBVIOUS
  <2>1. PICK c \in OpenSessions : clientSockets[k] = own[c]
    BY DEF Matched
  <2> QED
    BY <1>2, <1>3, <2>1, OpenNotDone, OwnDiffers
<1>10. \A k, l \in Entries' :
         clientSockets'[k] = clientSockets'[l] /\ clientSockets'[k] \in Fds => k = l
  BY <1>5, <1>6, <1>9 DEF Matched
<1> QED
  BY <1>1, <1>7, <1>8, <1>10 DEF Matched

\* The entry of the session that is removed goes, and no other.
LEMMA RemoveMatched ==
  ASSUME IInv, Reading, Matched, ~Mixup, NEW c \in Sessions, Remove(c)
  PROVE  Matched'
<1>1. /\ thread[c] = "remove" /\ thread' = [thread EXCEPT ![c] = "close"]
      /\ clientCnt' = clientCnt - 1
      /\ UNCHANGED <<main, current, own, fdTable>>
  BY DEF Remove, CountDown, mainVars, network
<1>2. sock[c] = own[c] /\ own[c] \in Fds
  BY <1>1 DEF Mixup, Reading
<1>3. OpenSessions' = OpenSessions \ {c} /\ c \in OpenSessions
  BY <1>1 DEF OpenSessions, IInv, Pending, TypeOK
<1>4. own[c] \in Registered
  BY <1>3 DEF Matched, Registered, Entries
<1>5. PICK k \in Entries : clientSockets[k] = own[c] /\ clientSockets' = GapClosed(k)
  BY <1>2, <1>4 DEF Remove, Entries
<1>6. clientCnt \in Nat /\ clientCnt <= MAX_CLNT /\ MAX_CLNT \in Nat
  BY ChatAssumption DEF IInv, InArray, TypeOK
<1>7. Entries' = 0 .. clientCnt - 2 /\ Entries' \subseteq Slots /\ k \in Slots
  BY <1>1, <1>6 DEF Entries, Slots
<1>8. \A l \in Entries' : /\ l < k => l \in Entries /\ clientSockets'[l] = clientSockets[l]
                          /\ k <= l => l + 1 \in Entries /\ clientSockets'[l] = clientSockets[l + 1]
  BY <1>1, <1>5, <1>6, <1>7 DEF GapClosed, Entries
<1>9. \A l \in Entries : l # k => clientSockets[l] # own[c]
  BY <1>2, <1>5 DEF Matched
<1>10. ASSUME NEW l \in Entries' PROVE \E d \in OpenSessions' : clientSockets'[l] = own'[d]
  <2>1. PICK m \in Entries : m # k /\ clientSockets'[l] = clientSockets[m]
    BY <1>7, <1>8 DEF Entries
  <2>2. PICK d \in OpenSessions : clientSockets[m] = own[d]
    BY DEF Matched
  <2> QED
    BY <1>1, <1>3, <1>9, <2>1, <2>2
<1>11. ASSUME NEW d \in OpenSessions' PROVE \E l \in Entries' : clientSockets'[l] = own'[d]
  <2>1. d \in OpenSessions /\ d # c
    BY <1>3, <1>11
  <2>2. PICK m \in Entries : clientSockets[m] = own[d]
    BY <2>1 DEF Matched
  <2>3. m # k
    BY <1>2, <1>3, <1>5, <2>1, <2>2, OpenNotDone, OwnDiffers
  <2>4. CASE m < k
    BY <1>1, <1>6, <1>7, <1>8, <2>2, <2>4 DEF Entries
  <2>5. CASE k < m
    <3>1. m - 1 \in Entries' /\ k <= m - 1 /\ (m - 1) + 1 = m
      BY <1>1, <1>6, <1>7, <2>5 DEF Entries
    <3> QED
      BY <1>1, <1>8, <2>2, <3>1
  <2> QED
    BY <1>6, <2>3, <2>4, <2>5 DEF Entries
<1>12. \A l, m \in Entries' :
         clientSockets'[l] = clientSockets'[m] /\ clientSockets'[l] \in Fds => l = m
  <2> DEFINE from(l) == IF l < k THEN l ELSE l + 1
  <2>1. \A l \in Entries' : from(l) \in Entries /\ clientSockets'[l] = clientSockets[from(l)]
    BY <1>7, <1>8 DEF Entries
  <2>2. \A l, m \in Entries' : from(l) = from(m) => l = m
    BY <1>6, <1>7 DEF Entries
  <2> HIDE DEF from
  <2> QED
    BY <2>1, <2>2 DEF Matched
<1>13. \A d \in Sessions : thread'[d] # "done" => thread[d] # "done"
  BY <1>1 DEF IInv, TypeOK
<1> QED
  BY <1>1, <1>10, <1>11, <1>12, <1>13 DEF Matched

\* The descriptor that is closed is the one of the session that ends.
LEMMA CloseMatched ==
  ASSUME IInv, Matched, ~Mixup, NEW c \in Sessions, Close(c)
  PROVE  Matched'
<1>1. /\ thread[c] = "close" /\ thread' = [thread EXCEPT ![c] = "done"]
      /\ fdTable' = IF sock[c] \in Fds THEN [fdTable EXCEPT ![sock[c]] = NoSession] ELSE fdTable
      /\ UNCHANGED <<clientCnt, clientSockets, main, current, own>>
  BY DEF Close, registry, mainVars
<1>2. sock[c] = own[c]
  BY <1>1 DEF Mixup
<1>3. OpenSessions' = OpenSessions
  BY <1>1 DEF OpenSessions, IInv, TypeOK, Pending
<1>4. ASSUME NEW d \in Sessions, own[d] \in Fds, thread'[d] # "done"
      PROVE  fdTable'[own[d]] = d
  <2>1. d # c /\ thread[d] # "done"
    BY <1>1, <1>4 DEF IInv, TypeOK
  <2>2. own[d] # own[c]
    BY <1>1, <1>4, <2>1, OwnDiffers
  <2>3. fdTable[own[d]] = d
    BY <1>4, <2>1 DEF Matched
  <2> QED
    BY <1>1, <1>2, <1>4, <2>2, <2>3 DEF IInv, TypeOK
<1> QED
  BY <1>1, <1>3, <1>4 DEF Matched, Entries

\* Every reachable state has such a registry.
THEOREM RegistryInvariance == Spec => []Registry
<1>1. Init => Registry
  <2> SUFFICES ASSUME Init PROVE Registry
    OBVIOUS
  <2>1. OpenSessions = {} /\ Entries = {}
    BY DEF Init, OpenSessions, Entries
  <2>2. \A c \in Sessions : own[c] \notin Fds
    BY FdIsNoError DEF Init
  <2> QED
    BY <2>1, <2>2 DEF Init, Registry, HandedOver, Reading, Matched
<1>2. IInv /\ Registry /\ [Next]_vars => Registry'
  <2> SUFFICES ASSUME IInv, Registry, [Next]_vars PROVE Registry'
    OBVIOUS
  <2>1. HandedOver' /\ Reading'
    BY HandedOverStep, ReadingStep DEF Registry
  <2> SUFFICES ASSUME ~Mixup' PROVE Matched'
    BY <2>1 DEF Registry
  <2>2. ~Mixup /\ Matched /\ HandedOver /\ Reading
    BY MixupLasts DEF Registry
  <2>3. CASE \E c \in Sessions : Accept(c) \/ AcceptFails(c)
    BY <2>2, <2>3, AcceptMatched
  <2>4. CASE Register
    BY <2>2, <2>4, RegisterMatched
  <2>5. CASE Create
    <3>1. OpenSessions' = OpenSessions
      BY <2>5, ChatAssumption DEF Create, IInv, Pending, OpenSessions, TypeOK
    <3>2. \A c \in Sessions : thread[c] = "done" => thread'[c] = "done"
      BY <2>5 DEF Create, IInv, Pending, TypeOK
    <3> QED
      BY <2>2, <2>5, <3>1, <3>2, MatchedAside DEF Create, network
  <2>6. CASE \E c \in Sessions : Remove(c)
    BY <2>2, <2>6, RemoveMatched
  <2>7. CASE \E c \in Sessions : Close(c)
    BY <2>2, <2>7, CloseMatched
  <2>8. CASE \E c \in Sessions : Start(c) \/ Issue(c) \/ Read(c) \/ ReadEnd(c) \/ ReadError(c)
                                 \/ Lock(c) \/ Unlock(c)
    <3>1. PICK c \in Sessions, j \in Jobs :
            /\ thread[c] \in {"start", "issue", "read", "lock", "send"}
            /\ j \in {"issue", "read", "lock", "send", "remove"}
            /\ thread' = [thread EXCEPT ![c] = j]
      BY <2>8 DEF Start, Issue, Read, ReadEnd, ReadError, Lock, Unlock, Jobs
    <3>2. UNCHANGED <<registry, own, fdTable, main, current>>
      BY <2>8 DEF Start, Issue, Read, ReadEnd, ReadError, Lock, Unlock, mainVars, network
    <3>3. OpenSessions' = OpenSessions
      BY <3>1, <3>2 DEF OpenSessions, IInv, TypeOK
    <3>4. \A d \in Sessions : thread[d] = "done" => thread'[d] = "done"
      BY <3>1 DEF IInv, TypeOK
    <3> QED
      BY <2>2, <3>2, <3>3, <3>4, MatchedAside
  <2>9. CASE UNCHANGED <<registry, own, fdTable, main, current, thread>>
    BY <2>2, <2>9, MatchedAside DEF OpenSessions
  <2>10. CASE Overrun
    <3>1. OpenSessions' = OpenSessions
      BY <2>10 DEF Overrun, OpenSessions
    <3> QED
      BY <2>2, <2>10, <3>1, MatchedAside DEF Overrun, network
  <2> QED
    BY <2>3, <2>4, <2>5, <2>6, <2>7, <2>8, <2>9, <2>10 DEF Next, Main, Thread, Write, WriteClosed,
       WriteFails, WriteKills, Client, Connect, Send, Receive, Quit, vars, mainVars, network
<1> QED
  BY <1>1, <1>2, Invariance, PTL DEF Spec

\* As long as every thread found its own descriptor the registry is that of the sessions in
\* progress.
THEOREM RegistryCorrect == Spec => []RegistryExact
<1>1. IInv /\ Registry => RegistryExact
  <2> SUFFICES ASSUME IInv, Matched
               PROVE  /\ Registered = {own[c] : c \in OpenSessions}
                      /\ \A c \in OpenSessions : own[c] \in Fds => fdTable[own[c]] = c
    BY DEF Registry, RegistryExact
  <2>1. Registered = {own[c] : c \in OpenSessions}
    BY DEF Matched, Registered, Entries
  <2> QED
    BY <2>1, OpenNotDone DEF Matched
<1> QED
  BY <1>1, Invariance, RegistryInvariance, PTL

----------------------------------------------------------------------------
(***************************************************************************)
(* No gap in what a client sees.                                           *)
(***************************************************************************)

\* The broadcast that the session with this entry has to have seen last: while a thread goes
\* through the registry, the entries it has not come to are one behind.
Due(k) ==
  IF \E c \in Sessions : thread[c] = "send" /\ pos[c] <= k THEN broadcasts - 1 ELSE broadcasts

Reachable(c) == peer[c] \in {"up", "fin"}

Consecutive ==
  \A c \in Sessions : \A k \in 1 .. Len(stream[c]) - 1 : stream[c][k + 1] = stream[c][k] + 1

\* A session that can be written to is up to date, if it has seen anything.
Latest ==
  \A k \in Entries, c \in OpenSessions :
    clientSockets[k] = own[c] /\ Reachable(c) /\ stream[c] # <<>> =>
      stream[c][Len(stream[c])] = Due(k)

\* Before it is entered it has seen nothing.
Unwritten == \A c \in Sessions : thread[c] = "none" /\ c \notin OpenSessions => stream[c] = <<>>

UpToDate == Consecutive /\ Latest /\ Unwritten

\* There is one sender at a time.
LEMMA OneSender ==
  ASSUME IInv, NEW c \in Sessions, NEW d \in Sessions, thread[c] = "send", thread[d] = "send"
  PROVE  c = d
BY DEF IInv, Exclusive

\* What is due when nobody sends, and what when c does.
LEMMA DueNobody ==
  ASSUME \A c \in Sessions : thread[c] # "send", NEW k
  PROVE  Due(k) = broadcasts
BY DEF Due

LEMMA DueSender ==
  ASSUME IInv, NEW c \in Sessions, thread[c] = "send", NEW k
  PROVE  Due(k) = IF pos[c] <= k THEN broadcasts - 1 ELSE broadcasts
BY OneSender DEF Due

\* A session in progress without a descriptor is one whose accept() failed.
LEMMA OpenReachable ==
  ASSUME IInv, NEW c \in OpenSessions, Reachable(c)
  PROVE  c \in Sessions /\ own[c] \in Fds
BY DEF IInv, Begun, OpenSessions, Reachable, TypeOK

\* Steps that write nothing, keep the registry and make nothing else due.
LEMMA UpToDateAside ==
  ASSUME UpToDate, UNCHANGED <<registry, stream>>, OpenSessions' = OpenSessions,
         \A c \in OpenSessions : own'[c] = own[c] /\ (Reachable(c)' => Reachable(c)),
         \A k \in Entries : Due(k)' = Due(k),
         \A c \in Sessions : thread'[c] = "none" => thread[c] = "none"
  PROVE  UpToDate'
<1>1. UNCHANGED <<clientSockets, stream>> /\ Entries' = Entries
  BY DEF registry, Entries
<1>2. Consecutive' /\ Unwritten'
  BY <1>1 DEF UpToDate, Consecutive, Unwritten
<1>3. Latest'
  BY <1>1 DEF UpToDate, Latest
<1> QED
  BY <1>2, <1>3 DEF UpToDate

\* The entry the sender is at belongs to one session, and the write goes to that session.
LEMMA TargetIsSession ==
  ASSUME IInv, Matched, NEW c \in Sessions, thread[c] = "send", pos[c] < clientCnt,
         NEW d \in OpenSessions, clientSockets[pos[c]] = own[d], own[d] \in Fds
  PROVE  Target(c) = d
BY OpenNotDone DEF Matched, Target, OpenOn

\* A write brings the session at the sender's place up to date.
LEMMA WriteUpToDate ==
  ASSUME IInv, Matched, UpToDate, NEW c \in Sessions, Write(c) \/ WriteClosed(c)
  PROVE  UpToDate'
<1>1. /\ thread[c] = "send" /\ pos[c] < clientCnt
      /\ Target(c) # NoSession /\ Reachable(Target(c))
      /\ stream' = [stream EXCEPT ![Target(c)] = Append(@, number[c])]
      /\ pos' = [pos EXCEPT ![c] = @ + 1]
      /\ UNCHANGED <<clientCnt, clientSockets, own, thread, main, current, broadcasts>>
  BY DEF Write, WriteClosed, Reachable, registry, mainVars
<1>2. pos[c] \in Entries /\ pos[c] \in Nat /\ number[c] = broadcasts /\ broadcasts \in Nat
  BY <1>1 DEF IInv, Exclusive, TypeOK, Entries
<1>3. PICK e \in OpenSessions : clientSockets[pos[c]] = own[e]
  BY <1>2 DEF Matched
<1>4. own[e] \in Fds
  BY <1>1, <1>3 DEF Target, OpenOn
<1>5. e \in Sessions /\ Target(c) = e
  BY <1>1, <1>3, <1>4, TargetIsSession, OpenNotDone
<1>6. OpenSessions' = OpenSessions /\ Entries' = Entries
  BY <1>1 DEF OpenSessions, Entries
<1>7. /\ stream[e] \in Seq(Nat)
      /\ stream'[e] = Append(stream[e], broadcasts)
      /\ \A d \in Sessions : d # e => stream'[d] = stream[d]
  BY <1>1, <1>2, <1>5 DEF IInv, TypeOK
<1>8. stream[e] # <<>> => stream[e][Len(stream[e])] = broadcasts - 1
  <2>1. Due(pos[c]) = broadcasts - 1
    BY <1>1, <1>2, DueSender
  <2> QED
    BY <1>1, <1>2, <1>3, <1>5, <2>1 DEF UpToDate, Latest
<1>9. /\ Len(stream[e]) \in Nat
      /\ Len(stream'[e]) = Len(stream[e]) + 1
      /\ stream'[e][Len(stream[e]) + 1] = broadcasts
      /\ \A k \in 1 .. Len(stream[e]) : stream'[e][k] = stream[e][k]
      /\ Len(stream[e]) > 0 => stream[e] # <<>>
  BY <1>2, <1>7
<1>10. Consecutive'
  <2>1. ASSUME NEW k \in 1 .. Len(stream'[e]) - 1 PROVE stream'[e][k + 1] = stream'[e][k] + 1
    <3>1. CASE k = Len(stream[e])
      BY <1>2, <1>8, <1>9, <3>1
    <3>2. CASE k \in 1 .. Len(stream[e]) - 1
      BY <1>5, <1>9, <3>2 DEF UpToDate, Consecutive
    <3> QED
      BY <1>9, <3>1, <3>2
  <2>2. ASSUME NEW d \in Sessions, NEW k \in 1 .. Len(stream'[d]) - 1
        PROVE  stream'[d][k + 1] = stream'[d][k] + 1
    <3>1. CASE d = e
      BY <2>1, <2>2, <3>1
    <3>2. CASE d # e
      <4>1. stream'[d] = stream[d]
        BY <1>7, <3>2
      <4> QED
        BY <2>2, <4>1 DEF UpToDate, Consecutive
    <3> QED
      BY <3>1, <3>2
  <2> QED
    BY <2>2 DEF Consecutive
<1>11. \A k \in Entries : Due(k)' = IF pos[c] + 1 <= k THEN broadcasts - 1 ELSE broadcasts
  <2>1. \A d \in Sessions : thread'[d] = "send" <=> d = c
    BY <1>1, OneSender
  <2>2. pos'[c] = pos[c] + 1
    BY <1>1 DEF IInv, TypeOK
  <2> QED
    BY <1>1, <2>1, <2>2 DEF Due
<1>12. Latest'
  <2> SUFFICES ASSUME NEW k \in Entries, NEW d \in OpenSessions,
                      clientSockets[k] = own[d], Reachable(d)', stream'[d] # <<>>
               PROVE  stream'[d][Len(stream'[d])] = Due(k)'
    BY <1>1, <1>6 DEF Latest
  <2>1. CASE d = e
    <3>1. k = pos[c]
      BY <1>2, <1>3, <1>4, <2>1 DEF Matched
    <3> QED
      BY <1>2, <1>9, <1>11, <2>1, <3>1
  <2>2. CASE d # e
    <3>1. d \in Sessions /\ Reachable(d)
      BY <1>5, <2>2, OpenNotDone DEF Write, WriteClosed, Reachable, IInv, TypeOK
    <3>2. k # pos[c]
      BY <1>3, <1>4, <2>2, OpenNotDone, OwnDiffers
    <3>3. stream[d][Len(stream[d])] = Due(k)
      BY <1>7, <2>2, <3>1 DEF UpToDate, Latest
    <3>4. Due(k) = IF pos[c] <= k THEN broadcasts - 1 ELSE broadcasts
      BY <1>1, DueSender
    <3>5. k \in Int
      BY DEF Entries
    <3> QED
      BY <1>2, <1>7, <1>11, <2>2, <3>1, <3>2, <3>3, <3>4, <3>5
  <2> QED
    BY <2>1, <2>2
<1>13. Unwritten'
  BY <1>1, <1>6, <1>7 DEF UpToDate, Unwritten
<1> QED
  BY <1>10, <1>12, <1>13 DEF UpToDate

\* A write that fails goes to a session that is never written to again.
LEMMA WriteFailsUpToDate ==
  ASSUME IInv, Matched, UpToDate, NEW c \in Sessions, WriteFails(c)
  PROVE  UpToDate'
<1>1. /\ thread[c] = "send" /\ pos[c] < clientCnt
      /\ pos' = [pos EXCEPT ![c] = @ + 1]
      /\ UNCHANGED <<clientCnt, clientSockets, own, thread, main, current, broadcasts, stream>>
      /\ \/ Target(c) = NoSession /\ UNCHANGED peer
         \/ peer[Target(c)] = "reset" /\ peer' = [peer EXCEPT ![Target(c)] = "broken"]
  BY DEF WriteFails, registry, mainVars, history
<1>2. OpenSessions' = OpenSessions /\ Entries' = Entries
  BY <1>1 DEF OpenSessions, Entries
<1>3. pos[c] \in Nat /\ pos'[c] = pos[c] + 1
  BY <1>1 DEF IInv, TypeOK
<1>4. ASSUME NEW d \in Sessions, Reachable(d)' PROVE Reachable(d) /\ d # Target(c)
  BY <1>1, <1>4, ChatAssumption DEF Reachable, IInv, TypeOK
<1>5. Latest'
  <2> SUFFICES ASSUME NEW k \in Entries, NEW d \in OpenSessions,
                      clientSockets[k] = own[d], Reachable(d)', stream[d] # <<>>
               PROVE  stream[d][Len(stream[d])] = Due(k)'
    BY <1>1, <1>2 DEF Latest
  <2>1. d \in Sessions /\ Reachable(d) /\ d # Target(c)
    BY <1>4, OpenNotDone
  <2>2. k # pos[c]
    BY <1>1, <2>1, OpenReachable, TargetIsSession
  <2>3. stream[d][Len(stream[d])] = IF pos[c] <= k THEN broadcasts - 1 ELSE broadcasts
    BY <1>1, <2>1, DueSender DEF UpToDate, Latest
  <2>4. Due(k)' = IF pos[c] + 1 <= k THEN broadcasts - 1 ELSE broadcasts
    <3>1. \A e \in Sessions : thread'[e] = "send" <=> e = c
      BY <1>1, OneSender
    <3> QED
      BY <1>1, <1>3, <3>1 DEF Due
  <2>5. k \in Int
    BY DEF Entries
  <2> QED
    BY <1>3, <2>2, <2>3, <2>4, <2>5
<1> QED
  BY <1>1, <1>2, <1>5 DEF UpToDate, Consecutive, Unwritten

\* A session is entered before it has seen anything.
LEMMA RegisterUpToDate ==
  ASSUME IInv, HandedOver, Matched, UpToDate, Register
  PROVE  UpToDate'
<1>1. /\ main = "register" /\ main' = "create"
      /\ clientSockets' = [clientSockets EXCEPT ![clientCnt] = clientSocket]
      /\ clientCnt < MAX_CLNT /\ clientCnt' = clientCnt + 1
      /\ UNCHANGED <<current, thread, own, peer, stream, pos, broadcasts>>
  BY DEF Register, network, history
<1>2. current \in Sessions /\ thread[current] = "none" /\ clientSocket = own[current]
  BY <1>1 DEF IInv, Pending, HandedOver
<1>3. OpenSessions' = OpenSessions \cup {current} /\ current \notin OpenSessions
  BY <1>1, <1>2 DEF OpenSessions
<1>4. clientCnt \in Slots /\ clientCnt \in Nat
  BY <1>1, ChatAssumption DEF IInv, TypeOK, Slots
<1>5. /\ clientSockets'[clientCnt] = own[current]
      /\ \A k \in Entries : clientSockets'[k] = clientSockets[k]
      /\ Entries' = Entries \cup {clientCnt}
  BY <1>1, <1>2, <1>4 DEF IInv, TypeOK, Entries
<1>6. stream[current] = <<>>
  BY <1>2, <1>3 DEF UpToDate, Unwritten
<1>7. ASSUME NEW d \in OpenSessions, Reachable(d) PROVE own[d] # own[current]
  BY <1>2, <1>3, <1>7, OpenReachable, OpenNotDone, OwnDiffers
<1>8. Latest'
  <2>1. \A k : Due(k)' = Due(k)
    BY <1>1 DEF Due
  <2>2. \A d : Reachable(d)' = Reachable(d)
    BY <1>1 DEF Reachable
  <2> SUFFICES ASSUME NEW k \in Entries', NEW d \in OpenSessions',
                      clientSockets'[k] = own[d], Reachable(d), stream[d] # <<>>
               PROVE  stream[d][Len(stream[d])] = Due(k)
    BY <1>1, <2>1, <2>2 DEF Latest
  <2>3. d \in OpenSessions
    BY <1>3, <1>6
  <2>4. k \in Entries
    BY <1>5, <1>7, <2>3
  <2> QED
    BY <1>5, <2>3, <2>4 DEF UpToDate, Latest
<1>9. Unwritten'
  BY <1>1, <1>3 DEF UpToDate, Unwritten
<1> QED
  BY <1>1, <1>8, <1>9 DEF UpToDate, Consecutive

\* A session is removed while nobody sends: the others keep what they have seen.
LEMMA RemoveUpToDate ==
  ASSUME IInv, Matched, UpToDate, NEW c \in Sessions, Remove(c)
  PROVE  UpToDate'
<1>1. /\ thread[c] = "remove" /\ thread' = [thread EXCEPT ![c] = "close"]
      /\ mutex = NoSession
      /\ UNCHANGED <<main, current, own, peer, stream, pos, broadcasts>>
  BY DEF Remove, MutexFree, mainVars, network, history
<1>2. OpenSessions' \subseteq OpenSessions /\ c \in OpenSessions
  BY <1>1 DEF OpenSessions, IInv, TypeOK
<1>3. \A d \in Sessions : thread[d] # "send" /\ thread'[d] # "send"
  BY <1>1, ChatAssumption DEF IInv, Exclusive, TypeOK
<1>4. \A k : Due(k) = broadcasts /\ Due(k)' = broadcasts
  BY <1>1, <1>3 DEF Due
<1>5. ASSUME NEW d \in OpenSessions', Reachable(d), stream[d] # <<>>
      PROVE  stream[d][Len(stream[d])] = broadcasts
  <2>1. d \in OpenSessions
    BY <1>2
  <2>2. PICK m \in Entries : clientSockets[m] = own[d]
    BY <2>1 DEF Matched
  <2> QED
    BY <1>4, <1>5, <2>1, <2>2 DEF UpToDate, Latest
<1>6. Latest'
  <2>1. \A d : Reachable(d)' = Reachable(d)
    BY <1>1 DEF Reachable
  <2> QED
    BY <1>1, <1>4, <1>5, <2>1 DEF Latest
<1>7. Unwritten'
  <2>1. OpenSessions' = OpenSessions \ {c} /\ thread'[c] = "close"
    BY <1>1 DEF OpenSessions, IInv, Pending, TypeOK
  <2> QED
    BY <1>1, <2>1 DEF UpToDate, Unwritten, IInv, TypeOK
<1> QED
  BY <1>1, <1>6, <1>7 DEF UpToDate, Consecutive

\* Taking the mutex begins a broadcast that is due to all; giving it back ends one that has
\* been everywhere.
LEMMA LockUpToDate ==
  ASSUME IInv, UpToDate, NEW c \in Sessions, Lock(c) \/ Unlock(c)
  PROVE  UpToDate'
<1>1. /\ UNCHANGED <<registry, own, peer, stream, main, current>>
      /\ thread[c] \in {"lock", "send"}
      /\ thread' = [thread EXCEPT ![c] = IF thread[c] = "lock" THEN "send" ELSE "issue"]
  BY DEF Lock, Unlock, mainVars, network, history
<1>2. OpenSessions' = OpenSessions
  BY <1>1 DEF OpenSessions, IInv, TypeOK
<1>3. ASSUME NEW k \in Entries PROVE Due(k)' = Due(k)
  <2>1. CASE Lock(c)
    <3>1. \A d \in Sessions : thread[d] # "send"
      BY <2>1, ChatAssumption DEF Lock, MutexFree, IInv, Exclusive
    <3>2. thread'[c] = "send" /\ pos'[c] = 0 /\ broadcasts' = broadcasts + 1
      BY <2>1 DEF Lock, IInv, TypeOK
    <3>3. 0 <= k
      BY DEF Entries
    <3>4. Due(k)' = broadcasts' - 1
      BY <3>2, <3>3 DEF Due
    <3> QED
      BY <3>1, <3>2, <3>4, DueNobody DEF IInv, TypeOK
  <2>2. CASE Unlock(c)
    <3>1. thread[c] = "send" /\ pos[c] >= clientCnt /\ broadcasts' = broadcasts
      BY <2>2 DEF Unlock
    <3>2. \A d \in Sessions : thread'[d] # "send"
      BY <1>1, <3>1, OneSender DEF IInv, TypeOK
    <3>3. ~(pos[c] <= k)
      BY <3>1 DEF Entries, IInv, TypeOK
    <3>4. Due(k) = broadcasts
      BY <3>1, <3>3, DueSender
    <3> QED
      BY <3>1, <3>2, <3>4 DEF Due
  <2> QED
    BY <2>1, <2>2
<1>4. \A d \in Sessions : thread'[d] = "none" => thread[d] = "none"
  BY <1>1 DEF IInv, TypeOK
<1> QED
  BY <1>1, <1>2, <1>3, <1>4, UpToDateAside DEF Reachable, registry

\* The steps that have nothing to do with a broadcast or the registry.
Other ==
  \/ Create \/ Overrun \/ UNCHANGED vars
  \/ \E c \in Sessions :
       \/ Accept(c) \/ AcceptFails(c) \/ Client(c)
       \/ Start(c) \/ Issue(c) \/ Read(c) \/ ReadEnd(c) \/ ReadError(c)
       \/ WriteKills(c) \/ Close(c)

LEMMA OthersAside ==
  ASSUME IInv, Other
  PROVE  /\ UNCHANGED <<registry, stream, pos, broadcasts, mutex>>
         /\ OpenSessions' = OpenSessions
         /\ \A c \in Sessions : /\ thread'[c] = "none" => thread[c] = "none"
                                /\ thread'[c] = "send" <=> thread[c] = "send"
         /\ \A c \in OpenSessions : /\ own'[c] = own[c]
                                    /\ Reachable(c)' => Reachable(c)
                                    /\ peer'[c] = "up" => peer[c] = "up"
<1>1. UNCHANGED <<registry, stream, pos, broadcasts, mutex>>
  BY DEF Other, Create, Overrun, vars, Accept, AcceptFails, Client, Connect, Send, Receive, Quit, Start,
         Issue, Read, ReadEnd, ReadError, WriteKills, Close, history
<1>2. OpenSessions' = OpenSessions
  <2>1. CASE Create
    BY <2>1, ChatAssumption DEF Create, IInv, Pending, OpenSessions, TypeOK
  <2>2. CASE \E c \in Sessions : Accept(c) \/ AcceptFails(c)
    BY <2>2 DEF Accept, AcceptFails, OpenSessions
  <2>3. CASE \E c \in Sessions : \/ Start(c) \/ Issue(c) \/ Read(c) \/ ReadEnd(c)
                                 \/ ReadError(c) \/ Close(c)
    BY <2>3 DEF Start, Issue, Read, ReadEnd, ReadError, Close, mainVars, OpenSessions,
                IInv, TypeOK
  <2>4. CASE UNCHANGED <<main, current, thread>>
    BY <2>4 DEF OpenSessions
  <2>5. CASE Overrun
    BY <2>5 DEF Overrun, OpenSessions
  <2> QED
    BY <2>1, <2>2, <2>3, <2>4, <2>5
    DEF Other, vars, mainVars, Client, Connect, Send, Receive, Quit, WriteKills
<1>3. \A c \in Sessions : /\ thread'[c] = "none" => thread[c] = "none"
                          /\ thread'[c] = "send" <=> thread[c] = "send"
  <2>1. CASE Create
    BY <2>1 DEF Create, IInv, Pending, TypeOK
  <2>2. CASE \E c \in Sessions : \/ Start(c) \/ Issue(c) \/ Read(c) \/ ReadEnd(c)
                                 \/ ReadError(c) \/ Close(c)
    <3>1. PICK c \in Sessions, j \in Jobs \ {"none", "send"} :
            thread[c] \notin {"none", "send"} /\ thread' = [thread EXCEPT ![c] = j]
      BY <2>2 DEF Start, Issue, Read, ReadEnd, ReadError, Close, Jobs
    <3> QED
      BY <3>1 DEF IInv, TypeOK
  <2>3. CASE UNCHANGED thread
    BY <2>3
  <2> QED
    BY <2>1, <2>2, <2>3 DEF Other, Overrun, vars, Accept, AcceptFails, Client, Connect, Send, Receive, Quit,
       WriteKills
<1>4. ASSUME NEW c \in OpenSessions
      PROVE  /\ own'[c] = own[c]
             /\ Reachable(c)' => Reachable(c)
             /\ peer'[c] = "up" => peer[c] = "up"
  <2>1. c \in Sessions /\ (own[c] # NoFd \/ peer[c] = "failed")
    BY DEF OpenSessions, IInv, Begun, Pending
  <2>2. peer[c] # "none"
    BY <2>1 DEF IInv, Begun
  <2>3. own'[c] = own[c]
    BY <2>1 DEF Other, Create, Overrun, vars, Accept, AcceptFails, Client, Connect, Send, Receive, Quit,
       Start, Issue, Read, ReadEnd, ReadError, WriteKills, Close, IInv, TypeOK
  <2>4. (Reachable(c)' => Reachable(c)) /\ (peer'[c] = "up" => peer[c] = "up")
    BY <2>1, <2>2
    DEF Other, Create, Overrun, vars, Accept, AcceptFails, Client, Connect, Send, Receive, Quit, Start,
        Issue, Read, ReadEnd, ReadError, WriteKills, Close, network, Reachable, IInv, TypeOK
  <2> QED
    BY <2>3, <2>4
<1> QED
  BY <1>1, <1>2, <1>3, <1>4

LEMMA OthersUpToDate == ASSUME IInv, UpToDate, Other PROVE UpToDate'
<1>1. UNCHANGED <<pos, broadcasts>>
  BY OthersAside
<1>2. \A k \in Entries : Due(k)' = Due(k)
  BY <1>1, OthersAside DEF Due
<1> QED
  BY <1>2, OthersAside, UpToDateAside DEF registry

\* As long as every thread found its own descriptor, every session is up to date.
THEOREM UpToDateInvariance == Spec => [](~Mixup => UpToDate)
<1>1. Init => UpToDate
  <2> SUFFICES ASSUME Init PROVE UpToDate
    OBVIOUS
  <2>1. Entries = {} /\ \A c \in Sessions : stream[c] = <<>>
    BY DEF Init, Entries
  <2> QED
    BY <2>1 DEF UpToDate, Consecutive, Latest, Unwritten
<1>2. IInv /\ Registry /\ (~Mixup => UpToDate) /\ [Next]_vars => (~Mixup => UpToDate)'
  <2> SUFFICES ASSUME IInv, Registry, ~Mixup => UpToDate, [Next]_vars, ~Mixup'
               PROVE  UpToDate'
    OBVIOUS
  <2>1. UpToDate /\ Matched /\ HandedOver
    BY MixupLasts DEF Registry
  <2> QED
    BY <2>1, WriteUpToDate, WriteFailsUpToDate, RegisterUpToDate, RemoveUpToDate, LockUpToDate,
       OthersUpToDate
    DEF Next, Main, Thread, Other
<1> QED
  BY <1>1, <1>2, Invariance, RegistryInvariance, PTL DEF Spec

\* A client misses none of the broadcasts between the first and the last that it sees.
THEOREM GapFree == Spec => []NoGap
<1>1. (~Mixup => UpToDate) => NoGap
  BY DEF UpToDate, Consecutive, NoGap
<1> QED
  BY <1>1, UpToDateInvariance, PTL

----------------------------------------------------------------------------
(***************************************************************************)
(* The server is a chat room.                                              *)
(***************************************************************************)

\* Whoever the sender has passed and is still there has been told something.
Told ==
  \A k \in Entries, c \in OpenSessions, d \in Sessions :
    clientSockets[k] = own[c] /\ peer[c] = "up" /\ thread[d] = "send" /\ k < pos[d] =>
      stream[c] # <<>>

\* A thread reads from its own client, and ends because that one is gone.
OwnEnd ==
  \A c \in Sessions : /\ thread[c] = "read" => source[c] = c
                      /\ thread[c] = "remove" => peer[c] # "up"

\* While nobody has the mutex nobody sends.
LEMMA NoSender ==
  ASSUME IInv, mutex = NoSession, NEW c \in Sessions
  PROVE  thread[c] # "send"
BY ChatAssumption DEF IInv, Exclusive

\* A step that begins or ends without a sender passes nobody.
LEMMA NobodyTold ==
  ASSUME \A d \in Sessions : thread'[d] = "send" => pos'[d] = 0
  PROVE  Told'
<1>1. \A k \in Entries' : 0 <= k
  BY DEF Entries
<1>2. \A k \in Entries' : ~(k < 0)
  BY <1>1 DEF Entries
<1> QED
  BY <1>2 DEF Told

\* The write that passes a session is one to that session.
LEMMA WriteTold ==
  ASSUME IInv, Matched, Told, NEW c \in Sessions, Write(c) \/ WriteClosed(c) \/ WriteFails(c)
  PROVE  Told'
<1>1. /\ thread[c] = "send" /\ pos[c] < clientCnt /\ pos' = [pos EXCEPT ![c] = @ + 1]
      /\ UNCHANGED <<clientCnt, clientSockets, main, current, thread, own>>
  BY DEF Write, WriteClosed, WriteFails, registry, mainVars
<1>2. OpenSessions' = OpenSessions /\ Entries' = Entries /\ pos[c] \in Nat
  BY <1>1 DEF OpenSessions, Entries, IInv, TypeOK
<1>3. ASSUME NEW d \in OpenSessions PROVE peer'[d] = "up" => peer[d] = "up"
  BY DEF Write, WriteClosed, WriteFails, IInv, TypeOK, OpenSessions
<1>4. /\ \A d \in Sessions : stream[d] # <<>> => stream'[d] # <<>>
      /\ \A d \in Sessions : Target(c) = d /\ peer[d] = "up" => stream'[d] # <<>>
  <2>1. CASE WriteFails(c)
    BY <2>1, ChatAssumption DEF WriteFails, history
  <2>2. CASE Write(c) \/ WriteClosed(c)
    <3>1. Target(c) \in Sessions
      BY <2>2, OpenOnType DEF Write, WriteClosed, Target, IInv
    <3>2. stream' = [stream EXCEPT ![Target(c)] = Append(@, number[c])]
      BY <2>2 DEF Write, WriteClosed
    <3>3. \A d \in Sessions : stream[d] \in Seq(Nat) /\ number[c] \in Nat
      BY DEF IInv, TypeOK
    <3>4. \A d \in Sessions : Append(stream[d], number[c]) # <<>>
      <4>1. \A s \in Seq(Nat), n \in Nat : Len(Append(s, n)) = Len(s) + 1 /\ Len(s) + 1 # 0
        OBVIOUS
      <4>2. Len(<<>>) = 0
        OBVIOUS
      <4> QED
        BY <3>3, <4>1, <4>2
    <3> QED
      BY <3>1, <3>2, <3>4 DEF IInv, TypeOK
  <2> QED
    BY <2>1, <2>2
<1>5. ASSUME NEW k \in Entries, NEW d \in OpenSessions, NEW e \in Sessions,
             clientSockets[k] = own[d], peer'[d] = "up", thread[e] = "send", k < pos'[e]
      PROVE  stream'[d] # <<>>
  <2>1. e = c /\ d \in Sessions /\ peer[d] = "up"
    BY <1>1, <1>3, <1>5, OneSender, OpenNotDone
  <2>2. CASE k < pos[c]
    BY <1>1, <1>4, <1>5, <2>1, <2>2 DEF Told
  <2>3. CASE k = pos[c]
    <3>1. Target(c) = d
      BY <1>1, <1>5, <2>1, <2>3, OpenReachable, TargetIsSession DEF Reachable
    <3> QED
      BY <1>4, <2>1, <3>1
  <2>4. k < pos[c] \/ k = pos[c]
    BY <1>1, <1>2, <1>5, <2>1 DEF Entries, IInv, TypeOK
  <2> QED
    BY <2>2, <2>3, <2>4
<1> QED
  BY <1>1, <1>2, <1>5 DEF Told

LEMMA ToldStep ==
  ASSUME IInv, Matched, Told, [Next]_vars
  PROVE  Told'
<1>1. CASE \E c \in Sessions : Write(c) \/ WriteClosed(c) \/ WriteFails(c)
  BY <1>1, WriteTold
<1>2. CASE \E c \in Sessions : Lock(c) \/ Remove(c)
  BY <1>2, NoSender, NobodyTold DEF Lock, Remove, MutexFree, IInv, TypeOK
<1>3. CASE Register
  BY <1>3, NoSender, NobodyTold DEF Register, MutexFree
<1>4. CASE \E c \in Sessions : Unlock(c)
  BY <1>4, OneSender, NobodyTold DEF Unlock, IInv, TypeOK
<1>5. CASE Other
  <2>1. UNCHANGED <<clientSockets, stream, pos>> /\ Entries' = Entries
    BY <1>5, OthersAside DEF registry, Entries
  <2> QED
    BY <1>5, <2>1, OthersAside DEF Told
<1> QED
  BY <1>1, <1>2, <1>3, <1>4, <1>5 DEF Next, Main, Thread, Other

\* read() is issued on the session's own connection, and a client that has closed stays away.
LEMMA OwnEndStep ==
  ASSUME IInv, Matched, ~Mixup, OwnEnd, [Next]_vars
  PROVE  OwnEnd'
<1> USE DEF IInv, TypeOK
<1>1. CASE Create
  BY <1>1 DEF Create, Pending, OwnEnd, network
<1>2. CASE \E c \in Sessions : Issue(c)
  <2>1. PICK c \in Sessions : Issue(c)
    BY <1>2
  <2>2. sock[c] = own[c] /\ OpenOn(sock[c]) # NoSession /\ thread[c] = "issue"
    BY <2>1 DEF Issue, Mixup
  <2>3. OpenOn(sock[c]) = c
    BY <2>2 DEF OpenOn, Matched
  <2>4. /\ source' = [source EXCEPT ![c] = c]
        /\ thread' = [thread EXCEPT ![c] = "read"] /\ peer' = peer
    BY <2>1, <2>3 DEF Issue, network
  <2> QED
    BY <2>4 DEF OwnEnd
<1>3. CASE \E c \in Sessions : ReadEnd(c)
  BY <1>3 DEF ReadEnd, OwnEnd, network
<1>4. CASE \E c \in Sessions : \/ Start(c) \/ Read(c) \/ ReadError(c) \/ Lock(c) \/ Unlock(c)
                               \/ Remove(c) \/ Close(c)
  <2>1. PICK c \in Sessions, t \in Jobs \ {"read", "remove"} : thread' = [thread EXCEPT ![c] = t]
    BY <1>4 DEF Start, Read, ReadError, Lock, Unlock, Remove, Close, Jobs
  <2>2. UNCHANGED source /\ \A d \in Sessions : peer'[d] = "up" => peer[d] = "up"
    BY <1>4 DEF Start, Read, ReadError, Lock, Unlock, Remove, Close, network
  <2> QED
    BY <2>1, <2>2 DEF OwnEnd
<1>5. CASE UNCHANGED <<thread, source>>
  <2>1. \A d \in Sessions : peer'[d] = "up" => peer[d] = "up" \/ peer[d] = "none"
    <3>1. CASE Main \/ UNCHANGED vars
      BY <3>1 DEF Main, Accept, AcceptFails, Register, Overrun, Create, vars, network
    <3>2. CASE \E c \in Sessions : Thread(c)
      BY <3>2 DEF Thread, Start, Issue, Read, ReadEnd, ReadError, Lock, Write, WriteClosed,
         WriteFails, WriteKills, Unlock, Remove, Close, network
    <3>3. CASE \E c \in Sessions : Client(c)
      BY <3>3 DEF Client, Connect, Send, Receive, Quit
    <3> QED
      BY <3>1, <3>2, <3>3 DEF Next
  <2>2. \A d \in Sessions : peer[d] = "none" => thread[d] # "remove"
    BY DEF Begun
  <2> QED
    BY <1>5, <2>1, <2>2 DEF OwnEnd
<1> QED
  BY <1>1, <1>2, <1>3, <1>4, <1>5 DEF Next, Main, Accept, AcceptFails, Register, Overrun, Thread,
     Write, WriteClosed, WriteFails, WriteKills, Client, Connect, Send, Receive, Quit, vars

\* As long as every thread found its own descriptor, nobody who is there is passed over, and
\* nobody who is there is removed.
THEOREM ToldInvariance == Spec => [](~Mixup => Told /\ OwnEnd)
<1>1. Init => Told /\ OwnEnd
  <2> SUFFICES ASSUME Init PROVE Told /\ OwnEnd
    OBVIOUS
  <2>1. Entries = {} /\ \A c \in Sessions : thread[c] = "none"
    BY DEF Init, Entries
  <2> QED
    BY <2>1 DEF Told, OwnEnd
<1>2. /\ IInv /\ Registry /\ (~Mixup => Told /\ OwnEnd) /\ [Next]_vars
      => (~Mixup => Told /\ OwnEnd)'
  <2> SUFFICES ASSUME IInv, Registry, ~Mixup => Told /\ OwnEnd, [Next]_vars, ~Mixup'
               PROVE  Told' /\ OwnEnd'
    OBVIOUS
  <2>1. Told /\ OwnEnd /\ Matched /\ ~Mixup
    BY MixupLasts DEF Registry
  <2> QED
    BY <2>1, ToldStep, OwnEndStep
<1> QED
  BY <1>1, <1>2, Invariance, RegistryInvariance, PTL DEF Spec

----------------------------------------------------------------------------
\* The members of the room are the sessions in progress.
LEMMA MembersAre == ASSUME IInv PROVE Room!Members = OpenSessions
<1>1. OpenSessions \subseteq Sessions
  BY DEF OpenSessions, IInv, Pending
<1>2. \A c \in Sessions : Standings[c] \in {"in", "left"} <=> c \in OpenSessions
  BY DEF Standings, Standing
<1> QED
  BY <1>1, <1>2 DEF Room!Members

LEMMA RoomCardinality == ASSUME IInv PROVE Room!Cardinality(Room!Members) = clientCnt
<1>1. Room!Cardinality(OpenSessions) = Cardinality(OpenSessions)
  BY DEF Room!Cardinality, Cardinality
<1> QED
  BY <1>1, MembersAre DEF IInv, CountIsSessions

LEMMA StandingsStay ==
  ASSUME OpenSessions' = OpenSessions,
         \A c \in OpenSessions : peer'[c] = "up" <=> peer[c] = "up",
         \A c \in Sessions \ OpenSessions : thread'[c] = "none" <=> thread[c] = "none"
  PROVE  Standings' = Standings
<1>1. ASSUME NEW c \in Sessions PROVE Standing(c)' = Standing(c)
  BY DEF Standing
<1> QED
  BY <1>1 DEF Standings

LEMMA OneStanding ==
  ASSUME NEW c \in Sessions, NEW s, Standing(c)' = s,
         \A d \in Sessions \ {c} : Standing(d)' = Standing(d)
  PROVE  Standings' = [Standings EXCEPT ![c] = s]
BY DEF Standings

\* Only the start of a thread can be a mix-up.
LEMMA MixupStays ==
  ASSUME IInv, [Next]_vars, \A c \in Sessions : ~Start(c)
  PROVE  Mixup' = Mixup
<1> USE DEF IInv, TypeOK
<1>1. ASSUME NEW c \in Sessions, thread'[c] \notin {"none", "start"}
      PROVE  thread[c] \notin {"none", "start"}
  <2>1. CASE Create
    BY <1>1, <2>1 DEF Create, Pending
  <2>2. CASE \E d \in Sessions : Thread(d)
    BY <1>1, <2>2 DEF Thread, Issue, Read, ReadEnd, ReadError, Lock, Write, WriteClosed,
       WriteFails, WriteKills, Unlock, Remove, Close
  <2>3. CASE UNCHANGED thread
    BY <1>1, <2>3
  <2> QED
    BY <2>1, <2>2, <2>3 DEF Next, Main, Accept, AcceptFails, Register, Overrun,
       Client, Connect, Send, Receive, Quit, vars
<1>2. UNCHANGED sock
  BY DEF Next, Main, Accept, AcceptFails, Register, Overrun, Create, Thread, Issue, Read, ReadEnd,
         ReadError, Lock, Write, WriteClosed, WriteFails, WriteKills, Unlock, Remove, Close,
         Client, Connect, Send, Receive, Quit, vars
<1>3. UNCHANGED own \/ \E d \in Sessions : Accept(d)
  BY DEF Next, Main, AcceptFails, Register, Overrun, Create, Thread, Start, Issue, Read, ReadEnd, ReadError,
         Lock, Write, WriteClosed, WriteFails, WriteKills, Unlock, Remove, Close,
         Client, Connect, Send, Receive, Quit, vars
<1>4. \A c \in Sessions : thread[c] # "none" => own'[c] = own[c]
  BY <1>3 DEF Accept, Begun
<1>5. Mixup' => Mixup
  BY <1>1, <1>2, <1>4 DEF Mixup
<1> QED
  BY <1>5, MixupLasts DEF Mixup

\* Steps that nobody in the room notices.
LEMMA Unseen ==
  ASSUME UNCHANGED <<broadcasts, mutex, stream, alive>>, Mixup' = Mixup, Standings' = Standings
  PROVE  UNCHANGED Room!vars
BY DEF Room!vars

\* The descriptor the sender is at is one of a session in progress.
LEMMA TargetOpen ==
  ASSUME IInv, Matched, NEW c \in Sessions, thread[c] = "send", pos[c] < clientCnt,
         Target(c) # NoSession
  PROVE  Target(c) \in OpenSessions /\ clientSockets[pos[c]] = own[Target(c)]
<1>1. pos[c] \in Entries /\ clientSockets[pos[c]] \in Fds
  BY DEF Target, OpenOn, Entries, IInv, TypeOK
<1>2. PICK d \in OpenSessions : clientSockets[pos[c]] = own[d]
  BY <1>1 DEF Matched
<1>3. Target(c) = d
  BY <1>1, <1>2, TargetIsSession
<1> QED
  BY <1>2, <1>3

\* Entering a socket lets its client in.
LEMMA RegisterRefines ==
  ASSUME IInv, Mixup' = Mixup, Register
  PROVE  Room!Next
<1>1. /\ main = "register" /\ main' = "create" /\ alive /\ mutex = NoSession
      /\ clientCnt < MAX_CLNT
      /\ UNCHANGED <<current, thread, peer, mutex, broadcasts, stream, alive>>
  BY DEF Register, MutexFree, network, history
<1>2. PICK c \in Sessions : c = current /\ c = current' /\ thread[c] = "none"
  BY <1>1 DEF IInv, Pending
<1>3. OpenSessions' = OpenSessions \cup {c} /\ c \notin OpenSessions
  BY <1>1, <1>2 DEF OpenSessions
<1>4. Standing(c) = "out" /\ Standing(c)' \in {"in", "left"}
  BY <1>2, <1>3 DEF Standing
<1>5. \A d \in Sessions \ {c} : Standing(d)' = Standing(d)
  <2>1. UNCHANGED <<thread, peer>>
    BY <1>1
  <2> QED
    BY <1>3, <2>1 DEF Standing
<1>6. Standings[c] = "out"
  BY <1>4 DEF Standings
<1>7. \E s \in {"in", "left"} : Standings' = [Standings EXCEPT ![c] = s]
  BY <1>4, <1>5, OneStanding
<1>8. Room!Join(c)
  BY <1>1, <1>6, <1>7, RoomCardinality DEF Room!Join
<1> QED
  BY <1>8 DEF Room!Next

\* A session more than there are entries ends the chat.
LEMMA OverrunRefines ==
  ASSUME IInv, Mixup' = Mixup, Overrun
  PROVE  Room!Next
<1>1. /\ main = "register" /\ main' = "overrun" /\ alive /\ mutex = NoSession /\ alive' = FALSE
      /\ clientCnt >= MAX_CLNT
      /\ UNCHANGED <<current, thread, peer, mutex, broadcasts, stream>>
  BY DEF Overrun, MutexFree, network, history
<1>2. OpenSessions' = OpenSessions
  BY <1>1 DEF OpenSessions
<1>3. Standings' = Standings
  BY <1>1, <1>2, StandingsStay
<1>4. clientCnt = MAX_CLNT
  BY <1>1, ChatAssumption DEF IInv, InArray, TypeOK
<1>5. Room!Overflow
  BY <1>1, <1>3, <1>4, RoomCardinality DEF Room!Overflow
<1> QED
  BY <1>5 DEF Room!Next

\* Taking the mutex begins to say something.
LEMMA LockRefines ==
  ASSUME IInv, Mixup' = Mixup, NEW c \in Sessions, Lock(c)
  PROVE  Room!Next
<1>1. /\ thread[c] = "lock" /\ alive /\ mutex = NoSession /\ mutex' = c
      /\ broadcasts' = broadcasts + 1
      /\ thread' = [thread EXCEPT ![c] = "send"]
      /\ UNCHANGED <<main, current, peer, stream, alive>>
  BY DEF Lock, MutexFree, mainVars, network
<1>2. OpenSessions' = OpenSessions /\ c \in OpenSessions
  BY <1>1 DEF OpenSessions, IInv, TypeOK
<1>3. Standings' = Standings
  BY <1>1, <1>2, StandingsStay DEF IInv, TypeOK
<1>4. Room!Say(c)
  BY <1>1, <1>2, <1>3, MembersAre DEF Room!Say
<1> QED
  BY <1>4 DEF Room!Next

\* A write is heard by a session in progress that has heard what came before.
LEMMA WriteRefines ==
  ASSUME IInv, ~Mixup => Matched /\ UpToDate, Mixup' = Mixup, NEW c \in Sessions,
         Write(c) \/ WriteClosed(c)
  PROVE  Room!Next
<1>1. /\ thread[c] = "send" /\ pos[c] < clientCnt /\ alive
      /\ Target(c) # NoSession /\ peer[Target(c)] \in {"up", "fin"}
      /\ stream' = [stream EXCEPT ![Target(c)] = Append(@, number[c])]
      /\ UNCHANGED <<main, current, thread, mutex, broadcasts, alive>>
  BY DEF Write, WriteClosed, mainVars
<1>2. \A d \in Sessions : peer'[d] = "up" <=> peer[d] = "up"
  BY DEF Write, WriteClosed, IInv, TypeOK
<1>3. OpenSessions' = OpenSessions
  BY <1>1 DEF OpenSessions
<1>4. Standings' = Standings
  BY <1>1, <1>2, <1>3, StandingsStay DEF OpenSessions, IInv, Pending
<1>5. Target(c) \in Sessions
  BY <1>1, OpenOnType DEF Target, IInv
<1>6. mutex = c /\ number[c] = broadcasts /\ mutex # NoSession
  BY <1>1, ChatAssumption DEF IInv, Exclusive
<1>7. ASSUME ~Mixup PROVE Target(c) \in OpenSessions /\ Room!Follows(Target(c))
  <2>1. Target(c) \in OpenSessions /\ clientSockets[pos[c]] = own[Target(c)]
    BY <1>1, <1>7, TargetOpen
  <2>2. pos[c] \in Entries /\ Due(pos[c]) = broadcasts - 1 /\ broadcasts \in Nat
    BY <1>1, DueSender DEF Entries, IInv, TypeOK
  <2>3. stream[Target(c)] # <<>> => stream[Target(c)][Len(stream[Target(c)])] = broadcasts - 1
    BY <1>1, <1>7, <2>1, <2>2 DEF UpToDate, Latest, Reachable
  <2> QED
    BY <2>1, <2>2, <2>3 DEF Room!Follows
<1>8. Room!Hear(Target(c))
  BY <1>1, <1>4, <1>6, <1>7, MembersAre DEF Room!Hear
<1> QED
  BY <1>5, <1>8 DEF Room!Next

\* The process ends because of somebody who left.
LEMMA KillRefines ==
  ASSUME IInv, ~Mixup => Matched, Mixup' = Mixup, NEW c \in Sessions, WriteKills(c)
  PROVE  Room!Next
<1>1. /\ thread[c] = "send" /\ pos[c] < clientCnt /\ alive /\ alive' = FALSE
      /\ Target(c) # NoSession /\ peer[Target(c)] \in {"reset", "broken"}
      /\ UNCHANGED <<main, current, thread, peer, mutex, broadcasts, stream>>
  BY DEF WriteKills, mainVars, network, history
<1>2. OpenSessions' = OpenSessions
  BY <1>1 DEF OpenSessions
<1>3. Standings' = Standings
  BY <1>1, <1>2, StandingsStay
<1>4. mutex # NoSession
  BY <1>1, ChatAssumption DEF IInv, Exclusive
<1>5. ASSUME ~Mixup PROVE \E d \in Sessions : Standings[d] = "left"
  <2>1. Target(c) \in OpenSessions
    BY <1>1, <1>5, TargetOpen
  <2>2. Target(c) \in Sessions /\ Standing(Target(c)) = "left"
    BY <1>1, <2>1, OpenNotDone DEF Standing
  <2> QED
    BY <2>2 DEF Standings
<1>6. Room!End
  BY <1>1, <1>3, <1>4, <1>5 DEF Room!End
<1> QED
  BY <1>6 DEF Room!Next

\* When the loop is over everybody who is still there has been written to.
LEMMA UnlockRefines ==
  ASSUME IInv, ~Mixup => Matched /\ UpToDate /\ Told, Mixup' = Mixup, NEW c \in Sessions,
         Unlock(c)
  PROVE  Room!Next
<1>1. /\ thread[c] = "send" /\ pos[c] >= clientCnt /\ alive /\ mutex' = NoSession
      /\ thread' = [thread EXCEPT ![c] = "issue"]
      /\ UNCHANGED <<main, current, peer, broadcasts, stream, alive>>
  BY DEF Unlock, Release, mainVars, network
<1>2. OpenSessions' = OpenSessions
  BY <1>1 DEF OpenSessions, IInv, TypeOK
<1>3. Standings' = Standings
  BY <1>1, <1>2, StandingsStay DEF IInv, TypeOK
<1>4. mutex # NoSession
  BY <1>1, ChatAssumption DEF IInv, Exclusive
<1>5. ASSUME ~Mixup, NEW d \in Sessions, Standings[d] = "in" PROVE Room!Heard(d)
  <2>1. d \in OpenSessions /\ peer[d] = "up"
    BY <1>5 DEF Standings, Standing
  <2>2. PICK k \in Entries : clientSockets[k] = own[d]
    BY <1>5, <2>1 DEF Matched
  <2>3. k < pos[c] /\ ~(pos[c] <= k)
    <3>1. pos[c] \in Nat /\ clientCnt \in Nat /\ clientCnt <= pos[c]
      BY <1>1 DEF IInv, TypeOK
    <3> QED
      BY <2>2, <3>1 DEF Entries
  <2>4. stream[d] # <<>>
    BY <1>1, <1>5, <2>1, <2>2, <2>3 DEF Told
  <2>5. Due(k) = broadcasts
    BY <1>1, <2>3, DueSender
  <2>6. stream[d][Len(stream[d])] = broadcasts
    BY <1>5, <2>1, <2>2, <2>4, <2>5 DEF UpToDate, Latest, Reachable
  <2> QED
    BY <2>4, <2>6 DEF Room!Heard
<1>6. Room!Finish
  BY <1>1, <1>3, <1>4, <1>5 DEF Room!Finish
<1> QED
  BY <1>6 DEF Room!Next

\* A thread that removes its socket lets somebody go who left.
LEMMA RemoveRefines ==
  ASSUME IInv, ~Mixup => OwnEnd, Mixup' = Mixup, NEW c \in Sessions, Remove(c)
  PROVE  Room!Next
<1>1. /\ thread[c] = "remove" /\ alive /\ mutex = NoSession
      /\ thread' = [thread EXCEPT ![c] = "close"]
      /\ UNCHANGED <<main, current, peer, mutex, broadcasts, stream, alive>>
  BY DEF Remove, MutexFree, mainVars, network, history
<1>2. OpenSessions' = OpenSessions \ {c} /\ c \in OpenSessions
  BY <1>1 DEF OpenSessions, IInv, Pending, TypeOK
<1>3. Standing(c)' = "gone" /\ \A d \in Sessions \ {c} : Standing(d)' = Standing(d)
  BY <1>1, <1>2 DEF Standing, IInv, TypeOK
<1>4. Standings' = [Standings EXCEPT ![c] = "gone"]
  BY <1>3, OneStanding
<1>5. ~Mixup => Standings[c] = "left"
  BY <1>1, <1>2 DEF OwnEnd, Standings, Standing
<1>6. Room!LetGo(c)
  BY <1>1, <1>2, <1>4, <1>5, MembersAre DEF Room!LetGo
<1> QED
  BY <1>6 DEF Room!Next

\* A client that quits leaves the room if it was in it.
LEMMA QuitRefines ==
  ASSUME IInv, Mixup' = Mixup, NEW c \in Sessions, Quit(c)
  PROVE  Room!Next \/ UNCHANGED Room!vars
<1>1. /\ peer[c] = "up" /\ peer'[c] # "up" /\ \A d \in Sessions \ {c} : peer'[d] = peer[d]
      /\ UNCHANGED <<main, current, thread, mutex, broadcasts, stream, alive>>
  BY DEF Quit, mainVars, history, IInv, TypeOK
<1>2. OpenSessions' = OpenSessions /\ OpenSessions \subseteq Sessions
  BY <1>1 DEF OpenSessions, IInv, Pending
<1>3. CASE c \notin OpenSessions
  <2>1. Standings' = Standings
    BY <1>1, <1>2, <1>3, StandingsStay
  <2> QED
    BY <1>1, <2>1, Unseen
<1>4. CASE c \in OpenSessions
  <2>1. /\ Standing(c) = "in" /\ Standing(c)' = "left"
        /\ \A d \in Sessions \ {c} : Standing(d)' = Standing(d)
    BY <1>1, <1>2, <1>4 DEF Standing
  <2>2. Standings[c] = "in" /\ Standings' = [Standings EXCEPT ![c] = "left"]
    BY <2>1, OneStanding DEF Standings
  <2>3. Room!Leave(c)
    BY <1>1, <2>2 DEF Room!Leave
  <2> QED
    BY <2>3 DEF Room!Next
<1> QED
  BY <1>3, <1>4

\* A thread that finds the descriptor of another session confuses the room.
LEMMA StartRefines ==
  ASSUME IInv, [Next]_vars, NEW c \in Sessions, Start(c)
  PROVE  Room!Next \/ UNCHANGED Room!vars
<1>1. /\ thread[c] = "start" /\ alive /\ thread' = [thread EXCEPT ![c] = "issue"]
      /\ UNCHANGED <<main, current, peer, mutex, broadcasts, stream, alive>>
  BY DEF Start, mainVars, network, history
<1>2. OpenSessions' = OpenSessions /\ c \in OpenSessions
  BY <1>1 DEF OpenSessions, IInv, TypeOK
<1>3. Standings' = Standings
  BY <1>1, <1>2, StandingsStay DEF IInv, TypeOK
<1>4. CASE Mixup' = Mixup
  BY <1>1, <1>3, <1>4, Unseen
<1>5. CASE Mixup' # Mixup
  <2>1. Mixup' = TRUE
    BY <1>5, MixupLasts DEF Mixup
  <2>2. Room!Confuse
    BY <1>1, <1>2, <1>3, <2>1, MembersAre DEF Room!Confuse
  <2> QED
    BY <2>2 DEF Room!Next
<1> QED
  BY <1>4, <1>5

\* What main and the threads do besides, and a client that connects, sends or receives.
Quiet ==
  \/ Create
  \/ \E c \in Sessions :
       \/ Accept(c) \/ AcceptFails(c) \/ Connect(c) \/ Send(c) \/ Receive(c)
       \/ Issue(c) \/ Read(c) \/ ReadEnd(c) \/ ReadError(c) \/ WriteFails(c) \/ Close(c)

LEMMA QuietRefines ==
  ASSUME IInv, Mixup' = Mixup, Quiet
  PROVE  UNCHANGED Room!vars
<1>1. UNCHANGED <<broadcasts, mutex, stream, alive>>
  BY DEF Quiet, Create, Accept, AcceptFails, Connect, Send, Receive, Issue, Read, ReadEnd,
         ReadError, WriteFails, Close, history
<1>2. OpenSessions' = OpenSessions
  <2>1. CASE \E c \in Sessions : WriteFails(c)
    BY <2>1 DEF WriteFails, mainVars, OpenSessions
  <2>2. CASE Other
    BY <2>2, OthersAside
  <2> QED
    BY <2>1, <2>2 DEF Quiet, Other, Client
<1>3. ASSUME NEW c \in OpenSessions PROVE peer'[c] = "up" <=> peer[c] = "up"
  <2>1. c \in Sessions /\ peer[c] # "none"
    BY DEF OpenSessions, IInv, Begun, Pending
  <2> QED
    BY <2>1 DEF Quiet, Create, Accept, AcceptFails, Connect, Send, Receive, Issue, Read, ReadEnd,
       ReadError, WriteFails, Close, network, IInv, TypeOK
<1>4. ASSUME NEW c \in Sessions \ OpenSessions PROVE thread'[c] = "none" <=> thread[c] = "none"
  <2>1. CASE Create
    BY <2>1 DEF Create, OpenSessions, IInv, TypeOK
  <2>2. CASE \E d \in Sessions : Issue(d) \/ Read(d) \/ ReadEnd(d) \/ ReadError(d) \/ Close(d)
    BY <2>2 DEF Issue, Read, ReadEnd, ReadError, Close, IInv, TypeOK
  <2>3. CASE UNCHANGED thread
    BY <2>3
  <2> QED
    BY <2>1, <2>2, <2>3 DEF Quiet, Accept, AcceptFails, Connect, Send, Receive, WriteFails
<1>5. Standings' = Standings
  BY <1>2, <1>3, <1>4, StandingsStay
<1> QED
  BY <1>1, <1>5, Unseen

\* The server is a chat room: whoever is in the chat when a broadcast begins is written to,
\* once and before the next one, and nobody is removed who has not left, until a thread finds
\* another session's descriptor; and in any case one broadcast goes out at a time.
THEOREM Refines == Spec => ImplementsRoom
<1>1. Init => Room!Init
  <2> SUFFICES ASSUME Init PROVE Room!Init
    OBVIOUS
  <2>1. ~Mixup /\ OpenSessions = {} /\ \A c \in Sessions : thread[c] = "none"
    BY DEF Init, Mixup, OpenSessions
  <2>2. Mixup = FALSE
    BY <2>1 DEF Mixup
  <2> QED
    BY <2>1, <2>2 DEF Init, Room!Init, Standings, Standing
<1>2. /\ IInv /\ Registry /\ (~Mixup => UpToDate) /\ (~Mixup => Told /\ OwnEnd) /\ [Next]_vars
      => [Room!Next]_Room!vars
  <2> SUFFICES ASSUME IInv, Registry, ~Mixup => UpToDate, ~Mixup => Told /\ OwnEnd, [Next]_vars
               PROVE  Room!Next \/ UNCHANGED Room!vars
    OBVIOUS
  <2>1. CASE \E c \in Sessions : Start(c)
    BY <2>1, StartRefines
  <2>2. CASE \A c \in Sessions : ~Start(c)
    <3>1. Mixup' = Mixup
      BY <2>2, MixupStays
    <3>2. ~Mixup => Matched
      BY DEF Registry
    <3>3. CASE Quiet
      BY <3>1, <3>3, QuietRefines
    <3>4. CASE Register
      BY <3>1, <3>4, RegisterRefines
    <3>9. CASE Overrun
      BY <3>1, <3>9, OverrunRefines
    <3>5. CASE \E c \in Sessions :
                 Lock(c) \/ Write(c) \/ WriteClosed(c) \/ WriteKills(c) \/ Unlock(c)
      BY <3>1, <3>2, <3>5, LockRefines, WriteRefines, KillRefines, UnlockRefines
    <3>6. CASE \E c \in Sessions : Remove(c)
      BY <3>1, <3>6, RemoveRefines
    <3>7. CASE \E c \in Sessions : Quit(c)
      BY <3>1, <3>7, QuitRefines
    <3>8. CASE UNCHANGED vars
      <4>1. Standings' = Standings
        BY <3>8 DEF vars, mainVars, network, Standings, Standing, OpenSessions
      <4> QED
        BY <3>1, <3>8, <4>1, Unseen DEF vars, history
    <3> QED
      BY <2>2, <3>3, <3>4, <3>5, <3>6, <3>7, <3>8, <3>9 DEF Quiet, Next, Main, Thread, Client
  <2> QED
    BY <2>1, <2>2
<1> QED
  BY <1>1, <1>2, Invariance, RegistryInvariance, UpToDateInvariance, ToldInvariance, PTL
  DEF Spec, ImplementsRoom, Room!Spec
=============================================================================

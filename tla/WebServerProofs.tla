--------------------------- MODULE WebServerProofs ---------------------------
(***************************************************************************)
(* Proofs about the web server of WebServer, for every number of clients   *)
(* and of descriptors: as long as each thread finds the descriptor that    *)
(* was meant for it, every client gets the one answer to its own request,  *)
(* and the descriptors belong to the threads that will close them, except  *)
(* for those the code forgets.                                             *)
(***************************************************************************)
EXTENDS WebServer, FiniteSetTheorems, TLAPS

Idle == {"none", "start"}
Late == {"fopen", "send", "no_file", "close_write", "left", "done"}
Answered == {"close_error", "close_write", "left", "done"}

\* main's order of steps: the thread of a connection is new when main creates it.
MainOrder ==
  /\ main = "create" =>
       /\ current \in Conns /\ thread[current] = "none"
       /\ peer[current] \in {"accepted", "failed"}
  /\ \A t \in Conns : peer[t] \in {"none", "up"} =>
       thread[t] = "none" /\ own[t] = NoFd /\ t \notin starved
  /\ \A t \in Conns : peer[t] \notin {"none", "up"} => own[t] # NoFd \/ t \in starved
  /\ \A t \in Conns : thread[t] \in {"none", "start", "open", "dup"} => writeFd[t] = NoFd
  /\ \A t \in Conns : thread[t] \in {"none", "start", "open"} => t \notin readClient

\* What thread t opened is open on its connection until it closes it.
Holds(t) ==
  /\ own[t] # NoFd /\ thread[t] \notin Late => own[t] \in Fds /\ fdTable[own[t]] = t
  /\ writeFd[t] # NoFd /\ thread[t] # "done" => writeFd[t] \in Fds /\ fdTable[writeFd[t]] = t
  /\ writeFd[t] # NoFd /\ thread[t] \notin Late => own[t] # writeFd[t]
  /\ own[t] = NoFd => writeFd[t] = NoFd

\* Thread t reads the request of its own client.
Reads(t) ==
  /\ thread[t] = "wait" => source[t] = t
  /\ thread[t] \in {"method", "name", "base", "extension"} =>
       request[t] = t /\ kind[t] # "garbage"

\* The tokens thread t gets are those of its request, unless another thread called strtok().
Parses(t) ==
  /\ thread[t] = "name" /\ save.by = t => save.next = "name" /\ save.of = t
  /\ t \notin disturbed /\ thread[t] \in {"base", "extension", "close", "fopen", "send", "no_file"}
       => fileName[t] = t
  /\ t \notin disturbed /\ thread[t] = "extension" /\ save.by = t =>
       save.next = IF kind[t] = "plain" THEN "end" ELSE "extension"
  /\ t \notin disturbed /\ thread[t] \in {"fopen", "send", "no_file"} =>
       kind[t] \in {"page", "missing"}
  /\ t \notin disturbed /\ thread[t] = "close" => kind[t] \in {"page", "missing"}

\* What a thread lacks when descriptors ran out, and what it answers otherwise.
Lacks(t) ==
  /\ thread[t] \notin Idle \cup {"open"} /\ t \notin readClient => t \in starved
  /\ thread[t] \notin Idle \cup {"open", "dup"} /\ writeFd[t] = NoFd => t \in starved
  /\ t \in starved /\ writeFd[t] # NoFd => thread[t] \in Answered \cup {"no_file"}
  /\ t \in starved /\ own[t] # NoFd => thread[t] \notin Idle \cup {"open", "dup"}
  /\ t \in readClient => own[t] # NoFd
  /\ thread[t] = "error" => kind[t] \in {"garbage", "post"}
  /\ thread[t] = "no_file" /\ t \notin disturbed \cup starved => kind[t] = "missing"
  /\ thread[t] = "send" => fileName[t] # NoConn /\ (t \notin disturbed => kind[t] = "page")

\* Client t is answered once, by its own thread.
Replied(t) ==
  /\ thread[t] \notin Answered => reply[t] = <<>>
  /\ thread[t] \in Answered =>
       \E text \in Conns \cup {NoConn, "error"} : reply[t] = << <<t, text>> >>
  /\ t \notin disturbed => reply[t] \in {<<>>, << <<t, RightAnswer(t)>> >>}

InOrder(t) == Holds(t) /\ Reads(t) /\ Parses(t) /\ Lacks(t) /\ Replied(t)

\* Every descriptor of a connection is that of a thread.
Owned ==
  \A f \in Fds : fdTable[f] \in Conns =>
    LET t == fdTable[f] IN
      \/ own[t] = f /\ thread[t] \notin Late
      \/ writeFd[t] = f /\ thread[t] # "done"

\* The files that are open are as many as threads opened one.
Files == {f \in Fds : fdTable[f] = "file"}
Senders == {t \in Conns : thread[t] = "send" \/ reply[t] = << <<t, fileName[t]>> >>}
FilesCounted == Cardinality(Files) = Cardinality(Senders)

CrashExcused == crashed \in disturbed \cup starved \cup {c \in Conns : kind[c] = "plain"} \cup {NoConn}

Clean == (\A t \in Conns : InOrder(t)) /\ Owned /\ FilesCounted /\ CrashExcused

IInv == TypeOK /\ MainOrder /\ (MixedUp \/ Clean)

----------------------------------------------------------------------------
LEMMA Constants ==
  /\ IsFiniteSet(Conns) /\ NoConn \notin Conns
  /\ IsFiniteSet(Fds) /\ NoFd \notin Fds
  /\ "free" \notin Conns /\ "file" \notin Conns /\ "barred" \notin Conns
  /\ "error" \notin Conns \cup {NoConn}
  /\ Kinds \subseteq {"page", "missing", "plain", "post", "garbage"}
BY WebAssumption DEF NoFd

LEMMA FinitelyMany == IsFiniteSet(Files) /\ IsFiniteSet(Senders)
<1>1. Files \in SUBSET Fds /\ Senders \in SUBSET Conns
  BY DEF Files, Senders
<1> QED
  BY <1>1, Constants, FS_Subset

LEMMA InitIInv == Init => IInv
<1> SUFFICES ASSUME Init PROVE IInv
  OBVIOUS
<1> USE Constants DEF Init
<1>1. TypeOK
  BY DEF TypeOK
<1>2. MainOrder
  BY DEF MainOrder
<1>3. \A t \in Conns : Holds(t) /\ Reads(t) /\ Parses(t) /\ Lacks(t) /\ Replied(t)
  BY DEF Holds, Reads, Parses, Lacks, Replied, Idle, Late, Answered
<1>4. Owned
  BY DEF Owned
<1>5. FilesCounted
  <2>1. Files = {} /\ Senders = {}
    <3>1. \A t \in Conns : <<>> # << <<t, fileName[t]>> >>
      OBVIOUS
    <3> QED
      BY <3>1 DEF Files, Senders
  <2> QED
    BY <2>1 DEF FilesCounted
<1>6. CrashExcused
  BY DEF CrashExcused
<1> QED
  BY <1>1, <1>2, <1>3, <1>4, <1>5, <1>6 DEF IInv, Clean, InOrder

----------------------------------------------------------------------------
(***************************************************************************)
(* Types.                                                                  *)
(***************************************************************************)

LEMMA CloseType ==
  ASSUME fdTable \in [Fds -> Conns \cup {"free", "file", "barred"}], NEW f, Close(f)
  PROVE  /\ fdTable' \in [Fds -> Conns \cup {"free", "file", "barred"}]
         /\ \A g \in Fds : fdTable'[g] # fdTable[g] => g = f /\ fdTable'[g] = "free"
BY DEF Close

LEMMA OpenOnType ==
  ASSUME NEW f
  PROVE  OpenOn(f) \in Conns \cup {NoConn}
BY DEF OpenOn

LEMMA MainType ==
  ASSUME TypeOK, MainOrder, Main
  PROVE  TypeOK'
<1>1. CASE Create
  BY <1>1 DEF Create, TypeOK, MainOrder, shared, locals, clients, history
<1>2. ASSUME NEW c \in Conns, Accept(c) PROVE TypeOK'
  BY <1>2 DEF Accept, TypeOK, locals
<1>3. ASSUME NEW c \in Conns, AcceptFails(c) PROVE TypeOK'
  BY <1>3 DEF AcceptFails, TypeOK, locals
<1> QED
  BY <1>1, <1>2, <1>3 DEF Main

LEMMA HandlerType ==
  ASSUME TypeOK, NEW t \in Conns, Handler(t)
  PROVE  TypeOK'
<1> USE DEF TypeOK, shared, locals, clients, history, At, Goto
<1>1. CASE Start(t)
  BY <1>1 DEF Start
<1>2. CASE OpenRead(t)
  BY <1>2 DEF OpenRead
<1>3. CASE OpenWrite(t)
  <2>1. /\ fdTable \in [Fds -> Conns \cup {"free", "file", "barred"}]
        /\ writeFd \in [Conns -> Fds \cup {NoFd}]
    OBVIOUS
  <2>2. /\ fdTable' \in [Fds -> Conns \cup {"free", "file", "barred"}]
        /\ writeFd' \in [Conns -> Fds \cup {NoFd}]
    <3> HIDE DEF TypeOK
    <3>1. CASE UNCHANGED <<fdTable, writeFd>>
      BY <2>1, <3>1
    <3>2. CASE ~UNCHANGED <<fdTable, writeFd>>
      <4>1. PICK f \in Fds : /\ fdTable' = [fdTable EXCEPT ![f] = OpenOn(sock[t])]
                             /\ writeFd' = [writeFd EXCEPT ![t] = f]
        BY <1>3, <3>2 DEF OpenWrite
      <4>2. OpenOn(sock[t]) \in Conns
        BY <1>3, <3>2, OpenOnType DEF OpenWrite
      <4> QED
        BY <2>1, <4>1, <4>2
    <3> QED
      BY <3>1, <3>2
  <2>3. starved' \subseteq Conns
    BY <1>3 DEF OpenWrite
  <2> QED
    BY <1>3, <2>2, <2>3 DEF OpenWrite
<1>4. CASE Issue(t)
  BY <1>4, OpenOnType DEF Issue
<1>5. CASE IssueFails(t)
  <2>1. CASE thread' = [thread EXCEPT ![t] = "error"] /\ UNCHANGED request
    BY <1>5, <2>1 DEF IssueFails
  <2>2. ASSUME NEW r \in Conns, request' = [request EXCEPT ![t] = r],
               thread' = [thread EXCEPT ![t] = "method"]
        PROVE  TypeOK'
    BY <1>5, <2>2 DEF IssueFails
  <2> QED
    BY <1>5, <2>1, <2>2 DEF IssueFails
<1>6. CASE IssueCrashes(t) \/ NameCrashes(t) \/ ExtensionCrashes(t) \/ AnswerCrashes(t)
  BY <1>6 DEF IssueCrashes, NameCrashes, ExtensionCrashes, AnswerCrashes, Crash, Disturb
<1>7. CASE Receive(t)
  <2>1. source[t] \in Conns
    BY <1>7 DEF Receive
  <2> QED
    BY <1>7, <2>1 DEF Receive
<1>8. CASE Method(t)
  BY <1>8 DEF Method, Begin
<1>9. CASE Name(t)
  BY <1>9 DEF Name, Token, OtherToken, Disturb
<1>10. CASE Base(t)
  BY <1>10 DEF Base, Begin, AfterBase
<1>11. CASE Extension(t)
  BY <1>11 DEF Extension, Token, OtherToken, Disturb
<1>12. CASE SendError(t) \/ NoFile(t) \/ Send(t)
  <2>1. PICK text \in Conns \cup {NoConn, "error"} : Answer(t, text)
    BY <1>12 DEF SendError, NoFile, Send
  <2>2. <<t, text>> \in Answers
    BY DEF Answers
  <2>3. reply' \in [Conns -> Seq(Answers)]
    <3>1. PICK c \in Conns \cup {NoConn} :
            reply' = IF c = NoConn THEN reply ELSE [reply EXCEPT ![c] = Append(@, <<t, text>>)]
      BY <2>1, OpenOnType DEF Answer
    <3>2. ASSUME NEW d \in Conns PROVE Append(reply[d], <<t, text>>) \in Seq(Answers)
      <4>1. reply[d] \in Seq(Answers)
        OBVIOUS
      <4> HIDE DEF TypeOK
      <4> QED
        BY <2>2, <4>1
    <3> QED
      BY <3>1, <3>2
  <2> QED
    BY <1>12, <2>3 DEF SendError, NoFile, Send
<1>13. CASE CloseRead(t)
  BY <1>13, CloseType DEF CloseRead
<1>14. CASE Fopen(t)
  <2>1. fdTable' \in [Fds -> Conns \cup {"free", "file", "barred"}]
    BY <1>14 DEF Fopen
  <2>2. starved' \subseteq Conns
    BY <1>14 DEF Fopen
  <2> QED
    BY <1>14, <2>1, <2>2 DEF Fopen
<1>15. CASE CloseWrite(t)
  BY <1>15, CloseType DEF CloseWrite
<1> QED
  BY <1>1, <1>2, <1>3, <1>4, <1>5, <1>6, <1>7, <1>8, <1>9, <1>10, <1>11, <1>12, <1>13, <1>14,
     <1>15 DEF Handler

LEMMA ConnectType ==
  ASSUME TypeOK, NEW c \in Conns, Connect(c)
  PROVE  TypeOK'
BY DEF Connect, TypeOK, shared, locals, history

----------------------------------------------------------------------------
(***************************************************************************)
(* What a handler leaves alone.                                            *)
(***************************************************************************)

\* What the step of thread t keeps of thread s and of its client.
Kept(s) ==
  /\ thread'[s] = thread[s] /\ sock'[s] = sock[s] /\ writeFd'[s] = writeFd[s]
  /\ source'[s] = source[s] /\ request'[s] = request[s] /\ fileName'[s] = fileName[s]
  /\ s \in readClient' <=> s \in readClient
  /\ s \in disturbed' <=> s \in disturbed
  /\ s \in starved' <=> s \in starved

LEMMA HandlerFrame ==
  ASSUME TypeOK, NEW t \in Conns, Handler(t)
  PROVE  /\ UNCHANGED <<main, current, clientSocket, own, kind, peer>>
         /\ \A s \in Conns : s # t => Kept(s)
         /\ thread[t] # "none" /\ thread'[t] # "none"
         /\ thread[t] # "start" => sock'[t] = sock[t]
         /\ thread'[t] \notin Idle \/ (thread'[t] = thread[t] /\ crashed' = t)
         /\ disturbed \subseteq disturbed' /\ starved \subseteq starved'
         /\ save' = save \/ save'.by = t
         /\ crashed' \in {crashed, t}
<1> USE DEF TypeOK, shared, locals, clients, history, At, Goto, Kept, Idle
<1>1. CASE Start(t)
  BY <1>1 DEF Start
<1>2. CASE OpenRead(t)
  BY <1>2 DEF OpenRead
<1>3. CASE OpenWrite(t)
  BY <1>3 DEF OpenWrite
<1>4. CASE Issue(t)
  BY <1>4 DEF Issue
<1>5. CASE IssueFails(t)
  BY <1>5 DEF IssueFails
<1>6. CASE IssueCrashes(t) \/ NameCrashes(t) \/ ExtensionCrashes(t) \/ AnswerCrashes(t)
  BY <1>6 DEF IssueCrashes, NameCrashes, ExtensionCrashes, AnswerCrashes, Crash, Disturb
<1>7. CASE Receive(t)
  BY <1>7 DEF Receive
<1>8. CASE Method(t)
  BY <1>8 DEF Method, Begin
<1>9. CASE Name(t)
  BY <1>9 DEF Name, Token, OtherToken, Disturb
<1>10. CASE Base(t)
  BY <1>10 DEF Base, Begin
<1>11. CASE Extension(t)
  BY <1>11 DEF Extension, Token, OtherToken, Disturb
<1>12. CASE SendError(t) \/ NoFile(t) \/ Send(t)
  BY <1>12 DEF SendError, NoFile, Send
<1>13. CASE CloseRead(t)
  BY <1>13 DEF CloseRead
<1>14. CASE Fopen(t)
  BY <1>14 DEF Fopen
<1>15. CASE CloseWrite(t)
  BY <1>15 DEF CloseWrite
<1> QED
  BY <1>1, <1>2, <1>3, <1>4, <1>5, <1>6, <1>7, <1>8, <1>9, <1>10, <1>11, <1>12, <1>13, <1>14,
     <1>15 DEF Handler

\* Descriptors that were mixed up stay so.
LEMMA Monotone ==
  ASSUME TypeOK, MainOrder, Next, MixedUp
  PROVE  MixedUp'
<1>1. PICK s \in Conns : thread[s] \notin {"none", "start"} /\ sock[s] # own[s]
  BY DEF MixedUp
<1>2. CASE Main
  <2>1. UNCHANGED sock /\ thread'[s] = thread[s] /\ own'[s] = own[s]
    <3>1. CASE Create
      BY <1>1, <3>1 DEF Create, TypeOK, MainOrder, locals, history
    <3>2. ASSUME NEW c \in Conns, Accept(c) PROVE thread'[s] = thread[s] /\ own'[s] = own[s]
                                                  /\ UNCHANGED sock
      BY <1>1, <3>2 DEF Accept, TypeOK, MainOrder, locals
    <3>3. ASSUME NEW c \in Conns, AcceptFails(c)
          PROVE thread'[s] = thread[s] /\ own'[s] = own[s] /\ UNCHANGED sock
      BY <3>3 DEF AcceptFails, locals
    <3> QED
      BY <1>2, <3>1, <3>2, <3>3 DEF Main
  <2> QED
    BY <1>1, <2>1 DEF MixedUp
<1>3. ASSUME NEW t \in Conns, Handler(t) PROVE MixedUp'
  <2>1. own' = own /\ thread'[s] \notin {"none", "start"} /\ sock'[s] = sock[s]
    BY <1>1, <1>3, HandlerFrame DEF Kept, Idle
  <2> QED
    BY <1>1, <2>1 DEF MixedUp
<1>4. ASSUME NEW c \in Conns, Connect(c) PROVE MixedUp'
  BY <1>1, <1>4 DEF Connect, MixedUp, locals, history
<1> QED
  BY <1>2, <1>3, <1>4 DEF Next

\* The steps of main and of the clients keep main's order.
LEMMA MainMainOrder ==
  ASSUME TypeOK, MainOrder, Main \/ \E c \in Conns : Connect(c)
  PROVE  MainOrder'
<1> USE Constants DEF TypeOK, MainOrder
<1>1. CASE Create
  BY <1>1 DEF Create, shared, locals, clients, history
<1>2. ASSUME NEW c \in Conns, Accept(c) PROVE MainOrder'
  <2>1. PICK f \in Fds : own' = [own EXCEPT ![c] = f]
    BY <1>2 DEF Accept
  <2> QED
    BY <1>2, <2>1 DEF Accept, locals
<1>3. ASSUME NEW c \in Conns, AcceptFails(c) PROVE MainOrder'
  BY <1>3 DEF AcceptFails, locals
<1>4. ASSUME NEW c \in Conns, Connect(c) PROVE MainOrder'
  BY <1>4 DEF Connect, shared, locals, history
<1> QED
  BY <1>1, <1>2, <1>3, <1>4 DEF Main

LEMMA HandlerMainOrder ==
  ASSUME TypeOK, MainOrder, NEW t \in Conns, Handler(t)
  PROVE  MainOrder'
<1>1. /\ thread'[t] \in {"none", "start", "open", "dup"} => writeFd'[t] = NoFd
      /\ thread'[t] \in {"none", "start", "open"} => t \notin readClient'
  <2> USE DEF TypeOK, MainOrder, locals, clients, history, At, Goto
  <2>1. CASE Start(t) \/ OpenRead(t) \/ OpenWrite(t) \/ Issue(t) \/ IssueFails(t) \/ Receive(t)
    BY <2>1 DEF Start, OpenRead, OpenWrite, Issue, IssueFails, Receive
  <2>2. CASE Method(t) \/ Name(t) \/ Base(t) \/ Extension(t)
    BY <2>2 DEF Method, Name, Base, Extension
  <2>3. CASE SendError(t) \/ NoFile(t) \/ Send(t) \/ CloseRead(t) \/ Fopen(t) \/ CloseWrite(t)
    BY <2>3 DEF SendError, NoFile, Send, CloseRead, Fopen, CloseWrite
  <2>4. CASE IssueCrashes(t) \/ NameCrashes(t) \/ ExtensionCrashes(t) \/ AnswerCrashes(t)
    BY <2>4 DEF IssueCrashes, NameCrashes, ExtensionCrashes, AnswerCrashes, Crash
  <2> QED
    BY <2>1, <2>2, <2>3, <2>4 DEF Handler
<1>2. \A s \in Conns : s # t => Kept(s)
  BY HandlerFrame
<1>3. /\ UNCHANGED <<main, current, own, peer>> /\ thread[t] # "none"
      /\ starved \subseteq starved'
  BY HandlerFrame
<1>4. peer[t] \notin {"none", "up"}
  BY <1>3 DEF MainOrder
<1> QED
  BY <1>1, <1>2, <1>3, <1>4 DEF MainOrder, Kept

----------------------------------------------------------------------------
(***************************************************************************)
(* The steps of main and of the clients.                                   *)
(***************************************************************************)

LEMMA CreateClean ==
  ASSUME TypeOK, MainOrder, Clean, Create
  PROVE  Clean'
<1> USE DEF Create, shared, locals, clients, history
<1>1. /\ current \in Conns /\ thread[current] = "none" /\ thread'[current] = "start"
      /\ \A t \in Conns : t # current => thread'[t] = thread[t]
  BY DEF TypeOK, MainOrder
<1>2. \A t \in Conns : InOrder(t)'
  <2> SUFFICES ASSUME NEW t \in Conns PROVE InOrder(t)'
    OBVIOUS
  <2>1. InOrder(t)
    BY DEF Clean
  <2> USE <1>1, <2>1 DEF InOrder
  <2>2. Holds(t)' /\ Reads(t)'
    BY DEF Holds, Reads, Late
  <2>3. Parses(t)' /\ Lacks(t)'
    BY DEF Parses, Lacks, Idle, Answered
  <2>4. Replied(t)'
    BY DEF Replied, Answered, RightAnswer
  <2> QED
    BY <2>2, <2>3, <2>4
<1>3. Owned'
  BY <1>1 DEF Clean, Owned, Late
<1>4. FilesCounted'
  <2>1. Files' = Files /\ Senders' = Senders
    BY <1>1 DEF Files, Senders
  <2> QED
    BY <2>1 DEF Clean, FilesCounted
<1>5. CrashExcused'
  BY DEF Clean, CrashExcused
<1> QED
  BY <1>2, <1>3, <1>4, <1>5 DEF Clean

LEMMA AcceptClean ==
  ASSUME TypeOK, MainOrder, Clean, NEW c \in Conns, Accept(c)
  PROVE  Clean'
<1> USE DEF locals
<1>1. PICK f \in Fds :
        /\ fdTable[f] = "free"
        /\ fdTable' = [fdTable EXCEPT ![f] = c]
        /\ own' = [own EXCEPT ![c] = f]
  BY DEF Accept, LowestFree, FreeFds
<1>2. /\ UNCHANGED <<thread, save, crashed, locals, kind, unread, reply, disturbed, starved>>
      /\ peer[c] = "up" /\ thread[c] = "none" /\ own[c] = NoFd /\ c \notin starved
      /\ writeFd[c] = NoFd
  BY DEF Accept, MainOrder
<1>3. \A t \in Conns : InOrder(t)
  BY DEF Clean
<1>4. \A t \in Conns : InOrder(t)'
  <2> SUFFICES ASSUME NEW t \in Conns PROVE InOrder(t)'
    OBVIOUS
  <2>1. Holds(t)'
    BY <1>1, <1>2, <1>3, Constants DEF TypeOK, InOrder, Holds, Late
  <2>2. Reads(t)' /\ Parses(t)'
    BY <1>2, <1>3 DEF InOrder, Reads, Parses
  <2>3. Lacks(t)'
    BY <1>1, <1>2, <1>3 DEF TypeOK, InOrder, Lacks
  <2>4. Replied(t)'
    BY <1>2, <1>3 DEF InOrder, Replied, RightAnswer
  <2> QED
    BY <2>1, <2>2, <2>3, <2>4 DEF InOrder
<1>5. Owned'
  <2> SUFFICES ASSUME NEW g \in Fds, fdTable'[g] \in Conns
               PROVE  LET t == fdTable'[g] IN
                      \/ own'[t] = g /\ thread'[t] \notin Late
                      \/ writeFd'[t] = g /\ thread'[t] # "done"
    BY DEF Owned
  <2>1. CASE g = f
    BY <1>1, <1>2, <2>1 DEF TypeOK, Late
  <2>2. CASE g # f
    <3>1. fdTable'[g] = fdTable[g]
      BY <1>1, <2>2 DEF TypeOK
    <3>2. fdTable[g] = c => FALSE
      BY <1>2, <2>2, Constants DEF Clean, Owned
    <3> QED
      BY <1>1, <1>2, <3>1, <3>2 DEF Clean, Owned, TypeOK
  <2> QED
    BY <2>1, <2>2
<1>6. FilesCounted'
  <2>1. Files' = Files
    BY <1>1, Constants DEF Files, TypeOK
  <2>2. Senders' = Senders
    BY <1>2 DEF Senders
  <2> QED
    BY <2>1, <2>2 DEF Clean, FilesCounted
<1>7. CrashExcused'
  BY <1>2 DEF Clean, CrashExcused
<1> QED
  BY <1>4, <1>5, <1>6, <1>7 DEF Clean

LEMMA AcceptFailsClean ==
  ASSUME TypeOK, MainOrder, Clean, NEW c \in Conns, AcceptFails(c)
  PROVE  Clean'
<1> USE DEF AcceptFails, locals
<1>1. thread[c] = "none" /\ own[c] = NoFd /\ writeFd[c] = NoFd
  BY DEF MainOrder
<1>2. \A t \in Conns : t # c => (t \in starved' <=> t \in starved)
  OBVIOUS
<1>3. \A t \in Conns : InOrder(t)'
  <2> SUFFICES ASSUME NEW t \in Conns PROVE InOrder(t)'
    OBVIOUS
  <2>1. InOrder(t)
    BY DEF Clean
  <2>2. Holds(t)' /\ Reads(t)' /\ Parses(t)'
    BY <2>1 DEF InOrder, Holds, Reads, Parses
  <2>3. Lacks(t)'
    BY <1>1, <1>2, <2>1 DEF InOrder, Lacks
  <2>4. Replied(t)'
    BY <1>1, <1>2, <2>1 DEF InOrder, Replied, RightAnswer, Answered
  <2> QED
    BY <2>2, <2>3, <2>4 DEF InOrder
<1>4. Owned' /\ CrashExcused'
  BY DEF Clean, Owned, CrashExcused
<1>5. FilesCounted'
  <2>1. Files' = Files /\ Senders' = Senders
    BY DEF Files, Senders
  <2> QED
    BY <2>1 DEF Clean, FilesCounted
<1> QED
  BY <1>3, <1>4, <1>5 DEF Clean

\* A step that changes nothing of the threads.
LEMMA UnchangedClean ==
  ASSUME Clean, UNCHANGED <<thread, shared, locals, kind, reply, history>>
  PROVE  Clean'
<1> USE DEF shared, locals, history
<1>1. \A t \in Conns : InOrder(t)'
  <2> SUFFICES ASSUME NEW t \in Conns PROVE InOrder(t)'
    OBVIOUS
  <2>1. InOrder(t)
    BY DEF Clean
  <2>2. Holds(t)' /\ Reads(t)' /\ Parses(t)'
    BY <2>1 DEF InOrder, Holds, Reads, Parses
  <2>3. Lacks(t)' /\ Replied(t)'
    BY <2>1 DEF InOrder, Lacks, Replied, RightAnswer
  <2> QED
    BY <2>2, <2>3 DEF InOrder
<1>2. Owned' /\ CrashExcused'
  BY DEF Clean, Owned, CrashExcused
<1>3. FilesCounted'
  <2>1. Files' = Files /\ Senders' = Senders
    BY DEF Files, Senders
  <2> QED
    BY <2>1 DEF Clean, FilesCounted
<1> QED
  BY <1>1, <1>2, <1>3 DEF Clean

----------------------------------------------------------------------------
(***************************************************************************)
(* The steps of a thread.                                                  *)
(***************************************************************************)

\* A step of thread t keeps the other threads in order if it takes nothing from them.
LEMMA OthersInOrder ==
  ASSUME TypeOK, NEW t \in Conns, Handler(t), \A s \in Conns : InOrder(s),
         \A f \in Fds, s \in Conns : s # t /\ fdTable[f] = s => fdTable'[f] = s,
         \A s \in Conns : s # t => reply'[s] = reply[s]
  PROVE  \A s \in Conns : s # t => InOrder(s)'
<1> SUFFICES ASSUME NEW s \in Conns, s # t PROVE InOrder(s)'
  OBVIOUS
<1>1. InOrder(s)
  OBVIOUS
<1>2. Kept(s) /\ UNCHANGED <<own, kind>> /\ (save' = save \/ save'.by = t)
  BY HandlerFrame
<1>3. Holds(s)'
  BY <1>1, <1>2 DEF InOrder, Holds, Kept
<1>4. Reads(s)' /\ Parses(s)'
  BY <1>1, <1>2 DEF InOrder, Reads, Parses, Kept
<1>5. Lacks(s)'
  BY <1>1, <1>2 DEF InOrder, Lacks, Kept
<1>6. Replied(s)'
  BY <1>1, <1>2 DEF InOrder, Replied, RightAnswer, Kept
<1> QED
  BY <1>3, <1>4, <1>5, <1>6 DEF InOrder

\* A step of thread t that leaves the descriptors and the answers alone.
LEMMA PrivateClean ==
  ASSUME TypeOK, NEW t \in Conns, Handler(t), Clean, InOrder(t)',
         UNCHANGED <<fdTable, reply, crashed, writeFd>>,
         thread[t] \in Late <=> thread'[t] \in Late,
         thread[t] = "done" <=> thread'[t] = "done",
         thread[t] = "send" <=> thread'[t] = "send",
         fileName'[t] = fileName[t] \/ reply[t] = <<>>
  PROVE  Clean'
<1>1. \A s \in Conns : s # t => Kept(s)
  BY HandlerFrame
<1>2. UNCHANGED <<own, kind>> /\ disturbed \subseteq disturbed' /\ starved \subseteq starved'
  BY HandlerFrame
<1>3. \A s \in Conns : InOrder(s)'
  BY OthersInOrder DEF Clean
<1>4. Owned'
  BY <1>1, <1>2 DEF Clean, Owned, Kept
<1>5. FilesCounted'
  <2>1. \A s \in Conns : (thread'[s] = "send" \/ reply'[s] = << <<s, fileName'[s]>> >>)
                           <=> (thread[s] = "send" \/ reply[s] = << <<s, fileName[s]>> >>)
    <3> SUFFICES ASSUME NEW s \in Conns
                 PROVE  (thread'[s] = "send" \/ reply[s] = << <<s, fileName'[s]>> >>)
                          <=> (thread[s] = "send" \/ reply[s] = << <<s, fileName[s]>> >>)
      OBVIOUS
    <3>1. CASE s # t
      BY <1>1, <3>1 DEF Kept
    <3>2. CASE s = t
      <4>1. <<>> # << <<s, fileName[s]>> >> /\ <<>> # << <<s, fileName'[s]>> >>
        OBVIOUS
      <4> QED
        BY <3>2, <4>1
    <3> QED
      BY <3>1, <3>2
  <2>2. Files' = Files /\ Senders' = Senders
    BY <2>1 DEF Files, Senders
  <2> QED
    BY <2>2 DEF Clean, FilesCounted
<1>6. CrashExcused'
  BY <1>2 DEF Clean, CrashExcused
<1> QED
  BY <1>3, <1>4, <1>5, <1>6 DEF Clean

\* The thread's descriptor is open on its own connection, if accept() returned one.
LEMMA OwnSocket ==
  ASSUME TypeOK, MainOrder, Clean, ~MixedUp, NEW t \in Conns, thread[t] \notin Idle \cup Late
  PROVE  /\ sock[t] = own[t] /\ peer[t] \notin {"none", "up"}
         /\ own[t] = NoFd => OpenOn(sock[t]) = NoConn /\ t \in starved /\ writeFd[t] = NoFd
         /\ own[t] # NoFd => OpenOn(sock[t]) = t
<1>1. InOrder(t)
  BY DEF Clean
<1>2. sock[t] = own[t]
  BY DEF MixedUp, Idle
<1>3. peer[t] \notin {"none", "up"} /\ (own[t] = NoFd => t \in starved)
  BY DEF MainOrder, Idle
<1> QED
  BY <1>1, <1>2, <1>3, Constants DEF InOrder, Holds, OpenOn

LEMMA OpeningClean ==
  ASSUME TypeOK, MainOrder, Clean, ~MixedUp, NEW t \in Conns,
         Start(t) \/ OpenRead(t) \/ Issue(t) \/ IssueFails(t) \/ Receive(t)
  PROVE  Clean'
<1> USE DEF locals, clients, history, shared, At, Goto
<1>1. Handler(t) /\ InOrder(t)
  BY DEF Handler, Clean
<1>2. UNCHANGED <<fdTable, reply, crashed, writeFd, fileName, save, own, kind, starved, disturbed>>
  BY DEF Start, OpenRead, Issue, IssueFails, Receive
<1>3. CASE Start(t)
  <2>1. thread[t] = "start" /\ thread'[t] = "open" /\ UNCHANGED <<readClient, source, request>>
    BY <1>3 DEF Start, TypeOK
  <2>2. Holds(t)' /\ Reads(t)' /\ Parses(t)'
    BY <1>1, <1>2, <2>1 DEF InOrder, Holds, Reads, Parses, Late
  <2>3. Lacks(t)' /\ Replied(t)'
    BY <1>1, <1>2, <2>1 DEF InOrder, Lacks, Replied, Idle, Answered, RightAnswer
  <2> QED
    BY <1>1, <1>2, <2>1, <2>2, <2>3, PrivateClean DEF InOrder, Late
<1>4. CASE OpenRead(t)
  <2>1. thread[t] = "open" /\ thread'[t] = "dup" /\ UNCHANGED <<sock, source, request>>
    BY <1>4 DEF OpenRead, TypeOK
  <2>2. /\ t \notin readClient' => t \in starved
        /\ t \in readClient' => own[t] # NoFd
    <3>1. t \notin readClient
      BY <2>1 DEF MainOrder
    <3> QED
      BY <1>4, <2>1, <3>1, OwnSocket, Constants DEF OpenRead, Idle, Late
  <2>3. Holds(t)' /\ Reads(t)' /\ Parses(t)'
    BY <1>1, <1>2, <2>1 DEF InOrder, Holds, Reads, Parses, Late
  <2>4. Lacks(t)' /\ Replied(t)'
    BY <1>1, <1>2, <2>1, <2>2 DEF InOrder, Lacks, Replied, Idle, Answered, RightAnswer
  <2> QED
    BY <1>1, <1>2, <2>1, <2>3, <2>4, PrivateClean DEF InOrder, Late
<1>5. CASE Issue(t)
  <2>1. /\ thread[t] = "fgets" /\ thread'[t] = "wait" /\ source'[t] = OpenOn(sock[t])
        /\ OpenOn(sock[t]) # NoConn /\ UNCHANGED <<readClient, request>>
    BY <1>5 DEF Issue, TypeOK
  <2>2. source'[t] = t
    BY <2>1, OwnSocket DEF Idle, Late
  <2>3. Holds(t)' /\ Reads(t)' /\ Parses(t)'
    BY <1>1, <1>2, <2>1, <2>2 DEF InOrder, Holds, Reads, Parses, Late
  <2>4. Lacks(t)' /\ Replied(t)'
    BY <1>1, <1>2, <2>1 DEF InOrder, Lacks, Replied, Idle, Answered, RightAnswer
  <2> QED
    BY <1>1, <1>2, <2>1, <2>3, <2>4, PrivateClean DEF InOrder, Late
<1>6. CASE IssueFails(t)
  <2>1. thread[t] = "fgets" /\ t \in readClient /\ OpenOn(sock[t]) = NoConn
    BY <1>6 DEF IssueFails
  <2>2. t # NoConn
    BY Constants
  <2>3. own[t] = NoFd /\ t \in starved /\ writeFd[t] = NoFd
    BY <2>1, <2>2, OwnSocket DEF Idle, Late
  <2> QED
    BY <1>1, <2>1, <2>3 DEF InOrder, Lacks
<1>7. CASE Receive(t)
  <2>1. /\ thread[t] = "wait" /\ source[t] = t /\ request'[t] = t
        /\ thread'[t] = (IF kind[t] = "garbage" THEN "error" ELSE "method")
        /\ UNCHANGED <<readClient, sock>>
    BY <1>1, <1>7 DEF Receive, TypeOK, InOrder, Reads
  <2>2. Holds(t)' /\ Reads(t)' /\ Parses(t)'
    BY <1>1, <1>2, <2>1 DEF InOrder, Holds, Reads, Parses, Late
  <2>3. Lacks(t)' /\ Replied(t)'
    BY <1>1, <1>2, <2>1 DEF InOrder, Lacks, Replied, Idle, Answered, RightAnswer
  <2> QED
    BY <1>1, <1>2, <2>1, <2>2, <2>3, PrivateClean DEF InOrder, Late
<1> QED
  BY <1>3, <1>4, <1>5, <1>6, <1>7

LEMMA ParsingClean ==
  ASSUME TypeOK, Clean, NEW t \in Conns,
         Method(t) \/ Name(t) \/ Base(t) \/ Extension(t)
  PROVE  Clean'
<1> USE DEF locals, clients, history, shared, At, Goto
<1>1. Handler(t) /\ InOrder(t)
  BY DEF Handler, Clean
<1>2. UNCHANGED <<fdTable, reply, crashed, writeFd, own, kind, starved, request, source,
                  readClient>>
  BY DEF Method, Name, Base, Extension
<1>3. thread[t] \in {"method", "name", "base", "extension"}
      /\ request[t] = t /\ kind[t] # "garbage"
  BY <1>1 DEF Method, Name, Base, Extension, InOrder, Reads
<1>4. disturbed \subseteq disturbed'
  BY <1>1, HandlerFrame
<1>5. CASE Method(t)
  <2>1. /\ thread[t] = "method" /\ thread'[t] = "name" /\ save' = [next |-> "name", of |-> t, by |-> t]
        /\ UNCHANGED <<fileName, disturbed>>
    BY <1>3, <1>5 DEF Method, Begin, TypeOK
  <2>2. Holds(t)' /\ Reads(t)' /\ Parses(t)'
    BY <1>1, <1>2, <1>3, <2>1 DEF InOrder, Holds, Reads, Parses, Late
  <2>3. Lacks(t)' /\ Replied(t)'
    BY <1>1, <1>2, <2>1 DEF InOrder, Lacks, Replied, Idle, Answered, RightAnswer
  <2> QED
    BY <1>1, <1>2, <2>1, <2>2, <2>3, PrivateClean DEF InOrder, Late
<1>6. CASE Name(t)
  <2>1. thread[t] = "name" /\ thread'[t] = "base"
    BY <1>6 DEF Name, TypeOK
  <2>2. t \notin disturbed' => save.by = t
    BY <1>6 DEF Name, Disturb
  <2>3. t \notin disturbed' => save.of = t /\ fileName'[t] = t
    BY <1>1, <1>6, <2>1, <2>2 DEF Name, Token, OtherToken, InOrder, Parses, TypeOK
  <2>4. Holds(t)' /\ Reads(t)' /\ Parses(t)'
    BY <1>1, <1>2, <1>3, <2>1, <2>3 DEF InOrder, Holds, Reads, Parses, Late
  <2>5. Lacks(t)' /\ Replied(t)' /\ reply[t] = <<>>
    BY <1>1, <1>2, <1>4, <2>1 DEF InOrder, Lacks, Replied, Idle, Answered, RightAnswer
  <2> QED
    BY <1>1, <1>2, <2>1, <2>4, <2>5, PrivateClean DEF InOrder, Late
<1>7. CASE Base(t)
  <2>1. thread[t] = "base" /\ thread'[t] = "extension" /\ UNCHANGED <<fileName, disturbed>>
    BY <1>7 DEF Base, TypeOK
  <2>2. PICK next \in AfterBase(fileName[t]) :
          save' = [next |-> next, of |-> fileName[t], by |-> t]
    BY <1>7 DEF Base, Begin
  <2>3. t \notin disturbed => save'.next = IF kind[t] = "plain" THEN "end" ELSE "extension"
    BY <1>1, <2>1, <2>2, Constants DEF InOrder, Parses, AfterBase
  <2>4. Holds(t)' /\ Reads(t)' /\ Parses(t)'
    BY <1>1, <1>2, <1>3, <2>1, <2>3 DEF InOrder, Holds, Reads, Parses, Late
  <2>5. Lacks(t)' /\ Replied(t)'
    BY <1>1, <1>2, <2>1 DEF InOrder, Lacks, Replied, Idle, Answered, RightAnswer
  <2> QED
    BY <1>1, <1>2, <2>1, <2>4, <2>5, PrivateClean DEF InOrder, Late
<1>8. CASE Extension(t)
  <2>1. /\ thread[t] = "extension" /\ UNCHANGED fileName
        /\ thread'[t] = IF kind[t] = "post" THEN "error" ELSE "close"
    BY <1>3, <1>8 DEF Extension, TypeOK
  <2>2. t \notin disturbed' => save.by = t /\ save.next = "extension" /\ t \notin disturbed
    <3>1. disturbed' = IF save.by = t THEN disturbed ELSE disturbed \cup {t}
      BY <1>8 DEF Extension, Disturb
    <3>2. save.next = "extension" \/ save.by # t
      BY <1>8 DEF Extension, Token, OtherToken
    <3> QED
      BY <3>1, <3>2
  <2>3. kind[t] \in {"page", "missing", "plain", "post", "garbage"}
    BY Constants DEF TypeOK
  <2>4. t \notin disturbed' => fileName[t] = t /\ kind[t] # "plain"
    BY <1>1, <2>1, <2>2 DEF InOrder, Parses
  <2>5. Holds(t)' /\ Reads(t)' /\ Parses(t)'
    BY <1>1, <1>2, <1>3, <2>1, <2>3, <2>4 DEF InOrder, Holds, Reads, Parses, Late
  <2>6. Lacks(t)' /\ Replied(t)'
    BY <1>1, <1>2, <1>4, <2>1 DEF InOrder, Lacks, Replied, Idle, Answered, RightAnswer
  <2> QED
    BY <1>1, <1>2, <2>1, <2>5, <2>6, PrivateClean DEF InOrder, Late
<1> QED
  BY <1>5, <1>6, <1>7, <1>8

\* Only descriptors that ran out, and a strtok() of another thread or a name without
\* extension, make a thread use a null pointer.
LEMMA CrashClean ==
  ASSUME TypeOK, Clean, NEW t \in Conns,
         IssueCrashes(t) \/ NameCrashes(t) \/ ExtensionCrashes(t) \/ AnswerCrashes(t)
  PROVE  Clean'
<1> USE DEF locals, clients, history, shared, At, Goto
<1>1. Handler(t) /\ InOrder(t)
  BY DEF Handler, Clean
<1>2. /\ UNCHANGED <<thread, save, fdTable, locals, kind, reply, own, starved>> /\ crashed' = t
  BY DEF IssueCrashes, NameCrashes, ExtensionCrashes, AnswerCrashes, Crash
<1>3. disturbed \subseteq disturbed'
  BY <1>1, HandlerFrame
<1>4. InOrder(t)'
  <2>1. Holds(t)' /\ Reads(t)' /\ Parses(t)'
    BY <1>1, <1>2, <1>3 DEF InOrder, Holds, Reads, Parses
  <2>2. Lacks(t)' /\ Replied(t)'
    BY <1>1, <1>2, <1>3 DEF InOrder, Lacks, Replied, RightAnswer
  <2> QED
    BY <2>1, <2>2 DEF InOrder
<1>5. \A s \in Conns : InOrder(s)'
  BY <1>1, <1>2, <1>4, OthersInOrder DEF Clean
<1>6. Owned'
  BY <1>2 DEF Clean, Owned
<1>7. FilesCounted'
  <2>1. Files' = Files /\ Senders' = Senders
    BY <1>2 DEF Files, Senders
  <2> QED
    BY <2>1 DEF Clean, FilesCounted
<1>8. t \in disturbed' \cup starved \/ kind[t] = "plain"
  <2>1. CASE IssueCrashes(t)
    BY <1>1, <2>1 DEF IssueCrashes, InOrder, Lacks, Idle
  <2>2. CASE NameCrashes(t)
    BY <1>1, <2>2 DEF NameCrashes, NullToken, Disturb, InOrder, Parses
  <2>3. CASE ExtensionCrashes(t)
    BY <1>1, <2>3 DEF ExtensionCrashes, NullToken, Disturb, InOrder, Parses
  <2>4. CASE AnswerCrashes(t)
    BY <1>1, <2>4 DEF AnswerCrashes, InOrder, Lacks, Idle
  <2> QED
    BY <2>1, <2>2, <2>3, <2>4
<1>9. CrashExcused'
  BY <1>2, <1>8 DEF CrashExcused
<1> QED
  BY <1>5, <1>6, <1>7, <1>9 DEF Clean

----------------------------------------------------------------------------
(***************************************************************************)
(* Descriptors that a thread opens and closes.                             *)
(***************************************************************************)

LEMMA OpenWriteClean ==
  ASSUME TypeOK, MainOrder, Clean, ~MixedUp, NEW t \in Conns, OpenWrite(t)
  PROVE  Clean'
<1> USE DEF locals, clients, history, shared, At, Goto
<1>1. Handler(t) /\ InOrder(t) /\ t # NoConn
  BY Constants DEF Handler, Clean
<1>2. /\ thread[t] = "dup" /\ thread'[t] = "fgets" /\ writeFd[t] = NoFd
      /\ UNCHANGED <<crashed, sock, readClient, source, request, fileName, save, kind, reply, own,
                     disturbed>>
      /\ \A s \in Conns : s # t => thread'[s] = thread[s]
  BY DEF OpenWrite, TypeOK, MainOrder
<1>3. /\ own[t] = NoFd => OpenOn(sock[t]) = NoConn /\ t \in starved
      /\ own[t] # NoFd => OpenOn(sock[t]) = t /\ own[t] \in Fds /\ fdTable[own[t]] = t
  BY <1>1, <1>2, OwnSocket DEF InOrder, Holds, Idle, Late
<1>4. CASE ~(OpenOn(sock[t]) # NoConn /\ FreeFds # {})
  <2>1. UNCHANGED <<fdTable, writeFd>> /\ starved' = IF FreeFds = {} THEN starved \cup {t} ELSE starved
    BY <1>4 DEF OpenWrite
  <2>2. t \in starved'
    BY <1>1, <1>3, <1>4, <2>1
  <2>3. Holds(t)' /\ Reads(t)' /\ Parses(t)'
    BY <1>1, <1>2, <2>1 DEF InOrder, Holds, Reads, Parses, Late
  <2>4. Lacks(t)' /\ Replied(t)'
    BY <1>1, <1>2, <2>1, <2>2 DEF InOrder, Lacks, Replied, Idle, Answered, RightAnswer
  <2> QED
    BY <1>1, <1>2, <2>1, <2>3, <2>4, PrivateClean DEF InOrder, Late
<1>5. CASE OpenOn(sock[t]) # NoConn /\ FreeFds # {}
  <2>1. own[t] # NoFd /\ OpenOn(sock[t]) = t /\ starved' = starved
    BY <1>3, <1>5 DEF OpenWrite
  <2>2. PICK f \in Fds : /\ fdTable[f] = "free"
                         /\ fdTable' = [fdTable EXCEPT ![f] = t]
                         /\ writeFd' = [writeFd EXCEPT ![t] = f]
    BY <1>5, <2>1 DEF OpenWrite, LowestFree, FreeFds
  <2>3. writeFd'[t] = f /\ f # NoFd /\ f # own[t]
        /\ \A s \in Conns : s # t => writeFd'[s] = writeFd[s]
    BY <1>3, <2>1, <2>2, Constants DEF TypeOK
  <2>4. fdTable'[f] = t /\ \A g \in Fds : g # f => fdTable'[g] = fdTable[g]
    BY <2>2 DEF TypeOK
  <2>5. \A s \in Conns : InOrder(s)'
    <3>1. Holds(t)' /\ Reads(t)' /\ Parses(t)'
      BY <1>1, <1>2, <1>3, <2>1, <2>3, <2>4 DEF InOrder, Holds, Reads, Parses, Late
    <3>2. Lacks(t)' /\ Replied(t)'
      BY <1>1, <1>2, <2>1, <2>3 DEF InOrder, Lacks, Replied, Idle, Answered, RightAnswer
    <3>3. \A g \in Fds, s \in Conns : s # t /\ fdTable[g] = s => fdTable'[g] = s
      BY <2>2, <2>4, Constants
    <3> QED
      BY <1>1, <1>2, <3>1, <3>2, <3>3, OthersInOrder DEF InOrder, Clean
  <2>6. Owned'
    BY <1>2, <2>3, <2>4, Constants DEF Clean, Owned, Late
  <2>7. FilesCounted'
    <3>1. Files' = Files
      BY <2>2, <2>4, Constants DEF Files
    <3>2. Senders' = Senders
      BY <1>2 DEF Senders
    <3> QED
      BY <3>1, <3>2 DEF Clean, FilesCounted
  <2>8. CrashExcused'
    BY <1>2, <2>1 DEF Clean, CrashExcused
  <2> QED
    BY <2>5, <2>6, <2>7, <2>8 DEF Clean
<1> QED
  BY <1>4, <1>5

\* A step of thread t after which it does not use descriptor f of its own any more.
LEMMA CloseClean ==
  ASSUME TypeOK, Clean, NEW t \in Conns, Handler(t), InOrder(t)', NEW f, Close(f),
         f \in Fds => fdTable[f] = t,
         \/ f = own[t] /\ thread[t] \notin Late /\ thread'[t] \in Late \ {"done"}
         \/ f = writeFd[t] /\ thread[t] \in Late /\ thread'[t] = "done",
         thread[t] # "send" /\ thread'[t] # "send",
         UNCHANGED <<reply, crashed, writeFd, fileName, starved, disturbed>>
  PROVE  Clean'
<1>1. UNCHANGED <<own, kind>> /\ \A s \in Conns : s # t => Kept(s)
  BY HandlerFrame
<1>2. \A g \in Fds : g # f => fdTable'[g] = fdTable[g]
  BY CloseType DEF TypeOK
<1>3. f \in Fds => fdTable'[f] = "free"
  BY Constants DEF Close, TypeOK
<1>4. \A s \in Conns : InOrder(s)'
  <2>1. \A g \in Fds, s \in Conns : s # t /\ fdTable[g] = s => fdTable'[g] = s
    BY <1>2
  <2> QED
    BY <2>1, OthersInOrder DEF Clean
<1>5. Owned'
  <2> SUFFICES ASSUME NEW g \in Fds, fdTable'[g] \in Conns
               PROVE  LET s == fdTable'[g] IN
                      \/ own[s] = g /\ thread'[s] \notin Late
                      \/ writeFd[s] = g /\ thread'[s] # "done"
    BY <1>1 DEF Owned
  <2>1. g # f /\ fdTable'[g] = fdTable[g]
    BY <1>2, <1>3, Constants
  <2> QED
    BY <1>1, <2>1 DEF Clean, Owned, Kept, Late
<1>6. FilesCounted'
  <2>1. Files' = Files
    BY <1>2, <1>3, Constants DEF Files
  <2>2. Senders' = Senders
    BY <1>1 DEF Senders, Kept
  <2> QED
    BY <2>1, <2>2 DEF Clean, FilesCounted
<1>7. CrashExcused'
  BY <1>1 DEF Clean, CrashExcused
<1> QED
  BY <1>4, <1>5, <1>6, <1>7 DEF Clean

LEMMA ClosingClean ==
  ASSUME TypeOK, MainOrder, Clean, ~MixedUp, NEW t \in Conns, CloseRead(t) \/ CloseWrite(t)
  PROVE  Clean'
<1> USE DEF locals, clients, history, shared, At, Goto
<1>1. Handler(t) /\ InOrder(t)
  BY DEF Handler, Clean
<1>2. UNCHANGED <<crashed, locals, save, kind, reply, own, starved, disturbed>>
  BY DEF CloseRead, CloseWrite
<1>3. CASE CloseRead(t)
  <2>1. \/ thread[t] = "close_error" /\ thread'[t] = "close_write"
        \/ thread[t] = "close" /\ thread'[t] = "fopen"
    BY <1>3 DEF CloseRead, TypeOK
  <2>2. sock[t] = own[t] /\ Close(own[t]) /\ (own[t] \in Fds => fdTable[own[t]] = t)
    BY <1>1, <1>3, <2>1, OwnSocket, Constants DEF CloseRead, InOrder, Holds, Idle, Late
  <2>3. writeFd[t] # NoFd => writeFd[t] \in Fds /\ fdTable'[writeFd[t]] = t
    BY <1>1, <2>1, <2>2 DEF InOrder, Holds, Late, Close, TypeOK
  <2>4. Holds(t)' /\ Reads(t)' /\ Parses(t)'
    BY <1>1, <1>2, <2>1, <2>3 DEF InOrder, Holds, Reads, Parses, Late
  <2>5. Lacks(t)' /\ Replied(t)'
    BY <1>1, <1>2, <2>1 DEF InOrder, Lacks, Replied, Idle, Answered, RightAnswer
  <2> QED
    BY <1>1, <1>2, <2>1, <2>2, <2>4, <2>5, CloseClean DEF InOrder, Late
<1>4. CASE CloseWrite(t)
  <2>1. thread[t] = "close_write" /\ thread'[t] = "done" /\ Close(writeFd[t])
    BY <1>4 DEF CloseWrite, TypeOK
  <2>2. writeFd[t] \in Fds => fdTable[writeFd[t]] = t
    BY <1>1, <2>1, Constants DEF InOrder, Holds
  <2>3. Holds(t)' /\ Reads(t)' /\ Parses(t)'
    BY <1>1, <1>2, <2>1 DEF InOrder, Holds, Reads, Parses, Late
  <2>4. Lacks(t)' /\ Replied(t)'
    BY <1>1, <1>2, <2>1 DEF InOrder, Lacks, Replied, Idle, Answered, RightAnswer
  <2> QED
    BY <1>1, <1>2, <2>1, <2>2, <2>3, <2>4, CloseClean DEF InOrder, Late
<1> QED
  BY <1>3, <1>4

LEMMA FopenClean ==
  ASSUME TypeOK, Clean, NEW t \in Conns, Fopen(t)
  PROVE  Clean'
<1> USE DEF locals, clients, history, shared, At, Goto
<1>1. Handler(t) /\ InOrder(t) /\ t # NoConn
  BY Constants DEF Handler, Clean
<1>2. /\ thread[t] = "fopen" /\ thread'[t] \in {"send", "no_file"}
      /\ UNCHANGED <<crashed, locals, save, kind, reply, own, disturbed>>
      /\ \A s \in Conns : s # t => thread'[s] = thread[s]
  BY DEF Fopen, TypeOK
<1>3. reply[t] = <<>> /\ <<>> # << <<t, fileName[t]>> >>
  BY <1>1, <1>2 DEF InOrder, Replied, Answered
<1>4. CASE ~(Exists(fileName[t]) /\ FreeFds # {})
  <2>1. /\ thread'[t] = "no_file" /\ UNCHANGED fdTable
        /\ starved' = IF FreeFds = {} THEN starved \cup {t} ELSE starved
    BY <1>4 DEF Fopen, TypeOK
  <2>2. t \notin disturbed \cup starved' => kind[t] = "missing"
    BY <1>1, <1>2, <1>4, <2>1 DEF Exists, InOrder, Parses
  <2>3. Holds(t)' /\ Reads(t)' /\ Parses(t)'
    BY <1>1, <1>2, <2>1 DEF InOrder, Holds, Reads, Parses, Late
  <2>4. Lacks(t)' /\ Replied(t)'
    BY <1>1, <1>2, <1>3, <2>1, <2>2 DEF InOrder, Lacks, Replied, Idle, Answered
  <2> QED
    BY <1>1, <1>2, <2>1, <2>3, <2>4, PrivateClean DEF InOrder, Late
<1>5. CASE Exists(fileName[t]) /\ FreeFds # {}
  <2>1. thread'[t] = "send" /\ starved' = starved
    BY <1>5 DEF Fopen, TypeOK
  <2>2. PICK f \in Fds : fdTable[f] = "free" /\ fdTable' = [fdTable EXCEPT ![f] = "file"]
    BY <1>5 DEF Fopen, LowestFree, FreeFds
  <2>3. fdTable'[f] = "file" /\ \A g \in Fds : g # f => fdTable'[g] = fdTable[g]
    BY <2>2 DEF TypeOK
  <2>4. fileName[t] # NoConn /\ (t \notin disturbed => kind[t] = "page")
    BY <1>1, <1>2, <1>5 DEF Exists, InOrder, Parses
  <2>5. \A s \in Conns : InOrder(s)'
    <3>1. \A g \in Fds, s \in Conns : fdTable[g] = s => fdTable'[g] = s
      BY <2>2, <2>3, Constants
    <3>2. Holds(t)' /\ Reads(t)' /\ Parses(t)'
      BY <1>1, <1>2, <2>1, <3>1 DEF InOrder, Holds, Reads, Parses, Late
    <3>3. Lacks(t)' /\ Replied(t)'
      BY <1>1, <1>2, <1>3, <2>1, <2>4 DEF InOrder, Lacks, Replied, Idle, Answered
    <3> QED
      BY <1>1, <1>2, <3>1, <3>2, <3>3, OthersInOrder DEF InOrder, Clean
  <2>6. Owned'
    BY <1>2, <2>1, <2>3, Constants DEF Clean, Owned, Late
  <2>7. FilesCounted'
    <3>1. Files' = Files \cup {f} /\ f \notin Files
      BY <2>2, <2>3, Constants DEF Files
    <3>2. Senders' = Senders \cup {t} /\ t \notin Senders
      BY <1>2, <1>3, <2>1 DEF Senders
    <3>3. Cardinality(Files \cup {f}) = Cardinality(Files) + 1
      BY <3>1, FinitelyMany, FS_AddElement
    <3>4. Cardinality(Senders \cup {t}) = Cardinality(Senders) + 1
      BY <3>2, FinitelyMany, FS_AddElement
    <3> QED
      BY <3>1, <3>2, <3>3, <3>4 DEF Clean, FilesCounted
  <2>8. CrashExcused'
    BY <1>2, <2>1 DEF Clean, CrashExcused
  <2> QED
    BY <2>5, <2>6, <2>7, <2>8 DEF Clean
<1> QED
  BY <1>4, <1>5

----------------------------------------------------------------------------
(***************************************************************************)
(* Answers.                                                                *)
(***************************************************************************)

LEMMA AnsweringClean ==
  ASSUME TypeOK, Clean, NEW t \in Conns, SendError(t) \/ NoFile(t) \/ Send(t)
  PROVE  Clean'
<1> USE DEF locals, clients, history, shared, At, Goto
<1>1. Handler(t) /\ InOrder(t) /\ t # NoConn
  BY Constants DEF Handler, Clean
<1>2. /\ UNCHANGED <<fdTable, crashed, locals, save, kind, own, starved, disturbed>>
      /\ \A s \in Conns : s # t => thread'[s] = thread[s]
  BY DEF SendError, NoFile, Send, TypeOK
<1>3. PICK text \in Conns \cup {NoConn, "error"} :
        /\ Answer(t, text)
        /\ \/ thread[t] = "error" /\ thread'[t] = "close_error" /\ text = "error"
           \/ thread[t] = "no_file" /\ thread'[t] = "left" /\ text = "error"
           \/ thread[t] = "send" /\ thread'[t] = "close_write" /\ text = fileName[t]
  BY DEF SendError, NoFile, Send, TypeOK
<1>4. writeFd[t] # NoFd /\ OpenOn(writeFd[t]) = t
  BY <1>1, <1>3 DEF Answer, OpenOn, InOrder, Holds
<1>5. reply[t] = <<>>
  BY <1>1, <1>3 DEF InOrder, Replied, Answered
<1>6. reply' = [reply EXCEPT ![t] = << <<t, text>> >>]
  <2>1. Append(<<>>, <<t, text>>) = << <<t, text>> >>
    OBVIOUS
  <2> QED
    BY <1>1, <1>3, <1>4, <1>5, <2>1 DEF Answer
<1>7. reply'[t] = << <<t, text>> >> /\ \A s \in Conns : s # t => reply'[s] = reply[s]
  BY <1>6 DEF TypeOK
<1>8. t \notin disturbed => text = RightAnswer(t)
  BY <1>1, <1>3, <1>4 DEF InOrder, Lacks, Parses, RightAnswer, Answered
<1>9. \A s \in Conns : InOrder(s)'
  <2>1. Holds(t)' /\ Reads(t)' /\ Parses(t)'
    BY <1>1, <1>2, <1>3 DEF InOrder, Holds, Reads, Parses, Late
  <2>2. Lacks(t)'
    BY <1>1, <1>2, <1>3, <1>4 DEF InOrder, Lacks, Idle, Answered
  <2>3. Replied(t)'
    BY <1>2, <1>3, <1>7, <1>8 DEF Replied, RightAnswer, Answered
  <2> QED
    BY <1>1, <1>2, <1>7, <2>1, <2>2, <2>3, OthersInOrder DEF InOrder, Clean
<1>10. Owned'
  BY <1>2, <1>3 DEF Clean, Owned, Late
<1>11. FilesCounted'
  <2>1. t \in Senders' <=> t \in Senders
    <3>1. <<>> # << <<t, fileName[t]>> >>
      OBVIOUS
    <3>2. t \in Senders <=> thread[t] = "send"
      BY <1>5, <3>1 DEF Senders
    <3>3. t \in Senders' <=> text = fileName[t]
      BY <1>2, <1>3, <1>7 DEF Senders
    <3>4. fileName[t] # "error"
      BY Constants DEF TypeOK
    <3> QED
      BY <1>3, <3>2, <3>3, <3>4
  <2>2. \A s \in Conns : s # t => (s \in Senders' <=> s \in Senders)
    BY <1>2, <1>7 DEF Senders
  <2>3. Files' = Files /\ Senders' = Senders
    BY <1>2, <2>1, <2>2 DEF Files, Senders
  <2> QED
    BY <2>3 DEF Clean, FilesCounted
<1>12. CrashExcused'
  BY <1>2 DEF Clean, CrashExcused
<1> QED
  BY <1>9, <1>10, <1>11, <1>12 DEF Clean

----------------------------------------------------------------------------
LEMMA HandlerClean ==
  ASSUME TypeOK, MainOrder, Clean, ~MixedUp, NEW t \in Conns, Handler(t)
  PROVE  Clean'
BY OpeningClean, ParsingClean, CrashClean, OpenWriteClean, ClosingClean, FopenClean,
   AnsweringClean DEF Handler

LEMMA NextIInv ==
  ASSUME IInv, Next
  PROVE  IInv'
<1>0. TypeOK /\ MainOrder
  BY DEF IInv
<1>1. TypeOK'
  BY <1>0, MainType, HandlerType, ConnectType DEF Next
<1>2. MainOrder'
  BY <1>0, MainMainOrder, HandlerMainOrder DEF Next
<1>3. CASE MixedUp'
  BY <1>1, <1>2, <1>3 DEF IInv
<1>4. CASE ~MixedUp'
  <2>1. ~MixedUp /\ Clean
    BY <1>0, <1>4, Monotone DEF IInv
  <2>2. ASSUME NEW c \in Conns, Connect(c) PROVE Clean'
    <3>1. UNCHANGED <<thread, shared, locals, kind, reply, history>>
      BY <2>2 DEF Connect, shared, locals, history
    <3> QED
      BY <2>1, <3>1, UnchangedClean
  <2>3. ASSUME Main PROVE Clean'
    <3>1. ASSUME Create PROVE Clean'
      BY <1>0, <2>1, <3>1, CreateClean
    <3>2. ASSUME NEW c \in Conns, Accept(c) PROVE Clean'
      BY <1>0, <2>1, <3>2, AcceptClean
    <3>3. ASSUME NEW c \in Conns, AcceptFails(c) PROVE Clean'
      BY <1>0, <2>1, <3>3, AcceptFailsClean
    <3> QED
      BY <2>3, <3>1, <3>2, <3>3 DEF Main
  <2>4. Clean'
    <3>1. ASSUME NEW t \in Conns, Handler(t) PROVE Clean'
      BY <1>0, <2>1, <3>1, HandlerClean
    <3> QED
      BY <2>2, <2>3, <3>1 DEF Next
  <2> QED
    BY <1>1, <1>2, <2>4 DEF IInv
<1> QED
  BY <1>3, <1>4

LEMMA StutterIInv ==
  ASSUME IInv, UNCHANGED vars
  PROVE  IInv'
<1> USE DEF IInv, vars, shared, locals, clients, history
<1>1. TypeOK' /\ MainOrder'
  BY DEF TypeOK, MainOrder
<1>2. MixedUp => MixedUp'
  BY DEF MixedUp
<1>3. Clean => Clean'
  BY UnchangedClean
<1> QED
  BY <1>1, <1>2, <1>3

LEMMA Inductive == Spec => []IInv
<1>1. IInv /\ [Next]_vars => IInv'
  BY NextIInv, StutterIInv
<1> QED
  BY InitIInv, <1>1, PTL DEF Spec

\* Every variable of the server keeps its type.
THEOREM TypeCorrect == Spec => []TypeOK
<1>1. IInv => TypeOK
  BY DEF IInv
<1> QED
  BY <1>1, Inductive, PTL

\* Each client gets the answer to its own request from its own thread and no other, unless
\* the descriptors were mixed up, ran out, or another thread called strtok() in between.
THEOREM OutcomeCorrect == Spec => []RightOutcome
<1>1. IInv => RightOutcome
  <2> SUFFICES ASSUME IInv, ~MixedUp PROVE RightOutcome
    BY DEF RightOutcome
  <2>1. Clean
    BY DEF IInv
  <2> QED
    BY <2>1 DEF Clean, InOrder, Replied, CrashExcused, RightOutcome
<1> QED
  BY <1>1, Inductive, PTL

\* Each descriptor of a connection belongs to its own thread, and the files left open are as
\* many as pages were sent.
THEOREM OwnersCorrect == Spec => []DescriptorsOwned
<1>1. IInv => DescriptorsOwned
  <2> SUFFICES ASSUME IInv, ~MixedUp PROVE DescriptorsOwned
    BY DEF DescriptorsOwned
  <2>1. Clean
    BY DEF IInv
  <2>2. \A t \in Conns : PageSent(t) <=> reply[t] = << <<t, fileName[t]>> >>
    <3> SUFFICES ASSUME NEW t \in Conns
                 PROVE  PageSent(t) <=> reply[t] = << <<t, fileName[t]>> >>
      OBVIOUS
    <3>1. \A c \in Conns : reply[c] = <<>> \/ \E text : reply[c] = << <<c, text>> >>
      BY <2>1 DEF Clean, InOrder, Replied
    <3>2. ASSUME reply[t] = << <<t, fileName[t]>> >> PROVE PageSent(t)
      BY <3>2 DEF PageSent
    <3>3. ASSUME NEW c \in Conns, NEW k \in DOMAIN reply[c], reply[c][k] = <<t, fileName[t]>>
          PROVE  reply[t] = << <<t, fileName[t]>> >>
      <4>1. PICK text : reply[c] = << <<c, text>> >>
        BY <3>1, <3>3
      <4>2. k = 1
        BY <3>3, <4>1
      <4>3. <<c, text>> = <<t, fileName[t]>>
        BY <3>3, <4>1, <4>2
      <4> QED
        BY <4>1, <4>3
    <3> QED
      BY <3>2, <3>3 DEF PageSent
  <2>3. Senders = {t \in Conns : thread[t] = "send" \/ PageSent(t)}
    BY <2>2 DEF Senders
  <2> QED
    BY <2>1, <2>3 DEF Clean, Owned, FilesCounted, Files, Late, DescriptorsOwned
<1> QED
  BY <1>1, Inductive, PTL
=============================================================================

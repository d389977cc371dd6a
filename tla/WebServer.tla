------------------------------ MODULE WebServer ------------------------------
(***************************************************************************)
(* The web server of http/web_server.c: main accepts connections and       *)
(* starts a detached thread for each, which reads one request and answers  *)
(* it with a file or an error.  Three things are shared by the threads:    *)
(*                                                                         *)
(*   clientSocket   main's variable, whose address every thread is given   *)
(*   save           the place where strtok() goes on, one for the process  *)
(*   fdTable        the descriptors; the lowest free one is given out      *)
(*                                                                         *)
(* A connection stands for the thread started for it, for the request its  *)
(* client sends and for the file that names.  A segmentation fault in one  *)
(* thread ends the server.                                                 *)
(***************************************************************************)
EXTENDS Integers, FiniteSets, Sequences

CONSTANTS
  Conns,
  NoConn,
  Fds,      \* numbers of descriptors
  Limits,   \* limits on them that the process may run under
  Kinds     \* requests considered

NoFd == -1

\* "page" and "missing" ask for a file with an extension, which exists or does not; "plain"
\* for one without; "post" has another method than GET; "garbage" is no HTTP.
ASSUME WebAssumption ==
  /\ IsFiniteSet(Conns) /\ NoConn \notin Conns
  /\ Fds \subseteq Nat /\ IsFiniteSet(Fds) /\ Limits \subseteq Nat
  /\ {"free", "file", "barred", "error"} \cap (Conns \cup {NoConn}) = {}
  /\ Kinds \subseteq {"page", "missing", "plain", "post", "garbage"}

VARIABLES
  kind,         \* per connection: what its client asks for
  main,         \* what main does next
  clientSocket,
  current,      \* the connection main accepted last
  thread,       \* per thread: what it does next
  sock,         \* per thread: its variable sock, the descriptor of readClient
  readClient,   \* threads whose readClient is a stream, not NULL
  writeFd,      \* per thread: the descriptor of writeClient, NoFd if that is NULL
  source,       \* per thread: the connection its fgets() waits on
  request,      \* per thread: the connection whose request it read
  fileName,     \* per thread: the connection whose file it is to send, NoConn for none
  save,         \* strtok: what comes next, of which request, and who called it last
  fdTable,      \* per descriptor: the connection it is open on, "file", "free", or "barred"
  peer,         \* per connection: "none", "up", "accepted", "failed" to be accepted
  unread,       \* connections whose request was sent and not read
  reply,        \* per connection: who answered it, and with what
  crashed,      \* the thread that ended the server
  own,          \* history, per connection: the descriptor accept() returned for it
  disturbed,    \* history: threads that went on with a strtok() of another thread
  starved       \* history: threads for which a call failed for want of a descriptor

shared == <<clientSocket, save, fdTable, crashed>>
locals == <<sock, readClient, writeFd, source, request, fileName>>
clients == <<kind, peer, unread, reply>>
history == <<own, disturbed, starved>>
vars == <<main, current, thread, shared, locals, clients, history>>

Init ==
  /\ kind \in [Conns -> Kinds]
  /\ main = "accept"
  /\ clientSocket = 0
  /\ current = NoConn
  /\ thread = [t \in Conns |-> "none"]
  /\ sock = [t \in Conns |-> NoFd]
  /\ readClient = {}
  /\ writeFd = [t \in Conns |-> NoFd]
  /\ source = [t \in Conns |-> NoConn]
  /\ request = [t \in Conns |-> NoConn]
  /\ fileName = [t \in Conns |-> NoConn]
  /\ save = [next |-> "end", of |-> NoConn, by |-> NoConn]
  /\ \E limit \in Limits : fdTable = [f \in Fds |-> IF f < limit THEN "free" ELSE "barred"]
  /\ peer = [c \in Conns |-> "none"]
  /\ unread = {}
  /\ reply = [c \in Conns |-> <<>>]
  /\ crashed = NoConn
  /\ own = [c \in Conns |-> NoFd]
  /\ disturbed = {}
  /\ starved = {}

FreeFds == {f \in Fds : fdTable[f] = "free"}
LowestFree(f) == f \in FreeFds /\ \A g \in FreeFds : f <= g

\* The connection a descriptor is open on, or NoConn.
OpenOn(f) == IF f \in Fds /\ fdTable[f] \in Conns THEN fdTable[f] ELSE NoConn

\* close() of a descriptor; one that is not open is an error nobody looks at.
Close(f) ==
  fdTable' = IF f \in Fds /\ fdTable[f] # "barred" THEN [fdTable EXCEPT ![f] = "free"] ELSE fdTable

----------------------------------------------------------------------------
(***************************************************************************)
(* The main thread.                                                        *)
(***************************************************************************)

Accept(c) ==
  /\ crashed = NoConn /\ main = "accept"
  /\ peer[c] = "up"
  /\ \E f \in Fds :
       /\ LowestFree(f)
       /\ fdTable' = [fdTable EXCEPT ![f] = c]
       /\ clientSocket' = f
       /\ own' = [own EXCEPT ![c] = f]
  /\ peer' = [peer EXCEPT ![c] = "accepted"]
  /\ current' = c
  /\ main' = "create"
  /\ UNCHANGED <<thread, save, crashed, locals, kind, unread, reply, disturbed, starved>>

\* accept() fails for want of a descriptor; main goes on as if it had not.
AcceptFails(c) ==
  /\ crashed = NoConn /\ main = "accept"
  /\ FreeFds = {} /\ peer[c] = "none"
  /\ peer' = [peer EXCEPT ![c] = "failed"]
  /\ clientSocket' = NoFd
  /\ starved' = starved \cup {c}
  /\ current' = c
  /\ main' = "create"
  /\ UNCHANGED <<thread, save, fdTable, crashed, locals, kind, unread, reply, own, disturbed>>

Create ==
  /\ crashed = NoConn /\ main = "create"
  /\ thread' = [thread EXCEPT ![current] = "start"]
  /\ main' = "accept"
  /\ UNCHANGED <<current, shared, locals, clients, history>>

----------------------------------------------------------------------------
(***************************************************************************)
(* A thread: reading the request.                                          *)
(***************************************************************************)

At(t, step) == crashed = NoConn /\ thread[t] = step
Goto(t, step) == thread' = [thread EXCEPT ![t] = step]

\* A null pointer is used.
Crash(t) ==
  /\ crashed' = t
  /\ UNCHANGED <<main, current, thread, clientSocket, save, fdTable, locals, clients, own,
                 starved>>

\* The thread finds at the address it was given what main stored there last.
Start(t) ==
  /\ At(t, "start")
  /\ sock' = [sock EXCEPT ![t] = clientSocket]
  /\ Goto(t, "open")
  /\ UNCHANGED <<main, current, shared, readClient, writeFd, source, request, fileName, clients,
                 history>>

\* fdopen() for reading, NULL if the descriptor is not open.
OpenRead(t) ==
  /\ At(t, "open")
  /\ readClient' = IF OpenOn(sock[t]) # NoConn THEN readClient \cup {t} ELSE readClient
  /\ Goto(t, "dup")
  /\ UNCHANGED <<main, current, shared, sock, writeFd, source, request, fileName, clients, history>>

\* dup() and fdopen() for writing, NULL if dup() fails.
OpenWrite(t) ==
  /\ At(t, "dup")
  /\ IF OpenOn(sock[t]) # NoConn /\ FreeFds # {}
     THEN \E f \in Fds : /\ LowestFree(f)
                         /\ fdTable' = [fdTable EXCEPT ![f] = OpenOn(sock[t])]
                         /\ writeFd' = [writeFd EXCEPT ![t] = f]
                         /\ UNCHANGED starved
     ELSE /\ starved' = IF FreeFds = {} THEN starved \cup {t} ELSE starved
          /\ UNCHANGED <<fdTable, writeFd>>
  /\ Goto(t, "fgets")
  /\ UNCHANGED <<main, current, clientSocket, save, crashed, sock, readClient, source, request,
                 fileName, clients, own, disturbed>>

\* fgets() begins to wait on the connection the descriptor is open on now.
Issue(t) ==
  /\ At(t, "fgets") /\ t \in readClient
  /\ OpenOn(sock[t]) # NoConn
  /\ source' = [source EXCEPT ![t] = OpenOn(sock[t])]
  /\ Goto(t, "wait")
  /\ UNCHANGED <<main, current, shared, sock, readClient, writeFd, request, fileName, clients,
                 history>>

\* The descriptor was closed meanwhile: request keeps what was on the stack.
IssueFails(t) ==
  /\ At(t, "fgets") /\ t \in readClient
  /\ OpenOn(sock[t]) = NoConn
  /\ \/ Goto(t, "error") /\ UNCHANGED request
     \/ \E r \in Conns : /\ kind[r] # "garbage"
                        /\ request' = [request EXCEPT ![t] = r]
                        /\ Goto(t, "method")
  /\ UNCHANGED <<main, current, shared, sock, readClient, writeFd, source, fileName, clients,
                 history>>

\* readClient is NULL.
IssueCrashes(t) == At(t, "fgets") /\ t \notin readClient /\ Crash(t) /\ UNCHANGED disturbed

\* fgets() returns the request; one without "HTTP/" is answered at once.
Receive(t) ==
  /\ At(t, "wait")
  /\ source[t] \in unread
  /\ unread' = unread \ {source[t]}
  /\ request' = [request EXCEPT ![t] = source[t]]
  /\ Goto(t, IF kind[source[t]] = "garbage" THEN "error" ELSE "method")
  /\ source' = [source EXCEPT ![t] = NoConn]
  /\ UNCHANGED <<main, current, shared, sock, readClient, writeFd, fileName, kind, peer, reply,
                 history>>

----------------------------------------------------------------------------
(***************************************************************************)
(* A thread: taking the request apart with strtok().  save says which      *)
(* token of which request a strtok(NULL) gives next.                       *)
(***************************************************************************)

\* strtok() with a string of thread t's own; after it comes token next of request r.
Begin(t, next, r) == save' = [next |-> next, of |-> r, by |-> t]

\* The thread that goes on is not the last one that called.
Disturb(t) == disturbed' = IF save.by = t THEN disturbed ELSE disturbed \cup {t}

\* strtok(NULL) gives the token wanted, and what follows it is next.
Token(t, wanted, next) ==
  /\ save.next = wanted
  /\ save' = [save EXCEPT !.next = next, !.by = t]

\* It gives another text, after another thread's calls only, or NULL.
OtherToken(t, wanted) ==
  /\ save.next # wanted /\ save.by # t
  /\ save' = [save EXCEPT !.next = "end", !.by = t]

NullToken == save.next = "end"

\* The method.
Method(t) ==
  /\ At(t, "method")
  /\ Begin(t, "name", request[t])
  /\ Goto(t, "name")
  /\ UNCHANGED <<main, current, clientSocket, fdTable, crashed, locals, clients, history>>

\* The name of the file.
Name(t) ==
  /\ At(t, "name")
  /\ \/ /\ Token(t, "name", "version")
        /\ fileName' = [fileName EXCEPT ![t] = save.of]
     \/ /\ OtherToken(t, "name")
        /\ fileName' = [fileName EXCEPT ![t] = NoConn]
  /\ Disturb(t)
  /\ Goto(t, "base")
  /\ UNCHANGED <<main, current, clientSocket, fdTable, crashed, sock, readClient, writeFd, source,
                 request, clients, own, starved>>

\* strcpy() from NULL.
NameCrashes(t) == At(t, "name") /\ NullToken /\ Disturb(t) /\ Crash(t)

\* What follows the name of a file up to its dot; of another text this is not known.
AfterBase(n) ==
  IF n = NoConn THEN {"extension", "end"}
  ELSE IF kind[n] = "plain" THEN {"end"} ELSE {"extension"}

\* Mutant: the name itself is cut at the dot, not a copy of it.
BaseInPlace(t) ==
  /\ At(t, "base")
  /\ \E next \in AfterBase(fileName[t]) : Begin(t, next, fileName[t])
  /\ fileName' = [fileName EXCEPT ![t] = NoConn]
  /\ Goto(t, "extension")
  /\ UNCHANGED <<main, current, clientSocket, fdTable, crashed, sock, readClient, writeFd, source,
                 request, clients, history>>

\* The name without its extension, of a copy.
Base(t) ==
  /\ At(t, "base")
  /\ \E next \in AfterBase(fileName[t]) : Begin(t, next, fileName[t])
  /\ Goto(t, "extension")
  /\ UNCHANGED <<main, current, clientSocket, fdTable, crashed, locals, clients, history>>

\* The extension; then the method is looked at.
Extension(t) ==
  /\ At(t, "extension")
  /\ Token(t, "extension", "end") \/ OtherToken(t, "extension")
  /\ Disturb(t)
  /\ Goto(t, IF kind[request[t]] = "post" THEN "error" ELSE "close")
  /\ UNCHANGED <<main, current, clientSocket, fdTable, crashed, locals, clients, own, starved>>

\* There is none: strcpy() from NULL.
ExtensionCrashes(t) == At(t, "extension") /\ NullToken /\ Disturb(t) /\ Crash(t)

----------------------------------------------------------------------------
(***************************************************************************)
(* A thread: the answer.                                                   *)
(***************************************************************************)

\* Text written to writeClient reaches the connection its descriptor is open on.
Answer(t, text) ==
  LET c == OpenOn(writeFd[t]) IN
    /\ writeFd[t] # NoFd
    /\ reply' = IF c = NoConn THEN reply ELSE [reply EXCEPT ![c] = Append(@, <<t, text>>)]

\* sendError() of a request that is not understood.
SendError(t) ==
  /\ At(t, "error")
  /\ Answer(t, "error")
  /\ Goto(t, "close_error")
  /\ UNCHANGED <<main, current, shared, locals, kind, peer, unread, history>>

\* Mutant: the reading stream is not closed.
CloseReadNot(t) ==
  /\ \/ At(t, "close_error") /\ Goto(t, "close_write")
     \/ At(t, "close") /\ Goto(t, "fopen")
  /\ UNCHANGED <<main, current, shared, locals, clients, history>>

\* fclose(readClient)
CloseRead(t) ==
  /\ \/ At(t, "close_error") /\ Goto(t, "close_write")
     \/ At(t, "close") /\ Goto(t, "fopen")
  /\ Close(sock[t])
  /\ UNCHANGED <<main, current, clientSocket, save, crashed, locals, clients, history>>

Exists(n) == n # NoConn /\ kind[n] # "missing"

\* sendData() opens the file.
Fopen(t) ==
  /\ At(t, "fopen")
  /\ IF Exists(fileName[t]) /\ FreeFds # {}
     THEN /\ \E f \in Fds : LowestFree(f) /\ fdTable' = [fdTable EXCEPT ![f] = "file"]
          /\ Goto(t, "send")
          /\ UNCHANGED starved
     ELSE /\ Goto(t, "no_file")
          /\ starved' = IF FreeFds = {} THEN starved \cup {t} ELSE starved
          /\ UNCHANGED fdTable
  /\ UNCHANGED <<main, current, clientSocket, save, crashed, locals, clients, own, disturbed>>

\* There is no such file: an error is sent, and writeClient is not closed.
NoFile(t) ==
  /\ At(t, "no_file")
  /\ Answer(t, "error")
  /\ Goto(t, "left")
  /\ UNCHANGED <<main, current, shared, locals, kind, peer, unread, history>>

\* Send the file, which is not closed.
Send(t) ==
  /\ At(t, "send")
  /\ Answer(t, fileName[t])
  /\ Goto(t, "close_write")
  /\ UNCHANGED <<main, current, shared, locals, kind, peer, unread, history>>

\* writeClient is NULL.
AnswerCrashes(t) ==
  /\ At(t, "error") \/ At(t, "no_file") \/ At(t, "send")
  /\ writeFd[t] = NoFd
  /\ Crash(t) /\ UNCHANGED disturbed

\* Mutant: the writing stream is not closed.
CloseWriteNot(t) ==
  /\ At(t, "close_write")
  /\ Goto(t, "done")
  /\ UNCHANGED <<main, current, shared, locals, clients, history>>

\* fclose(writeClient)
CloseWrite(t) ==
  /\ At(t, "close_write")
  /\ Close(writeFd[t])
  /\ Goto(t, "done")
  /\ UNCHANGED <<main, current, clientSocket, save, crashed, locals, clients, history>>

Handler(t) ==
  \/ Start(t) \/ OpenRead(t) \/ OpenWrite(t) \/ Issue(t) \/ IssueFails(t) \/ IssueCrashes(t)
  \/ Receive(t) \/ Method(t) \/ Name(t) \/ NameCrashes(t) \/ Base(t)
  \/ Extension(t) \/ ExtensionCrashes(t) \/ SendError(t) \/ CloseRead(t) \/ Fopen(t)
  \/ NoFile(t) \/ Send(t) \/ AnswerCrashes(t) \/ CloseWrite(t)

\* A client connects and sends its request; it waits for the end of the answer.
Connect(c) ==
  /\ peer[c] = "none"
  /\ peer' = [peer EXCEPT ![c] = "up"]
  /\ unread' = unread \cup {c}
  /\ UNCHANGED <<main, current, thread, shared, locals, kind, reply, history>>

Main == Create \/ \E c \in Conns : Accept(c) \/ AcceptFails(c)

Next == Main \/ \E c \in Conns : Handler(c) \/ Connect(c)

Spec == Init /\ [][Next]_vars

\* Main and the threads are scheduled again and again.
FairSpec == Spec /\ WF_vars(Main) /\ \A t \in Conns : WF_vars(Handler(t))

----------------------------------------------------------------------------
(***************************************************************************)
(* Properties.                                                             *)
(***************************************************************************)

\* Who answered, with which file or an error.
Answers == Conns \X (Conns \cup {NoConn, "error"})

\* Every variable has its type.
TypeOK ==
  /\ kind \in [Conns -> Kinds]
  /\ main \in {"accept", "create"}
  /\ clientSocket \in Fds \cup {NoFd, 0}
  /\ current \in Conns \cup {NoConn}
  /\ thread \in [Conns -> {"none", "start", "open", "dup", "fgets", "wait", "method", "name", "base",
                          "extension", "error", "close_error", "close", "fopen", "no_file",
                          "send", "close_write", "left", "done"}]
  /\ sock \in [Conns -> Fds \cup {NoFd, 0}]
  /\ readClient \subseteq Conns
  /\ writeFd \in [Conns -> Fds \cup {NoFd}]
  /\ source \in [Conns -> Conns \cup {NoConn}]
  /\ request \in [Conns -> Conns \cup {NoConn}]
  /\ fileName \in [Conns -> Conns \cup {NoConn}]
  /\ save \in [next : {"name", "version", "extension", "end"},
              of : Conns \cup {NoConn}, by : Conns \cup {NoConn}]
  /\ fdTable \in [Fds -> Conns \cup {"free", "file", "barred"}]
  /\ peer \in [Conns -> {"none", "up", "accepted", "failed"}]
  /\ unread \subseteq Conns
  /\ reply \in [Conns -> Seq(Answers)]
  /\ crashed \in Conns \cup {NoConn}
  /\ own \in [Conns -> Fds \cup {NoFd}]
  /\ disturbed \subseteq Conns /\ starved \subseteq Conns

\* A thread found another descriptor at clientSocket than the one main meant it to find.
MixedUp == \E t \in Conns : thread[t] \notin {"none", "start"} /\ sock[t] # own[t]

RightAnswer(c) == IF kind[c] = "page" /\ c \notin starved THEN c ELSE "error"

\* Each client gets one answer, from its own thread and to its own request, and the server
\* comes down only on a file name without extension, unless descriptors were mixed up or
\* ran out, or another thread called strtok() in between.
RightOutcome ==
  \/ MixedUp
  \/ /\ \A c \in Conns :
          c \notin disturbed => reply[c] \in {<<>>, << <<c, RightAnswer(c)>> >>}
     /\ crashed \in disturbed \cup starved \cup {c \in Conns : kind[c] = "plain"} \cup {NoConn}

PageSent(t) == \E c \in Conns : \E k \in DOMAIN reply[c] : reply[c][k] = <<t, fileName[t]>>

\* Each descriptor of a connection belongs to its own thread, which will close it, but for the
\* stream to a client told that there is no file; and a file stays open for each page sent.
DescriptorsOwned ==
  \/ MixedUp
  \/ /\ \A f \in Fds :
          fdTable[f] \in Conns =>
            LET t == fdTable[f] IN
              \/ own[t] = f /\ thread[t] \notin {"fopen", "send", "no_file", "close_write",
                                                 "left", "done"}
              \/ writeFd[t] = f /\ thread[t] # "done"
     /\ Cardinality({f \in Fds : fdTable[f] = "file"})
          = Cardinality({t \in Conns : thread[t] = "send" \/ PageSent(t)})

IsOpen(c) == \E f \in Fds : fdTable[f] = c
Reading(c) == \E t \in Conns : source[t] = c

\* The connection of every client is closed in the end, unless its file is missing, its or
\* another thread had no luck with what the threads share, or the server came down.
Served ==
  \A c \in Conns :
    (peer[c] = "accepted") ~>
      \/ ~IsOpen(c) /\ ~Reading(c)
      \/ kind[c] = "missing" \/ c \in starved \/ c \in disturbed
      \/ MixedUp \/ crashed # NoConn
=============================================================================

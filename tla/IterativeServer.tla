-------------------------- MODULE IterativeServer --------------------------
(***************************************************************************)
(* The servers that serve one client after the other, with their clients:  *)
(*                                                                         *)
(*   tcp/echo_server.c    (and reuseaddr_echo_server.c)  tcp/echo_client.c *)
(*   the same                                          tcp/echo_mpclient.c *)
(*   stdIO/echo_std_server.c                     stdIO/echo_std_client.c   *)
(*   tcp/calc_server.c                                   tcp/calc_client.c *)
(*   tcp/hello_server.c                                 tcp/hello_client.c *)
(*   close/file_server.c                              close/file_client.c  *)
(*   stdIO/sep_server.c, stdIO/sep_server2.c          stdIO/sep_client.c   *)
(*                                                                         *)
(* The echo servers and the calculator serve a fixed number of clients,    *)
(* the others one, to which they send a file, or a text.  All of these but *)
(* hello_server then end their own stream and read the client's answer.  A *)
(* client's user may end it at any time.  Data is counted in units: a read *)
(* returns any part of what was sent, since the rest may still be on its   *)
(* way.                                                                    *)
(***************************************************************************)
EXTENDS EchoNet

CONSTANTS
  NoConn,    \* the server holds no connection
  Programs,  \* the servers considered, one is chosen in the initial state; "echo_mpclient"
             \* stands for echo_server with clients of that kind
  BUF_SIZE,  \* most units a read takes
  OPSZ,      \* units of an operand
  MaxCount,  \* bound on the operands of a request
  FileSize,  \* units of the file, or the text
  Rounds     \* clients served by an echo server or the calculator

Echoes == {"echo_server", "echo_std_server", "echo_mpclient"}
Transfers == {"file_server", "sep_server", "sep_server2"}
Senders == Transfers \cup {"hello_server"}

ASSUME IterativeAssumption ==
  /\ NoConn \notin Conns
  /\ Programs \subseteq Echoes \cup {"calc_server"} \cup Senders
  /\ BUF_SIZE \in Nat /\ BUF_SIZE >= 2
  /\ OPSZ \in Nat \ {0}
  /\ MaxCount \in Nat
  /\ FileSize \in Nat \ {0}
  /\ Rounds \in Nat \ {0}

VARIABLES
  program,      \* the server that runs
  server,       \* what it does next
  clientSocket, \* the connection its descriptor is open on
  accepted,     \* connections accepted so far
  strLen,       \* units read and not echoed, with echo_std_server units of the last line read;
                \* units of the file read so far
  optCount,     \* number of operands read by calc_server
  revLen,       \* units of the request it read after that
  heard,        \* the server has read the client's answer
  client,       \* per connection: "none", "on", "replied", which is the last it writes, "done",
                \* or "failed" by a call that reports an end or an error; "killed" by its user
  readLen,      \* per connection: units the client has read of the message, or the file
  writeLen,     \* per connection: units of the message the client has written
  request,      \* per connection: the request of calc_client
  serverEnd     \* per connection: the server's end, "open", "fin" or "reset"

served == <<server, clientSocket, accepted>>
data == <<strLen, optCount, revLen, heard>>
clients == <<client, readLen, writeLen, request>>
vars == <<program, served, data, clients, serverEnd, net>>

\* What calc() does with an operator and operands: an unknown operator ends the server, and
\* so does a division by zero.
Outcomes == {"value", "exit", "SIGFPE"}
Requests ==
  {r \in [count : 0 .. MaxCount, outcome : Outcomes] : r.outcome = "SIGFPE" => r.count >= 2}

Limit == IF program \in Senders THEN 1 ELSE Rounds

Init ==
  /\ program \in Programs
  /\ server = "accept"
  /\ clientSocket = NoConn
  /\ accepted = {}
  /\ strLen = 0
  /\ optCount = 0
  /\ revLen = 0
  /\ heard = FALSE
  /\ client = [c \in Conns |-> "none"]
  /\ readLen = [c \in Conns |-> 0]
  /\ writeLen = [c \in Conns |-> 0]
  /\ request = [c \in Conns |-> [count |-> 0, outcome |-> "value"]]
  /\ serverEnd = [c \in Conns |-> "open"]
  /\ NetInit

----------------------------------------------------------------------------
(***************************************************************************)
(* Beginning and ending a connection.                                      *)
(***************************************************************************)

Accept(c) ==
  /\ server = "accept"
  /\ peer[c] # "none" /\ c \notin accepted
  /\ accepted' = accepted \cup {c}
  /\ clientSocket' = c
  /\ server' = CASE program \in Echoes -> "read"
                 [] program = "calc_server" -> "count"
                 [] program \in Senders -> "send"
  /\ revLen' = 0
  /\ UNCHANGED <<program, strLen, optCount, heard, clients, serverEnd, net>>

\* The connections waiting in the listening socket.
Backlog == {c \in Conns : peer[c] # "none" /\ c \notin accepted}

\* The process ends: its system closes the connection, with a reset when there is data the
\* server did not read, and resets those that wait to be accepted.
Exit(how) ==
  /\ server' = how
  /\ clientSocket' = NoConn
  /\ serverEnd' = [c \in Conns |->
       IF c \in Backlog \/ (c = clientSocket /\ inbox[c] > 0) THEN "reset"
       ELSE IF c = clientSocket THEN "fin" ELSE serverEnd[c]]

\* Mutant: the loop makes one round more.
LastRoundLate == Cardinality(accepted) > Limit

LastRound == Cardinality(accepted) = Limit

\* Close the connection and go round the loop; after the last round close the listening
\* socket and end.
Close ==
  /\ server = "close"
  /\ IF LastRound
     THEN Exit("done")
     ELSE /\ server' = "accept"
          /\ clientSocket' = NoConn
          /\ serverEnd' = [serverEnd EXCEPT ![clientSocket] =
               IF inbox[clientSocket] > 0 THEN "reset" ELSE "fin"]
  /\ UNCHANGED <<program, accepted, data, clients, net>>

----------------------------------------------------------------------------
(***************************************************************************)
(* echo_server.c and echo_std_server.c.                                    *)
(***************************************************************************)

\* The client has ended its stream with shutdown() and still reads.
HalfClosed(c) == program = "echo_mpclient" /\ client[c] = "replied"

\* write() of n units to the client.
Reply(c, n) ==
  IF HalfClosed(c)
  THEN outbox' = [outbox EXCEPT ![c] = @ + n] /\ UNCHANGED <<peer, inbox, sent, waiting>>
  ELSE Write(c, n)

\* Mutant: the last unit is not echoed.
WriteBackShort(c) == Reply(c, strLen - 1)

WriteBack(c) == Reply(c, strLen)

\* read() takes what has arrived, fgets() waits for the whole line.
Lengths(c) == IF program = "echo_std_server" THEN {inbox[c]} ELSE 1 .. BUF_SIZE

EchoRead(c) ==
  /\ server = "read"
  /\ \E n \in Lengths(c) : ReadUnits(c, n) /\ strLen' = n
  /\ server' = "write"
  /\ UNCHANGED <<program, clientSocket, accepted, optCount, revLen, heard, clients, serverEnd>>

EchoWrite(c) ==
  /\ server = "write"
  /\ WriteBack(c)
  /\ strLen' = IF program = "echo_std_server" THEN strLen ELSE 0
  /\ server' = "read"
  /\ UNCHANGED <<program, clientSocket, accepted, optCount, revLen, heard, clients, serverEnd>>

\* read() returns 0, or fgets() finds the end or an error, or read() returns -1, for which
\* write() of -1 units writes nothing.
EchoEnd(c) ==
  /\ server = "read"
  /\ \/ AtEnd(c) /\ UNCHANGED net
        /\ server' = IF program = "echo_std_server" THEN "again" ELSE "close"
     \/ ReadReset(c)
        /\ server' = IF program = "echo_std_server" THEN "again" ELSE "read"
  /\ UNCHANGED <<program, clientSocket, accepted, data, clients, serverEnd>>

\* feof() tells of the end only after fgets() has found it: what the buffer holds is echoed
\* once more, be it the line of a client before; nobody knows its length before the first.
EchoAgain(c) ==
  /\ server = "again"
  /\ \E n \in IF strLen = 0 THEN 0 .. BUF_SIZE ELSE {strLen} :
       IF n = 0 THEN UNCHANGED net ELSE Write(c, n)
  /\ server' = "close"
  /\ UNCHANGED <<program, clientSocket, accepted, data, clients, serverEnd>>

----------------------------------------------------------------------------
(***************************************************************************)
(* calc_server.c.  A read() that returns 0 leaves optCount or revLen as it *)
(* was, so that the loop over the request goes on for ever.                *)
(***************************************************************************)

CalcCount(c) ==
  /\ server = "count"
  /\ \/ ReadUnits(c, 1) /\ optCount' = request[c].count
     \/ AtEnd(c) /\ UNCHANGED <<optCount, net>>
  /\ server' = "rest"
  /\ UNCHANGED <<program, clientSocket, accepted, strLen, revLen, heard, clients, serverEnd>>

\* Mutant: the operator is not counted.
UnitsMissingShort == revLen < OPSZ * optCount

\* The operands and the operator have not been read completely.
UnitsMissing == revLen < OPSZ * optCount + 1

CalcRest(c) ==
  /\ server = "rest" /\ UnitsMissing
  /\ \E n \in 1 .. BUF_SIZE - 1 : ReadUnits(c, n) /\ revLen' = revLen + n
  /\ UNCHANGED <<program, served, strLen, optCount, heard, clients, serverEnd>>

\* The operator is the last unit read; anything may stand there when it is not that of the
\* request.
Outcome(c) ==
  IF revLen = OPSZ * request[c].count + 1 THEN {request[c].outcome} ELSE Outcomes

Calc(c) ==
  /\ server = "rest" /\ ~UnitsMissing
  /\ \/ /\ "value" \in Outcome(c)
        /\ server' = "answer"
        /\ UNCHANGED <<clientSocket, serverEnd>>
     \/ Outcome(c) \cap {"exit", "SIGFPE"} # {} /\ Exit("dead")
  /\ UNCHANGED <<program, accepted, data, clients, net>>

CalcAnswer(c) ==
  /\ server = "answer"
  /\ Write(c, 1)
  /\ server' = "close"
  /\ UNCHANGED <<program, clientSocket, accepted, data, clients, serverEnd>>

----------------------------------------------------------------------------
(***************************************************************************)
(* file_server.c, sep_server.c, sep_server2.c and hello_server.c.          *)
(***************************************************************************)

\* The file is sent in pieces of the buffer's size, the text at once.
Piece ==
  IF program = "file_server" /\ FileSize - strLen >= BUF_SIZE THEN BUF_SIZE ELSE FileSize - strLen

LastPiece == program # "file_server" \/ Piece < BUF_SIZE

SendPiece(c) ==
  /\ server = "send"
  /\ IF Piece = 0 THEN UNCHANGED net ELSE Write(c, Piece)
  /\ strLen' = strLen + Piece
  /\ server' = IF ~LastPiece THEN "send" ELSE IF program = "hello_server" THEN "close" ELSE "end"
  /\ UNCHANGED <<program, clientSocket, accepted, optCount, revLen, heard, clients, serverEnd>>

\* Mutant: the stream to the client is ended by closing the socket.
HalfClosesNot == FALSE

\* shutdown() ends one direction; fclose() of a stream closes the socket, unless it was
\* duplicated.
HalfCloses == program \in {"file_server", "sep_server2"}

EndStream(c) ==
  /\ server = "end"
  /\ serverEnd' = [serverEnd EXCEPT ![c] = IF HalfCloses \/ inbox[c] = 0 THEN "fin" ELSE "reset"]
  /\ clientSocket' = IF HalfCloses THEN c ELSE NoConn
  /\ server' = IF HalfCloses THEN "answered" ELSE "close"
  /\ UNCHANGED <<program, accepted, data, clients, net>>

\* One read(), or fgets(), which looks for the end of the stream since the answer has no
\* newline.
ReadAnswer(c) ==
  /\ server = "answered"
  /\ \/ /\ ReadUnits(c, 1)
        /\ heard' = TRUE
        /\ server' = IF program = "file_server" THEN "close" ELSE "answered"
     \/ /\ (AtEnd(c) /\ UNCHANGED net) \/ ReadReset(c)
        /\ server' = "close"
        /\ UNCHANGED heard
  /\ UNCHANGED <<program, clientSocket, accepted, strLen, optCount, revLen, clients, serverEnd>>

\* SIGPIPE ends the server.
Killed(c) ==
  /\ server \in {"write", "again", "answer", "send"}
  /\ BrokenPipe(c)
  /\ Exit("dead")
  /\ UNCHANGED <<program, accepted, data, clients, net>>

Serve(c) ==
  /\ clientSocket = c
  /\ \/ EchoRead(c) \/ EchoWrite(c) \/ EchoEnd(c) \/ EchoAgain(c)
     \/ CalcCount(c) \/ CalcRest(c) \/ Calc(c) \/ CalcAnswer(c)
     \/ SendPiece(c) \/ EndStream(c) \/ ReadAnswer(c)
     \/ Killed(c)

Server == Close \/ \E c \in Conns : Accept(c) \/ Serve(c)

----------------------------------------------------------------------------
(***************************************************************************)
(* The clients.                                                            *)
(***************************************************************************)

\* A connection is made while the server listens, and refused after that.
Begin(c) ==
  /\ client[c] = "none"
  /\ IF server \in {"done", "dead"}
     THEN client' = [client EXCEPT ![c] = "failed"] /\ UNCHANGED net
     ELSE client' = [client EXCEPT ![c] = "on"] /\ Connect(c)
  /\ UNCHANGED <<program, served, data, readLen, writeLen, request, serverEnd>>

\* echo_client and echo_std_client send a message and wait for all of its echo.
EchoSend(c) ==
  /\ program \in {"echo_server", "echo_std_server"}
  /\ client[c] = "on" /\ serverEnd[c] = "open"
  /\ Send(c)
  /\ writeLen' = [writeLen EXCEPT ![c] = sent'[c] - sent[c]]
  /\ readLen' = [readLen EXCEPT ![c] = 0]
  /\ UNCHANGED <<program, served, data, client, request, serverEnd>>

\* Mutant: one read takes the echo for complete.
AnsweredByOne(c) == TRUE

\* The loop of reads ends when as much was read as was written.
AnsweredBy(c) == readLen'[c] >= writeLen[c]

EchoReceive(c) ==
  /\ program \in {"echo_server", "echo_std_server"}
  /\ client[c] = "on" /\ c \in waiting
  /\ \E n \in 1 .. outbox[c] :
       /\ outbox' = [outbox EXCEPT ![c] = @ - n]
       /\ readLen' = [readLen EXCEPT ![c] = @ + n]
  /\ waiting' = IF AnsweredBy(c) THEN waiting \ {c} ELSE waiting
  /\ UNCHANGED <<program, served, data, client, writeLen, request, serverEnd, peer, inbox, sent>>

\* One process of echo_mpclient writes messages,
WriteMessage(c) ==
  /\ program = "echo_mpclient"
  /\ client[c] = "on" /\ serverEnd[c] = "open"
  /\ \E n \in 1 .. MaxSent - sent[c] :
       /\ sent' = [sent EXCEPT ![c] = @ + n]
       /\ inbox' = [inbox EXCEPT ![c] = @ + n]
       /\ writeLen' = [writeLen EXCEPT ![c] = @ + n]
  /\ UNCHANGED <<program, served, data, client, readLen, request, serverEnd,
                 peer, outbox, waiting>>

\* and ends the stream with shutdown();
EndMessages(c) ==
  /\ program = "echo_mpclient"
  /\ client[c] = "on" /\ serverEnd[c] = "open"
  /\ client' = [client EXCEPT ![c] = "replied"]
  /\ peer' = [peer EXCEPT ![c] = "fin"]
  /\ UNCHANGED <<program, served, data, readLen, writeLen, request, serverEnd,
                 inbox, outbox, sent, waiting>>

\* the other one reads meanwhile,
ReadMessage(c) ==
  /\ program = "echo_mpclient"
  /\ client[c] \in {"on", "replied"}
  /\ \E n \in 1 .. outbox[c] :
       /\ outbox' = [outbox EXCEPT ![c] = @ - n]
       /\ readLen' = [readLen EXCEPT ![c] = @ + n]
  /\ UNCHANGED <<program, served, data, client, writeLen, request, serverEnd,
                 peer, inbox, sent, waiting>>

\* and comes to its end when the server has closed the connection.
MessagesEnd(c) ==
  /\ HalfClosed(c)
  /\ outbox[c] = 0 /\ serverEnd[c] = "fin"
  /\ client' = [client EXCEPT ![c] = "done"]
  /\ UNCHANGED <<program, served, data, readLen, writeLen, request, serverEnd, net>>

\* The count, the operands and the operator are written at once.
CalcSend(c) ==
  /\ program = "calc_server"
  /\ client[c] = "on" /\ serverEnd[c] = "open"
  /\ writeLen[c] = 0
  /\ \E r \in Requests :
       LET n == OPSZ * r.count + 2
       IN  /\ request' = [request EXCEPT ![c] = r]
           /\ writeLen' = [writeLen EXCEPT ![c] = n]
           /\ inbox' = [inbox EXCEPT ![c] = @ + n]
           /\ sent' = [sent EXCEPT ![c] = @ + n]
  /\ waiting' = waiting \cup {c}
  /\ UNCHANGED <<program, served, data, client, readLen, serverEnd, peer, outbox>>

CalcReceive(c) ==
  /\ program = "calc_server"
  /\ client[c] = "on"
  /\ Receive(c)
  /\ readLen' = [readLen EXCEPT ![c] = outbox[c]]
  /\ UNCHANGED <<program, served, data, client, writeLen, request, serverEnd>>

FileReceive(c) ==
  /\ program \in Transfers
  /\ client[c] = "on"
  /\ \E n \in 1 .. outbox[c] :
       /\ outbox' = [outbox EXCEPT ![c] = @ - n]
       /\ readLen' = [readLen EXCEPT ![c] = @ + n]
  /\ UNCHANGED <<program, served, data, client, writeLen, request, serverEnd,
                 peer, inbox, sent, waiting>>

\* At the end of the stream the client writes its answer, which arrives unless the server
\* has closed the connection.
Answer(c) ==
  /\ program \in Transfers
  /\ client[c] = "on"
  /\ outbox[c] = 0 /\ serverEnd[c] = "fin"
  /\ client' = [client EXCEPT ![c] = "replied"]
  /\ IF clientSocket = c
     THEN /\ inbox' = [inbox EXCEPT ![c] = @ + 1]
          /\ sent' = [sent EXCEPT ![c] = @ + 1]
     ELSE UNCHANGED <<inbox, sent>>
  /\ UNCHANGED <<program, served, data, readLen, writeLen, request, serverEnd,
                 peer, outbox, waiting>>

\* hello_client reads once: what has arrived is all it prints of the text.
HelloReceive(c) ==
  /\ program = "hello_server"
  /\ client[c] = "on"
  /\ \E n \in 1 .. outbox[c] :
       /\ outbox' = [outbox EXCEPT ![c] = @ - n]
       /\ readLen' = [readLen EXCEPT ![c] = n]
  /\ client' = [client EXCEPT ![c] = "replied"]
  /\ UNCHANGED <<program, served, data, writeLen, request, serverEnd, peer, inbox, sent, waiting>>

\* The user of echo_client or echo_std_client leaves it between two messages; the other
\* clients come to their end.
Leave(c) ==
  /\ CASE program \in Echoes -> program # "echo_mpclient" /\ client[c] = "on"
       [] program = "calc_server" -> client[c] = "on" /\ readLen[c] > 0
       [] program \in Senders -> client[c] = "replied"
  /\ Quit(c)
  /\ client' = [client EXCEPT ![c] = "done"]
  /\ UNCHANGED <<program, served, data, readLen, writeLen, request, serverEnd>>

\* The next call on the connection reports a reset, or an end of the stream where none is
\* expected: echo_client reads on for ever, echo_std_client takes its own message for the
\* echo, the others end without an answer or crash.
Fail(c) ==
  /\ client[c] = "on" \/ HalfClosed(c)
  /\ outbox[c] = 0
  /\ \/ serverEnd[c] = "reset"
     \/ serverEnd[c] = "fin" /\ program \notin Transfers /\ ~HalfClosed(c)
  /\ program = "calc_server" => readLen[c] = 0
  /\ client' = [client EXCEPT ![c] = "failed"]
  /\ UNCHANGED <<program, served, data, readLen, writeLen, request, serverEnd, net>>

\* The user ends the client.
Kill(c) ==
  /\ client[c] \in {"on", "replied"}
  /\ client' = [client EXCEPT ![c] = "killed"]
  /\ peer' = [peer EXCEPT ![c] = IF outbox[c] > 0 THEN "reset" ELSE "fin"]
  /\ outbox' = [outbox EXCEPT ![c] = 0]
  /\ waiting' = waiting \ {c}
  /\ UNCHANGED <<program, served, data, readLen, writeLen, request, serverEnd, inbox, sent>>

Client(c) ==
  \/ EchoSend(c) \/ EchoReceive(c)
  \/ WriteMessage(c) \/ EndMessages(c) \/ ReadMessage(c) \/ MessagesEnd(c)
  \/ CalcSend(c) \/ CalcReceive(c)
  \/ FileReceive(c) \/ Answer(c) \/ HelloReceive(c)
  \/ Leave(c) \/ Fail(c)

Next == Server \/ \E c \in Conns : Begin(c) \/ Client(c) \/ Kill(c)

Spec == Init /\ [][Next]_vars

\* The server is scheduled again, and the users of connected clients go on to the end.
FairSpec ==
  /\ Spec
  /\ WF_vars(Server)
  /\ \A c \in Conns : WF_vars(Client(c))

----------------------------------------------------------------------------
(***************************************************************************)
(* Properties.                                                             *)
(***************************************************************************)

\* Every variable has its type.
TypeOK ==
  /\ program \in Programs
  /\ server \in {"accept", "read", "write", "again", "count", "rest", "answer", "send", "end", "answered",
                 "close", "done", "dead"}
  /\ clientSocket \in Conns \cup {NoConn}
  /\ accepted \subseteq Conns /\ Cardinality(accepted) <= Limit
  /\ strLen \in 0 .. CASE program = "echo_std_server" -> MaxSent
                      [] program \in Senders -> FileSize
                      [] OTHER -> BUF_SIZE
  /\ optCount \in 0 .. MaxCount
  /\ revLen \in 0 .. OPSZ * MaxCount + 1
  /\ heard \in BOOLEAN
  /\ client \in [Conns -> {"none", "on", "replied", "done", "failed", "killed"}]
  /\ readLen \in [Conns -> Nat]
  /\ writeLen \in [Conns -> Nat]
  /\ request \in [Conns -> Requests]
  /\ serverEnd \in [Conns -> {"open", "fin", "reset"}]
  /\ NetTypeOK

\* A message is on its way to the server, in the server's hands, on its way back or read
\* again, whatever pieces it was cut into; and a client that waits for the echo goes on to its
\* next message only when it has read all of it: it never reads past the end of its buffer.
RoundTrip ==
  program \in Echoes =>
    \A c \in Conns : (client[c] = "on" \/ HalfClosed(c)) /\ serverEnd[c] = "open" =>
      /\ inbox[c] + (IF clientSocket = c /\ server = "write" THEN strLen ELSE 0)
           + outbox[c] + readLen[c] = writeLen[c]
      /\ program # "echo_mpclient" /\ c \notin waiting => readLen[c] = writeLen[c]

\* calc_server computes with the operands and the operator of the client it serves, whatever
\* pieces the request came in and whatever the clients before it have left in the buffer.
RightAnswer ==
  server = "answer" =>
    /\ request[clientSocket].outcome = "value"
    /\ optCount = request[clientSocket].count
    /\ revLen = OPSZ * optCount + 1

\* A half-closed connection still carries everything the other way.  A client that comes to
\* the end of the stream has the whole file, or text, and a server that ended its stream only
\* reads the client's answer before it ends itself; a client that ended its stream reads the
\* echoes of all its messages.
HalfCloseCompletes ==
  \A c \in accepted :
    /\ program \in Transfers /\ client[c] \in {"replied", "done"} => readLen[c] = FileSize
    /\ program \in Transfers \ {"sep_server"} /\ server = "done" /\ client[c] # "killed" => heard
    /\ program = "echo_mpclient" /\ client[c] = "done" => readLen[c] = writeLen[c]

\* A client that has connected is served to its end, unless the server has ended before its
\* turn, died, or, with calc_server, reads for ever from a client that sent no request.
Served ==
  \A c \in Conns :
    (client[c] = "on") ~>
      (\/ client[c] \in {"done", "killed"}
       \/ server = "dead"
       \/ server = "done" /\ c \notin accepted
       \/ server = "rest" /\ client[clientSocket] = "killed")
=============================================================================

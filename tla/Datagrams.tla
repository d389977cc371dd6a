------------------------------ MODULE Datagrams ------------------------------
(***************************************************************************)
(* The programs that exchange datagrams: a server bound to a port and its  *)
(* clients.                                                                *)
(*                                                                         *)
(*   echo         udp/echo_udp_server.c with udp/echo_udp_client.c         *)
(*   echo_con     the same with udp/echo_udp_con_client.c, whose socket is *)
(*                connected: it is told when nobody is bound to the port   *)
(*   bound_host   udp/bound_host_server.c and udp/bound_host_client.c,     *)
(*                three messages, sent at once and taken one by one        *)
(*   news         broadcast/news_send.c, which sends a file line by line,  *)
(*                and broadcast/news_receive.c                             *)
(*                                                                         *)
(* A datagram may be lost, and on its way through the routers of the news  *)
(* be overtaken.  The server's user starts and ends it at any time.  A     *)
(* datagram is named after its client and its number there, or, with the   *)
(* news, the number of its line.                                           *)
(***************************************************************************)
EXTENDS Repertoire, Integers, Sequences, SequencesExt

CONSTANTS
  Clients,  \* clients of the echo server
  Loner,    \* the one that bound_host and news have
  MaxSends  \* bound on the messages of a user, and the lines of a file

ASSUME DatagramsAssumption ==
  /\ Loner \in Clients
  /\ MaxSends \in Nat

VARIABLES
  bound,     \* the server's socket is bound
  server,    \* what it does next: "receive", "reply", "done"
  held,      \* the datagram it received last, and did not answer yet
  queue,     \* datagrams that arrived for it
  received,  \* the datagrams bound_host_server and news_receive took
  client,    \* per client: "input", "receive", "done"
  number,    \* per client: messages sent
  answers,   \* per client: echoes that arrived for it
  refused,   \* connected clients that were told that the port is not bound
  output,    \* per client: the echo printed last, 0 for none, Error after a failed read()
  lost,      \* history: the datagrams lost
  newline    \* the last line of the file ends like the others

datagramVars == <<bound, server, held, queue, received, client, number, answers, refused, output,
                  lost, newline>>

Error == -1
Echoing == {"echo", "echo_con"}
DatagramPrograms == Echoing \cup {"bound_host", "news"}

Users == IF program \in Echoing THEN Clients ELSE {Loner}
Nothing == [from |-> Loner, number |-> 0]

DatagramInit ==
  /\ bound = FALSE
  /\ server = "receive"
  /\ held = Nothing
  /\ queue = <<>>
  /\ received = <<>>
  /\ client = [c \in Clients |->
                 IF program \in DatagramPrograms /\ c \in Users THEN "input" ELSE "done"]
  /\ number = [c \in Clients |-> 0]
  /\ answers = [c \in Clients |-> <<>>]
  /\ refused = {}
  /\ output = [c \in Clients |-> 0]
  /\ lost = {}
  /\ newline \in IF program = "news" THEN BOOLEAN ELSE {TRUE}

----------------------------------------------------------------------------
(***************************************************************************)
(* The server.                                                             *)
(***************************************************************************)

\* The server is started.
Bind ==
  /\ program \in DatagramPrograms
  /\ ~bound /\ server # "done"
  /\ bound' = TRUE
  /\ UNCHANGED <<server, held, queue, received, client, number, answers, refused, output, lost,
                 newline>>

\* Its user ends it: what had arrived, and what it holds, is lost.
Stop ==
  /\ bound /\ program # "bound_host"
  /\ bound' = FALSE
  /\ server' = "receive"
  /\ held' = Nothing
  /\ queue' = <<>>
  /\ received' = <<>>
  /\ lost' = lost \cup ((ToSet(queue) \cup {held}) \ {Nothing})
  /\ UNCHANGED <<client, number, answers, refused, output, newline>>

\* The datagram recvfrom() may return.
NextDatagram(k) == program = "news" \/ k = 1

\* recvfrom().  bound_host_server closes its socket after the third message.
ServerReceive ==
  /\ bound /\ server = "receive"
  /\ \E k \in DOMAIN queue :
       /\ NextDatagram(k)
       /\ queue' = RemoveAt(queue, k)
       /\ IF program \in Echoing
          THEN held' = queue[k] /\ server' = "reply" /\ UNCHANGED <<received, bound>>
          ELSE /\ received' = Append(received, queue[k])
               /\ bound' = (program = "news" \/ Len(received') < 3)
               /\ server' = IF bound' THEN "receive" ELSE "done"
               /\ UNCHANGED held
  /\ UNCHANGED <<client, number, answers, refused, output, lost, newline>>

\* Mutant: the address is that of a client before.
SenderStale(m) == Loner

Sender(m) == m.from

\* sendto() the address the datagram came from.
ServerReply ==
  /\ bound /\ server = "reply"
  /\ server' = "receive"
  /\ held' = Nothing
  /\ \/ /\ answers' = [answers EXCEPT ![Sender(held)] = Append(@, held.number)]
        /\ UNCHANGED lost
     \/ lost' = lost \cup {held} /\ UNCHANGED answers
  /\ UNCHANGED <<bound, queue, received, client, number, refused, output, newline>>

Server == ServerReceive \/ ServerReply

----------------------------------------------------------------------------
(***************************************************************************)
(* The clients.                                                            *)
(***************************************************************************)

\* Datagram m of client c arrives, or is lost; a connected client is told why if nobody is
\* bound to the port.
Transmit(c, m) ==
  \/ bound /\ queue' = Append(queue, m) /\ UNCHANGED <<lost, refused>>
  \/ /\ lost' = lost \cup {m}
     /\ refused' = IF program = "echo_con" /\ ~bound THEN refused \cup {c} ELSE refused
     /\ UNCHANGED queue

\* feof() tells of the end only after fgets() has met it: after a last line that ends like the
\* others the loop goes round once more, with that line in the buffer.
Sends == CASE program = "bound_host" -> 3
           [] program = "news" -> IF newline THEN MaxSends + 1 ELSE MaxSends
           [] OTHER -> MaxSends

LineSent(n) == IF program = "news" /\ n > MaxSends THEN MaxSends ELSE n

\* The next message of the user, or line of the file.
SendNext(c) ==
  /\ client[c] = "input"
  /\ number[c] < Sends
  /\ number' = [number EXCEPT ![c] = @ + 1]
  /\ Transmit(c, [from |-> c, number |-> LineSent(number'[c])])
  /\ client' = IF program \in Echoing THEN [client EXCEPT ![c] = "receive"] ELSE client
  /\ UNCHANGED <<bound, server, held, received, answers, output, newline>>

\* The echo arrives.
ReceiveEcho(c) ==
  /\ client[c] = "receive"
  /\ answers[c] # <<>>
  /\ output' = [output EXCEPT ![c] = Head(answers[c])]
  /\ answers' = [answers EXCEPT ![c] = Tail(@)]
  /\ client' = [client EXCEPT ![c] = "input"]
  /\ UNCHANGED <<bound, server, held, queue, received, number, refused, lost, newline>>

\* read() returns -1: the client writes before the beginning of outputMessage, and goes on.
ReceiveRefused(c) ==
  /\ client[c] = "receive" /\ c \in refused
  /\ refused' = refused \ {c}
  /\ output' = [output EXCEPT ![c] = Error]
  /\ client' = [client EXCEPT ![c] = "input"]
  /\ UNCHANGED <<bound, server, held, queue, received, number, answers, lost, newline>>

\* The user enters q; the other clients have sent everything.
Leave(c) ==
  /\ client[c] = "input"
  /\ program \in Echoing \/ number[c] = Sends
  /\ client' = [client EXCEPT ![c] = "done"]
  /\ UNCHANGED <<bound, server, held, queue, received, number, answers, refused, output, lost,
                 newline>>

Client(c) == SendNext(c) \/ ReceiveEcho(c) \/ ReceiveRefused(c) \/ Leave(c)

DatagramNext ==
  /\ Bind \/ Stop \/ Server \/ \E c \in Clients : Client(c)
  /\ UNCHANGED program

DatagramSpec ==
  program \in DatagramPrograms /\ DatagramInit /\ [][DatagramNext]_<<program, datagramVars>>

----------------------------------------------------------------------------
(***************************************************************************)
(* Properties.                                                             *)
(***************************************************************************)

Datagram == [from : Clients, number : Nat]

\* Every variable has its type.
DatagramTypeOK ==
  /\ bound \in BOOLEAN
  /\ server \in {"receive", "reply", "done"}
  /\ held \in Datagram
  /\ queue \in Seq(Datagram)
  /\ received \in Seq(Datagram)
  /\ client \in [Clients -> {"input", "receive", "done"}]
  /\ number \in [Clients -> Nat]
  /\ answers \in [Clients -> Seq(Nat)]
  /\ refused \subseteq Clients
  /\ output \in [Clients -> Nat \cup {Error}]
  /\ lost \subseteq Datagram
  /\ newline \in BOOLEAN

Latest(c) == [from |-> c, number |-> number[c]]

\* What a client prints is the echo of its own last message, although others use the server at
\* the same time and datagrams get lost; it gets an error instead only if it is connected
\* and its message was lost for want of a server.
OwnEcho ==
  \A c \in Users :
    program \in Echoing /\ client[c] = "input" =>
      \/ output[c] = number[c]
      \/ /\ output[c] = Error /\ program = "echo_con"
         /\ Latest(c) \in lost

\* bound_host_server takes each message by itself and in order; of the news a line may be
\* missing, but only the last one comes twice.
OncePerMessage ==
  \A k, l \in DOMAIN received :
    k < l =>
      /\ program = "bound_host" => received[k].number < received[l].number
      /\ program = "news" =>
           received[k].number # received[l].number \/ received[k].number = MaxSends

\* The client waits, and its message is on its way, or the error.
Pending(c) == client[c] = "receive" /\ (Latest(c) \notin lost \/ c \in refused)

\* A client that waits gets an answer, unless its message or the echo was lost, be it with the
\* server; a connected one is never left waiting because there was no server to begin with.
Echoed == \A c \in Clients : Pending(c) ~> ~Pending(c)
=============================================================================

------------------------------ MODULE EchoNet ------------------------------
(***************************************************************************)
(* The connections between the echo servers and their client               *)
(* epoll/echo_client.c: the sockets as the server finds them, what read()  *)
(* and write() on them do, and the steps of the clients.  Data is counted  *)
(* in units.                                                               *)
(***************************************************************************)
EXTENDS Integers, FiniteSets

CONSTANTS
  Conns,    \* connections of clients
  MaxSent   \* bound on the units a client sends

ASSUME NetAssumption == IsFiniteSet(Conns) /\ MaxSent \in Nat

VARIABLES
  peer,     \* state of each connection: "none", "up", "fin" closed by the client,
            \* "reset" by it, "broken" when the server was told of the reset
  inbox,    \* units arrived and not read by the server
  outbox,   \* units echoed and not read by the client
  sent,     \* units sent by the client
  waiting   \* clients that wait for an echo

net == <<peer, inbox, outbox, sent, waiting>>

NetInit ==
  /\ peer = [c \in Conns |-> "none"]
  /\ inbox = [c \in Conns |-> 0]
  /\ outbox = [c \in Conns |-> 0]
  /\ sent = [c \in Conns |-> 0]
  /\ waiting = {}

NetTypeOK ==
  /\ peer \in [Conns -> {"none", "up", "fin", "reset", "broken"}]
  /\ inbox \in [Conns -> Nat]
  /\ outbox \in [Conns -> Nat]
  /\ sent \in [Conns -> Nat]
  /\ waiting \subseteq Conns

----------------------------------------------------------------------------
(***************************************************************************)
(* The server's calls.                                                     *)
(***************************************************************************)

\* read() on the connection returns at once.
Readable(c) == inbox[c] > 0 \/ peer[c] # "up"

\* read() returns n units, at least one.
ReadUnits(c, n) ==
  /\ 1 <= n /\ n <= inbox[c]
  /\ inbox' = [inbox EXCEPT ![c] = @ - n]
  /\ UNCHANGED <<peer, outbox, sent, waiting>>

\* read() returns 0.
AtEnd(c) == inbox[c] = 0 /\ peer[c] \in {"fin", "broken"}

\* read() returns -1, which it does once after a reset.
ReadReset(c) ==
  /\ inbox[c] = 0 /\ peer[c] = "reset"
  /\ peer' = [peer EXCEPT ![c] = "broken"]
  /\ UNCHANGED <<inbox, outbox, sent, waiting>>

\* write() of n units to a client that may still read.
WriteOpen(c, n) ==
  /\ peer[c] = "up"
  /\ outbox' = [outbox EXCEPT ![c] = @ + n]
  /\ UNCHANGED <<peer, inbox, sent, waiting>>

\* write() to a client that has closed is answered by a reset, now or never.
WriteClosed(c) ==
  /\ peer[c] = "fin"
  /\ peer' \in {peer, [peer EXCEPT ![c] = "reset"]}
  /\ UNCHANGED <<inbox, outbox, sent, waiting>>

\* write() reports the reset.
WriteReset(c) ==
  /\ peer[c] = "reset"
  /\ peer' = [peer EXCEPT ![c] = "broken"]
  /\ UNCHANGED <<inbox, outbox, sent, waiting>>

Write(c, n) == WriteOpen(c, n) \/ WriteClosed(c) \/ WriteReset(c)

\* write() raises SIGPIPE.
BrokenPipe(c) == peer[c] \in {"reset", "broken"}

----------------------------------------------------------------------------
(***************************************************************************)
(* The clients.                                                            *)
(***************************************************************************)

Connect(c) ==
  /\ peer[c] = "none"
  /\ peer' = [peer EXCEPT ![c] = "up"]
  /\ UNCHANGED <<inbox, outbox, sent, waiting>>

\* Send a message and wait for an echo.
Send(c) ==
  /\ peer[c] = "up" /\ c \notin waiting
  /\ \E n \in 1 .. MaxSent - sent[c] :
       /\ sent' = [sent EXCEPT ![c] = @ + n]
       /\ inbox' = [inbox EXCEPT ![c] = @ + n]
  /\ waiting' = waiting \cup {c}
  /\ UNCHANGED <<peer, outbox>>

\* One read, which takes all that has arrived for the answer.
Receive(c) ==
  /\ c \in waiting
  /\ outbox[c] > 0
  /\ outbox' = [outbox EXCEPT ![c] = 0]
  /\ waiting' = waiting \ {c}
  /\ UNCHANGED <<peer, inbox, sent>>

\* The client leaves; echoes it did not read make its system send a reset.
Quit(c) ==
  /\ peer[c] = "up" /\ c \notin waiting
  /\ peer' = [peer EXCEPT ![c] = IF outbox[c] > 0 THEN "reset" ELSE "fin"]
  /\ outbox' = [outbox EXCEPT ![c] = 0]
  /\ UNCHANGED <<inbox, sent, waiting>>
=============================================================================

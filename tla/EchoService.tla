----------------------------- MODULE EchoService -----------------------------
(***************************************************************************)
(* What an echo server promises.  Whatever a client sends is echoed, in    *)
(* full and once, and its connection is closed only after it has left and  *)
(* everything it had sent was taken.  Data is counted in units.  A client  *)
(* that leaves while it is answered may end what serves it: the server, or *)
(* the process of its own connection only.  A bounded number of clients    *)
(* may be refused: their connections are closed and nothing is taken.      *)
(***************************************************************************)
EXTENDS Naturals, FiniteSets

CONSTANTS
  Conns,
  PerClient,   \* a process of its own serves each connection
  MaxRefused   \* bound on the clients refused

VARIABLES
  status,   \* of each connection: "none", "open", "left" by the client, "closed" in order,
            \* "refused", or "cut" when what served it has ended
  sent,     \* units the client has sent
  echoed,   \* units the server has taken to echo
  running   \* the server has not come to an end

vars == <<status, sent, echoed, running>>

Init ==
  /\ status = [c \in Conns |-> "none"]
  /\ sent = [c \in Conns |-> 0]
  /\ echoed = [c \in Conns |-> 0]
  /\ running = TRUE

Open(c) ==
  /\ status[c] = "none"
  /\ status' = [status EXCEPT ![c] = "open"]
  /\ UNCHANGED <<sent, echoed, running>>

\* Any number of units more; a client does not know at once that it was refused.
Send(c) ==
  /\ status[c] \in {"open", "refused"}
  /\ sent' = [sent EXCEPT ![c] = sent'[c]]
  /\ sent'[c] \in Nat /\ sent'[c] > sent[c]
  /\ UNCHANGED <<status, echoed, running>>

Leave(c) ==
  /\ status[c] = "open"
  /\ status' = [status EXCEPT ![c] = "left"]
  /\ UNCHANGED <<sent, echoed, running>>

Echo(c) ==
  /\ running
  /\ status[c] \in {"open", "left"}
  /\ \E n \in echoed[c] + 1 .. sent[c] : echoed' = [echoed EXCEPT ![c] = n]
  /\ UNCHANGED <<status, sent, running>>

Close(c) ==
  /\ running
  /\ status[c] = "left" /\ echoed[c] = sent[c]
  /\ status' = [status EXCEPT ![c] = "closed"]
  /\ UNCHANGED <<sent, echoed, running>>

Refusals == {c \in Conns : status[c] = "refused"}

\* Close the connection of a client that nothing was taken from.
Refuse(c) ==
  /\ running
  /\ status[c] \in {"open", "left"} /\ echoed[c] = 0
  /\ Cardinality(Refusals) < MaxRefused
  /\ status' = [status EXCEPT ![c] = "refused"]
  /\ UNCHANGED <<sent, echoed, running>>

\* The process that answers a client ends as the client has left.
Cut(c) ==
  /\ PerClient
  /\ status[c] = "left" /\ echoed[c] > 0
  /\ status' = [status EXCEPT ![c] = "cut"]
  /\ UNCHANGED <<sent, echoed, running>>

\* The server that answers a client ends as the client has left.
Stop ==
  /\ ~PerClient /\ running
  /\ \E c \in Conns : status[c] = "left"
  /\ running' = FALSE
  /\ UNCHANGED <<status, sent, echoed>>

Next ==
  \/ Stop
  \/ \E c \in Conns :
       Open(c) \/ Send(c) \/ Leave(c) \/ Echo(c) \/ Close(c) \/ Refuse(c) \/ Cut(c)

Spec == Init /\ [][Next]_vars
=============================================================================

----------------------- MODULE IterativeServerProofs -----------------------
(***************************************************************************)
(* Proofs about the servers of IterativeServer and their clients, for      *)
(* every number of clients and every size of buffers, messages, requests   *)
(* and files: no unit of a message is lost on its way to the server and    *)
(* back, the calculator computes with its own client's request, and a      *)
(* connection of which one half was closed still carries everything the    *)
(* other way.                                                              *)
(***************************************************************************)
EXTENDS IterativeServer, FiniteSetTheorems, TLAPS

\* Where the server stands, and the connection it serves there.
Stands ==
  /\ server \in {"read", "write"} => program \in Echoes
  /\ server = "again" => program = "echo_std_server"
  /\ server \in {"count", "rest", "answer"} => program = "calc_server"
  /\ server = "send" => program \in Senders
  /\ server = "end" => program \in Transfers
  /\ server = "answered" => HalfCloses
  /\ server \in {"accept", "done", "dead"} => clientSocket = NoConn
  /\ server \notin {"accept", "done", "dead", "close"} => clientSocket \in accepted
  /\ server = "close" => IF program = "sep_server" THEN clientSocket = NoConn /\ accepted # {}
                                                 ELSE clientSocket \in accepted
  /\ server = "accept" => Cardinality(accepted) < Limit

\* The ends of the connections: the server's, the client's, and the process of the client.
Ends ==
  /\ \A c \in accepted : peer[c] # "none"
  /\ \A c \in Conns : serverEnd[c] = "fin" => c \in accepted
  /\ \A c \in Conns : serverEnd[c] = "reset" => c \in accepted \/ server \in {"done", "dead"}
  /\ clientSocket # NoConn => serverEnd[clientSocket] = IF HalfCloses /\ server \in {"answered", "close"}
                                                        THEN "fin" ELSE "open"
  /\ \A c \in Conns : client[c] = "none" => peer[c] = "none"
  /\ \A c \in Conns : client[c] = "on" => peer[c] = "up"
  /\ \A c \in Conns : peer[c] \in {"fin", "reset", "broken"} =>
       client[c] \in {"done", "killed"} \/ program = "echo_mpclient"
  /\ \A c \in Conns : inbox[c] <= sent[c]
  /\ program = "echo_std_server" => \A c \in Conns : sent[c] <= MaxSent
  /\ server = "again" => peer[clientSocket] \notin {"none", "up"}

InHand(c) == IF clientSocket = c /\ server = "write" THEN strLen ELSE 0
Carried(c) == inbox[c] + InHand(c) + outbox[c] + readLen[c] = writeLen[c]

\* The messages of the echo programs.
Echoed ==
  program \in Echoes =>
    /\ \A c \in Conns :
         (client[c] \in {"none", "on"} \/ HalfClosed(c)) /\ serverEnd[c] = "open" =>
           /\ Carried(c)
           /\ program # "echo_mpclient" /\ c \notin waiting => readLen[c] = writeLen[c]
    /\ program = "echo_mpclient" =>
         /\ \A c \in Conns : HalfClosed(c) =>
              /\ peer[c] = "fin"
              /\ serverEnd[c] = "fin" => outbox[c] + readLen[c] = writeLen[c]
         /\ \A c \in Conns : client[c] = "done" => readLen[c] = writeLen[c]
         /\ server = "close" => inbox[clientSocket] = 0 /\ peer[clientSocket] \notin {"none", "up"}

\* The request of calc_client that is on its way.
Whole(c) == writeLen[c] # 0 => writeLen[c] = OPSZ * request[c].count + 2

Computed ==
  program = "calc_server" =>
    /\ \A c \in Conns : c \notin accepted => inbox[c] = writeLen[c] /\ Whole(c)
    /\ server = "count" => /\ inbox[clientSocket] = writeLen[clientSocket] /\ Whole(clientSocket)
                           /\ revLen = 0
    /\ server = "rest" =>
         \/ /\ writeLen[clientSocket] # 0
            /\ optCount = request[clientSocket].count
            /\ inbox[clientSocket] + revLen = OPSZ * optCount + 1
         \/ /\ inbox[clientSocket] = 0 /\ revLen = 0
            /\ peer[clientSocket] \in {"fin", "broken"}
    /\ server = "answer" => writeLen[clientSocket] # 0
    /\ RightAnswer

\* The file, and the client's answer.
Transferred ==
  program \in Transfers =>
    /\ server = "accept" => strLen = 0
    /\ server \in {"end", "answered", "close", "done"} => strLen = FileSize
    /\ \A c \in Conns : c \notin accepted => outbox[c] = 0 /\ readLen[c] = 0
    /\ \A c \in accepted : client[c] = "on" =>
         outbox[c] + readLen[c] = strLen /\ server # "dead"
    /\ \A c \in Conns : client[c] \in {"replied", "done"} => c \in accepted /\ readLen[c] = FileSize
    /\ \A c \in accepted :
         /\ clientSocket = c /\ client[c] \in {"replied", "done"} => heard \/ inbox[c] > 0
         /\ program # "sep_server" /\ server \in {"close", "done"} => heard \/ client[c] = "killed"

IInv == TypeOK /\ Stands /\ Ends /\ Echoed /\ Computed /\ Transferred

----------------------------------------------------------------------------
(***************************************************************************)
(* Types.                                                                  *)
(***************************************************************************)

StrBound == CASE program = "echo_std_server" -> MaxSent
              [] program \in Senders -> FileSize
              [] OTHER -> BUF_SIZE

MaxRequest == OPSZ * MaxCount + 1

LEMMA Constants ==
  /\ NoConn \notin Conns
  /\ BUF_SIZE \in Nat /\ BUF_SIZE >= 2 /\ OPSZ \in Nat /\ OPSZ >= 1 /\ MaxCount \in Nat
  /\ FileSize \in Nat /\ FileSize >= 1 /\ Rounds \in Nat /\ Rounds >= 1 /\ MaxSent \in Nat
  /\ Limit \in Nat /\ Limit >= 1
  /\ MaxRequest \in Nat
BY IterativeAssumption, NetAssumption DEF Limit, MaxRequest

LEMMA Bounded ==
  ASSUME program \in Programs
  PROVE  /\ StrBound \in Nat
         /\ program \in (Echoes \ {"echo_std_server"}) \cup {"calc_server"} => StrBound = BUF_SIZE
         /\ program = "echo_std_server" => StrBound = MaxSent
         /\ program \in Senders => StrBound = FileSize
BY Constants DEF StrBound, Echoes, Senders, Transfers

LEMMA ProgramOne ==
  ASSUME program \in Programs
  PROVE  /\ program \in Echoes \/ program = "calc_server" \/ program \in Senders
         /\ program \in Echoes => program \notin Senders /\ program # "calc_server"
         /\ program \in Senders => program # "calc_server"
BY IterativeAssumption DEF Echoes, Senders, Transfers

\* The types of what belongs to the connections.
ConnTypes ==
  /\ client \in [Conns -> {"none", "on", "replied", "done", "failed", "killed"}]
  /\ readLen \in [Conns -> Nat]
  /\ writeLen \in [Conns -> Nat]
  /\ request \in [Conns -> Requests]
  /\ serverEnd \in [Conns -> {"open", "fin", "reset"}]
  /\ peer \in [Conns -> {"none", "up", "fin", "reset", "broken"}]
  /\ inbox \in [Conns -> Nat]
  /\ outbox \in [Conns -> Nat]
  /\ sent \in [Conns -> Nat]
  /\ waiting \subseteq Conns

\* The types of what belongs to the server.
ServerTypes ==
  /\ server \in {"accept", "read", "write", "again", "count", "rest", "answer", "send", "end",
                 "answered", "close", "done", "dead"}
  /\ clientSocket \in Conns \cup {NoConn}
  /\ accepted \subseteq Conns /\ Cardinality(accepted) <= Limit
  /\ strLen \in 0 .. StrBound
  /\ optCount \in 0 .. MaxCount
  /\ revLen \in 0 .. MaxRequest
  /\ heard \in BOOLEAN

LEMMA Types == TypeOK <=> program \in Programs /\ ServerTypes /\ ConnTypes
BY DEF TypeOK, NetTypeOK, ServerTypes, ConnTypes, StrBound, MaxRequest

LEMMA TypesNext == TypeOK' <=> program' \in Programs /\ ServerTypes' /\ ConnTypes'
BY DEF TypeOK, NetTypeOK, ServerTypes, ConnTypes, StrBound, MaxRequest

LEMMA AcceptedFinite ==
  ASSUME accepted \subseteq Conns
  PROVE  IsFiniteSet(accepted) /\ Cardinality(accepted) \in Nat
BY NetAssumption, FS_Subset, FS_CardinalityType

\* A connection more is one more to count.
LEMMA AcceptedMore ==
  ASSUME accepted \subseteq Conns, NEW c, c \notin accepted
  PROVE  Cardinality(accepted \cup {c}) = Cardinality(accepted) + 1
BY AcceptedFinite, FS_AddElement

\* A server of one client has the connection of one client.
LEMMA AcceptedOne ==
  ASSUME accepted \subseteq Conns, Cardinality(accepted) <= 1,
         NEW c \in accepted, NEW d \in accepted
  PROVE  c = d
<1> SUFFICES ASSUME c # d PROVE FALSE
  OBVIOUS
<1>1. IsFiniteSet(accepted) /\ {c, d} \in SUBSET accepted
  BY AcceptedFinite
<1>2. Cardinality({c, d}) = 2
  <2>1. IsFiniteSet({c}) /\ Cardinality({c}) = 1
    BY FS_Singleton
  <2>2. {c, d} = {c} \cup {d}
    OBVIOUS
  <2> QED
    BY <2>1, <2>2, FS_AddElement
<1>3. Cardinality({c, d}) <= Cardinality(accepted)
  BY <1>1, FS_Subset
<1> QED
  BY <1>2, <1>3, AcceptedFinite

LEMMA InitIInv == Init => IInv
<1> SUFFICES ASSUME Init PROVE IInv
  OBVIOUS
<1> USE Constants DEF Init, NetInit
<1>1. ConnTypes
  <2>1. [count |-> 0, outcome |-> "value"] \in Requests
    BY DEF Requests, Outcomes
  <2> QED
    BY <2>1 DEF ConnTypes
<1>2. ServerTypes
  <2>1. Cardinality(accepted) = 0
    BY FS_EmptySet
  <2>2. 0 \in 0 .. StrBound
    BY Bounded
  <2>3. 0 \in 0 .. MaxRequest /\ 0 \in 0 .. MaxCount
    OBVIOUS
  <2>4. strLen \in 0 .. StrBound /\ optCount \in 0 .. MaxCount /\ revLen \in 0 .. MaxRequest
    BY <2>2, <2>3
  <2>5. heard \in BOOLEAN
    OBVIOUS
  <2>6. /\ clientSocket \in Conns \cup {NoConn}
        /\ accepted \subseteq Conns /\ Cardinality(accepted) <= Limit
    BY <2>1
  <2> QED
    BY <2>4, <2>5, <2>6 DEF ServerTypes
<1>3. Stands
  BY FS_EmptySet DEF Stands
<1>4. Ends
  BY DEF Ends
<1>5. Echoed
  BY DEF Echoed, Carried, InHand, HalfClosed
<1>6. Computed /\ Transferred
  BY DEF Computed, Whole, RightAnswer, Transferred
<1> QED
  BY <1>1, <1>2, <1>3, <1>4, <1>5, <1>6, Types DEF IInv

----------------------------------------------------------------------------
(***************************************************************************)
(* Steps of the server that read or write on its connection.               *)
(***************************************************************************)

LEMMA Facts ==
  ASSUME IInv
  PROVE  /\ program \in Programs /\ ServerTypes /\ ConnTypes
         /\ Stands /\ Ends /\ Echoed /\ Computed /\ Transferred
BY Types DEF IInv

\* The programs do not mind what the invariants say of others.
LEMMA OtherPrograms ==
  ASSUME program' = program
  PROVE  /\ program \notin Echoes => Echoed'
         /\ program # "calc_server" => Computed' \/ server' = "answer"
         /\ program \notin Transfers => Transferred'
BY DEF Echoed, Computed, Transferred

\* A call on connection c and what it may change.
Called(c) ==
  /\ UNCHANGED <<program, accepted, clients, serverEnd, sent, waiting>>
  /\ peer' \in [Conns -> {"none", "up", "fin", "reset", "broken"}]
  /\ inbox' \in [Conns -> Nat]
  /\ outbox' \in [Conns -> Nat]
  /\ \A d \in Conns : d # c => peer'[d] = peer[d] /\ inbox'[d] = inbox[d] /\ outbox'[d] = outbox[d]
  /\ inbox'[c] <= inbox[c]
  /\ \/ peer'[c] = peer[c]
     \/ peer[c] \in {"fin", "reset"} /\ peer'[c] \in {"reset", "broken"}

LEMMA ReadCall ==
  ASSUME ConnTypes, NEW c \in Conns, NEW n \in Nat, ReadUnits(c, n),
         UNCHANGED <<program, accepted, clients, serverEnd>>
  PROVE  /\ Called(c)
         /\ inbox'[c] + n = inbox[c] /\ UNCHANGED <<peer, outbox>> /\ n >= 1
<1>1. /\ inbox' = [inbox EXCEPT ![c] = inbox[c] - n] /\ 1 <= n /\ n <= inbox[c]
      /\ UNCHANGED <<peer, outbox, sent, waiting>>
  BY DEF ReadUnits
<1>2. inbox \in [Conns -> Nat]
  BY DEF ConnTypes
<1>3. inbox' \in [Conns -> Nat] /\ inbox'[c] + n = inbox[c] /\ inbox'[c] <= inbox[c]
  BY <1>1, <1>2
<1>4. \A d \in Conns : d # c => inbox'[d] = inbox[d]
  BY <1>1, <1>2
<1> QED
  BY <1>1, <1>3, <1>4 DEF Called, ConnTypes

LEMMA WriteCall ==
  ASSUME ConnTypes, NEW c \in Conns, NEW n \in Nat, Write(c, n),
         UNCHANGED <<program, accepted, clients, serverEnd>>
  PROVE  /\ Called(c) /\ inbox' = inbox
         /\ \/ peer[c] = "up" /\ outbox'[c] = outbox[c] + n /\ peer' = peer
            \/ peer[c] \notin {"none", "up"} /\ outbox' = outbox
<1>1. /\ inbox \in [Conns -> Nat] /\ outbox \in [Conns -> Nat]
      /\ peer \in [Conns -> {"none", "up", "fin", "reset", "broken"}]
  BY DEF ConnTypes
<1>2. CASE WriteOpen(c, n)
  <2>1. outbox' = [outbox EXCEPT ![c] = outbox[c] + n] /\ peer[c] = "up"
        /\ UNCHANGED <<peer, inbox, sent, waiting>>
    BY <1>2 DEF WriteOpen
  <2>2. outbox' \in [Conns -> Nat] /\ outbox'[c] = outbox[c] + n
        /\ \A d \in Conns : d # c => outbox'[d] = outbox[d]
    BY <1>1, <2>1
  <2> QED
    BY <1>1, <2>1, <2>2 DEF Called
<1>3. CASE WriteClosed(c) \/ WriteReset(c)
  BY <1>1, <1>3 DEF WriteClosed, WriteReset, Called
<1> QED
  BY <1>2, <1>3 DEF Write

LEMMA ResetCall ==
  ASSUME ConnTypes, NEW c \in Conns, ReadReset(c),
         UNCHANGED <<program, accepted, clients, serverEnd>>
  PROVE  /\ Called(c) /\ UNCHANGED <<inbox, outbox>> /\ inbox[c] = 0
         /\ peer[c] = "reset" /\ peer'[c] = "broken"
BY DEF ConnTypes, ReadReset, Called

LEMMA NoCall ==
  ASSUME ConnTypes, NEW c \in Conns, UNCHANGED net,
         UNCHANGED <<program, accepted, clients, serverEnd>>
  PROVE  Called(c) /\ UNCHANGED <<peer, inbox, outbox>>
BY DEF ConnTypes, Called, net

LEMMA CalledTypes ==
  ASSUME ConnTypes, NEW c \in Conns, Called(c)
  PROVE  ConnTypes'
BY DEF ConnTypes, Called, clients

\* A call leaves the ends of the connections as they should be.
LEMMA CalledEnds ==
  ASSUME IInv, NEW c \in Conns, Called(c), clientSocket = c, clientSocket' = c,
         server' \notin {"accept", "done", "dead"},
         HalfCloses => (server \in {"answered", "close"} <=> server' \in {"answered", "close"}),
         server' = "again" => peer'[c] \notin {"none", "up"}
  PROVE  Ends'
<1> USE Facts DEF Called, clients
<1>1. \A d \in Conns : inbox'[d] <= sent'[d]
  <2>1. inbox \in [Conns -> Nat] /\ inbox' \in [Conns -> Nat] /\ sent \in [Conns -> Nat]
    BY DEF ConnTypes
  <2>2. \A d \in Conns : inbox[d] <= sent[d]
    BY DEF Ends
  <2>3. inbox'[c] <= sent[c]
    BY <2>1, <2>2
  <2> QED
    BY <2>2, <2>3
<1>2. \A d \in Conns : /\ peer'[d] = "none" <=> peer[d] = "none"
                       /\ peer'[d] = "up" <=> peer[d] = "up"
  OBVIOUS
<1>3. HalfCloses' <=> HalfCloses
  BY DEF HalfCloses
<1>4. serverEnd'[c] = IF HalfCloses' /\ server' \in {"answered", "close"} THEN "fin" ELSE "open"
  <2>1. serverEnd[c] = IF HalfCloses /\ server \in {"answered", "close"} THEN "fin" ELSE "open"
    BY Constants DEF Ends
  <2> QED
    BY <1>3, <2>1
<1>5. \A d \in Conns : serverEnd'[d] = "reset" => d \in accepted'
  <2>1. server \notin {"done", "dead"}
    BY Constants DEF Stands
  <2> QED
    BY <2>1 DEF Ends
<1>6. \A d \in Conns : peer'[d] \in {"fin", "reset", "broken"} =>
        client'[d] \in {"done", "killed"} \/ program' = "echo_mpclient"
  <2>1. \A d \in Conns : peer'[d] \in {"fin", "reset", "broken"} =>
          peer[d] \in {"fin", "reset", "broken"}
    BY DEF ConnTypes
  <2> QED
    BY <2>1 DEF Ends
<1>7. /\ \A d \in accepted' : peer'[d] # "none"
      /\ \A d \in Conns : serverEnd'[d] = "fin" => d \in accepted'
      /\ \A d \in Conns : client'[d] = "none" => peer'[d] = "none"
      /\ \A d \in Conns : client'[d] = "on" => peer'[d] = "up"
      /\ program' = "echo_std_server" => \A d \in Conns : sent'[d] <= MaxSent
  BY <1>2 DEF Ends, ServerTypes
<1> QED
  BY <1>1, <1>4, <1>5, <1>6, <1>7 DEF Ends

----------------------------------------------------------------------------
(***************************************************************************)
(* The echo servers.                                                       *)
(***************************************************************************)

\* What the server does with a message leaves the sum of its parts.
LEMMA EchoServed ==
  ASSUME IInv, NEW c \in Conns, Called(c), clientSocket = c, clientSocket' = c,
         \/ inbox'[c] + InHand(c)' + outbox'[c] = inbox[c] + InHand(c) + outbox[c]
         \/ peer[c] \notin {"none", "up"} /\ ~HalfClosed(c),
         HalfClosed(c) => peer'[c] = peer[c],
         program = "echo_mpclient" /\ server' = "close" =>
           inbox'[c] = 0 /\ peer'[c] \notin {"none", "up"},
         serverEnd[c] = "open",
         InHand(c) \in Nat, InHand(c)' \in Nat
  PROVE  Echoed'
<1> USE Facts DEF Called, clients
<1> SUFFICES ASSUME program \in Echoes PROVE Echoed'
  BY DEF Echoed
<1>1. \A d \in Conns : HalfClosed(d)' <=> HalfClosed(d)
  BY DEF HalfClosed
<1>2. \A d \in Conns : (client[d] \in {"none", "on"} \/ HalfClosed(d)) /\ serverEnd[d] = "open" =>
        /\ Carried(d)
        /\ program # "echo_mpclient" /\ d \notin waiting => readLen[d] = writeLen[d]
  BY DEF Echoed
<1>3. \A d \in Conns : d # c => InHand(d) = 0 /\ InHand(d)' = 0
  BY DEF InHand
<1>4. ASSUME NEW d \in Conns, client[d] \in {"none", "on"} \/ HalfClosed(d), serverEnd[d] = "open"
      PROVE  Carried(d)'
  <2>1. CASE d # c
    BY <1>2, <1>3, <1>4, <2>1 DEF Carried
  <2>2. CASE d = c
    <3>1. client[c] \in {"none", "on"} => peer[c] \in {"none", "up"}
      BY DEF Ends
    <3>2. inbox'[c] + InHand(c)' + outbox'[c] = inbox[c] + InHand(c) + outbox[c]
      BY <1>4, <2>2, <3>1
    <3>3. inbox[c] + InHand(c) + outbox[c] + readLen[c] = writeLen[c]
      BY <1>2, <1>4, <2>2 DEF Carried
    <3>4. /\ inbox[c] \in Nat /\ outbox[c] \in Nat /\ readLen[c] \in Nat
          /\ inbox'[c] \in Nat /\ outbox'[c] \in Nat
      BY DEF ConnTypes
    <3>5. inbox'[c] + InHand(c)' + outbox'[c] + readLen[c] = writeLen[c]
      BY <3>2, <3>3, <3>4
    <3> QED
      BY <2>2, <3>5 DEF Carried
  <2> QED
    BY <2>1, <2>2
<1>5. program = "echo_mpclient" =>
        /\ \A d \in Conns : HalfClosed(d) =>
             /\ peer'[d] = "fin"
             /\ serverEnd[d] = "fin" => outbox'[d] + readLen[d] = writeLen[d]
        /\ \A d \in Conns : client[d] = "done" => readLen[d] = writeLen[d]
        /\ server' = "close" => inbox'[c] = 0 /\ peer'[c] \notin {"none", "up"}
  BY DEF Echoed
<1> HIDE DEF Called
<1>6. UNCHANGED <<program, client, readLen, writeLen, serverEnd, waiting, clientSocket>>
  BY DEF Called
<1> QED
  BY <1>1, <1>2, <1>4, <1>5, <1>6 DEF Echoed

----------------------------------------------------------------------------
(***************************************************************************)
(* Beginning and ending a connection.                                      *)
(***************************************************************************)

LEMMA AcceptIInv ==
  ASSUME IInv, NEW c \in Conns, Accept(c)
  PROVE  IInv'
<1> USE Facts
<1>1. /\ server = "accept" /\ peer[c] # "none" /\ c \notin accepted
      /\ accepted' = accepted \cup {c} /\ clientSocket' = c /\ revLen' = 0
      /\ UNCHANGED <<program, strLen, optCount, heard, client, readLen, writeLen, request,
                     serverEnd, peer, inbox, outbox, sent, waiting>>
  BY DEF Accept, clients, net
<1>2. /\ program \in Echoes => server' = "read"
      /\ program = "calc_server" => server' = "count"
      /\ program \in Senders => server' = "send"
  BY ProgramOne DEF Accept
<1>3. server' \in {"read", "count", "send"}
  BY <1>2, ProgramOne
<1>4. ConnTypes'
  BY <1>1 DEF ConnTypes
<1>5. Cardinality(accepted') = Cardinality(accepted) + 1 /\ Limit' = Limit
  BY <1>1, AcceptedMore DEF ServerTypes, Limit
<1>6. ServerTypes'
  <2>1. Cardinality(accepted) < Limit
    BY <1>1 DEF Stands
  <2>2. Cardinality(accepted') <= Limit'
    BY <1>1, <1>5, <2>1, AcceptedFinite, Constants DEF ServerTypes
  <2>3. StrBound' = StrBound
    BY <1>1 DEF StrBound
  <2>4. revLen' \in 0 .. MaxRequest
    BY <1>1, Constants
  <2> QED
    BY <1>1, <1>3, <2>2, <2>3, <2>4 DEF ServerTypes
<1>7. Stands'
  BY <1>1, <1>2, <1>3, ProgramOne DEF Stands
<1>8. Ends'
  <2>1. serverEnd[c] = "open"
    BY <1>1 DEF Ends, ConnTypes
  <2> QED
    BY <1>1, <1>3, <2>1 DEF Ends
<1>9. Echoed'
  <2>1. \A d \in Conns : (HalfClosed(d)' <=> HalfClosed(d)) /\ (Carried(d)' <=> Carried(d))
    BY <1>1, <1>3 DEF HalfClosed, Carried, InHand
  <2> QED
    BY <1>1, <1>3, <2>1 DEF Echoed
<1>10. Computed'
  BY <1>1, <1>3 DEF Computed, Whole, RightAnswer
<1>11. Transferred'
  <2> SUFFICES ASSUME program \in Transfers PROVE Transferred'
    BY <1>1 DEF Transferred
  <2>1. ASSUME NEW d \in accepted', client[d] = "on"
        PROVE  outbox[d] + readLen[d] = strLen
    BY <1>1, <2>1 DEF Transferred, ServerTypes
  <2> QED
    BY <1>1, <1>3, <2>1 DEF Transferred
<1> QED
  BY <1>1, <1>4, <1>6, <1>7, <1>8, <1>9, <1>10, <1>11, TypesNext DEF IInv

\* What is common to the steps of the echo servers on a connection.
LEMMA EchoStep ==
  ASSUME IInv, NEW c \in Conns, Called(c), clientSocket = c, clientSocket' = c,
         program \in Echoes, UNCHANGED <<optCount, revLen, heard>>,
         strLen' \in 0 .. StrBound,
         server' \in {"read", "write", "again", "close"},
         server' = "again" => program = "echo_std_server",
         Ends', Echoed'
  PROVE  IInv'
<1> USE Facts
<1>1. UNCHANGED <<program, accepted>>
  BY DEF Called
<1>2. ConnTypes'
  BY CalledTypes
<1>3. ServerTypes'
  <2>1. StrBound' = StrBound /\ Limit' = Limit
    BY <1>1 DEF StrBound, Limit
  <2> QED
    BY <1>1, <2>1 DEF ServerTypes
<1>4. clientSocket \in accepted /\ program # "sep_server"
  <2>1. program # "sep_server"
    BY DEF Echoes
  <2> QED
    BY <2>1, Constants DEF Stands
<1>5. Stands'
  BY <1>1, <1>4 DEF Stands
<1>6. Computed' /\ Transferred'
  BY <1>1, OtherPrograms, ProgramOne DEF Senders
<1> QED
  BY <1>1, <1>2, <1>3, <1>5, <1>6, TypesNext DEF IInv

\* The echo servers close a connection only at its end.
LEMMA EchoOpen ==
  ASSUME IInv, program \in Echoes, NEW c \in Conns, clientSocket = c
  PROVE  serverEnd[c] = "open" /\ ~HalfCloses
<1>1. ~HalfCloses
  BY DEF HalfCloses, Echoes
<1> QED
  BY <1>1, Facts, Constants DEF Ends

LEMMA EchoReadIInv ==
  ASSUME IInv, NEW c \in Conns, clientSocket = c, EchoRead(c)
  PROVE  IInv'
<1> USE Facts
<1>1. /\ server = "read" /\ server' = "write"
      /\ UNCHANGED <<program, clientSocket, accepted, optCount, revLen, heard, clients, serverEnd>>
  BY DEF EchoRead
<1>2. program \in Echoes /\ serverEnd[c] = "open" /\ ~HalfCloses
  BY <1>1, EchoOpen DEF Stands
<1>3. PICK n \in Lengths(c) : ReadUnits(c, n) /\ strLen' = n
  BY DEF EchoRead
<1>4. n \in Nat /\ n \in 0 .. StrBound
  <2>1. CASE program = "echo_std_server"
    <3>1. n = inbox[c] /\ inbox[c] \in Nat /\ sent[c] \in Nat
      BY <2>1, <1>3 DEF Lengths, ConnTypes
    <3>2. inbox[c] <= sent[c] /\ sent[c] <= MaxSent
      BY <2>1 DEF Ends
    <3> QED
      BY <2>1, <3>1, <3>2, Bounded, Constants
  <2>2. CASE program # "echo_std_server"
    <3>1. n \in 1 .. BUF_SIZE /\ StrBound = BUF_SIZE
      BY <2>2, <1>2, <1>3, Bounded DEF Lengths, Echoes
    <3> QED
      BY <3>1, Constants
  <2> QED
    BY <2>1, <2>2
<1>5. /\ Called(c)
      /\ inbox'[c] + n = inbox[c] /\ UNCHANGED <<peer, outbox>>
  BY <1>1, <1>3, <1>4, ReadCall
<1>6. Ends'
  BY <1>1, <1>2, <1>5, CalledEnds
<1>7. Echoed'
  <2>1. InHand(c) = 0 /\ InHand(c)' = n
    BY <1>1, <1>3 DEF InHand
  <2>2. inbox[c] \in Nat /\ inbox'[c] \in Nat /\ outbox[c] \in Nat
    BY <1>5 DEF ConnTypes, Called
  <2>3. inbox'[c] + InHand(c)' + outbox'[c] = inbox[c] + InHand(c) + outbox[c]
    BY <1>4, <1>5, <2>1, <2>2
  <2> QED
    BY <1>1, <1>2, <1>4, <1>5, <2>1, <2>3, EchoServed
<1> QED
  BY <1>1, <1>2, <1>3, <1>4, <1>5, <1>6, <1>7, EchoStep

LEMMA EchoWriteIInv ==
  ASSUME IInv, NEW c \in Conns, clientSocket = c, EchoWrite(c)
  PROVE  IInv'
<1> USE Facts
<1>1. /\ server = "write" /\ server' = "read"
      /\ UNCHANGED <<program, clientSocket, accepted, optCount, revLen, heard, clients, serverEnd>>
      /\ strLen' \in {strLen, 0}
      /\ Reply(c, strLen)
  BY DEF EchoWrite, WriteBack
<1>2. program \in Echoes /\ serverEnd[c] = "open" /\ ~HalfCloses
  BY <1>1, EchoOpen DEF Stands
<1>3. strLen \in Nat /\ strLen' \in 0 .. StrBound
  BY <1>1, Bounded DEF ServerTypes
<1>4. /\ Called(c) /\ inbox' = inbox
      /\ HalfClosed(c) => peer'[c] = peer[c]
      /\ \/ outbox'[c] = outbox[c] + strLen
         \/ peer[c] \notin {"none", "up"} /\ ~HalfClosed(c)
  <2>1. CASE HalfClosed(c)
    <3>1. outbox' = [outbox EXCEPT ![c] = outbox[c] + strLen] /\ UNCHANGED <<peer, inbox, sent, waiting>>
      BY <1>1, <2>1 DEF Reply
    <3>2. outbox \in [Conns -> Nat]
      BY DEF ConnTypes
    <3>3. outbox' \in [Conns -> Nat] /\ outbox'[c] = outbox[c] + strLen
          /\ \A d \in Conns : d # c => outbox'[d] = outbox[d]
      BY <1>3, <3>1, <3>2
    <3> QED
      BY <1>1, <3>1, <3>3 DEF Called, ConnTypes
  <2>2. CASE ~HalfClosed(c)
    BY <1>1, <1>3, <2>2, WriteCall DEF Reply
  <2> QED
    BY <2>1, <2>2
<1>5. Ends'
  BY <1>1, <1>2, <1>4, CalledEnds
<1>6. Echoed'
  <2>1. InHand(c) = strLen /\ InHand(c)' = 0
    BY <1>1 DEF InHand
  <2>2. inbox[c] \in Nat /\ outbox[c] \in Nat
    BY DEF ConnTypes
  <2>3. \/ inbox'[c] + InHand(c)' + outbox'[c] = inbox[c] + InHand(c) + outbox[c]
        \/ peer[c] \notin {"none", "up"} /\ ~HalfClosed(c)
    BY <1>3, <1>4, <2>1, <2>2
  <2> QED
    BY <1>1, <1>2, <1>3, <1>4, <2>1, <2>3, EchoServed
<1> QED
  BY <1>1, <1>2, <1>3, <1>4, <1>5, <1>6, EchoStep

LEMMA EchoEndIInv ==
  ASSUME IInv, NEW c \in Conns, clientSocket = c, EchoEnd(c)
  PROVE  IInv'
<1> USE Facts
<1>1. /\ server = "read"
      /\ UNCHANGED <<program, clientSocket, accepted, strLen, optCount, revLen, heard, clients,
                     serverEnd>>
  BY DEF EchoEnd, data
<1>2. program \in Echoes /\ serverEnd[c] = "open" /\ ~HalfCloses
  BY <1>1, EchoOpen DEF Stands
<1>3. /\ Called(c) /\ UNCHANGED <<inbox, outbox>> /\ inbox[c] = 0
      /\ peer[c] \notin {"none", "up"} /\ peer'[c] \notin {"none", "up"}
      /\ HalfClosed(c) => peer'[c] = peer[c]
  <2>1. CASE AtEnd(c) /\ UNCHANGED net
    BY <1>1, <2>1, NoCall DEF AtEnd
  <2>2. CASE ReadReset(c)
    <3>1. ~HalfClosed(c)
      BY <1>2, <2>2 DEF Echoed, HalfClosed, ReadReset
    <3> QED
      BY <1>1, <2>2, <3>1, ResetCall
  <2> QED
    BY <2>1, <2>2 DEF EchoEnd
<1>4. /\ server' \in {"read", "again", "close"}
      /\ server' = "again" => program = "echo_std_server"
  BY DEF EchoEnd
<1>5. Ends'
  BY <1>1, <1>2, <1>3, <1>4, CalledEnds
<1>6. Echoed'
  <2>1. InHand(c) = 0 /\ InHand(c)' = 0
    BY <1>1, <1>4 DEF InHand
  <2>2. inbox'[c] + InHand(c)' + outbox'[c] = inbox[c] + InHand(c) + outbox[c]
    BY <1>3, <2>1
  <2> QED
    BY <1>1, <1>2, <1>3, <2>1, <2>2, EchoServed
<1>7. strLen' \in 0 .. StrBound
  BY <1>1 DEF ServerTypes
<1> QED
  BY <1>1, <1>2, <1>3, <1>4, <1>5, <1>6, <1>7, EchoStep

LEMMA EchoAgainIInv ==
  ASSUME IInv, NEW c \in Conns, clientSocket = c, EchoAgain(c)
  PROVE  IInv'
<1> USE Facts
<1>1. /\ server = "again" /\ server' = "close"
      /\ UNCHANGED <<program, clientSocket, accepted, strLen, optCount, revLen, heard, clients,
                     serverEnd>>
  BY DEF EchoAgain, data
<1>2. /\ program = "echo_std_server" /\ program \in Echoes /\ ~HalfClosed(c)
      /\ peer[c] \notin {"none", "up"}
  BY <1>1 DEF Stands, Ends, HalfClosed, Echoes
<1>3. serverEnd[c] = "open" /\ ~HalfCloses
  BY <1>2, EchoOpen
<1>4. PICK n \in IF strLen = 0 THEN 0 .. BUF_SIZE ELSE {strLen} :
        IF n = 0 THEN UNCHANGED net ELSE Write(c, n)
  BY DEF EchoAgain
<1>5. n \in Nat
  BY <1>4, Bounded, Constants DEF ServerTypes
<1>6. Called(c)
  BY <1>1, <1>4, <1>5, NoCall, WriteCall
<1>7. Ends'
  BY <1>1, <1>3, <1>6, CalledEnds
<1>8. Echoed'
  <2>1. InHand(c) = 0 /\ InHand(c)' = 0
    BY <1>1 DEF InHand
  <2> QED
    BY <1>1, <1>2, <1>3, <1>6, <2>1, EchoServed
<1>9. strLen' \in 0 .. StrBound
  BY <1>1 DEF ServerTypes
<1> QED
  BY <1>1, <1>2, <1>6, <1>7, <1>8, <1>9, EchoStep

----------------------------------------------------------------------------
(***************************************************************************)
(* The calculator.                                                         *)
(***************************************************************************)

\* The units of the operands.
Operands(k) == OPSZ * k

LEMMA OperandsBounded ==
  ASSUME NEW k \in 0 .. MaxCount
  PROVE  Operands(k) \in Nat /\ Operands(k) + 1 \in 0 .. MaxRequest
<1>1. OPSZ \in Nat /\ MaxCount \in Nat /\ k \in Nat /\ k <= MaxCount
  BY Constants
<1>2. OPSZ * k \in Nat /\ OPSZ * k <= OPSZ * MaxCount
  BY <1>1, Z3
<1> QED
  BY <1>1, <1>2, Constants DEF Operands, MaxRequest

LEMMA RequestCount ==
  ASSUME ConnTypes, NEW c \in Conns
  PROVE  request[c].count \in 0 .. MaxCount
BY DEF ConnTypes, Requests

\* What is common to the steps of the calculator on a connection.
LEMMA CalcStep ==
  ASSUME IInv, NEW c \in Conns, Called(c), clientSocket = c, clientSocket' = c,
         program = "calc_server", UNCHANGED <<strLen, heard>>,
         optCount' \in 0 .. MaxCount, revLen' \in 0 .. MaxRequest,
         server \in {"count", "rest", "answer"},
         server' \in {"rest", "answer", "close"},
         server' = "rest" =>
           \/ /\ writeLen[c] # 0
              /\ optCount' = request[c].count
              /\ inbox'[c] + revLen' = Operands(optCount') + 1
           \/ /\ inbox'[c] = 0 /\ revLen' = 0
              /\ peer'[c] \in {"fin", "broken"},
         server' = "answer" =>
           /\ writeLen[c] # 0
           /\ request[c].outcome = "value"
           /\ optCount' = request[c].count
           /\ revLen' = Operands(optCount') + 1
  PROVE  IInv'
<1> USE Facts
<1>1. UNCHANGED <<program, accepted, client, readLen, writeLen, request, serverEnd>>
  BY DEF Called, clients
<1>2. ConnTypes'
  BY CalledTypes
<1>3. ServerTypes'
  <2>1. StrBound' = StrBound /\ Limit' = Limit
    BY <1>1 DEF StrBound, Limit
  <2> QED
    BY <1>1, <2>1 DEF ServerTypes
<1>4. c \in accepted
  BY DEF Stands
<1>5. Stands'
  BY <1>1, <1>4 DEF Stands
<1>6. Ends'
  BY CalledEnds DEF HalfCloses
<1>7. Echoed' /\ Transferred'
  BY <1>1, OtherPrograms, ProgramOne DEF Senders
<1>8. Computed'
  <2>1. \A d \in Conns : d \notin accepted => inbox'[d] = writeLen[d] /\ Whole(d)'
    BY <1>1, <1>4 DEF Computed, Called, Whole
  <2> QED
    BY <1>1, <2>1 DEF Computed, RightAnswer, Operands
<1> QED
  BY <1>1, <1>2, <1>3, <1>5, <1>6, <1>7, <1>8, TypesNext DEF IInv

LEMMA CalcCountIInv ==
  ASSUME IInv, NEW c \in Conns, clientSocket = c, CalcCount(c)
  PROVE  IInv'
<1> USE Facts
<1>1. /\ server = "count" /\ server' = "rest"
      /\ UNCHANGED <<program, clientSocket, accepted, strLen, revLen, heard, clients, serverEnd>>
  BY DEF CalcCount
<1>2. program = "calc_server"
  BY <1>1 DEF Stands
<1>3. inbox[c] = writeLen[c] /\ Whole(c) /\ revLen = 0
  BY <1>1, <1>2 DEF Computed
<1>4. CASE ReadUnits(c, 1) /\ optCount' = request[c].count
  <2>1. Called(c) /\ inbox'[c] + 1 = inbox[c]
    BY <1>1, <1>4, ReadCall
  <2>2. inbox[c] \in Nat /\ inbox'[c] \in Nat
    BY <2>1 DEF ConnTypes, Called
  <2>3. writeLen[c] # 0 /\ writeLen[c] = Operands(request[c].count) + 2
    BY <1>3, <2>1, <2>2 DEF Whole, Operands
  <2>4. optCount' \in 0 .. MaxCount /\ Operands(optCount') \in Nat
    BY <1>4, RequestCount, OperandsBounded
  <2>5. inbox'[c] + revLen' = Operands(optCount') + 1
    BY <1>1, <1>3, <1>4, <2>1, <2>2, <2>3, <2>4
  <2>6. revLen' \in 0 .. MaxRequest
    BY <1>1 DEF ServerTypes
  <2> QED
    BY <1>1, <1>2, <1>4, <2>1, <2>3, <2>4, <2>5, <2>6, CalcStep
<1>5. CASE AtEnd(c) /\ UNCHANGED <<optCount, net>>
  <2>1. Called(c) /\ UNCHANGED <<peer, inbox>>
    BY <1>1, <1>5, NoCall
  <2>2. optCount' \in 0 .. MaxCount /\ revLen' \in 0 .. MaxRequest
    BY <1>1, <1>5 DEF ServerTypes
  <2>3. inbox'[c] = 0 /\ revLen' = 0 /\ peer'[c] \in {"fin", "broken"}
    BY <1>1, <1>3, <1>5, <2>1 DEF AtEnd
  <2> QED
    BY <1>1, <1>2, <2>1, <2>2, <2>3, CalcStep
<1> QED
  BY <1>4, <1>5 DEF CalcCount

LEMMA CalcRestIInv ==
  ASSUME IInv, NEW c \in Conns, clientSocket = c, CalcRest(c)
  PROVE  IInv'
<1> USE Facts
<1>1. /\ server = "rest" /\ server' = "rest"
      /\ UNCHANGED <<program, clientSocket, accepted, strLen, optCount, heard, clients, serverEnd>>
  BY DEF CalcRest, served
<1>2. program = "calc_server"
  BY <1>1 DEF Stands
<1>3. PICK n \in 1 .. BUF_SIZE - 1 : ReadUnits(c, n) /\ revLen' = revLen + n
  BY DEF CalcRest
<1>4. n \in Nat /\ n >= 1
  BY <1>3, Constants
<1>5. Called(c) /\ inbox'[c] + n = inbox[c]
  BY <1>1, <1>3, <1>4, ReadCall
<1>6. inbox[c] \in Nat /\ inbox'[c] \in Nat /\ revLen \in Nat
  BY <1>5, Constants DEF ConnTypes, Called, ServerTypes
<1>7. /\ writeLen[c] # 0 /\ optCount = request[c].count
      /\ inbox[c] + revLen = Operands(optCount) + 1
  BY <1>1, <1>2, <1>4, <1>5, <1>6 DEF Computed, Operands
<1>8. optCount' \in 0 .. MaxCount /\ Operands(optCount) + 1 \in 0 .. MaxRequest
  BY <1>1, OperandsBounded DEF ServerTypes
<1>9. inbox'[c] + revLen' = Operands(optCount') + 1 /\ revLen' \in 0 .. MaxRequest
  BY <1>1, <1>3, <1>4, <1>5, <1>6, <1>7, <1>8, Constants DEF Operands
<1> QED
  BY <1>1, <1>2, <1>5, <1>7, <1>8, <1>9, CalcStep

\* It computes with the request of the client it serves.
LEMMA CalcValue ==
  ASSUME IInv, NEW c \in Conns, clientSocket = c, server = "rest", ~UnitsMissing
  PROVE  /\ writeLen[c] # 0 /\ optCount = request[c].count
         /\ revLen = Operands(optCount) + 1
         /\ Outcome(c) = {request[c].outcome}
<1> USE Facts
<1>1. program = "calc_server"
  BY DEF Stands
<1>2. optCount \in 0 .. MaxCount /\ Operands(optCount) \in Nat /\ revLen \in Nat /\ inbox[c] \in Nat
  BY OperandsBounded, Constants DEF ServerTypes, ConnTypes
<1>3. revLen >= Operands(optCount) + 1
  BY <1>2 DEF UnitsMissing, Operands
<1>4. /\ writeLen[c] # 0 /\ optCount = request[c].count
      /\ inbox[c] + revLen = Operands(optCount) + 1
  BY <1>1, <1>2, <1>3 DEF Computed, Operands
<1>5. revLen = Operands(optCount) + 1
  BY <1>2, <1>3, <1>4
<1> QED
  BY <1>4, <1>5 DEF Outcome, Operands

LEMMA CalcIInv ==
  ASSUME IInv, NEW c \in Conns, clientSocket = c, Calc(c), server' = "answer"
  PROVE  IInv'
<1> USE Facts
<1>1. /\ server = "rest" /\ ~UnitsMissing
      /\ UNCHANGED <<program, clientSocket, accepted, data, clients, serverEnd, net>>
      /\ "value" \in Outcome(c)
  BY DEF Calc, Exit
<1>2. program = "calc_server"
  BY <1>1 DEF Stands
<1>3. Called(c)
  BY <1>1, NoCall
<1>4. /\ writeLen[c] # 0 /\ optCount = request[c].count
      /\ revLen = Operands(optCount) + 1
      /\ request[c].outcome = "value"
  BY <1>1, CalcValue
<1>5. UNCHANGED <<strLen, heard, optCount, revLen>>
  BY <1>1 DEF data
<1>6. optCount' \in 0 .. MaxCount /\ revLen' \in 0 .. MaxRequest
  BY <1>5 DEF ServerTypes
<1>7. revLen' = Operands(optCount') + 1 /\ optCount' = request[c].count
  BY <1>4, <1>5 DEF Operands
<1> QED
  BY <1>1, <1>2, <1>3, <1>4, <1>5, <1>6, <1>7, CalcStep

LEMMA CalcAnswerIInv ==
  ASSUME IInv, NEW c \in Conns, clientSocket = c, CalcAnswer(c)
  PROVE  IInv'
<1> USE Facts
<1>1. /\ server = "answer" /\ server' = "close"
      /\ UNCHANGED <<program, clientSocket, accepted, strLen, optCount, revLen, heard, clients,
                     serverEnd>>
      /\ Write(c, 1)
  BY DEF CalcAnswer, data
<1>2. program = "calc_server"
  BY <1>1 DEF Stands
<1>3. Called(c)
  BY <1>1, WriteCall
<1>4. optCount' \in 0 .. MaxCount /\ revLen' \in 0 .. MaxRequest
  BY <1>1 DEF ServerTypes
<1> QED
  BY <1>1, <1>2, <1>3, <1>4, CalcStep

----------------------------------------------------------------------------
(***************************************************************************)
(* The servers that send a file, or a text.                                *)
(***************************************************************************)

\* They serve one client.
LEMMA OneServed ==
  ASSUME IInv, program \in Senders, NEW c \in accepted, NEW d \in accepted
  PROVE  c = d
BY Facts, AcceptedOne DEF ServerTypes, Limit

\* The pieces stay within the file, and the last one completes it.
LEMMA PieceFits ==
  ASSUME IInv, program \in Senders
  PROVE  /\ Piece \in Nat /\ strLen \in Nat /\ strLen + Piece \in 0 .. FileSize
         /\ LastPiece => strLen + Piece = FileSize
<1>1. strLen \in 0 .. FileSize /\ FileSize \in Nat /\ BUF_SIZE \in Nat
  BY Facts, Bounded, Constants DEF ServerTypes
<1>2. CASE program = "file_server" /\ FileSize - strLen >= BUF_SIZE
  BY <1>1, <1>2 DEF Piece, LastPiece
<1>3. CASE ~(program = "file_server" /\ FileSize - strLen >= BUF_SIZE)
  BY <1>1, <1>3 DEF Piece
<1> QED
  BY <1>2, <1>3

LEMMA SendPieceIInv ==
  ASSUME IInv, NEW c \in Conns, clientSocket = c, SendPiece(c)
  PROVE  IInv'
<1> USE Facts
<1>1. /\ server = "send"
      /\ UNCHANGED <<program, clientSocket, accepted, optCount, revLen, heard, client, readLen,
                     writeLen, request, serverEnd>>
      /\ strLen' = strLen + Piece
      /\ server' = IF ~LastPiece THEN "send"
                   ELSE IF program = "hello_server" THEN "close" ELSE "end"
  BY DEF SendPiece, clients
<1>2. program \in Senders /\ c \in accepted
  BY <1>1 DEF Stands
<1>3. /\ Piece \in Nat /\ strLen \in Nat /\ strLen' \in 0 .. FileSize
      /\ LastPiece => strLen' = FileSize
  BY <1>1, <1>2, PieceFits
<1>4. /\ Called(c) /\ inbox' = inbox
      /\ peer[c] = "up" => outbox'[c] = outbox[c] + Piece
  <2>1. outbox[c] \in Nat
    BY DEF ConnTypes
  <2>2. CASE Piece = 0
    BY <1>1, <2>1, <2>2, NoCall DEF SendPiece, clients
  <2>3. CASE Piece # 0
    BY <1>1, <1>3, <2>3, WriteCall DEF SendPiece, clients
  <2> QED
    BY <2>2, <2>3
<1>5. /\ program = "hello_server" \/ program \in Transfers
      /\ HalfCloses => program \in Transfers
      /\ "hello_server" \notin Transfers
  BY <1>2 DEF Senders, Transfers, HalfCloses
<1>6. /\ program = "hello_server" => server' \in {"send", "close"}
      /\ program \in Transfers => server' \in {"send", "end"}
  BY <1>1, <1>5
<1>7. ConnTypes'
  BY <1>4, CalledTypes
<1>8. ServerTypes'
  <2>1. StrBound' = StrBound /\ Limit' = Limit /\ StrBound = FileSize
    BY <1>1, <1>2, Bounded DEF StrBound, Limit
  <2> QED
    BY <1>1, <1>3, <1>5, <1>6, <2>1 DEF ServerTypes
<1>9. Stands'
  BY <1>1, <1>2, <1>5, <1>6 DEF Stands
<1>10. Ends'
  BY <1>1, <1>4, <1>5, <1>6, CalledEnds
<1>11. Echoed' /\ Computed'
  BY <1>1, <1>2, <1>5, <1>6, OtherPrograms, ProgramOne
<1>12. Transferred'
  <2> SUFFICES ASSUME program \in Transfers PROVE Transferred'
    BY <1>1 DEF Transferred
  <2>1. server' \in {"send", "end"} /\ (server' = "end" => strLen' = FileSize)
    BY <1>1, <1>3, <1>6
  <2>2. \A d \in Conns : d \notin accepted => outbox'[d] = 0 /\ readLen[d] = 0
    BY <1>2, <1>4 DEF Transferred, Called
  <2>3. ASSUME NEW d \in accepted, client[d] = "on"
        PROVE  outbox'[d] + readLen[d] = strLen'
    <3>1. d = c /\ peer[c] = "up" /\ outbox[c] + readLen[c] = strLen
      BY <1>2, <2>3, OneServed DEF Ends, Transferred
    <3>2. outbox[c] \in Nat /\ readLen[c] \in Nat
      BY DEF ConnTypes
    <3>3. outbox'[c] = outbox[c] + Piece /\ strLen' = strLen + Piece
      BY <1>1, <1>4, <3>1
    <3> HIDE Facts
    <3> QED
      BY <1>3, <3>1, <3>2, <3>3
  <2> QED
    BY <1>1, <1>4, <2>1, <2>2, <2>3 DEF Transferred
<1> QED
  BY <1>1, <1>7, <1>8, <1>9, <1>10, <1>11, <1>12, TypesNext DEF IInv

LEMMA EndStreamIInv ==
  ASSUME IInv, NEW c \in Conns, clientSocket = c, EndStream(c)
  PROVE  IInv'
<1> USE Facts
<1>1. /\ server = "end"
      /\ UNCHANGED <<program, accepted, strLen, optCount, revLen, heard, client, readLen,
                     writeLen, request, peer, inbox, outbox, sent, waiting>>
      /\ clientSocket' = IF HalfCloses THEN c ELSE NoConn
      /\ server' = IF HalfCloses THEN "answered" ELSE "close"
      /\ serverEnd' = [serverEnd EXCEPT ![c] = IF HalfCloses \/ inbox[c] = 0 THEN "fin" ELSE "reset"]
  BY DEF EndStream, clients, data, net
<1>2. program \in Transfers /\ c \in accepted /\ (HalfCloses' <=> HalfCloses)
  BY <1>1 DEF Stands, HalfCloses
<1>3. /\ ~HalfCloses => program = "sep_server"
      /\ HalfCloses => program # "sep_server"
  BY <1>2 DEF HalfCloses, Transfers
<1>4. /\ serverEnd' \in [Conns -> {"open", "fin", "reset"}]
      /\ serverEnd'[c] \in {"fin", "reset"} /\ (HalfCloses => serverEnd'[c] = "fin")
      /\ \A d \in Conns : d # c => serverEnd'[d] = serverEnd[d]
  BY <1>1 DEF ConnTypes
<1>5. ConnTypes'
  BY <1>1, <1>4 DEF ConnTypes
<1>6. ServerTypes'
  <2>1. StrBound' = StrBound /\ Limit' = Limit
    BY <1>1 DEF StrBound, Limit
  <2> QED
    BY <1>1, <2>1 DEF ServerTypes
<1>7. Stands'
  BY <1>1, <1>2, <1>3 DEF Stands
<1>8. Ends'
  <2>1. server' \in {"answered", "close"}
    BY <1>1
  <2>2. \A d \in Conns : serverEnd'[d] \in {"fin", "reset"} => d \in accepted
    BY <1>1, <1>2, <1>4 DEF Ends
  <2>3. clientSocket' # NoConn => serverEnd'[clientSocket'] = "fin" /\ HalfCloses
    BY <1>1, <1>4
  <2> QED
    BY <1>1, <1>2, <2>1, <2>2, <2>3 DEF Ends
<1>9. Echoed' /\ Computed'
  BY <1>1, <1>2, OtherPrograms, ProgramOne DEF Senders
<1>10. Transferred'
  <2>1. \A d \in accepted : clientSocket' = d => HalfCloses /\ clientSocket = d
    BY <1>1, Constants DEF ServerTypes
  <2>2. strLen = FileSize /\ server' \in {"answered", "close"}
    BY <1>1, <1>2 DEF Transferred
  <2>3. server' = "close" => program = "sep_server"
    BY <1>1, <1>3
  <2> QED
    BY <1>1, <1>2, <2>1, <2>2, <2>3 DEF Transferred
<1> QED
  BY <1>1, <1>5, <1>6, <1>7, <1>8, <1>9, <1>10, TypesNext DEF IInv

LEMMA ReadAnswerIInv ==
  ASSUME IInv, NEW c \in Conns, clientSocket = c, ReadAnswer(c)
  PROVE  IInv'
<1> USE Facts
<1>1. /\ server = "answered" /\ server' \in {"answered", "close"}
      /\ UNCHANGED <<program, clientSocket, accepted, strLen, optCount, revLen, clients, serverEnd>>
  BY DEF ReadAnswer
<1>2. /\ HalfCloses /\ program \in Transfers /\ program # "echo_mpclient" /\ c \in accepted
  BY <1>1 DEF Stands, HalfCloses, Transfers
<1>3. /\ Called(c) /\ outbox' = outbox /\ heard' \in BOOLEAN
      /\ \/ heard' = TRUE
         \/ /\ server' = "close" /\ heard' = heard
            /\ inbox' = inbox /\ inbox[c] = 0 /\ peer[c] \in {"fin", "reset", "broken"}
  <2>1. CASE ReadUnits(c, 1) /\ heard' = TRUE
    BY <1>1, <2>1, ReadCall
  <2>2. CASE server' = "close" /\ heard' = heard /\ AtEnd(c) /\ UNCHANGED net
    BY <1>1, <2>2, NoCall DEF AtEnd, ServerTypes
  <2>3. CASE server' = "close" /\ heard' = heard /\ ReadReset(c)
    BY <1>1, <2>3, ResetCall DEF ServerTypes
  <2> QED
    BY <2>1, <2>2, <2>3 DEF ReadAnswer
<1>4. ConnTypes'
  BY <1>3, CalledTypes
<1>5. ServerTypes'
  <2>1. StrBound' = StrBound /\ Limit' = Limit
    BY <1>1 DEF StrBound, Limit
  <2> QED
    BY <1>1, <1>3, <2>1 DEF ServerTypes
<1>6. Stands'
  BY <1>1, <1>2 DEF Stands, HalfCloses
<1>7. Ends'
  BY <1>1, <1>3, CalledEnds
<1>8. Echoed' /\ Computed'
  BY <1>1, <1>2, OtherPrograms, ProgramOne DEF Senders
<1>9. Transferred'
  <2>1. UNCHANGED <<client, readLen>>
    BY <1>1 DEF clients
  <2>2. strLen = FileSize
    BY <1>1, <1>2 DEF Transferred
  <2>3. ASSUME NEW d \in accepted
        PROVE  /\ client[d] \in {"replied", "done"} => heard' \/ inbox'[d] > 0
               /\ server' = "close" => heard' \/ client[d] = "killed"
    <3>1. d = c
      BY <1>2, OneServed DEF Senders
    <3>2. CASE heard' = TRUE
      BY <3>2
    <3>3. CASE /\ heard' = heard
               /\ inbox' = inbox /\ inbox[c] = 0 /\ peer[c] \in {"fin", "reset", "broken"}
      <4>1. client[c] \in {"done", "killed"}
        BY <1>2, <3>3 DEF Ends
      <4>2. client[c] \in {"replied", "done"} => heard
        BY <1>2, <3>3 DEF Transferred
      <4> QED
        BY <3>1, <3>3, <4>1, <4>2
    <3> QED
      BY <1>3, <3>2, <3>3
  <2> QED
    BY <1>1, <1>2, <1>3, <2>1, <2>2, <2>3 DEF Transferred
<1> QED
  BY <1>1, <1>4, <1>5, <1>6, <1>7, <1>8, <1>9, TypesNext DEF IInv

----------------------------------------------------------------------------
(***************************************************************************)
(* The server closes a connection, or ends.                                *)
(***************************************************************************)

\* The server ends after its last round, by a request of the calculator, or by SIGPIPE.
LEMMA ExitIInv ==
  ASSUME IInv, NEW how \in {"done", "dead"}, Exit(how),
         UNCHANGED <<program, accepted, data, clients, net>>,
         server \notin {"accept", "done", "dead"},
         \/ server = "close" /\ how = "done"
         \/ program = "calc_server" /\ how = "dead"
         \/ clientSocket \in accepted /\ BrokenPipe(clientSocket) /\ how = "dead"
  PROVE  IInv'
<1> USE Facts
<1>1. /\ server' \in {"done", "dead"} /\ server' = how /\ clientSocket' = NoConn
      /\ UNCHANGED <<program, accepted, strLen, optCount, revLen, heard, client, readLen, writeLen,
                     request, peer, inbox, outbox, sent, waiting>>
  BY DEF Exit, data, clients, net
<1>2. clientSocket \in Conns => clientSocket \in accepted
  BY Constants DEF Stands
<1>3. /\ serverEnd' \in [Conns -> {"open", "fin", "reset"}]
      /\ \A c \in Conns :
           /\ serverEnd'[c] = "open" => serverEnd[c] = "open" /\ c # clientSocket
           /\ serverEnd'[c] = "fin" => \/ serverEnd[c] = "fin"
                                       \/ c = clientSocket /\ ~(inbox[c] > 0)
  BY DEF Exit, ConnTypes
<1>4. ConnTypes'
  BY <1>1, <1>3 DEF ConnTypes
<1>5. ServerTypes'
  <2>1. StrBound' = StrBound /\ Limit' = Limit
    BY <1>1 DEF StrBound, Limit
  <2> QED
    BY <1>1, <2>1 DEF ServerTypes
<1>6. Stands'
  BY <1>1 DEF Stands
<1>7. Ends'
  <2>1. \A c \in Conns : serverEnd'[c] = "fin" => c \in accepted
    BY <1>2, <1>3 DEF Ends
  <2> QED
    BY <1>1, <2>1 DEF Ends
<1>8. Echoed'
  <2> SUFFICES ASSUME program \in Echoes PROVE Echoed'
    BY <1>1 DEF Echoed
  <2>1. \A c \in Conns : HalfClosed(c)' <=> HalfClosed(c)
    BY <1>1 DEF HalfClosed
  <2>2. \A c \in Conns : serverEnd'[c] = "open" /\ Carried(c) => Carried(c)'
    BY <1>1, <1>3 DEF Carried, InHand
  <2>3. ASSUME NEW c \in Conns, HalfClosed(c), program = "echo_mpclient", serverEnd'[c] = "fin"
        PROVE  outbox[c] + readLen[c] = writeLen[c]
    <3>1. CASE serverEnd[c] = "fin"
      BY <2>3, <3>1 DEF Echoed
    <3>2. CASE c = clientSocket /\ ~(inbox[c] > 0)
      <4>1. serverEnd[c] = "open" /\ peer[c] = "fin" /\ Carried(c)
        BY <2>3, <3>2, EchoOpen DEF Echoed
      <4>2. server = "close"
        BY <2>3, <3>2, <4>1, ProgramOne DEF BrokenPipe
      <4>3. inbox[c] = 0 /\ InHand(c) = 0
        BY <3>2, <4>2 DEF InHand, ConnTypes
      <4>4. outbox[c] \in Nat /\ readLen[c] \in Nat
        BY DEF ConnTypes
      <4> QED
        BY <4>1, <4>3, <4>4 DEF Carried
    <3> QED
      BY <1>3, <2>3, <3>1, <3>2
  <2> QED
    BY <1>1, <1>3, <2>1, <2>2, <2>3 DEF Echoed
<1>9. Computed'
  BY <1>1 DEF Computed, Whole, RightAnswer
<1>10. Transferred'
  <2> SUFFICES ASSUME program \in Transfers PROVE Transferred'
    BY <1>1 DEF Transferred
  <2>1. server' = "done" => server = "close"
    BY <1>1
  <2>2. ASSUME NEW d \in accepted, client[d] = "on", server' = "dead"
        PROVE  FALSE
    <3>1. clientSocket \in accepted /\ BrokenPipe(clientSocket)
      BY <1>1, <2>2, ProgramOne DEF Senders
    <3>2. d = clientSocket
      BY <3>1, OneServed DEF Senders
    <3> QED
      BY <2>2, <3>1, <3>2 DEF BrokenPipe, Ends, ServerTypes
  <2>3. \A d \in accepted : clientSocket' # d
    BY <1>1, Constants DEF ServerTypes
  <2> QED
    BY <1>1, <2>1, <2>2, <2>3 DEF Transferred
<1> QED
  BY <1>1, <1>4, <1>5, <1>6, <1>7, <1>8, <1>9, <1>10, TypesNext DEF IInv

\* Go round the loop: only the programs with several rounds do.
LEMMA AgainIInv ==
  ASSUME IInv, Close, ~LastRound
  PROVE  IInv'
<1> USE Facts
<1>1. /\ server = "close" /\ server' = "accept" /\ clientSocket' = NoConn
      /\ UNCHANGED <<program, accepted, strLen, optCount, revLen, heard, client, readLen, writeLen,
                     request, peer, inbox, outbox, sent, waiting>>
      /\ serverEnd' = [serverEnd EXCEPT ![clientSocket] =
           IF inbox[clientSocket] > 0 THEN "reset" ELSE "fin"]
  BY DEF Close, data, clients, net
<1>2. Cardinality(accepted) < Limit
  BY AcceptedFinite, Constants DEF LastRound, ServerTypes
<1>3. program \notin Senders
  <2>1. accepted # {}
    BY <1>1 DEF Stands
  <2>2. Cardinality(accepted) # 0
    BY <2>1, AcceptedFinite, FS_EmptySet DEF ServerTypes
  <2> QED
    BY <1>2, <2>2, AcceptedFinite DEF Limit, ServerTypes
<1>4. program \notin Transfers /\ clientSocket \in accepted /\ clientSocket \in Conns
  BY <1>1, <1>3 DEF Stands, Senders, Transfers, ServerTypes
<1>5. /\ serverEnd' \in [Conns -> {"open", "fin", "reset"}]
      /\ \A c \in Conns : c # clientSocket => serverEnd'[c] = serverEnd[c]
      /\ serverEnd'[clientSocket] \in {"fin", "reset"}
  BY <1>1, <1>4 DEF ConnTypes
<1>6. ConnTypes'
  BY <1>1, <1>5 DEF ConnTypes
<1>7. Limit' = Limit
  BY <1>1 DEF Limit
<1>8. ServerTypes'
  <2>1. StrBound' = StrBound
    BY <1>1 DEF StrBound
  <2> QED
    BY <1>1, <1>7, <2>1 DEF ServerTypes
<1>9. Stands'
  BY <1>1, <1>2, <1>7 DEF Stands
<1>10. Ends'
  <2>1. \A c \in Conns : serverEnd'[c] \in {"fin", "reset"} => c \in accepted
    BY <1>1, <1>4, <1>5 DEF Ends
  <2> QED
    BY <1>1, <2>1 DEF Ends
<1>11. Echoed'
  <2> SUFFICES ASSUME program \in Echoes PROVE Echoed'
    BY <1>1 DEF Echoed
  <2>1. \A c \in Conns : HalfClosed(c)' <=> HalfClosed(c)
    BY <1>1 DEF HalfClosed
  <2>2. \A c \in Conns : Carried(c)' <=> Carried(c)
    BY <1>1 DEF Carried, InHand
  <2>3. ASSUME NEW c \in Conns, HalfClosed(c), program = "echo_mpclient", serverEnd'[c] = "fin"
        PROVE  outbox[c] + readLen[c] = writeLen[c]
    <3>1. CASE c # clientSocket
      BY <1>5, <2>3, <3>1 DEF Echoed
    <3>2. CASE c = clientSocket
      <4>1. serverEnd[c] = "open" /\ Carried(c)
        BY <2>3, <3>2, EchoOpen DEF Echoed
      <4>2. inbox[c] = 0 /\ InHand(c) = 0
        BY <1>1, <2>3, <3>2 DEF InHand, Echoed
      <4>3. outbox[c] \in Nat /\ readLen[c] \in Nat
        BY DEF ConnTypes
      <4> QED
        BY <4>1, <4>2, <4>3 DEF Carried
    <3> QED
      BY <3>1, <3>2
  <2>4. \A c \in Conns : serverEnd'[c] = "open" => serverEnd[c] = "open"
    BY <1>5
  <2> QED
    BY <1>1, <2>1, <2>2, <2>3, <2>4 DEF Echoed
<1>12. Computed' /\ Transferred'
  BY <1>1, <1>4 DEF Computed, Whole, RightAnswer, Transferred
<1> QED
  BY <1>1, <1>6, <1>8, <1>9, <1>10, <1>11, <1>12, TypesNext DEF IInv

LEMMA CloseIInv ==
  ASSUME IInv, Close
  PROVE  IInv'
<1>1. CASE LastRound
  <2>1. server = "close" /\ Exit("done") /\ UNCHANGED <<program, accepted, data, clients, net>>
    BY <1>1 DEF Close
  <2> QED
    BY <2>1, ExitIInv
<1>2. CASE ~LastRound
  BY <1>2, AgainIInv
<1> QED
  BY <1>1, <1>2

LEMMA KilledIInv ==
  ASSUME IInv, NEW c \in Conns, clientSocket = c, Killed(c)
  PROVE  IInv'
<1>1. /\ server \in {"write", "again", "answer", "send"} /\ BrokenPipe(c) /\ Exit("dead")
      /\ UNCHANGED <<program, accepted, data, clients, net>>
  BY DEF Killed
<1>2. clientSocket \in accepted
  BY <1>1, Facts DEF Stands
<1> QED
  BY <1>1, <1>2, ExitIInv

LEMMA CalcExitIInv ==
  ASSUME IInv, NEW c \in Conns, clientSocket = c, Calc(c), Exit("dead")
  PROVE  IInv'
<1>1. server = "rest" /\ UNCHANGED <<program, accepted, data, clients, net>>
  BY DEF Calc
<1>2. program = "calc_server"
  BY <1>1, Facts DEF Stands
<1> QED
  BY <1>1, <1>2, ExitIInv

\* A step of the server preserves the invariant.
LEMMA ServerIInv ==
  ASSUME IInv, Server
  PROVE  IInv'
<1>1. CASE Close
  BY <1>1, CloseIInv
<1>2. CASE \E c \in Conns : Accept(c)
  BY <1>2, AcceptIInv
<1>3. ASSUME NEW c \in Conns, Serve(c)
      PROVE  IInv'
  <2>1. clientSocket = c
    BY <1>3 DEF Serve
  <2>2. CASE EchoRead(c) \/ EchoWrite(c) \/ EchoEnd(c) \/ EchoAgain(c)
    BY <2>1, <2>2, EchoReadIInv, EchoWriteIInv, EchoEndIInv, EchoAgainIInv
  <2>3. CASE CalcCount(c) \/ CalcRest(c) \/ CalcAnswer(c)
    BY <2>1, <2>3, CalcCountIInv, CalcRestIInv, CalcAnswerIInv
  <2>4. CASE Calc(c)
    <3>1. server' = "answer" \/ Exit("dead")
      BY <2>4 DEF Calc
    <3> QED
      BY <2>1, <2>4, <3>1, CalcIInv, CalcExitIInv
  <2>5. CASE SendPiece(c) \/ EndStream(c) \/ ReadAnswer(c)
    BY <2>1, <2>5, SendPieceIInv, EndStreamIInv, ReadAnswerIInv
  <2>6. CASE Killed(c)
    BY <2>1, <2>6, KilledIInv
  <2> QED
    BY <1>3, <2>2, <2>3, <2>4, <2>5, <2>6 DEF Serve
<1> QED
  BY <1>1, <1>2, <1>3 DEF Server

----------------------------------------------------------------------------
(***************************************************************************)
(* The clients.                                                            *)
(***************************************************************************)

\* A step of the client of connection c.
Apart(c) ==
  /\ UNCHANGED <<program, server, clientSocket, accepted, strLen, optCount, revLen, heard, serverEnd>>
  /\ \A d \in Conns : d # c =>
       /\ peer'[d] = peer[d] /\ inbox'[d] = inbox[d] /\ outbox'[d] = outbox[d] /\ sent'[d] = sent[d]
       /\ client'[d] = client[d] /\ readLen'[d] = readLen[d] /\ writeLen'[d] = writeLen[d]
       /\ request'[d] = request[d] /\ (d \in waiting' <=> d \in waiting)

LEMMA ApartServer ==
  ASSUME IInv, NEW c \in Conns, Apart(c)
  PROVE  program' \in Programs /\ ServerTypes' /\ Stands' /\ (HalfCloses' <=> HalfCloses)
<1> USE Facts
<1>1. UNCHANGED <<program, server, clientSocket, accepted, strLen, optCount, revLen, heard>>
  BY DEF Apart
<1>2. StrBound' = StrBound /\ Limit' = Limit /\ (HalfCloses' <=> HalfCloses)
  BY <1>1 DEF StrBound, Limit, HalfCloses
<1> QED
  BY <1>1, <1>2 DEF ServerTypes, Stands

\* What the client may do to the ends of its connection.
LEMMA ApartEnds ==
  ASSUME IInv, NEW c \in Conns, Apart(c),
         peer[c] # "none" => peer'[c] # "none",
         peer[c] \notin {"none", "up"} => peer'[c] \notin {"none", "up"},
         client'[c] # "none",
         client'[c] = "on" => peer'[c] = "up",
         peer'[c] \in {"fin", "reset", "broken"} =>
           client'[c] \in {"done", "killed"} \/ program = "echo_mpclient",
         inbox'[c] <= sent'[c],
         program = "echo_std_server" => sent'[c] <= MaxSent
  PROVE  Ends'
<1> USE Facts, ApartServer DEF Apart
<1>1. \A d \in accepted : peer'[d] # "none"
  BY DEF Ends, ServerTypes
<1>2. server = "again" => peer'[clientSocket] \notin {"none", "up"} /\ clientSocket \in Conns
  BY DEF Ends, Stands, ServerTypes
<1>3. \A d \in Conns :
        /\ client'[d] = "none" => peer'[d] = "none"
        /\ client'[d] = "on" => peer'[d] = "up"
        /\ peer'[d] \in {"fin", "reset", "broken"} =>
             client'[d] \in {"done", "killed"} \/ program = "echo_mpclient"
        /\ inbox'[d] <= sent'[d]
        /\ program = "echo_std_server" => sent'[d] <= MaxSent
  BY DEF Ends
<1> QED
  BY <1>1, <1>2, <1>3 DEF Ends

\* What it may do to the messages of the echo programs.
LEMMA ApartEchoed ==
  ASSUME IInv, NEW c \in Conns, Apart(c), program \in Echoes,
         (client'[c] = "on" \/ HalfClosed(c)') /\ serverEnd[c] = "open" =>
           /\ Carried(c)'
           /\ program # "echo_mpclient" /\ c \notin waiting' => readLen'[c] = writeLen'[c],
         client'[c] # "none",
         program = "echo_mpclient" =>
           /\ HalfClosed(c)' => /\ peer'[c] = "fin"
                                /\ serverEnd[c] = "fin" => outbox'[c] + readLen'[c] = writeLen'[c]
           /\ client'[c] = "done" => readLen'[c] = writeLen'[c]
           /\ server = "close" /\ clientSocket = c =>
                inbox'[c] = 0 /\ peer'[c] \notin {"none", "up"}
  PROVE  Echoed'
<1> USE Facts
<1>1. UNCHANGED <<program, server, clientSocket, strLen, serverEnd>>
  BY DEF Apart
<1>2. \A d \in Conns : d # c =>
        /\ peer'[d] = peer[d] /\ inbox'[d] = inbox[d] /\ outbox'[d] = outbox[d]
        /\ client'[d] = client[d] /\ readLen'[d] = readLen[d] /\ writeLen'[d] = writeLen[d]
        /\ (d \in waiting' <=> d \in waiting)
  BY DEF Apart
<1>3. \A d \in Conns : d # c => (HalfClosed(d)' <=> HalfClosed(d)) /\ (Carried(d)' <=> Carried(d))
  BY <1>1, <1>2 DEF HalfClosed, Carried, InHand
<1>4. ASSUME NEW d \in Conns, client'[d] \in {"none", "on"} \/ HalfClosed(d)', serverEnd[d] = "open"
      PROVE  /\ Carried(d)'
             /\ program # "echo_mpclient" /\ d \notin waiting' => readLen'[d] = writeLen'[d]
  <2>1. CASE d = c
    BY <1>4, <2>1
  <2>2. CASE d # c
    BY <1>2, <1>3, <1>4, <2>2 DEF Echoed
  <2> QED
    BY <2>1, <2>2
<1>5. program = "echo_mpclient" =>
        /\ \A d \in Conns : HalfClosed(d)' =>
             /\ peer'[d] = "fin"
             /\ serverEnd[d] = "fin" => outbox'[d] + readLen'[d] = writeLen'[d]
        /\ \A d \in Conns : client'[d] = "done" => readLen'[d] = writeLen'[d]
  BY <1>2, <1>3 DEF Echoed
<1>6. program = "echo_mpclient" /\ server = "close" =>
        inbox'[clientSocket] = 0 /\ peer'[clientSocket] \notin {"none", "up"}
  <2>1. server = "close" /\ program = "echo_mpclient" => clientSocket \in Conns
    BY DEF Stands, ServerTypes
  <2> QED
    BY <1>2, <2>1 DEF Echoed
<1> QED
  BY <1>1, <1>4, <1>5, <1>6 DEF Echoed

\* What it may do while the calculator reads its request.
LEMMA ApartComputed ==
  ASSUME IInv, NEW c \in Conns, Apart(c), program = "calc_server",
         inbox'[c] = inbox[c], writeLen'[c] = writeLen[c], request'[c] = request[c],
         peer[c] \notin {"none", "up"} => peer'[c] = peer[c]
  PROVE  Computed'
<1> USE Facts
<1>1. UNCHANGED <<program, server, clientSocket, accepted, optCount, revLen>>
  BY DEF Apart
<1>2. \A d \in Conns : inbox'[d] = inbox[d] /\ writeLen'[d] = writeLen[d] /\ request'[d] = request[d]
  BY DEF Apart
<1>3. \A d \in Conns : peer[d] \in {"fin", "broken"} => peer'[d] = peer[d]
  BY DEF Apart
<1>4. \A d \in Conns : Whole(d)' <=> Whole(d)
  BY <1>2 DEF Whole
<1>5. server \in {"count", "rest", "answer"} => clientSocket \in Conns
  BY DEF Stands, ServerTypes
<1> QED
  BY <1>1, <1>2, <1>3, <1>4, <1>5 DEF Computed, RightAnswer

\* What it may do to a file.
LEMMA ApartTransferred ==
  ASSUME IInv, NEW c \in Conns, Apart(c), program \in Transfers,
         c \notin accepted => outbox'[c] = 0 /\ readLen'[c] = 0,
         c \in accepted /\ client'[c] = "on" => outbox'[c] + readLen'[c] = strLen /\ server # "dead",
         client'[c] \in {"replied", "done"} => c \in accepted /\ readLen'[c] = FileSize,
         clientSocket = c /\ client'[c] \in {"replied", "done"} => heard \/ inbox'[c] > 0,
         client[c] = "killed" => client'[c] = "killed"
  PROVE  Transferred'
<1> USE Facts
<1>1. UNCHANGED <<program, server, clientSocket, accepted, strLen, heard>>
  BY DEF Apart
<1>2. \A d \in Conns : d # c =>
        /\ inbox'[d] = inbox[d] /\ outbox'[d] = outbox[d]
        /\ client'[d] = client[d] /\ readLen'[d] = readLen[d]
  BY DEF Apart
<1>3. accepted \subseteq Conns
  BY DEF ServerTypes
<1>4. \A d \in Conns : d \notin accepted => outbox'[d] = 0 /\ readLen'[d] = 0
  BY <1>2 DEF Transferred
<1>5. \A d \in accepted : client'[d] = "on" => outbox'[d] + readLen'[d] = strLen /\ server # "dead"
  BY <1>2, <1>3 DEF Transferred
<1>6. \A d \in Conns : client'[d] \in {"replied", "done"} => d \in accepted /\ readLen'[d] = FileSize
  BY <1>2 DEF Transferred
<1>7. \A d \in accepted :
        /\ clientSocket = d /\ client'[d] \in {"replied", "done"} => heard \/ inbox'[d] > 0
        /\ program # "sep_server" /\ server \in {"close", "done"} => heard \/ client'[d] = "killed"
  BY <1>2, <1>3 DEF Transferred
<1> QED
  BY <1>1, <1>4, <1>5, <1>6, <1>7 DEF Transferred

\* The other programs' parts of the invariant do not matter.
LEMMA ApartOthers ==
  ASSUME IInv, NEW c \in Conns, Apart(c)
  PROVE  /\ program \notin Echoes => Echoed'
         /\ program # "calc_server" => Computed'
         /\ program \notin Transfers => Transferred'
BY Facts, OtherPrograms DEF Apart, Stands

\* The parts make the invariant.
LEMMA ApartIInv ==
  ASSUME IInv, NEW c \in Conns, Apart(c), ConnTypes', Ends',
         program \in Echoes => Echoed',
         program = "calc_server" => Computed',
         program \in Transfers => Transferred'
  PROVE  IInv'
BY ApartServer, ApartOthers, TypesNext DEF IInv

----------------------------------------------------------------------------
(***************************************************************************)
(* Clients that begin, leave, fail and are killed.                         *)
(***************************************************************************)

LEMMA BeginIInv ==
  ASSUME IInv, NEW c \in Conns, Begin(c)
  PROVE  IInv'
<1> USE Facts
<1>1. /\ client[c] = "none" /\ peer[c] = "none"
      /\ UNCHANGED <<program, server, clientSocket, accepted, strLen, optCount, revLen, heard,
                     serverEnd, readLen, writeLen, request, inbox, outbox, sent, waiting>>
  BY DEF Begin, served, data, net, Connect, Ends
<1>2. /\ client' \in [Conns -> {"none", "on", "replied", "done", "failed", "killed"}]
      /\ peer' \in [Conns -> {"none", "up", "fin", "reset", "broken"}]
      /\ \A d \in Conns : d # c => client'[d] = client[d] /\ peer'[d] = peer[d]
      /\ \/ client'[c] = "failed" /\ peer'[c] = "none"
         \/ client'[c] = "on" /\ peer'[c] = "up"
  <2>1. /\ client \in [Conns -> {"none", "on", "replied", "done", "failed", "killed"}]
        /\ peer \in [Conns -> {"none", "up", "fin", "reset", "broken"}]
    BY DEF ConnTypes
  <2>2. CASE client' = [client EXCEPT ![c] = "failed"] /\ UNCHANGED net
    BY <1>1, <2>1, <2>2 DEF net
  <2>3. CASE client' = [client EXCEPT ![c] = "on"] /\ Connect(c)
    BY <1>1, <2>1, <2>3 DEF Connect
  <2> QED
    BY <2>2, <2>3 DEF Begin
<1>3. Apart(c)
  BY <1>1, <1>2 DEF Apart
<1>4. ConnTypes'
  BY <1>1, <1>2 DEF ConnTypes
<1>5. c \notin accepted
  BY <1>1 DEF Ends
<1>6. Ends'
  <2>1. inbox'[c] <= sent'[c] /\ (program = "echo_std_server" => sent'[c] <= MaxSent)
    BY <1>1 DEF Ends
  <2> QED
    BY <1>1, <1>2, <1>3, <2>1, ApartEnds
<1>7. ASSUME program \in Echoes PROVE Echoed'
  <2>1. serverEnd[c] = "open" =>
          /\ Carried(c)'
          /\ program # "echo_mpclient" /\ c \notin waiting' => readLen'[c] = writeLen'[c]
    BY <1>1, <1>7 DEF Echoed, Carried, InHand
  <2>2. ~HalfClosed(c)' /\ client'[c] # "done"
    BY <1>2 DEF HalfClosed
  <2>3. server = "close" /\ program = "echo_mpclient" => clientSocket # c
    BY <1>5, <1>7 DEF Stands
  <2> QED
    BY <1>2, <1>3, <1>7, <2>1, <2>2, <2>3, ApartEchoed
<1>8. ASSUME program = "calc_server" PROVE Computed'
  BY <1>1, <1>3, <1>8, ApartComputed
<1>9. ASSUME program \in Transfers PROVE Transferred'
  <2>1. outbox'[c] = 0 /\ readLen'[c] = 0
    BY <1>1, <1>5, <1>9 DEF Transferred
  <2> QED
    BY <1>1, <1>2, <1>3, <1>5, <1>9, <2>1, ApartTransferred
<1> QED
  BY <1>3, <1>4, <1>6, <1>7, <1>8, <1>9, ApartIInv

LEMMA LeaveIInv ==
  ASSUME IInv, NEW c \in Conns, Leave(c)
  PROVE  IInv'
<1> USE Facts
<1>1. /\ client' = [client EXCEPT ![c] = "done"] /\ peer[c] = "up"
      /\ peer' = [peer EXCEPT ![c] = IF outbox[c] > 0 THEN "reset" ELSE "fin"]
      /\ outbox' = [outbox EXCEPT ![c] = 0]
      /\ UNCHANGED <<program, server, clientSocket, accepted, strLen, optCount, revLen, heard,
                     serverEnd, readLen, writeLen, request, inbox, sent, waiting>>
  BY DEF Leave, Quit, served, data
<1>2. program # "echo_mpclient" /\ (program \in Senders => client[c] = "replied")
  BY ProgramOne DEF Leave, Senders, Transfers, Echoes
<1>3. /\ Apart(c) /\ client'[c] = "done" /\ outbox'[c] = 0 /\ peer'[c] \in {"reset", "fin"}
  BY <1>1 DEF Apart, ConnTypes
<1>4. ConnTypes'
  BY <1>1, 0 \in Nat DEF ConnTypes
<1>5. Ends'
  <2>1. inbox'[c] <= sent'[c] /\ (program = "echo_std_server" => sent'[c] <= MaxSent)
    BY <1>1 DEF Ends
  <2> QED
    BY <1>1, <1>3, <2>1, ApartEnds
<1>6. ASSUME program \in Echoes PROVE Echoed'
  <2>1. ~HalfClosed(c)'
    BY <1>3 DEF HalfClosed
  <2> QED
    BY <1>2, <1>3, <1>6, <2>1, ApartEchoed
<1>7. ASSUME program = "calc_server" PROVE Computed'
  BY <1>1, <1>3, <1>7, ApartComputed
<1>8. ASSUME program \in Transfers PROVE Transferred'
  <2>1. client[c] = "replied"
    BY <1>2, <1>8 DEF Senders
  <2> QED
    BY <1>1, <1>3, <1>8, <2>1, ApartTransferred DEF Transferred
<1> QED
  BY <1>3, <1>4, <1>5, <1>6, <1>7, <1>8, ApartIInv

LEMMA FailIInv ==
  ASSUME IInv, NEW c \in Conns, Fail(c)
  PROVE  IInv'
<1> USE Facts
<1>1. /\ client' = [client EXCEPT ![c] = "failed"]
      /\ client[c] = "on" \/ HalfClosed(c)
      /\ UNCHANGED <<program, server, clientSocket, accepted, strLen, optCount, revLen, heard,
                     serverEnd, readLen, writeLen, request, peer, inbox, outbox, sent, waiting>>
  BY DEF Fail, served, data, net
<1>2. Apart(c) /\ client'[c] = "failed"
  BY <1>1 DEF Apart, ConnTypes
<1>3. ConnTypes'
  BY <1>1 DEF ConnTypes
<1>4. Ends'
  <2>1. peer[c] \in {"fin", "reset", "broken"} => program = "echo_mpclient"
    BY <1>1 DEF Ends, HalfClosed
  <2>2. inbox'[c] <= sent'[c] /\ (program = "echo_std_server" => sent'[c] <= MaxSent)
    BY <1>1 DEF Ends
  <2> QED
    BY <1>1, <1>2, <2>1, <2>2, ApartEnds
<1>5. ASSUME program \in Echoes PROVE Echoed'
  <2>1. ~HalfClosed(c)'
    BY <1>2 DEF HalfClosed
  <2> QED
    BY <1>1, <1>2, <1>5, <2>1, ApartEchoed DEF Echoed
<1>6. ASSUME program = "calc_server" PROVE Computed'
  BY <1>1, <1>2, <1>6, ApartComputed
<1>7. ASSUME program \in Transfers PROVE Transferred'
  <2>1. client[c] = "on"
    BY <1>1, <1>7 DEF HalfClosed, Transfers
  <2> QED
    BY <1>1, <1>2, <1>7, <2>1, ApartTransferred DEF Transferred
<1> QED
  BY <1>2, <1>3, <1>4, <1>5, <1>6, <1>7, ApartIInv

LEMMA KillIInv ==
  ASSUME IInv, NEW c \in Conns, Kill(c)
  PROVE  IInv'
<1> USE Facts
<1>1. /\ client[c] \in {"on", "replied"}
      /\ client' = [client EXCEPT ![c] = "killed"]
      /\ peer' = [peer EXCEPT ![c] = IF outbox[c] > 0 THEN "reset" ELSE "fin"]
      /\ outbox' = [outbox EXCEPT ![c] = 0]
      /\ waiting' = waiting \ {c}
      /\ UNCHANGED <<program, server, clientSocket, accepted, strLen, optCount, revLen, heard,
                     serverEnd, readLen, writeLen, request, inbox, sent>>
  BY DEF Kill, served, data
<1>2. /\ Apart(c) /\ client'[c] = "killed" /\ outbox'[c] = 0 /\ peer'[c] \in {"reset", "fin"}
  BY <1>1 DEF Apart, ConnTypes
<1>3. ConnTypes'
  BY <1>1, 0 \in Nat DEF ConnTypes
<1>4. Ends'
  <2>1. inbox'[c] <= sent'[c] /\ (program = "echo_std_server" => sent'[c] <= MaxSent)
    BY <1>1 DEF Ends
  <2> QED
    BY <1>1, <1>2, <2>1, ApartEnds
<1>5. ASSUME program \in Echoes PROVE Echoed'
  <2>1. ~HalfClosed(c)'
    BY <1>2 DEF HalfClosed
  <2>2. program = "echo_mpclient" /\ server = "close" /\ clientSocket = c => inbox'[c] = 0
    BY <1>1, <1>5 DEF Echoed
  <2> QED
    BY <1>1, <1>2, <1>5, <2>1, <2>2, ApartEchoed
<1>6. ASSUME program = "calc_server" PROVE Computed'
  <2>1. peer[c] \in {"none", "up"}
    BY <1>1, <1>6 DEF Ends, ConnTypes
  <2> QED
    BY <1>1, <1>2, <1>6, <2>1, ApartComputed
<1>7. ASSUME program \in Transfers PROVE Transferred'
  BY <1>1, <1>2, <1>7, ApartTransferred DEF Transferred
<1> QED
  BY <1>2, <1>3, <1>4, <1>5, <1>6, <1>7, ApartIInv

----------------------------------------------------------------------------
(***************************************************************************)
(* The clients of the echo servers.                                        *)
(***************************************************************************)

\* The steps of the echo clients within their programs; the first lets the message be empty
\* before it is written, the others move units on.
LEMMA EchoClient ==
  ASSUME IInv, NEW c \in Conns, Apart(c), ConnTypes', program \in Echoes,
         peer[c] # "none" => peer'[c] # "none",
         peer[c] \notin {"none", "up"} => peer'[c] \notin {"none", "up"},
         client'[c] # "none",
         client'[c] = "on" => peer'[c] = "up",
         peer'[c] \in {"fin", "reset", "broken"} =>
           client'[c] \in {"done", "killed"} \/ program = "echo_mpclient",
         inbox'[c] <= sent'[c],
         program = "echo_std_server" => sent'[c] <= MaxSent,
         Echoed'
  PROVE  IInv'
<1>1. program # "calc_server" /\ program \notin Transfers
  BY Facts, ProgramOne DEF Senders
<1>2. Ends'
  BY ApartEnds
<1> QED
  BY <1>1, <1>2, ApartIInv

\* While the server's end is open every unit is somewhere, and the client's next message
\* begins when none is.
LEMMA MessageHome ==
  ASSUME IInv, NEW c \in Conns, program \in Echoes, serverEnd[c] = "open",
         client[c] = "on" \/ HalfClosed(c)
  PROVE  /\ InHand(c) \in Nat
         /\ inbox[c] + InHand(c) + outbox[c] + readLen[c] = writeLen[c]
         /\ program # "echo_mpclient" /\ c \notin waiting =>
              readLen[c] = writeLen[c] /\ inbox[c] = 0 /\ InHand(c) = 0 /\ outbox[c] = 0
<1> USE Facts
<1>1. InHand(c) \in Nat
  BY Bounded DEF InHand, ServerTypes
<1>2. /\ inbox[c] + InHand(c) + outbox[c] + readLen[c] = writeLen[c]
      /\ program # "echo_mpclient" /\ c \notin waiting => readLen[c] = writeLen[c]
  BY DEF Echoed, Carried
<1>3. inbox[c] \in Nat /\ outbox[c] \in Nat /\ readLen[c] \in Nat
  BY DEF ConnTypes
<1> QED
  BY <1>1, <1>2, <1>3

LEMMA EchoSendIInv ==
  ASSUME IInv, NEW c \in Conns, EchoSend(c)
  PROVE  IInv'
<1> USE Facts
<1>1. /\ program \in Echoes /\ program # "echo_mpclient"
      /\ client[c] = "on" /\ serverEnd[c] = "open" /\ peer[c] = "up" /\ c \notin waiting
      /\ waiting' = waiting \cup {c}
      /\ writeLen' = [writeLen EXCEPT ![c] = sent'[c] - sent[c]]
      /\ readLen' = [readLen EXCEPT ![c] = 0]
      /\ UNCHANGED <<program, server, clientSocket, accepted, strLen, optCount, revLen, heard,
                     serverEnd, client, request, peer, outbox>>
  BY DEF EchoSend, Send, Echoes, served, data
<1>2. PICK n \in 1 .. MaxSent - sent[c] :
        /\ sent' = [sent EXCEPT ![c] = sent[c] + n]
        /\ inbox' = [inbox EXCEPT ![c] = inbox[c] + n]
  BY DEF EchoSend, Send
<1>3. /\ sent \in [Conns -> Nat] /\ inbox \in [Conns -> Nat] /\ outbox \in [Conns -> Nat]
      /\ readLen \in [Conns -> Nat] /\ writeLen \in [Conns -> Nat]
  BY DEF ConnTypes
<1>4. n \in Nat /\ n <= MaxSent - sent[c] /\ sent[c] \in Nat /\ inbox[c] \in Nat
  BY <1>3, Constants
<1>5. /\ sent' \in [Conns -> Nat] /\ inbox' \in [Conns -> Nat]
      /\ sent'[c] = sent[c] + n /\ inbox'[c] = inbox[c] + n /\ sent'[c] <= MaxSent
      /\ \A d \in Conns : d # c => sent'[d] = sent[d] /\ inbox'[d] = inbox[d]
  BY <1>2, <1>3, <1>4, Constants
<1>6. /\ writeLen' \in [Conns -> Nat] /\ readLen' \in [Conns -> Nat]
      /\ writeLen'[c] = n /\ readLen'[c] = 0
      /\ \A d \in Conns : d # c => writeLen'[d] = writeLen[d] /\ readLen'[d] = readLen[d]
  <2>1. sent'[c] - sent[c] = n
    BY <1>4, <1>5
  <2> QED
    BY <1>1, <1>3, <1>4, <2>1
<1>7. Apart(c)
  BY <1>1, <1>5, <1>6 DEF Apart
<1>8. ConnTypes'
  BY <1>1, <1>5, <1>6 DEF ConnTypes
<1>9. inbox'[c] <= sent'[c]
  BY <1>4, <1>5 DEF Ends
<1>10. Echoed'
  <2>1. InHand(c)' = InHand(c) /\ ~HalfClosed(c)'
    BY <1>1 DEF InHand, HalfClosed
  <2>2. readLen[c] = writeLen[c] /\ inbox[c] = 0 /\ InHand(c) = 0 /\ outbox[c] = 0
    BY <1>1, MessageHome
  <2>3. Carried(c)'
    BY <1>1, <1>4, <1>5, <1>6, <2>1, <2>2 DEF Carried
  <2> QED
    BY <1>1, <1>7, <2>3, ApartEchoed
<1> QED
  BY <1>1, <1>5, <1>7, <1>8, <1>9, <1>10, EchoClient

\* A read by the client moves units from the connection to what it has read.
LEMMA UnitsReceived ==
  ASSUME ConnTypes, NEW c \in Conns, NEW n \in 1 .. outbox[c],
         outbox' = [outbox EXCEPT ![c] = outbox[c] - n],
         readLen' = [readLen EXCEPT ![c] = readLen[c] + n]
  PROVE  /\ outbox' \in [Conns -> Nat] /\ readLen' \in [Conns -> Nat]
         /\ outbox[c] \in Nat /\ outbox[c] > 0 /\ outbox'[c] \in Nat /\ readLen'[c] \in Nat
         /\ outbox'[c] + readLen'[c] = outbox[c] + readLen[c]
         /\ \A d \in Conns : d # c => outbox'[d] = outbox[d] /\ readLen'[d] = readLen[d]
<1>1. outbox \in [Conns -> Nat] /\ readLen \in [Conns -> Nat] /\ outbox[c] \in Nat /\ readLen[c] \in Nat
  BY DEF ConnTypes
<1>2. n \in Nat /\ n >= 1 /\ n <= outbox[c]
  BY <1>1
<1> QED
  BY <1>1, <1>2

\* ... and the sum stays.
LEMMA CarriedReceived ==
  ASSUME IInv, NEW c \in Conns, program \in Echoes, serverEnd[c] = "open",
         client[c] = "on" \/ HalfClosed(c),
         UNCHANGED <<server, clientSocket, strLen, inbox, writeLen>>,
         outbox'[c] \in Nat, readLen'[c] \in Nat,
         outbox'[c] + readLen'[c] = outbox[c] + readLen[c]
  PROVE  /\ inbox[c] + InHand(c) + outbox'[c] + readLen'[c] = writeLen[c]
         /\ Carried(c)'
         /\ readLen'[c] >= writeLen[c] => readLen'[c] = writeLen[c]
<1>1. /\ inbox[c] \in Nat /\ outbox[c] \in Nat /\ readLen[c] \in Nat /\ InHand(c) \in Nat
      /\ inbox[c] + InHand(c) + outbox[c] + readLen[c] = writeLen[c]
  BY Facts, MessageHome DEF ConnTypes
<1>2. inbox[c] + InHand(c) + outbox'[c] + readLen'[c] = writeLen[c]
  BY <1>1
<1>3. InHand(c)' = InHand(c) /\ inbox'[c] = inbox[c] /\ writeLen'[c] = writeLen[c]
  BY DEF InHand
<1>4. Carried(c)'
  BY <1>2, <1>3 DEF Carried
<1>5. readLen'[c] >= writeLen[c] => readLen'[c] = writeLen[c]
  <2>1. writeLen[c] \in Nat
    BY Facts DEF ConnTypes
  <2>2. readLen'[c] <= writeLen[c]
    BY <1>1, <1>2, <2>1
  <2> QED
    BY <2>1, <2>2
<1> QED
  BY <1>2, <1>4, <1>5

LEMMA EchoReceiveIInv ==
  ASSUME IInv, NEW c \in Conns, EchoReceive(c)
  PROVE  IInv'
<1> USE Facts
<1>1. /\ program \in Echoes /\ program # "echo_mpclient"
      /\ client[c] = "on" /\ c \in waiting
      /\ UNCHANGED <<program, server, clientSocket, accepted, strLen, optCount, revLen, heard,
                     serverEnd, client, writeLen, request, peer, inbox, sent>>
      /\ waiting' = IF readLen'[c] >= writeLen[c] THEN waiting \ {c} ELSE waiting
  BY DEF EchoReceive, AnsweredBy, Echoes, served, data
<1>2. PICK n \in 1 .. outbox[c] :
        /\ outbox' = [outbox EXCEPT ![c] = outbox[c] - n]
        /\ readLen' = [readLen EXCEPT ![c] = readLen[c] + n]
  BY DEF EchoReceive
<1>3. /\ outbox' \in [Conns -> Nat] /\ readLen' \in [Conns -> Nat]
      /\ outbox'[c] \in Nat /\ readLen'[c] \in Nat
      /\ outbox'[c] + readLen'[c] = outbox[c] + readLen[c]
      /\ \A d \in Conns : d # c => outbox'[d] = outbox[d] /\ readLen'[d] = readLen[d]
  BY <1>2, UnitsReceived
<1>4. Apart(c)
  BY <1>1, <1>3 DEF Apart
<1>5. ConnTypes'
  BY <1>1, <1>3 DEF ConnTypes
<1>6. /\ client'[c] = "on" /\ peer'[c] = "up" /\ inbox'[c] <= sent'[c]
      /\ program = "echo_std_server" => sent'[c] <= MaxSent
  BY <1>1 DEF Ends
<1>7. Echoed'
  <2>1. c \notin waiting' => readLen'[c] >= writeLen[c]
    BY <1>1
  <2>2. serverEnd[c] = "open" => Carried(c)' /\ (c \notin waiting' => readLen'[c] = writeLen'[c])
    BY <1>1, <1>3, <2>1, CarriedReceived
  <2> QED
    BY <1>1, <1>4, <1>6, <2>2, ApartEchoed
<1> QED
  BY <1>1, <1>4, <1>5, <1>6, <1>7, EchoClient

LEMMA WriteMessageIInv ==
  ASSUME IInv, NEW c \in Conns, WriteMessage(c)
  PROVE  IInv'
<1> USE Facts
<1>1. /\ program = "echo_mpclient" /\ program \in Echoes
      /\ client[c] = "on" /\ serverEnd[c] = "open" /\ peer[c] = "up"
      /\ UNCHANGED <<program, server, clientSocket, accepted, strLen, optCount, revLen, heard,
                     serverEnd, client, readLen, request, peer, outbox, waiting>>
  BY DEF WriteMessage, Echoes, served, data, Ends
<1>2. PICK n \in 1 .. MaxSent - sent[c] :
        /\ sent' = [sent EXCEPT ![c] = sent[c] + n]
        /\ inbox' = [inbox EXCEPT ![c] = inbox[c] + n]
        /\ writeLen' = [writeLen EXCEPT ![c] = writeLen[c] + n]
  BY DEF WriteMessage
<1>3. /\ sent \in [Conns -> Nat] /\ inbox \in [Conns -> Nat] /\ writeLen \in [Conns -> Nat]
      /\ sent[c] \in Nat /\ inbox[c] \in Nat /\ writeLen[c] \in Nat
      /\ outbox[c] \in Nat /\ readLen[c] \in Nat
  BY DEF ConnTypes
<1>4. n \in Nat
  BY <1>3, Constants
<1>5. /\ sent' \in [Conns -> Nat] /\ inbox' \in [Conns -> Nat] /\ writeLen' \in [Conns -> Nat]
      /\ sent'[c] = sent[c] + n /\ inbox'[c] = inbox[c] + n /\ writeLen'[c] = writeLen[c] + n
      /\ \A d \in Conns : d # c => sent'[d] = sent[d] /\ inbox'[d] = inbox[d] /\ writeLen'[d] = writeLen[d]
  BY <1>2, <1>3, <1>4
<1>6. Apart(c)
  BY <1>1, <1>5 DEF Apart
<1>7. ConnTypes'
  BY <1>1, <1>5 DEF ConnTypes
<1>8. inbox'[c] <= sent'[c]
  <2>1. inbox[c] <= sent[c]
    BY DEF Ends
  <2> QED
    BY <1>3, <1>4, <1>5, <2>1
<1>9. Echoed'
  <2>1. InHand(c)' = InHand(c) /\ ~HalfClosed(c)'
    BY <1>1 DEF InHand, HalfClosed
  <2>2. InHand(c) \in Nat /\ inbox[c] + InHand(c) + outbox[c] + readLen[c] = writeLen[c]
    BY <1>1, MessageHome
  <2>3. Carried(c)'
    BY <1>1, <1>3, <1>4, <1>5, <2>1, <2>2 DEF Carried
  <2>4. ~(server = "close" /\ clientSocket = c)
    BY <1>1 DEF Echoed
  <2> QED
    BY <1>1, <1>6, <2>1, <2>3, <2>4, ApartEchoed
<1> QED
  BY <1>1, <1>6, <1>7, <1>8, <1>9, EchoClient

LEMMA EndMessagesIInv ==
  ASSUME IInv, NEW c \in Conns, EndMessages(c)
  PROVE  IInv'
<1> USE Facts
<1>1. /\ program = "echo_mpclient" /\ program \in Echoes
      /\ client[c] = "on" /\ serverEnd[c] = "open" /\ peer[c] = "up"
      /\ client' = [client EXCEPT ![c] = "replied"]
      /\ peer' = [peer EXCEPT ![c] = "fin"]
      /\ UNCHANGED <<program, server, clientSocket, accepted, strLen, optCount, revLen, heard,
                     serverEnd, readLen, writeLen, request, inbox, outbox, sent, waiting>>
  BY DEF EndMessages, Echoes, served, data, Ends
<1>2. /\ Apart(c) /\ client'[c] = "replied" /\ peer'[c] = "fin"
  BY <1>1 DEF Apart, ConnTypes
<1>3. ConnTypes'
  BY <1>1 DEF ConnTypes
<1>4. inbox'[c] <= sent'[c]
  BY <1>1 DEF Ends
<1>5. Echoed'
  <2>1. Carried(c)'
    BY <1>1 DEF Echoed, Carried, InHand
  <2>2. ~(server = "close" /\ clientSocket = c)
    BY <1>1 DEF Echoed
  <2> QED
    BY <1>1, <1>2, <2>1, <2>2, ApartEchoed
<1> QED
  BY <1>1, <1>2, <1>3, <1>4, <1>5, EchoClient

LEMMA ReadMessageIInv ==
  ASSUME IInv, NEW c \in Conns, ReadMessage(c)
  PROVE  IInv'
<1> USE Facts
<1>1. /\ program = "echo_mpclient" /\ program \in Echoes
      /\ client[c] = "on" \/ HalfClosed(c)
      /\ client[c] \in {"on", "replied"}
      /\ UNCHANGED <<program, server, clientSocket, accepted, strLen, optCount, revLen, heard,
                     serverEnd, client, writeLen, request, peer, inbox, sent, waiting>>
  BY DEF ReadMessage, Echoes, HalfClosed, served, data
<1>2. PICK n \in 1 .. outbox[c] :
        /\ outbox' = [outbox EXCEPT ![c] = outbox[c] - n]
        /\ readLen' = [readLen EXCEPT ![c] = readLen[c] + n]
  BY DEF ReadMessage
<1>3. /\ outbox' \in [Conns -> Nat] /\ readLen' \in [Conns -> Nat]
      /\ outbox'[c] \in Nat /\ readLen'[c] \in Nat
      /\ outbox'[c] + readLen'[c] = outbox[c] + readLen[c]
      /\ \A d \in Conns : d # c => outbox'[d] = outbox[d] /\ readLen'[d] = readLen[d]
  BY <1>2, UnitsReceived
<1>4. Apart(c)
  BY <1>1, <1>3 DEF Apart
<1>5. ConnTypes'
  BY <1>1, <1>3 DEF ConnTypes
<1>6. /\ client'[c] = "on" => peer'[c] = "up"
      /\ inbox'[c] <= sent'[c] /\ client'[c] \in {"on", "replied"}
  BY <1>1 DEF Ends
<1>7. Echoed'
  <2>1. HalfClosed(c)' <=> HalfClosed(c)
    BY <1>1 DEF HalfClosed
  <2>2. serverEnd[c] = "open" => Carried(c)'
    BY <1>1, <1>3, CarriedReceived
  <2>3. HalfClosed(c) =>
          /\ peer[c] = "fin"
          /\ serverEnd[c] = "fin" => outbox'[c] + readLen'[c] = writeLen[c]
    BY <1>1, <1>3 DEF Echoed
  <2>4. server = "close" /\ clientSocket = c => inbox'[c] = 0 /\ peer'[c] \notin {"none", "up"}
    BY <1>1 DEF Echoed
  <2> QED
    BY <1>1, <1>4, <1>6, <2>1, <2>2, <2>3, <2>4, ApartEchoed
<1> QED
  BY <1>1, <1>4, <1>5, <1>6, <1>7, EchoClient

LEMMA MessagesEndIInv ==
  ASSUME IInv, NEW c \in Conns, MessagesEnd(c)
  PROVE  IInv'
<1> USE Facts
<1>1. /\ HalfClosed(c) /\ program = "echo_mpclient" /\ program \in Echoes
      /\ outbox[c] = 0 /\ serverEnd[c] = "fin"
      /\ client' = [client EXCEPT ![c] = "done"]
      /\ UNCHANGED <<program, server, clientSocket, accepted, strLen, optCount, revLen, heard,
                     serverEnd, readLen, writeLen, request, peer, inbox, outbox, sent, waiting>>
  BY DEF MessagesEnd, HalfClosed, Echoes, served, data, net
<1>2. Apart(c) /\ client'[c] = "done"
  BY <1>1 DEF Apart, ConnTypes
<1>3. ConnTypes'
  BY <1>1 DEF ConnTypes
<1>4. inbox'[c] <= sent'[c]
  BY <1>1 DEF Ends
<1>5. Echoed'
  <2>1. ~HalfClosed(c)'
    BY <1>2 DEF HalfClosed
  <2>2. readLen[c] = writeLen[c]
    <3>1. outbox[c] + readLen[c] = writeLen[c] /\ readLen[c] \in Nat
      BY <1>1 DEF Echoed, ConnTypes
    <3> QED
      BY <1>1, <3>1
  <2>3. server = "close" /\ clientSocket = c => inbox'[c] = 0 /\ peer'[c] \notin {"none", "up"}
    BY <1>1 DEF Echoed
  <2> QED
    BY <1>1, <1>2, <2>1, <2>2, <2>3, ApartEchoed
<1> QED
  BY <1>1, <1>2, <1>3, <1>4, <1>5, EchoClient

----------------------------------------------------------------------------
(***************************************************************************)
(* The clients of the calculator, and of the servers that send a file, or  *)
(* a text.                                                                 *)
(***************************************************************************)

\* What is common to the steps of the calculator's client.
LEMMA CalcClient ==
  ASSUME IInv, NEW c \in Conns, Apart(c), ConnTypes', program = "calc_server",
         client[c] = "on", UNCHANGED <<client, peer>>, inbox'[c] <= sent'[c],
         Computed'
  PROVE  IInv'
<1>1. program \notin Echoes /\ program \notin Transfers /\ program # "echo_std_server"
  BY Facts, ProgramOne DEF Senders, Echoes
<1>2. Ends'
  <2>1. client'[c] = "on" /\ peer'[c] = "up" /\ peer[c] = "up"
    BY Facts DEF Ends
  <2> QED
    BY <1>1, <2>1, ApartEnds
<1> QED
  BY <1>1, <1>2, ApartIInv

LEMMA CalcSendIInv ==
  ASSUME IInv, NEW c \in Conns, CalcSend(c)
  PROVE  IInv'
<1> USE Facts
<1>1. /\ program = "calc_server"
      /\ client[c] = "on" /\ peer[c] = "up" /\ writeLen[c] = 0
      /\ waiting' = waiting \cup {c}
      /\ UNCHANGED <<program, server, clientSocket, accepted, strLen, optCount, revLen, heard,
                     serverEnd, client, readLen, peer, outbox>>
  BY DEF CalcSend, served, data, Ends
<1>2. PICK r \in Requests :
        /\ request' = [request EXCEPT ![c] = r]
        /\ writeLen' = [writeLen EXCEPT ![c] = OPSZ * r.count + 2]
        /\ inbox' = [inbox EXCEPT ![c] = inbox[c] + (OPSZ * r.count + 2)]
        /\ sent' = [sent EXCEPT ![c] = sent[c] + (OPSZ * r.count + 2)]
  BY DEF CalcSend
<1> DEFINE n == Operands(r.count) + 2
<1>3. n \in Nat
  <2>1. r.count \in 0 .. MaxCount
    BY <1>2 DEF Requests
  <2> QED
    BY <2>1, OperandsBounded
<1>4. /\ writeLen' = [writeLen EXCEPT ![c] = n]
      /\ inbox' = [inbox EXCEPT ![c] = inbox[c] + n]
      /\ sent' = [sent EXCEPT ![c] = sent[c] + n]
  BY <1>2 DEF Operands
<1>5. /\ writeLen \in [Conns -> Nat] /\ inbox \in [Conns -> Nat] /\ sent \in [Conns -> Nat]
      /\ inbox[c] \in Nat /\ sent[c] \in Nat /\ request \in [Conns -> Requests]
  BY DEF ConnTypes
<1> HIDE DEF n
<1>6. /\ writeLen' \in [Conns -> Nat] /\ inbox' \in [Conns -> Nat] /\ sent' \in [Conns -> Nat]
      /\ request' \in [Conns -> Requests]
      /\ writeLen'[c] = n /\ inbox'[c] = inbox[c] + n /\ sent'[c] = sent[c] + n /\ request'[c] = r
      /\ \A d \in Conns : d # c => /\ writeLen'[d] = writeLen[d] /\ inbox'[d] = inbox[d]
                                   /\ sent'[d] = sent[d] /\ request'[d] = request[d]
  BY <1>2, <1>3, <1>4, <1>5
<1>7. Apart(c)
  BY <1>1, <1>6 DEF Apart
<1>8. ConnTypes'
  BY <1>1, <1>6 DEF ConnTypes
<1>9. inbox'[c] <= sent'[c]
  <2>1. inbox[c] <= sent[c]
    BY DEF Ends
  <2> QED
    BY <1>3, <1>5, <1>6, <2>1
<1>10. Computed'
  <2>1. Whole(c)'
    <3>1. writeLen'[c] = OPSZ * request'[c].count + 2
      BY <1>6 DEF n, Operands
    <3> QED
      BY <3>1 DEF Whole
  <2>2. inbox[c] = writeLen[c] => inbox'[c] = writeLen'[c]
    BY <1>1, <1>3, <1>5, <1>6
  <2>3. \A d \in Conns : d # c => (Whole(d)' <=> Whole(d))
    BY <1>6 DEF Whole
  <2>4. \A d \in Conns : inbox[d] = writeLen[d] /\ Whole(d) => inbox'[d] = writeLen'[d] /\ Whole(d)'
    BY <1>6, <2>1, <2>2, <2>3
  <2>5. server \in {"rest", "answer"} => clientSocket # c
    BY <1>1 DEF Computed
  <2>6. server \in {"count", "rest", "answer"} => clientSocket \in Conns
    BY DEF Stands, ServerTypes
  <2>7. \A d \in Conns : d \notin accepted => inbox'[d] = writeLen'[d] /\ Whole(d)'
    BY <1>1, <2>4 DEF Computed
  <2>8. server = "count" => /\ inbox'[clientSocket] = writeLen'[clientSocket] /\ Whole(clientSocket)'
                            /\ revLen = 0
    <3>1. server = "count" => inbox[clientSocket] = writeLen[clientSocket] /\ Whole(clientSocket)
                              /\ revLen = 0
      BY <1>1 DEF Computed
    <3>2. CASE server = "count"
      <4>1. PICK d \in Conns : d = clientSocket
        BY <2>6, <3>2
      <4>2. inbox'[d] = writeLen'[d] /\ Whole(d)' /\ revLen = 0
        BY <2>4, <3>1, <3>2, <4>1
      <4> QED
        BY <1>1, <4>1, <4>2 DEF Whole
    <3> QED
      BY <3>2
  <2>9. server \in {"rest", "answer"} =>
          /\ writeLen'[clientSocket] = writeLen[clientSocket]
          /\ inbox'[clientSocket] = inbox[clientSocket]
          /\ request'[clientSocket] = request[clientSocket]
    BY <1>6, <2>5, <2>6
  <2>10. server' = "count" => /\ inbox'[clientSocket'] = writeLen'[clientSocket']
                              /\ Whole(clientSocket)' /\ revLen' = 0
    BY <1>1, <2>8
  <2>11. server' = "rest" =>
         \/ /\ writeLen'[clientSocket'] # 0
            /\ optCount' = request'[clientSocket'].count
            /\ inbox'[clientSocket'] + revLen' = OPSZ * optCount' + 1
         \/ /\ inbox'[clientSocket'] = 0 /\ revLen' = 0
            /\ peer'[clientSocket'] \in {"fin", "broken"}
    BY <1>1, <2>9 DEF Computed
  <2>12. (server' = "answer" => writeLen'[clientSocket'] # 0) /\ RightAnswer'
    BY <1>1, <2>9 DEF Computed, RightAnswer
  <2> QED
    BY <1>1, <2>7, <2>10, <2>11, <2>12 DEF Computed
<1> QED
  BY <1>1, <1>7, <1>8, <1>9, <1>10, CalcClient

LEMMA CalcReceiveIInv ==
  ASSUME IInv, NEW c \in Conns, CalcReceive(c)
  PROVE  IInv'
<1> USE Facts
<1>1. /\ program = "calc_server" /\ client[c] = "on"
      /\ outbox' = [outbox EXCEPT ![c] = 0]
      /\ waiting' = waiting \ {c}
      /\ readLen' = [readLen EXCEPT ![c] = outbox[c]]
      /\ UNCHANGED <<program, server, clientSocket, accepted, strLen, optCount, revLen, heard,
                     serverEnd, client, writeLen, request, peer, inbox, sent>>
  BY DEF CalcReceive, Receive, served, data
<1>2. Apart(c)
  BY <1>1 DEF Apart, ConnTypes
<1>3. ConnTypes'
  BY <1>1, 0 \in Nat DEF ConnTypes
<1>4. inbox'[c] <= sent'[c]
  BY <1>1 DEF Ends
<1>5. Computed'
  BY <1>1, <1>2, ApartComputed
<1> QED
  BY <1>1, <1>2, <1>3, <1>4, <1>5, CalcClient

LEMMA FileReceiveIInv ==
  ASSUME IInv, NEW c \in Conns, FileReceive(c)
  PROVE  IInv'
<1> USE Facts
<1>1. /\ program \in Transfers /\ client[c] = "on"
      /\ UNCHANGED <<program, server, clientSocket, accepted, strLen, optCount, revLen, heard,
                     serverEnd, client, writeLen, request, peer, inbox, sent, waiting>>
  BY DEF FileReceive, served, data
<1>2. PICK n \in 1 .. outbox[c] :
        /\ outbox' = [outbox EXCEPT ![c] = outbox[c] - n]
        /\ readLen' = [readLen EXCEPT ![c] = readLen[c] + n]
  BY DEF FileReceive
<1>3. /\ outbox' \in [Conns -> Nat] /\ readLen' \in [Conns -> Nat] /\ outbox[c] > 0
      /\ outbox'[c] + readLen'[c] = outbox[c] + readLen[c]
      /\ \A d \in Conns : d # c => outbox'[d] = outbox[d] /\ readLen'[d] = readLen[d]
  BY <1>2, UnitsReceived
<1>4. Apart(c)
  BY <1>1, <1>3 DEF Apart
<1>5. ConnTypes'
  BY <1>1, <1>3 DEF ConnTypes
<1>6. program \notin Echoes /\ program # "calc_server" /\ program # "echo_std_server"
  BY <1>1, ProgramOne DEF Senders, Echoes
<1>7. Ends'
  <2>1. client'[c] = "on" /\ peer'[c] = "up" /\ inbox'[c] <= sent'[c]
    BY <1>1 DEF Ends
  <2> QED
    BY <1>1, <1>4, <1>6, <2>1, ApartEnds
<1>8. Transferred'
  <2>1. c \in accepted
    BY <1>1, <1>3 DEF Transferred
  <2>2. outbox'[c] + readLen'[c] = strLen /\ server # "dead"
    BY <1>1, <1>3, <2>1 DEF Transferred
  <2> QED
    BY <1>1, <1>4, <2>1, <2>2, ApartTransferred
<1> QED
  BY <1>4, <1>5, <1>6, <1>7, <1>8, ApartIInv

\* A client that finds the end of the stream has the whole file.
LEMMA StreamEnd ==
  ASSUME IInv, NEW c \in Conns, program \in Transfers, client[c] = "on",
         outbox[c] = 0, serverEnd[c] = "fin"
  PROVE  c \in accepted /\ readLen[c] = FileSize
<1> USE Facts
<1>1. c \in accepted
  BY DEF Ends
<1>2. outbox[c] + readLen[c] = strLen /\ server # "dead" /\ readLen[c] \in Nat
  BY <1>1 DEF Transferred, ConnTypes
<1>3. server # "accept"
  <2>1. Cardinality(accepted) # 0
    BY <1>1, AcceptedFinite, FS_EmptySet DEF ServerTypes
  <2> QED
    BY <2>1, AcceptedFinite DEF Stands, Limit, Senders, ServerTypes
<1>4. server \notin {"send", "end"}
  <2> SUFFICES ASSUME server \in {"send", "end"} PROVE FALSE
    OBVIOUS
  <2>1. clientSocket \in accepted
    BY DEF Stands
  <2>2. clientSocket = c
    BY <1>1, <2>1, OneServed DEF Senders
  <2> QED
    BY <2>2, Constants DEF Ends
<1>5. server \notin {"read", "write", "again", "count", "rest", "answer"}
  BY ProgramOne DEF Stands, Senders, Echoes
<1>6. strLen = FileSize
  BY <1>2, <1>3, <1>4, <1>5 DEF Transferred, ServerTypes
<1> QED
  BY <1>1, <1>2, <1>6

LEMMA AnswerIInv ==
  ASSUME IInv, NEW c \in Conns, Answer(c)
  PROVE  IInv'
<1> USE Facts
<1>1. /\ program \in Transfers /\ client[c] = "on" /\ outbox[c] = 0 /\ serverEnd[c] = "fin"
      /\ client' = [client EXCEPT ![c] = "replied"]
      /\ UNCHANGED <<program, server, clientSocket, accepted, strLen, optCount, revLen, heard,
                     serverEnd, readLen, writeLen, request, peer, outbox, waiting>>
  BY DEF Answer, served, data
<1>2. /\ inbox \in [Conns -> Nat] /\ sent \in [Conns -> Nat]
      /\ inbox[c] \in Nat /\ sent[c] \in Nat /\ inbox[c] <= sent[c]
  BY DEF ConnTypes, Ends
<1>3. /\ inbox' \in [Conns -> Nat] /\ sent' \in [Conns -> Nat]
      /\ \A d \in Conns : d # c => inbox'[d] = inbox[d] /\ sent'[d] = sent[d]
      /\ inbox'[c] <= sent'[c]
      /\ clientSocket = c => inbox'[c] > 0
  <2>1. CASE clientSocket = c
    <3>1. inbox' = [inbox EXCEPT ![c] = inbox[c] + 1] /\ sent' = [sent EXCEPT ![c] = sent[c] + 1]
      BY <2>1 DEF Answer
    <3> QED
      BY <1>2, <3>1
  <2>2. CASE clientSocket # c
    BY <1>2, <2>2 DEF Answer
  <2> QED
    BY <2>1, <2>2
<1>4. Apart(c) /\ client'[c] = "replied"
  BY <1>1, <1>3 DEF Apart, ConnTypes
<1>5. ConnTypes'
  BY <1>1, <1>3 DEF ConnTypes
<1>6. program \notin Echoes /\ program # "calc_server" /\ program # "echo_std_server"
  BY <1>1, ProgramOne DEF Senders, Echoes
<1>7. Ends'
  <2>1. peer[c] = "up" /\ peer'[c] = "up"
    BY <1>1 DEF Ends
  <2> QED
    BY <1>3, <1>4, <1>6, <2>1, ApartEnds
<1>8. Transferred'
  BY <1>1, <1>3, <1>4, StreamEnd, ApartTransferred
<1> QED
  BY <1>4, <1>5, <1>6, <1>7, <1>8, ApartIInv

LEMMA HelloReceiveIInv ==
  ASSUME IInv, NEW c \in Conns, HelloReceive(c)
  PROVE  IInv'
<1> USE Facts
<1>1. /\ program = "hello_server" /\ client[c] = "on"
      /\ client' = [client EXCEPT ![c] = "replied"]
      /\ UNCHANGED <<program, server, clientSocket, accepted, strLen, optCount, revLen, heard,
                     serverEnd, writeLen, request, peer, inbox, sent, waiting>>
  BY DEF HelloReceive, served, data
<1>2. PICK n \in 1 .. outbox[c] :
        /\ outbox' = [outbox EXCEPT ![c] = outbox[c] - n]
        /\ readLen' = [readLen EXCEPT ![c] = n]
  BY DEF HelloReceive
<1>3. /\ outbox' \in [Conns -> Nat] /\ readLen' \in [Conns -> Nat]
      /\ \A d \in Conns : d # c => outbox'[d] = outbox[d] /\ readLen'[d] = readLen[d]
  <2>1. outbox \in [Conns -> Nat] /\ readLen \in [Conns -> Nat] /\ outbox[c] \in Nat
    BY DEF ConnTypes
  <2> QED
    BY <1>2, <2>1
<1>4. Apart(c) /\ client'[c] = "replied"
  BY <1>1, <1>3 DEF Apart, ConnTypes
<1>5. ConnTypes'
  BY <1>1, <1>3 DEF ConnTypes
<1>6. program \notin Echoes /\ program # "calc_server" /\ program \notin Transfers
  BY <1>1 DEF Transfers, Echoes
<1>7. Ends'
  <2>1. peer[c] = "up" /\ peer'[c] = "up" /\ inbox'[c] <= sent'[c]
    BY <1>1 DEF Ends
  <2> QED
    BY <1>1, <1>4, <2>1, ApartEnds
<1> QED
  BY <1>4, <1>5, <1>6, <1>7, ApartIInv

----------------------------------------------------------------------------
(***************************************************************************)
(* The theorems.                                                           *)
(***************************************************************************)

LEMMA NextIInv == IInv /\ [Next]_vars => IInv'
<1> SUFFICES ASSUME IInv, [Next]_vars PROVE IInv'
  OBVIOUS
<1>1. CASE Server
  BY <1>1, ServerIInv
<1>2. ASSUME NEW c \in Conns, Begin(c) \/ Kill(c)
      PROVE  IInv'
  BY <1>2, BeginIInv, KillIInv
<1>3. ASSUME NEW c \in Conns, Client(c)
      PROVE  IInv'
  <2>1. CASE EchoSend(c) \/ EchoReceive(c)
    BY <2>1, EchoSendIInv, EchoReceiveIInv
  <2>2. CASE WriteMessage(c) \/ EndMessages(c) \/ ReadMessage(c) \/ MessagesEnd(c)
    BY <2>2, WriteMessageIInv, EndMessagesIInv, ReadMessageIInv, MessagesEndIInv
  <2>3. CASE CalcSend(c) \/ CalcReceive(c)
    BY <2>3, CalcSendIInv, CalcReceiveIInv
  <2>4. CASE FileReceive(c) \/ Answer(c) \/ HelloReceive(c)
    BY <2>4, FileReceiveIInv, AnswerIInv, HelloReceiveIInv
  <2>5. CASE Leave(c) \/ Fail(c)
    BY <2>5, LeaveIInv, FailIInv
  <2> QED
    BY <1>3, <2>1, <2>2, <2>3, <2>4, <2>5 DEF Client
<1>4. CASE UNCHANGED vars
  BY <1>4 DEF vars, served, data, clients, net, IInv, TypeOK, NetTypeOK, Limit, Stands, HalfCloses,
              Ends, Echoed, HalfClosed, Carried, InHand, Computed, Whole, RightAnswer, Transferred
<1> QED
  BY <1>1, <1>2, <1>3, <1>4 DEF Next

LEMMA Invariance == Spec => []IInv
<1>1. Init => IInv
  BY InitIInv
<1>2. IInv /\ [Next]_vars => IInv'
  BY NextIInv
<1> QED
  BY <1>1, <1>2, PTL DEF Spec

\* Every variable keeps its type: requests and files of any size stay within the buffers that
\* are counted here.
THEOREM TypeCorrect == Spec => []TypeOK
<1>1. IInv => TypeOK
  BY DEF IInv
<1> QED
  BY <1>1, Invariance, PTL

\* No unit of a message is lost or doubled between a client and an echo server, whatever
\* pieces it is cut into, and no client reads past the end of an echo.
THEOREM RoundTripCorrect == Spec => []RoundTrip
<1>1. IInv => RoundTrip
  BY Facts DEF RoundTrip, Echoed, Carried, InHand
<1> QED
  BY <1>1, Invariance, PTL

\* The calculator computes with the operands and the operator of the client it serves.
THEOREM AnswerCorrect == Spec => []RightAnswer
<1>1. IInv => RightAnswer
  <2> SUFFICES ASSUME IInv PROVE RightAnswer
    OBVIOUS
  <2>1. CASE server = "answer"
    BY <2>1, Facts DEF Stands, Computed
  <2>2. CASE server # "answer"
    BY <2>2 DEF RightAnswer
  <2> QED
    BY <2>1, <2>2
<1> QED
  BY <1>1, Invariance, PTL

\* A half-closed connection still carries everything the other way.
THEOREM HalfCloseCorrect == Spec => []HalfCloseCompletes
<1>1. IInv => HalfCloseCompletes
  <2> SUFFICES ASSUME IInv, NEW c \in accepted
               PROVE  /\ program \in Transfers /\ client[c] \in {"replied", "done"} =>
                           readLen[c] = FileSize
                      /\ program \in Transfers \ {"sep_server"} /\ server = "done"
                           /\ client[c] # "killed" => heard
                      /\ program = "echo_mpclient" /\ client[c] = "done" => readLen[c] = writeLen[c]
    BY DEF HalfCloseCompletes
  <2>1. c \in Conns
    BY Facts DEF ServerTypes
  <2>2. program = "echo_mpclient" => program \in Echoes
    BY DEF Echoes
  <2> QED
    BY <2>1, <2>2, Facts DEF Transferred, Echoed
<1> QED
  BY <1>1, Invariance, PTL
=============================================================================

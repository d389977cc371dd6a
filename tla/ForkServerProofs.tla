-------------------------- MODULE ForkServerProofs --------------------------
(***************************************************************************)
(* Proofs about the forking servers of ForkServer, for every number of     *)
(* clients and every size of buffer and pipe: the handler of SIGCHLD reaps *)
(* one child for each signal it was called for, so that the zombies which  *)
(* stay are as many as signals were merged; no unit that was read is lost  *)
(* on its way to the file or stored twice, but for the last read of a      *)
(* killed child; and the servers implement EchoService.                    *)
(***************************************************************************)
EXTENDS ForkServer, FiniteSetTheorems, SequenceTheorems, TLAPS

\* A zombie is a child that ended.
Dead ==
  /\ \A c \in Conns : c \in zombies => child[c] \in {"done", "killed"}
  /\ Nobody \in zombies => rounds = 0

\* The connection the parent is about to fork for has no child yet, and neither has one
\* that was not accepted.
Fresh ==
  /\ server = "fork" => clientSocket \in Conns /\ child[clientSocket] = "none"
  /\ \A c \in Conns : c \notin accepted => child[c] = "none"
  /\ clientSocket \in accepted \cup {Nobody}

IInv == TypeOK /\ Dead /\ Fresh /\ ZombiesBalance

----------------------------------------------------------------------------
LEMMA ZombiesFinite ==
  ASSUME zombies \subseteq Conns \cup {Nobody}
  PROVE  IsFiniteSet(zombies) /\ Cardinality(zombies) \in Nat
<1>1. IsFiniteSet(Conns \cup {Nobody})
  BY NetAssumption, FS_AddElement
<1> QED
  BY <1>1, FS_Subset, FS_CardinalityType

LEMMA InitIInv == Init => IInv
<1> SUFFICES ASSUME Init PROVE IInv
  OBVIOUS
<1> USE ForkAssumption DEF Init, SigInit, NetInit
<1>1. /\ child \in [Conns -> {"none", "read", "write", "store", "done", "killed"}]
      /\ strLen \in [Conns -> 0 .. BUF_SIZE]
      /\ pipe \in Seq(Conns) /\ Len(pipe) = 0 /\ log \in Seq(Conns)
  OBVIOUS
<1>2. NetTypeOK
  BY DEF NetTypeOK
<1>3. pending \in BOOLEAN /\ handling \in BOOLEAN
  OBVIOUS
<1>4. rounds \in 0 .. Rounds
  OBVIOUS
<1>5. TypeOK
  BY <1>1, <1>2, <1>3, <1>4 DEF TypeOK
<1>6. Dead /\ Fresh
  BY DEF Dead, Fresh
<1>7. ZombiesBalance
  BY FS_EmptySet DEF ZombiesBalance, One
<1> QED
  BY <1>5, <1>6, <1>7 DEF IInv

----------------------------------------------------------------------------
(***************************************************************************)
(* Ending and reaping children.                                            *)
(***************************************************************************)

\* A child that was no zombie ends: one zombie more, and its signal is pending or merged.
LEMMA EndsBalance ==
  ASSUME IInv, NEW p \in Conns \cup {Nobody}, p \notin zombies, Ends(p)
  PROVE  /\ ZombiesBalance'
         /\ zombies' = zombies \cup {p}
         /\ zombies' \subseteq Conns \cup {Nobody}
         /\ pending' \in BOOLEAN /\ handling' \in BOOLEAN
         /\ merged' \in Nat
<1>1. /\ zombies \subseteq Conns \cup {Nobody}
      /\ merged \in Nat
  BY DEF IInv, TypeOK
<1>2. Cardinality(zombies \cup {p}) = Cardinality(zombies) + 1
  BY <1>1, ZombiesFinite, FS_AddElement
<1>3. zombies' = zombies \cup {p} /\ pending' = TRUE /\ handling' = handling
  BY DEF Ends
<1>4. merged' = IF pending THEN merged + 1 ELSE merged
  BY DEF Ends
<1>5. handling \in BOOLEAN
  BY DEF IInv, TypeOK
<1>6. One(pending') = 1 /\ One(handling') = One(handling)
  BY <1>3 DEF One
<1>7. One(handling) \in Nat /\ merged' + 1 = merged + One(pending) + 1
  BY <1>1, <1>4 DEF One
<1>8. ZombiesBalance'
  <2>1. Cardinality(zombies) = merged + One(pending) + One(handling)
    BY DEF IInv, ZombiesBalance
  <2>2. One(pending) \in Nat /\ merged' \in Nat
    BY <1>1, <1>4 DEF One
  <2>3. Cardinality(zombies') = merged' + 1 + One(handling)
    BY <1>1, <1>2, <1>3, <1>7, <2>1, <2>2
  <2> QED
    BY <1>6, <2>2, <2>3 DEF ZombiesBalance
<1>9. zombies' \subseteq Conns \cup {Nobody}
  BY <1>1, <1>3
<1>10. merged' \in Nat
  BY <1>1, <1>4
<1> QED
  BY <1>3, <1>5, <1>8, <1>9, <1>10

\* The handler is called: the pending signal is the one it handles.
LEMMA DeliverIInv ==
  ASSUME IInv, Deliver, UNCHANGED <<program, parent, child, strLen, storing, net>>
  PROVE  IInv'
<1>1. pending /\ ~handling /\ ~pending' /\ handling' /\ UNCHANGED <<zombies, merged>>
  BY DEF Deliver
<1>2. /\ One(pending) = 1 /\ One(handling) = 0
      /\ One(pending') = 0 /\ One(handling') = 1
  BY <1>1 DEF One
<1>3. ZombiesBalance'
  <2>1. Cardinality(zombies) = merged + 1 + 0 /\ merged \in Nat
    BY <1>2 DEF IInv, ZombiesBalance, TypeOK
  <2>2. Cardinality(zombies') = merged' + 0 + 1
    <3>1. zombies' = zombies /\ merged' = merged
      BY <1>1
    <3> QED
      BY <2>1, <3>1
  <2> QED
    BY <1>2, <2>2 DEF ZombiesBalance
<1>4. pending' \in BOOLEAN /\ handling' \in BOOLEAN
  BY DEF Deliver
<1>5. TypeOK'
  BY <1>1, <1>4 DEF IInv, TypeOK, NetTypeOK, parent, storing, net
<1>6. Dead' /\ Fresh'
  BY <1>1 DEF IInv, Dead, Fresh, parent, storing
<1> QED
  BY <1>3, <1>5, <1>6 DEF IInv

\* The handler finds a zombie and takes it.
LEMMA ReapIInv ==
  ASSUME IInv, Reap, UNCHANGED <<program, parent, child, strLen, storing, net>>
  PROVE  IInv'
<1>1. /\ handling /\ ~handling' /\ UNCHANGED <<pending, merged>>
      /\ merged \in Nat /\ zombies \subseteq Conns \cup {Nobody}
  BY DEF Reap, IInv, TypeOK
<1>2. One(handling) = 1 /\ One(handling') = 0 /\ One(pending) \in Nat
      /\ One(pending') = One(pending)
  BY <1>1 DEF One
<1>3. Cardinality(zombies) = merged + One(pending) + 1
  BY <1>2 DEF IInv, ZombiesBalance
<1>4. zombies # {}
  <2>1. merged \in Nat
    BY <1>1
  <2>2. Cardinality(zombies) # 0
    BY <1>2, <1>3, <2>1
  <2> QED
    BY <2>2, FS_EmptySet
<1>5. PICK p \in zombies : zombies' = zombies \ {p}
  BY <1>4 DEF Reap
<1>6. Cardinality(zombies') = Cardinality(zombies) - 1
  BY <1>1, <1>5, ZombiesFinite, FS_RemoveElement
<1>7. ZombiesBalance'
  <2>1. Cardinality(zombies') = merged + One(pending) + 0
    BY <1>1, <1>2, <1>3, <1>6
  <2> QED
    BY <1>1, <1>2, <2>1 DEF ZombiesBalance
<1>8. pending' \in BOOLEAN /\ handling' \in BOOLEAN
  BY DEF Reap, IInv, TypeOK
<1>9. TypeOK'
  BY <1>1, <1>5, <1>8 DEF IInv, TypeOK, NetTypeOK, parent, storing, net
<1>10. Dead' /\ Fresh'
  BY <1>5 DEF IInv, Dead, Fresh, parent, storing
<1> QED
  BY <1>7, <1>9, <1>10 DEF IInv

----------------------------------------------------------------------------
(***************************************************************************)
(* The connections.                                                        *)
(***************************************************************************)

\* Reading, writing and the clients' steps keep the types of the connections.
LEMMA NetType ==
  ASSUME NetTypeOK, NEW c \in Conns,
         \/ \E n \in 1 .. BUF_SIZE : ReadUnits(c, n)
         \/ ReadReset(c)
         \/ \E n \in Nat : Write(c, n)
         \/ Connect(c) \/ Send(c) \/ Receive(c) \/ HungUp(c) \/ Quit(c)
         \/ UNCHANGED net
  PROVE  NetTypeOK'
<1> USE DEF NetTypeOK
<1>1. CASE \E n \in 1 .. BUF_SIZE : ReadUnits(c, n)
  <2>1. PICK n \in 1 .. BUF_SIZE : ReadUnits(c, n)
    BY <1>1
  <2>2. n \in Nat /\ n <= inbox[c]
    BY <2>1, ForkAssumption DEF ReadUnits
  <2>3. inbox \in [Conns -> Nat] /\ inbox' = [inbox EXCEPT ![c] = @ - n]
    BY <2>1 DEF ReadUnits
  <2>4. inbox' \in [Conns -> Nat]
    BY <2>2, <2>3
  <2> QED
    BY <2>1, <2>4 DEF ReadUnits
<1>2. CASE ReadReset(c)
  BY <1>2 DEF ReadReset
<1>3. CASE \E n \in Nat : Write(c, n)
  <2>1. PICK n \in Nat : Write(c, n)
    BY <1>3
  <2>2. CASE WriteOpen(c, n)
    <3>1. outbox \in [Conns -> Nat] /\ outbox' = [outbox EXCEPT ![c] = @ + n]
      BY <2>2 DEF WriteOpen
    <3>2. outbox' \in [Conns -> Nat]
      BY <3>1
    <3> QED
      BY <2>2, <3>2 DEF WriteOpen
  <2>3. CASE WriteClosed(c) \/ WriteReset(c)
    BY <2>3 DEF WriteClosed, WriteReset
  <2> QED
    BY <2>1, <2>2, <2>3 DEF Write
<1>4. CASE Connect(c) \/ Receive(c) \/ HungUp(c) \/ Quit(c)
  BY <1>4 DEF Connect, Receive, HungUp, Quit
<1>5. CASE Send(c)
  <2>1. PICK n \in 1 .. MaxSent - sent[c] :
          /\ sent' = [sent EXCEPT ![c] = @ + n]
          /\ inbox' = [inbox EXCEPT ![c] = @ + n]
    BY <1>5 DEF Send
  <2>2. n \in Nat
    BY NetAssumption
  <2>3. sent \in [Conns -> Nat] /\ inbox \in [Conns -> Nat]
    OBVIOUS
  <2>4. sent' \in [Conns -> Nat] /\ inbox' \in [Conns -> Nat]
    BY <2>1, <2>2, <2>3
  <2> QED
    BY <1>5, <2>4 DEF Send
<1>6. CASE UNCHANGED net
  BY <1>6 DEF net
<1> QED
  BY <1>1, <1>2, <1>3, <1>4, <1>5, <1>6

----------------------------------------------------------------------------
(***************************************************************************)
(* The parent.                                                             *)
(***************************************************************************)

LEMMA ParentIInv ==
  ASSUME IInv, (\E c \in Conns : Accept(c)) \/ Fork \/ ForkFails \/ Close
  PROVE  IInv'
<1> USE DEF IInv
<1>1. UNCHANGED <<program, strLen, storing, sigchld, net>>
  BY DEF Accept, Fork, ForkFails, Close
<1>2. /\ program' = program /\ strLen' = strLen /\ pipe' = pipe /\ log' = log
      /\ rounds' = rounds /\ zombies' = zombies /\ pending' = pending
      /\ handling' = handling /\ merged' = merged
  BY <1>1 DEF storing, sigchld
<1>3. NetTypeOK'
  BY <1>1 DEF TypeOK, NetTypeOK, net
<1>4. ZombiesBalance'
  BY <1>2 DEF ZombiesBalance
<1>5. ASSUME NEW c \in Conns, Accept(c) PROVE TypeOK' /\ Dead' /\ Fresh'
  <2>1. TypeOK'
    BY <1>2, <1>3, <1>5 DEF Accept, TypeOK
  <2>2. Dead'
    BY <1>2, <1>5 DEF Accept, Dead
  <2>3. Fresh'
    BY <1>5 DEF Accept, Fresh
  <2> QED
    BY <2>1, <2>2, <2>3
<1>6. CASE Fork
  <2>1. child' = [child EXCEPT ![clientSocket] = "read"] /\ server = "fork" /\ server' = "close"
        /\ UNCHANGED <<clientSocket, accepted, failures>>
    BY <1>6 DEF Fork
  <2>2. clientSocket \in Conns /\ child[clientSocket] = "none"
    BY <2>1 DEF Fresh
  <2>3. clientSocket \in accepted
    BY <2>2, ForkAssumption DEF Fresh
  <2>4. child' \in [Conns -> {"none", "read", "write", "store", "done", "killed"}]
    BY <2>1, <2>2 DEF TypeOK
  <2>5. TypeOK'
    BY <1>2, <1>3, <2>1, <2>4 DEF TypeOK
  <2>6. \A c \in Conns : c # clientSocket => child'[c] = child[c]
    BY <2>1 DEF TypeOK
  <2>7. Dead'
    BY <1>2, <2>2, <2>6 DEF Dead
  <2>8. Fresh'
    BY <2>1, <2>3, <2>6 DEF Fresh
  <2> QED
    BY <1>4, <2>5, <2>7, <2>8
<1>7. CASE ForkFails \/ Close
  <2>1. TypeOK'
    BY <1>2, <1>3, <1>7, ForkAssumption DEF ForkFails, Close, TypeOK
  <2>2. Dead'
    BY <1>2, <1>7 DEF ForkFails, Close, Dead
  <2>3. Fresh'
    BY <1>7 DEF ForkFails, Close, Fresh
  <2> QED
    BY <1>4, <2>1, <2>2, <2>3
<1> QED
  BY <1>4, <1>5, <1>6, <1>7

----------------------------------------------------------------------------
(***************************************************************************)
(* The children.                                                           *)
(***************************************************************************)

\* A child that runs on and stays what it is, or goes on to another of its calls.
LEMMA ChildRuns ==
  ASSUME IInv, NEW c \in Conns, TypeOK', UNCHANGED <<parent, rounds, sigchld>>,
         child[c] \in {"read", "write", "store"},
         NEW what \in {"read", "write", "store"},
         child' = [child EXCEPT ![c] = what]
  PROVE  IInv'
<1> USE DEF IInv
<1>1. \A d \in Conns : child'[d] = IF d = c THEN what ELSE child[d]
  BY DEF TypeOK
<1>2. /\ zombies' = zombies /\ pending' = pending /\ handling' = handling /\ merged' = merged
      /\ rounds' = rounds
      /\ server' = server /\ clientSocket' = clientSocket /\ accepted' = accepted
  BY DEF sigchld, parent
<1>3. c \notin zombies /\ c \in accepted /\ (server = "fork" => clientSocket # c)
  BY DEF Dead, Fresh
<1>4. Dead'
  BY <1>1, <1>2, <1>3 DEF Dead
<1>5. Fresh'
  BY <1>1, <1>2, <1>3 DEF Fresh
<1>6. ZombiesBalance'
  BY <1>2 DEF ZombiesBalance
<1> QED
  BY <1>4, <1>5, <1>6

\* A child ends, in order or by SIGPIPE.
LEMMA ChildEnds ==
  ASSUME IInv, NEW c \in Conns, ChildEnd(c) \/ ChildKilled(c)
  PROVE  IInv'
<1> USE DEF IInv
<1>1. PICK how \in {"done", "killed"} : child' = [child EXCEPT ![c] = how]
  BY DEF ChildEnd, ChildKilled
<1>2. /\ Ends(c) /\ child[c] \in {"read", "write"}
      /\ program' = program /\ strLen' \in [Conns -> 0 .. BUF_SIZE]
      /\ UNCHANGED <<parent, storing, net>>
  <2>1. 0 \in 0 .. BUF_SIZE
    BY ForkAssumption
  <2>2. strLen' \in [Conns -> 0 .. BUF_SIZE]
    BY <2>1 DEF ChildEnd, ChildKilled, TypeOK
  <2> QED
    BY <2>2 DEF ChildEnd, ChildKilled
<1>3. c \notin zombies /\ c \in accepted /\ (server = "fork" => clientSocket # c)
  BY <1>2 DEF Dead, Fresh
<1>4. /\ ZombiesBalance'
      /\ zombies' = zombies \cup {c}
      /\ zombies' \subseteq Conns \cup {Nobody}
      /\ pending' \in BOOLEAN /\ handling' \in BOOLEAN
      /\ merged' \in Nat
  BY <1>2, <1>3, EndsBalance
<1>5. \A d \in Conns : child'[d] = IF d = c THEN how ELSE child[d]
  BY <1>1 DEF TypeOK
<1>6. child' \in [Conns -> {"none", "read", "write", "store", "done", "killed"}]
  BY <1>1 DEF TypeOK
<1>7. NetTypeOK'
  BY <1>2 DEF TypeOK, NetTypeOK, net
<1>8. /\ server' = server /\ clientSocket' = clientSocket /\ accepted' = accepted
      /\ failures' = failures /\ pipe' = pipe /\ log' = log /\ rounds' = rounds
  BY <1>2 DEF parent, storing
<1>9. TypeOK'
  BY <1>2, <1>4, <1>6, <1>7, <1>8 DEF TypeOK
<1>10. Dead'
  BY <1>4, <1>5, <1>8, ForkAssumption DEF Dead
<1>11. Fresh'
  BY <1>3, <1>5, <1>8 DEF Fresh
<1> QED
  BY <1>4, <1>9, <1>10, <1>11

\* The types after a read, a write and a write to the pipe.
LEMMA ChildType ==
  ASSUME IInv, NEW c \in Conns,
         ChildRead(c) \/ ChildReadError(c) \/ ChildWrite(c) \/ ChildStore(c)
  PROVE  TypeOK'
<1> USE DEF IInv
<1>1. /\ program' = program /\ UNCHANGED <<parent, log, rounds, sigchld>>
  BY DEF ChildRead, ChildReadError, ChildWrite, ChildStore, storing
<1>2. child' \in [Conns -> {"none", "read", "write", "store", "done", "killed"}]
  BY DEF ChildRead, ChildReadError, ChildWrite, ChildStore, TypeOK
<1>3. strLen' \in [Conns -> 0 .. BUF_SIZE]
  <2>1. PICK n \in 0 .. BUF_SIZE : strLen' = strLen \/ strLen' = [strLen EXCEPT ![c] = n]
    <3>1. 0 \in 0 .. BUF_SIZE /\ \A n \in 1 .. BUF_SIZE : n \in 0 .. BUF_SIZE
      BY ForkAssumption
    <3> QED
      BY <3>1 DEF ChildRead, ChildReadError, ChildWrite, ChildStore
  <2>2. strLen \in [Conns -> 0 .. BUF_SIZE]
    BY DEF TypeOK
  <2> QED
    BY <2>1, <2>2
<1>4. NetTypeOK'
  <2>1. strLen[c] \in Nat
    BY ForkAssumption DEF TypeOK
  <2> QED
    BY <2>1, NetType DEF ChildRead, ChildReadError, ChildWrite, WriteBack, ChildStore, TypeOK
<1>5. pipe' \in Seq(Conns) /\ Len(pipe') <= PIPE_SIZE
  <2>1. CASE ChildStore(c)
    <3>1. /\ pipe' = pipe \o [k \in 1 .. strLen[c] |-> c]
          /\ Len(pipe) + strLen[c] <= PIPE_SIZE
      BY <2>1 DEF ChildStore, Piped
    <3>2. strLen[c] \in Nat /\ pipe \in Seq(Conns)
      BY ForkAssumption DEF TypeOK
    <3>3. /\ [k \in 1 .. strLen[c] |-> c] \in Seq(Conns)
          /\ Len([k \in 1 .. strLen[c] |-> c]) = strLen[c]
      BY <3>2
    <3>4. pipe' \in Seq(Conns) /\ Len(pipe') = Len(pipe) + strLen[c]
      <4> DEFINE s == [k \in 1 .. strLen[c] |-> c]
      <4>1. s \in Seq(Conns) /\ Len(s) = strLen[c] /\ pipe' = pipe \o s /\ pipe \in Seq(Conns)
        BY <3>1, <3>2, <3>3
      <4> HIDE DEF s
      <4> QED
        BY <4>1
    <3> QED
      BY <3>1, <3>4
  <2>2. CASE UNCHANGED pipe
    BY <2>2 DEF TypeOK
  <2> QED
    BY <2>1, <2>2 DEF ChildRead, ChildReadError, ChildWrite, storing
<1>6. /\ server' = server /\ clientSocket' = clientSocket /\ accepted' = accepted
      /\ failures' = failures /\ log' = log /\ rounds' = rounds
      /\ zombies' = zombies /\ merged' = merged
  BY <1>1 DEF parent, sigchld
<1>7. pending' \in BOOLEAN /\ handling' \in BOOLEAN
  BY <1>1 DEF sigchld, TypeOK
<1> QED
  BY <1>1, <1>2, <1>3, <1>4, <1>5, <1>6, <1>7 DEF TypeOK

LEMMA ChildIInv == ASSUME IInv, NEW c \in Conns, Child(c) PROVE IInv'
<1>1. CASE ChildEnd(c) \/ ChildKilled(c)
  BY <1>1, ChildEnds
<1>2. CASE ChildRead(c) \/ ChildReadError(c) \/ ChildWrite(c) \/ ChildStore(c)
  <2>1. TypeOK'
    BY <1>2, ChildType
  <2>2. UNCHANGED <<parent, rounds, sigchld>>
    BY <1>2 DEF ChildRead, ChildReadError, ChildWrite, ChildStore, storing
  <2>3. child \in [Conns -> {"none", "read", "write", "store", "done", "killed"}]
    BY DEF IInv, TypeOK
  <2>4. PICK what \in {"read", "write", "store"} : child' = [child EXCEPT ![c] = what]
    <3>1. CASE ChildReadError(c)
      <4>1. child' = [child EXCEPT ![c] = "read"]
        BY <2>3, <3>1 DEF ChildReadError
      <4> QED
        BY <4>1
    <3> QED
      BY <1>2, <3>1 DEF ChildRead, ChildWrite, ChildStore
  <2>5. child[c] \in {"read", "write", "store"}
    BY <1>2 DEF ChildRead, ChildReadError, ChildWrite, ChildStore
  <2> QED
    BY <2>1, <2>2, <2>4, <2>5, ChildRuns
<1> QED
  BY <1>1, <1>2 DEF Child

\* The storing child reads the pipe, and ends after its last read.
LEMMA StoreIInv == ASSUME IInv, Store PROVE IInv'
<1> USE DEF IInv
<1> DEFINE n == IF Len(pipe) < BUF_SIZE THEN Len(pipe) ELSE BUF_SIZE
<1>1. /\ rounds > 0 /\ rounds' = rounds - 1
      /\ log' = log \o SubSeq(pipe, 1, n)
      /\ pipe' = SubSeq(pipe, n + 1, Len(pipe))
      /\ program' = program /\ child' = child /\ strLen' = strLen
      /\ UNCHANGED <<parent, net>>
      /\ IF rounds = 1 THEN Ends(Nobody) ELSE UNCHANGED sigchld
  BY DEF Store
<1>2. /\ pipe \in Seq(Conns) /\ log \in Seq(Conns) /\ Len(pipe) <= PIPE_SIZE
      /\ n \in Nat /\ n <= Len(pipe) /\ rounds \in 0 .. Rounds
  BY ForkAssumption DEF TypeOK
<1>3. SubSeq(pipe, 1, n) \in Seq(Conns)
  BY <1>2
<1>4. pipe' \in Seq(Conns) /\ Len(pipe') = Len(pipe) - n
  <2>1. ASSUME NEW m \in Nat, m <= Len(pipe)
        PROVE  /\ SubSeq(pipe, m + 1, Len(pipe)) \in Seq(Conns)
               /\ Len(SubSeq(pipe, m + 1, Len(pipe))) = Len(pipe) - m
    BY <1>2, <2>1
  <2> HIDE DEF n
  <2> QED
    BY <1>1, <1>2, <2>1
<1>5. log' \in Seq(Conns) /\ Len(pipe') <= PIPE_SIZE /\ rounds' \in 0 .. Rounds
  <2> HIDE DEF n
  <2>1. log' \in Seq(Conns)
    BY <1>1, <1>2, <1>3
  <2>2. Len(pipe') <= PIPE_SIZE
    BY <1>2, <1>4, ForkAssumption
  <2>3. rounds' \in 0 .. Rounds
    BY <1>1, <1>2, ForkAssumption
  <2> QED
    BY <2>1, <2>2, <2>3
<1>6. /\ server' = server /\ clientSocket' = clientSocket /\ accepted' = accepted
      /\ failures' = failures
  BY <1>1 DEF parent
<1>7. NetTypeOK'
  BY <1>1 DEF TypeOK, NetTypeOK, net
<1>8. Fresh'
  BY <1>1, <1>6 DEF Fresh
<1>9. /\ ZombiesBalance'
      /\ zombies' = zombies \/ (rounds' = 0 /\ zombies' = zombies \cup {Nobody})
      /\ zombies' \subseteq Conns \cup {Nobody}
      /\ pending' \in BOOLEAN /\ handling' \in BOOLEAN
      /\ merged' \in Nat
  <2>1. CASE rounds = 1
    <3>1. Nobody \notin zombies
      BY <2>1 DEF Dead
    <3> QED
      BY <1>1, <2>1, <3>1, EndsBalance
  <2>2. CASE rounds # 1
    BY <1>1, <2>2 DEF sigchld, TypeOK, ZombiesBalance
  <2> QED
    BY <2>1, <2>2
<1>10. Dead'
  <2>1. Nobody \notin zombies
    BY <1>1 DEF Dead
  <2> QED
    BY <1>1, <1>9, <2>1, ForkAssumption DEF Dead
<1>11. TypeOK'
  BY <1>1, <1>4, <1>5, <1>6, <1>7, <1>9 DEF TypeOK
<1> QED
  BY <1>8, <1>9, <1>10, <1>11

\* The clients' steps only concern the connections.
LEMMA ClientIInv == ASSUME IInv, NEW c \in Conns, Client(c) PROVE IInv'
<1> USE DEF IInv
<1>1. NetTypeOK'
  BY NetType DEF Client, TypeOK
<1>2. program' = program /\ child' = child /\ strLen' = strLen /\ UNCHANGED <<parent, storing, sigchld>>
  BY DEF Client
<1>3. /\ TypeOK' /\ Dead' /\ Fresh'
  BY <1>1, <1>2 DEF TypeOK, Dead, Fresh, parent, storing, sigchld
<1>4. ZombiesBalance'
  BY <1>2 DEF ZombiesBalance, sigchld
<1> QED
  BY <1>3, <1>4

----------------------------------------------------------------------------
(***************************************************************************)
(* The theorems.                                                           *)
(***************************************************************************)

\* Every reachable state of the servers satisfies the inductive invariant.
THEOREM Invariance == Spec => []IInv
<1>1. IInv /\ [Next]_vars => IInv'
  <2> SUFFICES ASSUME IInv, [Next]_vars PROVE IInv'
    OBVIOUS
  <2>1. CASE Parent
    BY <2>1, ParentIInv, DeliverIInv, ReapIInv DEF Parent, Handler
  <2>2. CASE ForkFails
    BY <2>2, ParentIInv
  <2>3. CASE Store
    BY <2>3, StoreIInv
  <2>4. CASE \E c \in Conns : Child(c) \/ Client(c)
    BY <2>4, ChildIInv, ClientIInv
  <2>5. CASE UNCHANGED vars
    <3>1. NetTypeOK'
      BY <2>5 DEF vars, net, IInv, TypeOK, NetTypeOK
    <3>2. TypeOK' /\ Dead' /\ Fresh'
      BY <2>5, <3>1 DEF vars, parent, storing, sigchld, IInv, TypeOK, Dead, Fresh
    <3>3. ZombiesBalance'
      BY <2>5 DEF vars, sigchld, IInv, ZombiesBalance
    <3> QED
      BY <3>2, <3>3 DEF IInv
  <2> QED
    BY <2>1, <2>2, <2>3, <2>4, <2>5 DEF Next
<1> QED
  BY <1>1, InitIInv, PTL DEF Spec

\* Every variable keeps its type; in particular the pipe never holds more than its size.
THEOREM TypeCorrect == Spec => []TypeOK
<1>1. IInv => TypeOK
  BY DEF IInv
<1> QED
  BY <1>1, Invariance, PTL

\* The children not waited for are as many as signals merged, are pending or being handled.
THEOREM BalanceCorrect == Spec => []ZombiesBalance
<1>1. IInv => ZombiesBalance
  BY DEF IInv
<1> QED
  BY <1>1, Invariance, PTL

\* Whenever the handler runs there is a child to wait for, so it never reads a status that
\* waitpid() did not set.
THEOREM HandlerNotInVain == Spec => []StatusIsSet
<1>1. ASSUME IInv PROVE StatusIsSet
  <2>1. One(handling) = 1 => Cardinality(zombies) # 0
    <3>1. One(pending) \in Nat /\ merged \in Nat
      BY <1>1 DEF One, IInv, TypeOK
    <3>2. Cardinality(zombies) = merged + One(pending) + One(handling)
      BY <1>1 DEF IInv, ZombiesBalance
    <3> QED
      BY <3>1, <3>2
  <2>2. handling => One(handling) = 1
    BY DEF One
  <2>3. zombies = {} => Cardinality(zombies) = 0
    BY FS_EmptySet
  <2> QED
    BY <2>1, <2>2, <2>3 DEF StatusIsSet
<1> QED
  BY <1>1, Invariance, PTL

----------------------------------------------------------------------------
(***************************************************************************)
(* Units in sequences.                                                     *)
(***************************************************************************)

LEMMA UnitsFinite ==
  ASSUME NEW s \in Seq(Conns), NEW c
  PROVE  /\ IsFiniteSet({k \in DOMAIN s : s[k] = c})
         /\ UnitsOf(s, c) \in Nat
<1>1. IsFiniteSet(1 .. Len(s)) /\ DOMAIN s = 1 .. Len(s)
  BY FS_Interval
<1>2. {k \in DOMAIN s : s[k] = c} \in SUBSET (1 .. Len(s))
  BY <1>1
<1> QED
  BY <1>1, <1>2, FS_Subset, FS_CardinalityType DEF UnitsOf

\* What two sequences hold, one after the other.
LEMMA UnitsAppended ==
  ASSUME NEW s \in Seq(Conns), NEW t \in Seq(Conns), NEW c
  PROVE  UnitsOf(s \o t, c) = UnitsOf(s, c) + UnitsOf(t, c)
<1> DEFINE S == {k \in DOMAIN s : s[k] = c}
           T == {k \in DOMAIN t : t[k] = c}
           U == {k \in DOMAIN (s \o t) : (s \o t)[k] = c}
           V == {k \in Len(s) + 1 .. Len(s) + Len(t) : t[k - Len(s)] = c}
           f == [k \in T |-> k + Len(s)]
<1>1. /\ Len(s) \in Nat /\ Len(t) \in Nat
      /\ DOMAIN s = 1 .. Len(s) /\ DOMAIN t = 1 .. Len(t)
      /\ DOMAIN (s \o t) = 1 .. Len(s) + Len(t)
      /\ \A k \in 1 .. Len(s) + Len(t) :
           (s \o t)[k] = IF k <= Len(s) THEN s[k] ELSE t[k - Len(s)]
  OBVIOUS
<1>2. U = S \cup V /\ S \cap V = {}
  BY <1>1
<1>3. f \in Bijection(T, V)
  <2>1. \A k \in T : k + Len(s) \in V
    BY <1>1
  <2>2. \A k \in V : k - Len(s) \in T /\ f[k - Len(s)] = k
    BY <1>1
  <2>3. f \in [T -> V]
    BY <2>1
  <2>4. \A j, k \in T : f[j] = f[k] => j = k
    BY <1>1
  <2>5. f \in Injection(T, V)
    BY <2>3, <2>4 DEF Injection, IsInjective
  <2>6. f \in Surjection(T, V)
    BY <2>2, <2>3 DEF Surjection
  <2> QED
    BY <2>5, <2>6 DEF Bijection
<1>4. IsFiniteSet(S) /\ IsFiniteSet(T) /\ Cardinality(S) \in Nat /\ Cardinality(T) \in Nat
  BY UnitsFinite DEF UnitsOf
<1>5. IsFiniteSet(V) /\ Cardinality(V) = Cardinality(T)
  BY <1>3, <1>4, FS_Bijection DEF ExistsBijection
<1>6. Cardinality(U) = Cardinality(S) + Cardinality(V) - Cardinality(S \cap V)
  BY <1>2, <1>4, <1>5, FS_Union
<1>7. Cardinality(S \cap V) = 0
  BY <1>2, FS_EmptySet
<1>8. /\ UnitsOf(s \o t, c) = Cardinality(U)
      /\ UnitsOf(s, c) = Cardinality(S)
      /\ UnitsOf(t, c) = Cardinality(T)
  BY DEF UnitsOf
<1> HIDE DEF S, T, U, V, f
<1> QED
  BY <1>4, <1>5, <1>6, <1>7, <1>8

\* n units of one connection.
LEMMA UnitsRepeated ==
  ASSUME NEW c \in Conns, NEW n \in Nat, NEW d
  PROVE  UnitsOf([k \in 1 .. n |-> c], d) = IF d = c THEN n ELSE 0
<1> DEFINE s == [k \in 1 .. n |-> c]
<1>1. {k \in DOMAIN s : s[k] = d} = IF d = c THEN 1 .. n ELSE {}
  OBVIOUS
<1>2. Cardinality(1 .. n) = n /\ Cardinality({}) = 0
  BY FS_Interval, FS_EmptySet
<1> QED
  BY <1>1, <1>2 DEF UnitsOf

\* A sequence is its first n elements and the rest.
LEMMA Divided ==
  ASSUME NEW s \in Seq(Conns), NEW n \in Nat, n <= Len(s)
  PROVE  /\ SubSeq(s, 1, n) \in Seq(Conns)
         /\ SubSeq(s, n + 1, Len(s)) \in Seq(Conns)
         /\ s = SubSeq(s, 1, n) \o SubSeq(s, n + 1, Len(s))
<1> DEFINE a == SubSeq(s, 1, n)
           b == SubSeq(s, n + 1, Len(s))
<1>1. a \in Seq(Conns) /\ b \in Seq(Conns)
  OBVIOUS
<1>2. Len(a) = n /\ Len(b) = Len(s) - n /\ Len(s) \in Nat
  OBVIOUS
<1>3. \A k \in 1 .. n : a[k] = s[k]
  OBVIOUS
<1>4. \A k \in 1 .. Len(s) - n : b[k] = s[n + k]
  OBVIOUS
<1> HIDE DEF a, b
<1>5. a \o b \in Seq(Conns) /\ Len(a \o b) = Len(s)
  BY <1>1, <1>2
<1>6. \A k \in 1 .. Len(s) : (a \o b)[k] = s[k]
  <2> SUFFICES ASSUME NEW k \in 1 .. Len(s) PROVE (a \o b)[k] = s[k]
    OBVIOUS
  <2>1. CASE k <= n
    BY <1>1, <1>2, <1>3, <2>1
  <2>2. CASE k > n
    <3>1. (a \o b)[k] = b[k - n]
      BY <1>1, <1>2, <2>2
    <3>2. k - n \in 1 .. Len(s) - n /\ n + (k - n) = k
      BY <2>2
    <3> QED
      BY <1>4, <3>1, <3>2
  <2> QED
    BY <1>2, <2>1, <2>2
<1>7. s = a \o b
  BY <1>5, <1>6, SeqEqual
<1> QED
  BY <1>1, <1>7 DEF a, b

----------------------------------------------------------------------------
(***************************************************************************)
(* What becomes of the units.                                              *)
(***************************************************************************)

\* A child that has read has something in its hands until it is done with it.
Held ==
  \A c \in Conns :
    IF child[c] \in {"write", "store"} THEN strLen[c] > 0 ELSE strLen[c] = 0

\* A step after which the same units are missing of each connection, of which no more were
\* killed.
LEMMA MissingKept ==
  ASSUME StoredOnce, program' = program,
         \A c \in Conns : /\ Stores => Missing(c)' = Missing(c)
                          /\ child'[c] = "killed" <=> child[c] = "killed"
  PROVE  StoredOnce'
BY DEF StoredOnce, Stores

LEMMA StoredFrame ==
  ASSUME StoredOnce, Held, UNCHANGED <<program, log, pipe, strLen, sent, inbox>>,
         \A c \in Conns : /\ child'[c] \in {"write", "store"} <=> child[c] \in {"write", "store"}
                          /\ child'[c] = "killed" <=> child[c] = "killed"
  PROVE  StoredOnce' /\ Held'
<1>1. \A c \in Conns : Missing(c)' = Missing(c)
  BY DEF Missing, UnitsOf
<1>2. StoredOnce'
  BY <1>1, MissingKept
<1>3. Held'
  BY DEF Held
<1> QED
  BY <1>2, <1>3

\* Everything but reading, writing on, storing and being killed leaves the units where they are.
LEMMA OthersStore ==
  ASSUME IInv, StoredOnce, Held,
         \/ \E c \in Conns : Accept(c) \/ ChildReadError(c) \/ ChildEnd(c)
         \/ Fork \/ ForkFails \/ Close \/ Handler \/ UNCHANGED vars
  PROVE  StoredOnce' /\ Held'
<1>1. UNCHANGED <<program, log, pipe, strLen, sent, inbox>>
  BY DEF Accept, Fork, ForkFails, Close, Handler, ChildReadError, ChildEnd,
         vars, storing, net, ReadReset
<1>2. \A c \in Conns : /\ child'[c] \in {"write", "store"} <=> child[c] \in {"write", "store"}
                       /\ child'[c] = "killed" <=> child[c] = "killed"
  <2>1. CASE Fork
    <3>1. clientSocket \in Conns /\ child[clientSocket] = "none"
      BY <2>1 DEF Fork, IInv, Fresh
    <3> QED
      BY <2>1, <3>1 DEF Fork, IInv, TypeOK
  <2>2. ASSUME NEW c \in Conns, ChildEnd(c)
        PROVE  \A d \in Conns :
                 /\ child'[d] \in {"write", "store"} <=> child[d] \in {"write", "store"}
                 /\ child'[d] = "killed" <=> child[d] = "killed"
    BY <2>2 DEF ChildEnd, IInv, TypeOK
  <2>3. CASE (\E c \in Conns : Accept(c) \/ ChildReadError(c)) \/ ForkFails \/ Close \/ Handler
             \/ UNCHANGED vars
    BY <2>3 DEF Accept, ChildReadError, ForkFails, Close, Handler, vars
  <2> QED
    BY <2>1, <2>2, <2>3
<1> QED
  BY <1>1, <1>2, StoredFrame

\* A killed child takes with it what it had read last.
LEMMA KilledStores ==
  ASSUME IInv, StoredOnce, Held, NEW c \in Conns, ChildKilled(c)
  PROVE  StoredOnce' /\ Held'
<1>1. /\ UNCHANGED <<program, log, pipe, sent, inbox>>
      /\ child[c] = "write" /\ child' = [child EXCEPT ![c] = "killed"]
      /\ strLen' = [strLen EXCEPT ![c] = 0]
  BY DEF ChildKilled, storing, net
<1>2. /\ sent \in [Conns -> Nat] /\ inbox \in [Conns -> Nat]
      /\ strLen \in [Conns -> 0 .. BUF_SIZE] /\ BUF_SIZE \in Nat
      /\ child \in [Conns -> {"none", "read", "write", "store", "done", "killed"}]
      /\ pipe \in Seq(Conns) /\ log \in Seq(Conns)
  BY ForkAssumption DEF IInv, TypeOK, NetTypeOK
<1>3. UnitsOf(log, c) \in Nat /\ UnitsOf(pipe, c) \in Nat
  BY <1>2, UnitsFinite
<1>4. ASSUME Stores PROVE Missing(c)' \in 1 .. BUF_SIZE
  <2>1. Missing(c) = 0 /\ strLen[c] > 0 /\ strLen[c] \in 0 .. BUF_SIZE
    BY <1>1, <1>2, <1>4 DEF StoredOnce, Held
  <2>2. Missing(c) = sent[c] - inbox[c] - (UnitsOf(log, c) + UnitsOf(pipe, c) + strLen[c])
    BY DEF Missing
  <2>3. Missing(c)' = sent[c] - inbox[c] - (UnitsOf(log, c) + UnitsOf(pipe, c) + 0)
    <3>1. UnitsOf(log, c)' = UnitsOf(log, c) /\ UnitsOf(pipe, c)' = UnitsOf(pipe, c)
      BY <1>1 DEF UnitsOf
    <3>2. strLen'[c] = 0
      BY <1>1, <1>2
    <3> QED
      BY <1>1, <3>1, <3>2 DEF Missing
  <2>4. sent[c] \in Nat /\ inbox[c] \in Nat /\ strLen[c] \in Nat
    BY <1>2
  <2> QED
    BY <1>2, <1>3, <2>1, <2>2, <2>3, <2>4
<1>5. ASSUME NEW d \in Conns, d # c PROVE Missing(d)' = Missing(d) /\ child'[d] = child[d]
  <2>1. UnitsOf(log, d)' = UnitsOf(log, d) /\ UnitsOf(pipe, d)' = UnitsOf(pipe, d)
    BY <1>1 DEF UnitsOf
  <2> QED
    BY <1>1, <1>2, <1>5, <2>1 DEF Missing
<1>6. child'[c] = "killed"
  BY <1>1, <1>2
<1>7. StoredOnce'
  BY <1>1, <1>4, <1>5, <1>6 DEF StoredOnce, Stores
<1>8. Held'
  BY <1>1, <1>2 DEF Held
<1> QED
  BY <1>7, <1>8

\* The client sends: the units wait in the inbox.
LEMMA ClientStores ==
  ASSUME IInv, StoredOnce, Held, NEW c \in Conns, Client(c)
  PROVE  StoredOnce' /\ Held'
<1>1. UNCHANGED <<program, log, pipe, strLen, child>>
  BY DEF Client, storing
<1>2. sent \in [Conns -> Nat] /\ inbox \in [Conns -> Nat]
  BY DEF IInv, TypeOK, NetTypeOK
<1>3. \A d \in Conns : sent'[d] - inbox'[d] = sent[d] - inbox[d]
  <2>1. CASE Send(c)
    <3>1. PICK n \in 1 .. MaxSent - sent[c] :
            /\ sent' = [sent EXCEPT ![c] = sent[c] + n]
            /\ inbox' = [inbox EXCEPT ![c] = inbox[c] + n]
      BY <2>1 DEF Send
    <3>2. n \in Nat
      BY <1>2, NetAssumption
    <3> QED
      BY <1>2, <3>1, <3>2
  <2>2. CASE ~Send(c)
    BY <2>2 DEF Client, Connect, Receive, HungUp, Quit
  <2> QED
    BY <2>1, <2>2
<1>4. \A d \in Conns : Missing(d)' = Missing(d)
  BY <1>1, <1>3 DEF Missing, UnitsOf
<1>5. StoredOnce'
  BY <1>1, <1>4, MissingKept
<1> QED
  BY <1>1, <1>5 DEF Held

\* The child takes units into its hands, and writes them back.
LEMMA ChildTakes ==
  ASSUME IInv, StoredOnce, Held, NEW c \in Conns, ChildRead(c)
  PROVE  StoredOnce' /\ Held'
<1>1. /\ sent \in [Conns -> Nat] /\ inbox \in [Conns -> Nat]
      /\ strLen \in [Conns -> 0 .. BUF_SIZE]
      /\ child \in [Conns -> {"none", "read", "write", "store", "done", "killed"}]
      /\ BUF_SIZE \in Nat /\ pipe \in Seq(Conns) /\ log \in Seq(Conns)
  BY ForkAssumption DEF IInv, TypeOK, NetTypeOK
<1>2. PICK n \in 1 .. BUF_SIZE : ReadUnits(c, n) /\ strLen' = [strLen EXCEPT ![c] = n]
  BY DEF ChildRead
<1>3. /\ inbox' = [inbox EXCEPT ![c] = inbox[c] - n] /\ sent' = sent
      /\ n \in Nat /\ n > 0
  BY <1>1, <1>2 DEF ReadUnits
<1>4. strLen[c] = 0 /\ child[c] = "read" /\ child' = [child EXCEPT ![c] = "write"]
  BY DEF ChildRead, Held
<1>5. UNCHANGED <<program, log, pipe>>
  BY DEF ChildRead, storing
<1>6. ASSUME NEW d \in Conns PROVE Missing(d)' = Missing(d)
  <2>1. /\ UnitsOf(log, d)' = UnitsOf(log, d) /\ UnitsOf(pipe, d)' = UnitsOf(pipe, d)
        /\ UnitsOf(log, d) \in Nat /\ UnitsOf(pipe, d) \in Nat
    BY <1>1, <1>5, UnitsFinite DEF UnitsOf
  <2>2. sent'[d] - inbox'[d] - strLen'[d] = sent[d] - inbox[d] - strLen[d]
    <3>1. CASE d = c
      BY <1>1, <1>2, <1>3, <1>4, <3>1
    <3>2. CASE d # c
      BY <1>1, <1>2, <1>3, <3>2
    <3> QED
      BY <3>1, <3>2
  <2>3. /\ sent'[d] \in Int /\ inbox'[d] \in Int /\ strLen'[d] \in Int
        /\ sent[d] \in Int /\ inbox[d] \in Int /\ strLen[d] \in Int
    BY <1>1, <1>2, <1>3
  <2>4. Missing(d)' = sent'[d] - inbox'[d] - (UnitsOf(log, d) + UnitsOf(pipe, d) + strLen'[d])
    BY <2>1 DEF Missing
  <2>5. Missing(d) = sent[d] - inbox[d] - (UnitsOf(log, d) + UnitsOf(pipe, d) + strLen[d])
    BY DEF Missing
  <2> QED
    BY <2>1, <2>2, <2>3, <2>4, <2>5
<1>7. \A d \in Conns : child'[d] = "killed" <=> child[d] = "killed"
  BY <1>1, <1>4
<1>8. StoredOnce'
  BY <1>5, <1>6, <1>7, MissingKept
<1>9. Held'
  BY <1>1, <1>2, <1>3, <1>4 DEF Held
<1> QED
  BY <1>8, <1>9

\* The child echoes what it holds, and keeps it if it is to be stored.
LEMMA ChildWrites ==
  ASSUME IInv, StoredOnce, Held, NEW c \in Conns, ChildWrite(c)
  PROVE  StoredOnce' /\ Held'
<1>1. /\ strLen \in [Conns -> 0 .. BUF_SIZE]
      /\ child \in [Conns -> {"none", "read", "write", "store", "done", "killed"}]
  BY DEF IInv, TypeOK
<1>2. /\ UNCHANGED <<program, log, pipe, sent, inbox>>
      /\ child[c] = "write"
      /\ child' = [child EXCEPT ![c] = IF Stores THEN "store" ELSE "read"]
      /\ strLen' = IF Stores THEN strLen ELSE [strLen EXCEPT ![c] = 0]
  BY DEF ChildWrite, storing, WriteBack, Write, WriteOpen, WriteClosed, WriteReset
<1>3. \A d \in Conns : child'[d] = "killed" <=> child[d] = "killed"
  BY <1>1, <1>2
<1>4. ASSUME Stores PROVE \A d \in Conns : Missing(d)' = Missing(d)
  BY <1>2, <1>4 DEF Missing, UnitsOf
<1>5. StoredOnce'
  BY <1>2, <1>3, <1>4, MissingKept
<1>6. Held'
  BY <1>1, <1>2 DEF Held
<1> QED
  BY <1>5, <1>6

\* The child hands what it holds to the pipe.
LEMMA ChildStores ==
  ASSUME IInv, StoredOnce, Held, NEW c \in Conns, ChildStore(c)
  PROVE  StoredOnce' /\ Held'
<1> DEFINE s == [k \in 1 .. strLen[c] |-> c]
<1>1. /\ strLen \in [Conns -> 0 .. BUF_SIZE] /\ BUF_SIZE \in Nat
      /\ child \in [Conns -> {"none", "read", "write", "store", "done", "killed"}]
      /\ pipe \in Seq(Conns) /\ log \in Seq(Conns)
  BY ForkAssumption DEF IInv, TypeOK
<1>2. /\ UNCHANGED <<program, log, sent, inbox>>
      /\ pipe' = pipe \o s
      /\ strLen' = [strLen EXCEPT ![c] = 0]
      /\ child' = [child EXCEPT ![c] = "read"]
  BY DEF ChildStore, Piped, net
<1>3. s \in Seq(Conns) /\ strLen[c] \in Nat
  BY <1>1
<1>4. ASSUME NEW d \in Conns
      PROVE  /\ UnitsOf(pipe', d) = UnitsOf(pipe, d) + IF d = c THEN strLen[c] ELSE 0
             /\ UnitsOf(pipe, d) \in Nat /\ UnitsOf(log, d) \in Nat
  <2>1. UnitsOf(s, d) = IF d = c THEN strLen[c] ELSE 0
    BY <1>3, UnitsRepeated
  <2>2. UnitsOf(pipe \o s, d) = UnitsOf(pipe, d) + UnitsOf(s, d)
    BY <1>1, <1>3, UnitsAppended
  <2> QED
    BY <1>1, <1>2, <2>1, <2>2, UnitsFinite
<1>5. ASSUME NEW d \in Conns PROVE Missing(d)' = Missing(d)
  <2> HIDE DEF s
  <2>1. UnitsOf(log, d)' = UnitsOf(log, d)
    BY <1>2 DEF UnitsOf
  <2>2. UnitsOf(pipe, d)' = UnitsOf(pipe', d)
    BY DEF UnitsOf
  <2>3. strLen'[d] = IF d = c THEN 0 ELSE strLen[d]
    BY <1>1, <1>2
  <2>4. UnitsOf(log, d) + UnitsOf(pipe', d) + strLen'[d]
          = UnitsOf(log, d) + UnitsOf(pipe, d) + strLen[d]
    <3>1. strLen[d] \in Nat /\ UnitsOf(pipe, d) \in Nat /\ UnitsOf(log, d) \in Nat
      BY <1>1, <1>4
    <3>2. CASE d = c
      <4>1. UnitsOf(pipe', d) = UnitsOf(pipe, d) + strLen[d] /\ strLen'[d] = 0
        BY <1>4, <2>3, <3>2
      <4> QED
        BY <3>1, <4>1
    <3>3. CASE d # c
      <4>1. UnitsOf(pipe', d) = UnitsOf(pipe, d) + 0 /\ strLen'[d] = strLen[d]
        BY <1>4, <2>3, <3>3
      <4> QED
        BY <3>1, <4>1
    <3> QED
      BY <3>2, <3>3
  <2> QED
    BY <1>2, <2>1, <2>2, <2>4 DEF Missing
<1>6. \A d \in Conns : child'[d] = "killed" <=> child[d] = "killed"
  BY <1>1, <1>2 DEF ChildStore
<1>7. StoredOnce'
  BY <1>2, <1>5, <1>6, MissingKept
<1>8. Held'
  BY <1>1, <1>2 DEF Held
<1> QED
  BY <1>7, <1>8

\* The storing child moves units from the pipe to the file.
LEMMA StoreStores ==
  ASSUME IInv, StoredOnce, Held, Store
  PROVE  StoredOnce' /\ Held'
<1>1. /\ pipe \in Seq(Conns) /\ log \in Seq(Conns)
      /\ BUF_SIZE \in Nat
  BY ForkAssumption DEF IInv, TypeOK
<1>2. PICK n \in Nat : /\ n <= Len(pipe)
                       /\ log' = log \o SubSeq(pipe, 1, n)
                       /\ pipe' = SubSeq(pipe, n + 1, Len(pipe))
  <2> DEFINE m == IF Len(pipe) < BUF_SIZE THEN Len(pipe) ELSE BUF_SIZE
  <2>1. m \in Nat /\ m <= Len(pipe)
    BY <1>1
  <2> QED
    BY <2>1 DEF Store
<1>3. UNCHANGED <<program, child, strLen, sent, inbox>>
  BY DEF Store, net
<1> DEFINE a == SubSeq(pipe, 1, n)
<1>4. a \in Seq(Conns) /\ pipe' \in Seq(Conns) /\ pipe = a \o pipe' /\ log' = log \o a
  BY <1>1, <1>2, Divided
<1> HIDE DEF a
<1>5. ASSUME NEW d \in Conns
      PROVE  UnitsOf(log', d) + UnitsOf(pipe', d) = UnitsOf(log, d) + UnitsOf(pipe, d)
  <2>1. UnitsOf(pipe, d) = UnitsOf(a, d) + UnitsOf(pipe', d)
    BY <1>4, UnitsAppended
  <2>2. UnitsOf(log', d) = UnitsOf(log, d) + UnitsOf(a, d)
    BY <1>1, <1>4, UnitsAppended
  <2>3. /\ UnitsOf(a, d) \in Nat /\ UnitsOf(pipe', d) \in Nat /\ UnitsOf(log, d) \in Nat
    BY <1>1, <1>4, UnitsFinite
  <2> QED
    BY <2>1, <2>2, <2>3
<1>6. ASSUME NEW d \in Conns PROVE Missing(d)' = Missing(d)
  <2>1. UnitsOf(log, d)' = UnitsOf(log', d) /\ UnitsOf(pipe, d)' = UnitsOf(pipe', d)
    BY DEF UnitsOf
  <2> QED
    BY <1>3, <1>5, <2>1 DEF Missing
<1>7. StoredOnce'
  BY <1>3, <1>6, MissingKept
<1> QED
  BY <1>3, <1>7 DEF Held

\* What was read from a client is in the file, in the pipe or in the hands of its child, and
\* in one place only: the children that share the pipe lose nothing and repeat nothing, but for
\* the last read of a child that SIGPIPE killed, which is lost.
THEOREM StoreCorrect == Spec => []StoredOnce
<1> DEFINE Inv == StoredOnce /\ Held
<1>1. Init => Inv
  <2> SUFFICES ASSUME Init PROVE Inv
    OBVIOUS
  <2>1. \A c : UnitsOf(<<>>, c) = 0
    <3>1. \A c : {k \in DOMAIN <<>> : <<>>[k] = c} = {}
      OBVIOUS
    <3> QED
      BY <3>1, FS_EmptySet DEF UnitsOf
  <2> QED
    BY <2>1 DEF Init, NetInit, StoredOnce, Held, Missing
<1>2. Inv /\ IInv /\ [Next]_vars => Inv'
  <2> SUFFICES ASSUME StoredOnce, Held, IInv, [Next]_vars PROVE Inv'
    OBVIOUS
  <2> QED
    BY OthersStore, KilledStores, ClientStores, ChildTakes, ChildWrites, ChildStores,
       StoreStores DEF Next, Parent, Child
<1>3. Inv => StoredOnce
  OBVIOUS
<1> HIDE DEF Inv
<1> QED
  BY <1>1, <1>2, <1>3, Invariance, PTL DEF Spec

----------------------------------------------------------------------------
(***************************************************************************)
(* The servers as echo services.                                           *)
(***************************************************************************)

\* Connections that fork() failed for, whether or not the parent has closed them yet.
Refused == {c \in accepted : child[c] = "none" /\ ~(server = "fork" /\ clientSocket = c)}

\* Connections are accepted after the client connected, and nothing is read before there is a
\* child.  Children end in order only after the client left and all it sent was read, and are
\* killed with something they had read after the client left.
Served(c) ==
  /\ c \in accepted => peer[c] # "none"
  /\ inbox[c] <= sent[c]
  /\ child[c] = "none" => inbox[c] = sent[c]
  /\ child[c] \in {"write", "killed"} => inbox[c] < sent[c]
  /\ child[c] = "done" => inbox[c] = 0 /\ peer[c] \in {"fin", "broken"}
  /\ child[c] = "killed" => peer[c] \in {"reset", "broken"}

Finished ==
  /\ \A c \in Conns : Served(c)
  /\ server = "accept" => clientSocket = Nobody
  /\ Cardinality(Refused) <= failures

\* A child's call changes its own connection only, which stays one that was made.
LEMMA ChildCalls ==
  ASSUME IInv, NEW c \in Conns, ChildRead(c) \/ ChildReadError(c) \/ ChildWrite(c)
  PROVE  /\ \A d \in Conns : d # c => peer'[d] = peer[d] /\ inbox'[d] = inbox[d]
         /\ peer'[c] \in {"none", "up"} <=> peer[c] \in {"none", "up"}
         /\ peer'[c] \in {"none", "up"} => peer'[c] = peer[c]
         /\ inbox'[c] <= inbox[c] /\ sent' = sent
         /\ child[c] \in {"read", "write"}
         /\ child'[c] \in {"read", "write", "store"}
         /\ \A d \in Conns : d # c => child'[d] = child[d]
         /\ UNCHANGED <<program, parent>>
<1>1. /\ peer \in [Conns -> {"none", "up", "fin", "reset", "broken"}]
      /\ inbox \in [Conns -> Nat]
      /\ child \in [Conns -> {"none", "read", "write", "store", "done", "killed"}]
  BY DEF IInv, TypeOK, NetTypeOK
<1>2. CASE ChildRead(c)
  <2>1. PICK n \in 1 .. BUF_SIZE : ReadUnits(c, n)
    BY <1>2 DEF ChildRead
  <2>2. /\ n \in Nat /\ inbox' = [inbox EXCEPT ![c] = inbox[c] - n]
        /\ peer' = peer /\ sent' = sent
    BY <2>1, ForkAssumption DEF ReadUnits
  <2>3. inbox'[c] <= inbox[c] /\ \A d \in Conns : d # c => inbox'[d] = inbox[d]
    BY <1>1, <2>2
  <2> QED
    BY <1>1, <1>2, <2>2, <2>3 DEF ChildRead
<1>3. CASE ChildReadError(c)
  BY <1>1, <1>3 DEF ChildReadError, ReadReset
<1>4. CASE ChildWrite(c)
  BY <1>1, <1>4 DEF ChildWrite, WriteBack, Write, WriteOpen, WriteClosed, WriteReset
<1> QED
  BY <1>2, <1>3, <1>4

\* A client that is not connected, or is connected, moves on: no child of its connection has
\* ended in order.
LEMMA ClientCalls ==
  ASSUME IInv, NEW c \in Conns, Client(c)
  PROVE  /\ \A d \in Conns : d # c => /\ peer'[d] = peer[d] /\ inbox'[d] = inbox[d]
                                     /\ sent'[d] = sent[d]
         /\ \/ peer[c] \in {"none", "up"} /\ peer'[c] # "none"
            \/ UNCHANGED <<peer, inbox, sent>>
         /\ sent'[c] - inbox'[c] = sent[c] - inbox[c]
         /\ UNCHANGED <<program, child, parent>>
<1>1. /\ peer \in [Conns -> {"none", "up", "fin", "reset", "broken"}]
      /\ inbox \in [Conns -> Nat] /\ sent \in [Conns -> Nat] /\ outbox \in [Conns -> Nat]
  BY DEF IInv, TypeOK, NetTypeOK
<1>2. CASE Send(c)
  <2>1. PICK n \in 1 .. MaxSent - sent[c] :
          /\ sent' = [sent EXCEPT ![c] = sent[c] + n]
          /\ inbox' = [inbox EXCEPT ![c] = inbox[c] + n]
    BY <1>2 DEF Send
  <2>2. n \in Nat
    BY <1>1, NetAssumption
  <2>3. /\ sent'[c] - inbox'[c] = sent[c] - inbox[c]
        /\ \A d \in Conns : d # c => inbox'[d] = inbox[d] /\ sent'[d] = sent[d]
    BY <1>1, <2>1, <2>2
  <2> QED
    BY <1>1, <1>2, <2>3 DEF Send, Client
<1>3. CASE Connect(c) \/ Quit(c)
  BY <1>1, <1>3 DEF Connect, Quit, Client
<1>4. CASE Receive(c) \/ HungUp(c)
  BY <1>4 DEF Receive, HungUp, Client
<1> QED
  BY <1>2, <1>3, <1>4 DEF Client

\* Steps that start no child, accept nothing and do not concern the parent refuse nobody.
LEMMA RefusedKept ==
  ASSUME UNCHANGED <<accepted, server, clientSocket, failures>>,
         \A c \in Conns : child'[c] = "none" <=> child[c] = "none",
         accepted \subseteq Conns
  PROVE  Refused' = Refused /\ failures' = failures
BY DEF Refused

LEMMA ParentServes ==
  ASSUME IInv, Finished, (\E c \in Conns : Accept(c)) \/ Fork \/ ForkFails \/ Close
  PROVE  Finished'
<1>1. /\ child \in [Conns -> {"none", "read", "write", "store", "done", "killed"}]
      /\ accepted \subseteq Conns /\ clientSocket \in Conns \cup {Nobody}
      /\ failures \in Nat
  BY ForkAssumption DEF IInv, TypeOK
<1>2. UNCHANGED <<peer, inbox, sent>>
  BY DEF Accept, Fork, ForkFails, Close, net
<1>3. ASSUME NEW c \in Conns, Accept(c) PROVE Finished'
  <2>1. /\ server = "accept" /\ server' = "fork" /\ clientSocket' = c /\ peer[c] # "none"
        /\ accepted' = accepted \cup {c} /\ UNCHANGED <<failures, child>>
    BY <1>3 DEF Accept
  <2>2. clientSocket = Nobody /\ c \notin accepted
    BY <1>3, <2>1 DEF Finished, Accept
  <2>3. Refused' = Refused
    BY <2>1, <2>2, <1>1, ForkAssumption DEF Refused
  <2>4. \A d \in Conns : Served(d)'
    BY <1>2, <2>1 DEF Finished, Served
  <2> QED
    BY <2>1, <2>3, <2>4 DEF Finished
<1>4. CASE Fork
  <2>1. /\ clientSocket \in Conns /\ child[clientSocket] = "none" /\ server = "fork"
        /\ child' = [child EXCEPT ![clientSocket] = "read"]
        /\ server' = "close" /\ UNCHANGED <<accepted, failures, clientSocket>>
    BY <1>4 DEF Fork, IInv, Fresh
  <2>2. \A d \in Conns : child'[d] = IF d = clientSocket THEN "read" ELSE child[d]
    BY <1>1, <2>1
  <2>3. Refused' = Refused
    BY <1>1, <2>1, <2>2 DEF Refused
  <2>4. \A d \in Conns : Served(d)'
    <3> SUFFICES ASSUME NEW d \in Conns PROVE Served(d)'
      OBVIOUS
    <3>1. Served(d)
      BY DEF Finished
    <3> QED
      BY <1>2, <2>1, <2>2, <3>1 DEF Served
  <2> QED
    BY <2>1, <2>3, <2>4 DEF Finished
<1>5. CASE ForkFails
  <2>1. /\ clientSocket \in Conns /\ child[clientSocket] = "none" /\ server = "fork"
        /\ clientSocket \in accepted
        /\ failures' = failures + 1 /\ server' = "close"
        /\ UNCHANGED <<accepted, clientSocket, child>>
    BY <1>5, ForkAssumption DEF ForkFails, IInv, Fresh
  <2>2. Refused' = Refused \cup {clientSocket} /\ clientSocket \notin Refused
    BY <2>1 DEF Refused
  <2>3. IsFiniteSet(Refused)
    BY <1>1, NetAssumption, FS_Subset DEF Refused
  <2>4. Cardinality(Refused') = Cardinality(Refused) + 1 /\ Cardinality(Refused) \in Nat
    BY <2>2, <2>3, FS_AddElement, FS_CardinalityType
  <2>5. Cardinality(Refused') <= failures'
    BY <1>1, <2>1, <2>4 DEF Finished
  <2>6. \A d \in Conns : Served(d)'
    BY <1>2, <2>1 DEF Finished, Served
  <2> QED
    BY <2>1, <2>5, <2>6 DEF Finished
<1>6. CASE Close
  <2>1. /\ server = "close" /\ server' = "accept" /\ clientSocket' = Nobody
        /\ UNCHANGED <<accepted, failures, child>>
    BY <1>6 DEF Close
  <2>2. Refused' = Refused
    BY <2>1 DEF Refused
  <2>3. \A d \in Conns : Served(d)'
    BY <1>2, <2>1 DEF Finished, Served
  <2> QED
    BY <2>1, <2>2, <2>3 DEF Finished
<1> QED
  BY <1>3, <1>4, <1>5, <1>6

LEMMA FinishedHolds ==
  ASSUME IInv, Finished, [Next]_vars
  PROVE  Finished'
<1>1. /\ child \in [Conns -> {"none", "read", "write", "store", "done", "killed"}]
      /\ peer \in [Conns -> {"none", "up", "fin", "reset", "broken"}]
      /\ inbox \in [Conns -> Nat] /\ sent \in [Conns -> Nat]
      /\ accepted \subseteq Conns
  BY DEF IInv, TypeOK, NetTypeOK
<1>2. CASE Handler \/ Store \/ UNCHANGED vars
  <2>1. UNCHANGED <<child, accepted, server, clientSocket, failures, peer, inbox, sent>>
    BY <1>2 DEF Handler, Store, vars, parent, net
  <2>2. Refused' = Refused
    BY <2>1 DEF Refused
  <2>3. \A d \in Conns : Served(d)'
    BY <2>1 DEF Finished, Served
  <2> QED
    BY <2>1, <2>2, <2>3 DEF Finished
<1>3. ASSUME NEW c \in Conns, Child(c) PROVE Finished'
  <2>1. /\ child[c] # "none" /\ child'[c] # "none"
        /\ \A d \in Conns : d # c => child'[d] = child[d]
        /\ UNCHANGED <<accepted, server, clientSocket, failures, sent>>
    <3>1. /\ UNCHANGED <<accepted, server, clientSocket, failures>>
          /\ child[c] # "none"
      BY <1>3 DEF Child, ChildRead, ChildReadError, ChildEnd, ChildWrite, ChildKilled, ChildStore,
         parent
    <3>2. \E what \in {"read", "write", "store", "done", "killed"} :
            child' = [child EXCEPT ![c] = what]
      <4>1. CASE ChildReadError(c)
        <5>1. child' = [child EXCEPT ![c] = "read"]
          BY <1>1, <4>1 DEF ChildReadError
        <5> QED
          BY <5>1
      <4> QED
        BY <1>3, <4>1 DEF Child, ChildRead, ChildEnd, ChildWrite, ChildKilled, ChildStore
    <3>3. child'[c] # "none" /\ \A d \in Conns : d # c => child'[d] = child[d]
      BY <1>1, <3>2
    <3>4. sent' = sent
      BY <1>3 DEF Child, ChildRead, ChildReadError, ChildEnd, ChildWrite, ChildKilled, ChildStore,
         net, ReadUnits, ReadReset, WriteBack, Write, WriteOpen, WriteClosed, WriteReset
    <3> QED
      BY <3>1, <3>3, <3>4
  <2>2. Refused' = Refused /\ failures' = failures
    <3>1. \A d \in Conns : child'[d] = "none" <=> child[d] = "none"
      BY <2>1
    <3> QED
      BY <1>1, <2>1, <3>1, RefusedKept
  <2>3. \A d \in Conns : d # c => peer'[d] = peer[d] /\ inbox'[d] = inbox[d]
    <3>1. CASE ChildRead(c) \/ ChildReadError(c) \/ ChildWrite(c)
      BY <3>1, ChildCalls
    <3>2. CASE ChildEnd(c) \/ ChildKilled(c) \/ ChildStore(c)
      BY <3>2 DEF ChildEnd, ChildKilled, ChildStore, net
    <3> QED
      BY <1>3, <3>1, <3>2 DEF Child
  <2>4. Served(c)
    BY DEF Finished
  <2>5. Served(c)'
    <3>1. CASE ChildRead(c)
      <4>1. PICK n \in 1 .. BUF_SIZE : ReadUnits(c, n)
        BY <3>1 DEF ChildRead
      <4>2. /\ n \in Nat /\ 1 <= n /\ n <= inbox[c] /\ peer' = peer
            /\ inbox' = [inbox EXCEPT ![c] = inbox[c] - n]
        BY <4>1, ForkAssumption DEF ReadUnits
      <4>3. child'[c] = "write" /\ inbox'[c] < sent[c]
        BY <1>1, <2>4, <3>1, <4>2 DEF ChildRead, Served
      <4>4. inbox'[c] \in Int /\ sent[c] \in Int
        BY <1>1, <4>2
      <4>5. inbox'[c] <= sent'[c] /\ inbox'[c] < sent'[c]
        BY <2>1, <4>3, <4>4
      <4> QED
        BY <2>1, <2>4, <4>2, <4>3, <4>5 DEF Served
    <3>2. CASE ChildReadError(c) \/ ChildWrite(c)
      <4>1. /\ child'[c] \in {"read", "store"} /\ UNCHANGED inbox
            /\ peer'[c] = "none" => peer[c] = "none"
        BY <1>1, <3>2 DEF ChildReadError, ChildWrite, ReadReset, WriteBack, Write, WriteOpen,
           WriteClosed, WriteReset
      <4> QED
        BY <2>1, <2>4, <4>1 DEF Served
    <3>3. CASE ChildEnd(c)
      BY <1>1, <2>1, <2>4, <3>3 DEF ChildEnd, Ended, AtEnd, Served, net
    <3>4. CASE ChildKilled(c)
      BY <1>1, <2>1, <2>4, <3>4 DEF ChildKilled, BrokenPipe, Served, net
    <3>5. CASE ChildStore(c)
      BY <1>1, <2>1, <2>4, <3>5 DEF ChildStore, Served, net
    <3> QED
      BY <1>3, <3>1, <3>2, <3>3, <3>4, <3>5 DEF Child
  <2>6. ASSUME NEW d \in Conns, d # c PROVE Served(d)'
    <3>1. Served(d)
      BY DEF Finished
    <3> QED
      BY <2>1, <2>3, <2>6, <3>1 DEF Served
  <2> QED
    BY <2>1, <2>2, <2>5, <2>6 DEF Finished
<1>4. ASSUME NEW c \in Conns, Client(c) PROVE Finished'
  <2>1. /\ \A d \in Conns : d # c => /\ peer'[d] = peer[d] /\ inbox'[d] = inbox[d]
                                     /\ sent'[d] = sent[d]
        /\ \/ peer[c] \in {"none", "up"} /\ peer'[c] # "none"
           \/ UNCHANGED <<peer, inbox, sent>>
        /\ sent'[c] - inbox'[c] = sent[c] - inbox[c]
        /\ UNCHANGED <<child, accepted, server, clientSocket, failures>>
    BY <1>4, ClientCalls DEF parent
  <2>2. Refused' = Refused
    BY <1>1, <2>1, RefusedKept
  <2>3. ASSUME NEW d \in Conns PROVE Served(d)'
    <3>1. Served(d)
      BY DEF Finished
    <3>2. CASE d # c
      BY <2>1, <3>1, <3>2 DEF Served
    <3>3. CASE d = c
      <4>1. CASE UNCHANGED <<peer, inbox, sent>>
        BY <2>1, <3>1, <4>1 DEF Served
      <4>2. CASE peer[c] \in {"none", "up"} /\ peer'[c] # "none"
        <5>1. inbox' \in [Conns -> Nat] /\ sent' \in [Conns -> Nat]
          BY <1>4, NetType DEF IInv, TypeOK, NetTypeOK, Client
        <5>2. /\ inbox'[c] <= sent'[c] <=> inbox[c] <= sent[c]
              /\ inbox'[c] = sent'[c] <=> inbox[c] = sent[c]
              /\ inbox'[c] < sent'[c] <=> inbox[c] < sent[c]
          BY <1>1, <2>1, <5>1
        <5>3. child[c] \notin {"done", "killed"} /\ child' = child
          BY <2>1, <3>1, <3>3, <4>2 DEF Served
        <5> QED
          BY <2>1, <3>1, <3>3, <4>2, <5>2, <5>3 DEF Served
      <4> QED
        BY <2>1, <4>1, <4>2
    <3> QED
      BY <3>2, <3>3
  <2> QED
    BY <2>1, <2>2, <2>3 DEF Finished
<1> QED
  BY <1>2, <1>3, <1>4, ParentServes DEF Next, Parent

----------------------------------------------------------------------------
Status ==
  [c \in Conns |->
    IF Dropped(c)
      THEN IF child[c] = "done" THEN "closed" ELSE IF child[c] = "killed" THEN "cut" ELSE "refused"
    ELSE IF peer[c] = "none" THEN "none"
    ELSE IF peer[c] = "up" THEN "open" ELSE "left"]
Echoed == [c \in Conns |-> sent[c] - inbox[c]]

LEMMA ServiceVars == Service!vars = <<Status, sent, Echoed, TRUE>>
BY DEF Service!vars, Status, Echoed

LEMMA ServiceCardinality == ASSUME NEW S PROVE Service!Cardinality(S) = Cardinality(S)
BY DEF Service!Cardinality, Cardinality

LEMMA InitRefines == Init => Service!Init /\ Finished
<1> SUFFICES ASSUME Init PROVE Service!Init /\ Finished
  OBVIOUS
<1>1. Status = [c \in Conns |-> "none"]
  BY DEF Init, NetInit, Status, Dropped
<1>2. Echoed = [c \in Conns |-> 0] /\ sent = [c \in Conns |-> 0]
  BY DEF Init, NetInit, Echoed
<1>3. Service!Init
  BY <1>1, <1>2 DEF Service!Init, Status, Echoed
<1>4. Refused = {}
  BY DEF Init, Refused
<1>5. Cardinality(Refused) <= failures
  BY <1>4, FS_EmptySet DEF Init
<1>6. Finished
  BY <1>5 DEF Init, NetInit, Finished, Served
<1> QED
  BY <1>3, <1>6

\* A step that changes no connection as the service sees it.
LEMMA Unseen ==
  ASSUME \A c \in Conns :
           /\ Dropped(c)' <=> Dropped(c)
           /\ Dropped(c) => child'[c] = child[c]
           /\ ~Dropped(c) => /\ peer'[c] = "up" <=> peer[c] = "up"
                             /\ peer'[c] = "none" <=> peer[c] = "none",
         sent' = sent, inbox' = inbox
  PROVE  UNCHANGED Service!vars
<1>1. Status' = Status
  BY DEF Status
<1>2. Echoed' = Echoed
  BY DEF Echoed
<1> QED
  BY <1>1, <1>2, ServiceVars DEF Service!vars, Status, Echoed

\* A connection loses the last descriptor open on it: it is closed, cut or refused, as what
\* became of its child says.
LEMMA Drops ==
  ASSUME IInv, Finished, NEW c \in Conns,
         UNCHANGED <<peer, inbox, sent>>, peer[c] # "none",
         ~Dropped(c), Dropped(c)',
         \A d \in Conns : d # c => (Dropped(d)' <=> Dropped(d)) /\ child'[d] = child[d],
         child'[c] = "done" => inbox[c] = 0 /\ peer[c] # "up",
         child'[c] = "killed" => inbox[c] < sent[c] /\ peer[c] # "up",
         child'[c] = "none" => c \in Refused /\ inbox[c] = sent[c]
  PROVE  Service!Next
<1>1. /\ inbox \in [Conns -> Nat] /\ sent \in [Conns -> Nat]
      /\ peer \in [Conns -> {"none", "up", "fin", "reset", "broken"}]
      /\ accepted \subseteq Conns /\ failures \in 0 .. MaxForkFail
  BY DEF IInv, TypeOK, NetTypeOK
<1>2. child'[c] \in {"none", "done", "killed"}
  BY DEF Dropped
<1>3. Echoed' = Echoed /\ Echoed[c] = sent[c] - inbox[c]
  BY DEF Echoed
<1>4. Status[c] = IF peer[c] = "up" THEN "open" ELSE "left"
  BY DEF Status
<1>5. Status' = [Status EXCEPT ![c] = IF child'[c] = "done" THEN "closed"
                                      ELSE IF child'[c] = "killed" THEN "cut" ELSE "refused"]
  BY DEF Status
<1>6. CASE child'[c] = "done"
  <2>1. Status[c] = "left" /\ Echoed[c] = sent[c]
    BY <1>1, <1>3, <1>4, <1>6
  <2>2. Status' = [Status EXCEPT ![c] = "closed"]
    BY <1>5, <1>6
  <2>3. Service!Close(c)
    BY <1>3, <2>1, <2>2 DEF Service!Close, Status, Echoed
  <2> QED
    BY <2>3 DEF Service!Next
<1>7. CASE child'[c] = "killed"
  <2>1. Status[c] = "left" /\ Echoed[c] > 0
    BY <1>1, <1>3, <1>4, <1>7
  <2>2. Status' = [Status EXCEPT ![c] = "cut"]
    BY <1>5, <1>7
  <2>3. Service!Cut(c)
    BY <1>3, <2>1, <2>2 DEF Service!Cut, Status, Echoed
  <2> QED
    BY <2>3 DEF Service!Next
<1>8. CASE child'[c] = "none"
  <2>1. Status[c] \in {"open", "left"} /\ Echoed[c] = 0
    BY <1>1, <1>3, <1>4, <1>8
  <2>2. Status' = [Status EXCEPT ![c] = "refused"]
    BY <1>5, <1>8
  <2> DEFINE R == {d \in Conns : Status[d] = "refused"}
  <2>3. R \subseteq Refused \ {c}
    <3>1. \A d \in R : Dropped(d) /\ child[d] = "none"
      BY <1>1 DEF Status, Dropped
    <3>2. c \notin R
      BY <3>1
    <3>3. \A d \in R : d \in Refused
      BY <3>1 DEF Dropped, Refused
    <3> QED
      BY <3>2, <3>3
  <2>4. IsFiniteSet(Refused)
    BY <1>1, NetAssumption, FS_Subset DEF Refused
  <2>5. /\ Cardinality(Refused \ {c}) = Cardinality(Refused) - 1
        /\ IsFiniteSet(Refused \ {c}) /\ Cardinality(Refused) \in Nat
    BY <1>8, <2>4, FS_RemoveElement, FS_CardinalityType
  <2>6. Cardinality(R) <= Cardinality(Refused) - 1 /\ Cardinality(R) \in Nat
    BY <2>3, <2>5, FS_Subset, FS_CardinalityType
  <2>7. Cardinality(R) < MaxForkFail
    BY <1>1, <2>5, <2>6, ForkAssumption DEF Finished
  <2>8. Service!Refuse(c)
    <3>1. Service!Refusals = R
      BY DEF Service!Refusals, Status
    <3> HIDE DEF R
    <3>2. Service!Cardinality(Service!Refusals) < MaxForkFail
      BY <2>7, <3>1, ServiceCardinality
    <3> QED
      BY <1>3, <2>1, <2>2, <3>2 DEF Service!Refuse, Status, Echoed
  <2> QED
    BY <2>8 DEF Service!Next
<1> QED
  BY <1>2, <1>6, <1>7, <1>8

\* The parent: closing its descriptor of a connection whose child has ended, or that has none,
\* drops the connection; everything else is not seen.
LEMMA ParentRefines ==
  ASSUME IInv, Finished,
         (\E c \in Conns : Accept(c)) \/ Fork \/ ForkFails \/ Close
  PROVE  Service!Next \/ UNCHANGED Service!vars
<1>1. UNCHANGED <<peer, inbox, sent>>
  BY DEF Accept, Fork, ForkFails, Close, net
<1>2. ASSUME NEW c \in Conns, Accept(c) PROVE UNCHANGED Service!vars
  <2>1. /\ clientSocket = Nobody /\ clientSocket' = c /\ child' = child
        /\ c \notin accepted /\ accepted' = accepted \cup {c}
    BY <1>2 DEF Accept, Finished
  <2>2. \A d \in Conns : Dropped(d)' <=> Dropped(d)
    BY <2>1, ForkAssumption DEF Dropped
  <2> QED
    BY <1>1, <2>1, <2>2, Unseen
<1>3. CASE Fork
  <2>1. /\ clientSocket \in Conns /\ child[clientSocket] = "none"
        /\ child' = [child EXCEPT ![clientSocket] = "read"]
        /\ clientSocket' = clientSocket /\ accepted' = accepted
    BY <1>3 DEF Fork, IInv, Fresh
  <2>2. \A d \in Conns : d # clientSocket => child'[d] = child[d]
    BY <2>1 DEF IInv, TypeOK
  <2>3. \A d \in Conns : Dropped(d)' <=> Dropped(d)
    BY <2>1, <2>2 DEF Dropped
  <2>4. \A d \in Conns : Dropped(d) => child'[d] = child[d]
    BY <2>2 DEF Dropped
  <2> QED
    BY <1>1, <2>3, <2>4, Unseen
<1>4. CASE ForkFails
  BY <1>1, <1>4, Unseen DEF ForkFails, Dropped
<1>5. CASE Close
  <2>1. clientSocket' = Nobody /\ child' = child /\ accepted' = accepted /\ server = "close"
    BY <1>5 DEF Close
  <2>2. CASE clientSocket \in Conns /\ child[clientSocket] \in {"none", "done", "killed"}
    <3>0. PICK c \in Conns : c = clientSocket /\ child[c] \in {"none", "done", "killed"}
      BY <2>2
    <3>1. c \in accepted
      BY <3>0, ForkAssumption DEF IInv, Fresh
    <3>2. ~Dropped(c) /\ Dropped(c)' /\ \A d \in Conns : d # c => (Dropped(d)' <=> Dropped(d))
      BY <2>1, <3>0, <3>1, ForkAssumption DEF Dropped
    <3>3. Served(c)
      BY DEF Finished
    <3>4. /\ peer[c] # "none"
          /\ child'[c] = "done" => inbox[c] = 0 /\ peer[c] # "up"
          /\ child'[c] = "killed" => inbox[c] < sent[c] /\ peer[c] # "up"
          /\ child'[c] = "none" => c \in Refused /\ inbox[c] = sent[c]
      BY <2>1, <3>1, <3>3 DEF Served, Refused
    <3> QED
      BY <1>1, <2>1, <3>2, <3>4, Drops
  <2>3. CASE ~(clientSocket \in Conns /\ child[clientSocket] \in {"none", "done", "killed"})
    <3>1. \A d \in Conns : Dropped(d)' <=> Dropped(d)
      BY <2>1, <2>3, ForkAssumption DEF Dropped
    <3> QED
      BY <1>1, <2>1, <3>1, Unseen
  <2> QED
    BY <2>2, <2>3
<1> QED
  BY <1>2, <1>3, <1>4, <1>5

\* A child that reads takes units to echo.
LEMMA ReadRefines ==
  ASSUME IInv, Finished, NEW c \in Conns, ChildRead(c)
  PROVE  Service!Next
<1>1. PICK n \in 1 .. BUF_SIZE : ReadUnits(c, n)
  BY DEF ChildRead
<1>2. /\ child[c] = "read" /\ child' = [child EXCEPT ![c] = "write"]
      /\ clientSocket' = clientSocket /\ accepted' = accepted
      /\ n \in Nat /\ 1 <= n /\ n <= inbox[c]
      /\ inbox' = [inbox EXCEPT ![c] = inbox[c] - n] /\ UNCHANGED <<peer, sent>>
      /\ inbox \in [Conns -> Nat] /\ sent \in [Conns -> Nat] /\ inbox[c] <= sent[c]
  <2>1. /\ child[c] = "read" /\ child' = [child EXCEPT ![c] = "write"]
        /\ clientSocket' = clientSocket /\ accepted' = accepted
    BY DEF ChildRead, parent
  <2>2. /\ n \in Nat /\ 1 <= n /\ n <= inbox[c]
        /\ inbox' = [inbox EXCEPT ![c] = inbox[c] - n] /\ UNCHANGED <<peer, sent>>
    BY <1>1, ForkAssumption DEF ReadUnits
  <2>3. inbox \in [Conns -> Nat] /\ sent \in [Conns -> Nat] /\ inbox[c] <= sent[c]
    BY DEF IInv, TypeOK, NetTypeOK, Finished, Served
  <2> QED
    BY <2>1, <2>2, <2>3
<1>3. peer[c] # "none"
  BY <1>2 DEF Finished, Served, IInv, Fresh
<1>4. \A d \in Conns : d # c => child'[d] = child[d]
  BY <1>2 DEF IInv, TypeOK
<1>5. \A d \in Conns : (Dropped(d)' <=> Dropped(d)) /\ ~Dropped(c)
  BY <1>2, <1>4 DEF Dropped, IInv, TypeOK
<1>6. Status' = Status /\ Status[c] \in {"open", "left"}
  BY <1>2, <1>3, <1>4, <1>5 DEF Status
<1>7. Echoed' = [Echoed EXCEPT ![c] = sent[c] - inbox[c] + n]
  <2>1. sent[c] - (inbox[c] - n) = sent[c] - inbox[c] + n
    BY <1>2
  <2>2. Echoed' = [d \in Conns |-> IF d = c THEN sent[c] - (inbox[c] - n) ELSE Echoed[d]]
    BY <1>2 DEF Echoed
  <2> QED
    BY <2>1, <2>2 DEF Echoed
<1>8. sent[c] - inbox[c] + n \in Echoed[c] + 1 .. sent[c]
  BY <1>2 DEF Echoed
<1>9. Service!Echo(c)
  BY <1>2, <1>6, <1>7, <1>8 DEF Service!Echo, Status, Echoed
<1> QED
  BY <1>9 DEF Service!Next

\* A child that ends, in order or not, closes its descriptor; the connection is dropped if the
\* parent was first.
LEMMA EndRefines ==
  ASSUME IInv, Finished, NEW c \in Conns, ChildEnd(c) \/ ChildKilled(c)
  PROVE  Service!Next \/ UNCHANGED Service!vars
<1>1. PICK how \in {"done", "killed"} :
        /\ child[c] \in {"read", "write"} /\ child' = [child EXCEPT ![c] = how]
        /\ how = "done" => inbox[c] = 0 /\ peer[c] \in {"fin", "broken"}
        /\ how = "killed" => child[c] = "write" /\ peer[c] \in {"reset", "broken"}
  BY DEF ChildEnd, ChildKilled, Ended, AtEnd, BrokenPipe
<1>2. UNCHANGED <<clientSocket, accepted, peer, inbox, sent>>
  BY DEF ChildEnd, ChildKilled, parent, net
<1>3. child'[c] = how /\ \A d \in Conns : d # c => child'[d] = child[d]
  BY <1>1 DEF IInv, TypeOK
<1>4. Served(c) /\ c \in accepted
  BY <1>1 DEF Finished, IInv, Fresh
<1>5. /\ \A d \in Conns : d # c => (Dropped(d)' <=> Dropped(d))
      /\ ~Dropped(c) /\ (Dropped(c)' <=> clientSocket # c)
  BY <1>1, <1>2, <1>3, <1>4 DEF Dropped
<1>6. CASE clientSocket = c
  <2>1. \A d \in Conns : /\ Dropped(d)' <=> Dropped(d)
                         /\ Dropped(d) => child'[d] = child[d]
    BY <1>3, <1>5, <1>6
  <2> QED
    BY <1>2, <2>1, Unseen
<1>7. CASE clientSocket # c
  <2>1. /\ peer[c] # "none"
        /\ child'[c] = "done" => inbox[c] = 0 /\ peer[c] # "up"
        /\ child'[c] = "killed" => inbox[c] < sent[c] /\ peer[c] # "up"
        /\ child'[c] # "none"
    BY <1>1, <1>3, <1>4 DEF Served
  <2> QED
    BY <1>2, <1>3, <1>5, <1>7, <2>1, Drops
<1> QED
  BY <1>6, <1>7

LEMMA QuietRefines ==
  ASSUME IInv, Finished,
         \/ \E c \in Conns : ChildReadError(c) \/ ChildWrite(c) \/ ChildStore(c)
         \/ Handler \/ Store \/ UNCHANGED vars
  PROVE  UNCHANGED Service!vars
<1>1. UNCHANGED <<inbox, sent, clientSocket, accepted>>
  BY DEF ChildReadError, ChildWrite, ChildStore, Handler, Store, vars, net, parent,
         ReadReset, WriteBack, Write, WriteOpen, WriteClosed, WriteReset
<1>2. CASE Handler \/ Store \/ UNCHANGED vars
  BY <1>1, <1>2, Unseen DEF Handler, Store, vars, net, Dropped
<1>3. ASSUME NEW c \in Conns, ChildReadError(c) \/ ChildWrite(c) \/ ChildStore(c)
      PROVE  UNCHANGED Service!vars
  <2>1. \A d \in Conns : /\ peer'[d] = "up" <=> peer[d] = "up"
                         /\ peer'[d] = "none" <=> peer[d] = "none"
    <3>1. CASE ChildStore(c)
      BY <3>1 DEF ChildStore, net
    <3> QED
      BY <1>3, <3>1, ChildCalls
  <2>2. /\ child[c] \in {"read", "write", "store"} /\ child'[c] \in {"read", "write", "store"}
        /\ \A d \in Conns : d # c => child'[d] = child[d]
    <3>1. CASE ChildStore(c)
      BY <3>1 DEF ChildStore, IInv, TypeOK
    <3> QED
      BY <1>3, <3>1, ChildCalls
  <2>3. \A d \in Conns : /\ Dropped(d)' <=> Dropped(d)
                         /\ Dropped(d) => child'[d] = child[d]
    BY <1>1, <2>2 DEF Dropped
  <2> QED
    BY <1>1, <2>1, <2>3, Unseen
<1> QED
  BY <1>2, <1>3

LEMMA ClientRefines ==
  ASSUME IInv, Finished, NEW c \in Conns, Client(c)
  PROVE  Service!Next \/ UNCHANGED Service!vars
<1>1. UNCHANGED <<child, clientSocket, accepted>>
  BY DEF Client, parent
<1>2. /\ peer \in [Conns -> {"none", "up", "fin", "reset", "broken"}]
      /\ inbox \in [Conns -> Nat] /\ sent \in [Conns -> Nat]
  BY DEF IInv, TypeOK, NetTypeOK
<1>3. \A d \in Conns : Dropped(d)' <=> Dropped(d)
  BY <1>1 DEF Dropped
<1>4. Served(c)
  BY DEF Finished
<1>5. CASE Connect(c)
  <2>1. peer[c] = "none" /\ peer' = [peer EXCEPT ![c] = "up"] /\ UNCHANGED <<inbox, sent>>
    BY <1>5 DEF Connect
  <2>2. ~Dropped(c)
    BY <1>4, <2>1 DEF Dropped, Served
  <2>3. Status[c] = "none" /\ Status' = [Status EXCEPT ![c] = "open"] /\ Echoed' = Echoed
    BY <1>1, <1>2, <1>3, <2>1, <2>2 DEF Status, Echoed
  <2>4. Service!Open(c)
    BY <2>1, <2>3 DEF Service!Open, Status, Echoed
  <2> QED
    BY <2>4 DEF Service!Next
<1>6. CASE Send(c)
  <2>1. PICK n \in 1 .. MaxSent - sent[c] :
          /\ sent' = [sent EXCEPT ![c] = sent[c] + n]
          /\ inbox' = [inbox EXCEPT ![c] = inbox[c] + n]
    BY <1>6 DEF Send
  <2>2. n \in Nat /\ n >= 1 /\ peer[c] = "up" /\ peer' = peer
    BY <1>2, <1>6, <2>1, NetAssumption DEF Send
  <2>3. Status' = Status
    BY <1>1, <1>3, <2>2 DEF Status
  <2>4. Status[c] \in {"open", "refused"}
    <3>1. child[c] \notin {"done", "killed"}
      BY <1>4, <2>2 DEF Served
    <3> QED
      BY <2>2, <3>1 DEF Status
  <2>5. sent' = [sent EXCEPT ![c] = sent'[c]] /\ sent'[c] \in Nat /\ sent'[c] > sent[c]
    BY <1>2, <2>1, <2>2
  <2>6. Echoed' = Echoed
    BY <1>2, <2>1, <2>2 DEF Echoed
  <2>7. Service!Send(c)
    BY <2>3, <2>4, <2>5, <2>6 DEF Service!Send, Status, Echoed
  <2> QED
    BY <2>7 DEF Service!Next
<1>7. CASE Receive(c) \/ HungUp(c)
  BY <1>1, <1>3, <1>7, Unseen DEF Receive, HungUp
<1>8. CASE Quit(c)
  <2>1. /\ peer[c] = "up" /\ UNCHANGED <<inbox, sent>>
        /\ \E p \in {"fin", "reset"} : peer' = [peer EXCEPT ![c] = p]
    BY <1>8 DEF Quit
  <2>2. CASE Dropped(c)
    <3>1. \A d \in Conns : ~Dropped(d) => peer'[d] = peer[d]
      BY <1>2, <2>1, <2>2
    <3> QED
      BY <1>1, <1>3, <2>1, <3>1, Unseen
  <2>3. CASE ~Dropped(c)
    <3>1. Status[c] = "open" /\ Status' = [Status EXCEPT ![c] = "left"]
      BY <1>1, <1>2, <1>3, <2>1, <2>3 DEF Status
    <3>2. Echoed' = Echoed
      BY <2>1 DEF Echoed
    <3>3. Service!Leave(c)
      BY <2>1, <3>1, <3>2 DEF Service!Leave, Status, Echoed
    <3> QED
      BY <3>3 DEF Service!Next
  <2> QED
    BY <2>2, <2>3
<1> QED
  BY <1>5, <1>6, <1>7, <1>8 DEF Client

\* The forking servers are echo services: each unit is taken once, and a connection that no
\* process has open any more was closed, by its child and the parent in either order, after its
\* client had left and all it had sent was taken; or was cut when its child was killed as the
\* client had left; or was refused with nothing taken, which befalls no more connections than
\* fork() failed for.
THEOREM Refines == Spec => ImplementsService
<1>1. IInv /\ Finished /\ [Next]_vars => Finished'
  BY FinishedHolds
<1>2. IInv /\ Finished /\ [Next]_vars => [Service!Next]_Service!vars
  <2> SUFFICES ASSUME IInv, Finished, [Next]_vars
               PROVE  Service!Next \/ UNCHANGED Service!vars
    OBVIOUS
  <2> QED
    BY ParentRefines, ReadRefines, EndRefines, QuietRefines, ClientRefines
       DEF Next, Parent, Child
<1> QED
  BY <1>1, <1>2, InitRefines, Invariance, PTL DEF Spec, ImplementsService, Service!Spec
=============================================================================
